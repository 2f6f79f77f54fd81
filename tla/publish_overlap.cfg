\* Two invocations for one date at once, and nothing fails.
CONSTANTS
  Dates = {d1}
  Rankings = {r1, r2}
  Metadata = {m1}
  Absent = Absent
  Procs = {p1, p2}
  Faults = {}
SPECIFICATION Spec
PROPERTIES SnapshotImmutable

\* One invocation at a time; writes and restores may fail and the process may die anywhere.
CONSTANTS
  Dates = {d1, d2}
  Rankings = {r1, r2}
  Metadata = {m1, m2}
  Absent = Absent
  Procs = {p1}
  Faults = {"write", "restore", "kill"}
SPECIFICATION Spec
INVARIANTS TypeOK LiveIsArchived
PROPERTIES SnapshotBeforePublish SnapshotImmutable SuccessIsComplete

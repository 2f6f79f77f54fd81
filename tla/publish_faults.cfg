\* One invocation at a time; any read or write of a publish may fail.
CONSTANTS
  Dates = {d1, d2}
  Rankings = {r1, r2}
  Metadata = {m1, m2}
  Absent = Absent
  Procs = {p1}
  Faults = {"write"}
SPECIFICATION Spec
INVARIANTS LivePairMatches
PROPERTIES ImplementsAtomicPublish

\* The process may die anywhere: the live pair is then left half replaced.
CONSTANTS
  Dates = {d1}
  Rankings = {r1, r2}
  Metadata = {m1}
  Absent = Absent
  Procs = {p1}
  Faults = {"kill"}
SPECIFICATION Spec
INVARIANTS LivePairMatches

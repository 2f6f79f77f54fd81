\* Two writers and one reader; reads and writes may fail and a writer may die anywhere.
CONSTANTS
  Coins = {c1, c2}
  Dates = {1, 2}
  c1 = c1
  c2 = c2
  RunIds <- MixedRuns
  Extras = {e1, e2}
  Writers = {w1, w2}
  Readers = {r1}
  Faults = {"write", "read", "kill"}
  NoExtra = NoExtra
  Undated = Undated
  Absent = Absent
  NoRun = NoRun
  Unreadable = Unreadable
SPECIFICATION Spec
SYMMETRY WriterSymmetry
INVARIANTS TypeOK LatestIsComplete LookupsAreAnswered
PROPERTIES RecordsAreImmutable PublishedIsNeverRefused OriginalOutranksImport ImplementsAtomicStore

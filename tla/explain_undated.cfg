\* Imports with and without an audit, and nothing fails.
CONSTANTS
  Coins = {c1, c2}
  Dates = {1, 2}
  c1 = c1
  c2 = c2
  RunIds <- ImportedRuns
  Extras = {e1}
  Writers = {w1}
  Readers = {}
  Faults = {}
  NoExtra = NoExtra
  Undated = Undated
  Absent = Absent
  NoRun = NoRun
  Unreadable = Unreadable
SPECIFICATION Spec
PROPERTIES ImportsOnlyAdvance

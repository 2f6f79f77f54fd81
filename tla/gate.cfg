\* Every list of up to three of three pairs, under each profile; one name is malformed.
\* A build ends with its gate, so the specification may stop.
CONSTANTS
  Pairs = {1, 2, 3}
  WellFormed = {1, 2}
  Scores = {0, 1, 101}
  None = None
  Inputs <- AllInputs
  MaxEligible = 3
  MinPairs = 2
  TargetFinalPairs = 2
  MaxPairs = 2
SPECIFICATION Spec
INVARIANTS TypeOK ApprovedIsValid BestAreSelected OrderLeavesNoTrace ExplanationsAgree
CHECK_DEADLOCK FALSE

SPECIFICATION Spec
CONSTANTS
  None = None
  MaxUniverseAge = 1
  MaxRiskAge = 1
  FutureSkew = 1
  Inputs <- MCInputs
  ShortNotes = {}
  Evidence <- MCEvidence
  MaxReports = 2
  MaxRecords = 2
  KeepRefused = TRUE
  Now = 1
  DamagedTo = {"APPROVE_FOR_RESEARCH"}
  StaleReads = TRUE
  MaxDamage = 1
INVARIANTS
  TypeOK
  VerifiedChainIsHonest
  HandoffIsApproved
  HandoffRestsOnEvidence
CHECK_DEADLOCK FALSE

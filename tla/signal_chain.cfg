CONSTANTS
  None = None
  BullScore = 70
  BearScore = 70
  MinSymbols = 20
  RiskOn = 65
  RiskOff = 35
  MinConfidence = 60
  MinLong = 60
  MaxShort = 40
  Markets <- MCMarkets
  Universes <- MCUniverses
  StaleInput = 0
  StaleDecision = 0
  StaleExecution = 1
  StaleBridge = 0
  StaleContract = 0
  StaleAdapter = 0
  StaleRuntime = 1
  MaxNow = 3
SPECIFICATION Spec
INVARIANTS
  TypeOK
  ExposureIsEarned
  RevocationIsBounded

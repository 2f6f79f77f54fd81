SPECIFICATION Spec
CONSTANTS
  None = None
  Unit = 100
  Normal <- MCNormal
  Underscored <- MCUnderscored
  Coin <- MCCoin
  Requests <- MCRequests
INVARIANTS
  TypeOK
  ArtifactsAreWritten
  NothingAfterFailure
  AcceptedPlansResolve
  WeightsAreBounded
  ListedWasCleared

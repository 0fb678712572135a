SPECIFICATION FairSpec
CONSTANTS
  Order <- MCOrder
  CAValidity = 6
  CAThreshold = 2
  NodeValidity = 3
  NodeThreshold = 1
  Period = 5
  Duration = 2
  MaxWait = 2
  MaxTime = 7
  MaxEvents = 1
  Environments <- MCEnvironments
  None = None
INVARIANTS
  TypeOK
  CAOutlivesItsWindows
  ExpiresOnlyWhileCAWaits
PROPERTIES
  WorkloadsCatchUp
  IndexerCatchesUp

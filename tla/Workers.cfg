SPECIFICATION WorkersSpec
CONSTANTS
  Indexers = 3
  Workers = 2
  MaxUpdates = 2
  Environments <- MCEnvironments
  MaxReplicas = 3
  MaxChanges = 2
  MaxRestarts = 1
  MaxDepth = 1
  GracePeriod = 2
INVARIANTS
  WorkersTypeOK OneIndexerOut OneWorkerDown
PROPERTIES
  MasterRestartedLast AllUpdated GraceBeforeVerifying ScaleApplied

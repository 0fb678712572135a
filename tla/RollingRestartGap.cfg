SPECIFICATION Spec
CONSTANTS
  Indexers = 1
  Workers = 2
  MaxUpdates = 1
  Environments = {{"recreate"}}
INVARIANT NoTwoWorkersDown

SPECIFICATION Spec
CONSTANTS
  None = None
  BackupEdits = 0
  BackupFaults = 0
  MostShots = 2
  BackupEnvironments = {{}}
INVARIANTS OneShotIsOne
CHECK_DEADLOCK FALSE

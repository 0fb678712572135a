SPECIFICATION ResourcesSpec
CONSTANTS
  AuthEdits = 1
  AuthFaults = 1
  BeatEdits = 1
  BeatFaults = 2
  CertEdits = 1
  CertFaults = 2
  None = None
  Bodies = {b1, b2}
  Clusters = {c1, c2}
  MaxEdits = 3
  MaxSyncs = 1
  Environments <- MCSyncEnvironments
  RestoreIndices = {i1, i2}
  FirstIndex = i1
  RestoreFaults = 2
  SnapshotNames = 4
  SnapshotFaults = 2
  RepoEdits = 1
  RepoFaults = 2
  BackupEdits = 1
  BackupFaults = 2
  MostShots = 2
  JobFaults = 2
INVARIANTS
  ResourcesTypeOK ObjectIsOwned RestsWhenApplied OneSnapshot StatusIsTrue
  GoneIsUnregistered SavedBeforeOverwritten
PROPERTIES
  RestoresOnce Settles
CHECK_DEADLOCK FALSE

SPECIFICATION ConfigurationSpec
CONSTANTS
  RolloutFaults = 2
  RolloutEnvironments <- MCRolloutEnvironments
  PassEdits = 2
  PassFaults = 2
  PolicyEdits = 4
  PolicyFaults = 2
  ContentEdits = 2
  ContentFaults = 1
  Claims = {0, 1}
  MaxSize = 3
  VolumeEdits = 2
  VolumeFaults = 1
  Passwords = 5
  CredentialEdits = 2
  CredentialFaults = 1
  IndexerPods = 2
  Renewals = 2
  ReloadFaults = 3
  None = None
INVARIANTS
  ConfigurationTypeOK RolloutsAreEarned ConfigBeforePods ObservedIsApplied LinksKept
  LoadedIsValid ReportIsTrue
PROPERTIES
  EditsArrive
CHECK_DEADLOCK FALSE

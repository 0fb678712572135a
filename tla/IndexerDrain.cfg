SPECIFICATION FairSpec
CONSTANTS
  MaxReplicas = 3
  MaxChanges = 2
  MaxRestarts = 1
  Shards = {s1, s2}
  Environments <- MCEnvironments
INVARIANTS TypeOK ExclusionHeld VerifiedTargetEmpty NoShardOffline
PROPERTIES NoShrinkWhileDraining ScaleApplied

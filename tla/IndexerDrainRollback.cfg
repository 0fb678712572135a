SPECIFICATION Spec
CONSTANTS
  MaxReplicas = 2
  MaxChanges = 1
  MaxRestarts = 0
  Shards = {s1}
  Environments = {{"api"}}
PROPERTY FailedDrainRollsBack

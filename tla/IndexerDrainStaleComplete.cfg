SPECIFICATION Spec
CONSTANTS
  MaxReplicas = 3
  MaxChanges = 2
  MaxRestarts = 0
  Shards = {s1}
  Environments = {{}}
PROPERTY DrainedBeforeRemoval

SPECIFICATION Spec
CONSTANTS
  MaxReplicas = 2
  MaxChanges = 1
  MaxRestarts = 0
  MaxDepth = 1
  GracePeriod = 2
  Environments = {{"events"}}
PROPERTY GraceBeforeComplete

SPECIFICATION Spec
CONSTANTS
  None = None
  Bodies = {b1}
  Clusters = {c1}
  MaxEdits = 2
  MaxSyncs = 1
  Environments = {{"sync"}}
INVARIANTS CleanDeletion
CHECK_DEADLOCK FALSE

CONSTANTS
  Node = {0, 1, 2, 3, 4, 5}
  MaxPath = 6
  None = None
  Settings <- CirclingTasks
SPECIFICATION Spec
INVARIANTS
  NeverRevisits
CHECK_DEADLOCK FALSE

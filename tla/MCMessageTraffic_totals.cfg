CONSTANTS
  Node = {0, 1, 2, 3, 4, 5}
  MaxPath = 6
  None = None
  Settings <- Relaying
SPECIFICATION Spec
INVARIANTS
  TotalsMatchWhenPrinted
CHECK_DEADLOCK FALSE

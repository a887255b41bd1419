CONSTANTS
  n1 = n1
  n2 = n2
  n3 = n3
  Node = {n1, n2, n3}
  MayExit = {n1}
  Peers = 2
  Retries = 0
  MaxFaults = 1
  None = None
SPECIFICATION Spec
INVARIANTS
  SendsAfterReady
  CollectsReported
CONSTRAINT Replacement
CHECK_DEADLOCK FALSE

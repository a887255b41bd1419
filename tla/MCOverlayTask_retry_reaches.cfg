CONSTANTS
  n1 = n1
  n2 = n2
  n3 = n3
  Node = {n1, n2}
  MayExit = {}
  Peers = 2
  Retries = 1
  MaxFaults = 1
  None = None
SPECIFICATION FairSpec
PROPERTIES
  RetryReaches
CHECK_DEADLOCK FALSE

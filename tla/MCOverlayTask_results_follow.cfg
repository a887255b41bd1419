CONSTANTS
  n1 = n1
  n2 = n2
  n3 = n3
  Node = {n1, n2, n3}
  MayExit = {}
  Peers = 2
  Retries = 0
  MaxFaults = 0
  None = None
SPECIFICATION Spec
SYMMETRY Symmetry
INVARIANTS
  ResultsFollow
CHECK_DEADLOCK FALSE

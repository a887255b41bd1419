CONSTANTS
  n1 = n1
  n2 = n2
  n3 = n3
  Node = {n1, n2}
  MayExit = {}
  Peers = 2
  Retries = 1
  MaxFaults = 2
  None = None
SPECIFICATION Spec
SYMMETRY Symmetry
INVARIANTS
  TypeOK
  Routable
  PrintsFinishedRun
  ResultsFollow
PROPERTIES
  FollowsFlow
CHECK_DEADLOCK FALSE

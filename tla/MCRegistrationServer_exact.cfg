CONSTANTS
  n1 = n1
  n2 = n2
  n3 = n3
  c1 = c1
  c2 = c2
  c3 = c3
  Node = {n1, n2}
  Call = {n1, n2}
  CallNode <- OneCallPerNode
  MayExit = {}
  MayReport = {}
  DialCanFail = FALSE
  Peers = 2
  Retries = 1
  None = None
SYMMETRY Symmetry
SPECIFICATION Spec
INVARIANTS
  TypeOK
  StartsOnce
  TaskBarrier
  MonitorNotStuck
  OverlayReachesAll
  OverlayHasPeers
PROPERTIES
  CollectsAfterAllFinished
  PrintsEveryNode
CHECK_DEADLOCK FALSE

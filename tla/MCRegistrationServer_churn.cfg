CONSTANTS
  n1 = n1
  n2 = n2
  n3 = n3
  c1 = c1
  c2 = c2
  c3 = c3
  Node = {n1, n2}
  Call = {c1, c2, c3}
  CallNode <- TwoCallsForOneNode
  MayExit = {n1}
  MayReport = {n2}
  DialCanFail = TRUE
  Peers = 2
  Retries = 0
  None = None
SPECIFICATION Spec
INVARIANTS
  StartsOnce
  TaskBarrier
CHECK_DEADLOCK FALSE

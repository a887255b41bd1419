CONSTANTS
  Node = {0, 1, 2, 3, 4, 5}
  MaxPath = 6
  None = None
  Settings <- Tasks
SPECIFICATION FairSpec
INVARIANTS
  TypeOK
  SentFits
  CountedIsAccountedFor
  ReceivesOwnOnce
  ReturnsWeighNothing
  TotalsMatchAtRest
PROPERTIES
  Delivers
  Settles
CHECK_DEADLOCK FALSE

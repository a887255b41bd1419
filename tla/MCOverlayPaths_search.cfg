CONSTANTS
  Settings <- Sizes
  Weight <- SmallWeights
  None = None
SPECIFICATION FairSpec
INVARIANTS
  TypeOK
  AllServed
  DegreesFit
  OverlayConnected
  SimpleGraph
  IndexInRange
  PopsDistance
  HopsApproach
  ShortPathIsShortest
PROPERTIES
  PopsLeast
  BuildEnds
  SearchSucceeds
CHECK_DEADLOCK FALSE

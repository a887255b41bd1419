CONSTANTS
  Settings <- TemplateSize
  Weight <- DetourWeights
  None = None
SPECIFICATION Spec
INVARIANTS
  PathIsShortest
CHECK_DEADLOCK FALSE

SPECIFICATION Spec
CONSTANTS
  MaxConn = 1
  MayAsk <- FirstOfAnyKind
  MaxBlocks = 1
PROPERTIES
  DestructorEnds
CHECK_DEADLOCK FALSE

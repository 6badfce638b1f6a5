SPECIFICATION Spec
CONSTANTS
  MaxConn = 2
  MayAsk <- FirstOfAnyKind
  MaxBlocks = 1
INVARIANTS
  AllOrNothing
  ActiveRequestsAgree
  QuietWhenStopped
  AddressHasRoute
PROPERTIES
  CheckedOnceSubscribed
  AddressPublished
  UploadAnswered
CHECK_DEADLOCK FALSE

SPECIFICATION Spec
CONSTANTS
  Object = {o1, o2, m1, m2}
  Manifest = {m1, m2}
  Unreadable = {m2}
INVARIANTS
  TransmissionsHaveData
  SentInOrder
  OnlySentOrdinaryObjectsLeave
PROPERTIES
  EventuallySent
  EventuallyReclaimed
CHECK_DEADLOCK FALSE

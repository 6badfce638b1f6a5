SPECIFICATION Spec
CONSTANTS
  Object = {o1, o2, o3}
PROPERTIES
  EventuallySent
CHECK_DEADLOCK FALSE

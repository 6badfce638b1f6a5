SPECIFICATION Spec
CONSTANTS
  Object = {o1, o2}
  NoDeadline = 1
  HasDestination = TRUE
  Deadline <- NoDeadlines
  MaxAdds = 4
PROPERTIES
  ImplementsQueue
CHECK_DEADLOCK FALSE

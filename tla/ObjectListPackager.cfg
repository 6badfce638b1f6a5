SPECIFICATION Spec
CONSTANTS
  Object = {o1, o2, o3}
  NoDeadline = 3
  HasDestination = TRUE
  Deadline <- AnyDeadline
  MaxAdds = 4
INVARIANTS
  CompletionNamesSentObject
  HeldItemStaysListed
  SortedByDeadline
CHECK_DEADLOCK FALSE

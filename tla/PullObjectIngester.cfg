SPECIFICATION Spec
CONSTANTS
  Object = {"o1", "o2", "o3"}
  Answer <- Answers
  Deadline <- AnyDeadline
  NoDeadline = 3
  DefaultTimeout = 2
  Initial <- EmptyOrTwo
  MaxAsks = 3
  MaxTime = 2
INVARIANTS
  FirstComeFirstServed
  StoredInTime
  StoredAsServed
PROPERTIES
  ImplementsFetchQueue
  AbortEnds
CHECK_DEADLOCK FALSE

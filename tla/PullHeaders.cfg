SPECIFICATION Spec
CONSTANTS
  Object = {"o1", "o2", "o3"}
  Answer <- Answers
  Deadline <- NoDeadlines
  NoDeadline = 2
  DefaultTimeout = 1
  Initial <- OnlyEmpty
  MaxAsks = 3
  MaxTime = 1
INVARIANTS
  HeadersAsServed
CHECK_DEADLOCK FALSE

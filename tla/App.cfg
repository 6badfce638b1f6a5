SPECIFICATION Spec
CONSTANTS
  none = none
  notJson = notJson
  notASession = notASession
  None = none
  NotJSON = notJson
  NotASession = notASession
  Id = {"s1", "s2"}
  DistSession <- MCDistSession
  Request <- MCRequest
  MaxRequests = 3
INVARIANTS
  CreatedIffServable
  NothingGoneInService
PROPERTIES
  ImplementsRegistry
  RequestsAnswered
  TerminationEnds
CHECK_DEADLOCK FALSE

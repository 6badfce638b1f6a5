SPECIFICATION Spec
CONSTANTS
  Subscriber = {1, 2}
  EventName = {a, b}
  SyncThread = {mhd}
  Caller = {main}
  MaxPosts = 3
INVARIANTS
  NoDangling
  ExclusiveRegistration
  NobodySkipped
  QuietWhenGone
PROPERTIES
  ImplementsChannel

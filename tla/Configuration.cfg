SPECIFICATION Spec
CONSTANTS
  a1 = a1
  a2 = a2
  a3 = a3
  b1 = b1
  Address = {a1, a2, a3, b1}
  Item <- Items
  MaxItems = 3
  MaxAddresses = 2
INVARIANTS
  FirstItemServes
  AnnouncedAsConfigured
CHECK_DEADLOCK FALSE

SPECIFICATION MCFairSpec
CONSTANTS
  t1 = t1
  Process = {1, 2, 3}
  NumSlots = 2
  Type = {t1}
  MaxEmits = 2
  MaxSends = 1
  MaxFails = 1
  MaxTotal = 4
CHECK_DEADLOCK FALSE
INVARIANTS
  NoStaleState
  BehindIsTold
PROPERTIES
  WaitReturns

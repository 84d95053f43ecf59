SPECIFICATION FairSpec
CONSTANTS
  p1 = p1
  p2 = p2
  p3 = p3
  Proc = {p1, p2, p3}
  Locks = {1}
  VarLocks = {}
  Values = {0}
  LW_VAL_EXCLUSIVE = 4
  MAX_SIMUL_LWLOCKS = 2
  MaxSpurious = 0
  MaxCalls = 1
  MaxTotal = 3
INVARIANT TypeOK
PROPERTIES
  RWSpec
  CallsReturn

SPECIFICATION MCSpec
CONSTANTS
  p1 = p1
  p2 = p2
  p3 = p3
  Proc = {p1, p2, p3}
  Locks = {1}
  VarLocks = {1}
  Values = {0, 1}
  LW_VAL_EXCLUSIVE = 4
  MAX_SIMUL_LWLOCKS = 2
  MaxSpurious = 1
  MaxCalls = 2
  MaxTotal = 3
SYMMETRY Symmetry
INVARIANTS
  MutualExclusion
  LockWordCountsHolders
  WaitListsWellFormed
  SemaphoreBalanced
  NoLostWakeup
  VarWaiterUpToDate

SPECIFICATION MCSpec
CONSTANTS
  p1 = p1
  p2 = p2
  p3 = p3
  Proc = {p1, p2, p3}
  SendOnly = {p3}
  MaxBackends = 2
  MAXNUMMESSAGES = 2
  MSGNUMWRAPAROUND = 2
  CLEANUP_MIN = 2
  CLEANUP_QUANTUM = 1
  SIG_THRESHOLD = 0
  WRITE_QUANTUM = 2
  MAXINVALMSGS = 1
  LXID_MODULUS = 3
  MaxSend = 2
  MaxDepth = 2
  MaxMsgs = 3
SYMMETRY Symmetry
INVARIANTS
  NothingMissed
  ProcessedBeforeReturn
  VirtualXidsConsecutive
PROPERTY CleanupMakesRoom

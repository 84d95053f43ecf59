SPECIFICATION MCFairSpec
CONSTANTS
  p1 = p1
  p2 = p2
  m1 = m1
  x1 = x1
  Proc = {p1, p2}
  FirstSegment = m1
  Segments = {x1}
  MAX_REQUESTS = 2
  CTR_MODULUS = 8
  CYCLE_MODULUS = 3
  FirstCkpt = 7
  MaxTimed = 1
  MaxFails = 1
  MaxOps = 3
  MaxChanges = 1
  MaxTotal = 3
INVARIANTS
  CheckpointIsDurable
  CancelArrivesInTime
  EntriesOneCycleOld
  RequestHonoured
  DropsDone
PROPERTIES
  UnlinkTiming
  OperationsReturn

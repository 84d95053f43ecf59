SPECIFICATION FairSpec
CONSTANTS
  p1 = p1
  p2 = p2
  p3 = p3
  c1 = c1
  c2 = c2
  Proc = {p1, p2, p3}
  CVs = {c1, c2}
  MaxNesting = 1
  MaxSpurious = 1
  MaxCalls = 2
  MaxTotal = 3
INVARIANTS
  WaitLinkUsedOnce
  SleeperCanBeWoken
  BroadcastReachesAll
PROPERTIES
  CallsReturn

SPECIFICATION MCSpec
CONSTANTS
  Backend = {1, 2, 3}
  Gxact = {4}
  PGPROC_MAX_CACHED_SUBXIDS = 1
  MaxXid = 6
  Scenarios = {"parents"}
  XidlessExport = FALSE
INVARIANT ParentsKept

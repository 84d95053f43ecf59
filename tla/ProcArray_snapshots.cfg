SPECIFICATION MCFairSpec
CONSTANTS
  Backend = {1, 2, 3}
  Gxact = {4}
  PGPROC_MAX_CACHED_SUBXIDS = 1
  MaxXid = 5
  Scenarios = {"snapshots", "subtransactions", "group", "horizons", "imports", "prepared", "connections"}
  XidlessExport = FALSE
INVARIANTS
  SnapshotIsExact
  FinishedIsDecided
  HorizonSafe
  GroupHasLeader
  InProgressAnswer
PROPERTY CallsReturn

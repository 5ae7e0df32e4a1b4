SPECIFICATION FairWatcherSpec

CONSTANTS
  j1 = j1
  j2 = j2
  Jobs = {j1, j2}
  Direction = "forward"
  StopHeight = 0
  StartHeights = {}
  ChanCap = 1
  MaxBacklog = 1
  Base = 1
  InitTip = 2
  MaxHeight = 4
  GetterCloses = FALSE
  RewindFroms <- MCRewindFroms

INVARIANTS
  NoMismatch
  SyncedIsHandled

PROPERTIES
  FeedsInOrder
  EveryBlockHandled
  ClosingEndsLoop

CHECK_DEADLOCK FALSE

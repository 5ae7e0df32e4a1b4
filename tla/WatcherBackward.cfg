SPECIFICATION FairWatcherSpec

CONSTANTS
  j1 = j1
  j2 = j2
  Jobs = {j1, j2}
  Direction = "backward"
  StopHeight = 0
  StartHeights = {}
  ChanCap = 1
  MaxBacklog = 1
  Base = 1
  InitTip = 4
  MaxHeight = 5
  GetterCloses = FALSE
  RewindFroms <- MCRewindFroms

INVARIANTS
  WatcherTypeOK

PROPERTIES
  FeedsInOrder
  BackwardHandled

CHECK_DEADLOCK FALSE

SPECIFICATION GetterSpec

CONSTANTS
  j1 = j1
  j2 = j2
  Jobs = {j1, j2}
  Direction = "forward"
  StopHeight = 0
  StartHeights <- MCStartHeights
  ChanCap = 1
  MaxBacklog = 1
  Base = 1
  InitTip = 1
  MaxHeight = 4
  GetterCloses = TRUE

INVARIANTS
  NoLostWakeup
  NothingLost
  PlacedOnce
  ChannelOrdered
  BacklogBounded

CHECK_DEADLOCK FALSE

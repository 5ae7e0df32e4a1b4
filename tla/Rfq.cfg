SPECIFICATION Spec

CONSTANTS
  CacheSize = 3
  BlockTime <- MCBlockTime
  StopHeight = 3
  Stamps = {1, 4, 7, 9, 14}
  MaxTxs = 2

INVARIANTS
  OnePointEach
  MissedExact
  ResolvedInWindow
  PendingExact
  NothingLeft

CHECK_DEADLOCK FALSE

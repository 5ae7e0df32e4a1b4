SPECIFICATION Spec

CONSTANTS
  CacheSize = 3
  BlockTime <- MCBlockTime
  StopHeight = 0
  Stamps = {1, 4}
  MaxTxs = 1

INVARIANTS
  OneWrittenEach

CHECK_DEADLOCK FALSE

SPECIFICATION CacheSpec

CONSTANTS
  CacheSize = 4
  BlockTime <- MCBlockTime

INVARIANTS
  CacheConsistent
  FloorExact
  NewestKept

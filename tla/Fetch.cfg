SPECIFICATION FairFetchSpec

CONSTANTS
  Attempts = 3

INVARIANTS
  NoPanic
  AllOrNothing

PROPERTIES
  CallEnds

CHECK_DEADLOCK FALSE

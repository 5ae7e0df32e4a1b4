CONSTANTS
  MaxHeight = 3
  MaxPoints = 2
SPECIFICATION FairSpec
INVARIANTS
  TypeOK
  NothingLostAtExit
  LossBounded
  NoLateReport
PROPERTIES
  ShutdownEnds
  MeasuresAgain
CHECK_DEADLOCK FALSE

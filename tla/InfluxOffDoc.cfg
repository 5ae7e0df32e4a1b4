CONSTANTS
  MaxHeight = 3
  MaxPoints = 2
SPECIFICATION Spec
INVARIANT
  RunsWithoutInflux
CHECK_DEADLOCK FALSE

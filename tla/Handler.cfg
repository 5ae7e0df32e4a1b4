SPECIFICATION Spec

CONSTANTS
  v1 = v1
  v2 = v2
  Validators = {v1, v2}
  Blocks <- MCBlocks
  BlockNanos <- MCBlockNanos
  Micro = 2
  InitTip = 1
  RewindFroms = {0, 3, 5}
  StopHeight = 2
  MaxRuns = 2

INVARIANTS
  CountsExact
  RunComplete

CHECK_DEADLOCK FALSE

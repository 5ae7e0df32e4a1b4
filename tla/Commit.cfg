SPECIFICATION CommitSpec

CONSTANTS
  v1 = v1
  v2 = v2
  v3 = v3
  v4 = v4
  Validators = {v1, v2, v3, v4}
  Times = {1, 2, 4}

SYMMETRY ValidatorSymmetry

INVARIANTS
  StatusesAgree
  RoundIsLargestDelay
  DelaysAddUp
  DistancesBalance

CHECK_DEADLOCK FALSE

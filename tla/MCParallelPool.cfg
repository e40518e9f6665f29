CONSTANTS
  Parts = {0, 1}
  MaxGen = 2
  MaxEpoch = 2
  ReclaimEnabled = TRUE
  Readers = {}
  Workers = 2
  MaxImm = 2
  RangeRouted = FALSE
  MaxFail = 0
  MaxCrash = 0
SPECIFICATION Spec
INVARIANT L0Ordered
CHECK_DEADLOCK FALSE

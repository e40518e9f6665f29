CONSTANTS
  Parts = {0}
  MaxGen = 1
  MaxEpoch = 1
  ReclaimEnabled = TRUE
  Readers = {r1}
  Workers = 1
  MaxImm = 2
  RangeRouted = TRUE
  MaxFail = 0
  MaxCrash = 0
SPECIFICATION Spec
INVARIANT SealedLocatorRegistered
CHECK_DEADLOCK FALSE

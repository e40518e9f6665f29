CONSTANTS
  Parts = {0, 1}
  MaxGen = 1
  MaxEpoch = 2
  ReclaimEnabled = TRUE
  Readers = {r1}
  Workers = 1
  MaxImm = 2
  RangeRouted = TRUE
  MaxFail = 0
  MaxCrash = 0
SPECIFICATION Spec
INVARIANT LocatorReadable
CHECK_DEADLOCK FALSE

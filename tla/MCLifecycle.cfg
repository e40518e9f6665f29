CONSTANTS
  Parts = {0, 1}
  MaxGen = 2
  MaxEpoch = 3
  ReclaimEnabled = TRUE
  Readers = {}
  Workers = 1
  MaxImm = 2
  RangeRouted = FALSE
  MaxFail = 1
  MaxCrash = 0
SPECIFICATION Spec
INVARIANTS TypeOK NoAckedLoss IndexedIsReadable MissMeansInstalled L0Ordered
CHECK_DEADLOCK FALSE

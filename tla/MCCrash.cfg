CONSTANTS
  Parts = {0}
  MaxGen = 2
  MaxEpoch = 2
  ReclaimEnabled = TRUE
  Readers = {r1}
  Workers = 2
  MaxImm = 2
  RangeRouted = TRUE
  MaxFail = 1
  MaxCrash = 2
SPECIFICATION FairSpec
INVARIANTS NoAckedLoss IndexedIsReadable PinnedStaysReadable
PROPERTIES ImplementsStore SealedIsReclaimed
CHECK_DEADLOCK FALSE

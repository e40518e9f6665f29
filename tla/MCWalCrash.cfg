CONSTANTS
  P = 2
  Width = 4
  Target = 4
  EpochTarget = 6
  IndexBudget = 0
  MaxBatch = 2
  BufLimit = 3
  Writers = {w1}
  Readers = {}
  UseRangeDel = FALSE
  PowerLoss = TRUE
  MaxRec = 5
  MaxGen = 2
  MaxCrash = 3
SPECIFICATION Spec
INVARIANTS WalTypeOK LocatorsResolve SyncedIsRecovered CountersExact AppendsToNewest
CHECK_DEADLOCK FALSE

CONSTANTS
  P = 2
  Width = 2
  Target = 4
  EpochTarget = 6
  IndexBudget = 0
  MaxBatch = 2
  BufLimit = 3
  Writers = {w1}
  Readers = {}
  UseRangeDel = TRUE
  PowerLoss = TRUE
  MaxRec = 3
  MaxGen = 2
  MaxCrash = 1
SPECIFICATION Spec
INVARIANTS SyncedIsIndexed
CHECK_DEADLOCK FALSE

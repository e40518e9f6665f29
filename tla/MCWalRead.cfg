CONSTANTS
  P = 1
  Width = 1
  Target = 4
  EpochTarget = 6
  IndexBudget = 3
  MaxBatch = 2
  BufLimit = 3
  Writers = {w1, w2}
  Readers = {r1}
  UseRangeDel = TRUE
  PowerLoss = FALSE
  MaxRec = 4
  MaxGen = 2
  MaxCrash = 0
SPECIFICATION Spec
INVARIANTS LocatorsResolve SealedReadIsOwn SealedIsWhole
CHECK_DEADLOCK FALSE

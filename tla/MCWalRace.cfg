CONSTANTS
  P = 1
  Width = 4
  Target = 2
  EpochTarget = 6
  IndexBudget = 0
  MaxBatch = 2
  BufLimit = 3
  Writers = {w1}
  Readers = {r1}
  UseRangeDel = FALSE
  PowerLoss = FALSE
  MaxRec = 4
  MaxGen = 2
  MaxCrash = 0
SPECIFICATION Spec
INVARIANTS NeverReadsAnother
CHECK_DEADLOCK FALSE

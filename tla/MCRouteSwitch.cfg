CONSTANTS
  P = 2
  Modes = {"Sampled"}
  MaxKey = 2
  Static = 1
  SampleEvery = 1
  MaxSamples = 3
  MaxFiles = 0
  MaxSize = 1
  MaxSeq = 4
  MaxEpoch = 2
  MaxCrash = 0
SPECIFICATION Spec
INVARIANTS ReadsNewest
CHECK_DEADLOCK FALSE

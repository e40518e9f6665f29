CONSTANTS
  P = 2
  Modes = {"Hash", "Static", "Sampled", "AlignL1"}
  MaxKey = 2
  Static = 1
  SampleEvery = 1
  MaxSamples = 3
  MaxFiles = 3
  MaxSize = 1
  MaxSeq = 4
  MaxEpoch = 2
  MaxCrash = 2
SPECIFICATION Spec
INVARIANTS RoutingTypeOK SettledReadsNewest RouteMatchesRange LearnedIsBalanced
CHECK_DEADLOCK FALSE

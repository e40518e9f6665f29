CONSTANTS
  Parts = {0, 1}
  MaxGen = 2
  MaxEpoch = 2
  ReclaimEnabled = TRUE
SPECIFICATION CacheSpec
INVARIANTS
  CacheTypeOK
  ReadableIsSafe
  OneOwner
  RefsMatchGens
PROPERTY GenMonotone

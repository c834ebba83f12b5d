SPECIFICATION FairSpec
CONSTANTS
  Block = 64
  Images <- NodeImages
INVARIANTS CollectsEvery
CHECK_DEADLOCK FALSE

\* A block of one sector.
SPECIFICATION FairSpec
CONSTANTS
  Block = 64
  Images <- MCImages
INVARIANTS TypeOK OutcomeFits RootsOwn CollectsAll
PROPERTIES Terminates
CHECK_DEADLOCK FALSE

SPECIFICATION FairSpec
CONSTANTS
  Block = 64
  Images <- SectionImages
INVARIANTS CleanIsFound
CHECK_DEADLOCK FALSE

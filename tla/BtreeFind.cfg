\* Two inodes of three offsets, extents of up to two sectors.
SPECIFICATION FairSpec
CONSTANTS
  Span = 3
  NoNode = NoNode
  MaxPos = 4
  MaxSize = 2
  Trees <- MCTrees
  References <- MCReferences
INVARIANTS TypeOK FindsExactly BoundedDetour
PROPERTY Terminates
CHECK_DEADLOCK FALSE

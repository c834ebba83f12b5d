SPECIFICATION FairSpec
CONSTANTS
  Span = 3
  NoNode = NoNode
  Placeholder = Zeroed
  MaxPos = 4
  MaxSize = 2
  Trees <- MCTrees
INVARIANTS TypeOK NothingSkipped
PROPERTIES Terminates ImplementsScan
CHECK_DEADLOCK FALSE

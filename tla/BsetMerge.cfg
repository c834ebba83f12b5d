\* Nodes of three bsets with resized keys, of two with mixed packings.
SPECIFICATION FairSpec
CONSTANTS
  MaxBsets = 3
  Nodes <- MCNodes
INVARIANTS TypeOK KeysAscending OnlyNewest NothingLost MixedNeverDone
PROPERTIES Completes ImplementsView
CHECK_DEADLOCK FALSE

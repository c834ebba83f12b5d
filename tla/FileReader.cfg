\* Two files of a process; a readinto crosses extents, a read1 stays in one.
SPECIFICATION FairSpec
CONSTANTS
  r1 = r1
  r2 = r2
  p1 = p1
  Reader = {r1, r2}
  Process = {p1}
  ProcessOf <- OneProcess
  Layouts <- MCLayouts
  Lengths = {1, 3}
  Offsets = {1, 2}
  ImageSize = 7
  Documented = TRUE
  Junk = Junk
INVARIANTS TypeOK CursorAgrees
PROPERTIES ImplementsStreams ReadReturns
CHECK_DEADLOCK FALSE

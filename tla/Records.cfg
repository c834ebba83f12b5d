SPECIFICATION RecordsSpec
CONSTANTS
  Base = 2
  ByteBits = 3
  SectorSize = 2
  Nodes <- MCNodes
INVARIANTS TypeOK UnpackingsAgree OrderKept RecordsExact
CHECK_DEADLOCK FALSE

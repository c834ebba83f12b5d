SPECIFICATION Spec
CONSTANTS
  Trees = 2
  Levels <- MCLevels
  Empty = {2}
  Clients = {c1, c2}
  Search = search
  None = None
INVARIANTS TypeOK PointersLive 
CHECK_DEADLOCK FALSE

SPECIFICATION Spec
CONSTANTS
  MaxBsets = 2
  Nodes <- Resizings
INVARIANT NewestPerPosition
CHECK_DEADLOCK FALSE

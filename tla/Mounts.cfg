SPECIFICATION Spec
CONSTANTS
  Process = {p1, p2}
  Object = {a, b, c}
  MaxHandles = 5
  None = None
SYMMETRY Names
INVARIANTS TypeOK FilesFollowOwners CopiesIndependent LeaksAreIterated
CHECK_DEADLOCK FALSE

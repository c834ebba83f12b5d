SPECIFICATION Spec
CONSTANTS
  None = None
  Mounted = Mounted
  Images <- MCImages
  SectorSize = 2
  Hash <- MCHash
  Paths <- MCPaths
INVARIANTS LookupsAgree ListingsAgree OpensAgree OpensLayouts
PROPERTIES CdLands
CHECK_DEADLOCK FALSE

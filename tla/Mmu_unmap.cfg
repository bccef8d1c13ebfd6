SPECIFICATION MmuSpec
CONSTANTS
  None = None
  MaxBlocks = 6
  FirstLevel = 1
  MaxLevel = 3
  FirstBits = 1
  Bits = 2
  AreaSize = 20
  BootLists <- GoodMap
  Requests <- Nested
  Careful = FALSE
INVARIANT
  AreaExact
CHECK_DEADLOCK FALSE

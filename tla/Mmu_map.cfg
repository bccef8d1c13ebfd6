SPECIFICATION MmuSpec
CONSTANTS
  None = None
  MaxBlocks = 6
  FirstLevel = 1
  MaxLevel = 3
  FirstBits = 1
  Bits = 2
  AreaSize = 20
  BootLists <- Maps
  Requests <- Windows
  Careful = TRUE
INVARIANTS
  AreaExact
PROPERTIES
  OnlyRequested
  ReportedTruly

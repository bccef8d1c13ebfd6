SPECIFICATION Spec
CONSTANTS
  Empty = Empty
  Selects <- OneSelect
  Flashes <- OneFlash
  Cards <- FullList
  Subs = {1, 2}
  RamSz = 6
  DramSz = 16
  BurstSz = 4
  MaxBlobs = 3
INVARIANTS
  NotLost
CHECK_DEADLOCK FALSE

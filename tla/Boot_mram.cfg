SPECIFICATION Spec
CONSTANTS
  Empty = Empty
  Selects <- MramSelects
  Flashes <- OneFlash
  Cards <- Sound
  Subs = {1, 2}
  RamSz = 6
  DramSz = 16
  BurstSz = 4
  MaxBlobs = 3
INVARIANTS
  SelectedMemory
CHECK_DEADLOCK FALSE

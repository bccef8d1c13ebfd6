SPECIFICATION Spec
CONSTANTS
  Empty = Empty
  Selects <- NorSelects
  Flashes <- AllFlashes
  Cards <- Sound
  Subs = {1, 2}
  RamSz = 6
  DramSz = 16
  BurstSz = 4
  MaxBlobs = 3
INVARIANTS
  StartsFirstIntact
  ImagesInPlace
CHECK_DEADLOCK FALSE

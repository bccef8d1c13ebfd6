SPECIFICATION MCAnySpec
CONSTANTS
  QLen = 4
  MboxLinks = {m1}
  ShmOrder <- OneShm
  MaxLoad = 2
  SysTick = TRUE
  NoCmd = NoCmd
  s1 = s1
  s2 = s2
INVARIANTS
  NothingLost

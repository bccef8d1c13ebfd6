SPECIFICATION MCAnySpec
CONSTANTS
  QLen = 4
  MboxLinks = {m1, m2, m3, m4}
  ShmOrder <- NoShm
  MaxLoad = 4
  SysTick = TRUE
  NoCmd = NoCmd
  s1 = s1
  s2 = s2
INVARIANTS
  NothingLost

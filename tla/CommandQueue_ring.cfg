SPECIFICATION MCSpec
CONSTANTS
  QLen = 4
  MboxLinks = {m1, m2, m3}
  ShmOrder <- TwoShm
  MaxLoad = 3
  SysTick = TRUE
  NoCmd = NoCmd
  s1 = s1
  s2 = s2
INVARIANTS
  TypeOK
  NothingLost
  ReplyToSender
  NoPanic
PROPERTIES
  FifoRefinement
  EventuallyHandled

SPECIFICATION FairSpec
CONSTANTS
  Items = {p, o}
  Timers = {p, o}
  Head = Head
  Null = Null
  Interval <- TwoIntervals
  Periodic = {p}
  Sleeps = {4}
  W = 10
  Tick = 2
  Liberties = {}
  p = p
  o = o
INVARIANTS
  ListIntact
  NoneMissed
PROPERTIES
  CallbackForCause
  SleptEnough
  LoopAlive
CHECK_DEADLOCK FALSE

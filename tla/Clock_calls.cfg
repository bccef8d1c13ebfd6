SPECIFICATION Spec
CONSTANTS
  Items = {p, o}
  Timers = {p, o}
  Head = Head
  Null = Null
  Interval <- TwoIntervals
  Periodic = {p}
  Sleeps = {4}
  W = 10
  Tick = 2
  Liberties = {"behind"}
  p = p
  o = o
PROPERTY CallbackForCause
CHECK_DEADLOCK FALSE

SPECIFICATION Spec
CONSTANTS
  Items = {p, o}
  Timers = {p, o}
  Head = Head
  Null = Null
  Interval <- TwoIntervals
  Periodic = {p}
  Sleeps = {4}
  W = 11
  Tick = 2
  Liberties = {}
  p = p
  o = o
PROPERTY NeverEarly
CHECK_DEADLOCK FALSE

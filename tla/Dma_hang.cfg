SPECIFICATION Spec
CONSTANTS
  Nil = Nil
  Chans = {0}
  Sizes = {1}
  MaxIter = 2
  MaxJump = 12
  McBufSz = 64
  Barriers = FALSE
  MaxTxes = 1
  Clients <- OneWait
  EndLags = TRUE
INVARIANTS
  NoHang
CHECK_DEADLOCK FALSE

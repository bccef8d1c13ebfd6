SPECIFICATION Spec
CONSTANTS
  Nil = Nil
  Chans = {0}
  Sizes = {1}
  MaxIter = 2
  MaxJump = 12
  McBufSz = 64
  Barriers = FALSE
  MaxTxes = 1
  Clients <- Aborted
  EndLags = FALSE
INVARIANTS
  TxesExact
CHECK_DEADLOCK FALSE

SPECIFICATION FairSpec
CONSTANTS
  Nil = Nil
  Chans = {0}
  Sizes = {0, 1, 2, 3, 5, 8, 15, 24}
  MaxIter = 2
  MaxJump = 12
  McBufSz = 64
  Barriers = FALSE
  MaxTxes = 1
  Clients <- Both
  EndLags = FALSE
INVARIANTS
  TxesExact
PROPERTIES
  CopiedExact
  TransfersEnd

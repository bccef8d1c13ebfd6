SPECIFICATION FairSpec
CONSTANTS
  Timeout0 = 1500
  Timeout1 = 2500
  CMD_TIMEOUT_MS_SEND = 1000
  CMD_TIMEOUT_MS_RECV = 1000
  CMD_TIMEOUT_MS_REPLY = 3500
  QueueBound = 1
INVARIANTS
  Exclusive
  BroughtUp
PROPERTIES
  ResetForCause
  NeverStuck
CHECK_DEADLOCK FALSE

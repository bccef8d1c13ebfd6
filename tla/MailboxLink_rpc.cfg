SPECIFICATION FairSpec
CONSTANTS
  MaxReq = 3
  Silent = {3}
INVARIANTS
  ServedOnce
  AckReliable
PROPERTIES
  RpcRefinement
  EventuallyServed
CHECK_DEADLOCK FALSE

SPECIFICATION FairSpec
CONSTANTS
  MaxReq = 3
  Silent = {3}
INVARIANTS
  ServedOnce
  AckReliable
PROPERTIES
  RpcRefinement
  Returns
CHECK_DEADLOCK FALSE

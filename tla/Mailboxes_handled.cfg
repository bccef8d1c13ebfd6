SPECIFICATION Spec
CONSTANTS
  Devs = {lsio, hpps}
  Instances = {s1, s2, s3, s4}
  DevOf <- TwoDevs
  ServerLinks <- TwoServers
  Offered <- NoLinks
  MaxMboxes = 5
  MaxBlocks = 2
  MaxLinks = 3
  MaxIndex = 2
  None = None
  lsio = lsio
  hpps = hpps
  s1 = s1
  s2 = s2
  s3 = s3
  s4 = s4
  d1 = d1
  d2 = d2
INVARIANT
  AlwaysHandled
CHECK_DEADLOCK FALSE

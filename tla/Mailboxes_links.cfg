SPECIFICATION FairSpec
CONSTANTS
  Devs = {lsio}
  Instances = {s1, s2, d1, d2}
  DevOf <- OneDev
  ServerLinks <- OneServer
  Offered <- SameMailboxes
  MaxMboxes = 5
  MaxBlocks = 2
  MaxLinks = 3
  MaxIndex = 2
  None = None
  lsio = lsio
  hpps = hpps
  s1 = s1
  s2 = s2
  s3 = s3
  s4 = s4
  d1 = d1
  d2 = d2
INVARIANTS
  Accounted
  Listening
PROPERTY
  EventuallyTaken
CHECK_DEADLOCK FALSE

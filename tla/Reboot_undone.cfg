SPECIFICATION Spec
CONSTANTS
  Cores = {r0, a0}
  SubsysOrder <- R52A53
  Groups = {gR52_0, gA53}
  GroupCores <- RtpsCores
  GroupSubsys <- RtpsSubsys
  InitOrder <- RtpsInit
  ReleaseOrder <- RtpsOrder
  PulseCores = {}
  Commanded = {}
  PsciCores = {}
  Running = {}
  MaxWdts = 2
  NoGroup = NoGroup
  NoSubsys = NoSubsys
  ResetReg <- Reg
  r0 = r0
  r1 = r1
  a0 = a0
  h0 = h0
  h1 = h1
  R52 = R52
  A53 = A53
  HPPS = HPPS
  gR52_0 = gR52_0
  gR52_1 = gR52_1
  gA53 = gA53
  gHPPS = gHPPS
PROPERTIES
  HeldUntilBooted
CHECK_DEADLOCK FALSE

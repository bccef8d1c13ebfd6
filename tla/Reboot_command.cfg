SPECIFICATION Spec
CONSTANTS
  Cores = {h0}
  SubsysOrder <- OnlyHPPS
  Groups = {gHPPS}
  GroupCores <- Hpps1Cores
  GroupSubsys <- HppsSubsys
  InitOrder <- Hpps1Init
  ReleaseOrder <- HppsOrder
  PulseCores = {h0}
  Commanded = {HPPS}
  PsciCores = {}
  Running = {}
  MaxWdts = 3
  NoGroup = NoGroup
  NoSubsys = NoSubsys
  ResetReg <- Reg
  r0 = r0
  r1 = r1
  a0 = a0
  h0 = h0
  h1 = h1
  R52 = R52
  A53 = A53
  HPPS = HPPS
  gR52_0 = gR52_0
  gR52_1 = gR52_1
  gA53 = gA53
  gHPPS = gHPPS
INVARIANTS
  NoPanic
CHECK_DEADLOCK FALSE

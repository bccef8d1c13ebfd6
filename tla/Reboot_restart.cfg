SPECIFICATION Spec
CONSTANTS
  Cores = {r0}
  SubsysOrder <- OnlyR52
  Groups = {gR52_0}
  GroupCores <- LockstepCores
  GroupSubsys <- LockstepSubsys
  InitOrder <- LockstepInit
  ReleaseOrder <- LockstepOrder
  PulseCores = {}
  Commanded = {}
  PsciCores = {}
  Running = {r0}
  MaxWdts = 1
  NoGroup = NoGroup
  NoSubsys = NoSubsys
  ResetReg <- Reg
  r0 = r0
  r1 = r1
  a0 = a0
  h0 = h0
  h1 = h1
  R52 = R52
  A53 = A53
  HPPS = HPPS
  gR52_0 = gR52_0
  gR52_1 = gR52_1
  gA53 = gA53
  gHPPS = gHPPS
INVARIANTS
  NoPanic
CHECK_DEADLOCK FALSE

------------------------------ MODULE MCReboot ------------------------------
(* Instances of Reboot for TLC: the subsystems and boot modes of HPSC.      *)
EXTENDS Reboot, TLC

CONSTANTS r0, r1, a0, h0, h1,              \* R52, A53 and HPPS cores
          R52, A53, HPPS,                  \* subsystems
          gR52_0, gR52_1, gA53, gHPPS      \* watchdog groups

\* SYSCFG__RTPS_MODE__LOCKSTEP: one core, one group
OnlyR52        == <<R52>>
LockstepCores  == gR52_0 :> {r0}
LockstepSubsys == gR52_0 :> R52
LockstepInit   == R52 :> <<<<gR52_0, r0>>>>
LockstepOrder  == R52 :> <<r0>>

\* LOCKSTEP and the A53: two subsystems whose resets share CRL__RST_LPD_TOP
R52A53     == <<R52, A53>>
RtpsCores  == LockstepCores @@ gA53 :> {a0}
RtpsSubsys == LockstepSubsys @@ gA53 :> A53
RtpsInit   == LockstepInit @@ A53 :> <<<<gA53, a0>>>>
RtpsOrder  == LockstepOrder @@ A53 :> <<a0>>

\* LOCKSTEP and HPPS, of which one or two cores: resets in different registers
R52HPPS    == <<R52, HPPS>>
BothCores  == LockstepCores @@ gHPPS :> {h0}
BothSubsys == LockstepSubsys @@ gHPPS :> HPPS
BothInit   == LockstepInit @@ HPPS :> <<<<gHPPS, h0>>>>
BothOrder  == LockstepOrder @@ HPPS :> <<h0>>

\* the same without CONFIG_HPPS_WDT
PlainInit  == LockstepInit @@ HPPS :> <<>>

\* SYSCFG__RTPS_MODE__SPLIT: one subsystem, two groups of one core each
SplitCores  == LockstepCores @@ gR52_1 :> {r1}
SplitSubsys == LockstepSubsys @@ gR52_1 :> R52
SplitInit   == R52 :> <<<<gR52_0, r0>>, <<gR52_1, r1>>>>
SplitOrder  == R52 :> <<r0, r1>>

\* HPPS, one of its eight cores
OnlyHPPS   == <<HPPS>>
HppsSubsys == gHPPS :> HPPS
HppsOrder  == HPPS :> <<h0>>
Hpps1Cores == gHPPS :> {h0}
Hpps1Init  == HPPS :> <<<<gHPPS, h0>>>>

\* CRL__RST_LPD_TOP, CRF__RST_FPD_APU
Reg == [c \in Cores |-> IF c \in {h0, h1} THEN "CRF" ELSE "CRL"]

=============================================================================

------------------------------- MODULE Reboot -------------------------------
(***************************************************************************)
(* How TRCH supervises the other subsystems: the watchdog interrupts       *)
(* (trch/watchdog.c, drivers/wdt.c), the reboot requests they leave for    *)
(* the main loop (trch/boot.c), and the reset lines (trch/reset.c).        *)
(*                                                                         *)
(* Two contexts share all of it: the watchdog interrupt runs to completion *)
(* between two steps of the main loop, and a step of the main loop ends    *)
(* wherever an interrupt can see or change what the next one uses. Read-   *)
(* modify-write statements (reboot_requests &= ~s, REGB_CLEAR32) are two   *)
(* steps: TRCH is built with -O0 for a core without atomic operations.     *)
(***************************************************************************)
EXTENDS Integers, Sequences, FiniteSets

CONSTANTS
  Cores,       \* the supervised CPUs
  SubsysOrder, \* the subsystems of syscfg.subsystems, by bit number
  Groups,      \* the watchdog groups in use (enum cpu_group_id)
  GroupCores,  \* group -> set of its cores (wdt_groups, cpu_set of cpu_groups)
  GroupSubsys, \* group -> subsystem (cpu_groups)
  InitOrder,   \* subsystem -> the <<group, core>> pairs boot_reset initialises
  ReleaseOrder,\* subsystem -> the cores boot_reset releases
  ResetReg,    \* core -> the register that holds its reset bit
  PulseCores,  \* cores reset_release pulses when they are not in reset (HPPS)
  Commanded,   \* subsystems a CMD_ACTION may reset (HPPS)
  PsciCores,   \* cores that PSCI requests suspend and wake up
  Running,     \* cores that were running when TRCH, restarted alone, comes up
  MaxWdts,     \* MAX_WDTS, minus the objects of groups outside this model
  NoGroup,     \* wdts[i] == NULL
  NoSubsys     \* no boot in progress

Subsystems == {SubsysOrder[i] : i \in DOMAIN SubsysOrder}

ASSUME RebootAssumption ==
  /\ IsFiniteSet(Cores)
  /\ GroupCores \in [Groups -> SUBSET Cores]
  /\ GroupSubsys \in [Groups -> Subsystems]
  /\ \A s \in Subsystems : InitOrder[s] \in Seq(Groups \X Cores)
  /\ \A s \in Subsystems : ReleaseOrder[s] \in Seq(Cores) \ {<<>>}
  /\ PulseCores \subseteq Cores /\ PsciCores \subseteq Cores
  /\ Running \subseteq Cores /\ Commanded \subseteq Subsystems
  /\ MaxWdts \in Nat
  /\ NoGroup \notin Groups /\ NoSubsys \notin Subsystems

VARIABLES
  requests,  \* reboot_requests
  pc,        \* where the main loop stands
  subsys,    \* the subsystem boot_reboot works on
  todo,      \* the watchdogs still to create, or the cores still to release
  reg,       \* what a read-modify-write of the main loop has read
  wasOn,     \* "enabled" in create_wdt
  failed,    \* rc of boot_reboot: a blob could not be loaded
  wdts,      \* wdts[]: the group a core's watchdog was created for, or NoGroup
  objects,   \* struct wdt objects in use
  on,        \* cores whose timer counts (REG__CONFIG__EN)
  fresh,     \* cores whose timer was restarted by the boot in progress
  pending,   \* cores whose stage-2 interrupt is pending in the NVIC
  unmasked,  \* cores whose stage-2 interrupt is enabled in the NVIC
  core       \* "reset", "boot": released, "up": it kicks its watchdog, "hung"

bootVars == <<pc, subsys, todo, reg, wasOn, failed>>
wdtVars  == <<wdts, objects, on, fresh, pending, unmasked>>
vars     == <<requests, bootVars, wdtVars, core>>

InitSteps == {"create", "configure", "irq", "register"}
BootSteps == InitSteps \cup {"release", "release_store", "finish", "finish_store"}
MaskedPCs == {"check", "wfi", "unmask", "panic", "lost"}
PCs == BootSteps \cup MaskedPCs \cup {"run", "load", "serve", "request_store", "assert_store"}

\* The main loop starts with boot_request(syscfg.subsystems), any of them. After
\* power-on all CPUs but TRCH are in reset; after a reset of TRCH alone some run, and their
\* timers with them ("might be already enabled", create_wdt).
Init ==
  /\ requests \in (SUBSET Subsystems) \ {{}}
  /\ pc = "run" /\ subsys = NoSubsys /\ todo = <<>>
  /\ reg = {} /\ wasOn = FALSE /\ failed = FALSE
  /\ wdts = [c \in Cores |-> NoGroup] /\ objects = 0
  /\ on = Running /\ fresh = {} /\ pending = {} /\ unmasked = {}
  /\ core = [c \in Cores |-> IF c \in Running THEN "up" ELSE "reset"]

\* The stage-2 interrupt of core c is taken before the main loop goes on.
Delivered(c) == pc \notin MaskedPCs /\ c \in pending \cap unmasked

At(step) == pc = step /\ \A c \in Cores : ~Delivered(c)
Goto(from, to) == At(from) /\ pc' = to

\* boot_reset or the end of boot_reboot is running.
Booting == subsys # NoSubsys /\ pc # "load"

-----------------------------------------------------------------------------
(* The supervised CPUs and their timers                                     *)

\* The software of a released CPU starts its watchdog (rtps/watchdog.c).
Start(c) ==
  /\ core[c] = "boot"
  /\ core' = [core EXCEPT ![c] = "up"]
  /\ on' = on \cup {c}
  /\ fresh' = IF Booting THEN fresh \cup {c} ELSE fresh
  /\ UNCHANGED <<requests, bootVars, wdts, objects, pending, unmasked>>

\* The software of a CPU stops kicking.
Hang(c) ==
  /\ core[c] = "up"
  /\ core' = [core EXCEPT ![c] = "hung"]
  /\ UNCHANGED <<requests, bootVars, wdtVars>>

\* The last stage of a timer expires: the hardware stops the timer and raises
\* the interrupt. A timer restarted since the images were loaded is seconds away
\* from that (timeouts in wdt_groups), the rest of the boot takes milliseconds.
Expire(c) ==
  /\ c \in on \ fresh /\ core[c] # "up"
  /\ on' = on \ {c}
  /\ pending' = pending \cup {c}
  /\ UNCHANGED <<requests, bootVars, wdts, objects, fresh, unmasked, core>>

-----------------------------------------------------------------------------
(* wdt_N_st2_isr: wdt_isr, handle_timeout, reset_assert,                    *)
(* watchdog_deinit_group, boot_request                                      *)

\* Mutant: the cause of the interrupt is left set.
ClearStatusNot(c) == pending' = pending

ClearStatus(c) == pending' = pending \ {c}

ResetAssert(cores) == core' = [c \in Cores |-> IF c \in cores THEN "reset" ELSE core[c]]

\* Mutant: the objects are not freed.
DeinitGroupNoFree(group) ==
  /\ on' = on \ group
  /\ unmasked' = unmasked \ group
  /\ wdts' = [c \in Cores |-> IF c \in group THEN NoGroup ELSE wdts[c]]
  /\ UNCHANGED objects

\* watchdog_deinit_group: NVIC interrupts off, timers off, objects freed.
DeinitGroup(group) ==
  /\ on' = on \ group
  /\ unmasked' = unmasked \ group
  /\ wdts' = [c \in Cores |-> IF c \in group THEN NoGroup ELSE wdts[c]]
  /\ objects' = objects - Cardinality(group)

\* Mutant: a mask where a subsystem is expected.
BootRequestBit(s)  == requests' = requests \cup {{s}}

BootRequest(s)     == requests' = requests \cup {s}

\* ASSERT(wdt) in wdt_isr and ASSERT(!wdt_is_enabled(wdt)) in handle_timeout,
\* then ASSERT(wdt) in wdt_disable for a member without a watchdog: they stop
\* TRCH, and what happened to the members before that one matters no more.
TimeoutAsserts(c) ==
  \/ wdts[c] = NoGroup
  \/ c \in on
  \/ \E d \in GroupCores[wdts[c]] : wdts[d] = NoGroup

TimeoutIsr(c) ==
  /\ Delivered(c)
  /\ ClearStatus(c)
  /\ IF TimeoutAsserts(c)
     THEN pc' = "panic" /\ UNCHANGED <<requests, wdts, objects, on, unmasked, core>>
     ELSE /\ ResetAssert(GroupCores[wdts[c]])
          /\ DeinitGroup(GroupCores[wdts[c]])
          /\ BootRequest(GroupSubsys[wdts[c]])
          /\ UNCHANGED pc
  /\ UNCHANGED <<subsys, todo, reg, wasOn, failed, fresh>>

-----------------------------------------------------------------------------
(* The main loop: boot_handle and boot_reboot                               *)

\* boot_handle: the pending subsystem with the lowest bit.
BootHandle ==
  /\ Goto("run", "load")
  /\ \E i \in DOMAIN SubsysOrder :
       /\ SubsysOrder[i] \in requests
       /\ \A j \in 1 .. i - 1 : SubsysOrder[j] \notin requests
       /\ subsys' = SubsysOrder[i]
  /\ UNCHANGED <<requests, todo, reg, wasOn, failed, wdtVars, core>>

\* boot_load, which can take long and can fail; boot_reset follows regardless.
BootLoad ==
  /\ At("load")
  /\ failed' \in BOOLEAN
  /\ IF InitOrder[subsys] = <<>>
     THEN pc' = "release" /\ todo' = ReleaseOrder[subsys]
     ELSE pc' = "create" /\ todo' = InitOrder[subsys]
  /\ UNCHANGED <<requests, subsys, reg, wasOn, wdtVars, core>>

InitGroup == Head(todo)[1]
InitCore  == Head(todo)[2]

\* wdt_create_monitor and wdt_is_enabled. wdt_create writes through the NULL
\* that OBJECT_ALLOC returns when all objects are in use: TRCH is lost.
CreateWdt ==
  /\ Goto("create", IF objects < MaxWdts THEN "configure" ELSE "lost")
  /\ objects' = IF objects < MaxWdts THEN objects + 1 ELSE objects
  /\ wasOn' = (InitCore \in on)
  /\ UNCHANGED <<requests, subsys, todo, reg, failed, wdts, on, fresh, pending, unmasked, core>>

\* wdt_disable if it was enabled, wdt_configure (which clears the counts and
\* asserts that the timer is off), wdt_enable if it was enabled.
ConfigureWdt ==
  /\ Goto("configure", IF InitCore \in on /\ ~wasOn THEN "panic" ELSE "irq")
  /\ on' = IF wasOn THEN on \cup {InitCore} ELSE on
  /\ fresh' = IF wasOn THEN fresh \cup {InitCore} ELSE fresh
  /\ UNCHANGED <<requests, subsys, todo, reg, wasOn, failed, wdts, objects, pending, unmasked, core>>

\* Mutant: the interrupt stays disabled.
EnableIrqNot ==
  /\ Goto("irq", "register")
  /\ UNCHANGED <<requests, subsys, todo, reg, wasOn, failed, wdtVars, core>>

\* nvic_int_enable, as the last thing in create_wdt.
EnableIrq ==
  /\ Goto("irq", "register")
  /\ unmasked' = unmasked \cup {InitCore}
  /\ UNCHANGED <<requests, subsys, todo, reg, wasOn, failed, wdts, objects, on, fresh, pending, core>>

\* wdts[i] = wdt in watchdog_init_group, after create_wdt returned.
RegisterWdt ==
  /\ At("register")
  /\ wdts' = [wdts EXCEPT ![InitCore] = InitGroup]
  /\ IF Tail(todo) # <<>>
     THEN pc' = "create" /\ todo' = Tail(todo)
     ELSE pc' = "release" /\ todo' = ReleaseOrder[subsys]
  /\ UNCHANGED <<requests, subsys, reg, wasOn, failed, objects, on, fresh, pending, unmasked, core>>

\* reset_release reads the reset register. An HPPS core that is not in reset
\* is put into reset first.
ReleaseLoad ==
  /\ Goto("release", "release_store")
  /\ core' = IF Head(todo) \in PulseCores
             THEN [core EXCEPT ![Head(todo)] = "reset"] ELSE core
  /\ reg' = {c \in Cores : core'[c] = "reset"}
  /\ UNCHANGED <<requests, subsys, todo, wasOn, failed, wdtVars>>

\* The bits that are zero in the value written back.
Released(c) ==
  ResetReg[c] = ResetReg[Head(todo)] /\ (c = Head(todo) \/ c \notin reg)

\* reset_release writes it back without the bit of the released core: a reset
\* that an interrupt asserted in between is undone.
ReleaseStore ==
  /\ At("release_store")
  /\ core' = [c \in Cores |->
                IF core[c] = "reset" /\ Released(c) THEN "boot" ELSE core[c]]
  /\ todo' = Tail(todo)
  /\ pc' = CASE Tail(todo) # <<>> -> "release"
             [] Tail(todo) = <<>> /\ subsys # NoSubsys -> "finish"
             [] OTHER -> "serve"
  /\ reg' = {}
  /\ UNCHANGED <<requests, subsys, wasOn, failed, wdtVars>>

\* reboot_requests &= ~subsys, in two steps.
FinishLoad ==
  /\ Goto("finish", "finish_store")
  /\ reg' = requests
  /\ UNCHANGED <<requests, subsys, todo, wasOn, failed, wdtVars, core>>

\* Mutant: the request is not cleared, and is served again.
FinishStoreKeeps ==
  /\ Goto("finish_store", IF failed THEN "panic" ELSE "run")
  /\ requests' = reg
  /\ subsys' = NoSubsys
  /\ reg' = {} /\ fresh' = {}
  /\ UNCHANGED <<todo, wasOn, failed, wdts, objects, on, pending, unmasked, core>>

\* The main loop panics if boot_reboot returned an error.
FinishStore ==
  /\ Goto("finish_store", IF failed THEN "panic" ELSE "run")
  /\ requests' = reg \ {subsys}
  /\ subsys' = NoSubsys
  /\ reg' = {} /\ fresh' = {}
  /\ UNCHANGED <<todo, wasOn, failed, wdts, objects, on, pending, unmasked, core>>

\* while (!boot_handle(&subsys)) ends
BootNone ==
  /\ Goto("run", "serve") /\ requests = {}
  /\ UNCHANGED <<requests, subsys, todo, reg, wasOn, failed, wdtVars, core>>

-----------------------------------------------------------------------------
(* Commands the main loop executes between two boots                        *)

\* server_process: CMD_ACTION_RESET_HPPS; reboot_requests |= subsys, in two steps.
CmdReset(s) ==
  /\ Goto("serve", "request_store")
  /\ reg' = requests \cup {s}
  /\ UNCHANGED <<requests, subsys, todo, wasOn, failed, wdtVars, core>>

CmdResetStore ==
  /\ Goto("request_store", "serve")
  /\ requests' = reg /\ reg' = {}
  /\ UNCHANGED <<subsys, todo, wasOn, failed, wdtVars, core>>

\* handle_psci: PM_SELF_SUSPEND and PM_REQ_SUSPEND assert the reset of one core
\* (reset_assert, a load and a store of its register), PM_REQ_WAKEUP releases
\* it; the watchdogs are left alone.
PsciSuspend(c) ==
  /\ Goto("serve", "assert_store")
  /\ todo' = <<c>>
  /\ reg' = {d \in Cores : core[d] = "reset"}
  /\ UNCHANGED <<requests, subsys, wasOn, failed, wdtVars, core>>

PsciSuspendStore ==
  /\ Goto("assert_store", "serve")
  /\ core' = [c \in Cores |->
                CASE c = Head(todo) -> "reset"
                  [] c # Head(todo) /\ core[c] = "reset" /\ Released(c) -> "boot"
                  [] OTHER -> core[c]]
  /\ todo' = <<>> /\ reg' = {}
  /\ UNCHANGED <<requests, subsys, wasOn, failed, wdtVars>>

PsciWakeup(c) ==
  /\ Goto("serve", "release")
  /\ todo' = <<c>>
  /\ UNCHANGED <<requests, subsys, reg, wasOn, failed, wdtVars, core>>

-----------------------------------------------------------------------------
(* The end of the main loop: mask interrupts, sleep if nothing is pending   *)

IntDisable ==
  /\ Goto("serve", "check")
  /\ UNCHANGED <<requests, subsys, todo, reg, wasOn, failed, wdtVars, core>>

\* Mutant: TRCH sleeps without looking at the requests.
IdleCheckNot ==
  /\ Goto("check", "wfi")
  /\ UNCHANGED <<requests, subsys, todo, reg, wasOn, failed, wdtVars, core>>

\* boot_pending under int_disable
IdleCheck ==
  /\ Goto("check", IF requests = {} THEN "wfi" ELSE "unmask")
  /\ UNCHANGED <<requests, subsys, todo, reg, wasOn, failed, wdtVars, core>>

\* WFI ends on an enabled pending interrupt: a watchdog's, or any other one.
WakeUp ==
  /\ Goto("wfi", "unmask")
  /\ UNCHANGED <<requests, subsys, todo, reg, wasOn, failed, wdtVars, core>>

IntEnable ==
  /\ Goto("unmask", "run")
  /\ UNCHANGED <<requests, subsys, todo, reg, wasOn, failed, wdtVars, core>>

-----------------------------------------------------------------------------
Boot == \/ BootHandle \/ BootLoad
        \/ CreateWdt \/ ConfigureWdt \/ EnableIrq \/ RegisterWdt
        \/ ReleaseLoad \/ ReleaseStore \/ FinishLoad \/ FinishStore
Loop == BootNone \/ IdleCheck \/ IntEnable \/ CmdResetStore \/ PsciSuspendStore
Next ==
  \/ Boot \/ Loop \/ IntDisable \/ WakeUp
  \/ \E s \in Commanded : CmdReset(s)
  \/ \E c \in PsciCores : PsciSuspend(c) \/ PsciWakeup(c)
  \/ \E c \in Cores : Start(c) \/ Hang(c) \/ Expire(c) \/ TimeoutIsr(c)

Spec == Init /\ [][Next]_vars

\* TRCH keeps executing the main loop, which handles finitely many commands
\* per turn; timers count; an enabled pending interrupt ends WFI.
Fairness ==
  /\ WF_vars(Boot) /\ WF_vars(Loop) /\ SF_vars(IntDisable)
  /\ WF_vars(WakeUp /\ pending \cap unmasked # {})
  /\ \A c \in Cores : WF_vars(Expire(c)) /\ SF_vars(TimeoutIsr(c))

FairSpec == Spec /\ Fairness

-----------------------------------------------------------------------------
(* Properties *)

TypeOK ==
  /\ requests \subseteq Subsystems
  /\ pc \in PCs
  /\ subsys \in Subsystems \cup {NoSubsys}
  /\ pc \in InitSteps => todo \in Seq(Groups \X Cores) \ {<<>>}
  /\ pc \in {"release", "release_store", "assert_store"} => todo \in Seq(Cores) \ {<<>>}
  /\ reg \subseteq Cores \cup Subsystems
  /\ wasOn \in BOOLEAN /\ failed \in BOOLEAN
  /\ wdts \in [Cores -> Groups \cup {NoGroup}]
  /\ objects \in 0 .. MaxWdts
  /\ on \subseteq Cores /\ fresh \subseteq Cores
  /\ pending \subseteq Cores /\ unmasked \subseteq Cores
  /\ core \in [Cores -> {"reset", "boot", "up", "hung"}]

\* The only thing that stops TRCH is a boot that failed (main.c:201): no
\* interrupt runs into an assertion of handle_timeout, wdt_isr or wdt_disable,
\* whatever the main loop was doing to the same watchdogs.
NoPanic == pc = "panic" => failed /\ subsys = NoSubsys

\* Creating a watchdog never finds the pool of MAX_WDTS objects exhausted.
PoolSuffices == pc # "lost"

\* Every object in use is reachable through wdts[] (or being created), so that
\* watchdog_deinit_group can give it back: reboots do not eat the pool up.
PoolExact ==
  pc # "panic" =>
    objects = Cardinality({c \in Cores : wdts[c] # NoGroup})
              + (IF pc \in {"configure", "irq", "register"} THEN 1 ELSE 0)

Guarded == UNION {GroupCores[g] : g \in Groups}
SubsysOf(c) == {GroupSubsys[g] : g \in {h \in Groups : c \in GroupCores[h]}}

\* Work on the subsystems of c is outstanding: requested or under way.
Expected(c) == SubsysOf(c) \cap (requests \cup {subsys}) # {}

\* A CPU runs unwatched only while its subsystem is about to be rebooted: its
\* timeout interrupt is enabled and finds a watchdog.
Monitored ==
  \A c \in Guarded : core[c] # "reset" /\ ~Expected(c) /\ pc # "panic" =>
                       wdts[c] # NoGroup /\ c \in unmasked

\* A request stays until boot_reboot has served it: one that the interrupt adds
\* while the main loop works on another subsystem is not wiped out.
RequestKept == [][\A s \in Subsystems : s \in requests \ requests' => s = subsys]_vars

\* The images of a watched subsystem are loaded, and its watchdogs created, only while all its
\* CPUs are in reset: a request for it comes with their reset (watchdog.c:104, 120), is gone
\* when the boot it asked for is over (boot.c:151), and nothing lets them run in between.
LoadedInReset ==
  \A c \in Guarded : subsys \in SubsysOf(c) /\ pc \in InitSteps \cup {"load"} => core[c] = "reset"

\* A CPU that was put into reset stays there until reset_release is called for
\* that very CPU. The code promises it only to groups that share no reset register.
HeldUntilBooted ==
  [][\A c \in Cores : core[c] = "reset" /\ core'[c] # "reset" =>
                        pc = "release_store" /\ c = Head(todo)]_vars

\* A CPU that stops kicking is restarted, unless TRCH stops: the expiry, the
\* interrupt, the request and the main loop, which may be about to sleep or in
\* the middle of a boot, do not miss each other. This is so as long as no other
\* subsystem has work for the main loop, whose request RequestKept is about.
Recovered ==
  \A s \in Subsystems : \A c \in Guarded :
    SubsysOf(c) = {s} /\ [](requests \subseteq {s} /\ subsys \in {s, NoSubsys}) =>
      (core[c] = "hung" ~> core[c] = "boot" \/ pc = "panic")

-----------------------------------------------------------------------------
(* The conditions under which the pool of watchdogs is exact, and the       *)
(* invariant that carries it (RebootProofs).                                *)

\* Each subsystem has one watchdog group (not so in SPLIT mode), boot_reset
\* initialises each of its cores once, and only timeouts reboot it.
SingleGroups ==
  /\ \A g, h \in Groups : GroupSubsys[g] = GroupSubsys[h] => g = h
  /\ \A g, h \in Groups : GroupCores[g] \cap GroupCores[h] # {} => g = h
  /\ \A s \in Subsystems : \A i \in DOMAIN InitOrder[s] :
       /\ GroupSubsys[InitOrder[s][i][1]] = s
       /\ InitOrder[s][i][2] \in GroupCores[InitOrder[s][i][1]]
       /\ \A j \in DOMAIN InitOrder[s] : InitOrder[s][i][2] = InitOrder[s][j][2] => i = j
  /\ \A g \in Groups : GroupSubsys[g] \notin Commanded

\* The watchdogs of a requested subsystem are gone, until its boot makes new ones.
Requested ==
  \A c \in Cores : wdts[c] # NoGroup /\ GroupSubsys[wdts[c]] \in requests =>
                     subsys = GroupSubsys[wdts[c]] /\ pc # "load"

\* What boot_reset still has to initialise has no watchdog yet.
ToCreate ==
  pc \in InitSteps =>
    \A i \in DOMAIN todo :
      /\ wdts[todo[i][2]] = NoGroup
      /\ GroupSubsys[todo[i][1]] = subsys /\ todo[i][2] \in GroupCores[todo[i][1]]
      /\ \A j \in DOMAIN todo : todo[i][2] = todo[j][2] => i = j

\* Where the main loop stands between two boots.
IdleSteps ==
  {"run", "serve", "request_store", "assert_store", "check", "wfi", "unmask"}

PoolInv ==
  /\ TypeOK
  /\ PoolExact
  /\ \A c \in Cores : wdts[c] # NoGroup => c \in GroupCores[wdts[c]]
  /\ pc \in InitSteps \cup {"load"} => subsys # NoSubsys
  /\ pc \in IdleSteps => subsys = NoSubsys
  /\ pc = "finish_store" => reg \subseteq requests
  /\ pc = "request_store" => reg \subseteq requests \cup Commanded
  /\ pc = "load" => \A c \in Cores : wdts[c] # NoGroup => GroupSubsys[wdts[c]] # subsys
  /\ Requested
  /\ ToCreate

=============================================================================

----------------------------- MODULE RtpsProofs -----------------------------
(***************************************************************************)
(* The start of the cores of the RTPS, proved for every timeout that       *)
(* RtpsAssumption admits: the lock excludes (LockInv), core 0 enters its   *)
(* main loop after core 1 has come up (AwakeInv), and the watchdog expires *)
(* for a cause only (TimeInv).                                             *)
(***************************************************************************)
EXTENDS Rtps, TLAPS

\* Where core 0 is before it has asked for core 1.
Asks   == {"request", "ack", "ackSleep", "poll", "pollSleep"}
Before == {"off", "start", "timer", "dog", "trchRcv", "trchAck", "trchPriv", "hppsRcv",
           "hppsAck", "hppsPriv", "request"}
Sleeping == {"ackSleep", "pollSleep", "replySleep"}

\* A core whose monitor is set found the lock free, and no one has stored since. A core 1
\* that is not early is released after core 0 has cleared the memory with the lock in it.
LockInv ==
  /\ mon # {} => ~mutex
  /\ boot => pc = "off"
  /\ pc1 = "off" => ~early
  /\ pc1 # "off" /\ ~early => pc \notin Before
  /\ pc \in Lock0 /\ ~early => mutex /\ pc1 \notin Lock1
  /\ pc1 \in Lock1 /\ ~early => mutex

\* smp_core1_awake is what an earlier life left until core 0 clears it.
AwakeInv ==
  /\ awake /\ pc \notin {"off", "start", "lost"} => pc1 \in {"unlock", "wfi"}
  /\ pc \in Loop \cup {"up"} => awake

\* The units of time that the watchdog has counted since it was cleared.
Count(w) == w.count[0] + w.count[1]
AckSleeps   == Sleeps(CMD_TIMEOUT_MS_SEND)
ReplySleeps == Sleeps(CMD_TIMEOUT_MS_RECV)
Late == IF tick THEN 1 ELSE 0

\* The watchdog runs from "dog" on, with the timeouts of the boot.
DogInv ==
  /\ pc # "off" => wdt.term = [s \in Stages |-> Units(RtpsTimeouts[s])]
  /\ pc \in {"off", "start", "timer", "dog", "dead"} => ~wdt.en

TickInv ==
  pc \notin {"off", "start", "timer", "dead", "panic", "lost"} => Intid("tick") \in gic.redist[0]

\* From a boot to the request no time passes; each unit of the wait for the answer is a
\* sleep; and a core 0 that waits for nobody's ACK sleeps for one tick between two kicks.
WaitInv ==
  /\ pc \in Before \ {"off"} => Count(wdt) = 0
  /\ pc \in Before => ~tick
  /\ pc \in {"ack", "ackSleep"} => Count(wdt) + sleeps <= AckSleeps + Late
  /\ pc \in {"poll", "pollSleep"} => Count(wdt) + sleeps <= AckSleeps + ReplySleeps + Late
  /\ pc \in {"ack", "poll"} => ~tick
  /\ pc \in Sleeping => sleeps > 0
  /\ pc \in {"reply", "replySleep"} => replied
  /\ pc \in {"dequeue", "masked"} /\ ~replied => Count(wdt) = 0 /\ ~tick
  /\ pc = "wfi" /\ ~replied => Count(wdt) <= Late

TimeInv == DogInv /\ TickInv /\ WaitInv

\* What else TypeOK rests on: HPPS sends a command when none is under way.
CmdInv == "cmd" \in raised => cmds = 0

-----------------------------------------------------------------------------
(* Types *)

\* The interrupts of core 0: its own are private, those of the mailboxes are shared.
LEMMA Intids ==
  /\ Intid("tick") = 30 /\ Intid("wdt") = 24
  /\ \A e \in Events : Intid(e) \in 32 .. 35
BY DEF Intid, Events, Ppi, Spi, PPI_IRQ__TIMER_PHYS, PPI_IRQ__WDT, GIC_NR_SGIS, GIC_INTERNAL

\* The operations of the interrupt controller keep its type.
LEMMA GicTypes ==
  /\ GicReset(TRUE) \in GicType
  /\ \A g \in GicType :
       /\ \A e \in Events \cup {"tick", "wdt"} : GicEnable(g, 0, Intid(e)) \in GicType
       /\ GicDisableAll(g) \in GicType
<1>1. GicReset(TRUE) \in GicType
  BY DEF GicType, GicReset
<1>2. SUFFICES ASSUME NEW g \in GicType
               PROVE  /\ \A e \in Events \cup {"tick", "wdt"} : GicEnable(g, 0, Intid(e)) \in GicType
                      /\ GicDisableAll(g) \in GicType
  BY <1>1
<1>3. /\ g.are = TRUE /\ g.dist \in SUBSET {Intid(e) : e \in Events} /\ 0 \in Cores
      /\ g.redist \in [Cores -> SUBSET {Intid("tick"), Intid("wdt")}]
      /\ \A a \in {TRUE}, d \in SUBSET {Intid(e) : e \in Events},
            r \in [Cores -> SUBSET {Intid("tick"), Intid("wdt")}] :
           [g EXCEPT !.dist = d] \in GicType /\ [g EXCEPT !.redist = r] \in GicType
  BY DEF GicType, Cores
<1>4. \A e \in {"tick", "wdt"} : GicEnable(g, 0, Intid(e)) \in GicType
  <2> SUFFICES ASSUME NEW e \in {"tick", "wdt"}
               PROVE  GicEnable(g, 0, Intid(e)) \in GicType
    OBVIOUS
  <2>1. UseRedist(g, Intid(e))
    BY <1>3, Intids DEF UseRedist, Private, GIC_INTERNAL
  <2>2. [g.redist EXCEPT ![0] = @ \cup {Intid(e)}] \in [Cores -> SUBSET {Intid("tick"), Intid("wdt")}]
    BY <1>3
  <2>3. GicEnable(g, 0, Intid(e)) = [g EXCEPT !.redist = [g.redist EXCEPT ![0] = @ \cup {Intid(e)}]]
    BY <2>1 DEF GicEnable, GicType
  <2>4. QED
    BY <1>3, <2>2, <2>3
<1>5. \A e \in Events : GicEnable(g, 0, Intid(e)) \in GicType
  <2> SUFFICES ASSUME NEW e \in Events
               PROVE  GicEnable(g, 0, Intid(e)) \in GicType
    OBVIOUS
  <2>1. ~UseRedist(g, Intid(e))
    BY Intids DEF UseRedist, Private, GIC_INTERNAL
  <2>2. GicEnable(g, 0, Intid(e)) = [g EXCEPT !.dist = g.dist \cup {Intid(e)}]
    BY <2>1 DEF GicEnable, GicType
  <2>3. QED
    BY <1>3, <2>2
<1>6. GicDisableAll(g) \in GicType
  <2>1. [c \in Cores |-> {}] \in [Cores -> SUBSET {Intid("tick"), Intid("wdt")}]
    OBVIOUS
  <2>2. QED
    BY <1>3, <2>1 DEF GicDisableAll
<1>7. QED
  BY <1>4, <1>5, <1>6

\* Timeouts are natural numbers of units of time, and of sleeps.
LEMMA UnitsType == \A ms \in Nat : Units(ms) \in Nat /\ Sleeps(ms) \in Nat
BY DEF Units, Sleeps, WDT_FREQ_HZ, MIN_SLEEP_MS

\* The operations of the watchdog timer keep its type.
LEMMA WdtTypes ==
  /\ WdtReset \in WdtType
  /\ \A w \in WdtType :
       /\ WdtConfigure(w, RtpsTimeouts) \in WdtType
       /\ WdtEnable(w) \in WdtType /\ WdtDisable(w) \in WdtType /\ WdtKick(w) \in WdtType
       /\ \A s \in Stages : WdtClearStatus(w, s) \in WdtType
       /\ WdtPass(w) \in WdtType
<1>1. \A s \in Stages : RtpsTimeouts[s] \in Nat /\ Units(RtpsTimeouts[s]) \in Nat
  BY UnitsType, RtpsAssumption DEF RtpsTimeouts
<1>2. Zero \in [Stages -> Nat]
  BY DEF Zero
<1>3. ASSUME NEW w \in WdtType
      PROVE  WdtPass(w) \in WdtType
  <2>1. /\ w.count \in [Stages -> Nat] /\ w.status \in SUBSET Stages
        /\ 0 \in Stages /\ 1 \in Stages
    BY DEF WdtType, Stages
  <2>2. \A c \in [Stages -> Nat], s \in SUBSET Stages :
          [w EXCEPT !.count = c, !.status = s] \in WdtType
    BY DEF WdtType
  <2>3. \A s \in Stages : /\ [w.count EXCEPT ![s] = @ + 1] \in [Stages -> Nat]
                          /\ w.status \cup {s} \in SUBSET Stages
    BY <2>1
  <2>4. CASE ~w.en
    BY <2>4 DEF WdtPass
  <2>5. CASE w.en /\ w.count[0] < w.term[0]
    <3> DEFINE c == [w.count EXCEPT ![0] = @ + 1]
               s == IF w.count[0] + 1 = w.term[0] THEN w.status \cup {0} ELSE w.status
    <3>1. WdtPass(w) = [w EXCEPT !.count = c, !.status = s]
      <4>1. WdtPass(w) = [w EXCEPT !.count[0] = @ + 1,
                                   !.status = IF w.count[0] + 1 = w.term[0] THEN @ \cup {0} ELSE @]
        <5>1. ~(w.count[0] >= w.term[0])
          BY <2>1, <2>5 DEF WdtType
        <5>2. QED
          BY <2>5, <5>1 DEF WdtPass
      <4>2. QED
        BY <4>1 DEF WdtType
    <3>2. c \in [Stages -> Nat] /\ s \in SUBSET Stages
      BY <2>1, <2>3
    <3> HIDE DEF c, s
    <3>3. QED
      BY <2>2, <3>1, <3>2
  <2>6. CASE w.en /\ ~(w.count[0] < w.term[0])
    <3> DEFINE c == [w.count EXCEPT ![1] = @ + 1]
               s == IF w.count[1] + 1 = w.term[1] THEN w.status \cup {1} ELSE w.status
               e == w.count[1] + 1 # w.term[1]
    <3>1. WdtPass(w) = [w EXCEPT !.count = c, !.status = s, !.en = e]
      <4>1. w.count[0] >= w.term[0]
        BY <2>1, <2>6 DEF WdtType
      <4>2. WdtPass(w) = [w EXCEPT !.count[1] = @ + 1,
                                   !.status = IF w.count[1] + 1 = w.term[1] THEN @ \cup {1} ELSE @,
                                   !.en = w.count[1] + 1 # w.term[1]]
        BY <2>6, <4>1 DEF WdtPass
      <4>3. QED
        BY <4>2 DEF WdtType
    <3>2. c \in [Stages -> Nat] /\ s \in SUBSET Stages /\ e \in BOOLEAN
      BY <2>1, <2>3
    <3> HIDE DEF c, s
    <3>3. [w EXCEPT !.count = c, !.status = s, !.en = e] \in WdtType
      BY <3>2 DEF WdtType
    <3>4. QED
      BY <3>1, <3>3, Zenon
  <2>7. QED
    BY <2>4, <2>5, <2>6 DEF WdtType, Stages
<1>4. QED
  BY <1>1, <1>2, <1>3 DEF WdtType, WdtReset, WdtConfigure, WdtEnable, WdtDisable, WdtKick, WdtClearStatus, Stages

\* The parts of TypeOK, and CmdInv with the part it is used for.
ControlTypes == /\ pc \in PCs /\ pc1 \in {"off", "ldrex", "strex", "wfi"} \cup Lock1
                /\ queue \in 0 .. QueueBound /\ trch \in {"idle", "woken", "reply"}
FlagTypes == /\ tick \in BOOLEAN /\ got \in BOOLEAN /\ owes \in BOOLEAN /\ mutex \in BOOLEAN
             /\ awake \in BOOLEAN /\ owner \in BOOLEAN /\ req \in BOOLEAN /\ boot \in BOOLEAN
             /\ early \in BOOLEAN /\ replied \in BOOLEAN
LinkTypes == /\ raised \subseteq Events /\ priv \subseteq {"trch", "hpps"} /\ acked \subseteq priv
             /\ sleeps \in Nat /\ cmds \in 0 .. 1 /\ mon \subseteq Cores
             /\ "cmd" \in raised => cmds = 0
TimerTypes == gic \in GicType /\ wdt \in WdtType
Types == ControlTypes /\ FlagTypes /\ LinkTypes /\ TimerTypes

\* The types, taken apart: each step is proved for one kind of variable at a time.
LEMMA TypeParts == Types <=> TypeOK /\ CmdInv
BY DEF Types, ControlTypes, FlagTypes, LinkTypes, TimerTypes, TypeOK, CmdInv

\* The types hold at the start.
LEMMA TypesInit == Init => Types
<1> SUFFICES ASSUME Init PROVE Types
  OBVIOUS
<1>1. ControlTypes
  BY RtpsAssumption DEF Init, ControlTypes, PCs
<1>2. FlagTypes
  BY DEF Init, FlagTypes
<1>3. LinkTypes
  BY DEF Init, LinkTypes
<1>4. TimerTypes
  BY GicTypes, WdtTypes DEF Init, TimerTypes
<1>5. QED
  BY <1>1, <1>2, <1>3, <1>4 DEF Types

\* The interrupt handler of core 0 keeps the types.
LEMMA TypesIrq == Types /\ TimeInv /\ IrqHandler => Types'
<1> SUFFICES ASSUME Types, TimeInv, IrqHandler
             PROVE  Types'
  OBVIOUS
<1> USE DEF Types, IrqHandler, TickIsr, WdtIsr, LostIsr, AckIsr, ReplyIsr, CmdIsr,
            linkVars, lockVars, trchVars, ghosts
<1>1. ControlTypes'
  BY DEF ControlTypes, Woken, PCs, Loop
<1>2. FlagTypes'
  <2>1. CASE TickIsr
    BY <2>1 DEF FlagTypes
  <2>2. CASE WdtIsr \/ LostIsr \/ AckIsr
    BY <2>2 DEF FlagTypes
  <2>3. CASE ReplyIsr \/ CmdIsr
    BY <2>3 DEF FlagTypes
  <2>4. QED
    BY <2>1, <2>2, <2>3
<1>3. LinkTypes'
  <2>1. CASE TickIsr
    BY <2>1 DEF LinkTypes, Woken, TimeInv, WaitInv, Sleeping
  <2>2. CASE AckIsr
    <3>1. PICK e \in {"ack", "cmdAck"} : Served(e) /\ acked' = acked \cup {LinkOf(e)}
      BY <2>2
    <3>2. QED
      BY <2>2, <3>1 DEF Served, LinkTypes
  <2>3. CASE CmdIsr
    BY <2>3 DEF Served, Delivered, Enabled, Pending, LinkTypes
  <2>4. CASE WdtIsr \/ LostIsr \/ ReplyIsr
    BY <2>4 DEF Served, LinkTypes
  <2>5. QED
    BY <2>1, <2>2, <2>3, <2>4
<1>4. TimerTypes'
  BY WdtTypes DEF TimerTypes, Stages
<1>5. QED
  BY <1>1, <1>2, <1>3, <1>4

\* The start of core 0, up to its links, keeps the types.
LEMMA TypesStartUp == Types /\ StartUp => Types'
<1> SUFFICES ASSUME Types, StartUp
             PROVE  Types'
  OBVIOUS
<1> USE DEF Types, StartUp, Start, StartTimer, NoCounter, WatchdogInit, LinksInit, Claim, Connected, Goto, ZeroBss,
            linkVars, lockVars, trchVars, ghosts
<1>1. ControlTypes'
  BY DEF ControlTypes, PCs
<1>2. FlagTypes'
  <2>1. CASE Start
    BY <2>1 DEF FlagTypes
  <2>2. CASE StartTimer \/ NoCounter \/ WatchdogInit
    BY <2>2 DEF FlagTypes
  <2>3. CASE Claim("trchRcv", "trchAck", "reply")
    BY <2>3 DEF FlagTypes
  <2>4. CASE Claim("trchAck", "trchPriv", "ack")
    BY <2>4 DEF FlagTypes
  <2>5. CASE Claim("hppsRcv", "hppsAck", "cmd")
    BY <2>5 DEF FlagTypes
  <2>6. CASE Claim("hppsAck", "hppsPriv", "cmdAck")
    BY <2>6 DEF FlagTypes
  <2>7. CASE Connected("trchPriv", "hppsRcv", "trch") \/ Connected("hppsPriv", "request", "hpps")
    BY <2>7 DEF FlagTypes
  <2>8. QED
    BY <2>1, <2>2, <2>3, <2>4, <2>5, <2>6, <2>7
<1>3. LinkTypes'
  <2>1. CASE Start
    BY <2>1 DEF LinkTypes
  <2>2. CASE StartTimer \/ NoCounter \/ WatchdogInit
    BY <2>2 DEF LinkTypes
  <2>3. CASE LinksInit
    BY <2>3 DEF LinkTypes
  <2>4. QED
    BY <2>1, <2>2, <2>3
<1>4. TimerTypes'
  <2>1. gic' \in GicType
    BY GicTypes DEF TimerTypes, Events
  <2>2. wdt' \in WdtType
    BY WdtTypes DEF TimerTypes
  <2>3. QED
    BY <2>1, <2>2 DEF TimerTypes
<1>5. QED
  BY <1>1, <1>2, <1>3, <1>4

\* A PSCI request, from the message to the reply, keeps the types.
LEMMA TypesPsci == Types /\ Psci => Types'
<1> SUFFICES ASSUME Types, Psci
             PROVE  Types'
  OBVIOUS
<1> USE DEF Types, Psci, Request, RequestAcked, Answered, WaitMore, NotAnswered, Quiet, Goto,
            linkVars, lockVars, trchVars, ghosts
<1>1. ControlTypes'
  BY DEF ControlTypes, PCs, BringsUp
<1>2. FlagTypes'
  <2>1. CASE Request
    BY <2>1 DEF FlagTypes
  <2>2. CASE RequestAcked
    BY <2>2 DEF FlagTypes
  <2>3. CASE Answered
    BY <2>3 DEF FlagTypes
  <2>4. CASE WaitMore \/ NotAnswered
    BY <2>4 DEF FlagTypes
  <2>5. QED
    BY <2>1, <2>2, <2>3, <2>4
<1>3. LinkTypes'
  <2>1. CASE Request
    BY <2>1, UnitsType, RtpsAssumption DEF LinkTypes
  <2>2. CASE RequestAcked
    BY <2>2, UnitsType, RtpsAssumption DEF LinkTypes
  <2>3. CASE Answered
    BY <2>3, UnitsType, RtpsAssumption DEF LinkTypes
  <2>4. CASE WaitMore \/ NotAnswered
    BY <2>4, UnitsType, RtpsAssumption DEF LinkTypes
  <2>5. QED
    BY <2>1, <2>2, <2>3, <2>4
<1>4. TimerTypes'
  BY GicTypes DEF TimerTypes
<1>5. QED
  BY <1>1, <1>2, <1>3, <1>4

\* Bringing up core 1 keeps the types.
LEMMA TypesBringUp == Types /\ BringUp => Types'
<1> SUFFICES ASSUME Types, BringUp
             PROVE  Types'
  OBVIOUS
<1> USE DEF Types, BringUp, Goto, Others0, Ldrex, Strex, StrexFailed, Unlock,
            linkVars, lockVars, trchVars, ghosts
<1>1. ControlTypes'
  BY DEF ControlTypes, PCs, BringsUp, Lock0, Loop
<1>2. FlagTypes'
  BY DEF FlagTypes
<1>3. LinkTypes'
  BY DEF LinkTypes, Cores
<1>4. TimerTypes'
  BY DEF TimerTypes
<1>5. QED
  BY <1>1, <1>2, <1>3, <1>4

\* The main loop of core 0 keeps the types.
LEMMA TypesMain == Types /\ Main => Types'
<1> SUFFICES ASSUME Types, Main
             PROVE  Types'
  OBVIOUS
<1> USE DEF Types, Main, Kick, Handle, ReplyAcked, ReplyWait, Idle, Goto, Others0, Quiet,
            linkVars, lockVars, trchVars, ghosts
<1>1. ControlTypes'
  BY DEF ControlTypes, PCs, Loop
<1>2. FlagTypes'
  <2>1. CASE Kick
    BY <2>1 DEF FlagTypes
  <2>2. CASE Handle
    BY <2>2 DEF FlagTypes
  <2>3. CASE ReplyAcked
    BY <2>3 DEF FlagTypes
  <2>4. CASE ReplyWait
    BY <2>4 DEF FlagTypes
  <2>5. CASE Idle
    BY <2>5 DEF FlagTypes
  <2>6. QED
    BY <2>1, <2>2, <2>3, <2>4, <2>5
<1>3. LinkTypes'
  <2>1. CASE Kick
    BY <2>1, UnitsType, RtpsAssumption DEF LinkTypes
  <2>2. CASE Handle
    <3>1. sleeps' \in Nat
      BY <2>2, UnitsType, RtpsAssumption DEF LinkTypes
    <3>2. cmds' \in 0 .. 1 /\ cmds > 0 /\ acked' \subseteq acked /\ UNCHANGED <<raised, priv, mon>>
      BY <2>2 DEF LinkTypes
    <3>3. QED
      BY <3>1, <3>2 DEF LinkTypes
  <2>3. CASE ReplyAcked
    BY <2>3, UnitsType, RtpsAssumption DEF LinkTypes
  <2>4. CASE ReplyWait
    BY <2>4, UnitsType, RtpsAssumption DEF LinkTypes
  <2>5. CASE Idle
    BY <2>5, UnitsType, RtpsAssumption DEF LinkTypes
  <2>6. QED
    BY <2>1, <2>2, <2>3, <2>4, <2>5
<1>4. TimerTypes'
  BY WdtTypes DEF TimerTypes
<1>5. QED
  BY <1>1, <1>2, <1>3, <1>4

\* The steps of core 1 keep the types.
LEMMA TypesCore1 == Types /\ Core1 => Types'
<1> SUFFICES ASSUME Types, Core1
             PROVE  Types'
  OBVIOUS
<1> USE DEF Types, Core1, Goto1, Ldrex, Strex, StrexFailed, Unlock,
            linkVars, lockVars, trchVars, ghosts
<1>1. ControlTypes'
  BY DEF ControlTypes, Lock1
<1>2. FlagTypes'
  BY DEF FlagTypes
<1>3. LinkTypes'
  BY DEF LinkTypes, Cores
<1>4. TimerTypes'
  BY DEF TimerTypes
<1>5. QED
  BY <1>1, <1>2, <1>3, <1>4

\* TRCH keeps the types.
LEMMA TypesTrch == Types /\ Trch => Types'
<1> SUFFICES ASSUME Types, Trch
             PROVE  Types'
  OBVIOUS
<1> USE DEF Types, Trch, TrchTake, TrchWakeup, TrchReply, TrchReplied, TrchSame, TrchTimeout, TrchBoot,
            linkVars, lockVars, trchVars, ghosts
<1>1. ControlTypes'
  <2>1. CASE TrchTake
    BY <2>1, RtpsAssumption DEF ControlTypes, PCs
  <2>2. CASE TrchWakeup
    BY <2>2, RtpsAssumption DEF ControlTypes, PCs
  <2>3. CASE TrchReply \/ TrchReplied
    BY <2>3, RtpsAssumption DEF ControlTypes, PCs
  <2>4. CASE TrchTimeout
    BY <2>4, RtpsAssumption DEF ControlTypes, PCs
  <2>5. CASE TrchBoot
    BY <2>5, RtpsAssumption DEF ControlTypes, PCs
  <2>6. QED
    BY <2>1, <2>2, <2>3, <2>4, <2>5
<1>2. FlagTypes'
  <2>1. CASE TrchTake
    BY <2>1 DEF FlagTypes
  <2>2. CASE TrchWakeup
    BY <2>2 DEF FlagTypes
  <2>3. CASE TrchReply \/ TrchReplied
    BY <2>3 DEF FlagTypes
  <2>4. CASE TrchTimeout
    BY <2>4 DEF FlagTypes
  <2>5. CASE TrchBoot
    BY <2>5 DEF FlagTypes
  <2>6. QED
    BY <2>1, <2>2, <2>3, <2>4, <2>5
<1>3. LinkTypes'
  BY DEF LinkTypes, Events
<1>4. TimerTypes'
  <2>1. [wdt EXCEPT !.status = {}] \in WdtType
    BY DEF WdtType, TimerTypes
  <2>2. QED
    BY <2>1, GicTypes, WdtTypes DEF TimerTypes, Stages
<1>5. QED
  BY <1>1, <1>2, <1>3, <1>4

\* HPPS and the passing of time keep the types.
LEMMA TypesOthers == Types /\ (Hpps \/ Pass) => Types'
<1> SUFFICES ASSUME Types, Hpps \/ Pass
             PROVE  Types'
  OBVIOUS
<1> USE DEF Types, Hpps, Pass,
            linkVars, lockVars, trchVars, ghosts
<1>1. ControlTypes'
  BY DEF ControlTypes
<1>2. FlagTypes'
  BY DEF FlagTypes
<1>3. LinkTypes'
  BY DEF LinkTypes, Events
<1>4. TimerTypes'
  BY WdtTypes DEF TimerTypes
<1>5. QED
  BY <1>1, <1>2, <1>3, <1>4

-----------------------------------------------------------------------------
(* The lock, and how core 0 learns that core 1 is awake *)

\* An interrupt is delivered to a core 0 that runs.
LEMMA IrqRuns == IrqHandler => pc # "off"
BY DEF IrqHandler, TickIsr, WdtIsr, LostIsr, AckIsr, ReplyIsr, CmdIsr, Served, Delivered, Masked, Stopped

StartInv == LockInv /\ AwakeInv

\* At the start no core holds the lock, and core 1 is off.
LEMMA StartInit == Init => StartInv
BY DEF Init, StartInv, LockInv, AwakeInv, Loop, Lock0, Lock1

\* The interrupt handler touches neither the lock nor core 1; it moves core 0 only from a sleep, or loses it.
LEMMA StartIrq == Types /\ StartInv /\ IrqHandler => StartInv'
<1> SUFFICES ASSUME Types, StartInv, IrqHandler
             PROVE  StartInv'
  OBVIOUS
<1>1. /\ UNCHANGED <<pc1, mutex, mon, awake, boot, early>>
      /\ pc # "off"
      /\ \/ pc' = pc \/ pc' = "lost"
         \/ pc = "ackSleep" /\ pc' = "ack"
         \/ pc = "pollSleep" /\ pc' = "poll"
         \/ pc = "replySleep" /\ pc' = "reply"
  BY IrqRuns DEF IrqHandler, TickIsr, WdtIsr, LostIsr, AckIsr, ReplyIsr, CmdIsr, Woken, lockVars, trchVars, ghosts
<1>2. LockInv'
  BY <1>1 DEF StartInv, LockInv, Lock0, Lock1, Before
<1>3. AwakeInv'
  BY <1>1 DEF StartInv, AwakeInv, Loop
<1>4. QED
  BY <1>2, <1>3 DEF StartInv

\* Core 0 takes the lock, releases it, and has core 1 woken up in order.
LEMMA StartCore0 ==
  ASSUME Types, StartInv, StartUp \/ Psci \/ BringUp \/ Main
  PROVE  StartInv'
<1>1. UNCHANGED <<pc1, boot, early>>
  BY DEF StartUp, Start, StartTimer, NoCounter, WatchdogInit, LinksInit, Claim, Connected,
     Psci, Request, RequestAcked, Answered, WaitMore, NotAnswered, Quiet, BringUp,
     Main, Kick, Handle, ReplyAcked, ReplyWait, Idle, Others0, trchVars, ghosts
<1>2. CASE StartUp
  <2>1. CASE Start
    BY <1>1, <2>1 DEF Start, Goto, ZeroBss, StartInv, LockInv, AwakeInv, Loop, Lock0, Lock1, Before
  <2>2. CASE StartTimer \/ NoCounter \/ WatchdogInit \/ LinksInit
    <3>1. /\ UNCHANGED lockVars /\ pc \in Before \ {"off", "start", "request"}
          /\ pc' \in Before \cup {"dead"} /\ pc' \notin {"off", "start"}
      BY <2>2 DEF StartTimer, NoCounter, WatchdogInit, LinksInit, Claim, Connected, Goto, Before
    <3>2. QED
      BY <1>1, <3>1 DEF StartInv, LockInv, AwakeInv, Loop, Lock0, Lock1, Before, lockVars
  <2>3. QED
    BY <1>2, <2>1, <2>2 DEF StartUp
<1>3. CASE Psci
  <2>1. /\ UNCHANGED lockVars /\ pc \in Asks
        /\ pc' \in (Asks \ {"request"}) \cup {"panic", "ldrex"}
    BY <1>3 DEF Psci, Request, RequestAcked, Answered, WaitMore, NotAnswered, Quiet, Goto, Asks
  <2>2. QED
    BY <1>1, <2>1 DEF StartInv, LockInv, AwakeInv, Loop, Lock0, Lock1, Before, Asks, lockVars
<1>4. CASE BringUp
  BY <1>1, <1>4 DEF BringUp, Goto, Others0, Ldrex, Strex, StrexFailed, Unlock, StartInv, LockInv, AwakeInv,
     Loop, Lock0, Lock1, Before, lockVars, Types, FlagTypes
<1>5. CASE Main
  <2>1. UNCHANGED lockVars /\ pc \in Loop /\ pc' \in Loop
    BY <1>5 DEF Main, Kick, Handle, ReplyAcked, ReplyWait, Idle, Goto, Quiet, Loop
  <2>2. QED
    BY <1>1, <2>1 DEF StartInv, LockInv, AwakeInv, Loop, Lock0, Lock1, Before, lockVars
<1>6. QED
  BY <1>2, <1>3, <1>4, <1>5

\* Core 1 takes the lock only when it is free, and marks itself awake after it.
LEMMA StartCore1 == Types /\ StartInv /\ Core1 => StartInv'
BY DEF Core1, Goto1, Ldrex, Strex, StrexFailed, Unlock, StartInv, LockInv, AwakeInv,
   Loop, Lock0, Lock1, Before, lockVars, trchVars, ghosts, Types, FlagTypes

\* What the others do keeps the lock and core 1; a reset starts both over.
LEMMA StartOthers ==
  ASSUME Types, StartInv, Hpps \/ Trch \/ Pass
  PROVE  StartInv'
<1> USE DEF StartInv, LockInv, AwakeInv, Loop, Lock0, Lock1, Before, lockVars, trchVars, ghosts
<1>1. CASE TrchWakeup
  BY <1>1 DEF TrchWakeup, TrchSame, Types, FlagTypes
<1>2. CASE TrchTimeout
  BY <1>2 DEF TrchTimeout
<1>3. CASE TrchBoot
  BY <1>3 DEF TrchBoot
<1>4. CASE Hpps \/ Pass \/ TrchTake \/ TrchReply \/ TrchReplied
  <2>1. UNCHANGED <<pc, pc1, lockVars, boot, early>>
    BY <1>4 DEF Hpps, Pass, TrchTake, TrchReply, TrchReplied, TrchSame
  <2>2. QED
    BY <2>1
<1>5. QED
  BY <1>1, <1>2, <1>3, <1>4 DEF Trch

-----------------------------------------------------------------------------
(* Time *)

\* What the functions of the timer do to the sum of its counts.
LEMMA Counts ==
  ASSUME NEW w \in WdtType
  PROVE  /\ Count(w) \in Nat
         /\ Count(WdtEnable(w)) = Count(w) /\ WdtEnable(w).term = w.term
         /\ Count(WdtKick(w)) = 0 /\ WdtKick(w).term = w.term /\ WdtKick(w).en = w.en
         /\ ~WdtDisable(w).en
         /\ \A s \in Stages : /\ WdtClearStatus(w, s).count = w.count
                              /\ WdtClearStatus(w, s).term = w.term
                              /\ WdtClearStatus(w, s).en = w.en
BY DEF WdtType, Stages, Count, WdtEnable, WdtKick, WdtDisable, WdtClearStatus, Zero

\* The last stage expires no sooner than the counts of both stages have passed.
LEMMA Passes ==
  ASSUME NEW w \in WdtType
  PROVE  /\ ~w.en => WdtPass(w) = w
         /\ Count(WdtPass(w)) <= Count(w) + 1
         /\ WdtPass(w).term = w.term
         /\ ~Expired(w) /\ Expired(WdtPass(w)) => w.en /\ w.term[0] + w.term[1] <= Count(w) + 1
<1>1. /\ w.count \in [Stages -> Nat] /\ w.term \in [Stages -> Nat]
      /\ 0 \in Stages /\ 1 \in Stages
  BY DEF WdtType, Stages
<1>2. CASE ~w.en
  BY <1>1, <1>2 DEF WdtPass, Count
<1>3. CASE w.en /\ w.count[0] < w.term[0]
  <2>1. ~(w.count[0] >= w.term[0])
    BY <1>1, <1>3
  <2>2. WdtPass(w) = [w EXCEPT !.count[0] = @ + 1,
                               !.status = IF w.count[0] + 1 = w.term[0] THEN @ \cup {0} ELSE @]
    BY <1>3, <2>1 DEF WdtPass
  <2>3. WdtPass(w).count = [w.count EXCEPT ![0] = @ + 1] /\ WdtPass(w).term = w.term
        /\ WdtPass(w).status \subseteq w.status \cup {0}
    BY <2>2 DEF WdtType
  <2>4. QED
    BY <1>1, <1>3, <2>3 DEF Count, Expired
<1>4. CASE w.en /\ w.count[0] >= w.term[0]
  <2>1. ~(w.count[0] < w.term[0])
    BY <1>1, <1>4
  <2>2. WdtPass(w) = [w EXCEPT !.count[1] = @ + 1,
                               !.status = IF w.count[1] + 1 = w.term[1] THEN @ \cup {1} ELSE @,
                               !.en = w.count[1] + 1 # w.term[1]]
    BY <1>4, <2>1 DEF WdtPass
  <2>3. WdtPass(w).count = [w.count EXCEPT ![1] = @ + 1] /\ WdtPass(w).term = w.term
        /\ (w.count[1] + 1 # w.term[1] => WdtPass(w).status = w.status)
    BY <2>2 DEF WdtType
  <2>4. QED
    BY <1>1, <1>4, <2>3 DEF Count, Expired
<1>5. QED
  BY <1>1, <1>2, <1>3, <1>4

\* A boot gives the timer its timeouts and clears it.
LEMMA Configures ==
  ASSUME NEW w \in WdtType
  PROVE  LET c == WdtConfigure([w EXCEPT !.status = {}], RtpsTimeouts)
         IN  /\ Count(c) = 0 /\ ~c.en
             /\ c.term = [s \in Stages |-> Units(RtpsTimeouts[s])]
BY DEF WdtType, Stages, Count, WdtConfigure, Zero

\* The tick stays enabled whatever else is, and is delivered to a core 0 that listens.
LEMMA TickEnabled ==
  ASSUME NEW g \in GicType
  PROVE  /\ Intid("tick") \in GicEnable(g, 0, Intid("tick")).redist[0]
         /\ \A e \in Events \cup {"wdt"} :
              Intid("tick") \in g.redist[0] => Intid("tick") \in GicEnable(g, 0, Intid(e)).redist[0]
<1>1. /\ UseRedist(g, Intid("tick")) /\ UseRedist(g, Intid("wdt"))
      /\ \A e \in Events : ~UseRedist(g, Intid(e))
  <2>1. g.are = TRUE
    BY DEF GicType
  <2>2. QED
    BY <2>1, Intids DEF UseRedist, Private, GIC_INTERNAL
<1>2. /\ g.redist \in [Cores -> SUBSET {Intid("tick"), Intid("wdt")}] /\ 0 \in Cores
  BY DEF GicType, Cores
<1>3. \A e \in {"tick", "wdt"} : GicEnable(g, 0, Intid(e)).redist[0] = g.redist[0] \cup {Intid(e)}
  BY <1>1, <1>2 DEF GicEnable, GicType
<1>4. \A e \in Events : GicEnable(g, 0, Intid(e)).redist = g.redist
  BY <1>1 DEF GicEnable, GicType
<1>5. QED
  BY <1>3, <1>4

\* A pending tick, once enabled, ends WFI, and is delivered where interrupts are not masked.
LEMMA TickDelivered ==
  ASSUME Types, tick, Intid("tick") \in gic.redist[0]
  PROVE  Enabled # {} /\ (~Masked => Delivered # {})
<1>1. GicEnabled(gic, 0, Intid("tick"))
  <2>1. UseRedist(gic, Intid("tick"))
    <3>1. gic.are = TRUE
      BY DEF Types, TimerTypes, GicType
    <3>2. QED
      BY <3>1, Intids DEF UseRedist, Private, GIC_INTERNAL
  <2>2. QED
    BY <2>1 DEF GicEnabled
<1>2. "tick" \in Enabled
  BY <1>1 DEF Enabled, Pending
<1>3. QED
  BY <1>2 DEF Delivered

\* The bounds of the timers hold at the start.
LEMMA TimeInit == Init => TimeInv
<1> SUFFICES ASSUME Init PROVE TimeInv
  OBVIOUS
<1>1. pc = "off" /\ wdt = WdtReset /\ ~tick
  BY DEF Init
<1>2. QED
  BY <1>1 DEF TimeInv, DogInv, TickInv, WaitInv, Sleeping, WdtReset

\* The interrupt handler keeps the bounds of the timers.
LEMMA TimeIrq == Types /\ TimeInv /\ IrqHandler => TimeInv'
<1> SUFFICES ASSUME Types, TimeInv, IrqHandler
             PROVE  TimeInv'
  OBVIOUS
<1> USE DEF TimeInv
<1>0. wdt \in WdtType /\ sleeps \in Nat /\ tick \in BOOLEAN /\ Count(wdt) \in Nat
  BY Counts DEF Types, TimerTypes, LinkTypes, FlagTypes
<1>1. CASE TickIsr
  <2>1. /\ UNCHANGED <<gic, wdt, replied>> /\ tick' = FALSE /\ pc' = Woken
        /\ sleeps' = IF Woken # pc THEN sleeps - 1 ELSE sleeps
        /\ tick /\ pc \notin {"off", "panic", "dead", "lost", "masked", "wfi", "unmask"}
    <3>1. raised \subseteq Events
      BY DEF Types, LinkTypes
    <3>2. QED
      BY <1>1, <3>1 DEF TickIsr, ghosts, Delivered, Masked, Stopped, Enabled, Pending, Events
  <2>2. DogInv' /\ TickInv'
    BY <2>1 DEF DogInv, TickInv, Woken
  <2>3. WaitInv'
    <3>1. Late = 1 /\ Late' = 0 /\ Count(wdt)' = Count(wdt)
      BY <2>1 DEF Late
    <3>2. AckSleeps \in Nat /\ ReplySleeps \in Nat
      BY UnitsType, RtpsAssumption DEF AckSleeps, ReplySleeps
    <3>3. CASE pc \in Sleeping
      BY <1>0, <2>1, <3>1, <3>2, <3>3 DEF WaitInv, Woken, Before, Sleeping
    <3>4. CASE pc \notin Sleeping
      <4>1. UNCHANGED <<pc, sleeps>>
        BY <2>1, <3>4 DEF Woken, Sleeping
      <4>2. QED
        BY <1>0, <2>1, <3>1, <3>2, <3>4, <4>1 DEF WaitInv, Before, Sleeping
    <3>5. QED
      BY <3>3, <3>4
  <2>4. QED
    BY <2>2, <2>3
<1>2. CASE WdtIsr
  <2>1. /\ UNCHANGED <<pc, gic, tick, sleeps, replied>>
        /\ wdt'.count = wdt.count /\ wdt'.term = wdt.term /\ wdt'.en = wdt.en
    BY <1>0, <1>2, Counts DEF WdtIsr, linkVars, ghosts, Stages
  <2>2. Count(wdt') = Count(wdt)
    BY <2>1 DEF Count
  <2>3. QED
    BY <2>1, <2>2 DEF DogInv, TickInv, WaitInv, Late
<1>3. CASE LostIsr
  <2>1. UNCHANGED wdt /\ pc' = "lost" /\ pc # "off"
    BY <1>3, IrqRuns DEF LostIsr, IrqHandler
  <2>2. QED
    BY <2>1 DEF DogInv, TickInv, WaitInv, Before, Sleeping
<1>4. CASE AckIsr \/ ReplyIsr \/ CmdIsr
  <2>1. UNCHANGED <<pc, gic, wdt, tick, sleeps, replied>>
    BY <1>4 DEF AckIsr, ReplyIsr, CmdIsr, ghosts
  <2>2. QED
    BY <2>1 DEF DogInv, TickInv, WaitInv, Late
<1>5. QED
  BY <1>1, <1>2, <1>3, <1>4 DEF IrqHandler

\* The start of core 0 keeps the bounds of the timers.
LEMMA TimeStartUp == Types /\ TimeInv /\ StartUp => TimeInv'
<1> SUFFICES ASSUME Types, TimeInv, StartUp
             PROVE  TimeInv'
  OBVIOUS
<1> USE DEF TimeInv
<1>0. wdt \in WdtType /\ gic \in GicType
  BY DEF Types, TimerTypes
<1>1. CASE WatchdogInit
  <2>1. /\ pc = "dog" /\ pc' = "trchRcv" /\ UNCHANGED tick
        /\ wdt'.term = wdt.term /\ Count(wdt') = Count(wdt)
        /\ Intid("tick") \in gic.redist[0] => Intid("tick") \in gic'.redist[0]
    BY <1>0, <1>1, Counts, TickEnabled DEF WatchdogInit, Goto
  <2>2. QED
    BY <2>1 DEF DogInv, TickInv, WaitInv, Before, Sleeping
<1>2. CASE ~WatchdogInit
  <2>1. /\ UNCHANGED <<wdt, tick>> /\ pc \in Before \ {"off", "request"}
        /\ pc' \in (Before \ {"off", "start"}) \cup {"dead"}
        /\ pc' \in {"timer", "dog", "dead"} => pc \in {"start", "timer"}
    BY <1>2 DEF StartUp, Start, StartTimer, NoCounter, LinksInit, Claim, Connected, Goto, Before
  <2>2. DogInv' /\ WaitInv'
    BY <2>1 DEF DogInv, WaitInv, Before, Sleeping
  <2>3. TickInv'
    BY <1>0, <1>2, TickEnabled DEF TickInv, StartUp, Start, StartTimer, NoCounter, LinksInit, Claim, Connected, Goto, Events
  <2>4. QED
    BY <2>2, <2>3
<1>3. QED
  BY <1>1, <1>2

\* A core 0 that gets on without an interrupt has seen the last tick.
LEMMA NoTick ==
  ASSUME Types, TickInv, Delivered = {}, ~Masked, pc \notin {"start", "timer"}
  PROVE  ~tick
BY TickDelivered DEF TickInv, Masked, Stopped

\* A PSCI request keeps the bounds of the timers: each wait ends within its timeout.
LEMMA TimePsci == Types /\ TimeInv /\ Psci => TimeInv'
<1> SUFFICES ASSUME Types, TimeInv, Psci
             PROVE  TimeInv'
  OBVIOUS
<1> USE DEF TimeInv
<1>1. /\ wdt \in WdtType /\ sleeps \in Nat /\ tick \in BOOLEAN /\ Count(wdt) \in Nat
      /\ AckSleeps \in Nat /\ ReplySleeps \in Nat
  BY Counts, UnitsType, RtpsAssumption DEF Types, TimerTypes, LinkTypes, FlagTypes, AckSleeps, ReplySleeps
<1>2. /\ UNCHANGED <<wdt, tick, replied>>
      /\ Delivered = {} /\ pc \in {"request", "ack", "poll"}
      /\ pc' \in (Asks \ {"request"}) \cup {"ldrex", "panic"}
      /\ pc' # "panic" => UNCHANGED gic
  BY DEF Psci, Request, RequestAcked, Answered, WaitMore, NotAnswered, Goto, Quiet, ghosts, Asks
<1>3. ~tick /\ Late = 0 /\ Late' = 0
  BY <1>2, NoTick DEF Masked, Stopped, Late
<1>4. DogInv' /\ TickInv'
  BY <1>2 DEF DogInv, TickInv, Asks
<1>5. WaitInv'
  <2>1. CASE Request
    <3>1. pc = "request" /\ pc' = "ack" /\ sleeps' = AckSleeps
      BY <2>1 DEF Request, Goto, AckSleeps
    <3>2. QED
      BY <1>1, <1>2, <1>3, <3>1 DEF WaitInv, Before, Sleeping
  <2>2. CASE RequestAcked
    <3>1. pc = "ack" /\ pc' = "poll" /\ sleeps' = ReplySleeps
      BY <2>2 DEF RequestAcked, Goto, ReplySleeps
    <3>2. QED
      BY <1>1, <1>2, <1>3, <3>1 DEF WaitInv, Before, Sleeping
  <2>3. CASE Answered \/ NotAnswered
    <3>1. pc' \in {"ldrex", "panic"}
      BY <2>3 DEF Answered, NotAnswered, Goto
    <3>2. QED
      BY <3>1 DEF WaitInv, Before, Sleeping
  <2>4. CASE WaitMore
    <3>1. /\ \/ pc = "ack" /\ pc' = "ackSleep"
             \/ pc = "poll" /\ pc' = "pollSleep"
          /\ sleeps > 0 /\ UNCHANGED sleeps
      BY <2>4 DEF WaitMore, Goto
    <3>2. QED
      BY <1>1, <1>2, <1>3, <3>1 DEF WaitInv, Before, Sleeping
  <2>5. QED
    BY <2>1, <2>2, <2>3, <2>4 DEF Psci
<1>6. QED
  BY <1>4, <1>5

\* Bringing up core 1 keeps the bounds of the timers.
LEMMA TimeBringUp == Types /\ TimeInv /\ BringUp => TimeInv'
<1> SUFFICES ASSUME Types, TimeInv, BringUp
             PROVE  TimeInv'
  OBVIOUS
<1>1. /\ UNCHANGED <<wdt, tick, replied, gic>>
      /\ pc \in BringsUp /\ pc' \in BringsUp \cup {"kick"}
  BY DEF BringUp, Others0, Goto, ghosts, BringsUp, Lock0
<1>2. QED
  BY <1>1 DEF TimeInv, DogInv, TickInv, WaitInv, Before, Sleeping, BringsUp, Lock0

\* The main loop keeps the bounds of the timers: it kicks before it sleeps or serves.
LEMMA TimeMain == Types /\ TimeInv /\ Main => TimeInv'
<1> SUFFICES ASSUME Types, TimeInv, Main
             PROVE  TimeInv'
  OBVIOUS
<1> USE DEF TimeInv
<1>1. /\ wdt \in WdtType /\ tick \in BOOLEAN /\ Count(wdt) \in Nat
  BY Counts DEF Types, TimerTypes, LinkTypes, FlagTypes
<1>2. UNCHANGED <<gic, tick>> /\ pc \in Loop /\ pc' \in Loop
  BY DEF Main, Kick, Handle, ReplyAcked, ReplyWait, Idle, Others0, Goto, Quiet, Loop
<1>3. TickInv'
  BY <1>2 DEF TickInv, Loop
<1>4. CASE Kick
  <2>1. pc = "kick" /\ pc' = "dequeue" /\ Delivered = {} /\ wdt' = WdtKick(wdt)
    BY <1>4 DEF Kick, Goto
  <2>2. ~tick
    BY <2>1, NoTick DEF Masked, Stopped
  <2>3. wdt'.term = wdt.term /\ Count(wdt)' = 0
    BY <1>1, <2>1, Counts DEF Count
  <2>4. QED
    BY <1>2, <1>3, <2>1, <2>2, <2>3 DEF DogInv, WaitInv, Before, Sleeping
<1>5. CASE ~Kick
  <2>1. UNCHANGED wdt
    BY <1>5 DEF Main, Handle, ReplyAcked, ReplyWait, Idle, Others0, Quiet
  <2>2. DogInv'
    BY <1>2, <2>1 DEF DogInv, Loop
  <2>3. CASE Handle
    <3>1. /\ pc = "dequeue"
          /\ \/ pc' = "dequeue" /\ UNCHANGED replied
             \/ pc' = "reply" /\ replied' = TRUE
      BY <2>3 DEF Handle, Goto
    <3>2. QED
      BY <1>1, <1>2, <1>3, <2>1, <2>2, <3>1 DEF WaitInv, Before, Sleeping
  <2>4. CASE ReplyAcked \/ ReplyWait
    <3>1. /\ pc = "reply" /\ UNCHANGED replied
          /\ \/ pc' = "dequeue"
             \/ pc' = "replySleep" /\ sleeps > 0 /\ UNCHANGED sleeps
      BY <2>4 DEF ReplyAcked, ReplyWait, Goto, Quiet, ghosts
    <3>2. QED
      BY <1>1, <1>2, <1>3, <2>1, <2>2, <3>1 DEF WaitInv, Before, Sleeping
  <2>5. CASE Idle
    <3>1. /\ pc' \in {"masked", "wfi", "unmask", "kick"} /\ UNCHANGED replied
          /\ pc' \in {"masked", "wfi"} => pc \in {"dequeue", "masked"}
      BY <2>5 DEF Idle, Goto, Others0, ghosts
    <3>2. QED
      BY <1>1, <1>2, <1>3, <2>1, <2>2, <3>1 DEF WaitInv, Before, Sleeping, Late
  <2>6. QED
    BY <1>5, <2>3, <2>4, <2>5 DEF Main
<1>6. QED
  BY <1>4, <1>5

\* Core 1, HPPS and TRCH keep the bounds of the timers.
LEMMA TimeOthers == Types /\ StartInv /\ TimeInv /\ (Core1 \/ Hpps \/ Trch) => TimeInv'
<1> SUFFICES ASSUME Types, StartInv, TimeInv, Core1 \/ Hpps \/ Trch
             PROVE  TimeInv'
  OBVIOUS
<1> USE DEF TimeInv
<1>0. wdt \in WdtType
  BY DEF Types, TimerTypes
<1>1. CASE Core1 \/ Hpps \/ TrchTake \/ TrchReply \/ TrchReplied \/ TrchWakeup
  <2>1. UNCHANGED <<pc, wdt, tick, replied, gic, sleeps>>
    BY <1>1 DEF Core1, Hpps, TrchTake, TrchReply, TrchReplied, TrchWakeup, TrchSame, linkVars, ghosts
  <2>2. QED
    BY <2>1 DEF DogInv, TickInv, WaitInv, Late
<1>2. CASE TrchTimeout
  <2>1. WdtDisable(wdt) \in WdtType /\ 1 \in Stages
    BY <1>0, WdtTypes DEF Stages
  <2>2. pc' = "off" /\ ~wdt'.en /\ ~tick'
    BY <1>0, <1>2, <2>1, Counts DEF TrchTimeout
  <2>3. QED
    BY <2>2 DEF DogInv, TickInv, WaitInv, Before, Sleeping
<1>3. CASE TrchBoot
  <2>1. /\ pc' = "start" /\ Count(wdt)' = 0 /\ ~wdt'.en
        /\ wdt'.term = [s \in Stages |-> Units(RtpsTimeouts[s])]
    BY <1>0, <1>3, Configures DEF TrchBoot, Count
  <2>2. ~tick
    BY <1>3 DEF TrchBoot, StartInv, LockInv, WaitInv, Before
  <2>3. QED
    BY <1>3, <2>1, <2>2 DEF TrchBoot, DogInv, TickInv, WaitInv, Before, Sleeping
<1>4. QED
  BY <1>1, <1>2, <1>3 DEF Trch

\* A unit of time that passes keeps the bounds of the timers.
LEMMA TimePass == Types /\ TimeInv /\ Pass => TimeInv'
<1> SUFFICES ASSUME Types, TimeInv, Pass
             PROVE  TimeInv'
  OBVIOUS
<1> USE DEF TimeInv
<1>1. /\ wdt \in WdtType /\ wdt' \in WdtType /\ Count(wdt) \in Nat /\ Count(wdt)' \in Nat
      /\ sleeps \in Nat /\ tick \in BOOLEAN
  BY Counts, WdtTypes DEF Pass, Types, TimerTypes, LinkTypes, FlagTypes
<1>2. /\ UNCHANGED <<pc, gic, replied, sleeps>> /\ Delivered = {}
      /\ wdt' = WdtPass(wdt) /\ tick' = (tick \/ pc # "off")
      /\ \/ pc \in {"off", "panic", "dead", "lost", "ldrex"} \cup Sleeping
         \/ pc = "wfi" /\ Enabled = {}
  BY DEF Pass, Waits, Stopped, Sleeping, linkVars, ghosts
<1>3. /\ Count(wdt)' <= Count(wdt) + 1 /\ wdt'.term = wdt.term
      /\ ~wdt.en => wdt' = wdt
  BY <1>1, <1>2, Passes DEF Count
<1>4. DogInv' /\ TickInv'
  BY <1>2, <1>3 DEF DogInv, TickInv
<1>5. CASE pc \in {"off", "panic", "dead", "lost", "ldrex"}
  BY <1>2, <1>4, <1>5 DEF WaitInv, Before, Sleeping
<1>6. CASE pc \in Sleeping \cup {"wfi"}
  <2>1. ~tick /\ Late = 0 /\ Late' = 1
    BY <1>2, <1>6, NoTick, TickDelivered DEF TickInv, Masked, Stopped, Sleeping, Late
  <2>2. AckSleeps \in Nat /\ ReplySleeps \in Nat
    BY UnitsType, RtpsAssumption DEF AckSleeps, ReplySleeps
  <2>3. QED
    BY <1>1, <1>2, <1>3, <1>4, <1>6, <2>1, <2>2 DEF WaitInv, Before, Sleeping
<1>7. QED
  BY <1>2, <1>5, <1>6

-----------------------------------------------------------------------------
(* The invariant and what it shows *)

RtpsInv == Types /\ StartInv /\ TimeInv

\* The inductive invariant.
LEMMA RtpsInvariant == Spec => []RtpsInv
<1>1. Init => RtpsInv
  BY TypesInit, StartInit, TimeInit DEF RtpsInv
<1>2. RtpsInv /\ [Next]_vars => RtpsInv'
  <2> SUFFICES ASSUME RtpsInv, [Next]_vars
               PROVE  RtpsInv'
    OBVIOUS
  <2> USE DEF RtpsInv
  <2>1. CASE IrqHandler
    BY <2>1, TypesIrq, StartIrq, TimeIrq
  <2>2. CASE StartUp
    BY <2>2, TypesStartUp, StartCore0, TimeStartUp
  <2>3. CASE Psci
    BY <2>3, TypesPsci, StartCore0, TimePsci
  <2>4. CASE BringUp
    BY <2>4, TypesBringUp, StartCore0, TimeBringUp
  <2>5. CASE Main
    BY <2>5, TypesMain, StartCore0, TimeMain
  <2>6. CASE Core1
    BY <2>6, TypesCore1, StartCore1, TimeOthers
  <2>7. CASE Trch
    BY <2>7, TypesTrch, StartOthers, TimeOthers
  <2>8. CASE Hpps
    BY <2>8, TypesOthers, StartOthers, TimeOthers
  <2>9. CASE Pass
    BY <2>9, TypesOthers, StartOthers, TimePass
  <2>10. CASE UNCHANGED vars
    BY <2>10 DEF vars, linkVars, lockVars, trchVars, ghosts, Types, ControlTypes, FlagTypes, LinkTypes, TimerTypes,
       StartInv, LockInv, AwakeInv, TimeInv, DogInv, TickInv, WaitInv, Late
  <2>11. QED
    BY <2>1, <2>2, <2>3, <2>4, <2>5, <2>6, <2>7, <2>8, <2>9, <2>10 DEF Next, Core0
<1>3. QED
  BY <1>1, <1>2, PTL DEF Spec

\* The state of the RTPS is well-typed (rtps/main.c), for all timeouts.
THEOREM RtpsTyped == Spec => []TypeOK
<1>1. RtpsInv => TypeOK
  BY TypeParts DEF RtpsInv
<1>2. QED
  BY <1>1, RtpsInvariant, PTL

\* The lock of lib/mutex.s admits one core at a time between the reset of core 0 and the
\* next, for a core 1 that was released when core 0 waited for it.
THEOREM LockExcludes == Spec => []Exclusive
<1>1. RtpsInv => Exclusive
  BY DEF RtpsInv, StartInv, LockInv, Exclusive
<1>2. QED
  BY <1>1, RtpsInvariant, PTL

\* Core 0 enters its main loop only once core 1 has come up (bringup_secondary_cores),
\* whatever answers it took for its own and whatever memory the reset left.
THEOREM MainAfterBringUp == Spec => []BroughtUp
<1>1. RtpsInv => BroughtUp
  BY DEF RtpsInv, StartInv, AwakeInv, BroughtUp, Loop
<1>2. QED
  BY <1>1, RtpsInvariant, PTL

\* Only the passing of time lets the watchdog expire.
LEMMA OnlyPassExpires ==
  ASSUME Types, [Next]_vars, Expires
  PROVE  Pass
<1> SUFFICES ASSUME ~Pass PROVE 1 \in wdt'.status => 1 \in wdt.status
  BY DEF Expires, Expired
<1>0. wdt \in WdtType
  BY DEF Types, TimerTypes
<1>1. CASE UNCHANGED wdt
  BY <1>1
<1>2. CASE WdtIsr
  BY <1>0, <1>2 DEF WdtIsr, WdtClearStatus, WdtType
<1>3. CASE WatchdogInit
  BY <1>0, <1>3 DEF WatchdogInit, WdtEnable, WdtType
<1>4. CASE Kick
  BY <1>0, <1>4 DEF Kick, WdtKick, WdtType
<1>5. CASE TrchTimeout
  BY <1>0, <1>5 DEF TrchTimeout, WdtClearStatus, WdtDisable, WdtType
<1>6. CASE TrchBoot
  BY <1>0, <1>6 DEF TrchBoot, WdtConfigure, WdtType
<1>7. QED
  BY <1>1, <1>2, <1>3, <1>4, <1>5, <1>6
  DEF Next, vars, Core0, IrqHandler, TickIsr, LostIsr, AckIsr, ReplyIsr, CmdIsr,
      StartUp, Start, StartTimer, NoCounter, LinksInit, Claim, Connected,
      Psci, Request, RequestAcked, Answered, WaitMore, NotAnswered, Quiet, BringUp, Others0,
      Main, Handle, ReplyAcked, ReplyWait, Idle, Core1, Hpps,
      Trch, TrchTake, TrchWakeup, TrchReply, TrchReplied, TrchSame

\* The watchdog of core 0 expires only on a core 0 that panicked, was lost in a handler, waits
\* for core 1 or has waited for the ACK of a reply: a start-up, a request to TRCH that is
\* answered at the last moment, or an idle main loop never takes too long (rtps/watchdog.c),
\* for all timeouts of which those of the request are shorter.
THEOREM WatchdogForCause == Spec => ResetForCause
<1>1. RtpsInv /\ [Next]_vars => [Expires => replied \/ pc \in {"panic", "lost"} \cup BringsUp]_vars
  <2> SUFFICES ASSUME RtpsInv, [Next]_vars, Expires, ~replied
               PROVE  pc \in {"panic", "lost"} \cup BringsUp
    OBVIOUS
  <2> USE DEF RtpsInv, TimeInv
  <2>1. Pass
    BY OnlyPassExpires
  <2>2. /\ wdt \in WdtType /\ Count(wdt) \in Nat /\ sleeps \in Nat
        /\ AckSleeps \in Nat /\ ReplySleeps \in Nat
    BY Counts, UnitsType, RtpsAssumption DEF Types, TimerTypes, LinkTypes, AckSleeps, ReplySleeps
  <2>3. wdt.en /\ wdt.term[0] + wdt.term[1] <= Count(wdt) + 1
    BY <2>1, <2>2, Passes DEF Pass, Expires
  <2>4. pc \notin {"off", "dead"}
    BY <2>3 DEF DogInv
  <2>5. AckSleeps + ReplySleeps + 1 < wdt.term[0] + wdt.term[1]
    BY <2>4, RtpsAssumption DEF DogInv, RtpsTimeouts, Stages, AckSleeps, ReplySleeps
  <2>6. CASE pc \in {"ackSleep", "pollSleep", "wfi"}
    <3>1. ~tick
      BY <2>1, <2>6, NoTick, TickDelivered DEF Pass, Waits, Stopped, Masked, TickInv
    <3>2. wdt.term[0] \in Nat /\ wdt.term[1] \in Nat
      BY <2>2 DEF WdtType, Stages
    <3>3. Count(wdt) <= AckSleeps + ReplySleeps
      BY <2>2, <2>6, <3>1 DEF WaitInv, Sleeping, Late
    <3>4. QED
      BY <2>2, <2>3, <2>5, <3>2, <3>3
  <2>7. CASE pc \notin {"ackSleep", "pollSleep", "wfi"}
    BY <2>1, <2>4, <2>7 DEF Pass, Waits, Stopped, WaitInv, BringsUp
  <2>8. QED
    BY <2>6, <2>7
<1>2. QED
  BY <1>1, RtpsInvariant, PTL DEF Spec, ResetForCause

=============================================================================

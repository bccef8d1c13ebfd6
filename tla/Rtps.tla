-------------------------------- MODULE Rtps --------------------------------
(***************************************************************************)
(* The software of the RTPS R52 (rtps/) in the SMP configuration: core 0   *)
(* from its release over start-up, the request to TRCH to release core 1,  *)
(* the lock under which it waits for it, to the main loop that kicks the   *)
(* watchdog and serves HPPS; core 1; and of TRCH what they depend on: the  *)
(* PSCI server and the reboot after the last stage of the watchdog (whose  *)
(* steps are in Reboot).                                                   *)
(*                                                                         *)
(* Time passes in units of a tick, 500 ms, when core 0 waits or is stuck:  *)
(* a step that computes takes far less. Memory and the events of the       *)
(* mailboxes outlive a reset of the RTPS.                                  *)
(***************************************************************************)
EXTENDS Gic, Wdt

CONSTANTS
  Timeout0, Timeout1,   \* of the stages of the watchdog, in ms (5000, 10000)
  CMD_TIMEOUT_MS_SEND,  \* for the ACK of a request, in ms (1000)
  CMD_TIMEOUT_MS_RECV,  \* for its reply (1000)
  CMD_TIMEOUT_MS_REPLY, \* for the ACK of a reply (30000)
  QueueBound            \* requests that TRCH has received and not handled yet

VARIABLES
  pc,     \* core 0
  pc1,    \* core 1
  gic,
  tick,   \* the generic timer has reached its value
  wdt,    \* of core 0: nobody enables that of core 1
  raised, \* events of the mailboxes to and from the RTPS
  priv,   \* links whose link->priv is set
  acked,  \* links whose tx_acked is set
  got,    \* whether the reply of TRCH was read
  sleeps, \* sleep_ms_rem, in sleeps
  cmds,   \* commands in the queue of the RTPS
  owner,  \* whether the mailbox for commands is claimed: its registers outlive a reset
  owes,   \* whether HPPS has a reply to acknowledge
  mutex,  \* smp_mutex
  mon,    \* cores whose exclusive monitor is set
  awake,  \* smp_core1_awake
  req,    \* whether a request is in the mailbox to TRCH
  queue,  \* requests in the queue of TRCH
  trch,   \* where TRCH is
  boot,   \* whether a reboot of the RTPS is requested
  early,  \* whether core 1 started without being waited for
  replied \* whether core 0 waited for the ACK of a reply since it last kicked

linkVars == <<raised, priv, acked, got, sleeps, cmds, owes>>
lockVars == <<mutex, mon, awake>>
trchVars == <<req, queue, trch, boot, owner>>
ghosts   == <<early, replied>>
vars == <<pc, pc1, gic, tick, wdt, linkVars, lockVars, trchVars, ghosts>>

\* Timeouts of the commands, in the sleeps of MIN_SLEEP_MS that wait for them.
MIN_SLEEP_MS == 500
Sleeps(ms)   == ms \div MIN_SLEEP_MS
RtpsTimeouts == [s \in Stages |-> IF s = 0 THEN Timeout0 ELSE Timeout1]

\* All timeouts are of some sleeps, and the request is over before the watchdog expires.
ASSUME RtpsAssumption ==
  /\ QueueBound \in Nat \ {0}
  /\ \A t \in {Timeout0, Timeout1, CMD_TIMEOUT_MS_SEND, CMD_TIMEOUT_MS_RECV,
               CMD_TIMEOUT_MS_REPLY} : t \in Nat /\ t >= 2 * MIN_SLEEP_MS
  /\ Sleeps(CMD_TIMEOUT_MS_SEND) + Sleeps(CMD_TIMEOUT_MS_RECV) + 1
       < Units(Timeout0) + Units(Timeout1)

\* TRCH is about to boot the RTPS for the first time.
Init ==
  /\ pc = "off" /\ pc1 = "off" /\ gic = GicReset(TRUE) /\ tick = FALSE /\ wdt = WdtReset
  /\ raised = {} /\ priv = {} /\ acked = {} /\ got = FALSE /\ sleeps = 0 /\ cmds = 0 /\ owes = FALSE
  /\ owner = FALSE
  /\ mutex = FALSE /\ mon = {} /\ awake = FALSE
  /\ req = FALSE /\ queue = 0 /\ trch = "idle" /\ boot = TRUE
  /\ early = FALSE /\ replied = FALSE

-----------------------------------------------------------------------------
(* Interrupts of core 0                                                     *)

PPI_IRQ__TIMER_PHYS == 14
PPI_IRQ__WDT        == 8
Events == {"reply", "ack", "cmd", "cmdAck"}
Intid(e) == CASE e = "tick"   -> Ppi(PPI_IRQ__TIMER_PHYS)
              [] e = "wdt"    -> Ppi(PPI_IRQ__WDT)
              [] e = "reply"  -> Spi(0)
              [] e = "ack"    -> Spi(1)
              [] e = "cmd"    -> Spi(2)
              [] e = "cmdAck" -> Spi(3)

Pending == raised \cup (IF tick THEN {"tick"} ELSE {})
                  \cup (IF 0 \in wdt.status THEN {"wdt"} ELSE {})
Enabled   == {e \in Pending : GicEnabled(gic, 0, Intid(e))}
Stopped   == pc \in {"off", "panic", "dead", "lost"}
Masked    == Stopped \/ pc \in {"masked", "wfi", "unmask"}
Delivered == IF Masked THEN {} ELSE Enabled

\* What WFI returns from: the sleeps of msleep, interrupts enabled.
Woken == CASE pc = "ackSleep"   -> "ack"
           [] pc = "pollSleep"  -> "poll"
           [] pc = "replySleep" -> "reply"
           [] OTHER             -> pc

\* sys_tick: a sleep of MIN_SLEEP_MS ends with the tick.
TickIsr ==
  /\ "tick" \in Delivered
  /\ tick' = FALSE
  /\ pc' = Woken
  /\ sleeps' = IF Woken # pc THEN sleeps - 1 ELSE sleeps
  /\ UNCHANGED <<pc1, gic, wdt, raised, priv, acked, got, cmds, owes, lockVars, trchVars, ghosts>>

\* wdt_isr: "nothing to do" but to clear the status.
WdtIsr ==
  /\ "wdt" \in Delivered
  /\ wdt' = WdtClearStatus(wdt, 0)
  /\ UNCHANGED <<pc, pc1, gic, tick, linkVars, lockVars, trchVars, ghosts>>

\* The handler of a link that is not connected yet follows a null pointer: it ends in
\* an abort, which loops, or in an interrupt that nothing clears.
LinkOf(e) == IF e \in {"reply", "ack"} THEN "trch" ELSE "hpps"
LostIsr ==
  /\ \E e \in Delivered \cap Events : LinkOf(e) \notin priv
  /\ pc' = "lost"
  /\ UNCHANGED <<pc1, gic, tick, wdt, linkVars, lockVars, trchVars, ghosts>>

Served(e) == /\ e \in Delivered /\ LinkOf(e) \in priv
             /\ raised' = raised \ {e}

\* handle_ack
AckIsr ==
  /\ \E e \in {"ack", "cmdAck"} : Served(e) /\ acked' = acked \cup {LinkOf(e)}
  /\ UNCHANGED <<pc, pc1, gic, tick, wdt, priv, got, sleeps, cmds, owes, lockVars, trchVars, ghosts>>

\* handle_reply, which tells TRCH.
ReplyIsr ==
  /\ Served("reply")
  /\ got' = TRUE
  /\ UNCHANGED <<pc, pc1, gic, tick, wdt, priv, acked, sleeps, cmds, owes, lockVars, trchVars, ghosts>>

\* handle_cmd, which tells HPPS.
CmdIsr ==
  /\ Served("cmd")
  /\ cmds' = cmds + 1
  /\ UNCHANGED <<pc, pc1, gic, tick, wdt, priv, acked, got, sleeps, owes, lockVars, trchVars, ghosts>>

IrqHandler == TickIsr \/ WdtIsr \/ LostIsr \/ AckIsr \/ ReplyIsr \/ CmdIsr

-----------------------------------------------------------------------------
(* Core 0: start-up                                                         *)

Goto(from, to) == Delivered = {} /\ pc = from /\ pc' = to

\* Mutant: memory keeps what it was at the reset.
ZeroBssNot ==
  UNCHANGED <<priv, acked, got, sleeps, cmds, mutex, mon, awake>>

\* The start-up code of core 0 clears .bss.
ZeroBss ==
  /\ priv' = {} /\ acked' = {} /\ got' = FALSE /\ sleeps' = 0 /\ cmds' = 0
  /\ mutex' = FALSE /\ mon' = {} /\ awake' = FALSE

Start ==
  /\ Goto("start", "timer")
  /\ ZeroBss
  /\ UNCHANGED <<pc1, gic, tick, wdt, raised, owes, trchVars, ghosts>>

\* The tick: the generic timer counts from here.
StartTimer ==
  /\ Goto("timer", "dog")
  /\ gic' = GicEnable(gic, 0, Intid("tick"))
  /\ UNCHANGED <<pc1, tick, wdt, linkVars, lockVars, trchVars, ghosts>>

\* "system counter freq register was not initialized": a panic before there is a
\* watchdog is for ever.
NoCounter ==
  /\ Goto("timer", "dead")
  /\ gic' = GicDisableAll(gic)
  /\ UNCHANGED <<pc1, tick, wdt, linkVars, lockVars, trchVars, ghosts>>

\* watchdog_init
WatchdogInit ==
  /\ Goto("dog", "trchRcv")
  /\ wdt' = WdtEnable(wdt)
  /\ gic' = GicEnable(gic, 0, Intid("wdt"))
  /\ UNCHANGED <<pc1, tick, linkVars, lockVars, trchVars, ghosts>>

\* links_init: a mailbox is live when mbox_claim returns, and link->priv is set last.
Claim(from, to, e) ==
  /\ Goto(from, to)
  /\ gic' = GicEnable(gic, 0, Intid(e))
  /\ owner' = (owner \/ e = "cmd")
  /\ UNCHANGED <<pc1, tick, wdt, linkVars, lockVars, req, queue, trch, boot, ghosts>>
Connected(from, to, link) ==
  /\ Goto(from, to)
  /\ priv' = priv \cup {link} /\ acked' = acked \ {link}
  /\ UNCHANGED <<pc1, gic, tick, wdt, raised, got, sleeps, cmds, owes, lockVars, trchVars, ghosts>>
LinksInit ==
  \/ Claim("trchRcv", "trchAck", "reply")
  \/ Claim("trchAck", "trchPriv", "ack")
  \/ Connected("trchPriv", "hppsRcv", "trch")
  \/ Claim("hppsRcv", "hppsAck", "cmd")
  \/ Claim("hppsAck", "hppsPriv", "cmdAck")
  \/ Connected("hppsPriv", "request", "hpps")

StartUp == Start \/ StartTimer \/ NoCounter \/ WatchdogInit \/ LinksInit

-----------------------------------------------------------------------------
(* Core 0: the request for core 1                                           *)

\* What an interrupt handler may change, and what the main code changes besides.
Quiet == UNCHANGED <<pc1, gic, tick, wdt, priv, cmds, lockVars, queue, trch, boot, owner, ghosts>>

\* psci_release_reset, up to mbox_event_set_rcv
Request ==
  /\ Goto("request", "ack")
  /\ got' = FALSE /\ acked' = acked \ {"trch"}
  /\ sleeps' = Sleeps(CMD_TIMEOUT_MS_SEND)
  /\ req' = TRUE
  /\ Quiet /\ UNCHANGED <<raised, owes>>

\* mbox_link_send: the ACK
RequestAcked ==
  /\ "trch" \in acked
  /\ Goto("ack", "poll")
  /\ raised' = raised \ {"ack"}
  /\ sleeps' = Sleeps(CMD_TIMEOUT_MS_RECV)
  /\ Quiet /\ UNCHANGED <<acked, got, owes, req>>

\* mbox_link_poll: the reply
Answered ==
  /\ got
  /\ Goto("poll", "ldrex")
  /\ sleeps' = 0
  /\ Quiet /\ UNCHANGED <<raised, acked, got, owes, req>>

\* Neither yet: another sleep, or a panic if that was the last.
WaitMore ==
  /\ \/ "trch" \notin acked /\ Goto("ack", "ackSleep")
     \/ ~got /\ Goto("poll", "pollSleep")
  /\ sleeps > 0
  /\ Quiet /\ UNCHANGED <<raised, acked, got, sleeps, owes, req>>
NotAnswered ==
  /\ \/ "trch" \notin acked /\ Goto("ack", "panic")
     \/ ~got /\ Goto("poll", "panic")
  /\ sleeps = 0
  /\ gic' = GicDisableAll(gic)
  /\ UNCHANGED <<pc1, tick, wdt, linkVars, lockVars, trchVars, ghosts>>

Psci == Request \/ RequestAcked \/ Answered \/ WaitMore \/ NotAnswered

-----------------------------------------------------------------------------
(* The lock (lib/mutex.s)                                                   *)

\* LDREX, and again while the mutex is locked.
Ldrex(core) == ~mutex /\ mon' = mon \cup {core} /\ UNCHANGED <<mutex, awake>>

\* Mutant: the store does not depend on the monitor.
StrexAlways(core) == mutex' = TRUE /\ mon' = {} /\ UNCHANGED awake

\* STREX stores if no one has since: a store clears the monitor of every core.
Strex(core)       == core \in mon /\ mutex' = TRUE /\ mon' = {} /\ UNCHANGED awake
StrexFailed(core) == core \notin mon /\ UNCHANGED lockVars

Unlock == mutex' = FALSE /\ mon' = {} /\ UNCHANGED awake

Others0 == UNCHANGED <<pc1, gic, tick, wdt, linkVars, trchVars, ghosts>>

\* bringup_secondary_cores: core 0 looks under the lock until core 1 is awake.
BringUp ==
  /\ \/ Goto("ldrex", "strex") /\ Ldrex(0)
     \/ Goto("strex", "check") /\ Strex(0)
     \/ Goto("strex", "ldrex") /\ StrexFailed(0)
     \/ ~awake /\ Goto("check", "again") /\ UNCHANGED lockVars
     \/ awake /\ Goto("check", "up") /\ UNCHANGED lockVars
     \/ Goto("again", "ldrex") /\ Unlock
     \/ Goto("up", "kick") /\ Unlock
  /\ Others0

-----------------------------------------------------------------------------
(* Core 0: the main loop                                                    *)

Kick ==
  /\ Goto("kick", "dequeue")
  /\ wdt' = WdtKick(wdt)
  /\ replied' = FALSE
  /\ UNCHANGED <<pc1, gic, tick, linkVars, lockVars, trchVars, early>>

\* cmd_dequeue, and server_process: only a ping is answered.
Handle ==
  /\ cmds > 0
  /\ cmds' = cmds - 1
  /\ \/ Goto("dequeue", "dequeue") /\ UNCHANGED <<sleeps, acked, owes, replied>>
     \/ /\ Goto("dequeue", "reply")
        /\ sleeps' = Sleeps(CMD_TIMEOUT_MS_REPLY) /\ acked' = acked \ {"hpps"}
        /\ owes' = TRUE /\ replied' = TRUE
  /\ UNCHANGED <<pc1, gic, tick, wdt, raised, priv, got, lockVars, trchVars, early>>

\* mbox_link_send of the reply: the ACK, another sleep, or the end of the wait.
ReplyAcked ==
  /\ "hpps" \in acked
  /\ Goto("reply", "dequeue")
  /\ raised' = raised \ {"cmdAck"} /\ sleeps' = 0
  /\ Quiet /\ UNCHANGED <<acked, got, owes, req>>
ReplyWait ==
  /\ "hpps" \notin acked
  /\ \/ sleeps > 0 /\ Goto("reply", "replySleep")
     \/ sleeps = 0 /\ Goto("reply", "dequeue")
  /\ Quiet /\ UNCHANGED <<raised, acked, got, sleeps, owes, req>>

\* int_disable, the check and the WFI, int_enable
Idle ==
  /\ \/ cmds = 0 /\ Goto("dequeue", "masked")
     \/ cmds = 0 /\ Goto("masked", "wfi")
     \/ cmds > 0 /\ Goto("masked", "unmask")
     \/ Enabled # {} /\ Goto("wfi", "unmask")
     \/ Goto("unmask", "kick")
  /\ UNCHANGED lockVars /\ Others0

Main == Kick \/ Handle \/ ReplyAcked \/ ReplyWait \/ Idle
Core0 == IrqHandler \/ StartUp \/ Psci \/ BringUp \/ Main

-----------------------------------------------------------------------------
(* Core 1                                                                   *)

Goto1(from, to) == pc1 = from /\ pc1' = to

\* main_secondary
Core1 ==
  /\ \/ Goto1("ldrex", "strex") /\ Ldrex(1)
     \/ Goto1("strex", "awake") /\ Strex(1)
     \/ Goto1("strex", "ldrex") /\ StrexFailed(1)
     \/ Goto1("awake", "unlock") /\ awake' = TRUE /\ UNCHANGED <<mutex, mon>>
     \/ Goto1("unlock", "wfi") /\ Unlock
  /\ UNCHANGED <<pc, gic, tick, wdt, linkVars, trchVars, ghosts>>

-----------------------------------------------------------------------------
(* HPPS, TRCH and time                                                      *)

\* HPPS sends a command to the mailbox once it is claimed, whatever the RTPS does, and acknowledges a reply, or not.
Hpps ==
  /\ \/ /\ owner /\ "cmd" \notin raised /\ cmds = 0
        /\ raised' = raised \cup {"cmd"} /\ UNCHANGED owes
     \/ /\ owes /\ owes' = FALSE
        /\ raised' = raised \cup {"cmdAck"}
  /\ UNCHANGED <<pc, pc1, gic, tick, wdt, priv, acked, got, sleeps, cmds, lockVars, trchVars, ghosts>>

TrchSame == UNCHANGED <<pc, gic, tick, wdt, priv, acked, got, sleeps, cmds, owes, owner, lockVars>>

\* handle_cmd of TRCH
TrchTake ==
  /\ req /\ queue < QueueBound
  /\ req' = FALSE /\ queue' = queue + 1
  /\ raised' = raised \cup {"ack"}
  /\ TrchSame /\ UNCHANGED <<pc1, trch, boot, ghosts>>

\* pm_req_wakeup: core 1 leaves reset, if it is not out of it already.
TrchWakeup ==
  /\ trch = "idle" /\ queue > 0
  /\ queue' = queue - 1
  /\ trch' = "woken"
  /\ pc1' = IF pc1 = "off" THEN "ldrex" ELSE pc1
  /\ early' = IF pc1 = "off" THEN pc \notin {"ack", "ackSleep", "poll", "pollSleep"} ELSE early
  /\ TrchSame /\ UNCHANGED <<raised, req, boot, replied>>

\* The reply, and the wait for its ACK, which TRCH gives up after 30 s.
TrchReply ==
  /\ trch = "woken"
  /\ trch' = "reply"
  /\ raised' = raised \cup {"reply"}
  /\ TrchSame /\ UNCHANGED <<pc1, req, queue, boot, ghosts>>
TrchReplied ==
  /\ trch = "reply"
  /\ trch' = "idle"
  /\ TrchSame /\ UNCHANGED <<pc1, raised, req, queue, boot, ghosts>>

\* handle_timeout: the last stage resets both cores, and their GIC.
TrchTimeout ==
  /\ Expired(wdt)
  /\ wdt' = WdtClearStatus(WdtDisable(wdt), 1)
  /\ pc' = "off" /\ pc1' = "off" /\ gic' = GicReset(TRUE) /\ tick' = FALSE /\ mon' = {}
  /\ boot' = TRUE /\ early' = FALSE /\ replied' = FALSE
  /\ UNCHANGED <<linkVars, mutex, awake, req, queue, trch, owner>>

\* boot_reset: the watchdogs of both cores, and core 0.
TrchBoot ==
  /\ boot /\ trch = "idle"
  /\ boot' = FALSE
  /\ wdt' = WdtConfigure([wdt EXCEPT !.status = {}], RtpsTimeouts)
  /\ pc' = "start"
  /\ UNCHANGED <<pc1, gic, tick, linkVars, lockVars, req, queue, trch, owner, ghosts>>

Trch == TrchTake \/ TrchWakeup \/ TrchReply \/ TrchReplied \/ TrchTimeout \/ TrchBoot

\* Core 0 waits, is stuck, or goes round in the lock while core 1 does nothing.
Waits ==
  \/ Stopped \/ pc \in {"ackSleep", "pollSleep", "replySleep"}
  \/ pc = "wfi" /\ Enabled = {}
  \/ pc = "ldrex" /\ ~awake

\* The lock is not fair: core 1 may be kept from it for long.
Waits1 == pc1 \in {"off", "ldrex", "strex", "wfi"}

Pass ==
  /\ Waits /\ Waits1 /\ Delivered = {} /\ ~Expired(wdt)
  /\ wdt' = WdtPass(wdt)
  /\ tick' = (tick \/ pc # "off")
  /\ UNCHANGED <<pc, pc1, gic, linkVars, lockVars, trchVars, ghosts>>

-----------------------------------------------------------------------------
Next == Core0 \/ Core1 \/ Hpps \/ Trch \/ Pass

Spec == Init /\ [][Next]_vars

\* Both cores and TRCH execute, and time passes also for a core that goes in circles.
\* HPPS need not do anything.
FairSpec == Spec /\ WF_vars(Core0) /\ WF_vars(Core1) /\ WF_vars(Trch) /\ SF_vars(Pass)

-----------------------------------------------------------------------------
(* Properties *)

Lock0   == {"check", "again", "up"}
Lock1   == {"awake", "unlock"}
Loop    == {"kick", "dequeue", "reply", "replySleep", "masked", "wfi", "unmask"}
BringsUp == {"ldrex", "strex"} \cup Lock0

PCs == Loop \cup BringsUp \cup
  {"off", "start", "timer", "dog", "trchRcv", "trchAck", "trchPriv", "hppsRcv", "hppsAck",
   "hppsPriv", "request", "ack", "ackSleep", "poll", "pollSleep", "panic", "dead", "lost"}
GicType == [are : {TRUE}, dist : SUBSET {Intid(e) : e \in Events},
            redist : [Cores -> SUBSET {Intid("tick"), Intid("wdt")}]]
TypeOK ==
  /\ pc \in PCs
  /\ pc1 \in {"off", "ldrex", "strex", "wfi"} \cup Lock1
  /\ gic \in GicType /\ wdt \in WdtType
  /\ tick \in BOOLEAN /\ got \in BOOLEAN /\ owes \in BOOLEAN /\ mutex \in BOOLEAN
  /\ awake \in BOOLEAN /\ owner \in BOOLEAN /\ req \in BOOLEAN /\ boot \in BOOLEAN /\ early \in BOOLEAN /\ replied \in BOOLEAN
  /\ raised \subseteq Events /\ priv \subseteq {"trch", "hpps"} /\ acked \subseteq priv
  /\ sleeps \in Nat /\ cmds \in 0 .. 1 /\ mon \subseteq Cores
  /\ queue \in 0 .. QueueBound
  /\ trch \in {"idle", "woken", "reply"}

\* TRCH resets the RTPS only when core 0 panicked, was lost in a handler, or waits for
\* a core 1 that does not come; or has waited for the ACK of a reply, which may take
\* longer than both stages of the watchdog together.
Expires == ~Expired(wdt) /\ Expired(wdt')
ResetForCause ==
  [][Expires => replied \/ pc \in {"panic", "lost"} \cup BringsUp]_vars

\* Whatever is lost, late or left over from before a reset, core 0 does not stay where it
\* is: it serves its main loop, or the watchdog has TRCH reset it; but for a panic
\* before the watchdog runs.
NeverStuck == []<>(pc \in {"dequeue", "off", "dead"})

\* The lock admits one core at a time; unless core 1 was started by a request from
\* before the reset and still is in the lock when core 0 clears the memory.
Exclusive == ~early => ~(pc \in Lock0 /\ pc1 \in Lock1)

\* Core 0 enters its main loop only once core 1 has come up since the reset, also if
\* it takes an ACK or a reply for an earlier request for its own.
BroughtUp == pc \in Loop => pc1 \in {"unlock", "wfi"}

\* "Main loop will return from WFI/WFE and kick" (rtps/watchdog.c:19): the last stage
\* never expires while core 0 serves commands.
KicksInTime == [][Expires => pc \notin Loop]_vars

\* After a reset core 0 gets to its main loop in the end.
Recovers == []<>(pc \in {"dequeue", "dead"})

=============================================================================

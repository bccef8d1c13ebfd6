---------------------------- MODULE CommandQueue ----------------------------
(***************************************************************************)
(* The command queue of TRCH (lib/command.c) between the two contexts that *)
(* share it on the one Cortex-M4 core:                                     *)
(*   - the mailbox receive interrupt (handle_cmd in lib/mailbox-link.c),   *)
(*     which runs to completion between two instructions of the main loop; *)
(*   - the main loop (trch/main.c), which polls the shared-memory links    *)
(*     (links_poll), drains the queue and sleeps in WFI.                   *)
(* TRCH is built with -O0, so the main loop reads cmdq_head and cmdq_tail  *)
(* from memory at every statement; the steps of cmd_enqueue are split      *)
(* wherever the interrupt can change what the next statement reads.        *)
(***************************************************************************)
EXTENDS Integers, Sequences, FiniteSets

CONSTANTS
  QLen,       \* CMD_QUEUE_LEN
  MboxLinks,  \* links whose commands are enqueued by the receive interrupt
  ShmOrder,   \* the shared-memory links, in the order links_poll visits them
  MaxLoad,    \* bound on the commands sent and not yet handled
  SysTick,    \* CONFIG_SYSTICK: a timer interrupt also ends WFI
  NoCmd       \* empty hand, unfilled slot

ShmLinks == {ShmOrder[i] : i \in DOMAIN ShmOrder}
Links == MboxLinks \cup ShmLinks

ASSUME QueueAssumption ==
  /\ QLen \in Nat /\ QLen > 1
  /\ MaxLoad \in Nat
  /\ SysTick \in BOOLEAN
  /\ IsFiniteSet(Links)
  /\ ShmOrder \in Seq(ShmLinks)
  /\ MboxLinks \cap ShmLinks = {}
  /\ NoCmd \notin Links

VARIABLES
  head, tail,   \* cmdq_head, cmdq_tail
  slots,        \* cmdq: the link and the message of each slot
  hand,         \* the main loop's struct cmd (main.c:215)
  pc,           \* where the main loop stands
  pos,          \* how many links links_poll has visited
  reg,          \* cmdq_head as loaded by the main loop's cmd_enqueue
  masked,       \* PRIMASK
  raised,       \* mailboxes holding a message whose interrupt is pending
  shmNew,       \* shared-memory links with STATUS_BIT_NEW set
  load          \* commands sent and not yet handled

ring   == <<head, tail, slots>>
vars   == <<head, tail, slots, hand, pc, pos, reg, masked, raised, shmNew, load>>
Index  == 0 .. QLen - 1
Slot   == [link : Links \cup {NoCmd}, msg : Links \cup {NoCmd}]
Empty  == [link |-> NoCmd, msg |-> NoCmd]

EnqSteps  == {"enq_check", "enq_load", "enq_store", "enq_link", "enq_msg"}
HandSteps == {"copy_link", "copy_msg", "handle"}
PCs == EnqSteps \cup HandSteps \cup {"poll", "drain", "mask", "check", "wfi", "unmask", "panic"}

Init ==
  /\ head = 0 /\ tail = 0
  /\ slots = [i \in Index |-> Empty]
  /\ hand = Empty
  /\ pc = "poll" /\ pos = 0 /\ reg = 0
  /\ masked = FALSE
  /\ raised = {} /\ shmNew = {} /\ load = 0

Goto(from, to) == pc = from /\ pc' = to

-----------------------------------------------------------------------------
(* lib/command.c *)

\* Mutant: an index is not wrapped.
SuccNoWrap(i) == i + 1

Succ(i) == (i + 1) % QLen

\* Mutant: the queue counts as full one command early.
QueueFullEarly == (head + 2) % QLen = tail

\* The test of cmd_enqueue as C parses it: "%" binds tighter than "+", so the
\* incremented head is not reduced modulo CMD_QUEUE_LEN.
QueueFull == head + (1 % QLen) = tail

\* cmd_pending
Pending == head # tail

-----------------------------------------------------------------------------
(* The outside: a client sends a command.                                  *)

SendMbox(l) ==
  /\ load < MaxLoad /\ l \notin raised
  /\ raised' = raised \cup {l}
  /\ load' = load + 1
  /\ UNCHANGED <<ring, hand, pc, pos, reg, masked, shmNew>>

SendShm(l) ==
  /\ load < MaxLoad /\ l \notin shmNew
  /\ shmNew' = shmNew \cup {l}
  /\ load' = load + 1
  /\ UNCHANGED <<ring, hand, pc, pos, reg, masked, raised>>

-----------------------------------------------------------------------------
(* The receive interrupt: handle_cmd reads the message, acknowledges it    *)
(* and enqueues it, or panics.                                             *)

\* Mutant: event A is not cleared, so the interrupt comes again.
HandleCmdNoAck(l) ==
  /\ ~masked /\ l \in raised /\ pc # "panic" /\ ~QueueFull
  /\ head' = Succ(head)
  /\ slots' = [slots EXCEPT ![head'] = [link |-> l, msg |-> l]]
  /\ UNCHANGED <<tail, pc, raised, hand, pos, reg, masked, shmNew, load>>

\* Mutant: the slot is filled before the head moves.
HandleCmdOldSlot(l) ==
  /\ ~masked /\ l \in raised /\ pc # "panic" /\ ~QueueFull
  /\ raised' = raised \ {l}
  /\ head' = Succ(head)
  /\ slots' = [slots EXCEPT ![head] = [link |-> l, msg |-> l]]
  /\ UNCHANGED <<tail, pc, hand, pos, reg, masked, shmNew, load>>

HandleCmd(l) ==
  /\ ~masked /\ l \in raised /\ pc # "panic"
  /\ raised' = raised \ {l}
  /\ IF QueueFull
     THEN pc' = "panic" /\ UNCHANGED ring
     ELSE /\ head' = Succ(head)
          /\ slots' = [slots EXCEPT ![head'] = [link |-> l, msg |-> l]]
          /\ UNCHANGED <<tail, pc>>
  /\ UNCHANGED <<hand, pos, reg, masked, shmNew, load>>

-----------------------------------------------------------------------------
(* links_poll, and cmd_enqueue called from it                              *)

\* recv returned 0 for the next link, or returned its message and cleared NEW.
PollLink ==
  /\ pc = "poll" /\ pos < Len(ShmOrder)
  /\ LET l == ShmOrder[pos + 1]
     IN IF l \in shmNew
        THEN shmNew' = shmNew \ {l} /\ pc' = "enq_check"
        ELSE UNCHANGED <<shmNew, pc>>
  /\ pos' = pos + 1
  /\ UNCHANGED <<ring, hand, reg, masked, raised, load>>

PollDone ==
  /\ pos = Len(ShmOrder)
  /\ Goto("poll", "drain") /\ pos' = 0
  /\ UNCHANGED <<ring, hand, reg, masked, raised, shmNew, load>>

\* A full queue makes links_poll return 1, and the main loop panics.
EnqCheck ==
  /\ Goto("enq_check", IF QueueFull THEN "panic" ELSE "enq_load")
  /\ UNCHANGED <<ring, hand, pos, reg, masked, raised, shmNew, load>>

EnqLoad ==
  /\ Goto("enq_load", "enq_store") /\ reg' = head
  /\ UNCHANGED <<ring, hand, pos, masked, raised, shmNew, load>>

EnqStore ==
  /\ Goto("enq_store", "enq_link") /\ head' = Succ(reg)
  /\ UNCHANGED <<tail, slots, hand, pos, reg, masked, raised, shmNew, load>>

EnqLink ==
  /\ Goto("enq_link", "enq_msg")
  /\ slots' = [slots EXCEPT ![head].link = ShmOrder[pos]]
  /\ UNCHANGED <<head, tail, hand, pos, reg, masked, raised, shmNew, load>>

EnqMsg ==
  /\ Goto("enq_msg", "poll")
  /\ slots' = [slots EXCEPT ![head].msg = ShmOrder[pos]]
  /\ UNCHANGED <<head, tail, hand, pos, reg, masked, raised, shmNew, load>>

-----------------------------------------------------------------------------
(* while (!cmd_dequeue(&cmd)) cmd_handle(&cmd);                             *)

\* The tail is advanced before the slot is copied out.
DeqTake ==
  /\ Pending
  /\ Goto("drain", "copy_link") /\ tail' = Succ(tail)
  /\ UNCHANGED <<head, slots, hand, pos, reg, masked, raised, shmNew, load>>

DeqEmpty ==
  /\ ~Pending
  /\ Goto("drain", "mask")
  /\ UNCHANGED <<ring, hand, pos, reg, masked, raised, shmNew, load>>

CopyLink ==
  /\ Goto("copy_link", "copy_msg")
  /\ hand' = [hand EXCEPT !.link = slots[tail].link]
  /\ UNCHANGED <<ring, pos, reg, masked, raised, shmNew, load>>

\* Mutant: the message is copied from the next slot.
CopyMsgNext ==
  /\ Goto("copy_msg", "handle")
  /\ hand' = [hand EXCEPT !.msg = slots[Succ(tail)].msg]
  /\ UNCHANGED <<ring, pos, reg, masked, raised, shmNew, load>>

CopyMsg ==
  /\ Goto("copy_msg", "handle")
  /\ hand' = [hand EXCEPT !.msg = slots[tail].msg]
  /\ UNCHANGED <<ring, pos, reg, masked, raised, shmNew, load>>

\* cmd_handle: whether the server replies, fails or the reply times out, the
\* command is done; a reply goes out on hand.link.
CmdHandle ==
  /\ Goto("handle", "drain")
  /\ hand' = Empty
  /\ load' = load - 1
  /\ UNCHANGED <<ring, pos, reg, masked, raised, shmNew>>

-----------------------------------------------------------------------------
(* int_disable(); if (nothing pending) wfi; int_enable();                   *)

IntDisable ==
  /\ Goto("mask", "check") /\ masked' = TRUE
  /\ UNCHANGED <<ring, hand, pos, reg, raised, shmNew, load>>

\* Mutant: TRCH sleeps without looking at the queue.
IdleCheckNot ==
  /\ Goto("check", "wfi")
  /\ UNCHANGED <<ring, hand, pos, reg, masked, raised, shmNew, load>>

IdleCheck ==
  /\ Goto("check", IF Pending THEN "unmask" ELSE "wfi")
  /\ UNCHANGED <<ring, hand, pos, reg, masked, raised, shmNew, load>>

\* WFI ends on a pending interrupt, masked by PRIMASK or not.
WakeUp ==
  /\ SysTick \/ raised # {}
  /\ Goto("wfi", "unmask")
  /\ UNCHANGED <<ring, hand, pos, reg, masked, raised, shmNew, load>>

IntEnable ==
  /\ Goto("unmask", "poll") /\ masked' = FALSE
  /\ UNCHANGED <<ring, hand, pos, reg, raised, shmNew, load>>

-----------------------------------------------------------------------------
Enqueue == EnqCheck \/ EnqLoad \/ EnqStore \/ EnqLink \/ EnqMsg
Dequeue == DeqTake \/ DeqEmpty \/ CopyLink \/ CopyMsg \/ CmdHandle
Idle    == IntDisable \/ IdleCheck \/ WakeUp \/ IntEnable
Main    == PollLink \/ PollDone \/ Enqueue \/ Dequeue \/ Idle
Clients == (\E l \in MboxLinks : SendMbox(l)) \/ (\E l \in ShmLinks : SendShm(l))
Next    == Main \/ Clients \/ \E l \in MboxLinks : HandleCmd(l)

Spec == Init /\ [][Next]_vars

\* The core runs the main loop, and the NVIC takes a pending interrupt as soon
\* as PRIMASK is clear, however short the unmasked window (hence SF).
Fairness == WF_vars(Main) /\ \A l \in MboxLinks : SF_vars(HandleCmd(l))

FairSpec == Spec /\ Fairness

-----------------------------------------------------------------------------
(* Properties *)

TypeOK ==
  /\ head \in Index /\ tail \in Index /\ reg \in Index
  /\ slots \in [Index -> Slot]
  /\ hand \in Slot
  /\ pc \in PCs
  /\ pos \in 0 .. Len(ShmOrder)
  /\ pc \in EnqSteps => pos > 0
  /\ masked \in BOOLEAN
  /\ raised \subseteq MboxLinks /\ shmNew \subseteq ShmLinks
  /\ load \in 0 .. MaxLoad

\* The slots behind a head h and ahead of a tail t.
Filled(h, t) == (h - t + QLen) % QLen
Count == Filled(head, tail)
B2N(b) == IF b THEN 1 ELSE 0

\* Every command a client sent is somewhere: in a mailbox, in shared memory, in
\* the ring, or in the main loop's hands; none was dropped and none duplicated
\* by the way the two contexts move cmdq_head and cmdq_tail.
NothingLost ==
  pc # "panic" =>
    load = Cardinality(raised) + Cardinality(shmNew) + Count
           + B2N(pc \in {"enq_check", "enq_load", "enq_store"})
           + B2N(pc \in HandSteps)

\* The command handed to the server carries the link its message came from, so
\* that the reply goes back to the sender (cmd_handle replies on cmd->link).
ReplyToSender == pc = "handle" => hand.link = hand.msg /\ hand.msg # NoCmd

\* No interrupt can stop TRCH through a full queue while fewer than
\* CMD_QUEUE_LEN commands are outstanding.
NoPanic == pc # "panic"

\* The ring as the abstract FIFO sees it: a slot being filled is not accepted
\* yet, a slot being copied out is the current command.
Accepted == Count - B2N(pc \in {"enq_link", "enq_msg"})
Fifo == INSTANCE CommandFifo WITH
  queue   <- [i \in 1 .. Accepted |-> slots[(tail + i) % QLen].msg],
  current <- CASE pc \in {"copy_link", "copy_msg"} -> slots[tail].msg
               [] pc = "handle" -> hand.msg
               [] OTHER -> NoCmd

\* The queue is a FIFO: every accepted command is handled once and in order.
FifoRefinement == Fifo!Spec

\* A command that a client sent is eventually handled. One in a mailbox may arrive
\* while the main loop is about to sleep ("the check and the WFI must be atomic",
\* main.c:221); one in shared memory is announced by no interrupt, and relies on
\* the tick to end WFI.
EventuallyHandled ==
  \A l \in Links : l \in raised \cup shmNew ~> (pc = "handle" /\ hand.msg = l)

-----------------------------------------------------------------------------
(* The conditions under which the queue is sound, and the invariant that    *)
(* carries the safety properties (CommandQueueProofs).                      *)

\* The full test never has to fire, and only one context enqueues.
Bounded     == MaxLoad < QLen
OneProducer == MboxLinks = {} \/ ShmOrder = <<>>

\* Slot i lies behind head h and ahead of tail t: it holds a command that was
\* accepted and not yet taken.
Between(i, h, t) == IF t <= h THEN t < i /\ i <= h ELSE t < i \/ i <= h
Live(i) == Between(i, head, tail)

\* The slot the main loop is filling, between EnqStore and EnqMsg.
Filling(i) == pc \in {"enq_link", "enq_msg"} /\ i = head

Whole(s) == s.link = s.msg /\ s.msg # NoCmd

QueueInv ==
  /\ TypeOK
  /\ NothingLost
  /\ NoPanic
  /\ pc = "enq_store" => reg = head
  /\ pc \in {"enq_link", "enq_msg"} => head # tail
  /\ pc = "enq_msg" => slots[head].link = ShmOrder[pos]
  /\ \A i \in Index : Live(i) /\ ~Filling(i) => Whole(slots[i])
  /\ pc \in {"copy_link", "copy_msg"} => Whole(slots[tail])
  /\ pc = "copy_msg" => hand.link = slots[tail].link
  /\ ReplyToSender

=============================================================================

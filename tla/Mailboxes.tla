----------------------------- MODULE Mailboxes -----------------------------
(***************************************************************************)
(* The mailboxes TRCH has claimed (drivers/mailbox.c), the links over them *)
(* that clients have it connect and disconnect at run time                 *)
(* (lib/mailbox-link.c, trch/server.c), and the interrupt that serves them *)
(* all. Mailboxes and links come from pools (lib/object.c); the mailboxes  *)
(* of one device share its two interrupts by reference counts.             *)
(*                                                                         *)
(* The main loop executes one command at a time; an interrupt is taken     *)
(* between any two of its steps and looks at the same mailboxes one after  *)
(* the other, while other processors go on raising events.                 *)
(***************************************************************************)
EXTENDS Integers, Sequences, FiniteSets

CONSTANTS
  Devs,        \* the mailbox devices TRCH uses (mbox_ip_block, by base address)
  Instances,   \* the mailboxes of all devices
  DevOf,       \* instance -> device
  ServerLinks, \* sequence of the links that links_init connects: [rcv, ack]
  Offered,     \* the links CMD_MBOX_LINK_CONNECT may ask for: [rcv, ack]
  MaxMboxes, MaxBlocks, MaxLinks, \* sizes of mboxes[], blocks[], links[]
  MaxIndex,    \* MAX_MBOX_LINKS of the server
  None

\* A link receives on one mailbox, event A ("rcv"), and sends on another, whose
\* event B ("ack") says that the message was taken.
Events  == {"rcv", "ack"}
Pairs   == {p \in [Events -> Instances] : DevOf[p["rcv"]] = DevOf[p["ack"]]}
Irqs    == Devs \X Events
Slots   == 1 .. MaxMboxes
LinkIds == 1 .. MaxLinks
Indices == 0 .. MaxIndex - 1
Servers == DOMAIN ServerLinks

\* struct mbox (its instance, its event, the cb_arg) and struct mbox_link in use
Mailbox == [inst : Instances \cup {None}, event : Events, link : LinkIds \cup {None}]
Link    == [slot : [Events -> Slots \cup {None}], ready : BOOLEAN]

ASSUME MailboxAssumption ==
  /\ IsFiniteSet(Devs) /\ DevOf \in [Instances -> Devs]
  /\ ServerLinks \in Seq(Pairs) /\ Offered \subseteq Pairs
  /\ MaxMboxes \in Nat /\ MaxBlocks \in Nat /\ MaxLinks \in Nat /\ MaxIndex \in Nat
  /\ Len(ServerLinks) <= MaxLinks /\ 2 * Len(ServerLinks) <= MaxMboxes
  /\ MaxIndex >= MaxLinks - Len(ServerLinks)
  /\ None \notin Instances /\ None \notin Irqs /\ None \notin Int
  /\ None \notin Mailbox /\ None \notin Link

VARIABLES
  mboxes,  \* mboxes[]: instance (None: not set yet), event, link (cb_arg; None: no cb)
  refs,    \* device -> refcnt of its block, 0 if it has none
  irqRefs, \* interrupt -> irq_refcnt
  links,   \* links[] and mlinks[]: the slots of the two mailboxes, and "priv is set"
  table,   \* the links[] of the server: index -> link
  pc, op, cur, pair, side, \* the command in progress: its step, link, mailboxes
  isr,     \* the interrupt being served: mailboxes left to look at, "handled"
  armed,   \* REG_INT_ENABLE: <<instance, event>> mapped to TRCH's interrupt
  raised,  \* REG_EVENT_STATUS
  owed,    \* events with which a remote will answer a message of TRCH
  enabled, pending \* the NVIC

objVars  == <<mboxes, refs, irqRefs, links, table>>
mainVars == <<pc, op, cur, pair, side>>
hwVars   == <<armed, raised, owed, enabled, pending>>
vars     == <<objVars, mainVars, isr, hwVars>>

\* Pools and tables are searched from the start.
First(S, x) == x \in S /\ \A y \in S : x <= y

ServerSlot(l, e) == IF e = "rcv" THEN 2 * l - 1 ELSE 2 * l

\* links_init has connected the links TRCH serves.
Init ==
  /\ links = [l \in LinkIds |->
       IF l \in Servers THEN [slot |-> [e \in Events |-> ServerSlot(l, e)], ready |-> TRUE]
       ELSE None]
  /\ mboxes = [s \in Slots |->
       IF s <= 2 * Len(ServerLinks)
       THEN LET l == (s + 1) \div 2  e == IF s % 2 = 1 THEN "rcv" ELSE "ack"
            IN  [inst |-> ServerLinks[l][e], event |-> e, link |-> l]
       ELSE None]
  /\ refs = [d \in Devs |->
       2 * Cardinality({l \in Servers : DevOf[ServerLinks[l]["rcv"]] = d})]
  /\ irqRefs = [q \in Irqs |->
       Cardinality({l \in Servers : DevOf[ServerLinks[l]["rcv"]] = q[1]})]
  /\ table = [i \in Indices |-> None]
  /\ pc = "serve" /\ op = "connect" /\ cur = None /\ pair = None /\ side = "rcv"
  /\ isr = None
  /\ armed = {<<ServerLinks[l][e], e>> : l \in Servers, e \in Events}
  /\ raised = {} /\ owed = {} /\ pending = {}
  /\ enabled = {q \in Irqs : irqRefs[q] > 0}

-----------------------------------------------------------------------------
(* The hardware                                                             *)

\* The interrupt line of a device.
Line(q) == \E i \in Instances : DevOf[i] = q[1] /\ <<i, q[2]>> \in raised \cap armed

\* The NVIC remembers a line that rose, even if it falls again before the
\* interrupt is taken.
Latch == pending' = pending \cup {q \in Irqs : ~Line(q) /\ Line(q)'}

\* A remote sends a command, or ACKs a message or replies to it, however late.
Raise(i, e) ==
  /\ <<i, e>> \notin raised
  /\ <<i, e>> \in owed \/ \E l \in Servers : ServerLinks[l][e] = i
  /\ raised' = raised \cup {<<i, e>>}
  /\ owed' = owed \ {<<i, e>>}
  /\ UNCHANGED <<objVars, mainVars, isr, armed, enabled>>
  /\ Latch

-----------------------------------------------------------------------------
(* mbox_isr                                                                 *)

Stopped == pc \in {"panic", "lost"}

IsrStart(q) ==
  /\ ~Stopped /\ isr = None /\ q \in pending \cap enabled
  /\ isr' = [irq |-> q, left |-> {s \in Slots : mboxes[s] # None}, handled |-> FALSE]
  /\ pending' = pending \ {q}
  /\ UNCHANGED <<objVars, mainVars, armed, raised, owed, enabled>>

\* "Are we signed up for this event from this mailbox?" All devices use the same
\* interrupt numbers, so that mailboxes of another device are found as well, and so
\* are mailboxes claimed for the other direction.
Signals(m) == m.inst # None /\ <<m.inst, isr.irq[2]>> \in raised \cap armed

\* Mutant: the handler leaves the event set.
ClearEventNot(m) == raised' = raised

\* Without a callback the event is just cleared; a callback clears the one it is for.
ClearEvent(m) ==
  raised' = raised \ {<<m.inst, IF m.link = None THEN isr.irq[2] ELSE m.event>>}

IsrMbox ==
  /\ ~Stopped /\ isr # None /\ isr.left # {}
  /\ \E s \in isr.left : First(isr.left, s) /\ LET m == mboxes[s] IN
         \* not claimed completely: the registers read are at address 0
         \/ /\ m.inst = None
            /\ \E h \in {isr.handled, TRUE} :
                 isr' = [isr EXCEPT !.left = @ \ {s}, !.handled = h]
            /\ UNCHANGED <<pc, raised>>
         \/ /\ m.inst # None /\ ~Signals(m)
            /\ isr' = [isr EXCEPT !.left = @ \ {s}]
            /\ UNCHANGED <<pc, raised>>
         \* a callback follows link->priv, which may not be set yet
         \/ /\ Signals(m)
            /\ isr' = [isr EXCEPT !.left = @ \ {s}, !.handled = TRUE]
            /\ IF m.link # None /\ ~links[m.link].ready
               THEN pc' = "lost" /\ UNCHANGED raised
               ELSE ClearEvent(m) /\ UNCHANGED pc
  /\ UNCHANGED <<objVars, op, cur, pair, side, armed, owed, enabled, pending>>

\* ASSERT(handled); a line that is still up makes the interrupt pending again.
IsrEnd ==
  /\ ~Stopped /\ isr # None /\ isr.left = {}
  /\ pc' = IF isr.handled THEN pc ELSE "panic"
  /\ pending' = IF Line(isr.irq) THEN pending \cup {isr.irq} ELSE pending
  /\ isr' = None
  /\ UNCHANGED <<objVars, op, cur, pair, side, armed, raised, owed, enabled>>

At(step) == pc = step /\ isr = None /\ pending \cap enabled = {}

-----------------------------------------------------------------------------
(* CMD_MBOX_LINK_CONNECT: mbox_link_connect and mbox_claim, first of the    *)
(* mailbox to receive on, then of the one to send on. TRCH is not the owner *)
(* of these mailboxes, and asks for no check of their configuration.        *)

Goto(from, to) == At(from) /\ pc' = to

\* Without a free link the reply is an error and nothing changes.
Connect(p) ==
  /\ Goto("serve", "claim")
  /\ \E l \in LinkIds :
       /\ First({k \in LinkIds : links[k] = None}, l)
       /\ cur' = l
       /\ links' = [links EXCEPT ![l] = [slot |-> [e \in Events |-> None], ready |-> FALSE]]
  /\ op' = "connect" /\ pair' = p /\ side' = "rcv"
  /\ UNCHANGED <<mboxes, refs, irqRefs, table, isr, hwVars>>

\* Mutant: the mailbox to receive on stays claimed when the other one cannot be.
ClaimFailedKeep ==
  pc' = "serve" /\ links' = [links EXCEPT ![cur] = None] /\ UNCHANGED side

\* mbox_claim failed: undo what was done (free_from, free_link).
ClaimFailed ==
  IF side = "rcv"
  THEN pc' = "serve" /\ links' = [links EXCEPT ![cur] = None] /\ UNCHANGED side
  ELSE pc' = "unsubscribe" /\ side' = "rcv" /\ UNCHANGED links

FreeSlots == {s \in Slots : mboxes[s] = None}

\* OBJECT_ALLOC(mboxes): from here on the interrupt sees the mailbox.
ClaimMbox ==
  /\ At("claim")
  /\ \/ \E s \in FreeSlots :
          /\ First(FreeSlots, s)
          /\ pc' = "block" /\ UNCHANGED side
          /\ mboxes' = [mboxes EXCEPT ![s] = [inst |-> None, event |-> side, link |-> None]]
          /\ links' = [links EXCEPT ![cur].slot[side] = s]
     \/ FreeSlots = {} /\ ClaimFailed /\ UNCHANGED mboxes
  /\ UNCHANGED <<refs, irqRefs, table, op, cur, pair, isr, hwVars>>

Slot == links[cur].slot[side]
Irq  == <<DevOf[pair[side]], side>>

CountBlock(d) == refs' = [refs EXCEPT ![d] = @ + 1]

\* block_get, and the address of the mailbox
GetBlock ==
  /\ At("block")
  /\ LET d == DevOf[pair[side]] IN
     IF refs[d] > 0 \/ Cardinality({b \in Devs : refs[b] > 0}) < MaxBlocks
     THEN /\ pc' = "arm"
          /\ CountBlock(d)
          /\ mboxes' = [mboxes EXCEPT ![Slot].inst = pair[side]]
          /\ UNCHANGED <<links, side>>
     ELSE mboxes' = [mboxes EXCEPT ![Slot] = None] /\ ClaimFailed /\ UNCHANGED refs
  /\ UNCHANGED <<irqRefs, table, op, cur, pair, isr, hwVars>>

\* mbox_irq_subscribe
Subscribe ==
  /\ irqRefs' = [irqRefs EXCEPT ![Irq] = @ + 1]
  /\ enabled' = IF irqRefs[Irq] = 0 THEN enabled \cup {Irq} ELSE enabled

\* The callback, REG_INT_ENABLE, and the subscription.
Arm ==
  /\ Goto("arm", IF side = "rcv" THEN "claim" ELSE "ready")
  /\ side' = "ack"
  /\ mboxes' = [mboxes EXCEPT ![Slot].link = cur]
  /\ armed' = armed \cup {<<pair[side], side>>}
  /\ Subscribe
  /\ UNCHANGED <<refs, links, table, op, cur, pair, isr, raised, owed>>
  /\ Latch

FreeIndices == {i \in Indices : table[i] = None}

\* link->priv and the rest of the link; linkp_alloc
Ready ==
  /\ Goto("ready", "serve")
  /\ links' = [links EXCEPT ![cur].ready = TRUE]
  /\ \/ \E i \in FreeIndices : First(FreeIndices, i) /\ table' = [table EXCEPT ![i] = cur]
     \/ FreeIndices = {} /\ UNCHANGED table
  /\ UNCHANGED <<mboxes, refs, irqRefs, op, cur, pair, side, isr, hwVars>>

-----------------------------------------------------------------------------
(* CMD_MBOX_LINK_DISCONNECT: mbox_link_disconnect and mbox_release; the     *)
(* mailbox is given back, and REG_INT_ENABLE stays as it is.                *)

\* An index without a link is followed through NULL.
Disconnect(i) ==
  /\ Goto("serve", IF table[i] # None THEN "unsubscribe" ELSE "lost")
  /\ op' = "disconnect" /\ cur' = table[i] /\ side' = "rcv"
  /\ pair' = IF table[i] # None
             THEN [e \in Events |-> mboxes[links[table[i]].slot[e]].inst] ELSE None
  /\ UNCHANGED <<objVars, isr, hwVars>>

\* Mutant: the interrupt is disabled although others subscribe to it.
UnsubscribeAll ==
  /\ Goto("unsubscribe", "release")
  /\ irqRefs' = [irqRefs EXCEPT ![Irq] = @ - 1]
  /\ enabled' = enabled \ {Irq}
  /\ UNCHANGED <<mboxes, refs, links, table, op, cur, pair, side, isr,
                 armed, raised, owed, pending>>

Unsubscribe ==
  /\ Goto("unsubscribe", "release")
  /\ irqRefs' = [irqRefs EXCEPT ![Irq] = @ - 1]
  /\ enabled' = IF irqRefs[Irq] = 1 THEN enabled \ {Irq} ELSE enabled
  /\ UNCHANGED <<mboxes, refs, links, table, op, cur, pair, side, isr,
                 armed, raised, owed, pending>>

\* block_put asserts that nobody subscribes to the interrupts of a block it frees.
PutAsserts ==
  LET d == DevOf[pair[side]] IN refs[d] = 1 /\ \E e \in Events : irqRefs[<<d, e>>] > 0

\* block_put and OBJECT_FREE of the mailbox; after the last one of mlink and link,
\* and linkp_free.
Release ==
  /\ At("release")
  /\ refs' = [refs EXCEPT ![DevOf[pair[side]]] = @ - 1]
  /\ mboxes' = [mboxes EXCEPT ![Slot] = None]
  /\ IF op = "disconnect" /\ side = "rcv"
     THEN side' = "ack" /\ UNCHANGED <<links, table>>
     ELSE /\ links' = [links EXCEPT ![cur] = None]
          /\ table' = [i \in Indices |-> IF table[i] = cur THEN None ELSE table[i]]
          /\ UNCHANGED side
  /\ pc' = CASE PutAsserts -> "panic"
             [] ~PutAsserts /\ op = "disconnect" /\ side = "rcv" -> "unsubscribe"
             [] OTHER -> "serve"
  /\ UNCHANGED <<irqRefs, op, cur, pair, isr, hwVars>>

-----------------------------------------------------------------------------
\* CMD_MBOX_LINK_PING: a request over the link. The wait for the ACK and the reply
\* may give up at any time (MailboxLink): they come when they come.
Ping(i) ==
  /\ At("serve")
  /\ IF table[i] # None
     THEN /\ owed' = owed \cup {<<mboxes[links[table[i]].slot[e]].inst, e>> : e \in Events}
          /\ UNCHANGED pc
     ELSE pc' = "lost" /\ UNCHANGED owed
  /\ UNCHANGED <<objVars, op, cur, pair, side, isr, armed, raised, enabled, pending>>

-----------------------------------------------------------------------------
Work == ClaimMbox \/ GetBlock \/ Arm \/ Ready \/ Unsubscribe \/ Release
Isr  == (\E q \in Irqs : IsrStart(q)) \/ IsrMbox \/ IsrEnd
Next ==
  \/ \E p \in Offered : Connect(p)
  \/ \E i \in Indices : Disconnect(i) \/ Ping(i)
  \/ Work \/ Isr
  \/ \E i \in Instances, e \in Events : Raise(i, e)

Spec == Init /\ [][Next]_vars

\* TRCH executes; any interrupt that is pending is served sooner or later.
FairSpec == Spec /\ WF_vars(Work) /\ WF_vars(IsrMbox) /\ WF_vars(IsrEnd)
                 /\ \A q \in Irqs : SF_vars(IsrStart(q))

-----------------------------------------------------------------------------
(* Properties *)

Steps   == {"serve", "claim", "block", "arm", "ready", "unsubscribe", "release",
            "panic", "lost"}

TypeOK ==
  /\ mboxes \in [Slots -> Mailbox \cup {None}]
  /\ refs \in [Devs -> Nat] /\ irqRefs \in [Irqs -> Nat]
  /\ links \in [LinkIds -> Link \cup {None}]
  /\ table \in [Indices -> LinkIds \cup {None}]
  /\ pc \in Steps /\ op \in {"connect", "disconnect"}
  /\ cur \in LinkIds \cup {None} /\ pair \in Pairs \cup {None} /\ side \in Events
  /\ isr \in [irq : Irqs, left : SUBSET Slots, handled : BOOLEAN] \cup {None}
  /\ armed \subseteq Instances \X Events /\ raised \subseteq Instances \X Events
  /\ owed \subseteq Instances \X Events
  /\ enabled \subseteq Irqs /\ pending \subseteq Irqs

\* The mailboxes claimed on device d, and those subscribed to interrupt q: all that
\* have a callback but the one mbox_release is giving back.
Claimed(d) == {s \in Slots : mboxes[s] # None /\ mboxes[s].inst # None /\ DevOf[mboxes[s].inst] = d}
Subscribed(q) ==
  {s \in Claimed(q[1]) : /\ mboxes[s].event = q[2] /\ mboxes[s].link # None
                         /\ ~(pc = "release" /\ s = Slot)}

\* The reference counts of blocks and interrupts are those of the mailboxes in use,
\* through every failure of mbox_link_connect and every release, and an interrupt is
\* enabled exactly while somebody subscribes to it.
RefsExact ==
  ~Stopped =>
    /\ \A d \in Devs : refs[d] = Cardinality(Claimed(d))
    /\ \A q \in Irqs : irqRefs[q] = Cardinality(Subscribed(q)) /\ (q \in enabled <=> irqRefs[q] > 0)

\* A link that is connected can hear: its mailboxes are claimed for it, their events
\* are mapped to the interrupt, and that is enabled, whatever other links on the same
\* device or even the same mailboxes are connected, undone or disconnected.
Listening ==
  \A l \in LinkIds : \A e \in Events :
    links[l] # None /\ links[l].ready /\ ~(pc \in {"unsubscribe", "release"} /\ cur = l)
    /\ ~Stopped =>
      /\ links[l].slot[e] # None
      /\ LET m == mboxes[links[l].slot[e]] IN
           /\ m # None /\ m.link = l /\ m.event = e /\ m.inst # None
           /\ <<m.inst, e>> \in armed /\ <<DevOf[m.inst], e>> \in enabled

\* Links and mailboxes do not leak: every mailbox belongs to a link, and every link
\* serves a client from the start, is in the table of the server exactly once, or is
\* being connected.
NothingLeaks ==
  ~Stopped =>
    /\ \A s \in Slots : mboxes[s] # None => \E l \in LinkIds, e \in Events :
                                             links[l] # None /\ links[l].slot[e] = s
    /\ \A l \in LinkIds : links[l] # None <=>
         \/ l \in Servers
         \/ \E i \in Indices : table[i] = l
         \/ l = cur /\ op = "connect" /\ pc # "serve"
    /\ \A i, j \in Indices : table[i] = table[j] /\ table[i] # None => i = j

\* Every claim is accounted for, through a connect that fails at its second mailbox
\* (mailbox-link.c:243) as through any other.
Accounted == RefsExact /\ NothingLeaks

\* An interrupt finds a mailbox that raised it: "otherwise, we're not correctly
\* subscribed to interrupts" (mailbox.c:338).
AlwaysHandled == pc # "panic"

\* No callback is made for a link that is still being set up.
CallbacksReady == [][isr # None => pc' # "lost"]_vars

\* A message or ACK for a connected link is taken, unless TRCH stops or disconnects.
Heard(i, e) == \E s \in Slots : mboxes[s] # None /\ mboxes[s].inst = i /\ mboxes[s].event = e
                               /\ mboxes[s].link # None
EventuallyTaken ==
  \A i \in Instances, e \in Events :
    <<i, e>> \in raised /\ Heard(i, e) ~> <<i, e>> \notin raised \/ ~Heard(i, e) \/ Stopped

=============================================================================

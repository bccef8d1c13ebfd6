---------------------------- MODULE DriverProofs ----------------------------
(***************************************************************************)
(* Theorems about two drivers, of the mailboxes and of the DMA controller. *)
(* Mailboxes: for any devices, links and pools, what connect and           *)
(* disconnect count and allocate is exact, and a connected link can hear.  *)
(* The invariant is MboxInv: it says what mbox_link_connect and            *)
(* mbox_link_disconnect have got done at each of their steps.              *)
(* Dma: the few objects for requests are neither lost nor freed twice      *)
(* (TxesInv); and the microcode of a request, of any size and for any      *)
(* limits of the loop instructions, copies every burst of it once. Within  *)
(* says so of the place that the thread has reached in its program, and    *)
(* CopyInv relates the thread, the request and the interrupt.              *)
(***************************************************************************)
EXTENDS Mailboxes, DmaRequests, SequenceTheorems, FiniteSetTheorems, FunctionTheorems, TLAPS

\* The mailbox of link l for event e is instance i, with its callback, and mapped to the
\* interrupt.
Bound(l, e, i) ==
  /\ links[l].slot[e] \in Slots
  /\ mboxes[links[l].slot[e]] = [inst |-> i, event |-> e, link |-> l]
  /\ i \in Instances /\ <<i, e>> \in armed

\* Both mailboxes of a link are bound, and of one device.
Settled(l) == links[l].ready /\ \E p \in Pairs : \A e \in Events : Bound(l, e, p[e])

Claiming == {"claim", "block", "arm", "ready"}
Undoing  == {"unsubscribe", "release"}
Busy     == pc \in Claiming \cup Undoing

\* A link that nobody works on is complete.
SettledInv == \A l \in LinkIds : links[l] # None /\ ~(Busy /\ l = cur) => Settled(l)

\* The table of the server holds the links that clients have connected, each at one index.
TableInv ==
  /\ \A i \in Indices : table[i] # None => table[i] \notin Servers /\ links[table[i]] # None
  /\ \A i, j \in Indices : table[i] = table[j] /\ table[i] # None => i = j
  /\ \A l \in LinkIds : links[l] # None =>
       \/ l \in Servers
       \/ \E i \in Indices : table[i] = l
       \/ l = cur /\ op = "connect" /\ Busy
  /\ \A l \in Servers : links[l] # None

\* The link that is being connected or disconnected.
WorkInv ==
  Busy =>
    /\ cur \in LinkIds /\ cur \notin Servers /\ links[cur] # None /\ pair \in Pairs
    /\ op = "connect" => ~links[cur].ready /\ \A i \in Indices : table[i] # cur
    /\ op = "disconnect" => links[cur].ready

\* mbox_link_connect: the first mailbox is bound before the second is claimed.
ClaimInv ==
  pc \in Claiming =>
    /\ op = "connect"
    /\ side = "rcv" => links[cur].slot["ack"] = None
    /\ side = "ack" => Bound(cur, "rcv", pair["rcv"])
    /\ pc = "claim" => links[cur].slot[side] = None
    /\ pc \in {"block", "arm"} => Slot \in Slots
    /\ pc = "block" => mboxes[Slot] = [inst |-> None, event |-> side, link |-> None]
    /\ pc = "arm"   => mboxes[Slot] = [inst |-> pair[side], event |-> side, link |-> None]
    /\ pc = "ready" => side = "ack" /\ Bound(cur, "ack", pair["ack"])

\* mbox_release, of both mailboxes, or of the first when the second could not be claimed.
UndoInv ==
  pc \in Undoing =>
    /\ Bound(cur, side, pair[side])
    /\ op = "connect" =>
         side = "rcv" /\ (links[cur].slot["ack"] # None => mboxes[links[cur].slot["ack"]] = None)
    /\ op = "disconnect" /\ side = "rcv" => Bound(cur, "ack", pair["ack"])
    /\ op = "disconnect" /\ side = "ack" => mboxes[links[cur].slot["rcv"]] = None

\* Every mailbox is one of a link.
OwnedInv ==
  \A s \in Slots : mboxes[s] # None =>
    \E l \in LinkIds, e \in Events : links[l] # None /\ links[l].slot[e] = s

LinksInv == SettledInv /\ TableInv /\ WorkInv /\ ClaimInv /\ UndoInv /\ OwnedInv
MboxInv  == TypeOK /\ RefsExact /\ (~Stopped => LinksInv)

-----------------------------------------------------------------------------
(* Sets of slots and their sizes                                            *)

\* Sets of places for mailboxes are finite; how their sizes change by one mailbox.
LEMMA SlotSets ==
  ASSUME NEW S \in SUBSET Slots
  PROVE  /\ IsFiniteSet(S) /\ Cardinality(S) \in Nat
         /\ Cardinality(S) > 0 <=> S # {}
         /\ \A s : Cardinality(S \cup {s}) = IF s \in S THEN Cardinality(S) ELSE Cardinality(S) + 1
         /\ \A s : Cardinality(S \ {s}) = IF s \in S THEN Cardinality(S) - 1 ELSE Cardinality(S)
<1>1. IsFiniteSet(Slots)
  BY FS_Interval, MailboxAssumption DEF Slots
<1>2. IsFiniteSet(S)
  BY <1>1, FS_Subset
<1>3. Cardinality(S) \in Nat
  BY <1>2, FS_CardinalityType
<1>4. Cardinality(S) = 0 <=> S = {}
  BY <1>2, FS_EmptySet
<1>5. \A s : Cardinality(S \cup {s}) = IF s \in S THEN Cardinality(S) ELSE Cardinality(S) + 1
  BY <1>2, FS_AddElement
<1>6. \A s : Cardinality(S \ {s}) = IF s \in S THEN Cardinality(S) - 1 ELSE Cardinality(S)
  BY <1>2, FS_RemoveElement
<1>7. QED
  BY <1>2, <1>3, <1>4, <1>5, <1>6

\* What the definitions say of slots, devices and events.
LEMMA Basics ==
  /\ None \notin Slots /\ None \notin LinkIds /\ Slots \subseteq Int /\ Servers \subseteq LinkIds
  /\ \A p \in Pairs : \A e \in Events : p[e] \in Instances /\ DevOf[p[e]] \in Devs
                                       /\ p[e] # None /\ <<DevOf[p[e]], e>> \in Irqs
  /\ \A p \in Pairs : DevOf[p["rcv"]] = DevOf[p["ack"]]
  /\ \A i \in Instances : DevOf[i] \in Devs /\ i # None
  /\ "rcv" \in Events /\ "ack" \in Events
<1>1. None \notin Slots /\ None \notin LinkIds /\ Slots \subseteq Int
  BY MailboxAssumption DEF Slots, LinkIds
<1>2. Servers \subseteq LinkIds
  <2>1. Len(ServerLinks) \in Nat /\ Servers = 1 .. Len(ServerLinks) /\ Len(ServerLinks) <= MaxLinks
    BY MailboxAssumption DEF Servers
  <2>2. QED
    BY <2>1, MailboxAssumption DEF LinkIds
<1>3. \A i \in Instances : DevOf[i] \in Devs /\ i # None
  BY MailboxAssumption
<1>4. \A p \in Pairs : DevOf[p["rcv"]] = DevOf[p["ack"]] /\ \A e \in Events : p[e] \in Instances
  BY DEF Pairs
<1>5. "rcv" \in Events /\ "ack" \in Events
  BY DEF Events
<1>6. QED
  BY <1>1, <1>2, <1>3, <1>4, <1>5 DEF Irqs

\* A mailbox in use is not a free slot.
LEMMA MailboxRecord ==
  ASSUME NEW i \in Instances \cup {None}, NEW e \in Events, NEW l \in LinkIds \cup {None}
  PROVE  /\ [inst |-> i, event |-> e, link |-> l] \in Mailbox
         /\ [inst |-> i, event |-> e, link |-> l] # None
<1>1. [inst |-> i, event |-> e, link |-> l] \in Mailbox
  BY DEF Mailbox
<1>2. QED
  BY <1>1, MailboxAssumption

\* Counting mailboxes: those of a device, and the subscribers of an interrupt, stay the
\* same while the mailboxes and the one being released do.
LEMMA RefsKept ==
  ASSUME RefsExact, ~Stopped, UNCHANGED <<refs, irqRefs, enabled>>,
         \A d \in Devs : Claimed(d)' = Claimed(d),
         \A q \in Irqs : Subscribed(q)' = Subscribed(q)
  PROVE  RefsExact'
BY DEF RefsExact

\* What a reference count stands for is a set of places for mailboxes.
LEMMA CountSets ==
  /\ \A d \in Devs : Claimed(d) \in SUBSET Slots
  /\ \A q \in Irqs : Subscribed(q) \in SUBSET Slots
BY DEF Claimed, Subscribed

\* A binding is kept by what leaves the mailbox and its place in the link alone.
LEMMA BoundKept ==
  ASSUME NEW l \in LinkIds, NEW e \in Events, NEW i, Bound(l, e, i),
         links'[l].slot[e] = links[l].slot[e],
         mboxes'[links[l].slot[e]] = mboxes[links[l].slot[e]],
         armed \subseteq armed'
  PROVE  Bound(l, e, i)'
BY DEF Bound

\* A link stays complete through what leaves it and the mailboxes with its callback alone.
LEMMA SettledKept ==
  ASSUME NEW l \in LinkIds, Settled(l), links'[l] = links[l], armed \subseteq armed',
         \A t \in Slots : mboxes[t] # None /\ mboxes[t].link = l => mboxes'[t] = mboxes[t]
  PROVE  Settled(l)'
<1>1. PICK p \in Pairs : \A e \in Events : Bound(l, e, p[e])
  BY DEF Settled
<1>2. ASSUME NEW e \in Events PROVE Bound(l, e, p[e])'
  <2>1. /\ mboxes[links[l].slot[e]] = [inst |-> p[e], event |-> e, link |-> l]
        /\ links[l].slot[e] \in Slots
    BY <1>1 DEF Bound
  <2>2. p[e] \in Instances \cup {None} /\ l \in LinkIds \cup {None}
    BY Basics
  <2>3. [inst |-> p[e], event |-> e, link |-> l] # None
    BY <2>2, MailboxRecord
  <2>4. mboxes'[links[l].slot[e]] = mboxes[links[l].slot[e]]
    BY <2>1, <2>3
  <2>5. QED
    BY <1>1, <2>4, BoundKept
<1>3. QED
  BY <1>2 DEF Settled

\* The mailboxes and links in use are records.
LEMMA InUse ==
  ASSUME TypeOK
  PROVE  /\ \A s \in Slots : mboxes[s] # None => mboxes[s] \in Mailbox
         /\ \A l \in LinkIds : links[l] # None =>
              links[l] \in Link /\ \A e \in Events : links[l].slot[e] \in Slots \cup {None}
BY DEF TypeOK, Link

-----------------------------------------------------------------------------
(* The hardware and the interrupt handler                                   *)

\* What leaves objects, main loop, mapping and NVIC masks alone keeps the invariant.
LEMMA QuietStep ==
  ASSUME MboxInv, TypeOK', UNCHANGED <<objVars, mainVars, armed, enabled>>
  PROVE  MboxInv'
<1>1. UNCHANGED <<mboxes, refs, irqRefs, links, table, pc, op, cur, pair, side, armed, enabled>>
  BY DEF objVars, mainVars
<1>2. RefsExact'
  BY <1>1 DEF MboxInv, RefsExact, Claimed, Subscribed, Stopped, Slot
<1>3. ASSUME ~Stopped' PROVE LinksInv'
  <2>1. LinksInv
    BY <1>1, <1>3 DEF MboxInv, Stopped
  <2>2. \A l, e, i : Bound(l, e, i)' <=> Bound(l, e, i)
    BY <1>1 DEF Bound
  <2>3. \A l : Settled(l)' <=> Settled(l)
    BY <1>1, <2>2 DEF Settled
  <2>4. SettledInv' /\ TableInv' /\ OwnedInv'
    BY <1>1, <2>1, <2>3 DEF LinksInv, SettledInv, TableInv, OwnedInv, Busy
  <2>5. WorkInv' /\ ClaimInv' /\ UndoInv'
    <3>1. WorkInv'
      BY <1>1, <2>1 DEF LinksInv, WorkInv, Busy
    <3>2. ClaimInv'
      BY <1>1, <2>1, <2>2 DEF LinksInv, ClaimInv, Slot
    <3>3. UndoInv'
      BY <1>1, <2>1, <2>2 DEF LinksInv, UndoInv
    <3>4. QED
      BY <3>1, <3>2, <3>3
  <2>6. QED
    BY <2>4, <2>5 DEF LinksInv
<1>4. QED
  BY <1>2, <1>3 DEF MboxInv

\* A remote raises an event: nothing the server counts changes.
LEMMA RaiseStep ==
  ASSUME MboxInv, NEW i \in Instances, NEW e \in Events, Raise(i, e)
  PROVE  MboxInv'
<1>1. UNCHANGED <<objVars, mainVars, isr, armed, enabled>>
  BY DEF Raise
<1>2. /\ raised' \subseteq Instances \X Events /\ owed' \subseteq Instances \X Events
      /\ pending' \subseteq Irqs
  BY DEF Raise, Latch, MboxInv, TypeOK
<1>3. TypeOK'
  BY <1>1, <1>2 DEF MboxInv, TypeOK, objVars, mainVars
<1>4. QED
  BY <1>1, <1>3, QuietStep

\* The handler looks at the mailboxes and clears events; it changes none of the objects.
LEMMA IsrStep ==
  ASSUME MboxInv, (\E q \in Irqs : IsrStart(q)) \/ IsrMbox \/ IsrEnd
  PROVE  MboxInv'
<1>1. UNCHANGED <<objVars, op, cur, pair, side, armed, enabled, owed>> /\ ~Stopped
  BY DEF IsrStart, IsrMbox, IsrEnd, mainVars
<1>2. pc' \in Steps /\ (pc' = pc \/ pc' \in {"panic", "lost"})
  BY DEF IsrStart, IsrMbox, IsrEnd, mainVars, MboxInv, TypeOK, Steps
<1>3. /\ isr' \in [irq : Irqs, left : SUBSET Slots, handled : BOOLEAN] \cup {None}
      /\ raised' \subseteq Instances \X Events /\ pending' \subseteq Irqs
  <2>1. CASE \E q \in Irqs : IsrStart(q)
    BY <2>1 DEF IsrStart, MboxInv, TypeOK
  <2>2. CASE IsrMbox
    <3>1. pending' \subseteq Irqs
      BY <2>2 DEF IsrMbox, MboxInv, TypeOK
    <3>2. raised' \subseteq Instances \X Events
      BY <2>2 DEF IsrMbox, ClearEvent, MboxInv, TypeOK
    <3>3. isr \in [irq : Irqs, left : SUBSET Slots, handled : BOOLEAN]
      BY <2>2 DEF IsrMbox, MboxInv, TypeOK
    <3>4. \E s \in Slots, h \in BOOLEAN : isr' = [isr EXCEPT !.left = @ \ {s}, !.handled = h]
      <4>1. isr.left \subseteq Slots /\ isr.handled \in BOOLEAN
        BY <3>3
      <4>2. [isr EXCEPT !.handled = isr.handled] = isr
        BY <3>3
      <4>3. PICK s \in isr.left :
              \/ \E h \in {isr.handled, TRUE} : isr' = [isr EXCEPT !.left = @ \ {s}, !.handled = h]
              \/ isr' = [isr EXCEPT !.left = @ \ {s}]
        BY <2>2 DEF IsrMbox
      <4>4. CASE \E h \in {isr.handled, TRUE} : isr' = [isr EXCEPT !.left = @ \ {s}, !.handled = h]
        BY <4>1, <4>4
      <4>5. CASE isr' = [isr EXCEPT !.left = @ \ {s}]
        <5>1. isr' = [isr EXCEPT !.left = @ \ {s}, !.handled = isr.handled]
          BY <3>3, <4>5
        <5>2. QED
          BY <4>1, <5>1
      <4>6. QED
        BY <4>3, <4>4, <4>5
    <3>5. isr' \in [irq : Irqs, left : SUBSET Slots, handled : BOOLEAN]
      BY <3>3, <3>4
    <3>6. QED
      BY <3>1, <3>2, <3>5
  <2>3. CASE IsrEnd
    <3>1. isr.irq \in Irqs
      BY <2>3 DEF IsrEnd, MboxInv, TypeOK
    <3>2. QED
      BY <2>3, <3>1 DEF IsrEnd, MboxInv, TypeOK
  <2>4. QED
    BY <2>1, <2>2, <2>3
<1>4. TypeOK'
  BY <1>1, <1>2, <1>3 DEF MboxInv, TypeOK, objVars
<1>5. CASE pc' = pc
  <2>1. UNCHANGED mainVars
    BY <1>1, <1>5 DEF mainVars
  <2>2. QED
    BY <1>1, <1>4, <2>1, QuietStep
<1>6. CASE pc' \in {"panic", "lost"}
  BY <1>4, <1>6 DEF MboxInv, RefsExact, Stopped
<1>7. QED
  BY <1>2, <1>5, <1>6

-----------------------------------------------------------------------------
(* Connecting                                                               *)

\* A free link is taken; it has no mailbox yet.
LEMMA ConnectStep ==
  ASSUME MboxInv, NEW p \in Offered, Connect(p)
  PROVE  MboxInv'
<1>1. /\ pc = "serve" /\ pc' = "claim" /\ op' = "connect" /\ pair' = p /\ side' = "rcv"
      /\ UNCHANGED <<mboxes, refs, irqRefs, table, isr, armed, raised, owed, enabled, pending>>
  BY DEF Connect, Goto, At, hwVars
<1> DEFINE fresh == [slot |-> [e \in Events |-> None], ready |-> FALSE]
<1>2. PICK l \in LinkIds : links[l] = None /\ cur' = l /\ links' = [links EXCEPT ![l] = fresh]
  BY DEF Connect, First
<1>3. fresh \in Link /\ fresh # None /\ ~fresh.ready /\ \A e \in Events : fresh.slot[e] = None
  <2>1. fresh \in Link
    BY DEF Link
  <2>2. QED
    BY <2>1, MailboxAssumption
<1> HIDE DEF fresh
<1>4. ~Stopped /\ ~Stopped' /\ LinksInv /\ TypeOK /\ p \in Pairs
  BY <1>1, MailboxAssumption DEF MboxInv, Stopped
<1>5. links' \in [LinkIds -> Link \cup {None}] /\ links'[l] = fresh
      /\ \A k \in LinkIds : k # l => links'[k] = links[k]
  BY <1>2, <1>3, <1>4 DEF TypeOK
<1>6. TypeOK'
  BY <1>1, <1>2, <1>4, <1>5, Basics DEF TypeOK, Steps
<1>7. RefsExact'
  <2>1. \A d \in Devs : Claimed(d)' = Claimed(d)
    BY <1>1 DEF Claimed
  <2>2. \A q \in Irqs : Subscribed(q)' = Subscribed(q)
    BY <1>1 DEF Subscribed, Claimed
  <2>3. QED
    BY <1>1, <1>4, <2>1, <2>2, RefsKept DEF MboxInv
<1>8. l \notin Servers /\ \A i \in Indices : table[i] # l
  BY <1>2, <1>4, Basics DEF LinksInv, TableInv
<1>9. SettledInv'
  <2> SUFFICES ASSUME NEW k \in LinkIds, links'[k] # None, k # l PROVE Settled(k)'
    BY <1>1, <1>2 DEF SettledInv, Busy, Claiming
  <2>1. links'[k] = links[k] /\ ~(Busy /\ k = cur)
    BY <1>1, <1>5 DEF Busy, Claiming, Undoing
  <2>2. Settled(k)
    BY <1>4, <2>1 DEF LinksInv, SettledInv
  <2>3. QED
    BY <1>1, <2>1, <2>2 DEF Settled, Bound
<1>10. TableInv'
  <2>1. ~Busy
    BY <1>1 DEF Busy, Claiming, Undoing
  <2>2. Busy'
    BY <1>1 DEF Busy, Claiming
  <2>3. \A i \in Indices : table'[i] # None => table'[i] \notin Servers /\ links'[table'[i]] # None
    BY <1>1, <1>4, <1>5, <1>8 DEF LinksInv, TableInv, TypeOK
  <2>4. \A k \in LinkIds : links'[k] # None =>
           k \in Servers \/ (\E i \in Indices : table'[i] = k) \/ (k = l /\ op' = "connect" /\ Busy')
    BY <1>1, <1>4, <1>5, <2>1, <2>2 DEF LinksInv, TableInv
  <2>5. \A k \in Servers : links'[k] # None
    BY <1>4, <1>5, <1>8, Basics DEF LinksInv, TableInv
  <2>6. QED
    BY <1>1, <1>2, <1>4, <2>3, <2>4, <2>5 DEF LinksInv, TableInv
<1>11. WorkInv'
  BY <1>1, <1>2, <1>3, <1>4, <1>5, <1>8 DEF WorkInv
<1>12. ClaimInv' /\ UndoInv'
  BY <1>1, <1>2, <1>3, <1>5, Basics DEF ClaimInv, UndoInv, Undoing
<1>13. OwnedInv'
  <2>1. \A k \in LinkIds : links[k] # None => k # l
    BY <1>2
  <2>2. QED
    BY <1>1, <1>4, <1>5, <2>1 DEF LinksInv, OwnedInv
<1>14. QED
  BY <1>4, <1>6, <1>7, <1>9, <1>10, <1>11, <1>12, <1>13 DEF MboxInv, LinksInv

\* What is known of the link in progress.
LEMMA InProgress ==
  ASSUME MboxInv, Busy
  PROVE  /\ ~Stopped /\ LinksInv /\ TypeOK /\ cur \in LinkIds /\ cur \notin Servers
         /\ links[cur] # None /\ links[cur] \in Link
         /\ \A e \in Events : links[cur].slot[e] \in Slots \cup {None}
         /\ pair \in Pairs /\ side \in Events /\ op \in {"connect", "disconnect"}
<1>1. ~Stopped
  BY DEF Busy, Claiming, Undoing, Stopped
<1>2. LinksInv /\ TypeOK
  BY <1>1 DEF MboxInv
<1>3. QED
  BY <1>1, <1>2, InUse DEF LinksInv, WorkInv, TypeOK

\* A mailbox of the pool becomes one of the link.
LEMMA ClaimStep ==
  ASSUME MboxInv, ClaimMbox, FreeSlots # {}
  PROVE  MboxInv'
<1>1. pc = "claim" /\ UNCHANGED <<refs, irqRefs, table, op, cur, pair, isr, armed, raised, owed,
                                  enabled, pending>>
  BY DEF ClaimMbox, At, hwVars
<1>2. PICK s \in Slots :
        /\ mboxes[s] = None /\ pc' = "block" /\ side' = side
        /\ mboxes' = [mboxes EXCEPT ![s] = [inst |-> None, event |-> side, link |-> None]]
        /\ links' = [links EXCEPT ![cur].slot[side] = s]
  BY DEF ClaimMbox, FreeSlots, First
<1>3. Busy /\ ~Stopped'
  BY <1>1, <1>2 DEF Busy, Claiming, Stopped
<1>4. /\ ~Stopped /\ LinksInv /\ TypeOK /\ cur \in LinkIds /\ cur \notin Servers
      /\ links[cur] # None /\ links[cur] \in Link
      /\ \A e \in Events : links[cur].slot[e] \in Slots \cup {None}
      /\ pair \in Pairs /\ side \in Events
  BY <1>3, InProgress
<1>5. /\ op = "connect" /\ links[cur].slot[side] = None /\ ~links[cur].ready
      /\ side = "rcv" => links[cur].slot["ack"] = None
      /\ side = "ack" => Bound(cur, "rcv", pair["rcv"])
  BY <1>1, <1>3, <1>4 DEF LinksInv, ClaimInv, WorkInv, Claiming
<1>6. /\ links' \in [LinkIds -> Link \cup {None}] /\ links'[cur] \in Link /\ links'[cur] # None
      /\ links'[cur].slot[side] = s /\ links'[cur].ready = links[cur].ready
      /\ \A e \in Events : e # side => links'[cur].slot[e] = links[cur].slot[e]
      /\ \A l \in LinkIds : l # cur => links'[l] = links[l]
  <2> DEFINE L == [links[cur] EXCEPT !.slot = [@ EXCEPT ![side] = s]]
  <2>1. links' = [links EXCEPT ![cur] = L]
    BY <1>2
  <2>2. L \in Link /\ L.slot[side] = s /\ L.ready = links[cur].ready
        /\ \A e \in Events : e # side => L.slot[e] = links[cur].slot[e]
    BY <1>4 DEF Link
  <2>3. L # None
    BY <2>2, MailboxAssumption
  <2> HIDE DEF L
  <2>4. QED
    BY <1>4, <2>1, <2>2, <2>3 DEF TypeOK
<1>7. /\ mboxes' \in [Slots -> Mailbox \cup {None}]
      /\ mboxes'[s] = [inst |-> None, event |-> side, link |-> None] /\ mboxes'[s] # None
      /\ \A t \in Slots : t # s => mboxes'[t] = mboxes[t]
  BY <1>2, <1>4, MailboxRecord DEF TypeOK
<1>8. TypeOK'
  BY <1>1, <1>2, <1>4, <1>6, <1>7 DEF TypeOK, Steps
<1>9. RefsExact'
  <2>1. \A d \in Devs : Claimed(d)' = Claimed(d)
    BY <1>2, <1>7 DEF Claimed
  <2>2. \A q \in Irqs : Subscribed(q)' = Subscribed(q)
    <3>1. \A q \in Irqs : Subscribed(q) =
            {t \in Claimed(q[1]) : mboxes[t].event = q[2] /\ mboxes[t].link # None}
      BY <1>1 DEF Subscribed
    <3>2. \A q \in Irqs : Subscribed(q)' =
            {t \in Claimed(q[1])' : mboxes'[t].event = q[2] /\ mboxes'[t].link # None}
      BY <1>2 DEF Subscribed
    <3>3. \A q \in Irqs : s \notin Claimed(q[1]) /\ Claimed(q[1]) \subseteq Slots
      BY <1>2 DEF Claimed
    <3>4. \A q \in Irqs : q[1] \in Devs
      BY DEF Irqs
    <3>5. ASSUME NEW q \in Irqs PROVE Subscribed(q)' = Subscribed(q)
      <4>1. Claimed(q[1])' = Claimed(q[1]) /\ s \notin Claimed(q[1]) /\ Claimed(q[1]) \subseteq Slots
        BY <2>1, <3>3, <3>4
      <4>2. \A t \in Claimed(q[1]) : mboxes'[t] = mboxes[t]
        BY <1>7, <4>1
      <4>3. \A t : t \in Subscribed(q)' <=>
                t \in Claimed(q[1])' /\ mboxes'[t].event = q[2] /\ mboxes'[t].link # None
        BY <3>2
      <4>4. \A t : t \in Subscribed(q) <=>
                t \in Claimed(q[1]) /\ mboxes[t].event = q[2] /\ mboxes[t].link # None
        BY <3>1
      <4>5. \A t : t \in Subscribed(q)' <=> t \in Subscribed(q)
        BY <4>1, <4>2, <4>3, <4>4
      <4>6. QED
        BY <4>5
    <3>6. QED
      BY <3>5
  <2>3. QED
    BY <1>1, <1>4, <2>1, <2>2, RefsKept DEF MboxInv
<1>10. SettledInv'
  <2> SUFFICES ASSUME NEW k \in LinkIds, links'[k] # None, k # cur PROVE Settled(k)'
    BY <1>1, <1>2 DEF SettledInv, Busy, Claiming
  <2>1. links'[k] = links[k] /\ Settled(k) /\ armed \subseteq armed'
    BY <1>1, <1>4, <1>6 DEF LinksInv, SettledInv
  <2>2. QED
    BY <1>2, <1>7, <2>1, SettledKept
<1>11. TableInv'
  <2>1. Busy'
    BY <1>2 DEF Busy, Claiming
  <2>2. \A l \in LinkIds : links'[l] # None <=> links[l] # None
    BY <1>4, <1>6
  <2>3. QED
    BY <1>1, <1>3, <1>4, <2>1, <2>2, Basics DEF LinksInv, TableInv, TypeOK
<1>12. WorkInv'
  BY <1>1, <1>3, <1>4, <1>5, <1>6 DEF LinksInv, WorkInv
<1>13. ClaimInv'
  <2>1. side = "ack" => Bound(cur, "rcv", pair["rcv"])'
    <3> SUFFICES ASSUME side = "ack" PROVE Bound(cur, "rcv", pair["rcv"])'
      OBVIOUS
    <3>1. Bound(cur, "rcv", pair["rcv"]) /\ pair["rcv"] \in Instances \cup {None} /\ cur \in LinkIds \cup {None}
      BY <1>4, <1>5, Basics
    <3>2. mboxes[links[cur].slot["rcv"]] # None
      BY <3>1, MailboxRecord, Basics DEF Bound
    <3>3. links[cur].slot["rcv"] # s /\ links[cur].slot["rcv"] \in Slots
      BY <1>2, <3>1, <3>2 DEF Bound
    <3>4. mboxes'[links[cur].slot["rcv"]] = mboxes[links[cur].slot["rcv"]]
          /\ links'[cur].slot["rcv"] = links[cur].slot["rcv"]
      BY <1>6, <1>7, <3>3, Basics
    <3>5. QED
      BY <1>1, <3>1, <3>4 DEF Bound
  <2>2. Slot' = s
    BY <1>1, <1>2, <1>6 DEF Slot
  <2>3. side = "rcv" => links'[cur].slot["ack"] = None
    BY <1>5, <1>6, Basics
  <2>4. QED
    BY <1>1, <1>2, <1>5, <1>7, <2>1, <2>2, <2>3 DEF ClaimInv, Claiming
<1>14. UndoInv'
  BY <1>2 DEF UndoInv, Undoing
<1>15. OwnedInv'
  <2> SUFFICES ASSUME NEW t \in Slots, mboxes'[t] # None
               PROVE  \E l \in LinkIds, e \in Events : links'[l] # None /\ links'[l].slot[e] = t
    BY DEF OwnedInv
  <2>1. CASE t = s
    BY <1>4, <1>6, <2>1
  <2>2. CASE t # s
    <3>1. PICK l \in LinkIds, e \in Events : links[l] # None /\ links[l].slot[e] = t
      BY <1>4, <1>7, <2>2 DEF LinksInv, OwnedInv
    <3>2. ~(l = cur /\ e = side)
      BY <1>5, <3>1, Basics
    <3>3. links'[l] # None /\ links'[l].slot[e] = t
      BY <1>6, <3>1, <3>2
    <3>4. QED
      BY <3>3
  <2>3. QED
    BY <2>1, <2>2
<1>16. QED
  BY <1>3, <1>8, <1>9, <1>10, <1>11, <1>12, <1>13, <1>14, <1>15 DEF MboxInv, LinksInv

\* The mailbox that is being claimed gets its block and its address.
LEMMA BlockStep ==
  ASSUME MboxInv, GetBlock, pc' = "arm"
  PROVE  MboxInv'
<1>0. PICK d, s : d = DevOf[pair[side]] /\ s = Slot
  OBVIOUS
<1>1. /\ pc = "block" /\ UNCHANGED <<irqRefs, table, op, cur, pair, isr, armed, raised, owed,
                                     enabled, pending>>
      /\ refs' = [refs EXCEPT ![d] = @ + 1]
      /\ mboxes' = [mboxes EXCEPT ![s].inst = pair[side]]
      /\ UNCHANGED <<links, side>>
  BY <1>0 DEF GetBlock, At, hwVars, ClaimFailed, CountBlock
<1>2. Busy /\ ~Stopped' /\ Busy'
  BY <1>1 DEF Busy, Claiming, Stopped
<1>3. /\ ~Stopped /\ LinksInv /\ TypeOK /\ cur \in LinkIds /\ cur \notin Servers
      /\ links[cur] # None /\ links[cur] \in Link
      /\ pair \in Pairs /\ side \in Events
  BY <1>2, InProgress
<1>4. /\ op = "connect" /\ s \in Slots
      /\ mboxes[s] = [inst |-> None, event |-> side, link |-> None]
      /\ side = "rcv" => links[cur].slot["ack"] = None
      /\ side = "ack" => Bound(cur, "rcv", pair["rcv"])
  BY <1>0, <1>1, <1>3 DEF LinksInv, ClaimInv, Claiming
<1>5. pair[side] \in Instances /\ pair[side] # None /\ d \in Devs /\ d = DevOf[pair[side]]
  BY <1>0, <1>3, Basics
<1>6. /\ mboxes' \in [Slots -> Mailbox \cup {None}]
      /\ mboxes'[s] = [inst |-> pair[side], event |-> side, link |-> None] /\ mboxes'[s] # None
      /\ \A t \in Slots : t # s => mboxes'[t] = mboxes[t]
      /\ mboxes[s] # None
  <2> DEFINE m == [inst |-> pair[side], event |-> side, link |-> None]
  <2>1. m \in Mailbox /\ m # None
    BY <1>3, <1>5, MailboxRecord
  <2>2. mboxes[s] # None
    BY <1>3, <1>4, MailboxRecord
  <2>3. [mboxes[s] EXCEPT !.inst = pair[side]] = m
    BY <1>4
  <2> HIDE DEF m
  <2>4. mboxes' = [mboxes EXCEPT ![s] = m]
    BY <1>1, <2>3
  <2>5. QED
    BY <1>3, <1>4, <2>1, <2>2, <2>4 DEF m, TypeOK
<1>7. TypeOK'
  <2>1. refs' \in [Devs -> Nat]
    BY <1>1, <1>3, <1>5 DEF TypeOK
  <2>2. pc' \in Steps
    BY DEF Steps
  <2>3. QED
    BY <1>1, <1>3, <1>6, <2>1, <2>2 DEF TypeOK
<1>8. RefsExact'
  <2>1. Claimed(d)' = Claimed(d) \cup {s} /\ s \notin Claimed(d)
    BY <1>4, <1>5, <1>6 DEF Claimed
  <2>2. \A e \in Devs : e # d => Claimed(e)' = Claimed(e)
    <3> SUFFICES ASSUME NEW e \in Devs, e # d, NEW t \in Slots
                 PROVE  t \in Claimed(e)' <=> t \in Claimed(e)
      BY DEF Claimed
    <3>1. CASE t = s
      BY <1>4, <1>5, <1>6, <3>1 DEF Claimed
    <3>2. CASE t # s
      BY <1>6, <3>2 DEF Claimed
    <3>3. QED
      BY <3>1, <3>2
  <2>3. \A q \in Irqs : Subscribed(q)' = Subscribed(q)
    <3> SUFFICES ASSUME NEW q \in Irqs, NEW t \in Slots
                 PROVE  t \in Subscribed(q)' <=> t \in Subscribed(q)
      BY DEF Subscribed, Claimed
    <3>1. CASE t = s
      BY <1>4, <1>6, <3>1 DEF Subscribed
    <3>2. CASE t # s
      BY <1>1, <1>6, <3>2 DEF Subscribed, Claimed
    <3>3. QED
      BY <3>1, <3>2
  <2>4. \A e \in Devs : refs'[e] = Cardinality(Claimed(e)')
    <3>1. refs'[d] = refs[d] + 1 /\ \A e \in Devs : e # d => refs'[e] = refs[e]
      BY <1>1, <1>3, <1>5 DEF TypeOK
    <3>2. \A e \in Devs : refs[e] = Cardinality(Claimed(e))
      BY <1>3 DEF MboxInv, RefsExact
    <3>3. Cardinality(Claimed(d) \cup {s}) = Cardinality(Claimed(d)) + 1
      BY <1>5, <2>1, CountSets, SlotSets
    <3>4. QED
      BY <1>5, <2>1, <2>2, <3>1, <3>2, <3>3
  <2>5. QED
    BY <1>1, <1>3, <2>3, <2>4 DEF MboxInv, RefsExact
<1>9. SettledInv'
  <2> SUFFICES ASSUME NEW k \in LinkIds, links[k] # None, k # cur PROVE Settled(k)'
    BY <1>1, <1>2 DEF SettledInv
  <2>1. links'[k] = links[k] /\ Settled(k) /\ armed \subseteq armed'
    BY <1>1, <1>3 DEF LinksInv, SettledInv
  <2>2. mboxes[s].link = None /\ k # None
    BY <1>4, Basics
  <2>3. QED
    BY <1>6, <2>1, <2>2, SettledKept
<1>10. TableInv' /\ WorkInv'
  BY <1>1, <1>2, <1>3 DEF LinksInv, TableInv, WorkInv
<1>11. ClaimInv'
  <2>1. side = "ack" => Bound(cur, "rcv", pair["rcv"])'
    <3> SUFFICES ASSUME side = "ack" PROVE Bound(cur, "rcv", pair["rcv"])'
      OBVIOUS
    <3>1. Bound(cur, "rcv", pair["rcv"])
      BY <1>4
    <3>2. links[cur].slot["rcv"] # s
      BY <1>3, <1>4, <3>1, Basics DEF Bound
    <3>3. QED
      BY <1>1, <1>6, <3>1, <3>2 DEF Bound
  <2>2. Slot' = s
    BY <1>0, <1>1 DEF Slot
  <2>3. QED
    BY <1>1, <1>4, <1>6, <2>1, <2>2 DEF ClaimInv
<1>12. UndoInv'
  BY DEF UndoInv, Undoing
<1>13. OwnedInv'
  BY <1>1, <1>3, <1>6 DEF LinksInv, OwnedInv
<1>14. QED
  BY <1>2, <1>7, <1>8, <1>9, <1>10, <1>11, <1>12, <1>13 DEF MboxInv, LinksInv

\* A claim that fails takes back the mailbox it got, and then the link, or the first
\* mailbox of the link.
LEMMA ClaimFailedStep ==
  ASSUME MboxInv, pc \in {"claim", "block"}, ClaimFailed, NEW s,
         UNCHANGED <<refs, irqRefs, table, op, cur, pair, isr, armed, raised, owed, enabled, pending>>,
         mboxes' \in [Slots -> Mailbox \cup {None}],
         pc = "block" => s = Slot /\ s \in Slots /\ mboxes'[s] = None,
         pc = "claim" => mboxes' = mboxes,
         \A t \in Slots : t # s => mboxes'[t] = mboxes[t]
  PROVE  MboxInv'
<1>1. Busy
  BY DEF Busy, Claiming
<1>2. /\ ~Stopped /\ LinksInv /\ TypeOK /\ cur \in LinkIds /\ cur \notin Servers
      /\ links[cur] # None /\ links[cur] \in Link
      /\ \A e \in Events : links[cur].slot[e] \in Slots \cup {None}
      /\ pair \in Pairs /\ side \in Events
  BY <1>1, InProgress
<1>3. /\ op = "connect"
      /\ side = "rcv" => links[cur].slot["ack"] = None
      /\ side = "ack" => Bound(cur, "rcv", pair["rcv"])
      /\ pc = "claim" => links[cur].slot[side] = None
      /\ pc = "block" => mboxes[s] = [inst |-> None, event |-> side, link |-> None] /\ mboxes[s] # None
      /\ ~links[cur].ready /\ \A i \in Indices : table[i] # cur
  <2>1. pc = "block" => mboxes[s] = [inst |-> None, event |-> side, link |-> None]
    BY <1>2 DEF LinksInv, ClaimInv, Claiming
  <2>2. QED
    BY <1>1, <1>2, <2>1, MailboxRecord DEF LinksInv, ClaimInv, WorkInv, Claiming
<1>4. /\ pc' \in {"serve", "unsubscribe"} /\ side' \in Events /\ pc' \in Steps /\ ~Stopped'
      /\ links' \in [LinkIds -> Link \cup {None}]
      /\ \A l \in LinkIds : l # cur => links'[l] = links[l]
  BY <1>2, Basics DEF ClaimFailed, Steps, Stopped, TypeOK
<1>5. TypeOK'
  BY <1>2, <1>4 DEF TypeOK
<1>6. RefsExact'
  <2>1. \A d \in Devs : Claimed(d)' = Claimed(d)
    <3> SUFFICES ASSUME NEW d \in Devs, NEW t \in Slots
                 PROVE  t \in Claimed(d)' <=> t \in Claimed(d)
      BY DEF Claimed
    <3>1. CASE t = s
      BY <1>3, <3>1 DEF Claimed
    <3>2. CASE t # s
      BY <3>2 DEF Claimed
    <3>3. QED
      BY <3>1, <3>2
  <2>2. \A q \in Irqs : Subscribed(q)' = Subscribed(q)
    <3> SUFFICES ASSUME NEW q \in Irqs, NEW t \in Slots
                 PROVE  t \in Subscribed(q)' <=> t \in Subscribed(q)
      BY DEF Subscribed, Claimed
    <3>1. CASE t = s
      BY <1>3, <1>4, <3>1 DEF Subscribed, Claimed
    <3>2. CASE t # s
      BY <1>4, <3>2 DEF Subscribed, Claimed
    <3>3. QED
      BY <3>1, <3>2
  <2>3. QED
    BY <1>2, <1>4, <2>1, <2>2, RefsKept DEF MboxInv
<1>7. \A k \in LinkIds : links[k] # None /\ k # cur => Settled(k)'
  <2> SUFFICES ASSUME NEW k \in LinkIds, links[k] # None, k # cur PROVE Settled(k)'
    OBVIOUS
  <2>1. links'[k] = links[k] /\ Settled(k) /\ armed \subseteq armed'
    BY <1>2, <1>4 DEF LinksInv, SettledInv
  <2>2. pc = "block" => mboxes[s].link # k
    BY <1>3, Basics
  <2>3. QED
    BY <2>1, <2>2, SettledKept
<1>8. CASE side = "rcv"
  <2>1. pc' = "serve" /\ links'[cur] = None
    BY <1>2, <1>8 DEF ClaimFailed, TypeOK
  <2>2. SettledInv'
    BY <1>4, <1>7, <2>1 DEF SettledInv
  <2>3. TableInv'
    <3>1. \A i \in Indices : table[i] # None => table[i] \in LinkIds /\ table[i] # cur
      BY <1>2, <1>3 DEF TypeOK
    <3>2. \A l \in LinkIds : links'[l] # None => l # cur /\ links[l] # None
      BY <1>4, <2>1
    <3>3. \A l \in Servers : links'[l] # None
      BY <1>2, <1>4, Basics DEF LinksInv, TableInv
    <3>4. QED
      BY <1>2, <1>4, <3>1, <3>2, <3>3 DEF LinksInv, TableInv
  <2>4. WorkInv' /\ ClaimInv' /\ UndoInv'
    BY <2>1 DEF WorkInv, ClaimInv, UndoInv, Busy, Claiming, Undoing
  <2>5. OwnedInv'
    <3> SUFFICES ASSUME NEW t \in Slots, mboxes'[t] # None
                 PROVE  \E l \in LinkIds, e \in Events : links'[l] # None /\ links'[l].slot[e] = t
      BY DEF OwnedInv
    <3>1. mboxes[t] # None /\ (pc = "block" => t # s)
      OBVIOUS
    <3>2. PICK l \in LinkIds, e \in Events : links[l] # None /\ links[l].slot[e] = t
      BY <1>2, <3>1 DEF LinksInv, OwnedInv
    <3>3. l # cur
      BY <1>3, <1>8, <3>1, <3>2, Basics DEF Slot, Events
    <3>4. links'[l] # None /\ links'[l].slot[e] = t
      BY <1>4, <3>2, <3>3
    <3>5. QED
      BY <3>4
  <2>6. QED
    BY <1>5, <1>6, <2>2, <2>3, <2>4, <2>5 DEF MboxInv, LinksInv
<1>9. CASE side = "ack"
  <2>1. pc' = "unsubscribe" /\ side' = "rcv" /\ links' = links /\ Busy'
    BY <1>9 DEF ClaimFailed, Busy, Undoing
  <2>2. SettledInv'
    BY <1>7, <2>1 DEF SettledInv
  <2>3. TableInv' /\ WorkInv'
    BY <1>1, <1>2, <2>1 DEF LinksInv, TableInv, WorkInv
  <2>4. ClaimInv' /\ OwnedInv'
    <3>1. ClaimInv'
      BY <2>1 DEF ClaimInv, Claiming
    <3>2. \A t \in Slots : mboxes'[t] # None => mboxes[t] # None
      OBVIOUS
    <3>3. OwnedInv'
      BY <1>2, <2>1, <3>2 DEF LinksInv, OwnedInv
    <3>4. QED
      BY <3>1, <3>3
  <2>5. UndoInv'
    <3>1. Bound(cur, "rcv", pair["rcv"])
      BY <1>3, <1>9
    <3>2. pc = "block" => links[cur].slot["rcv"] # s
      BY <1>2, <1>3, <3>1, Basics DEF Bound
    <3>3. Bound(cur, "rcv", pair["rcv"])'
      BY <2>1, <3>1, <3>2 DEF Bound
    <3>4. links[cur].slot["ack"] # None => mboxes'[links[cur].slot["ack"]] = None
      BY <1>3, <1>9 DEF Slot
    <3>5. QED
      BY <1>3, <2>1, <3>3, <3>4 DEF UndoInv
  <2>6. QED
    BY <1>5, <1>6, <2>2, <2>3, <2>4, <2>5 DEF MboxInv, LinksInv
<1>10. QED
  BY <1>2, <1>8, <1>9 DEF Events

\* No mailbox, or no block, is left.
LEMMA ClaimFails ==
  ASSUME MboxInv, \/ ClaimMbox /\ FreeSlots = {}
                  \/ GetBlock /\ pc' # "arm"
  PROVE  MboxInv'
<1>1. pc \in {"claim", "block"} /\ Busy
  BY DEF ClaimMbox, GetBlock, At, Busy, Claiming
<1>2. TypeOK /\ LinksInv
  BY <1>1, InProgress
<1>3. CASE ClaimMbox /\ FreeSlots = {}
  <2>1. /\ pc = "claim" /\ ClaimFailed /\ mboxes' = mboxes
        /\ UNCHANGED <<refs, irqRefs, table, op, cur, pair, isr, armed, raised, owed, enabled, pending>>
    BY <1>3 DEF ClaimMbox, At, hwVars
  <2>2. mboxes' \in [Slots -> Mailbox \cup {None}]
    BY <1>2, <2>1 DEF TypeOK
  <2>3. QED
    BY <2>1, <2>2, ClaimFailedStep
<1>4. CASE GetBlock /\ pc' # "arm"
  <2>1. /\ pc = "block" /\ ClaimFailed /\ mboxes' = [mboxes EXCEPT ![Slot] = None]
        /\ UNCHANGED <<refs, irqRefs, table, op, cur, pair, isr, armed, raised, owed, enabled, pending>>
    BY <1>4 DEF GetBlock, At, hwVars
  <2>2. Slot \in Slots
    BY <1>2, <2>1 DEF LinksInv, ClaimInv, Claiming
  <2>3. /\ mboxes' \in [Slots -> Mailbox \cup {None}] /\ mboxes'[Slot] = None
        /\ \A t \in Slots : t # Slot => mboxes'[t] = mboxes[t]
    BY <1>2, <2>1, <2>2 DEF TypeOK
  <2>4. QED
    BY <2>1, <2>2, <2>3, ClaimFailedStep
<1>5. QED
  BY <1>3, <1>4

\* The callback, the mapping and the subscription: the mailbox is bound.
LEMMA ArmStep ==
  ASSUME MboxInv, Arm
  PROVE  MboxInv'
<1>0. PICK s, q, i : s = Slot /\ q = Irq /\ i = pair[side]
  OBVIOUS
<1>1. /\ pc = "arm" /\ UNCHANGED <<refs, links, table, op, cur, pair, isr, raised, owed>>
      /\ pc' = (IF side = "rcv" THEN "claim" ELSE "ready") /\ side' = "ack"
      /\ mboxes' = [mboxes EXCEPT ![s].link = cur]
      /\ armed' = armed \cup {<<i, side>>}
      /\ irqRefs' = [irqRefs EXCEPT ![q] = @ + 1]
      /\ enabled' = (IF irqRefs[q] = 0 THEN enabled \cup {q} ELSE enabled)
      /\ pending' = pending \cup {p \in Irqs : ~Line(p) /\ Line(p)'}
  BY <1>0 DEF Arm, Goto, At, Subscribe, Latch
<1>2. Busy /\ ~Stopped' /\ Busy'
  BY <1>1 DEF Busy, Claiming, Stopped
<1>3. /\ ~Stopped /\ LinksInv /\ TypeOK /\ cur \in LinkIds /\ cur \notin Servers
      /\ links[cur] # None /\ links[cur] \in Link
      /\ pair \in Pairs /\ side \in Events
  BY <1>2, InProgress
<1>4. /\ op = "connect" /\ s \in Slots /\ links[cur].slot[side] = s
      /\ mboxes[s] = [inst |-> i, event |-> side, link |-> None]
      /\ side = "rcv" => links[cur].slot["ack"] = None
      /\ side = "ack" => Bound(cur, "rcv", pair["rcv"])
  BY <1>0, <1>1, <1>3 DEF LinksInv, ClaimInv, Claiming, Slot
<1>5. i \in Instances /\ i # None /\ q \in Irqs /\ q = <<DevOf[i], side>> /\ cur # None /\ DevOf[i] \in Devs
  BY <1>0, <1>3, Basics DEF Irq
<1>6. /\ mboxes' \in [Slots -> Mailbox \cup {None}]
      /\ mboxes'[s] = [inst |-> i, event |-> side, link |-> cur] /\ mboxes'[s] # None
      /\ \A t \in Slots : t # s => mboxes'[t] = mboxes[t]
      /\ mboxes[s] # None
  <2> DEFINE m == [inst |-> i, event |-> side, link |-> cur]
  <2>1. m \in Mailbox /\ m # None
    BY <1>3, <1>5, MailboxRecord
  <2>2. mboxes[s] # None
    BY <1>3, <1>4, <1>5, MailboxRecord
  <2>3. [mboxes[s] EXCEPT !.link = cur] = m
    BY <1>4
  <2> HIDE DEF m
  <2>4. mboxes' = [mboxes EXCEPT ![s] = m]
    BY <1>1, <2>3
  <2>5. QED
    BY <1>3, <1>4, <2>1, <2>2, <2>4 DEF m, TypeOK
<1>7. /\ irqRefs' \in [Irqs -> Nat] /\ irqRefs'[q] = irqRefs[q] + 1 /\ irqRefs[q] \in Nat
      /\ \A p \in Irqs : p # q => irqRefs'[p] = irqRefs[p]
  BY <1>1, <1>3, <1>5 DEF TypeOK
<1>8. TypeOK'
  <2>1. armed' \subseteq Instances \X Events /\ enabled' \subseteq Irqs /\ pending' \subseteq Irqs
    BY <1>1, <1>3, <1>5 DEF TypeOK
  <2>2. pc' \in Steps /\ side' \in Events
    BY <1>1, Basics DEF Steps
  <2>3. QED
    BY <1>1, <1>3, <1>6, <1>7, <2>1, <2>2 DEF TypeOK
<1>9. RefsExact'
  <2>1. \A d \in Devs : Claimed(d)' = Claimed(d)
    <3> SUFFICES ASSUME NEW d \in Devs, NEW t \in Slots
                 PROVE  t \in Claimed(d)' <=> t \in Claimed(d)
      BY DEF Claimed
    <3>1. CASE t = s
      BY <1>4, <1>6, <3>1 DEF Claimed
    <3>2. CASE t # s
      BY <1>6, <3>2 DEF Claimed
    <3>3. QED
      BY <3>1, <3>2
  <2>2. pc # "release" /\ pc' # "release"
    BY <1>1
  <2>3. s \in Subscribed(q)' /\ s \notin Subscribed(q)
    BY <1>4, <1>5, <1>6, <2>2 DEF Subscribed, Claimed
  <2>4. ASSUME NEW p \in Irqs, NEW t \in Slots, p # q \/ t # s
        PROVE  t \in Subscribed(p)' <=> t \in Subscribed(p)
    <3>1. CASE t # s
      BY <1>6, <2>2, <3>1 DEF Subscribed, Claimed
    <3>2. CASE t = s /\ p # q
      <4>1. p[1] # DevOf[i] \/ p[2] # side
        BY <1>5, <3>2 DEF Irqs
      <4>2. t \notin Subscribed(p)'
        BY <1>6, <3>2, <4>1 DEF Subscribed, Claimed
      <4>3. t \notin Subscribed(p)
        BY <1>4, <3>2 DEF Subscribed
      <4>4. QED
        BY <4>2, <4>3
    <3>3. QED
      BY <2>4, <3>1, <3>2
  <2>5. \A p \in Irqs : p # q => Subscribed(p)' = Subscribed(p)
    BY <2>4 DEF Subscribed, Claimed
  <2>6. Subscribed(q)' = Subscribed(q) \cup {s}
    <3>1. Subscribed(q) \subseteq Slots /\ Subscribed(q)' \subseteq Slots
      BY DEF Subscribed, Claimed
    <3>2. QED
      BY <1>4, <1>5, <2>3, <2>4, <3>1
  <2>7. Cardinality(Subscribed(q)') = Cardinality(Subscribed(q)) + 1
    BY <1>5, <2>3, <2>6, CountSets, SlotSets
  <2>8. \A p \in Irqs : irqRefs[p] = Cardinality(Subscribed(p)) /\ (p \in enabled <=> irqRefs[p] > 0)
    BY <1>3 DEF MboxInv, RefsExact
  <2>9. \A p \in Irqs : irqRefs'[p] = Cardinality(Subscribed(p)')
    BY <1>7, <2>5, <2>7, <2>8
  <2>10. \A p \in Irqs : p \in enabled' <=> irqRefs'[p] > 0
    BY <1>1, <1>7, <2>8
  <2>11. QED
    BY <1>1, <1>3, <2>1, <2>9, <2>10 DEF MboxInv, RefsExact
<1>10. SettledInv'
  <2> SUFFICES ASSUME NEW k \in LinkIds, links[k] # None, k # cur PROVE Settled(k)'
    BY <1>1, <1>2 DEF SettledInv
  <2>1. links'[k] = links[k] /\ Settled(k) /\ armed \subseteq armed'
    BY <1>1, <1>3 DEF LinksInv, SettledInv
  <2>2. mboxes[s].link = None /\ k # None
    BY <1>4, Basics
  <2>3. QED
    BY <1>6, <2>1, <2>2, SettledKept
<1>11. TableInv' /\ WorkInv'
  BY <1>1, <1>2, <1>3 DEF LinksInv, TableInv, WorkInv
<1>12. ASSUME NEW e, e = side PROVE Bound(cur, e, i)'
  BY <1>1, <1>3, <1>4, <1>5, <1>6, <1>12 DEF Bound
<1>13. ClaimInv'
  <2>1. CASE side = "rcv"
    <3>1. pc' = "claim" /\ side' = "ack" /\ Bound(cur, "rcv", pair["rcv"])' /\ links'[cur].slot["ack"] = None
      BY <1>0, <1>1, <1>4, <1>12, <2>1
    <3>2. QED
      BY <1>1, <1>4, <3>1 DEF ClaimInv
  <2>2. CASE side = "ack"
    <3>1. Bound(cur, "rcv", pair["rcv"])
      BY <1>4, <2>2
    <3>2. links[cur].slot["rcv"] # s
      BY <1>4, <1>5, <3>1 DEF Bound
    <3>3. Bound(cur, "rcv", pair["rcv"])'
      BY <1>1, <1>6, <3>1, <3>2 DEF Bound
    <3>4. pc' = "ready" /\ side' = "ack" /\ Bound(cur, "ack", pair["ack"])'
      BY <1>0, <1>1, <1>12, <2>2
    <3>5. QED
      BY <1>1, <1>4, <3>3, <3>4 DEF ClaimInv
  <2>3. QED
    BY <1>3, <2>1, <2>2 DEF Events
<1>14. UndoInv'
  BY <1>1 DEF UndoInv, Undoing
<1>15. OwnedInv'
  BY <1>1, <1>3, <1>6 DEF LinksInv, OwnedInv
<1>16. QED
  BY <1>2, <1>8, <1>9, <1>10, <1>11, <1>13, <1>14, <1>15 DEF MboxInv, LinksInv

\* The table has an index for every link that clients can have.
LEMMA TableHasRoom ==
  ASSUME TypeOK, TableInv, NEW l \in LinkIds, l \notin Servers, \A i \in Indices : table[i] # l
  PROVE  FreeIndices # {}
<1> SUFFICES ASSUME FreeIndices = {} PROVE FALSE
  OBVIOUS
<1> DEFINE T == LinkIds \ (Servers \cup {l})
<1>1. table \in [Indices -> T]
  <2>1. \A i \in Indices : table[i] # None
    BY DEF FreeIndices
  <2>2. \A i \in Indices : table[i] \in LinkIds /\ table[i] \notin Servers /\ table[i] # l
    BY <2>1 DEF TypeOK, TableInv
  <2>3. QED
    BY <2>2 DEF TypeOK
<1>2. \A i, j \in Indices : table[i] = table[j] => i = j
  BY DEF FreeIndices, TableInv
<1>3. IsFiniteSet(Indices) /\ Cardinality(Indices) = MaxIndex
  <2>1. 0 \in Int /\ MaxIndex - 1 \in Int /\ MaxIndex \in Nat
    BY MailboxAssumption
  <2>2. /\ IsFiniteSet(0 .. MaxIndex - 1)
        /\ Cardinality(0 .. MaxIndex - 1) = IF 0 > MaxIndex - 1 THEN 0 ELSE (MaxIndex - 1) - 0 + 1
    BY <2>1, FS_Interval
  <2>3. QED
    BY <2>1, <2>2 DEF Indices
<1>4. IsFiniteSet(T) /\ Cardinality(T) = MaxLinks - Len(ServerLinks) - 1
  <2>1. IsFiniteSet(LinkIds) /\ Cardinality(LinkIds) = MaxLinks
    BY FS_Interval, MailboxAssumption DEF LinkIds
  <2>2. Len(ServerLinks) \in Nat /\ Servers = 1 .. Len(ServerLinks)
    BY MailboxAssumption DEF Servers
  <2>3. IsFiniteSet(Servers) /\ Cardinality(Servers) = Len(ServerLinks)
    <3>1. /\ IsFiniteSet(1 .. Len(ServerLinks))
          /\ Cardinality(1 .. Len(ServerLinks)) =
               IF 1 > Len(ServerLinks) THEN 0 ELSE Len(ServerLinks) - 1 + 1
      BY <2>2, FS_Interval
    <3>2. QED
      BY <2>2, <3>1
  <2>4. IsFiniteSet(Servers \cup {l}) /\ Cardinality(Servers \cup {l}) = Len(ServerLinks) + 1
    BY <2>3, FS_AddElement
  <2>5. LinkIds \cap (Servers \cup {l}) = Servers \cup {l}
    BY Basics
  <2>6. Cardinality(T) = Cardinality(LinkIds) - Cardinality(LinkIds \cap (Servers \cup {l})) /\ IsFiniteSet(T)
    BY <2>1, FS_Difference
  <2>7. Cardinality(T) = Cardinality(LinkIds) - Cardinality(Servers \cup {l})
    BY <2>5, <2>6
  <2>8. MaxLinks \in Nat
    BY MailboxAssumption
  <2>9. MaxLinks - (Len(ServerLinks) + 1) = MaxLinks - Len(ServerLinks) - 1
    BY <2>2, <2>8
  <2>10. QED
    BY <2>1, <2>4, <2>6, <2>7, <2>9
<1>5. Cardinality(T) < Cardinality(Indices)
  BY <1>3, <1>4, MailboxAssumption
<1>6. \E i, j \in Indices : i # j /\ table[i] = table[j]
  BY <1>1, <1>3, <1>4, <1>5, FS_PigeonHole
<1>7. QED
  BY <1>2, <1>6

\* The link is complete and gets its index.
LEMMA ReadyStep ==
  ASSUME MboxInv, Ready
  PROVE  MboxInv'
<1>1. /\ pc = "ready" /\ pc' = "serve"
      /\ links' = [links EXCEPT ![cur].ready = TRUE]
      /\ UNCHANGED <<mboxes, refs, irqRefs, op, cur, pair, side, isr, armed, raised, owed, enabled, pending>>
  BY DEF Ready, Goto, At, hwVars
<1>2. Busy /\ ~Stopped' /\ ~Busy'
  BY <1>1 DEF Busy, Claiming, Undoing, Stopped
<1>3. /\ ~Stopped /\ LinksInv /\ TypeOK /\ cur \in LinkIds /\ cur \notin Servers
      /\ links[cur] # None /\ links[cur] \in Link
      /\ pair \in Pairs /\ side \in Events
  BY <1>2, InProgress
<1>4. /\ op = "connect" /\ side = "ack" /\ \A i \in Indices : table[i] # cur
      /\ Bound(cur, "rcv", pair["rcv"]) /\ Bound(cur, "ack", pair["ack"])
  BY <1>1, <1>2, <1>3 DEF LinksInv, ClaimInv, WorkInv, Claiming
<1>5. /\ links' \in [LinkIds -> Link \cup {None}] /\ links'[cur] # None /\ links'[cur].ready
      /\ links'[cur].slot = links[cur].slot
      /\ \A l \in LinkIds : l # cur => links'[l] = links[l]
  <2> DEFINE L == [links[cur] EXCEPT !.ready = TRUE]
  <2>1. L \in Link /\ L.ready /\ L.slot = links[cur].slot
    BY <1>3 DEF Link
  <2>2. links' = [links EXCEPT ![cur] = L]
    BY <1>1
  <2>3. L # None
    BY <2>1, MailboxAssumption
  <2> HIDE DEF L
  <2>4. QED
    BY <1>3, <2>1, <2>2, <2>3 DEF TypeOK
<1>6. FreeIndices # {}
  BY <1>3, <1>4, TableHasRoom DEF LinksInv
<1>7. PICK i \in Indices : table[i] = None /\ table' = [table EXCEPT ![i] = cur]
  BY <1>6 DEF Ready, FreeIndices, First
<1>8. table' \in [Indices -> LinkIds \cup {None}] /\ table'[i] = cur
      /\ \A j \in Indices : j # i => table'[j] = table[j]
  BY <1>3, <1>7 DEF TypeOK
<1>9. TypeOK'
  BY <1>1, <1>3, <1>5, <1>8 DEF TypeOK, Steps
<1>10. RefsExact'
  <2>1. \A d \in Devs : Claimed(d)' = Claimed(d)
    BY <1>1 DEF Claimed
  <2>2. \A q \in Irqs : Subscribed(q)' = Subscribed(q)
    BY <1>1 DEF Subscribed, Claimed
  <2>3. QED
    BY <1>1, <1>3, <2>1, <2>2, RefsKept DEF MboxInv
<1>11. SettledInv'
  <2> SUFFICES ASSUME NEW k \in LinkIds, links'[k] # None PROVE Settled(k)'
    BY DEF SettledInv
  <2>1. CASE k = cur
    <3>1. Bound(cur, "rcv", pair["rcv"])' /\ Bound(cur, "ack", pair["ack"])'
      BY <1>1, <1>4, <1>5 DEF Bound
    <3>2. \A e \in Events : Bound(cur, e, pair[e])'
      BY <3>1 DEF Events
    <3>3. cur' = cur /\ pair' = pair
      BY <1>1
    <3>4. QED
      BY <1>3, <1>5, <2>1, <3>2, <3>3 DEF Settled
  <2>2. CASE k # cur
    <3>1. links'[k] = links[k] /\ Settled(k) /\ armed \subseteq armed'
      BY <1>1, <1>3, <1>5, <2>2 DEF LinksInv, SettledInv
    <3>2. QED
      BY <1>1, <3>1, SettledKept
  <2>3. QED
    BY <2>1, <2>2
<1>12. TableInv'
  <2>1. \A l \in LinkIds : links'[l] # None <=> links[l] # None
    BY <1>3, <1>5
  <2>2. cur # None
    BY <1>3, Basics
  <2>3. \A j \in Indices : table'[j] # None => table'[j] \notin Servers /\ links'[table'[j]] # None
    BY <1>3, <1>5, <1>8, <2>1 DEF LinksInv, TableInv, TypeOK
  <2>4. \A j, k \in Indices : table'[j] = table'[k] /\ table'[j] # None => j = k
    BY <1>3, <1>4, <1>8 DEF LinksInv, TableInv
  <2>5. \A l \in LinkIds : links'[l] # None => l \in Servers \/ \E j \in Indices : table'[j] = l
    <3> SUFFICES ASSUME NEW l \in LinkIds, links[l] # None, l \notin Servers
                 PROVE  \E j \in Indices : table'[j] = l
      BY <2>1
    <3>1. CASE l = cur
      BY <1>8, <3>1
    <3>2. CASE l # cur
      <4>1. PICK j \in Indices : table[j] = l
        BY <1>3, <3>2 DEF LinksInv, TableInv
      <4>2. j # i
        BY <1>7, <4>1, Basics
      <4>3. QED
        BY <1>8, <4>1, <4>2
    <3>3. QED
      BY <3>1, <3>2
  <2>6. \A l \in Servers : links'[l] # None
    BY <1>3, <2>1, Basics DEF LinksInv, TableInv
  <2>7. QED
    BY <2>3, <2>4, <2>5, <2>6 DEF TableInv
<1>13. WorkInv' /\ ClaimInv' /\ UndoInv'
  BY <1>1 DEF WorkInv, ClaimInv, UndoInv, Busy, Claiming, Undoing
<1>14. OwnedInv'
  BY <1>1, <1>3, <1>5 DEF LinksInv, OwnedInv
<1>15. QED
  BY <1>2, <1>9, <1>10, <1>11, <1>12, <1>13, <1>14 DEF MboxInv, LinksInv

-----------------------------------------------------------------------------
(* Disconnecting                                                            *)

\* A link in the table is complete; an index without a link stops TRCH.
LEMMA DisconnectStep ==
  ASSUME MboxInv, NEW i \in Indices, Disconnect(i)
  PROVE  MboxInv'
<1>1. /\ pc = "serve" /\ op' = "disconnect" /\ cur' = table[i] /\ side' = "rcv"
      /\ pc' = (IF table[i] # None THEN "unsubscribe" ELSE "lost")
      /\ UNCHANGED <<mboxes, refs, irqRefs, links, table, isr, armed, raised, owed, enabled, pending>>
  BY DEF Disconnect, Goto, At, objVars, hwVars
<1>2. ~Stopped /\ ~Busy /\ LinksInv /\ TypeOK
  BY <1>1 DEF MboxInv, Stopped, Busy, Claiming, Undoing
<1>3. CASE table[i] = None
  <2>1. pc' = "lost" /\ pair' = None /\ cur' = None
    BY <1>1, <1>3 DEF Disconnect
  <2>2. TypeOK'
    BY <1>1, <1>2, <2>1, Basics DEF TypeOK, Steps
  <2>3. QED
    BY <2>1, <2>2 DEF MboxInv, RefsExact, Stopped
<1>4. CASE table[i] # None
  <2>0. PICK l : l = table[i]
    OBVIOUS
  <2>1. /\ l \in LinkIds /\ l \notin Servers /\ links[l] # None /\ cur' = l
        /\ pc' = "unsubscribe" /\ ~Stopped' /\ Busy'
    BY <1>1, <1>2, <1>4, <2>0 DEF LinksInv, TableInv, TypeOK, Stopped, Busy, Undoing
  <2>2. Settled(l)
    BY <1>2, <2>1 DEF LinksInv, SettledInv
  <2>3. PICK p \in Pairs : \A e \in Events : Bound(l, e, p[e])
    BY <2>2 DEF Settled
  <2>4. pair' = p
    <3>1. pair' = [e \in Events |-> mboxes[links[l].slot[e]].inst]
      BY <1>4, <2>0 DEF Disconnect
    <3>2. \A e \in Events : mboxes[links[l].slot[e]].inst = p[e]
      <4> SUFFICES ASSUME NEW e \in Events PROVE mboxes[links[l].slot[e]].inst = p[e]
        OBVIOUS
      <4>1. mboxes[links[l].slot[e]] = [inst |-> p[e], event |-> e, link |-> l]
        BY <2>3 DEF Bound
      <4>2. QED
        BY <4>1
    <3>3. p \in [Events -> Instances]
      BY DEF Pairs
    <3>4. QED
      BY <3>1, <3>2, <3>3
  <2>5. TypeOK'
    BY <1>1, <1>2, <2>1, <2>4, Basics DEF TypeOK, Steps
  <2>6. RefsExact'
    <3>1. \A d \in Devs : Claimed(d)' = Claimed(d)
      BY <1>1 DEF Claimed
    <3>2. \A q \in Irqs : Subscribed(q)' = Subscribed(q)
      BY <1>1, <2>1 DEF Subscribed, Claimed
    <3>3. QED
      BY <1>1, <1>2, <3>1, <3>2, RefsKept DEF MboxInv
  <2>7. \A e \in Events : Bound(l, e, p[e])'
    BY <1>1, <2>3 DEF Bound
  <2>8. SettledInv'
    <3>1. \A k \in LinkIds : links[k] # None => Settled(k)'
      BY <1>1, <1>2, SettledKept DEF LinksInv, SettledInv
    <3>2. QED
      BY <1>1, <3>1 DEF SettledInv
  <2>9. TableInv'
    BY <1>1, <1>2 DEF LinksInv, TableInv
  <2>10. WorkInv'
    BY <1>1, <2>1, <2>2, <2>4 DEF WorkInv, Settled
  <2>11. ClaimInv' /\ UndoInv'
    BY <1>1, <2>1, <2>4, <2>7, Basics DEF ClaimInv, UndoInv, Claiming
  <2>12. OwnedInv'
    BY <1>1, <1>2 DEF LinksInv, OwnedInv
  <2>13. QED
    BY <2>5, <2>6, <2>8, <2>9, <2>10, <2>11, <2>12 DEF MboxInv, LinksInv
<1>5. QED
  BY <1>3, <1>4

\* The mailbox to be released is one less for its interrupt.
LEMMA UnsubscribeStep ==
  ASSUME MboxInv, Unsubscribe
  PROVE  MboxInv'
<1>0. PICK s, q : s = Slot /\ q = Irq
  OBVIOUS
<1>1. /\ pc = "unsubscribe" /\ pc' = "release"
      /\ irqRefs' = [irqRefs EXCEPT ![q] = @ - 1]
      /\ enabled' = (IF irqRefs[q] = 1 THEN enabled \ {q} ELSE enabled)
      /\ UNCHANGED <<mboxes, refs, links, table, op, cur, pair, side, isr, armed, raised, owed, pending>>
  BY <1>0 DEF Unsubscribe, Goto, At
<1>2. Busy /\ ~Stopped' /\ Busy'
  BY <1>1 DEF Busy, Undoing, Stopped
<1>3. /\ ~Stopped /\ LinksInv /\ TypeOK /\ cur \in LinkIds /\ links[cur] # None
      /\ pair \in Pairs /\ side \in Events
  BY <1>2, InProgress
<1>4. /\ s \in Slots /\ mboxes[s] = [inst |-> pair[side], event |-> side, link |-> cur]
      /\ pair[side] \in Instances /\ pair[side] # None
      /\ mboxes[s] # None /\ cur # None /\ q \in Irqs /\ q = <<DevOf[pair[side]], side>>
      /\ s = links[cur].slot[side]
  <2>1. Bound(cur, side, pair[side])
    BY <1>1, <1>3 DEF LinksInv, UndoInv, Undoing
  <2>2. /\ pair[side] \in Instances /\ pair[side] # None /\ <<DevOf[pair[side]], side>> \in Irqs
        /\ cur # None
    BY <1>3, Basics
  <2>3. [inst |-> pair[side], event |-> side, link |-> cur] # None
    BY <1>3, <2>2, MailboxRecord
  <2>4. QED
    BY <1>0, <2>1, <2>2, <2>3 DEF Bound, Slot, Irq
<1>5. s \in Subscribed(q) /\ s \notin Subscribed(q)'
  <2>1. s \in Subscribed(q)
    BY <1>1, <1>4 DEF Subscribed, Claimed
  <2>2. Slot' = s
    BY <1>0, <1>1 DEF Slot
  <2>3. QED
    BY <1>1, <2>1, <2>2 DEF Subscribed
<1>6. ASSUME NEW p \in Irqs, NEW t \in Slots, p # q \/ t # s
      PROVE  t \in Subscribed(p)' <=> t \in Subscribed(p)
  <2>1. Slot' = s
    BY <1>0, <1>1 DEF Slot
  <2>2. CASE t # s
    BY <1>1, <2>1, <2>2 DEF Subscribed, Claimed
  <2>3. CASE t = s /\ p # q
    <3>1. p[1] # DevOf[pair[side]] \/ p[2] # side
      BY <1>4, <2>3 DEF Irqs
    <3>2. t \notin Subscribed(p)
      BY <1>4, <2>3, <3>1 DEF Subscribed, Claimed
    <3>3. t \notin Subscribed(p)'
      BY <1>1, <2>1, <2>3 DEF Subscribed
    <3>4. QED
      BY <3>2, <3>3
  <2>4. QED
    BY <1>6, <2>2, <2>3
<1>7. \A p \in Irqs : p # q => Subscribed(p)' = Subscribed(p)
  BY <1>6 DEF Subscribed, Claimed
<1>8. Subscribed(q)' = Subscribed(q) \ {s}
  <2>1. Subscribed(q) \subseteq Slots /\ Subscribed(q)' \subseteq Slots
    BY DEF Subscribed, Claimed
  <2>2. QED
    BY <1>4, <1>5, <1>6, <2>1
<1>9. /\ Cardinality(Subscribed(q)') = Cardinality(Subscribed(q)) - 1
      /\ Cardinality(Subscribed(q)) \in Nat /\ Cardinality(Subscribed(q)) > 0
  BY <1>4, <1>5, <1>8, CountSets, SlotSets
<1>10. \A p \in Irqs : irqRefs[p] = Cardinality(Subscribed(p)) /\ (p \in enabled <=> irqRefs[p] > 0)
  BY <1>3 DEF MboxInv, RefsExact
<1>11. /\ irqRefs' \in [Irqs -> Nat] /\ irqRefs'[q] = irqRefs[q] - 1
       /\ \A p \in Irqs : p # q => irqRefs'[p] = irqRefs[p]
  <2>1. irqRefs[q] - 1 \in Nat
    BY <1>4, <1>9, <1>10
  <2>2. QED
    BY <1>1, <1>3, <1>4, <2>1 DEF TypeOK
<1>12. TypeOK'
  <2>1. enabled' \subseteq Irqs
    BY <1>1, <1>3 DEF TypeOK
  <2>2. QED
    BY <1>1, <1>3, <1>11, <2>1 DEF TypeOK, Steps
<1>13. RefsExact'
  <2>1. \A d \in Devs : Claimed(d)' = Claimed(d)
    BY <1>1 DEF Claimed
  <2>2. \A p \in Irqs : irqRefs'[p] = Cardinality(Subscribed(p)')
    BY <1>7, <1>9, <1>10, <1>11
  <2>3. \A p \in Irqs : p \in enabled' <=> irqRefs'[p] > 0
    <3>1. irqRefs[q] \in Nat
      BY <1>4, <1>9, <1>10
    <3>2. QED
      BY <1>1, <1>10, <1>11, <3>1
  <2>4. QED
    BY <1>1, <1>3, <2>1, <2>2, <2>3 DEF MboxInv, RefsExact
<1>14. SettledInv'
  <2> SUFFICES ASSUME NEW k \in LinkIds, links[k] # None, k # cur PROVE Settled(k)'
    BY <1>1, <1>2 DEF SettledInv
  <2>1. links'[k] = links[k] /\ Settled(k) /\ armed \subseteq armed'
    BY <1>1, <1>3 DEF LinksInv, SettledInv
  <2>2. QED
    BY <1>1, <2>1, SettledKept
<1>15. TableInv' /\ WorkInv' /\ OwnedInv'
  BY <1>1, <1>2, <1>3 DEF LinksInv, TableInv, WorkInv, OwnedInv
<1>16. ClaimInv' /\ UndoInv'
  <2>1. \A l, e, i : Bound(l, e, i)' <=> Bound(l, e, i)
    BY <1>1 DEF Bound
  <2>2. QED
    BY <1>1, <1>3, <2>1 DEF LinksInv, ClaimInv, UndoInv, Claiming, Undoing
<1>17. QED
  BY <1>12, <1>13, <1>14, <1>15, <1>16 DEF MboxInv, LinksInv

\* What is released: a bound mailbox that no longer subscribes.
LEMMA ReleasedMailbox ==
  ASSUME MboxInv, pc = "release"
  PROVE  /\ Busy /\ ~Stopped /\ LinksInv /\ TypeOK /\ cur \in LinkIds /\ cur # None
         /\ cur \notin Servers /\ links[cur] # None
         /\ pair \in Pairs /\ side \in Events /\ op \in {"connect", "disconnect"}
         /\ Slot \in Slots /\ Slot = links[cur].slot[side]
         /\ mboxes[Slot] = [inst |-> pair[side], event |-> side, link |-> cur] /\ mboxes[Slot] # None
         /\ pair[side] \in Instances /\ pair[side] # None /\ DevOf[pair[side]] \in Devs
         /\ Slot \in Claimed(DevOf[pair[side]])
         /\ \A q \in Irqs : Slot \notin Subscribed(q)
<1>1. Busy
  BY DEF Busy, Undoing
<1>2. /\ ~Stopped /\ LinksInv /\ TypeOK /\ cur \in LinkIds /\ cur \notin Servers
      /\ links[cur] # None /\ pair \in Pairs /\ side \in Events /\ op \in {"connect", "disconnect"}
  BY <1>1, InProgress
<1>3. Bound(cur, side, pair[side])
  BY <1>2 DEF LinksInv, UndoInv, Undoing
<1>4. /\ pair[side] \in Instances /\ pair[side] # None /\ DevOf[pair[side]] \in Devs /\ cur # None
  BY <1>2, Basics
<1>5. /\ Slot \in Slots /\ Slot = links[cur].slot[side]
      /\ mboxes[Slot] = [inst |-> pair[side], event |-> side, link |-> cur]
  BY <1>3 DEF Bound, Slot
<1>6. mboxes[Slot] # None
  BY <1>2, <1>4, <1>5, MailboxRecord
<1>7. Slot \in Claimed(DevOf[pair[side]])
  BY <1>4, <1>5, <1>6 DEF Claimed
<1>8. \A q \in Irqs : Slot \notin Subscribed(q)
  BY DEF Subscribed
<1>9. QED
  BY <1>1, <1>2, <1>4, <1>5, <1>6, <1>7, <1>8

\* The mailbox goes back to the pool; with the last one, the link and its index.
LEMMA ReleaseStep ==
  ASSUME MboxInv, Release
  PROVE  MboxInv'
<1>0. PICK s, d : s = Slot /\ d = DevOf[pair[side]]
  OBVIOUS
<1>1. /\ pc = "release"
      /\ refs' = [refs EXCEPT ![d] = @ - 1]
      /\ mboxes' = [mboxes EXCEPT ![s] = None]
      /\ UNCHANGED <<irqRefs, op, cur, pair, isr, armed, raised, owed, enabled, pending>>
      /\ pc' \in {"panic", "unsubscribe", "serve"}
  BY <1>0 DEF Release, At, hwVars
<1>2. /\ Busy /\ ~Stopped /\ LinksInv /\ TypeOK /\ cur \in LinkIds /\ cur # None
      /\ cur \notin Servers /\ links[cur] # None
      /\ pair \in Pairs /\ side \in Events /\ op \in {"connect", "disconnect"}
      /\ s \in Slots /\ s = links[cur].slot[side]
      /\ mboxes[s] = [inst |-> pair[side], event |-> side, link |-> cur] /\ mboxes[s] # None
      /\ pair[side] \in Instances /\ pair[side] # None /\ d \in Devs /\ d = DevOf[pair[side]]
      /\ s \in Claimed(d)
      /\ \A q \in Irqs : s \notin Subscribed(q)
  BY <1>0, <1>1, ReleasedMailbox
<1>3. /\ mboxes' \in [Slots -> Mailbox \cup {None}] /\ mboxes'[s] = None
      /\ \A t \in Slots : t # s => mboxes'[t] = mboxes[t]
  BY <1>1, <1>2 DEF TypeOK
<1>4. /\ Claimed(d)' = Claimed(d) \ {s}
      /\ \A e \in Devs : e # d => Claimed(e)' = Claimed(e)
  <2>1. ASSUME NEW e \in Devs, NEW t \in Slots
        PROVE  t \in Claimed(e)' <=> t \in Claimed(e) /\ t # s
    BY <1>3 DEF Claimed
  <2>2. \A e \in Devs : e # d => s \notin Claimed(e)
    BY <1>2 DEF Claimed
  <2>3. \A e \in Devs : Claimed(e) \subseteq Slots /\ Claimed(e)' \subseteq Slots
    BY DEF Claimed
  <2>4. QED
    BY <1>2, <2>1, <2>2, <2>3
<1>5. \A q \in Irqs : Subscribed(q)' = Subscribed(q)
  <2> SUFFICES ASSUME NEW q \in Irqs, NEW t \in Slots
               PROVE  t \in Subscribed(q)' <=> t \in Subscribed(q)
    BY DEF Subscribed, Claimed
  <2>1. CASE t = s
    BY <1>2, <1>3, <2>1 DEF Subscribed, Claimed
  <2>2. CASE t # s
    BY <1>0, <1>1, <1>3, <2>2 DEF Subscribed, Claimed
  <2>3. QED
    BY <2>1, <2>2
<1>6. /\ refs[d] = Cardinality(Claimed(d)) /\ refs[d] > 0 /\ refs[d] \in Nat
      /\ Cardinality(Claimed(d)') = refs[d] - 1
      /\ \A e \in Devs : refs[e] = Cardinality(Claimed(e))
      /\ \A q \in Irqs : irqRefs[q] = Cardinality(Subscribed(q)) /\ (q \in enabled <=> irqRefs[q] > 0)
  <2>1. /\ \A e \in Devs : refs[e] = Cardinality(Claimed(e))
        /\ \A q \in Irqs : irqRefs[q] = Cardinality(Subscribed(q)) /\ (q \in enabled <=> irqRefs[q] > 0)
    BY <1>2 DEF MboxInv, RefsExact
  <2>2. /\ Cardinality(Claimed(d) \ {s}) = Cardinality(Claimed(d)) - 1
        /\ Cardinality(Claimed(d)) > 0 /\ Cardinality(Claimed(d)) \in Nat
    BY <1>2, CountSets, SlotSets
  <2>3. QED
    BY <1>2, <1>4, <2>1, <2>2
<1>7. /\ refs' \in [Devs -> Nat] /\ refs'[d] = refs[d] - 1
      /\ \A e \in Devs : e # d => refs'[e] = refs[e]
  BY <1>1, <1>2, <1>6 DEF TypeOK
<1>8. RefsExact'
  <2>1. \A e \in Devs : refs'[e] = Cardinality(Claimed(e)')
    BY <1>2, <1>4, <1>6, <1>7
  <2>2. QED
    BY <1>1, <1>5, <1>6, <2>1 DEF RefsExact
<1>9. \A k \in LinkIds : k # cur /\ links[k] # None /\ links'[k] = links[k] => Settled(k)'
  <2> SUFFICES ASSUME NEW k \in LinkIds, k # cur, links[k] # None, links'[k] = links[k]
               PROVE  Settled(k)'
    OBVIOUS
  <2>1. Settled(k) /\ armed \subseteq armed' /\ mboxes[s].link = cur
    BY <1>1, <1>2 DEF LinksInv, SettledInv
  <2>2. QED
    BY <1>3, <2>1, SettledKept
<1>10. CASE op = "disconnect" /\ side = "rcv"
  <2>1. /\ side' = "ack" /\ UNCHANGED <<links, table>> /\ pc' \in {"panic", "unsubscribe"}
    BY <1>10 DEF Release
  <2>2. TypeOK'
    BY <1>1, <1>2, <1>3, <1>7, <2>1, Basics DEF TypeOK, Steps
  <2>3. ASSUME pc' = "unsubscribe" PROVE LinksInv'
    <3>1. Busy'
      BY <2>3 DEF Busy, Undoing
    <3>2. SettledInv'
      BY <1>1, <1>9, <2>1, <3>1 DEF SettledInv
    <3>3. TableInv' /\ WorkInv'
      BY <1>1, <1>2, <2>1, <3>1 DEF LinksInv, TableInv, WorkInv
    <3>4. ClaimInv'
      BY <2>3 DEF ClaimInv, Claiming
    <3>5. UndoInv'
      <4>1. Bound(cur, "ack", pair["ack"])
        BY <1>1, <1>2, <1>10 DEF LinksInv, UndoInv, Undoing
      <4>2. links[cur].slot["ack"] # s
        BY <1>2, <1>10, <4>1 DEF Bound
      <4>3. Bound(cur, "ack", pair["ack"])'
        BY <1>1, <1>3, <2>1, <4>1, <4>2 DEF Bound
      <4>4. mboxes'[links'[cur].slot["rcv"]] = None
        BY <1>2, <1>3, <1>10, <2>1
      <4>5. QED
        BY <1>1, <1>10, <2>1, <4>3, <4>4 DEF UndoInv
    <3>6. OwnedInv'
      BY <1>2, <1>3, <2>1 DEF LinksInv, OwnedInv
    <3>7. QED
      BY <3>2, <3>3, <3>4, <3>5, <3>6 DEF LinksInv
  <2>4. QED
    BY <1>8, <2>1, <2>2, <2>3 DEF MboxInv, Stopped
<1>11. CASE ~(op = "disconnect" /\ side = "rcv")
  <2>1. /\ side' = side /\ links' = [links EXCEPT ![cur] = None]
        /\ table' = [i \in Indices |-> IF table[i] = cur THEN None ELSE table[i]]
        /\ pc' \in {"panic", "serve"}
    BY <1>11 DEF Release
  <2>2. /\ links' \in [LinkIds -> Link \cup {None}] /\ links'[cur] = None
        /\ \A l \in LinkIds : l # cur => links'[l] = links[l]
        /\ table' \in [Indices -> LinkIds \cup {None}]
    BY <1>2, <2>1 DEF TypeOK
  <2>3. TypeOK'
    BY <1>1, <1>2, <1>3, <1>7, <2>1, <2>2 DEF TypeOK, Steps
  <2>4. ASSUME pc' = "serve" PROVE LinksInv'
    <3>1. ~Busy'
      BY <2>4 DEF Busy, Claiming, Undoing
    <3>2. SettledInv'
      BY <1>9, <2>2 DEF SettledInv
    <3>3. TableInv'
      <4>1. \A i \in Indices : table'[i] # None =>
              table'[i] = table[i] /\ table[i] # cur /\ table[i] \in LinkIds
        BY <1>2, <2>1 DEF TypeOK
      <4>2. \A l \in LinkIds : links'[l] # None => l # cur /\ links[l] # None
        BY <2>2
      <4>3. \A l \in LinkIds : links'[l] # None => l \in Servers \/ \E i \in Indices : table'[i] = l
        BY <1>2, <2>1, <4>2 DEF LinksInv, TableInv
      <4>4. \A l \in Servers : links'[l] # None
        BY <1>2, <2>2, Basics DEF LinksInv, TableInv
      <4>5. \A i \in Indices : table'[i] # None => table'[i] \notin Servers /\ links'[table'[i]] # None
        BY <1>2, <2>2, <4>1 DEF LinksInv, TableInv
      <4>6. \A i, j \in Indices : table'[i] = table'[j] /\ table'[i] # None => i = j
        BY <1>2, <4>1 DEF LinksInv, TableInv
      <4>7. QED
        BY <4>3, <4>4, <4>5, <4>6 DEF TableInv
    <3>4. WorkInv' /\ ClaimInv' /\ UndoInv'
      BY <2>4 DEF WorkInv, ClaimInv, UndoInv, Busy, Claiming, Undoing
    <3>5. OwnedInv'
      <4> SUFFICES ASSUME NEW t \in Slots, mboxes'[t] # None
                   PROVE  \E l \in LinkIds, e \in Events : links'[l] # None /\ links'[l].slot[e] = t
        BY DEF OwnedInv
      <4>1. t # s /\ mboxes[t] # None
        BY <1>3
      <4>2. PICK l \in LinkIds, e \in Events : links[l] # None /\ links[l].slot[e] = t
        BY <1>2, <4>1 DEF LinksInv, OwnedInv
      <4>3. l # cur
        <5> SUFFICES ASSUME l = cur PROVE FALSE
          OBVIOUS
        <5>1. e # side
          BY <1>2, <4>1, <4>2
        <5>2. CASE op = "connect"
          <6>1. side = "rcv" /\ (links[cur].slot["ack"] # None => mboxes[links[cur].slot["ack"]] = None)
            BY <1>1, <1>2, <5>2 DEF LinksInv, UndoInv, Undoing
          <6>2. e = "ack" /\ t # None
            BY <5>1, <6>1, Basics DEF Events
          <6>3. QED
            BY <4>1, <4>2, <6>1, <6>2
        <5>3. CASE op = "disconnect"
          <6>1. side = "ack"
            BY <1>2, <1>11, <5>3 DEF Events
          <6>2. mboxes[links[cur].slot["rcv"]] = None
            BY <1>1, <1>2, <5>3, <6>1 DEF LinksInv, UndoInv, Undoing
          <6>3. e = "rcv"
            BY <5>1, <6>1 DEF Events
          <6>4. QED
            BY <4>1, <4>2, <6>2, <6>3
        <5>4. QED
          BY <1>2, <5>2, <5>3
      <4>4. links'[l] # None /\ links'[l].slot[e] = t
        BY <2>2, <4>2, <4>3
      <4>5. QED
        BY <4>4
    <3>6. QED
      BY <3>2, <3>3, <3>4, <3>5 DEF LinksInv
  <2>5. QED
    BY <1>8, <2>1, <2>3, <2>4 DEF MboxInv, Stopped
<1>12. QED
  BY <1>10, <1>11

\* A ping follows a link of the table, which is complete.
LEMMA PingStep ==
  ASSUME MboxInv, NEW i \in Indices, Ping(i)
  PROVE  MboxInv'
<1>1. /\ pc = "serve"
      /\ UNCHANGED <<objVars, op, cur, pair, side, isr, armed, raised, enabled, pending>>
  BY DEF Ping, At
<1>2. ~Stopped /\ ~Busy /\ LinksInv /\ TypeOK
  BY <1>1 DEF MboxInv, Stopped, Busy, Claiming, Undoing
<1>3. CASE table[i] # None
  <2>1. /\ owed' = owed \cup {<<mboxes[links[table[i]].slot[e]].inst, e>> : e \in Events}
        /\ pc' = pc
    BY <1>3 DEF Ping
  <2>2. table[i] \in LinkIds /\ Settled(table[i])
    BY <1>2, <1>3 DEF LinksInv, TableInv, SettledInv, TypeOK
  <2>3. \A e \in Events : mboxes[links[table[i]].slot[e]].inst \in Instances
    <3> SUFFICES ASSUME NEW e \in Events PROVE mboxes[links[table[i]].slot[e]].inst \in Instances
      OBVIOUS
    <3>1. PICK p \in Pairs : Bound(table[i], e, p[e])
      BY <2>2 DEF Settled
    <3>2. mboxes[links[table[i]].slot[e]] = [inst |-> p[e], event |-> e, link |-> table[i]]
          /\ p[e] \in Instances
      BY <3>1 DEF Bound
    <3>3. QED
      BY <3>2
  <2>4. owed' \subseteq Instances \X Events
    BY <1>2, <2>1, <2>3 DEF TypeOK
  <2>5. TypeOK'
    BY <1>1, <1>2, <2>1, <2>4 DEF TypeOK, objVars
  <2>6. UNCHANGED mainVars
    BY <1>1, <2>1 DEF mainVars
  <2>7. QED
    BY <1>1, <2>5, <2>6, QuietStep
<1>4. CASE table[i] = None
  <2>1. pc' = "lost" /\ owed' = owed
    BY <1>4 DEF Ping
  <2>2. TypeOK'
    BY <1>1, <1>2, <2>1 DEF TypeOK, objVars, Steps
  <2>3. QED
    BY <2>1, <2>2 DEF MboxInv, RefsExact, Stopped
<1>5. QED
  BY <1>3, <1>4

\* Each step keeps the invariant.
LEMMA MboxNext ==
  ASSUME MboxInv, [Next]_vars
  PROVE  MboxInv'
<1>1. CASE \E p \in Offered : Connect(p)
  BY <1>1, ConnectStep
<1>2. CASE \E i \in Indices : Disconnect(i) \/ Ping(i)
  BY <1>2, DisconnectStep, PingStep
<1>3. CASE ClaimMbox
  BY <1>3, ClaimStep, ClaimFails
<1>4. CASE GetBlock
  BY <1>4, BlockStep, ClaimFails
<1>5. CASE Arm \/ Ready \/ Unsubscribe \/ Release
  BY <1>5, ArmStep, ReadyStep, UnsubscribeStep, ReleaseStep
<1>6. CASE Isr
  BY <1>6, IsrStep DEF Isr
<1>7. CASE \E i \in Instances, e \in Events : Raise(i, e)
  BY <1>7, RaiseStep
<1>8. CASE UNCHANGED vars
  <2>1. UNCHANGED <<objVars, mainVars, isr, armed, raised, owed, enabled, pending>>
    BY <1>8 DEF vars, hwVars
  <2>2. TypeOK'
    BY <2>1 DEF MboxInv, TypeOK, objVars, mainVars
  <2>3. QED
    BY <2>1, <2>2, QuietStep
<1>9. QED
  BY <1>1, <1>2, <1>3, <1>4, <1>5, <1>6, <1>7, <1>8 DEF Next, Work

-----------------------------------------------------------------------------
(* The initial state, and the theorems                                      *)

\* Where links_init has put the mailboxes of the links that TRCH serves.
LEMMA ServerSlots ==
  ASSUME NEW l \in Servers, NEW e \in Events
  PROVE  /\ ServerSlot(l, e) \in Slots /\ ServerSlot(l, e) <= 2 * Len(ServerLinks)
         /\ (ServerSlot(l, e) + 1) \div 2 = l
         /\ (ServerSlot(l, e) % 2 = 1) <=> e = "rcv"
<1>1. l \in 1 .. Len(ServerLinks) /\ Len(ServerLinks) \in Nat /\ MaxMboxes \in Nat
      /\ 2 * Len(ServerLinks) <= MaxMboxes
  BY MailboxAssumption DEF Servers
<1>2. e = "rcv" \/ e = "ack"
  BY DEF Events
<1>3. CASE e = "rcv"
  <2>1. ServerSlot(l, e) = 2 * l - 1
    BY <1>3 DEF ServerSlot
  <2>2. QED
    BY <1>1, <1>3, <2>1 DEF Slots
<1>4. CASE e = "ack"
  <2>1. ServerSlot(l, e) = 2 * l
    BY <1>4 DEF ServerSlot
  <2>2. QED
    BY <1>1, <1>4, <2>1 DEF Slots
<1>5. QED
  BY <1>2, <1>3, <1>4

\* The first mailboxes are those of these links, and of nobody else.
LEMMA ServerSlotOf ==
  ASSUME NEW s \in Slots, s <= 2 * Len(ServerLinks)
  PROVE  \E l \in Servers, e \in Events : s = ServerSlot(l, e)
<1>1. s \in Nat \ {0} /\ Len(ServerLinks) \in Nat
  BY MailboxAssumption DEF Slots
<1> DEFINE l == (s + 1) \div 2
<1>2. l \in 1 .. Len(ServerLinks) /\ (s = 2 * l - 1 \/ s = 2 * l)
  BY <1>1
<1>3. l \in Servers
  BY <1>2, MailboxAssumption DEF Servers
<1>4. s = ServerSlot(l, "rcv") \/ s = ServerSlot(l, "ack")
  BY <1>2 DEF ServerSlot
<1>5. QED
  BY <1>3, <1>4 DEF Events

\* One mailbox of each link of a set: as many as there are links.
LEMMA CountSlots ==
  ASSUME NEW S \in SUBSET Servers, NEW e \in Events
  PROVE  /\ IsFiniteSet(S) /\ Cardinality(S) \in Nat
         /\ Cardinality({ServerSlot(l, e) : l \in S}) = Cardinality(S)
<1> DEFINE T == {ServerSlot(l, e) : l \in S}
           f == [l \in S |-> ServerSlot(l, e)]
<1>1. IsFiniteSet(S)
  <2>1. Servers = 1 .. Len(ServerLinks) /\ Len(ServerLinks) \in Int
    BY MailboxAssumption DEF Servers
  <2>2. IsFiniteSet(1 .. Len(ServerLinks))
    BY <2>1, FS_Interval
  <2>3. QED
    BY <2>1, <2>2, FS_Subset
<1>2. f \in Bijection(S, T)
  <2>1. f \in [S -> T] /\ \A t \in T : \E l \in S : f[l] = t
    OBVIOUS
  <2>2. \A k, l \in S : f[k] = f[l] => k = l
    BY ServerSlots
  <2>3. QED
    BY <2>1, <2>2, Fun_IsBij
<1>3. ExistsBijection(S, T)
  BY <1>2, Fun_ExistsBij
<1>4. QED
  BY <1>1, <1>3, FS_Bijection, FS_CardinalityType

\* The invariant holds once the links TRCH serves are connected: each has the places of its
\* two mailboxes, and the counts are those of the links on each device.
LEMMA MboxInit == Init => MboxInv
<1> SUFFICES ASSUME Init PROVE MboxInv
  OBVIOUS
<1> DEFINE fresh(l) == [slot |-> [e \in Events |-> ServerSlot(l, e)], ready |-> TRUE]
           Mine(d) == {l \in Servers : DevOf[ServerLinks[l]["rcv"]] = d}
           Ends(d, e) == {ServerSlot(l, e) : l \in Mine(d)}
<1>1. /\ pc = "serve" /\ op = "connect" /\ cur = None /\ pair = None /\ side = "rcv" /\ isr = None
      /\ raised = {} /\ owed = {} /\ pending = {} /\ enabled = {q \in Irqs : irqRefs[q] > 0}
      /\ table = [i \in Indices |-> None]
      /\ armed = {<<ServerLinks[l][e], e>> : l \in Servers, e \in Events}
  BY DEF Init
<1>2. \A l \in Servers : ServerLinks[l] \in Pairs /\ l \in LinkIds
  BY MailboxAssumption, Basics DEF Servers
<1>3. \A l \in Servers, e \in Events :
        ServerLinks[l][e] \in Instances /\ DevOf[ServerLinks[l][e]] = DevOf[ServerLinks[l]["rcv"]]
  <2> SUFFICES ASSUME NEW l \in Servers, NEW e \in Events
               PROVE  /\ ServerLinks[l][e] \in Instances
                      /\ DevOf[ServerLinks[l][e]] = DevOf[ServerLinks[l]["rcv"]]
    OBVIOUS
  <2>1. e = "rcv" \/ e = "ack"
    BY DEF Events
  <2>2. QED
    BY <1>2, <2>1, Basics
<1>4. \A l \in LinkIds : links[l] = IF l \in Servers THEN fresh(l) ELSE None
  BY DEF Init
<1>5. \A l \in Servers : fresh(l) \in Link /\ fresh(l) # None
                         /\ fresh(l).ready /\ \A e \in Events : fresh(l).slot[e] = ServerSlot(l, e)
  <2> SUFFICES ASSUME NEW l \in Servers PROVE fresh(l) \in Link
    BY MailboxAssumption
  <2>1. [e \in Events |-> ServerSlot(l, e)] \in [Events -> Slots \cup {None}]
    BY ServerSlots
  <2>2. QED
    BY <2>1 DEF Link
<1>6. \A l \in Servers, e \in Events :
        mboxes[ServerSlot(l, e)] = [inst |-> ServerLinks[l][e], event |-> e, link |-> l]
  <2> SUFFICES ASSUME NEW l \in Servers, NEW e \in Events
               PROVE  mboxes[ServerSlot(l, e)] = [inst |-> ServerLinks[l][e], event |-> e, link |-> l]
    OBVIOUS
  <2> DEFINE s == ServerSlot(l, e)
             k == (s + 1) \div 2
             v == IF s % 2 = 1 THEN "rcv" ELSE "ack"
  <2>1. s \in Slots /\ s <= 2 * Len(ServerLinks) /\ k = l /\ ((s % 2 = 1) <=> e = "rcv")
    BY ServerSlots
  <2>2. v = e
    BY <2>1 DEF Events
  <2>3. mboxes[s] = [inst |-> ServerLinks[k][v], event |-> v, link |-> k]
    BY <2>1 DEF Init
  <2>4. QED
    BY <2>1, <2>2, <2>3
<1>7. \A s \in Slots : ~(s <= 2 * Len(ServerLinks)) => mboxes[s] = None
  BY DEF Init
<1>8. \A s \in Slots : mboxes[s] # None => \E l \in Servers, e \in Events :
        s = ServerSlot(l, e) /\ mboxes[s] = [inst |-> ServerLinks[l][e], event |-> e, link |-> l]
  BY <1>6, <1>7, ServerSlotOf
<1>9. \A l \in Servers, e \in Events :
        [inst |-> ServerLinks[l][e], event |-> e, link |-> l] \in Mailbox
  BY <1>2, <1>3 DEF Mailbox
<1> HIDE DEF fresh
<1>10. \A d \in Devs : refs[d] = Cardinality(Claimed(d)) /\ refs[d] \in Nat
  <2> SUFFICES ASSUME NEW d \in Devs PROVE refs[d] = Cardinality(Claimed(d)) /\ refs[d] \in Nat
    OBVIOUS
  <2>1. Claimed(d) = Ends(d, "rcv") \cup Ends(d, "ack")
    <3>1. ASSUME NEW s \in Claimed(d) PROVE s \in Ends(d, "rcv") \cup Ends(d, "ack")
      <4>1. s \in Slots /\ mboxes[s] # None /\ DevOf[mboxes[s].inst] = d
        BY <3>1 DEF Claimed
      <4>2. PICK l \in Servers, e \in Events :
              s = ServerSlot(l, e) /\ mboxes[s] = [inst |-> ServerLinks[l][e], event |-> e, link |-> l]
        BY <1>8, <4>1
      <4>3. l \in Mine(d)
        BY <1>3, <4>1, <4>2
      <4>4. QED
        BY <4>2, <4>3 DEF Events
    <3>2. ASSUME NEW s \in Ends(d, "rcv") \cup Ends(d, "ack") PROVE s \in Claimed(d)
      <4>1. PICK l \in Mine(d), e \in Events : s = ServerSlot(l, e)
        BY Basics
      <4>2. s \in Slots /\ mboxes[s] = [inst |-> ServerLinks[l][e], event |-> e, link |-> l]
        BY <1>6, <4>1, ServerSlots
      <4>3. mboxes[s] \in Mailbox
        BY <1>9, <4>2
      <4>4. QED
        BY <1>3, <4>2, <4>3, MailboxAssumption DEF Claimed
    <3>3. QED
      BY <3>1, <3>2
  <2>2. Ends(d, "rcv") \cap Ends(d, "ack") = {}
    BY ServerSlots, Basics
  <2>3. Mine(d) \in SUBSET Servers
    OBVIOUS
  <2>4. refs[d] = 2 * Cardinality(Mine(d))
    BY DEF Init
  <2>5. Ends(d, "rcv") \in SUBSET Slots /\ Ends(d, "ack") \in SUBSET Slots
    BY ServerSlots, Basics
  <2> HIDE DEF Mine
  <2>6. Cardinality(Ends(d, "rcv")) = Cardinality(Mine(d)) /\ Cardinality(Mine(d)) \in Nat
    BY <2>3, CountSlots, Basics
  <2>7. Cardinality(Ends(d, "ack")) = Cardinality(Mine(d))
    BY <2>3, CountSlots, Basics
  <2> HIDE DEF Ends
  <2>8. IsFiniteSet(Ends(d, "rcv")) /\ IsFiniteSet(Ends(d, "ack"))
    BY <2>5, SlotSets
  <2>9. Cardinality(Ends(d, "rcv") \cap Ends(d, "ack")) = 0
    BY <2>2, FS_EmptySet
  <2>10. Cardinality(Claimed(d)) = Cardinality(Ends(d, "rcv")) + Cardinality(Ends(d, "ack")) - 0
    BY <2>1, <2>8, <2>9, FS_Union
  <2>11. QED
    BY <2>4, <2>6, <2>7, <2>10
<1>11. \A q \in Irqs : irqRefs[q] = Cardinality(Subscribed(q)) /\ irqRefs[q] \in Nat
  <2> SUFFICES ASSUME NEW d \in Devs, NEW e \in Events
               PROVE  /\ irqRefs[<<d, e>>] = Cardinality(Subscribed(<<d, e>>))
                      /\ irqRefs[<<d, e>>] \in Nat
    BY DEF Irqs
  <2>1. Subscribed(<<d, e>>) = Ends(d, e)
    <3>1. ASSUME NEW s \in Subscribed(<<d, e>>) PROVE s \in Ends(d, e)
      <4>1. s \in Slots /\ mboxes[s] # None /\ DevOf[mboxes[s].inst] = d /\ mboxes[s].event = e
        BY <3>1 DEF Subscribed, Claimed
      <4>2. PICK l \in Servers, v \in Events :
              s = ServerSlot(l, v) /\ mboxes[s] = [inst |-> ServerLinks[l][v], event |-> v, link |-> l]
        BY <1>8, <4>1
      <4>3. v = e /\ l \in Mine(d)
        BY <1>3, <4>1, <4>2
      <4>4. QED
        BY <4>2, <4>3
    <3>2. ASSUME NEW s \in Ends(d, e) PROVE s \in Subscribed(<<d, e>>)
      <4>1. PICK l \in Mine(d) : s = ServerSlot(l, e)
        OBVIOUS
      <4>2. s \in Slots /\ mboxes[s] = [inst |-> ServerLinks[l][e], event |-> e, link |-> l]
        BY <1>6, <4>1, ServerSlots
      <4>3. mboxes[s] \in Mailbox /\ l # None /\ ServerLinks[l][e] # None
        BY <1>2, <1>3, <1>9, <4>2, Basics
      <4>4. mboxes[s] # None /\ mboxes[s].inst # None /\ DevOf[mboxes[s].inst] = d
            /\ mboxes[s].event = e /\ mboxes[s].link # None
        BY <1>3, <4>1, <4>2, <4>3, MailboxAssumption
      <4>5. QED
        BY <1>1, <4>2, <4>4 DEF Subscribed, Claimed
    <3>3. QED
      BY <3>1, <3>2
  <2>2. irqRefs[<<d, e>>] = Cardinality(Mine(d))
    BY DEF Init, Irqs
  <2>3. Mine(d) \in SUBSET Servers
    OBVIOUS
  <2> HIDE DEF Mine
  <2>4. QED
    BY <2>1, <2>2, <2>3, CountSlots
<1>12. TypeOK
  <2>1. mboxes \in [Slots -> Mailbox \cup {None}]
    <3>1. mboxes = [s \in Slots |-> mboxes[s]]
      BY DEF Init
    <3>2. \A s \in Slots : mboxes[s] \in Mailbox \cup {None}
      <4> SUFFICES ASSUME NEW s \in Slots, mboxes[s] # None PROVE mboxes[s] \in Mailbox
        OBVIOUS
      <4>1. PICK l \in Servers, e \in Events :
              mboxes[s] = [inst |-> ServerLinks[l][e], event |-> e, link |-> l]
        BY <1>8
      <4>2. QED
        BY <1>9, <4>1
    <3>3. QED
      BY <3>1, <3>2
  <2>2. refs \in [Devs -> Nat] /\ irqRefs \in [Irqs -> Nat]
    <3>1. refs = [d \in Devs |-> refs[d]] /\ irqRefs = [q \in Irqs |-> irqRefs[q]]
      BY DEF Init
    <3>2. QED
      BY <1>10, <1>11, <3>1
  <2>3. links \in [LinkIds -> Link \cup {None}]
    <3>1. links = [l \in LinkIds |-> links[l]]
      BY DEF Init
    <3>2. QED
      BY <1>4, <1>5, <3>1
  <2>4. armed \subseteq Instances \X Events
    BY <1>1, <1>3
  <2>5. table \in [Indices -> LinkIds \cup {None}] /\ side \in Events /\ pc \in Steps
        /\ op \in {"connect", "disconnect"}
    BY <1>1, Basics DEF Steps
  <2>6. /\ enabled \subseteq Irqs /\ pending \subseteq Irqs
        /\ raised \subseteq Instances \X Events /\ owed \subseteq Instances \X Events
    BY <1>1
  <2>7. QED
    BY <1>1, <2>1, <2>2, <2>3, <2>4, <2>5, <2>6 DEF TypeOK
<1>13. RefsExact
  BY <1>1, <1>10, <1>11 DEF RefsExact
<1>14. \A l \in Servers : Settled(l)
  <2> SUFFICES ASSUME NEW l \in Servers, NEW e \in Events PROVE Bound(l, e, ServerLinks[l][e])
    BY <1>2, <1>4, <1>5 DEF Settled
  <2>1. links[l].slot[e] = ServerSlot(l, e)
    BY <1>2, <1>4, <1>5
  <2>2. QED
    BY <1>1, <1>3, <1>6, <2>1, ServerSlots DEF Bound
<1>15. SettledInv /\ TableInv /\ WorkInv /\ ClaimInv /\ UndoInv
  <2>1. SettledInv
    BY <1>4, <1>14 DEF SettledInv
  <2>2. TableInv
    BY <1>1, <1>2, <1>4, <1>5 DEF TableInv
  <2>3. WorkInv /\ ClaimInv /\ UndoInv
    BY <1>1 DEF WorkInv, ClaimInv, UndoInv, Busy, Claiming, Undoing
  <2>4. QED
    BY <2>1, <2>2, <2>3
<1>16. OwnedInv
  <2> SUFFICES ASSUME NEW s \in Slots, mboxes[s] # None
               PROVE  \E l \in LinkIds, e \in Events : links[l] # None /\ links[l].slot[e] = s
    BY DEF OwnedInv
  <2>1. PICK l \in Servers, e \in Events : s = ServerSlot(l, e)
    BY <1>8
  <2>2. l \in LinkIds /\ links[l] # None /\ links[l].slot[e] = s
    BY <1>2, <1>4, <1>5, <2>1
  <2>3. QED
    BY <2>2
<1>17. QED
  BY <1>12, <1>13, <1>15, <1>16 DEF MboxInv, LinksInv

\* Every step of connecting and disconnecting, and every interrupt between two of them,
\* finds counts, links and table in the state that its predecessors leave.
THEOREM MboxInvariant == Spec => []MboxInv
<1>1. MboxInv /\ [Next]_vars => MboxInv'
  BY MboxNext
<1>2. QED
  BY <1>1, MboxInit, PTL DEF Spec

\* No sequence of connects, failed or not, and disconnects leaks a mailbox, a link or a
\* claim on a block or an interrupt.
THEOREM ClaimsAccounted == Spec => []Accounted
<1>1. MboxInv => Accounted
  <2> SUFFICES ASSUME MboxInv, ~Stopped PROVE NothingLeaks
    BY DEF MboxInv, Accounted, NothingLeaks
  <2>1. LinksInv /\ TypeOK
    BY DEF MboxInv
  <2>2. Busy <=> pc # "serve"
    BY <2>1 DEF TypeOK, Steps, Stopped, Busy, Claiming, Undoing
  <2>3. \A s \in Slots : mboxes[s] # None => \E l \in LinkIds, e \in Events :
                                               links[l] # None /\ links[l].slot[e] = s
    BY <2>1 DEF LinksInv, OwnedInv
  <2>4. \A i, j \in Indices : table[i] = table[j] /\ table[i] # None => i = j
    BY <2>1 DEF LinksInv, TableInv
  <2>5. ASSUME NEW l \in LinkIds
        PROVE  links[l] # None <=> \/ l \in Servers
                                   \/ \E i \in Indices : table[i] = l
                                   \/ l = cur /\ op = "connect" /\ pc # "serve"
    BY <2>1, <2>2, Basics DEF LinksInv, TableInv, WorkInv
  <2>6. QED
    BY <2>3, <2>4, <2>5 DEF NothingLeaks
<1>2. QED
  BY <1>1, MboxInvariant, PTL

\* A connected link can hear, whatever other links are connected and disconnected.
THEOREM LinksListen == Spec => []Listening
<1>1. MboxInv => Listening
  <2> SUFFICES ASSUME MboxInv, ~Stopped, NEW l \in LinkIds, NEW e \in Events, links[l] # None,
                      links[l].ready, ~(pc \in {"unsubscribe", "release"} /\ cur = l)
               PROVE  /\ links[l].slot[e] # None
                      /\ LET m == mboxes[links[l].slot[e]] IN
                           /\ m # None /\ m.link = l /\ m.event = e /\ m.inst # None
                           /\ <<m.inst, e>> \in armed /\ <<DevOf[m.inst], e>> \in enabled
    BY DEF Listening
  <2>1. LinksInv /\ TypeOK /\ RefsExact
    BY DEF MboxInv
  <2>2. Settled(l)
    <3>1. ~(Busy /\ l = cur)
      BY <2>1 DEF LinksInv, WorkInv, ClaimInv, Busy, Undoing
    <3>2. QED
      BY <2>1, <3>1 DEF LinksInv, SettledInv
  <2>3. PICK i, s : Bound(l, e, i) /\ s = links[l].slot[e]
    BY <2>2 DEF Settled
  <2>4. /\ s \in Slots /\ mboxes[s] = [inst |-> i, event |-> e, link |-> l]
        /\ i \in Instances /\ <<i, e>> \in armed
    BY <2>3 DEF Bound
  <2>5. mboxes[s] # None /\ i # None /\ s # None /\ l # None /\ DevOf[i] \in Devs
    BY <2>4, MailboxRecord, Basics
  <2>6. ~(pc = "release" /\ s = Slot)
    <3> SUFFICES ASSUME pc = "release", s = Slot PROVE FALSE
      OBVIOUS
    <3>1. Bound(cur, side, pair[side]) /\ cur # l
      BY <2>1 DEF LinksInv, UndoInv, Undoing
    <3>2. mboxes[s].link = cur
      BY <3>1 DEF Bound, Slot
    <3>3. QED
      BY <2>4, <3>1, <3>2
  <2>7. s \in Subscribed(<<DevOf[i], e>>)
    BY <2>4, <2>5, <2>6 DEF Subscribed, Claimed
  <2>8. <<DevOf[i], e>> \in Irqs /\ Subscribed(<<DevOf[i], e>>) \in SUBSET Slots
    BY <2>5, CountSets DEF Irqs
  <2>9. Cardinality(Subscribed(<<DevOf[i], e>>)) > 0
    BY <2>7, <2>8, SlotSets
  <2>10. <<DevOf[i], e>> \in enabled
    BY <2>1, <2>8, <2>9 DEF RefsExact
  <2>11. QED
    BY <2>3, <2>4, <2>5, <2>10
<1>2. QED
  BY <1>1, MboxInvariant, PTL

\* The assertion of block_put holds: nobody subscribes to an interrupt of the device whose
\* last mailbox is released.
THEOREM BlockPutHolds == Spec => [](At("release") => ~PutAsserts)
<1>1. MboxInv => (At("release") => ~PutAsserts)
  <2> SUFFICES ASSUME MboxInv, pc = "release", NEW d, d = DevOf[pair[side]], refs[d] = 1,
                      NEW e \in Events
               PROVE  ~(irqRefs[<<d, e>>] > 0)
    BY DEF At, PutAsserts
  <2>1. LinksInv /\ RefsExact /\ TypeOK /\ ~Stopped
    BY DEF MboxInv, Stopped
  <2>2. Bound(cur, side, pair[side])
    BY <2>1 DEF LinksInv, UndoInv, Undoing
  <2>3. PICK s : s = Slot
    OBVIOUS
  <2>4. /\ s \in Slots /\ mboxes[s] = [inst |-> pair[side], event |-> side, link |-> cur]
        /\ pair[side] \in Instances /\ d \in Devs
    BY <2>2, <2>3, Basics DEF Bound, Slot
  <2>5. mboxes[s] # None /\ pair[side] # None
    BY <2>1, <2>4, MailboxRecord, Basics DEF TypeOK
  <2>6. s \in Claimed(d)
    BY <2>4, <2>5 DEF Claimed
  <2>7. Cardinality(Claimed(d)) = 1 /\ <<d, e>> \in Irqs
        /\ irqRefs[<<d, e>>] = Cardinality(Subscribed(<<d, e>>))
    BY <2>1, <2>4 DEF RefsExact, Irqs
  <2>8. Claimed(d) \in SUBSET Slots /\ Subscribed(<<d, e>>) \in SUBSET Slots
    BY <2>4, <2>7, CountSets
  <2>9. Cardinality(Claimed(d) \ {s}) = 0
    BY <2>6, <2>7, <2>8, SlotSets
  <2>10. Claimed(d) \ {s} = {}
    <3>1. IsFiniteSet(Claimed(d) \ {s})
      BY <2>8, SlotSets, FS_Subset
    <3>2. QED
      BY <2>9, <3>1, FS_EmptySet
  <2>11. Subscribed(<<d, e>>) = {}
    BY <2>3, <2>10 DEF Subscribed
  <2>12. QED
    BY <2>7, <2>11, FS_EmptySet
<1>2. QED
  BY <1>1, MboxInvariant, PTL

-----------------------------------------------------------------------------
(* The objects of the DMA driver                                            *)

CONSTANTS Sizes, MaxIter, MaxJump, McBufSz, Barriers, MaxTxes, Clients, EndLags
VARIABLES client, code, inten, intmis, chan, reg

Driver == INSTANCE Dma WITH cur <- chan

\* The programs fit into the buffer of a request, and no client with a callback meets a
\* fault (dma_abort_isr does not free its object).
ObjectsFreed ==
  /\ IsFiniteSet(Chans) /\ 0 \in Chans /\ Nil \notin Driver!Request /\ MaxTxes \in Nat \ {0}
  /\ \A m \in Sizes : ~(Len(Driver!Program[m]) > McBufSz)
  /\ \A c \in Clients : c.cb \in BOOLEAN /\ ~(c.cb /\ c.faults)

Held == {c \in Chans : desc[c] # Nil}

\* A client that waits has one request at a time, the one that it waits for.
TxesInv ==
  /\ client \in Clients
  /\ desc \in [Chans -> Driver!Request \cup {Nil}] /\ running \in [Chans -> BOOLEAN]
  /\ DOMAIN hw = Chans
  /\ \A c \in Chans : "st" \in DOMAIN hw[c] /\ (hw[c].st = "fault" => client.faults)
  /\ txes = Cardinality(Held)
  /\ \A c \in Chans : running[c] => desc[c] # Nil /\ desc[c].status = "BUSY"
  /\ \A c \in Held : desc[c].cb = client.cb
  /\ at \in {"ready", "inten", "go", "wait", "drowsy", "asleep", "hang"}
  /\ client.cb => at \notin {"wait", "drowsy", "asleep"}
  /\ ~client.cb /\ at = "ready" => Held = {}
  /\ ~client.cb /\ at \in {"inten", "go", "wait", "drowsy", "asleep"} => chan \in Chans /\ Held = {chan}

\* The number of requests, when one comes or goes.
LEMMA HeldCounts ==
  ASSUME IsFiniteSet(Chans)
  PROVE  /\ Cardinality(Held) \in Nat
         /\ \A c \in Chans \ Held : Cardinality(Held \cup {c}) = Cardinality(Held) + 1
         /\ \A c \in Held : Cardinality(Held \ {c}) = Cardinality(Held) - 1
<1>1. IsFiniteSet(Held)
  BY FS_Subset DEF Held
<1>2. QED
  BY <1>1, FS_CardinalityType, FS_AddElement, FS_RemoveElement

\* A request takes an object; one that waits was made when there was no other.
LEMMA TransferStep ==
  ASSUME ObjectsFreed, TxesInv, NEW c \in Chans, NEW m \in Sizes, Driver!Transfer(c, m)
  PROVE  TxesInv'
<1>1. at = "ready" /\ chan' = c /\ UNCHANGED <<client, hw>> /\ client.cb \in BOOLEAN
  BY DEF Driver!Transfer, Driver!At, TxesInv, ObjectsFreed
<1>2. CASE desc[c] # Nil \/ txes = MaxTxes \/ Len(Driver!Program[m]) > McBufSz
  <2>1. UNCHANGED <<desc, running, txes>> /\ at' = Driver!Returned(FALSE)
    BY <1>2 DEF Driver!Transfer, Driver!swVars
  <2>2. client.cb
    <3> SUFFICES ASSUME ~client.cb PROVE FALSE
      BY <1>1
    <3>1. Held = {} /\ txes = 0
      BY <1>1, FS_EmptySet DEF TxesInv
    <3>2. QED
      BY <1>2, <3>1 DEF ObjectsFreed, Held
  <2>3. QED
    BY <1>1, <2>1, <2>2 DEF TxesInv, Held, Driver!Returned
<1>3. CASE ~(desc[c] # Nil \/ txes = MaxTxes \/ Len(Driver!Program[m]) > McBufSz)
  <2> DEFINE r == [status |-> "BUSY", n |-> m, rc |-> -1, cb |-> client.cb]
  <2>1. /\ desc' = [desc EXCEPT ![c] = r] /\ running' = [running EXCEPT ![c] = TRUE]
        /\ txes' = txes + 1 /\ at' = "inten"
    BY <1>3 DEF Driver!Transfer
  <2>2. r \in Driver!Request /\ r # Nil /\ r.cb = client.cb /\ r.status = "BUSY"
    BY <1>1 DEF Driver!Request, ObjectsFreed
  <2> HIDE DEF r
  <2>3. Held' = Held \cup {c} /\ c \in Chans \ Held
    BY <1>3, <2>1, <2>2 DEF Held, TxesInv
  <2>4. txes' = Cardinality(Held')
    BY <2>1, <2>3, HeldCounts DEF TxesInv, ObjectsFreed
  <2>5. ~client.cb => Held' = {c}
    BY <1>1, <2>3 DEF TxesInv
  <2>6. /\ desc' \in [Chans -> Driver!Request \cup {Nil}] /\ running' \in [Chans -> BOOLEAN]
        /\ \A d \in Chans : running'[d] => desc'[d] # Nil /\ desc'[d].status = "BUSY"
        /\ \A d \in Held' : desc'[d].cb = client.cb
    BY <2>1, <2>2, <2>3 DEF TxesInv, Held
  <2>7. QED
    BY <1>1, <2>1, <2>4, <2>5, <2>6 DEF TxesInv
<1>4. QED
  BY <1>2, <1>3

\* Steps of the main loop that leave the requests alone.
LEMMA MainSteps ==
  ASSUME ObjectsFreed, TxesInv,
         Driver!IntenLoad \/ Driver!Go \/ Driver!Wfi \/ Driver!Tick
  PROVE  TxesInv'
<1>1. UNCHANGED <<client, desc, running, txes, chan>> /\ Held' = Held /\ client.cb \in BOOLEAN
  BY DEF Driver!IntenLoad, Driver!Go, Driver!Wfi, Driver!Tick, Driver!swVars, Held, TxesInv, ObjectsFreed
<1>2. CASE Driver!Go
  <2>1. at = "go" /\ at' = IF client.cb THEN "ready" ELSE "wait"
    BY <1>2 DEF Driver!Go, Driver!At, Driver!Returned
  <2>2. DOMAIN hw' = Chans /\ \A c \in Chans : "st" \in DOMAIN hw'[c] /\ (hw'[c].st = "fault" => client.faults)
    <3> DEFINE g == [Driver!Stopped EXCEPT !.st = "run", !.buf = chan]
    <3>1. hw' = hw \/ hw' = [hw EXCEPT ![0] = g]
      BY <1>2 DEF Driver!Go
    <3>2. "st" \in DOMAIN g /\ g.st = "run"
      BY DEF Driver!Stopped
    <3> HIDE DEF g
    <3>3. QED
      BY <3>1, <3>2 DEF TxesInv, ObjectsFreed
  <2>3. QED
    BY <1>1, <2>1, <2>2 DEF TxesInv
<1>3. CASE Driver!IntenLoad
  BY <1>1, <1>3 DEF Driver!IntenLoad, Driver!At, TxesInv
<1>4. CASE Driver!Wfi \/ Driver!Tick
  BY <1>1, <1>4 DEF Driver!Wfi, Driver!Tick, Driver!At, TxesInv
<1>5. QED
  BY <1>2, <1>3, <1>4

\* dma_wait gives up the object of the request that is done.
LEMMA WaitStep ==
  ASSUME ObjectsFreed, TxesInv, Driver!WaitCheck
  PROVE  TxesInv'
<1>1. /\ at = "wait" /\ UNCHANGED <<client, running, hw, chan>> /\ ~client.cb /\ client.cb \in BOOLEAN
      /\ chan \in Chans /\ Held = {chan}
  BY DEF Driver!WaitCheck, Driver!At, TxesInv, ObjectsFreed
<1>2. CASE desc[chan].status = "DONE"
  <2>1. desc' = [desc EXCEPT ![chan] = Nil] /\ txes' = txes - 1 /\ at' = "ready" /\ ~running[chan]
    BY <1>1, <1>2 DEF Driver!WaitCheck, TxesInv
  <2>2. Held' = Held \ {chan} /\ Held' = {}
    BY <1>1, <2>1 DEF Held, TxesInv
  <2>3. txes' = Cardinality(Held')
    BY <1>1, <2>1, <2>2, HeldCounts DEF TxesInv, ObjectsFreed
  <2>4. QED
    BY <1>1, <1>2, <2>1, <2>2, <2>3 DEF TxesInv, Held
<1>3. CASE desc[chan].status # "DONE"
  BY <1>1, <1>3 DEF Driver!WaitCheck, TxesInv, Held
<1>4. QED
  BY <1>2, <1>3

\* A request is done: with a callback it is gone, without one it waits to be reaped.
LEMMA Detached ==
  ASSUME ObjectsFreed, TxesInv, NEW c \in Chans, running[c], NEW err \in {0, 2}, Driver!Detach(c, err)
  PROVE  /\ desc' \in [Chans -> Driver!Request \cup {Nil}] /\ running' \in [Chans -> BOOLEAN]
         /\ \A d \in Chans : running'[d] => desc'[d] # Nil /\ desc'[d].status = "BUSY"
         /\ \A d \in Held' : desc'[d].cb = client.cb
         /\ desc[c].cb = client.cb /\ client.cb \in BOOLEAN
         /\ client.cb => Cardinality(Held') = Cardinality(Held) - 1
         /\ ~client.cb => Held' = Held
<1> DEFINE r == [desc[c] EXCEPT !.status = "DONE", !.rc = err]
<1>1. /\ desc[c] \in Driver!Request /\ desc[c] # Nil /\ c \in Held /\ desc[c].cb = client.cb
      /\ client.cb \in BOOLEAN /\ Nil \notin Driver!Request
  BY DEF TxesInv, Held, ObjectsFreed
<1>2. r \in Driver!Request /\ r.cb = client.cb
  BY <1>1 DEF Driver!Request
<1>3. /\ desc' = [desc EXCEPT ![c] = IF client.cb THEN Nil ELSE r]
      /\ running' = [running EXCEPT ![c] = FALSE]
  BY <1>1 DEF Driver!Detach
<1> HIDE DEF r
<1>4. /\ desc' \in [Chans -> Driver!Request \cup {Nil}] /\ running' \in [Chans -> BOOLEAN]
      /\ \A d \in Chans : running'[d] => desc'[d] # Nil /\ desc'[d].status = "BUSY"
      /\ \A d \in Held' : desc'[d].cb = client.cb
  BY <1>1, <1>2, <1>3 DEF TxesInv, Held
<1>5. CASE client.cb
  <2>1. Held' = Held \ {c}
    BY <1>3, <1>5 DEF TxesInv, Held
  <2>2. QED
    BY <1>1, <1>4, <1>5, <2>1, HeldCounts DEF ObjectsFreed
<1>6. CASE ~client.cb
  <2>1. Held' = Held
    BY <1>1, <1>2, <1>3, <1>6 DEF TxesInv, Held
  <2>2. QED
    BY <1>1, <1>4, <1>6, <2>1
<1>7. QED
  BY <1>1, <1>5, <1>6

\* dma_event_isr frees the object of a request with a callback.
LEMMA EventStep ==
  ASSUME ObjectsFreed, TxesInv, NEW ev \in Chans, Driver!EventIsr(ev)
  PROVE  TxesInv'
<1>1. /\ UNCHANGED <<client, hw, chan>> /\ at' = IF at = "asleep" THEN "wait" ELSE at
      /\ at # "hang"
  BY DEF Driver!EventIsr, Driver!Woken
<1>2. CASE running[0]
  <2>1. Driver!Detach(0, 0) /\ Driver!FreeTx(0) /\ 0 \in Chans
    BY <1>2 DEF Driver!EventIsr, Driver!ChanOf, ObjectsFreed
  <2> DEFINE c == 0
  <2>2. c \in Chans /\ running[c] /\ Driver!Detach(c, 0)
    BY <1>2, <2>1
  <2>3. txes' = IF desc[c].cb THEN txes - 1 ELSE txes
    BY <2>1 DEF Driver!FreeTx
  <2> HIDE DEF c
  <2>4. /\ desc' \in [Chans -> Driver!Request \cup {Nil}] /\ running' \in [Chans -> BOOLEAN]
        /\ \A d \in Chans : running'[d] => desc'[d] # Nil /\ desc'[d].status = "BUSY"
        /\ \A d \in Held' : desc'[d].cb = client.cb
        /\ desc[c].cb = client.cb /\ client.cb \in BOOLEAN
        /\ client.cb => Cardinality(Held') = Cardinality(Held) - 1
        /\ ~client.cb => Held' = Held
    BY <2>2, Detached
  <2>5. QED
    BY <1>1, <2>3, <2>4 DEF TxesInv
<1>3. CASE ~running[0]
  <2>1. UNCHANGED <<desc, running, txes>>
    BY <1>3 DEF Driver!EventIsr, Driver!ChanOf
  <2>2. QED
    BY <1>1, <2>1 DEF TxesInv, Held
<1>4. QED
  BY <1>2, <1>3

\* dma_abort_isr leaves the object to dma_wait.
LEMMA AbortStep ==
  ASSUME ObjectsFreed, TxesInv, Driver!AbortIsr
  PROVE  TxesInv'
<1>1. /\ UNCHANGED <<client, txes, chan>> /\ at # "hang"
  BY DEF Driver!AbortIsr
<1>2. PICK c \in Driver!Faulted :
        IF running[c]
        THEN /\ Driver!Detach(c, 2)
             /\ inten' = inten \ {c} /\ hw' = [hw EXCEPT ![c].st = "stopped"]
             /\ at' = Driver!Woken
        ELSE at' = "hang" /\ UNCHANGED <<desc, running, inten, hw>>
  BY DEF Driver!AbortIsr
<1>3. c \in Chans /\ client.faults /\ ~client.cb
  BY DEF Driver!Faulted, TxesInv, ObjectsFreed
<1>4. CASE running[c]
  <2>1. /\ Driver!Detach(c, 2) /\ hw' = [hw EXCEPT ![c].st = "stopped"]
        /\ at' = IF at = "asleep" THEN "wait" ELSE at
    BY <1>2, <1>4 DEF Driver!Woken
  <2>2. /\ desc' \in [Chans -> Driver!Request \cup {Nil}] /\ running' \in [Chans -> BOOLEAN]
        /\ \A d \in Chans : running'[d] => desc'[d] # Nil /\ desc'[d].status = "BUSY"
        /\ \A d \in Held' : desc'[d].cb = client.cb
        /\ Held' = Held
    BY <1>3, <1>4, <2>1, Detached
  <2>3. DOMAIN hw' = Chans /\ \A d \in Chans : "st" \in DOMAIN hw'[d] /\ (hw'[d].st = "fault" => client.faults)
    BY <1>3, <2>1 DEF TxesInv
  <2>4. QED
    BY <1>1, <2>1, <2>2, <2>3 DEF TxesInv
<1>5. CASE ~running[c]
  <2>1. at' = "hang" /\ UNCHANGED <<desc, running, hw>>
    BY <1>2, <1>5
  <2>2. QED
    BY <1>1, <2>1 DEF TxesInv, Held
<1>6. QED
  BY <1>4, <1>5

\* The controller takes and frees no objects.
LEMMA ControllerStep ==
  ASSUME ObjectsFreed, TxesInv, NEW c \in Chans, Driver!HwStep(c) \/ Driver!Fault(c)
  PROVE  TxesInv'
<1>1. UNCHANGED <<client, desc, running, txes, at, chan>>
  BY DEF Driver!HwStep, Driver!Fault, Driver!swVars
<1>2. DOMAIN hw' = Chans /\ \A d \in Chans : "st" \in DOMAIN hw'[d] /\ (hw'[d].st = "fault" => client.faults)
  <2>1. CASE Driver!Fault(c)
    BY <2>1 DEF Driver!Fault, TxesInv
  <2>2. CASE Driver!HwStep(c)
    <3>1. Driver!Execute(c) /\ hw[c].st = "run"
      BY <2>2 DEF Driver!HwStep
    <3>2. \A d \in Chans \ {c} : hw'[d] = hw[d]
      BY <3>1 DEF Driver!Execute, Driver!To, TxesInv
    <3>3. DOMAIN hw' = Chans /\ "st" \in DOMAIN hw'[c] /\ hw'[c].st \in {"run", "stopped"}
      BY <3>1 DEF Driver!Execute, Driver!To, TxesInv
    <3>4. QED
      BY <3>2, <3>3 DEF TxesInv
  <2>3. QED
    BY <2>1, <2>2
<1>3. QED
  BY <1>1, <1>2 DEF TxesInv, Held

\* Every allocated object belongs to a request and every request has one, so that transfers
\* made one after the other are never refused.
THEOREM ObjectsExact ==
  ObjectsFreed /\ Driver!Spec => []TxesExact
<1>1. ObjectsFreed /\ Driver!Init => TxesInv
  <2> SUFFICES ASSUME ObjectsFreed, Driver!Init PROVE TxesInv
    OBVIOUS
  <2>1. Held = {} /\ Cardinality(Held) = 0
    <3>1. Held = {}
      BY DEF Driver!Init, Held
    <3>2. QED
      BY <3>1, FS_EmptySet
  <2>2. DOMAIN hw = Chans /\ \A c \in Chans : "st" \in DOMAIN hw[c] /\ hw[c].st = "stopped"
    BY DEF Driver!Init, Driver!Stopped
  <2>3. QED
    BY <2>1, <2>2 DEF Driver!Init, TxesInv, Held
<1>2. ObjectsFreed /\ TxesInv /\ [Driver!Next]_(Driver!vars) => ObjectsFreed' /\ TxesInv'
  <2> SUFFICES ASSUME ObjectsFreed, TxesInv, [Driver!Next]_(Driver!vars) PROVE TxesInv'
    BY DEF ObjectsFreed, Driver!Program, Driver!Request, Driver!SetupReq
  <2>1. CASE Driver!Main \/ Driver!Tick
    BY <2>1, MainSteps, WaitStep DEF Driver!Main
  <2>2. CASE Driver!Isr
    BY <2>2, AbortStep, EventStep DEF Driver!Isr
  <2>3. CASE \E c \in Chans : Driver!HwStep(c) \/ Driver!Fault(c) \/ \E m \in Sizes : Driver!Transfer(c, m)
    BY <2>3, ControllerStep, TransferStep
  <2>4. CASE UNCHANGED Driver!vars
    BY <2>4 DEF Driver!vars, Driver!swVars, TxesInv, Held
  <2>5. QED
    BY <2>1, <2>2, <2>3, <2>4 DEF Driver!Next
<1>3. TxesInv => TxesExact
  BY DEF TxesInv, TxesExact, Held
<1>4. QED
  BY <1>1, <1>2, <1>3, PTL DEF Driver!Spec

-----------------------------------------------------------------------------
(* Arithmetic and induction                                                *)

\* A subset of an interval that is closed under successor is the interval: shifting its
\* part below a number it misses would be an injection into a smaller set.
LEMMA IntervalInduction ==
  ASSUME NEW m \in Nat, NEW S \in SUBSET (0 .. m), 0 \in S, \A k \in S : k < m => k + 1 \in S
  PROVE  S = 0 .. m
<1> SUFFICES ASSUME NEW l \in (0 .. m) \ S PROVE FALSE
  OBVIOUS
<1> DEFINE T == S \cap (0 .. l)
           f == [x \in T |-> x + 1]
<1>1. IsFiniteSet(T)
  <2>1. IsFiniteSet(0 .. l)
    BY FS_Interval
  <2>2. QED
    BY <2>1, FS_Intersection
<1>2. 0 \in T
  OBVIOUS
<1>3. f \in Injection(T, T \ {0})
  <2>1. \A x \in T : x + 1 \in T \ {0}
    OBVIOUS
  <2>2. f \in [T -> T \ {0}] /\ \A x, y \in T : f[x] = f[y] => x = y
    BY <2>1
  <2>3. QED
    BY <2>2, Fun_IsInj
<1>4. Cardinality(T) <= Cardinality(T \ {0})
  <2>1. IsFiniteSet(T \ {0})
    BY <1>1, FS_RemoveElement
  <2>2. QED
    BY <1>3, <2>1, FS_Injection
<1>5. Cardinality(T \ {0}) = Cardinality(T) - 1 /\ Cardinality(T) \in Nat
  BY <1>1, <1>2, FS_RemoveElement, FS_CardinalityType
<1>6. QED
  BY <1>4, <1>5

\* Division with a remainder.
LEMMA DivMod ==
  ASSUME NEW x \in Nat, NEW b \in Nat \ {0}
  PROVE  x \div b \in Nat /\ x % b \in 0 .. (b - 1) /\ x = (x \div b) * b + (x % b)
<1>1. x % b \in 0 .. (b - 1) OBVIOUS
<1>2. x \div b \in Int OBVIOUS
<1>3. x = (x \div b) * b + (x % b)
  <2>1. \A y, c \in Int : c > 0 => y = (y \div c) * c + (y % c) OBVIOUS
  <2>2. x \in Int /\ b \in Int /\ b > 0 OBVIOUS
  <2> QED BY <2>1, <2>2
<1>4. x \div b >= 0 BY <1>1, <1>2, <1>3
<1> QED BY <1>1, <1>2, <1>3, <1>4

-----------------------------------------------------------------------------
(* The microcode that the driver generates: its pieces                      *)

\* What the microcode of the controller is generated with.
Microcode ==
  /\ Sizes \subseteq Nat /\ MaxIter \in Nat \ {0, 1} /\ MaxJump \in Nat /\ MaxJump >= 12
  /\ Barriers \in BOOLEAN

Ops   == {"MOV", "LD", "RMB", "ST", "WMB", "LP", "LPEND", "SEV", "END"}
Cells == [op : Ops, loop : Nat, arg : Nat] \cup {Nil}

\* An instruction is a cell and its operands.
IsEmitted(s, kind, size, loop, arg) ==
  s \in Seq(Cells) /\ Len(s) = size /\ s[1] = [op |-> kind, loop |-> loop, arg |-> arg]

\* That is what is emitted.
LEMMA EmitIs ==
  ASSUME NEW kind \in Ops, NEW size \in Nat \ {0}, NEW loop \in Nat, NEW arg \in Nat
  PROVE  IsEmitted(Driver!Emit(kind, size, loop, arg), kind, size, loop, arg)
<1> DEFINE c == [op |-> kind, loop |-> loop, arg |-> arg]
           s == [k \in 1 .. (size - 1) |-> Nil]
<1>1. c \in Cells
  BY DEF Cells
<1>2. s \in Seq(Cells) /\ Len(s) = size - 1
  <2>1. size - 1 \in Nat /\ \A k \in 1 .. (size - 1) : Nil \in Cells
    BY DEF Cells
  <2> HIDE DEF s
  <2>2. s \in [1 .. (size - 1) -> Cells]
    BY <2>1 DEF s
  <2>3. QED
    BY <2>1, <2>2
<1> HIDE DEF c, s
<1>3. <<c>> \in Seq(Cells) /\ Len(<<c>>) = 1 /\ <<c>>[1] = c
  BY <1>1
<1>4. <<c>> \o s \in Seq(Cells) /\ Len(<<c>> \o s) = size /\ (<<c>> \o s)[1] = c
  <2>1. Len(<<c>> \o s) = 1 + (size - 1) /\ <<c>> \o s \in Seq(Cells)
    BY <1>2, <1>3, ConcatProperties
  <2>2. 1 \in 1 .. (1 + (size - 1)) /\ 1 <= 1
    OBVIOUS
  <2>3. (<<c>> \o s)[1] = <<c>>[1]
    BY <1>2, <1>3, <2>2, ConcatProperties
  <2>4. QED
    BY <1>3, <2>1, <2>3
<1>5. QED
  BY <1>4 DEF Driver!Emit, IsEmitted, c, s

\* A sequence of cells behind another.
LEMMA CatIs ==
  ASSUME NEW s \in Seq(Cells), NEW t \in Seq(Cells)
  PROVE  /\ s \o t \in Seq(Cells) /\ Len(s \o t) = Len(s) + Len(t) /\ Len(s) \in Nat /\ Len(t) \in Nat
         /\ \A k \in 1 .. Len(s) : (s \o t)[k] = s[k]
         /\ \A k \in 1 .. Len(t) : (s \o t)[Len(s) + k] = t[k]
<1>1. /\ s \o t \in Seq(Cells) /\ Len(s \o t) = Len(s) + Len(t) /\ Len(s) \in Nat /\ Len(t) \in Nat
      /\ \A k \in 1 .. (Len(s) + Len(t)) : (s \o t)[k] = IF k <= Len(s) THEN s[k] ELSE t[k - Len(s)]
  BY ConcatProperties
<1>2. ASSUME NEW k \in 1 .. Len(t) PROVE (s \o t)[Len(s) + k] = t[k]
  <2>1. Len(s) + k \in 1 .. (Len(s) + Len(t)) /\ ~(Len(s) + k <= Len(s)) /\ (Len(s) + k) - Len(s) = k
    BY <1>1
  <2>2. QED
    BY <1>1, <2>1
<1>3. QED
  BY <1>1, <1>2

\* One more instruction of one byte.
LEMMA OneMore ==
  ASSUME NEW s \in Seq(Cells), NEW t \in Seq(Cells), NEW z \in Nat, Len(s) = z, Len(t) = 1
  PROVE  /\ s \o t \in Seq(Cells) /\ Len(s \o t) = z + 1 /\ (s \o t)[z + 1] = t[1]
         /\ \A k \in 1 .. z : (s \o t)[k] = s[k]
<1>1. /\ s \o t \in Seq(Cells) /\ Len(s \o t) = Len(s) + Len(t)
      /\ \A k \in 1 .. Len(s) : (s \o t)[k] = s[k]
  BY CatIs
<1>2. \A k \in 1 .. 1 : (s \o t)[z + k] = t[k]
  BY CatIs
<1>3. QED
  BY <1>1, <1>2

\* The instructions of one burst, and which of them stores: the copies that the first k of
\* unrolled bursts make.
BurstLen == IF Barriers THEN 4 ELSE 2
StoreAt  == IF Barriers THEN 2 ELSE 1
Unrolled(k) == (k \div BurstLen) + (IF k % BurstLen > StoreAt THEN 1 ELSE 0)
IsBurst(c, k) == IF k % BurstLen = StoreAt THEN c.op = "ST" ELSE c.op \in {"LD", "RMB", "WMB"}

\* One burst.
LEMMA BurstIs ==
  ASSUME Microcode
  PROVE  /\ Driver!Burst \in Seq(Cells) /\ Len(Driver!Burst) = BurstLen
         /\ \A k \in 0 .. (BurstLen - 1) : IsBurst(Driver!Burst[k + 1], k)
<1> DEFINE e(kind) == Driver!Emit(kind, 1, 0, 0)
<1>1. ASSUME NEW kind \in Ops PROVE e(kind) \in Seq(Cells) /\ Len(e(kind)) = 1 /\ e(kind)[1].op = kind
  <2>1. 1 \in Nat \ {0} /\ 0 \in Nat
    OBVIOUS
  <2>2. e(kind) \in Seq(Cells) /\ Len(e(kind)) = 1 /\ e(kind)[1] = [op |-> kind, loop |-> 0, arg |-> 0]
    <3>1. IsEmitted(e(kind), kind, 1, 0, 0)
      BY <2>1, EmitIs
    <3>2. QED
      BY <3>1 DEF IsEmitted
  <2>3. QED
    BY <2>2
<1> HIDE DEF e
<1> DEFINE l == e("LD")
           r == e("RMB")
           t == e("ST")
           w == e("WMB")
<1>2. l \in Seq(Cells) /\ Len(l) = 1 /\ l[1].op = "LD" /\ r \in Seq(Cells) /\ Len(r) = 1 /\ r[1].op = "RMB"
  <2>1. "LD" \in Ops /\ "RMB" \in Ops
    BY DEF Ops
  <2>2. l \in Seq(Cells) /\ Len(l) = 1 /\ l[1].op = "LD"
    BY <1>1, <2>1
  <2>3. r \in Seq(Cells) /\ Len(r) = 1 /\ r[1].op = "RMB"
    BY <1>1, <2>1
  <2>4. QED
    BY <2>2, <2>3
<1>3. t \in Seq(Cells) /\ Len(t) = 1 /\ t[1].op = "ST" /\ w \in Seq(Cells) /\ Len(w) = 1 /\ w[1].op = "WMB"
  <2>1. "ST" \in Ops /\ "WMB" \in Ops
    BY DEF Ops
  <2>2. t \in Seq(Cells) /\ Len(t) = 1 /\ t[1].op = "ST"
    BY <1>1, <2>1
  <2>3. w \in Seq(Cells) /\ Len(w) = 1 /\ w[1].op = "WMB"
    BY <1>1, <2>1
  <2>4. QED
    BY <2>2, <2>3
<1>4. Driver!Burst = IF Barriers THEN l \o r \o t \o w ELSE l \o t
  BY DEF Driver!Burst, e
<1> HIDE DEF l, r, t, w
<1>5. CASE Barriers
  <2> DEFINE s2 == l \o r
             s3 == s2 \o t
             s4 == s3 \o w
  <2>1. s2 \in Seq(Cells) /\ Len(s2) = 1 + 1 /\ s2[1 + 1] = r[1] /\ \A k \in 1 .. 1 : s2[k] = l[k]
    BY <1>2, <1>3, OneMore
  <2> HIDE DEF s2
  <2>2. s3 \in Seq(Cells) /\ Len(s3) = 2 + 1 /\ s3[2 + 1] = t[1] /\ \A k \in 1 .. 2 : s3[k] = s2[k]
    <3>1. Len(s2) = 2 /\ 2 \in Nat
      BY <2>1
    <3>2. QED
      BY <1>3, <2>1, <3>1, OneMore
  <2> HIDE DEF s3
  <2>3. s4 \in Seq(Cells) /\ Len(s4) = 3 + 1 /\ s4[3 + 1] = w[1] /\ \A k \in 1 .. 3 : s4[k] = s3[k]
    <3>1. Len(s3) = 3 /\ 3 \in Nat
      BY <2>2
    <3>2. QED
      BY <1>3, <2>2, <3>1, OneMore
  <2>4. Driver!Burst = s4
    BY <1>4, <1>5 DEF s4, s3, s2
  <2> HIDE DEF s4
  <2>5. s4[1] = l[1] /\ s4[2] = r[1] /\ s4[3] = t[1] /\ s4[4] = w[1]
    BY <2>1, <2>2, <2>3
  <2>6. ASSUME NEW k \in 0 .. 3 PROVE IsBurst(s4[k + 1], k)
    BY <1>2, <1>3, <1>5, <2>5 DEF IsBurst, BurstLen, StoreAt
  <2>7. QED
    BY <1>5, <2>3, <2>4, <2>6 DEF BurstLen
<1>6. CASE ~Barriers
  <2> DEFINE s2 == l \o t
  <2>1. s2 \in Seq(Cells) /\ Len(s2) = 1 + 1 /\ s2[1 + 1] = t[1] /\ \A k \in 1 .. 1 : s2[k] = l[k]
    BY <1>2, <1>3, OneMore
  <2>2. Driver!Burst = s2
    BY <1>4, <1>6
  <2> HIDE DEF s2
  <2>3. s2[1] = l[1] /\ s2[2] = t[1]
    BY <2>1
  <2>4. ASSUME NEW k \in 0 .. 1 PROVE IsBurst(s2[k + 1], k)
    BY <1>2, <1>3, <1>6, <2>3 DEF IsBurst, BurstLen, StoreAt
  <2>5. QED
    BY <1>6, <2>1, <2>2, <2>4 DEF BurstLen
<1>7. QED
  BY <1>5, <1>6

\* Unrolled bursts store as often as they are.
LEMMA UnrolledIs ==
  /\ Unrolled(0) = 0
  /\ \A k \in Nat : Unrolled(k) \in Nat /\ Unrolled(k + 1) = IF k % BurstLen = StoreAt THEN Unrolled(k) + 1 ELSE Unrolled(k)
  /\ \A c \in Nat : Unrolled(c * BurstLen) = c
<1>1. CASE Barriers
  <2>1. BurstLen = 4 /\ StoreAt = 2
    BY <1>1 DEF BurstLen, StoreAt
  <2>2. \A k \in Nat : Unrolled(k) = (k \div 4) + (IF k % 4 > 2 THEN 1 ELSE 0)
    BY <2>1 DEF Unrolled
  <2>3. \A c \in Nat : Unrolled(c * 4) = c
    BY <2>2
  <2>4. ASSUME NEW k \in Nat
        PROVE  Unrolled(k) \in Nat /\ Unrolled(k + 1) = IF k % 4 = 2 THEN Unrolled(k) + 1 ELSE Unrolled(k)
    <3>1. PICK q \in Nat, m \in 0 .. 3 : k = 4 * q + m
      <4>1. k = 4 * (k \div 4) + (k % 4) /\ k \div 4 \in Nat /\ k % 4 \in 0 .. 3
        OBVIOUS
      <4>2. QED
        BY <4>1
    <3>2. \A y \in 0 .. 3 : (4 * q + y) \div 4 = q /\ (4 * q + y) % 4 = y
      OBVIOUS
    <3>3. Unrolled(k) = q + (IF m > 2 THEN 1 ELSE 0) /\ k % 4 = m
      BY <2>2, <3>1, <3>2
    <3>4. CASE m < 3
      <4>1. k + 1 = 4 * q + (m + 1) /\ m + 1 \in 0 .. 3 /\ k + 1 \in Nat
        BY <3>1, <3>4
      <4>2. Unrolled(k + 1) = q + (IF m + 1 > 2 THEN 1 ELSE 0)
        BY <2>2, <3>2, <4>1
      <4>3. QED
        BY <3>3, <3>4, <4>2
    <3>5. CASE m = 3
      <4>1. k + 1 = 4 * (q + 1) /\ k + 1 \in Nat /\ q + 1 \in Nat
        BY <3>1, <3>5
      <4>2. (4 * (q + 1)) \div 4 = q + 1 /\ (4 * (q + 1)) % 4 = 0
        OBVIOUS
      <4>3. Unrolled(k + 1) = q + 1
        <5>1. Unrolled(4 * (q + 1)) = ((4 * (q + 1)) \div 4) + (IF (4 * (q + 1)) % 4 > 2 THEN 1 ELSE 0)
          BY <2>2, <4>1
        <5>2. QED
          BY <4>1, <4>2, <5>1
      <4>4. QED
        BY <3>3, <3>5, <4>3
    <3>6. QED
      BY <3>4, <3>5
  <2>5. QED
    BY <2>1, <2>2, <2>3, <2>4
<1>2. CASE ~Barriers
  <2>1. BurstLen = 2 /\ StoreAt = 1
    BY <1>2 DEF BurstLen, StoreAt
  <2>2. \A k \in Nat : Unrolled(k) = (k \div 2) + (IF k % 2 > 1 THEN 1 ELSE 0)
    BY <2>1 DEF Unrolled
  <2>3. \A c \in Nat : Unrolled(c * 2) = c
    BY <2>2
  <2>4. \A k \in Nat : Unrolled(k) \in Nat /\ Unrolled(k + 1) = IF k % 2 = 1 THEN Unrolled(k) + 1 ELSE Unrolled(k)
    BY <2>2
  <2>5. QED
    BY <2>1, <2>2, <2>3, <2>4
<1>3. QED
  BY <1>1, <1>2

\* Several bursts, one behind the other.
LEMMA BurstsAre ==
  ASSUME Microcode, NEW c \in 0 .. (MaxJump + 1)
  PROVE  /\ Driver!BurstsOf[c] \in Seq(Cells) /\ Len(Driver!BurstsOf[c]) = c * BurstLen
         /\ c * BurstLen \in Nat
         /\ \A k \in 0 .. (c * BurstLen - 1) : IsBurst(Driver!BurstsOf[c][k + 1], k)
<1> DEFINE b == BurstLen
           z == c * b
           s == Driver!BurstsOf[c]
<1>1. b \in {2, 4} /\ z \in Nat
  <2>1. b \in {2, 4} /\ c \in Nat
    BY DEF BurstLen, Microcode
  <2>2. QED
    BY <2>1
<1>2. s = [k \in 1 .. z |-> Driver!Burst[((k - 1) % b) + 1]]
  BY BurstIs DEF Driver!BurstsOf
<1>3. \A k \in Nat : k % b \in 0 .. (b - 1) /\ (k % b) % b = k % b
  <2> HIDE DEF b
  <2>1. QED
    BY <1>1
<1>4. \A k \in 1 .. b : Driver!Burst[k] \in Cells
  BY BurstIs
<1> HIDE DEF b, z, s
<1>5. \A k \in 1 .. z : ((k - 1) % b) + 1 \in 1 .. b
  <2> SUFFICES ASSUME NEW k \in 1 .. z PROVE ((k - 1) % b) + 1 \in 1 .. b
    OBVIOUS
  <2>1. k - 1 \in Nat
    BY <1>1
  <2>2. (k - 1) % b \in 0 .. (b - 1)
    BY <1>3, <2>1
  <2>3. QED
    BY <1>1, <2>2
<1>6. s \in [1 .. z -> Cells]
  BY <1>2, <1>4, <1>5
<1>7. s \in Seq(Cells) /\ Len(s) = z
  BY <1>1, <1>6
<1>8. ASSUME NEW k \in 0 .. (z - 1) PROVE IsBurst(s[k + 1], k)
  <2>1. k + 1 \in 1 .. z /\ (k + 1) - 1 = k /\ k \in Nat
    BY <1>1
  <2>2. s[k + 1] = Driver!Burst[(k % b) + 1]
    BY <1>2, <2>1
  <2>3. IsBurst(Driver!Burst[(k % b) + 1], k % b)
    BY <1>3, <2>1, BurstIs DEF b
  <2>4. QED
    BY <1>3, <2>1, <2>2, <2>3 DEF IsBurst, b
<1>9. QED
  BY <1>1, <1>7, <1>8 DEF b, z, s

-----------------------------------------------------------------------------
(* The loops of the microcode                                               *)

\* One loop around unrolled bursts, and two.
Plain(v, c)     == LET body == Driver!LP(1, v) \o Driver!BurstsOf[c] IN body \o Driver!LPEND(1, Len(body) - 2)
Nested(u, v, c) == LET out == Driver!LP(0, u) \o Plain(v, c) IN out \o Driver!LPEND(0, Len(out) - 2)

Instr(kind, loop, arg) == [op |-> kind, loop |-> loop, arg |-> arg]

\* The instructions of a loop: counts and jumps fit into their operands.
LEMMA LoopCells ==
  ASSUME Microcode, NEW l \in {0, 1}
  PROVE  /\ \A v \in 1 .. MaxIter : Driver!LP(l, v) \in Seq(Cells) /\ Len(Driver!LP(l, v)) = 2 /\ Driver!LP(l, v)[1] = Instr("LP", l, v - 1)
         /\ \A z \in 0 .. MaxJump : Driver!LPEND(l, z) \in Seq(Cells) /\ Len(Driver!LPEND(l, z)) = 2 /\ Driver!LPEND(l, z)[1] = Instr("LPEND", l, z)
<1>1. "LP" \in Ops /\ "LPEND" \in Ops /\ 2 \in Nat \ {0} /\ l \in Nat
  BY DEF Ops
<1>2. ASSUME NEW v \in 1 .. MaxIter
      PROVE  Driver!LP(l, v) \in Seq(Cells) /\ Len(Driver!LP(l, v)) = 2 /\ Driver!LP(l, v)[1] = Instr("LP", l, v - 1)
  <2>1. (v - 1) % MaxIter = v - 1 /\ v - 1 \in Nat
    BY DEF Microcode
  <2>2. Driver!LP(l, v) = Driver!Emit("LP", 2, l, v - 1)
    BY <2>1 DEF Driver!LP
  <2> DEFINE a == v - 1
             i == Driver!Emit("LP", 2, l, a)
  <2>0. a \in Nat
    BY <2>1
  <2> HIDE DEF a
  <2>3. i \in Seq(Cells) /\ Len(i) = 2 /\ i[1] = [op |-> "LP", loop |-> l, arg |-> a]
    <3>1. "LP" \in Ops /\ 2 \in Nat \ {0} /\ l \in Nat
      BY <1>1
    <3>2. \A kind \in Ops : \A k \in Nat : LET e == Driver!Emit(kind, 2, l, k) IN
            IsEmitted(e, kind, 2, l, k)
      BY <3>1, EmitIs
    <3>3. IsEmitted(i, "LP", 2, l, a)
      BY <2>0, <3>1, <3>2
    <3>4. QED
      BY <3>3 DEF IsEmitted
  <2> HIDE DEF i
  <2>4. Driver!LP(l, v) = i
    BY <2>2 DEF i, a
  <2>5. QED
    BY <2>3, <2>4 DEF Instr, a
<1>3. ASSUME NEW z \in 0 .. MaxJump
      PROVE  Driver!LPEND(l, z) \in Seq(Cells) /\ Len(Driver!LPEND(l, z)) = 2 /\ Driver!LPEND(l, z)[1] = Instr("LPEND", l, z)
  <2>1. z % (MaxJump + 1) = z /\ z \in Nat
    BY DEF Microcode
  <2>2. Driver!LPEND(l, z) = Driver!Emit("LPEND", 2, l, z)
    BY <2>1 DEF Driver!LPEND
  <2> DEFINE i == Driver!Emit("LPEND", 2, l, z)
  <2>3. i \in Seq(Cells) /\ Len(i) = 2 /\ i[1] = [op |-> "LPEND", loop |-> l, arg |-> z]
    <3>1. IsEmitted(i, "LPEND", 2, l, z)
      BY <1>1, <2>1, EmitIs
    <3>2. QED
      BY <3>1 DEF IsEmitted
  <2> HIDE DEF i
  <2>4. Driver!LPEND(l, z) = i
    BY <2>2 DEF i
  <2>5. QED
    BY <2>3, <2>4 DEF Instr
<1>4. QED
  BY <1>2, <1>3

\* The bytes of a loop around bursts.
LEMMA PlainIs ==
  ASSUME Microcode, NEW v \in 1 .. MaxIter, NEW c \in Nat \ {0}, c * BurstLen <= MaxJump
  PROVE  /\ Plain(v, c) \in Seq(Cells) /\ Len(Plain(v, c)) = c * BurstLen + 4 /\ c * BurstLen \in Nat \ {0}
         /\ Plain(v, c)[1] = Instr("LP", 1, v - 1)
         /\ \A k \in 0 .. (c * BurstLen - 1) : IsBurst(Plain(v, c)[k + 3], k)
         /\ Plain(v, c)[c * BurstLen + 3] = Instr("LPEND", 1, c * BurstLen)
<1> DEFINE z == c * BurstLen
           p == Driver!LP(1, v)
           b == Driver!BurstsOf[c]
           e == Driver!LPEND(1, z)
           s == (p \o b) \o e
<1>1. c \in 0 .. (MaxJump + 1) /\ z \in Nat \ {0} /\ z <= MaxJump
  <2>1. BurstLen \in {2, 4}
    BY DEF BurstLen, Microcode
  <2>2. QED
    BY <2>1 DEF Microcode
<1>2. b \in Seq(Cells) /\ Len(b) = z /\ \A k \in 0 .. (z - 1) : IsBurst(b[k + 1], k)
  BY <1>1, BurstsAre
<1>3. p \in Seq(Cells) /\ Len(p) = 2 /\ p[1] = Instr("LP", 1, v - 1)
  BY LoopCells
<1>4. e \in Seq(Cells) /\ Len(e) = 2 /\ e[1] = Instr("LPEND", 1, z)
  BY <1>1, LoopCells DEF Microcode
<1> HIDE DEF z, p, b, e
<1>5. /\ p \o b \in Seq(Cells) /\ Len(p \o b) = 2 + z /\ (p \o b)[1] = p[1]
      /\ \A k \in 1 .. z : (p \o b)[2 + k] = b[k]
  <2>1. /\ p \o b \in Seq(Cells) /\ Len(p \o b) = Len(p) + Len(b)
        /\ \A k \in 1 .. Len(p) : (p \o b)[k] = p[k]
        /\ \A k \in 1 .. Len(b) : (p \o b)[Len(p) + k] = b[k]
    BY <1>2, <1>3, CatIs
  <2>2. QED
    BY <1>2, <1>3, <2>1
<1>6. /\ s \in Seq(Cells) /\ Len(s) = (2 + z) + 2 /\ s[(2 + z) + 1] = e[1]
      /\ \A k \in 1 .. (2 + z) : s[k] = (p \o b)[k]
  <2> DEFINE g == p \o b
  <2>1. g \in Seq(Cells) /\ Len(g) = 2 + z
    BY <1>5
  <2> HIDE DEF g
  <2>2. /\ g \o e \in Seq(Cells) /\ Len(g \o e) = Len(g) + Len(e)
        /\ \A k \in 1 .. Len(g) : (g \o e)[k] = g[k]
        /\ \A k \in 1 .. Len(e) : (g \o e)[Len(g) + k] = e[k]
    BY <1>4, <2>1, CatIs
  <2>3. 1 \in 1 .. Len(e) /\ Len(g) + Len(e) = (2 + z) + 2
    BY <1>1, <1>4, <2>1
  <2>4. (g \o e)[Len(g) + 1] = e[1]
    BY <2>2, <2>3
  <2>5. QED
    BY <2>1, <2>2, <2>3, <2>4 DEF g
<1>7. Plain(v, c) = s
  <2>1. Len(p \o b) - 2 = z
    BY <1>1, <1>5
  <2>2. QED
    BY <2>1 DEF Plain, p, b, e
<1> HIDE DEF s
<1>8. s[1] = p[1] /\ Len(s) = z + 4 /\ s[z + 3] = e[1]
  BY <1>1, <1>5, <1>6
<1>9. ASSUME NEW k \in 0 .. (z - 1) PROVE IsBurst(s[k + 3], k)
  <2>1. k + 1 \in 1 .. z /\ k + 3 = 2 + (k + 1) /\ k + 3 \in 1 .. (2 + z)
    BY <1>1
  <2>2. s[k + 3] = b[k + 1]
    BY <1>5, <1>6, <2>1
  <2>3. QED
    BY <1>2, <2>2
<1>10. QED
  BY <1>1, <1>3, <1>4, <1>6, <1>7, <1>8, <1>9 DEF z

\* The bytes of a loop around such a loop.
LEMMA NestedIs ==
  ASSUME Microcode, NEW u \in 1 .. MaxIter, NEW v \in 1 .. MaxIter, NEW c \in Nat \ {0}, c * BurstLen + 4 <= MaxJump
  PROVE  /\ Nested(u, v, c) \in Seq(Cells) /\ Len(Nested(u, v, c)) = c * BurstLen + 8 /\ c * BurstLen \in Nat \ {0}
         /\ Nested(u, v, c)[1] = Instr("LP", 0, u - 1)
         /\ \A k \in 1 .. (c * BurstLen + 4) : Nested(u, v, c)[k + 2] = Plain(v, c)[k]
         /\ Nested(u, v, c)[c * BurstLen + 7] = Instr("LPEND", 0, c * BurstLen + 4)
<1> DEFINE z == c * BurstLen
           p == Driver!LP(0, u)
           b == Plain(v, c)
           e == Driver!LPEND(0, z + 4)
           s == (p \o b) \o e
<1>0. z \in Nat
  <2>1. BurstLen \in {2, 4}
    BY DEF BurstLen, Microcode
  <2>2. QED
    BY <2>1
<1>1. z + 4 \in 0 .. MaxJump /\ z <= MaxJump
  BY <1>0 DEF Microcode
<1>2. b \in Seq(Cells) /\ Len(b) = z + 4 /\ z # 0
  BY <1>1, PlainIs
<1>3. p \in Seq(Cells) /\ Len(p) = 2 /\ p[1] = Instr("LP", 0, u - 1)
  BY LoopCells
<1>4. e \in Seq(Cells) /\ Len(e) = 2 /\ e[1] = Instr("LPEND", 0, z + 4)
  BY <1>1, LoopCells
<1> HIDE DEF z, p, b, e
<1>5. /\ p \o b \in Seq(Cells) /\ Len(p \o b) = z + 6 /\ (p \o b)[1] = p[1]
      /\ \A k \in 1 .. (z + 4) : (p \o b)[2 + k] = b[k]
  <2>1. /\ p \o b \in Seq(Cells) /\ Len(p \o b) = Len(p) + Len(b)
        /\ \A k \in 1 .. Len(p) : (p \o b)[k] = p[k]
        /\ \A k \in 1 .. Len(b) : (p \o b)[Len(p) + k] = b[k]
    BY <1>2, <1>3, CatIs
  <2>2. QED
    BY <1>0, <1>2, <1>3, <2>1
<1>6. /\ s \in Seq(Cells) /\ Len(s) = z + 8 /\ s[z + 7] = e[1]
      /\ \A k \in 1 .. (z + 6) : s[k] = (p \o b)[k]
  <2> DEFINE g == p \o b
  <2>1. g \in Seq(Cells) /\ Len(g) = z + 6
    BY <1>5
  <2> HIDE DEF g
  <2>2. /\ g \o e \in Seq(Cells) /\ Len(g \o e) = Len(g) + Len(e)
        /\ \A k \in 1 .. Len(g) : (g \o e)[k] = g[k]
        /\ \A k \in 1 .. Len(e) : (g \o e)[Len(g) + k] = e[k]
    BY <1>4, <2>1, CatIs
  <2>3. (z + 6) + 1 = z + 7 /\ (z + 6) + 2 = z + 8 /\ 1 \in 1 .. 2
    BY <1>0
  <2>4. QED
    BY <1>4, <2>1, <2>2, <2>3 DEF g
<1>7. Nested(u, v, c) = s
  <2>1. Len(p \o b) - 2 = z + 4
    BY <1>0, <1>5
  <2>2. QED
    BY <2>1 DEF Nested, p, b, e
<1> HIDE DEF s
<1>8. s[1] = p[1]
  BY <1>0, <1>5, <1>6
<1>9. ASSUME NEW k \in 1 .. (z + 4) PROVE s[k + 2] = b[k]
  <2>1. k + 2 = 2 + k /\ k + 2 \in 1 .. (z + 6)
    BY <1>0
  <2>2. QED
    BY <1>5, <1>6, <2>1
<1>10. QED
  BY <1>0, <1>2, <1>3, <1>4, <1>6, <1>7, <1>8, <1>9 DEF z, b

\* The bursts that fit into a jump.
LEMMA CyclesFit ==
  ASSUME Microcode, NEW u \in Nat
  PROVE  Driver!CycMax(u) \in Nat \ {0} /\ Driver!CycMax(u) * BurstLen + (IF u > 0 THEN 8 ELSE 4) <= MaxJump
<1> DEFINE x == MaxJump - (IF u > 0 THEN 8 ELSE 4)
           b == BurstLen
<1>1. x \in Nat /\ x >= 4 /\ b \in {2, 4} /\ b \in Nat \ {0}
  BY DEF Microcode, BurstLen
<1>2. Driver!CycMax(u) = x \div b
  BY BurstIs DEF Driver!CycMax
<1>3. x + (IF u > 0 THEN 8 ELSE 4) = MaxJump
  BY DEF Microcode
<1> HIDE DEF x, b
<1>4. x \div b \in Nat /\ x % b \in 0 .. (b - 1) /\ x = (x \div b) * b + (x % b)
  BY <1>1, DivMod
<1> DEFINE q == x \div b
<1> HIDE DEF q
<1>5. q # 0 /\ q * b <= x
  <2>1. q \in Nat /\ q * b <= x /\ x < q * b + b
    <3>1. q * b \in Nat
      BY <1>1, <1>4 DEF q
    <3>2. QED
      BY <1>1, <1>4, <3>1 DEF q
  <2>2. q # 0
    BY <1>1, <2>1
  <2>3. QED
    BY <2>1, <2>2
<1>6. QED
  BY <1>1, <1>2, <1>3, <1>4, <1>5 DEF q, b

\* What a loop is for r bursts: it copies some of them, at least one.
Shape(r, u, v, c) ==
  \/ /\ r = 1 /\ Driver!Loop(r).code = Driver!Burst /\ Driver!Loop(r).done = 1
  \/ /\ Driver!Loop(r).code = Plain(v, c) /\ c * BurstLen <= MaxJump
     /\ Driver!Loop(r).done = v * c
  \/ /\ Driver!Loop(r).code = Nested(u, v, c) /\ c * BurstLen + 4 <= MaxJump
     /\ Driver!Loop(r).done = (v * c) * u

\* The number of bursts of a loop that is unrolled as often as the jump allows.
LEMMA LeastIs ==
  ASSUME Microcode, NEW u \in Nat, NEW k \in Nat \ {0}
  PROVE  /\ Driver!Least(Driver!CycMax(u), k) \in Nat \ {0} /\ Driver!Least(Driver!CycMax(u), k) <= k
         /\ Driver!Least(Driver!CycMax(u), k) * BurstLen + (IF u > 0 THEN 8 ELSE 4) <= MaxJump
         /\ k = 1 => Driver!Least(Driver!CycMax(u), k) = 1
<1> DEFINE y == Driver!CycMax(u)
           x == IF y < k THEN y ELSE k
           b == BurstLen
<1>1. y \in Nat \ {0} /\ y * b + (IF u > 0 THEN 8 ELSE 4) <= MaxJump /\ b \in Nat
  BY CyclesFit DEF BurstLen
<1>2. Driver!Least(y, k) = x
  BY DEF Driver!Least
<1> HIDE DEF y, b
<1>3. x \in Nat \ {0} /\ x <= k /\ x <= y /\ (k = 1 => x = 1)
  BY <1>1
<1> HIDE DEF x
<1>4. x * b <= y * b /\ x * b \in Nat /\ y * b \in Nat
  BY <1>1, <1>3
<1> DEFINE p == x * b
           q == y * b
<1>5. p <= q /\ p \in Nat /\ q \in Nat /\ q + (IF u > 0 THEN 8 ELSE 4) <= MaxJump
  BY <1>1, <1>4
<1> HIDE DEF p, q
<1>6. p + (IF u > 0 THEN 8 ELSE 4) <= MaxJump
  BY <1>5 DEF Microcode
<1>7. QED
  BY <1>2, <1>3, <1>6 DEF y, b, p

\* The outer and inner loops, and the bursts in them.
LEMMA CountsAre ==
  ASSUME Microcode, NEW r \in Nat, r > 1
  PROVE  LET c == Driver!LoopCounts(r) IN
         /\ c.outer \in 0 .. MaxIter /\ c.inner \in 1 .. MaxIter /\ c.cyc \in Nat \ {0}
         /\ c.outer = 0 => c.cyc = 1 /\ c.inner = r
         /\ c.outer # 0 => (c.inner * c.cyc) * c.outer <= r
<1> DEFINE m == MaxIter
           w == m * m
<1>0. Driver!LoopCounts(r) =
        CASE r >= w -> [outer |-> m, inner |-> m, cyc |-> r \div w]
          [] r > m /\ r < w -> [outer |-> r \div m, inner |-> m, cyc |-> 1]
          [] OTHER -> [outer |-> 0, inner |-> r, cyc |-> 1]
  BY DEF Driver!LoopCounts
<1>1. m \in Nat \ {0} /\ m >= 2
  BY DEF Microcode
<1> HIDE DEF m
<1>2. w \in Nat /\ w >= m /\ w # 0
  BY <1>1
<1>3. CASE r >= w
  <2> DEFINE k == r \div w
  <2>1. Driver!LoopCounts(r) = [outer |-> m, inner |-> m, cyc |-> k]
    <3> HIDE DEF w
    <3>1. QED
      BY <1>0, <1>1, <1>2, <1>3
  <2> HIDE DEF w
  <2>2. k \in Nat /\ r % w \in 0 .. (w - 1) /\ r = k * w + (r % w)
    BY <1>2, DivMod
  <2> DEFINE z == r % w
  <2> HIDE DEF k, z
  <2>3. k # 0 /\ k * w <= r
    <3>1. k * w \in Nat /\ z \in Nat /\ z < w /\ r = k * w + z
      BY <1>2, <2>2 DEF z
    <3>2. k * w <= r
      BY <3>1
    <3>3. k # 0
      BY <1>2, <1>3, <3>1
    <3>4. QED
      BY <3>2, <3>3
  <2>4. (m * k) * m = k * w
    BY <1>1, <2>2 DEF w
  <2>5. QED
    BY <1>1, <2>1, <2>2, <2>3, <2>4 DEF m
<1>4. CASE r > m /\ r < w
  <2> DEFINE k == r \div m
  <2>1. Driver!LoopCounts(r) = [outer |-> k, inner |-> m, cyc |-> 1]
    <3> HIDE DEF w
    <3>1. QED
      BY <1>0, <1>1, <1>2, <1>4
  <2>2. k \in Nat /\ r % m \in 0 .. (m - 1) /\ r = k * m + (r % m)
    BY <1>1, DivMod
  <2> DEFINE z == r % m
  <2> HIDE DEF k, z
  <2>3. k * m \in Nat /\ k * m <= r /\ k # 0 /\ k <= m
    <3>1. k * m \in Nat /\ z \in Nat /\ z < m /\ r = k * m + z
      BY <1>1, <2>2 DEF z
    <3>2. k * m <= r
      BY <3>1
    <3>3. k # 0
      BY <1>1, <1>4, <3>1
    <3>4. k <= m
      <4>1. SUFFICES ASSUME k > m PROVE FALSE
        BY <1>1, <2>2
      <4>2. k * m >= m * m
        BY <1>1, <2>2, <4>1
      <4>3. QED
        BY <1>2, <1>4, <3>1, <3>2, <4>2
    <3>5. QED
      BY <3>1, <3>2, <3>3, <3>4
  <2>4. (m * 1) * k = k * m
    BY <1>1, <2>2
  <2>5. QED
    BY <1>1, <2>1, <2>2, <2>3, <2>4 DEF m
<1>5. CASE r <= m
  <2>0. ~(r >= w) \/ r = w
    BY <1>1, <1>2, <1>5
  <2>1. ~(r >= w)
    <3>1. w >= 2 * m
      BY <1>1
    <3>2. QED
      BY <1>1, <1>2, <1>5, <3>1
  <2>2. Driver!LoopCounts(r) = [outer |-> 0, inner |-> r, cyc |-> 1]
    <3> HIDE DEF w
    <3>1. QED
      BY <1>0, <1>1, <1>2, <1>5, <2>1
  <2>3. QED
    BY <1>1, <1>5, <2>2 DEF m
<1>6. QED
  BY <1>1, <1>2, <1>3, <1>4, <1>5

\* Each loop is of one of these shapes.
LEMMA LoopIs ==
  ASSUME Microcode, NEW r \in Nat \ {0}
  PROVE  /\ Driver!Loop(r).done \in 1 .. r
         /\ \E u, v \in 1 .. MaxIter, c \in Nat \ {0} : Shape(r, u, v, c)
<1>1. CASE r = 1
  <2>1. Driver!Loop(r).code = Driver!Burst /\ Driver!Loop(r).done = 1
    BY <1>1 DEF Driver!Loop
  <2>2. 1 \in 1 .. MaxIter /\ 1 \in Nat \ {0}
    BY DEF Microcode
  <2>3. Shape(r, 1, 1, 1)
    BY <1>1, <2>1 DEF Shape
  <2>4. QED
    BY <1>1, <2>1, <2>2, <2>3
<1>2. CASE r > 1
  <2> DEFINE q == Driver!LoopCounts(r)
             u == q.outer
             v == q.inner
             k == q.cyc
             c == Driver!Least(Driver!CycMax(u), k)
  <2>1. /\ u \in 0 .. MaxIter /\ v \in 1 .. MaxIter /\ q.cyc \in Nat \ {0}
        /\ u = 0 => q.cyc = 1 /\ v = r
        /\ u # 0 => (v * q.cyc) * u <= r
    BY <1>2, CountsAre
  <2>2. c \in Nat \ {0} /\ c <= k /\ c * BurstLen + (IF u > 0 THEN 8 ELSE 4) <= MaxJump /\ (k = 1 => c = 1)
    <3>1. u \in Nat /\ k \in Nat \ {0}
      BY <2>1 DEF Microcode
    <3> HIDE DEF q, u, k
    <3>2. QED
      BY <3>1, LeastIs
  <2>3. Driver!Loop(r) = IF u = 0 THEN [code |-> Plain(v, c), done |-> v * c]
                         ELSE [code |-> Nested(u, v, c), done |-> (v * c) * u]
    BY <1>2 DEF Driver!Loop, Plain, Nested
  <2> HIDE DEF q, u, v, c, k
  <2>4. c * BurstLen \in Nat
    BY <2>2 DEF BurstLen
  <2>5. CASE u = 0
    <3>1. v * c = r
      BY <2>1, <2>2, <2>5 DEF k
    <3>2. c * BurstLen <= MaxJump
      BY <2>2, <2>4, <2>5 DEF Microcode
    <3>3. Driver!Loop(r).code = Plain(v, c) /\ Driver!Loop(r).done = v * c
      BY <2>3, <2>5
    <3>4. Shape(r, 1, v, c) /\ 1 \in 1 .. MaxIter
      BY <3>2, <3>3 DEF Shape, Microcode
    <3>5. QED
      BY <2>1, <2>2, <3>1, <3>3, <3>4
  <2>6. CASE u # 0
    <3>1. u \in 1 .. MaxIter
      BY <2>1, <2>6 DEF Microcode
    <3>2. c * BurstLen + 4 <= MaxJump
      BY <2>2, <2>4, <3>1 DEF Microcode
    <3>3. Driver!Loop(r).code = Nested(u, v, c) /\ Driver!Loop(r).done = (v * c) * u
      BY <2>3, <2>6
    <3>4. (v * c) * u \in 1 .. r
      <4>1. u \in Nat \ {0} /\ v \in Nat \ {0} /\ c \in Nat \ {0} /\ k \in Nat \ {0} /\ c <= k /\ (v * k) * u <= r
        BY <2>1, <2>2, <2>6, <3>1 DEF k, Microcode
      <4> HIDE DEF k
      <4>2. v * c \in Nat \ {0} /\ v * k \in Nat /\ v * c <= v * k
        BY <4>1
      <4>3. \A x, y \in Nat : x <= y => x * u <= y * u
        BY <4>1
      <4>4. (v * c) * u <= (v * k) * u /\ (v * c) * u \in Nat \ {0} /\ (v * k) * u \in Nat
        BY <4>1, <4>2, <4>3
      <4>5. QED
        BY <4>1, <4>4
    <3>5. Shape(r, u, v, c)
      BY <3>2, <3>3 DEF Shape
    <3>6. QED
      BY <2>1, <2>2, <3>1, <3>3, <3>4, <3>5
  <2>7. QED
    BY <2>5, <2>6
<1>3. QED
  BY <1>1, <1>2

-----------------------------------------------------------------------------
(* The microcode of a transfer: its loops, one after the other              *)

\* The loops for b bursts, given those for fewer.
LoopsFrom(h, b) == IF b = 0 THEN <<>> ELSE Driver!Loop(b).code \o h[b - Driver!Loop(b).done]
LoopsOf(n) == CHOOSE h : h = [b \in 0 .. n |-> LoopsFrom(h, b)]

\* The code of a loop is of cells.
LEMMA CodeIs ==
  ASSUME Microcode, NEW r \in Nat \ {0}
  PROVE  Driver!Loop(r).code \in Seq(Cells)
<1>1. PICK u \in 1 .. MaxIter, v \in 1 .. MaxIter, c \in Nat \ {0} : Shape(r, u, v, c)
  BY LoopIs
<1>2. CASE Driver!Loop(r).code = Driver!Burst
  BY <1>2, BurstIs
<1>3. CASE Driver!Loop(r).code = Plain(v, c) /\ c * BurstLen <= MaxJump
  BY <1>3, PlainIs
<1>4. CASE Driver!Loop(r).code = Nested(u, v, c) /\ c * BurstLen + 4 <= MaxJump
  BY <1>4, NestedIs
<1>5. QED
  BY <1>1, <1>2, <1>3, <1>4 DEF Shape

\* There are loops for any number of bursts.
LEMMA LoopsExist ==
  ASSUME Microcode, NEW n \in Nat
  PROVE  \E h : h = [b \in 0 .. n |-> LoopsFrom(h, b)]
<1> DEFINE Upto(k, h) == \A b \in 0 .. k : h[b] = LoopsFrom(h, b)
           S == {k \in 0 .. n : \E h : Upto(k, h)}
<1>1. \A b \in 1 .. n : b - Driver!Loop(b).done \in 0 .. (b - 1)
  <2> SUFFICES ASSUME NEW b \in 1 .. n PROVE b - Driver!Loop(b).done \in 0 .. (b - 1)
    OBVIOUS
  <2>1. b \in Nat \ {0}
    OBVIOUS
  <2>2. Driver!Loop(b).done \in 1 .. b
    BY <2>1, LoopIs
  <2> DEFINE d == Driver!Loop(b).done
  <2> HIDE DEF d
  <2>3. d \in 1 .. b
    BY <2>2 DEF d
  <2>4. b - d \in 0 .. (b - 1)
    BY <2>1, <2>3
  <2>5. QED
    BY <2>4 DEF d
<1>2. 0 \in S
  <2> DEFINE h == [b \in 0 .. n |-> <<>>]
  <2>1. h[0] = <<>>
    OBVIOUS
  <2>2. Upto(0, h)
    BY <2>1 DEF LoopsFrom
  <2> HIDE DEF Upto, h
  <2>3. QED
    BY <2>2
<1>3. \A k \in S : k < n => k + 1 \in S
  <2> SUFFICES ASSUME NEW k \in S, k < n PROVE k + 1 \in S
    OBVIOUS
  <2>1. PICK h : Upto(k, h)
    OBVIOUS
  <2> DEFINE g == [b \in 0 .. n |-> IF b = k + 1 THEN LoopsFrom(h, b) ELSE h[b]]
  <2>2. k \in Nat /\ k + 1 \in 1 .. n
    OBVIOUS
  <2>3. ASSUME NEW b \in 0 .. (k + 1) PROVE g[b] = LoopsFrom(g, b)
    <3>1. b \in 0 .. n /\ g[b] = LoopsFrom(h, b)
      BY <2>1, <2>2
    <3>2. CASE b = 0
      BY <3>1, <3>2 DEF LoopsFrom
    <3>3. CASE b # 0
      <4> DEFINE d == b - Driver!Loop(b).done
      <4>1. d \in 0 .. (b - 1)
        BY <1>1, <3>1, <3>3
      <4> HIDE DEF d
      <4>2. d \in 0 .. n /\ d # k + 1
        BY <2>2, <4>1
      <4>3. g[d] = h[d]
        BY <4>2
      <4> HIDE DEF g
      <4>4. LoopsFrom(g, b) = Driver!Loop(b).code \o g[d] /\ LoopsFrom(h, b) = Driver!Loop(b).code \o h[d]
        BY <3>3 DEF LoopsFrom, d
      <4>5. QED
        BY <3>1, <4>3, <4>4
    <3>4. QED
      BY <3>2, <3>3
  <2> HIDE DEF g
  <2>4. Upto(k + 1, g)
    BY <2>3
  <2> HIDE DEF Upto
  <2>5. QED
    BY <2>2, <2>4
<1>4. n \in S
  <2> HIDE DEF S
  <2>1. S \in SUBSET (0 .. n)
    BY DEF S
  <2>2. S = 0 .. n
    BY <1>2, <1>3, <2>1, IntervalInduction
  <2>3. QED
    BY <2>2
<1>5. PICK h : Upto(n, h)
  BY <1>4
<1> DEFINE g == [b \in 0 .. n |-> LoopsFrom(h, b)]
<1>6. \A b \in 0 .. n : g[b] = h[b]
  BY <1>5
<1>7. ASSUME NEW b \in 0 .. n PROVE LoopsFrom(g, b) = LoopsFrom(h, b)
  <2>1. CASE b = 0
    BY <2>1 DEF LoopsFrom
  <2>2. CASE b # 0
    <3> DEFINE d == b - Driver!Loop(b).done
    <3>1. d \in 0 .. (b - 1)
      BY <1>1, <2>2
    <3> HIDE DEF d, g
    <3>2. d \in 0 .. n
      BY <3>1
    <3>3. g[d] = h[d]
      BY <1>6, <3>2
    <3>4. QED
      BY <2>2, <3>3 DEF LoopsFrom, d
  <2>3. QED
    BY <2>1, <2>2
<1>8. g = [b \in 0 .. n |-> LoopsFrom(g, b)]
  <2>1. [b \in 0 .. n |-> LoopsFrom(g, b)] = [b \in 0 .. n |-> LoopsFrom(h, b)]
    <3> HIDE DEF g
    <3>1. QED
      BY <1>7
  <2>2. QED
    BY <2>1
<1> HIDE DEF g
<1>9. QED
  BY <1>8

\* They are as they are generated, each followed by those for what it leaves.
LEMMA LoopsAre ==
  ASSUME Microcode, NEW n \in Nat
  PROVE  /\ LoopsOf(n)[0] = <<>>
         /\ \A b \in 1 .. n : /\ b - Driver!Loop(b).done \in 0 .. (b - 1) /\ Driver!Loop(b).done \in 1 .. b
                              /\ LoopsOf(n)[b] = Driver!Loop(b).code \o LoopsOf(n)[b - Driver!Loop(b).done]
         /\ \A b \in 0 .. n : LoopsOf(n)[b] \in Seq(Cells)
<1> DEFINE h == LoopsOf(n)
           S == {k \in 0 .. n : \A b \in 0 .. k : h[b] \in Seq(Cells)}
<1>1. h = [b \in 0 .. n |-> LoopsFrom(h, b)]
  BY LoopsExist DEF LoopsOf
<1> HIDE DEF h
<1>2. \A b \in 0 .. n : h[b] = LoopsFrom(h, b)
  BY <1>1
<1>3. h[0] = <<>>
  BY <1>2 DEF LoopsFrom
<1>4. ASSUME NEW b \in 1 .. n
      PROVE  /\ b - Driver!Loop(b).done \in 0 .. (b - 1) /\ Driver!Loop(b).done \in 1 .. b
             /\ h[b] = Driver!Loop(b).code \o h[b - Driver!Loop(b).done]
  <2>1. b \in Nat \ {0} /\ b \in 0 .. n
    OBVIOUS
  <2>2. Driver!Loop(b).done \in 1 .. b
    BY <2>1, LoopIs
  <2>3. h[b] = Driver!Loop(b).code \o h[b - Driver!Loop(b).done]
    BY <1>2, <2>1 DEF LoopsFrom
  <2> DEFINE d == Driver!Loop(b).done
  <2> HIDE DEF d
  <2>4. d \in 1 .. b
    BY <2>2 DEF d
  <2>5. b - d \in 0 .. (b - 1)
    BY <2>1, <2>4
  <2>6. QED
    BY <2>2, <2>3, <2>5 DEF d
<1>5. 0 \in S
  <2>1. <<>> \in Seq(Cells)
    OBVIOUS
  <2>2. \A b \in 0 .. 0 : h[b] \in Seq(Cells)
    <3>1. \A b \in 0 .. 0 : b = 0
      OBVIOUS
    <3>2. h[0] \in Seq(Cells)
      BY <1>3, <2>1
    <3>3. QED
      BY <3>1, <3>2
  <2>3. QED
    BY <2>2
<1>6. \A k \in S : k < n => k + 1 \in S
  <2> SUFFICES ASSUME NEW k \in S, k < n PROVE k + 1 \in S
    OBVIOUS
  <2>0. k + 1 \in 0 .. n /\ \A b \in 0 .. k : h[b] \in Seq(Cells)
    OBVIOUS
  <2> SUFFICES ASSUME NEW b \in 0 .. (k + 1) PROVE h[b] \in Seq(Cells)
    BY <2>0
  <2>1. CASE b \in 0 .. k
    BY <2>0, <2>1
  <2>2. CASE b = k + 1
    <3> DEFINE d == b - Driver!Loop(b).done
               c == Driver!Loop(b).code
    <3>1. b \in 1 .. n /\ b \in Nat \ {0} /\ b - 1 = k
      BY <2>2
    <3>2. d \in 0 .. (b - 1) /\ h[b] = c \o h[d]
      BY <1>4, <3>1
    <3>3. c \in Seq(Cells)
      BY <3>1, CodeIs
    <3> HIDE DEF d, c
    <3>4. h[d] \in Seq(Cells)
      BY <2>0, <3>1, <3>2
    <3>5. QED
      BY <3>2, <3>3, <3>4, CatIs
  <2>3. QED
    BY <2>1, <2>2
<1>7. n \in S
  <2> HIDE DEF S
  <2>1. S \in SUBSET (0 .. n)
    BY DEF S
  <2>2. S = 0 .. n
    BY <1>5, <1>6, <2>1, IntervalInduction
  <2>3. QED
    BY <2>2
<1>8. QED
  BY <1>3, <1>4, <1>7 DEF h

\* The program from byte o on is the loops for r bursts, and the event.
Follows(p, n, o, r) ==
  /\ \A k \in 1 .. Len(LoopsOf(n)[r]) : p[o + k] = LoopsOf(n)[r][k]
  /\ p[o + Len(LoopsOf(n)[r]) + 1].op = "SEV"

\* The program starts with three instructions of six bytes.
LEMMA ProgramIs ==
  ASSUME Microcode, NEW n \in Sizes
  PROVE  /\ Driver!Program[n][1].op = "MOV" /\ Driver!Program[n][7].op = "MOV" /\ Driver!Program[n][13].op = "MOV"
         /\ Follows(Driver!Program[n], n, 18, n)
<1> DEFINE m == Driver!MOV
           l == LoopsOf(n)[n]
           v == Driver!Emit("SEV", 2, 0, 0)
           e == Driver!Emit("END", 1, 0, 0)
           m2 == m \o m
           m3 == m2 \o m
           m4 == m3 \o l
           m5 == m4 \o v
           m6 == m5 \o e
<1>1. n \in Nat
  BY DEF Microcode
<1>2. Driver!Program[n] = m6
  <2>1. Driver!SetupReq(n) = m6
    BY DEF Driver!SetupReq, LoopsOf, LoopsFrom
  <2>2. Driver!Program[n] = Driver!SetupReq(n)
    BY DEF Driver!Program
  <2>3. QED
    BY <2>1, <2>2
<1>3. m \in Seq(Cells) /\ Len(m) = 6 /\ m[1].op = "MOV"
  <2>1. "MOV" \in Ops /\ 6 \in Nat \ {0} /\ 0 \in Nat
    BY DEF Ops
  <2>2. m \in Seq(Cells) /\ Len(m) = 6 /\ m[1] = [op |-> "MOV", loop |-> 0, arg |-> 0]
    <3>1. IsEmitted(m, "MOV", 6, 0, 0)
      BY <2>1, EmitIs DEF Driver!MOV
    <3>2. QED
      BY <3>1 DEF IsEmitted
  <2>3. QED
    BY <2>2
<1>4. v \in Seq(Cells) /\ Len(v) = 2 /\ v[1].op = "SEV"
  <2>1. "SEV" \in Ops /\ 2 \in Nat \ {0} /\ 0 \in Nat
    BY DEF Ops
  <2>2. v \in Seq(Cells) /\ Len(v) = 2 /\ v[1] = [op |-> "SEV", loop |-> 0, arg |-> 0]
    <3>1. IsEmitted(v, "SEV", 2, 0, 0)
      BY <2>1, EmitIs
    <3>2. QED
      BY <3>1 DEF IsEmitted
  <2>3. QED
    BY <2>2
<1>5. e \in Seq(Cells)
  <2>1. "END" \in Ops /\ 1 \in Nat \ {0} /\ 0 \in Nat
    BY DEF Ops
  <2>2. IsEmitted(e, "END", 1, 0, 0)
    BY <2>1, EmitIs
  <2>3. QED
    BY <2>2 DEF IsEmitted
<1>6. l \in Seq(Cells) /\ Len(l) \in Nat
  <2>1. n \in 0 .. n
    BY <1>1
  <2>2. l \in Seq(Cells)
    BY <1>1, <2>1, LoopsAre
  <2> HIDE DEF l
  <2>3. QED
    BY <2>2
<1> HIDE DEF m, l, v, e
<1>7. /\ m2 \in Seq(Cells) /\ Len(m2) = 12 /\ m2[1] = m[1] /\ m2[7] = m[1]
  <2>1. /\ m2 \in Seq(Cells) /\ Len(m2) = Len(m) + Len(m)
        /\ \A k \in 1 .. Len(m) : m2[k] = m[k]
        /\ \A k \in 1 .. Len(m) : m2[Len(m) + k] = m[k]
    BY <1>3, CatIs
  <2>2. QED
    BY <1>3, <2>1
<1> HIDE DEF m2
<1>8. /\ m3 \in Seq(Cells) /\ Len(m3) = 18 /\ m3[1] = m[1] /\ m3[7] = m[1] /\ m3[13] = m[1]
  <2>1. /\ m3 \in Seq(Cells) /\ Len(m3) = Len(m2) + Len(m)
        /\ \A k \in 1 .. Len(m2) : m3[k] = m2[k]
        /\ \A k \in 1 .. Len(m) : m3[Len(m2) + k] = m[k]
    BY <1>3, <1>7, CatIs
  <2>2. QED
    BY <1>3, <1>7, <2>1
<1> HIDE DEF m3
<1>9. /\ m4 \in Seq(Cells) /\ Len(m4) = 18 + Len(l) /\ \A k \in 1 .. 18 : m4[k] = m3[k]
      /\ \A k \in 1 .. Len(l) : m4[18 + k] = l[k]
  <2>1. /\ m4 \in Seq(Cells) /\ Len(m4) = Len(m3) + Len(l)
        /\ \A k \in 1 .. Len(m3) : m4[k] = m3[k]
        /\ \A k \in 1 .. Len(l) : m4[Len(m3) + k] = l[k]
    BY <1>6, <1>8, CatIs
  <2>2. QED
    BY <1>6, <1>8, <2>1
<1> HIDE DEF m4
<1>10. /\ m5 \in Seq(Cells) /\ Len(m5) = 20 + Len(l) /\ m5[18 + Len(l) + 1] = v[1]
       /\ \A k \in 1 .. (18 + Len(l)) : m5[k] = m4[k]
  <2>1. /\ m5 \in Seq(Cells) /\ Len(m5) = Len(m4) + Len(v)
        /\ \A k \in 1 .. Len(m4) : m5[k] = m4[k]
        /\ \A k \in 1 .. Len(v) : m5[Len(m4) + k] = v[k]
    BY <1>4, <1>9, CatIs
  <2>2. 1 \in 1 .. Len(v)
    BY <1>4
  <2>3. m5[Len(m4) + 1] = v[1]
    BY <2>1, <2>2
  <2>4. Len(m4) + Len(v) = 20 + Len(l)
    BY <1>4, <1>6, <1>9
  <2>5. QED
    BY <1>9, <2>1, <2>3, <2>4
<1> HIDE DEF m5
<1>11. \A k \in 1 .. (20 + Len(l)) : m6[k] = m5[k]
  BY <1>5, <1>10, CatIs
<1> HIDE DEF m6
<1>12. m6[1] = m[1] /\ m6[7] = m[1] /\ m6[13] = m[1]
  BY <1>6, <1>8, <1>9, <1>10, <1>11
<1>13. ASSUME NEW k \in 1 .. Len(l) PROVE m6[18 + k] = l[k]
  <2>1. 18 + k \in 1 .. (18 + Len(l)) /\ 18 + k \in 1 .. (20 + Len(l))
    BY <1>6
  <2>2. QED
    BY <1>9, <1>10, <1>11, <2>1
<1>14. m6[18 + Len(l) + 1].op = "SEV"
  <2>1. 18 + Len(l) + 1 \in 1 .. (20 + Len(l))
    BY <1>6
  <2>2. QED
    BY <1>4, <1>10, <1>11, <2>1
<1>15. QED
  BY <1>2, <1>3, <1>12, <1>13, <1>14 DEF Follows, l

\* After a loop come those for what it leaves.
LEMMA FollowsOn ==
  ASSUME Microcode, NEW n \in Sizes, NEW p, NEW o \in Nat, NEW r \in 1 .. n, Follows(p, n, o, r)
  PROVE  /\ r \in Nat \ {0} /\ Driver!Loop(r).code \in Seq(Cells) /\ Len(Driver!Loop(r).code) \in Nat
         /\ \A k \in 1 .. Len(Driver!Loop(r).code) : p[o + k] = Driver!Loop(r).code[k]
         /\ r - Driver!Loop(r).done \in 0 .. n /\ Driver!Loop(r).done \in 1 .. r
         /\ Follows(p, n, o + Len(Driver!Loop(r).code), r - Driver!Loop(r).done)
<1> DEFINE c == Driver!Loop(r).code
           d == r - Driver!Loop(r).done
           l == LoopsOf(n)[r]
           t == LoopsOf(n)[d]
<1>1. n \in Nat /\ r \in Nat \ {0} /\ r \in 0 .. n
  BY DEF Microcode
<1>2. c \in Seq(Cells) /\ Len(c) \in Nat
  BY <1>1, CodeIs
<1>3. d \in 0 .. (r - 1) /\ Driver!Loop(r).done \in 1 .. r /\ l = c \o t /\ \A b \in 0 .. n : LoopsOf(n)[b] \in Seq(Cells)
  BY <1>1, LoopsAre
<1> HIDE DEF c, l, d
<1>4. d \in 0 .. n
  BY <1>1, <1>3
<1>5. t \in Seq(Cells)
  BY <1>3, <1>4
<1> HIDE DEF t
<1>6. /\ Len(l) = Len(c) + Len(t) /\ Len(t) \in Nat
      /\ \A k \in 1 .. Len(c) : l[k] = c[k]
      /\ \A k \in 1 .. Len(t) : l[Len(c) + k] = t[k]
  BY <1>2, <1>3, <1>5, CatIs
<1>7. (\A k \in 1 .. Len(l) : p[o + k] = l[k]) /\ p[o + Len(l) + 1].op = "SEV"
  BY DEF Follows, l
<1>8. \A k \in 1 .. Len(c) : p[o + k] = c[k]
  BY <1>2, <1>6, <1>7
<1>9. ASSUME NEW k \in 1 .. Len(t) PROVE p[(o + Len(c)) + k] = t[k]
  <2>1. Len(c) + k \in 1 .. Len(l) /\ o + (Len(c) + k) = (o + Len(c)) + k
    BY <1>2, <1>6
  <2>2. QED
    BY <1>6, <1>7, <2>1
<1>10. (o + Len(c)) + Len(t) + 1 = o + Len(l) + 1
  BY <1>2, <1>6
<1>11. Follows(p, n, o + Len(c), d)
  BY <1>7, <1>9, <1>10 DEF Follows, t
<1>12. QED
  BY <1>1, <1>2, <1>3, <1>4, <1>8, <1>11 DEF c, d

-----------------------------------------------------------------------------
(* A thread in a loop                                                       *)

\* An instruction of a loop moves a thread: its place, its loop counters and what it copied.
Moves(i, k, lc, x, k2, lc2, x2) ==
  \/ i.op \in {"LD", "RMB", "WMB"} /\ k2 = k + 1 /\ lc2 = lc /\ x2 = x
  \/ i.op = "ST" /\ k2 = k + 1 /\ lc2 = lc /\ x2 = x + 1
  \/ i.op = "LP" /\ k2 = k + 2 /\ lc2 = [lc EXCEPT ![i.loop + 1] = i.arg] /\ x2 = x
  \/ /\ i.op = "LPEND" /\ x2 = x
     /\ IF lc[i.loop + 1] = 0 THEN k2 = k + 2 /\ lc2 = lc
        ELSE k2 = k - i.arg /\ lc2 = [lc EXCEPT ![i.loop + 1] = @ - 1]

\* An instruction of a loop, which jumps back if it jumps.
IsLoop(i) == i.op \in {"LD", "RMB", "WMB", "ST", "LP", "LPEND"} /\ (i.op = "LPEND" => i.arg \in Nat)

\* Where a thread may be in a loop, and what it has copied in it.
InPlain(v, c, k, j, y) ==
  \/ k = 1 /\ y = 0
  \/ \E b \in 0 .. (v - 1) : /\ j = v - 1 - b /\ k - 3 \in 0 .. (c * BurstLen)
                             /\ y = b * c + Unrolled(k - 3)

PlainEnds(v, c, k, y) == k = c * BurstLen + 5 /\ y = v * c

InNested(u, v, c, k, lc, x) ==
  \/ k = 1 /\ x = 0
  \/ \E a \in 0 .. (u - 1) :
       /\ lc[1] = u - 1 - a
       /\ \/ InPlain(v, c, k - 2, lc[2], x - a * (v * c))
          \/ k = c * BurstLen + 7 /\ x = (a + 1) * (v * c)

NestedEnds(u, v, c, k, x) == k = c * BurstLen + 9 /\ x = (v * c) * u

InLoop(r, k, lc, x) ==
  \/ /\ Driver!Loop(r).code = Driver!Burst /\ Driver!Loop(r).done = 1
     /\ k - 1 \in 0 .. (BurstLen - 1) /\ x = Unrolled(k - 1)
  \/ \E v \in 1 .. MaxIter, c \in Nat \ {0} :
       /\ Driver!Loop(r).code = Plain(v, c) /\ c * BurstLen <= MaxJump
       /\ Driver!Loop(r).done = v * c /\ InPlain(v, c, k, lc[2], x)
  \/ \E u, v \in 1 .. MaxIter, c \in Nat \ {0} :
       /\ Driver!Loop(r).code = Nested(u, v, c) /\ c * BurstLen + 4 <= MaxJump
       /\ Driver!Loop(r).done = (v * c) * u /\ InNested(u, v, c, k, lc, x)

\* An instruction of unrolled bursts.
LEMMA BurstMoves ==
  ASSUME NEW i, NEW k \in Nat, IsBurst(i, k), NEW z \in Int, NEW lc, NEW x \in Int,
         NEW z2, NEW lc2, NEW x2, Moves(i, z, lc, x, z2, lc2, x2)
  PROVE  z2 = z + 1 /\ lc2 = lc /\ x2 = x + (Unrolled(k + 1) - Unrolled(k))
<1>1. Unrolled(k) \in Nat /\ Unrolled(k + 1) = IF k % BurstLen = StoreAt THEN Unrolled(k) + 1 ELSE Unrolled(k)
  BY UnrolledIs
<1>2. CASE k % BurstLen = StoreAt
  <2>1. i.op = "ST"
    BY <1>2 DEF IsBurst
  <2>2. z2 = z + 1 /\ lc2 = lc /\ x2 = x + 1
    BY <2>1 DEF Moves
  <2>3. QED
    BY <1>1, <1>2, <2>2
<1>3. CASE k % BurstLen # StoreAt
  <2>1. i.op \in {"LD", "RMB", "WMB"}
    BY <1>3 DEF IsBurst
  <2>2. z2 = z + 1 /\ lc2 = lc /\ x2 = x
    BY <2>1 DEF Moves
  <2>3. QED
    BY <1>1, <1>3, <2>2
<1>4. QED
  BY <1>2, <1>3

\* A thread in a loop is at an instruction of it.
LEMMA PlainCell ==
  ASSUME Microcode, NEW v \in 1 .. MaxIter, NEW c \in Nat \ {0}, c * BurstLen <= MaxJump,
         NEW k \in Int, NEW j, NEW y, InPlain(v, c, k, j, y)
  PROVE  k \in 1 .. (c * BurstLen + 4) /\ IsLoop(Plain(v, c)[k])
<1> DEFINE p == Plain(v, c)
           z == c * BurstLen
<1>1. /\ z \in Nat \ {0} /\ p[1] = Instr("LP", 1, v - 1) /\ p[z + 3] = Instr("LPEND", 1, z)
      /\ \A b \in 0 .. (z - 1) : IsBurst(p[b + 3], b)
  BY PlainIs
<1>2. k = 1 \/ k - 3 \in 0 .. z
  BY DEF InPlain
<1> HIDE DEF p, z
<1>3. CASE k = 1
  BY <1>1, <1>3 DEF IsLoop, Instr, p, z
<1>4. CASE k = z + 3
  BY <1>1, <1>4 DEF IsLoop, Instr, p, z
<1>5. CASE k - 3 \in 0 .. (z - 1)
  <2> DEFINE b == k - 3
  <2>1. b \in 0 .. (z - 1) /\ b + 3 = k
    BY <1>5
  <2> HIDE DEF b
  <2>2. IsBurst(p[k], b)
    BY <1>1, <2>1
  <2>3. p[k].op \in {"LD", "RMB", "ST", "WMB"}
    BY <2>2 DEF IsBurst
  <2>4. k \in 1 .. (z + 4)
    BY <1>1, <1>5
  <2>5. QED
    BY <2>3, <2>4 DEF IsLoop, p, z
<1>6. QED
  BY <1>1, <1>2, <1>3, <1>4, <1>5

PlainNext(v, c, lc, k2, lc2, x2) ==
  /\ k2 \in Int /\ x2 \in Int /\ lc2 \in [1 .. 2 -> Nat] /\ lc2[1] = lc[1]
  /\ InPlain(v, c, k2, lc2[2], x2) \/ PlainEnds(v, c, k2, x2)

\* A thread in a loop stays in it until it has copied all of it.
LEMMA PlainMoves ==
  ASSUME Microcode, NEW v \in 1 .. MaxIter, NEW c \in Nat \ {0}, c * BurstLen <= MaxJump,
         NEW k \in Int, NEW lc \in [1 .. 2 -> Nat], NEW x \in Int, NEW k2, NEW lc2, NEW x2,
         InPlain(v, c, k, lc[2], x), Moves(Plain(v, c)[k], k, lc, x, k2, lc2, x2)
  PROVE  PlainNext(v, c, lc, k2, lc2, x2)
<1> DEFINE p == Plain(v, c)
           z == c * BurstLen
<1>1. /\ z \in Nat \ {0} /\ p[1] = Instr("LP", 1, v - 1) /\ p[z + 3] = Instr("LPEND", 1, z)
      /\ \A y \in 0 .. (z - 1) : IsBurst(p[y + 3], y)
  BY PlainIs
<1>2. v \in Nat \ {0} /\ v - 1 \in Nat
  BY DEF Microcode
<1>3. Unrolled(0) = 0 /\ Unrolled(z) = c /\ \A y \in Nat : Unrolled(y) \in Nat
  BY UnrolledIs
<1>4. Moves(p[k], k, lc, x, k2, lc2, x2)
  OBVIOUS
<1> HIDE DEF p, z
<1>5. CASE k = 1 /\ x = 0
  <2>1. k2 = k + 2 /\ lc2 = [lc EXCEPT ![2] = v - 1] /\ x2 = x
    <3> DEFINE i == p[1]
               a == v - 1
    <3>1. i.op = "LP" /\ i.loop = 1 /\ i.arg = a /\ Moves(i, k, lc, x, k2, lc2, x2)
      BY <1>1, <1>4, <1>5 DEF Instr
    <3> HIDE DEF i, a
    <3>2. k2 = k + 2 /\ lc2 = [lc EXCEPT ![2] = a] /\ x2 = x
      BY <3>1 DEF Moves
    <3>3. QED
      BY <3>2 DEF a
  <2>2. k2 = 3 /\ lc2[2] = v - 1 /\ lc2 \in [1 .. 2 -> Nat] /\ lc2[1] = lc[1] /\ x2 = 0
    BY <1>2, <1>5, <2>1
  <2>3. 0 \in 0 .. (v - 1) /\ lc2[2] = v - 1 - 0 /\ k2 - 3 \in 0 .. z /\ x2 = 0 * c + Unrolled(k2 - 3)
    <3>1. k2 - 3 = 0 /\ 0 * c = 0
      BY <2>2
    <3>2. QED
      BY <1>1, <1>2, <1>3, <2>2, <3>1
  <2>4. InPlain(v, c, k2, lc2[2], x2)
    BY <2>3 DEF InPlain, z
  <2>5. k2 \in Int /\ x2 \in Int
    BY <2>2
  <2>6. QED
    BY <2>2, <2>4, <2>5 DEF PlainNext
<1>6. ASSUME NEW b \in 0 .. (v - 1), lc[2] = v - 1 - b, k - 3 \in 0 .. z, x = b * c + Unrolled(k - 3)
      PROVE  /\ k2 \in Int /\ x2 \in Int /\ lc2 \in [1 .. 2 -> Nat] /\ lc2[1] = lc[1]
             /\ InPlain(v, c, k2, lc2[2], x2) \/ (k2 = z + 5 /\ x2 = v * c)
  <2>0. b * c \in Nat /\ b \in Nat
    <3>1. b \in Nat
      OBVIOUS
    <3>2. QED
      BY <3>1
  <2>1. CASE k - 3 # z
    <3> DEFINE y == k - 3
    <3>1. y \in 0 .. (z - 1) /\ y + 3 = k /\ y \in Nat /\ y + 1 \in 0 .. z
      BY <1>1, <1>6, <2>1
    <3> HIDE DEF y
    <3>2. IsBurst(p[k], y)
      BY <1>1, <3>1
    <3>3. k2 = k + 1 /\ lc2 = lc /\ x2 = x + (Unrolled(y + 1) - Unrolled(y))
      BY <1>4, <3>1, <3>2, BurstMoves
    <3>4. Unrolled(y) \in Nat /\ Unrolled(y + 1) \in Nat
      BY <1>3, <3>1
    <3>5. k2 - 3 = y + 1
      BY <3>1, <3>3
    <3>6. x2 = b * c + Unrolled(k2 - 3)
      <4> DEFINE f == b * c
      <4>1. x = f + Unrolled(y) /\ f \in Nat
        BY <1>6, <2>0 DEF y
      <4> HIDE DEF f
      <4>2. x2 = f + Unrolled(y + 1)
        BY <3>3, <3>4, <4>1
      <4>3. QED
        BY <3>5, <4>2 DEF f
    <3>7. InPlain(v, c, k2, lc2[2], x2)
      BY <1>6, <3>1, <3>3, <3>5, <3>6 DEF InPlain, z
    <3>8. x2 \in Int
      BY <3>3, <3>4
    <3>9. QED
      BY <3>3, <3>7, <3>8
  <2>2. CASE k - 3 = z
    <3>1. k = z + 3 /\ x = (b + 1) * c
      <4>1. x = b * c + c /\ k = z + 3
        BY <1>1, <1>3, <1>6, <2>2
      <4>2. (b + 1) * c = b * c + c
        BY <2>0
      <4>3. QED
        BY <4>1, <4>2
    <3> DEFINE i == p[z + 3]
    <3>2. i.op = "LPEND" /\ i.loop = 1 /\ i.arg = z /\ Moves(i, k, lc, x, k2, lc2, x2)
      BY <1>1, <1>4, <3>1 DEF Instr
    <3> HIDE DEF i
    <3>3. /\ x2 = x
          /\ lc[2] = 0 => k2 = k + 2 /\ lc2 = lc
          /\ lc[2] # 0 => k2 = k - z /\ lc2 = [lc EXCEPT ![2] = lc[2] - 1]
      BY <3>2 DEF Moves
    <3>4. x2 \in Int
      BY <3>3
    <3>5. CASE lc[2] = 0
      <4>1. b + 1 = v /\ k2 = z + 5 /\ lc2 = lc
        BY <1>1, <1>2, <1>6, <3>1, <3>3, <3>5
      <4>2. x2 = v * c
        BY <3>1, <3>3, <4>1
      <4>3. QED
        BY <1>1, <3>4, <4>1, <4>2
    <3>6. CASE lc[2] # 0
      <4>1. k2 = 3 /\ lc2 = [lc EXCEPT ![2] = lc[2] - 1]
        BY <1>1, <3>1, <3>3, <3>6
      <4>2. lc2[2] = lc[2] - 1 /\ lc2[1] = lc[1] /\ lc2 \in [1 .. 2 -> Nat]
        BY <3>6, <4>1
      <4>3. b + 1 \in 0 .. (v - 1) /\ lc2[2] = v - 1 - (b + 1)
        BY <1>2, <1>6, <3>6, <4>2
      <4>4. k2 - 3 \in 0 .. z /\ x2 = (b + 1) * c + Unrolled(k2 - 3)
        <5> DEFINE f == (b + 1) * c
        <5>1. x2 = f /\ k2 - 3 = 0 /\ f \in Int
          BY <2>0, <3>1, <3>3, <4>1
        <5> HIDE DEF f
        <5>2. x2 = f + Unrolled(k2 - 3)
          BY <1>3, <5>1
        <5>3. QED
          BY <1>1, <5>1, <5>2 DEF f
      <4>5. InPlain(v, c, k2, lc2[2], x2)
        BY <4>3, <4>4 DEF InPlain, z
      <4>6. QED
        BY <3>4, <4>1, <4>2, <4>5
    <3>7. QED
      BY <3>5, <3>6
  <2>3. QED
    BY <2>1, <2>2
<1>7. QED
  BY <1>5, <1>6 DEF InPlain, PlainEnds, PlainNext, p, z

\* The same move, seen from another place.
LEMMA Shifted ==
  ASSUME NEW i, IsLoop(i), NEW k \in Int, NEW lc, NEW x \in Int, NEW k2, NEW lc2, NEW x2, Moves(i, k, lc, x, k2, lc2, x2),
         NEW o \in Int, NEW w \in Int
  PROVE  k2 \in Int /\ x2 \in Int /\ Moves(i, k - o, lc, x - w, k2 - o, lc2, x2 - w)
<1>1. CASE i.op \in {"LD", "RMB", "WMB"}
  <2>1. k2 = k + 1 /\ lc2 = lc /\ x2 = x
    BY <1>1 DEF Moves
  <2>2. QED
    BY <1>1, <2>1 DEF Moves
<1>2. CASE i.op = "ST"
  <2>1. k2 = k + 1 /\ lc2 = lc /\ x2 = x + 1
    BY <1>2 DEF Moves
  <2>2. k2 - o = (k - o) + 1 /\ x2 - w = (x - w) + 1 /\ k2 \in Int /\ x2 \in Int
    BY <2>1
  <2>3. QED
    BY <1>2, <2>1, <2>2 DEF Moves
<1>3. CASE i.op = "LP"
  <2>1. k2 = k + 2 /\ lc2 = [lc EXCEPT ![i.loop + 1] = i.arg] /\ x2 = x
    BY <1>3 DEF Moves
  <2>2. k2 - o = (k - o) + 2 /\ k2 \in Int /\ x2 \in Int /\ x2 - w = x - w
    BY <2>1
  <2>3. QED
    BY <1>3, <2>1, <2>2 DEF Moves
<1>4. CASE i.op = "LPEND"
  <2>1. /\ x2 = x
        /\ IF lc[i.loop + 1] = 0 THEN k2 = k + 2 /\ lc2 = lc
           ELSE k2 = k - i.arg /\ lc2 = [lc EXCEPT ![i.loop + 1] = @ - 1]
    BY <1>4 DEF Moves
  <2>2. i.arg \in Nat
    BY <1>4 DEF IsLoop
  <2>3. /\ x2 - w = x - w /\ k2 \in Int /\ x2 \in Int
        /\ IF lc[i.loop + 1] = 0 THEN k2 - o = (k - o) + 2 /\ lc2 = lc
           ELSE k2 - o = (k - o) - i.arg /\ lc2 = [lc EXCEPT ![i.loop + 1] = @ - 1]
    BY <2>1, <2>2
  <2>4. QED
    BY <1>4, <2>3 DEF Moves
<1>5. QED
  BY <1>1, <1>2, <1>3, <1>4 DEF IsLoop

\* A thread in two loops is at an instruction of them.
LEMMA NestedCell ==
  ASSUME Microcode, NEW u \in 1 .. MaxIter, NEW v \in 1 .. MaxIter, NEW c \in Nat \ {0}, c * BurstLen + 4 <= MaxJump,
         NEW k \in Int, NEW lc, NEW x \in Int, InNested(u, v, c, k, lc, x)
  PROVE  k \in 1 .. (c * BurstLen + 8) /\ IsLoop(Nested(u, v, c)[k])
<1> DEFINE p == Nested(u, v, c)
           z == c * BurstLen
<1>1. /\ z \in Nat \ {0} /\ p[1] = Instr("LP", 0, u - 1) /\ p[z + 7] = Instr("LPEND", 0, z + 4)
      /\ \A b \in 1 .. (z + 4) : p[b + 2] = Plain(v, c)[b]
  BY NestedIs
<1>2. z <= MaxJump
  BY <1>1 DEF Microcode
<1>3. ASSUME NEW b \in Int, b = k - 2, NEW j, NEW y, InPlain(v, c, b, j, y)
      PROVE  k \in 1 .. (z + 8) /\ IsLoop(p[k])
  <2>1. b \in 1 .. (z + 4) /\ IsLoop(Plain(v, c)[b])
    BY <1>2, <1>3, PlainCell
  <2> HIDE DEF p, z
  <2>2. k = b + 2 /\ k \in 1 .. (z + 8)
    BY <1>1, <1>3, <2>1
  <2>3. QED
    BY <1>1, <2>1, <2>2
<1> HIDE DEF p, z
<1>4. CASE k = 1
  BY <1>1, <1>4 DEF IsLoop, Instr, p, z
<1>5. CASE k = z + 7
  <2>1. p[k].op = "LPEND" /\ p[k].arg \in Nat
    BY <1>1, <1>5 DEF Instr
  <2>2. k \in 1 .. (z + 8)
    BY <1>1, <1>5
  <2>3. QED
    BY <2>1, <2>2 DEF IsLoop, p, z
<1>6. ASSUME NEW a \in 0 .. (u - 1), InPlain(v, c, k - 2, lc[2], x - a * (v * c))
      PROVE  k \in 1 .. (z + 8) /\ IsLoop(p[k])
  <2> DEFINE b == k - 2
  <2>1. b \in Int /\ b = k - 2
    OBVIOUS
  <2> HIDE DEF b
  <2>2. InPlain(v, c, b, lc[2], x - a * (v * c))
    BY <1>6, <2>1
  <2>3. QED
    BY <1>3, <2>1, <2>2
<1>7. QED
  BY <1>4, <1>5, <1>6 DEF InNested, p, z

\* A thread in two loops stays in them until it has copied all of them.
LEMMA NestedMoves ==
  ASSUME Microcode, NEW u \in 1 .. MaxIter, NEW v \in 1 .. MaxIter, NEW c \in Nat \ {0}, c * BurstLen + 4 <= MaxJump,
         NEW k \in Int, NEW lc \in [1 .. 2 -> Nat], NEW x \in Int, NEW k2, NEW lc2, NEW x2,
         InNested(u, v, c, k, lc, x), Moves(Nested(u, v, c)[k], k, lc, x, k2, lc2, x2)
  PROVE  /\ k2 \in Int /\ x2 \in Int /\ lc2 \in [1 .. 2 -> Nat]
         /\ InNested(u, v, c, k2, lc2, x2) \/ NestedEnds(u, v, c, k2, x2)
<1> DEFINE p == Nested(u, v, c)
           z == c * BurstLen
           d == v * c
           Goal == /\ k2 \in Int /\ x2 \in Int /\ lc2 \in [1 .. 2 -> Nat]
                   /\ InNested(u, v, c, k2, lc2, x2) \/ (k2 = z + 9 /\ x2 = d * u)
<1>1. /\ z \in Nat \ {0} /\ p[1] = Instr("LP", 0, u - 1) /\ p[z + 7] = Instr("LPEND", 0, z + 4)
      /\ \A b \in 1 .. (z + 4) : p[b + 2] = Plain(v, c)[b]
  <2>1. z \in Nat \ {0} /\ p[1] = Instr("LP", 0, u - 1) /\ p[z + 7] = Instr("LPEND", 0, z + 4)
    BY NestedIs
  <2>2. \A b \in 1 .. (z + 4) : p[b + 2] = Plain(v, c)[b]
    BY NestedIs
  <2>3. QED
    BY <2>1, <2>2
<1>2. z <= MaxJump /\ u \in Nat \ {0} /\ v \in Nat \ {0} /\ d \in Nat
  BY <1>1 DEF Microcode
<1>3. k \in 1 .. (z + 8) /\ IsLoop(p[k])
  BY NestedCell
<1>4. Moves(p[k], k, lc, x, k2, lc2, x2)
  OBVIOUS
<1>0. \/ k = 1 /\ x = 0
      \/ \E a \in 0 .. (u - 1) :
           /\ lc[1] = u - 1 - a
           /\ InPlain(v, c, k - 2, lc[2], x - a * d) \/ (k = z + 7 /\ x = (a + 1) * d)
  BY DEF InNested
<1>5. \A a \in 0 .. (u - 1) : \A k3 \in Int, x3 \in Int :
        /\ lc2[1] = u - 1 - a
        /\ InPlain(v, c, k3 - 2, lc2[2], x3 - a * d) \/ (k3 = z + 7 /\ x3 = (a + 1) * d)
        => InNested(u, v, c, k3, lc2, x3)
  BY DEF InNested
<1>6. \A j : InPlain(v, c, 1, j, 0)
  BY DEF InPlain
<1> HIDE DEF p, z, d, Goal
<1>7. ASSUME k = 1, x = 0 PROVE Goal
  <2> DEFINE i == p[1]
             a == u - 1
  <2>1. i.op = "LP" /\ i.loop = 0 /\ i.arg = a /\ Moves(i, k, lc, x, k2, lc2, x2) /\ a \in Nat
    BY <1>1, <1>2, <1>4, <1>7 DEF Instr
  <2> HIDE DEF i, a
  <2>2. k2 = k + 2 /\ lc2 = [lc EXCEPT ![1] = a] /\ x2 = x
    BY <2>1 DEF Moves
  <2>3. k2 = 3 /\ lc2[1] = u - 1 - 0 /\ lc2 \in [1 .. 2 -> Nat] /\ x2 = 0 /\ 0 \in 0 .. (u - 1)
    BY <1>2, <1>7, <2>1, <2>2 DEF a
  <2>4. k2 - 2 = 1 /\ x2 - 0 * d = 0
    BY <1>2, <2>3
  <2>5. InPlain(v, c, k2 - 2, lc2[2], x2 - 0 * d)
    BY <1>6, <2>4
  <2>6. k2 \in Int /\ x2 \in Int
    BY <2>3
  <2>7. InNested(u, v, c, k2, lc2, x2)
    BY <1>5, <2>3, <2>5, <2>6
  <2>8. QED
    BY <2>3, <2>6, <2>7 DEF Goal
<1>8. ASSUME NEW a \in 0 .. (u - 1), lc[1] = u - 1 - a, InPlain(v, c, k - 2, lc[2], x - a * d)
      PROVE  Goal
  <2> DEFINE w == a * d
             b == k - 2
             y == x - w
             i == Plain(v, c)[b]
  <2>1. w \in Nat /\ a \in Nat
    BY <1>2
  <2>2. b \in Int /\ y \in Int /\ b + 2 = k
    BY <2>1
  <2>3. InPlain(v, c, b, lc[2], y)
    BY <1>8
  <2> HIDE DEF w, b, y
  <2>4. b \in 1 .. (z + 4) /\ IsLoop(Plain(v, c)[b])
    BY <1>2, <2>2, <2>3, PlainCell DEF z
  <2>5. p[k] = i
    BY <1>1, <2>2, <2>4
  <2> HIDE DEF i
  <2>6. IsLoop(i) /\ Moves(i, k, lc, x, k2, lc2, x2)
    BY <1>3, <1>4, <2>5
  <2>7. k2 \in Int /\ x2 \in Int /\ Moves(i, k - 2, lc, x - w, k2 - 2, lc2, x2 - w)
    BY <2>1, <2>6, Shifted
  <2> DEFINE b2 == k2 - 2
             y2 == x2 - w
  <2>8. Moves(i, b, lc, y, b2, lc2, y2)
    BY <2>7 DEF b, y
  <2> HIDE DEF b2, y2
  <2>9. /\ lc2 \in [1 .. 2 -> Nat] /\ lc2[1] = lc[1]
        /\ InPlain(v, c, b2, lc2[2], y2) \/ (b2 = z + 5 /\ y2 = d)
    <3>1. c * BurstLen <= MaxJump /\ Moves(Plain(v, c)[b], b, lc, y, b2, lc2, y2)
      BY <1>2, <2>8 DEF i, z
    <3>2. PlainNext(v, c, lc, b2, lc2, y2)
      BY <2>2, <2>3, <3>1, PlainMoves
    <3>3. QED
      BY <3>2 DEF PlainNext, PlainEnds, z, d
  <2>10. CASE InPlain(v, c, b2, lc2[2], y2)
    <3>1. InPlain(v, c, k2 - 2, lc2[2], x2 - a * d)
      BY <2>10 DEF b2, y2, w
    <3>2. InNested(u, v, c, k2, lc2, x2)
      BY <1>5, <1>8, <2>7, <2>9, <3>1
    <3>3. QED
      BY <2>7, <2>9, <3>2 DEF Goal
  <2>11. CASE b2 = z + 5 /\ y2 = d
    <3>1. k2 = z + 7
      BY <1>1, <2>7, <2>11 DEF b2
    <3>2. x2 = w + d
      BY <1>2, <2>1, <2>7, <2>11 DEF y2
    <3>3. (a + 1) * d = a * d + d
      BY <1>2, <2>1
    <3>4. x2 = (a + 1) * d
      BY <3>2, <3>3 DEF w
    <3>5. InNested(u, v, c, k2, lc2, x2)
      BY <1>5, <1>8, <2>7, <2>9, <3>1, <3>4
    <3>6. QED
      BY <2>7, <2>9, <3>5 DEF Goal
  <2>12. QED
    BY <2>9, <2>10, <2>11
<1>9. ASSUME NEW a \in 0 .. (u - 1), lc[1] = u - 1 - a, k = z + 7, x = (a + 1) * d
      PROVE  Goal
  <2> DEFINE i == p[z + 7]
             t == z + 4
  <2>1. i.op = "LPEND" /\ i.loop = 0 /\ i.arg = t /\ Moves(i, k, lc, x, k2, lc2, x2) /\ t \in Nat
    BY <1>1, <1>4, <1>9 DEF Instr
  <2> HIDE DEF i, t
  <2>2. /\ x2 = x
        /\ lc[1] = 0 => k2 = k + 2 /\ lc2 = lc
        /\ lc[1] # 0 => k2 = k - t /\ lc2 = [lc EXCEPT ![1] = lc[1] - 1]
    BY <2>1 DEF Moves
  <2>3. CASE lc[1] = 0
    <3>1. a + 1 = u /\ k2 = z + 9 /\ lc2 = lc /\ x2 = (a + 1) * d
      BY <1>1, <1>2, <1>9, <2>2, <2>3
    <3>2. x2 = u * d
      BY <3>1
    <3>3. u * d = d * u
      BY <1>2
    <3>4. k2 \in Int /\ x2 \in Int
      BY <1>1, <2>2, <3>1
    <3>5. QED
      BY <3>1, <3>2, <3>3, <3>4 DEF Goal
  <2>4. CASE lc[1] # 0
    <3>1. k2 = 3
      BY <1>1, <1>9, <2>2, <2>4 DEF t
    <3>2. lc2[1] = lc[1] - 1 /\ lc2 \in [1 .. 2 -> Nat]
      BY <2>2, <2>4
    <3>3. a + 1 \in 0 .. (u - 1) /\ lc2[1] = u - 1 - (a + 1)
      BY <1>2, <1>9, <2>4, <3>2
    <3> DEFINE f == (a + 1) * d
    <3>4. x2 = f /\ f \in Int
      <4>1. a + 1 \in Int /\ d \in Int
        BY <1>2
      <4>2. QED
        BY <1>9, <2>2, <4>1
    <3> HIDE DEF f
    <3>5. k2 - 2 = 1 /\ x2 - f = 0 /\ k2 \in Int /\ x2 \in Int
      BY <3>1, <3>4
    <3>6. InPlain(v, c, k2 - 2, lc2[2], x2 - (a + 1) * d)
      BY <1>6, <3>5 DEF f
    <3>7. InNested(u, v, c, k2, lc2, x2)
      BY <1>5, <3>3, <3>5, <3>6
    <3>8. QED
      BY <3>2, <3>5, <3>7 DEF Goal
  <2>5. QED
    BY <2>3, <2>4
<1>10. Goal
  BY <1>0, <1>7, <1>8, <1>9
<1>11. QED
  BY <1>10 DEF Goal, NestedEnds, z, d

LoopEnds(r, k, x) == k = Len(Driver!Loop(r).code) + 1 /\ x = Driver!Loop(r).done

\* A thread begins a loop in it.
LEMMA LoopBegins ==
  ASSUME Microcode, NEW r \in Nat \ {0}, NEW lc
  PROVE  InLoop(r, 1, lc, 0)
<1>1. PICK u \in 1 .. MaxIter, v \in 1 .. MaxIter, c \in Nat \ {0} : Shape(r, u, v, c)
  BY LoopIs
<1>2. CASE r = 1 /\ Driver!Loop(r).code = Driver!Burst /\ Driver!Loop(r).done = 1
  <2>1. Unrolled(0) = 0 /\ BurstLen \in {2, 4}
    BY UnrolledIs DEF BurstLen
  <2>2. 1 - 1 \in 0 .. (BurstLen - 1) /\ 0 = Unrolled(1 - 1)
    BY <2>1
  <2>3. QED
    BY <1>2, <2>2 DEF InLoop
<1>3. CASE Driver!Loop(r).code = Plain(v, c) /\ c * BurstLen <= MaxJump /\ Driver!Loop(r).done = v * c
  <2>1. InPlain(v, c, 1, lc[2], 0)
    BY DEF InPlain
  <2>2. QED
    BY <1>3, <2>1 DEF InLoop
<1>4. CASE Driver!Loop(r).code = Nested(u, v, c) /\ c * BurstLen + 4 <= MaxJump /\ Driver!Loop(r).done = (v * c) * u
  <2>1. InNested(u, v, c, 1, lc, 0)
    BY DEF InNested
  <2>2. QED
    BY <1>4, <2>1 DEF InLoop
<1>5. QED
  BY <1>1, <1>2, <1>3, <1>4 DEF Shape

\* Its instructions keep it in the loop until all of the loop is copied.
LEMMA LoopMoves ==
  ASSUME Microcode, NEW r \in Nat \ {0}, NEW k \in Int, NEW lc \in [1 .. 2 -> Nat], NEW x \in Int, InLoop(r, k, lc, x)
  PROVE  /\ k \in 1 .. Len(Driver!Loop(r).code) /\ IsLoop(Driver!Loop(r).code[k])
         /\ \A k2, lc2, x2 : Moves(Driver!Loop(r).code[k], k, lc, x, k2, lc2, x2) =>
              /\ k2 \in Int /\ x2 \in Int /\ lc2 \in [1 .. 2 -> Nat]
              /\ InLoop(r, k2, lc2, x2) \/ LoopEnds(r, k2, x2)
<1> DEFINE p == Driver!Loop(r).code
           Goal == /\ k \in 1 .. Len(p) /\ IsLoop(p[k])
                   /\ \A k2, lc2, x2 : Moves(p[k], k, lc, x, k2, lc2, x2) =>
                        /\ k2 \in Int /\ x2 \in Int /\ lc2 \in [1 .. 2 -> Nat]
                        /\ InLoop(r, k2, lc2, x2) \/ LoopEnds(r, k2, x2)
<1>1. /\ \/ p = Driver!Burst /\ Driver!Loop(r).done = 1 /\ k - 1 \in 0 .. (BurstLen - 1) /\ x = Unrolled(k - 1)
         \/ \E v \in 1 .. MaxIter, c \in Nat \ {0} :
              /\ p = Plain(v, c) /\ c * BurstLen <= MaxJump
              /\ Driver!Loop(r).done = v * c /\ InPlain(v, c, k, lc[2], x)
         \/ \E u, v \in 1 .. MaxIter, c \in Nat \ {0} :
              /\ p = Nested(u, v, c) /\ c * BurstLen + 4 <= MaxJump
              /\ Driver!Loop(r).done = (v * c) * u /\ InNested(u, v, c, k, lc, x)
  BY DEF InLoop
<1> HIDE DEF p
<1>2. ASSUME p = Driver!Burst, Driver!Loop(r).done = 1, k - 1 \in 0 .. (BurstLen - 1), x = Unrolled(k - 1)
      PROVE  Goal
  <2> DEFINE b == k - 1
  <2>1. Len(p) = BurstLen /\ \A j \in 0 .. (BurstLen - 1) : IsBurst(p[j + 1], j)
    BY <1>2, BurstIs
  <2>2. b \in 0 .. (BurstLen - 1) /\ b + 1 = k /\ BurstLen \in {2, 4} /\ b \in Nat
    BY <1>2 DEF BurstLen
  <2>3. x = Unrolled(b)
    BY <1>2
  <2> HIDE DEF b
  <2>4. IsBurst(p[k], b)
    BY <2>1, <2>2
  <2>5. k \in 1 .. Len(p) /\ IsLoop(p[k])
    <3>1. p[k].op \in {"LD", "RMB", "ST", "WMB"}
      BY <2>4 DEF IsBurst
    <3>2. QED
      BY <2>1, <2>2, <3>1 DEF IsLoop
  <2>6. ASSUME NEW k2, NEW lc2, NEW x2, Moves(p[k], k, lc, x, k2, lc2, x2)
        PROVE  /\ k2 \in Int /\ x2 \in Int /\ lc2 \in [1 .. 2 -> Nat]
               /\ InLoop(r, k2, lc2, x2) \/ LoopEnds(r, k2, x2)
    <3>1. k2 = k + 1 /\ lc2 = lc /\ x2 = x + (Unrolled(b + 1) - Unrolled(b))
      BY <2>2, <2>4, <2>6, BurstMoves
    <3>2. Unrolled(b) \in Nat /\ Unrolled(b + 1) \in Nat /\ b + 1 \in Nat
      <4>1. b \in Nat /\ b + 1 \in Nat
        BY <2>2
      <4>2. \A y \in Nat : Unrolled(y) \in Nat
        BY UnrolledIs
      <4>3. QED
        BY <4>1, <4>2
    <3>3. k2 = b + 2 /\ x2 = Unrolled(b + 1) /\ k2 \in Int /\ x2 \in Int
      BY <2>2, <2>3, <3>1, <3>2
    <3>4. CASE b + 1 = BurstLen
      <4>1. Unrolled(1 * BurstLen) = 1 /\ 1 * BurstLen = BurstLen
        BY <2>2, UnrolledIs
      <4>2. k2 = Len(p) + 1 /\ x2 = 1
        BY <2>1, <2>2, <3>3, <3>4, <4>1
      <4>3. QED
        BY <1>2, <3>1, <3>3, <4>2 DEF LoopEnds, p
    <3>5. CASE b + 1 # BurstLen
      <4>1. k2 - 1 \in 0 .. (BurstLen - 1) /\ k2 - 1 = b + 1
        BY <2>2, <3>3, <3>5
      <4>2. InLoop(r, k2, lc2, x2)
        BY <1>2, <3>3, <4>1 DEF InLoop, p
      <4>3. QED
        BY <3>1, <3>3, <4>2
    <3>6. QED
      BY <3>4, <3>5
  <2>7. QED
    BY <2>5, <2>6
<1>3. ASSUME NEW v \in 1 .. MaxIter, NEW c \in Nat \ {0}, p = Plain(v, c), c * BurstLen <= MaxJump,
             Driver!Loop(r).done = v * c, InPlain(v, c, k, lc[2], x)
      PROVE  Goal
  <2>1. k \in 1 .. Len(p) /\ IsLoop(p[k])
    <3>1. k \in 1 .. (c * BurstLen + 4) /\ IsLoop(Plain(v, c)[k])
      BY <1>3, PlainCell
    <3>2. Len(Plain(v, c)) = c * BurstLen + 4
      BY <1>3, PlainIs
    <3>3. QED
      BY <1>3, <3>1, <3>2
  <2>2. ASSUME NEW k2, NEW lc2, NEW x2, Moves(p[k], k, lc, x, k2, lc2, x2)
        PROVE  /\ k2 \in Int /\ x2 \in Int /\ lc2 \in [1 .. 2 -> Nat]
               /\ InLoop(r, k2, lc2, x2) \/ LoopEnds(r, k2, x2)
    <3>1. Moves(Plain(v, c)[k], k, lc, x, k2, lc2, x2)
      BY <1>3, <2>2
    <3>2. /\ k2 \in Int /\ x2 \in Int /\ lc2 \in [1 .. 2 -> Nat]
          /\ InPlain(v, c, k2, lc2[2], x2) \/ PlainEnds(v, c, k2, x2)
      <4>1. PlainNext(v, c, lc, k2, lc2, x2)
        BY <1>3, <3>1, PlainMoves
      <4>2. QED
        BY <4>1 DEF PlainNext
    <3>3. CASE InPlain(v, c, k2, lc2[2], x2)
      <4>1. InLoop(r, k2, lc2, x2)
        BY <1>3, <3>3 DEF InLoop, p
      <4>2. QED
        BY <3>2, <4>1
    <3>4. CASE PlainEnds(v, c, k2, x2)
      <4>1. Len(p) = c * BurstLen + 4 /\ c * BurstLen \in Nat
        BY <1>3, PlainIs
      <4> DEFINE z == c * BurstLen
      <4>2. k2 = z + 5 /\ Len(p) = z + 4 /\ z \in Nat /\ x2 = v * c
        BY <3>4, <4>1 DEF PlainEnds
      <4> HIDE DEF z
      <4>3. k2 = Len(p) + 1
        BY <4>2
      <4>4. LoopEnds(r, k2, x2)
        BY <1>3, <4>2, <4>3 DEF LoopEnds, p
      <4>5. QED
        BY <3>2, <4>4
    <3>5. QED
      BY <3>2, <3>3, <3>4
  <2>3. QED
    BY <2>1, <2>2
<1>4. ASSUME NEW u \in 1 .. MaxIter, NEW v \in 1 .. MaxIter, NEW c \in Nat \ {0}, p = Nested(u, v, c),
             c * BurstLen + 4 <= MaxJump, Driver!Loop(r).done = (v * c) * u, InNested(u, v, c, k, lc, x)
      PROVE  Goal
  <2>1. k \in 1 .. Len(p) /\ IsLoop(p[k])
    <3>1. k \in 1 .. (c * BurstLen + 8) /\ IsLoop(Nested(u, v, c)[k])
      BY <1>4, NestedCell
    <3>2. Len(Nested(u, v, c)) = c * BurstLen + 8
      BY <1>4, NestedIs
    <3>3. QED
      BY <1>4, <3>1, <3>2
  <2>2. ASSUME NEW k2, NEW lc2, NEW x2, Moves(p[k], k, lc, x, k2, lc2, x2)
        PROVE  /\ k2 \in Int /\ x2 \in Int /\ lc2 \in [1 .. 2 -> Nat]
               /\ InLoop(r, k2, lc2, x2) \/ LoopEnds(r, k2, x2)
    <3>1. Moves(Nested(u, v, c)[k], k, lc, x, k2, lc2, x2)
      BY <1>4, <2>2
    <3>2. /\ k2 \in Int /\ x2 \in Int /\ lc2 \in [1 .. 2 -> Nat]
          /\ InNested(u, v, c, k2, lc2, x2) \/ NestedEnds(u, v, c, k2, x2)
      BY <1>4, <3>1, NestedMoves
    <3>3. CASE InNested(u, v, c, k2, lc2, x2)
      <4>1. InLoop(r, k2, lc2, x2)
        BY <1>4, <3>3 DEF InLoop, p
      <4>2. QED
        BY <3>2, <4>1
    <3>4. CASE NestedEnds(u, v, c, k2, x2)
      <4>1. Len(p) = c * BurstLen + 8 /\ c * BurstLen \in Nat
        BY <1>4, NestedIs
      <4> DEFINE z == c * BurstLen
      <4>2. k2 = z + 9 /\ Len(p) = z + 8 /\ z \in Nat /\ x2 = (v * c) * u
        BY <3>4, <4>1 DEF NestedEnds
      <4> HIDE DEF z
      <4>3. k2 = Len(p) + 1
        BY <4>2
      <4>4. LoopEnds(r, k2, x2)
        BY <1>4, <4>2, <4>3 DEF LoopEnds, p
      <4>5. QED
        BY <3>2, <4>4
    <3>5. QED
      BY <3>2, <3>3, <3>4
  <2>3. QED
    BY <2>1, <2>2
<1> HIDE DEF Goal
<1>5. Goal
  BY <1>1, <1>2, <1>3, <1>4
<1>6. QED
  BY <1>5 DEF Goal, p

-----------------------------------------------------------------------------
(* A thread in the microcode of a transfer                                  *)

\* Where a thread may be in the program of n bursts, when it has copied x of them.
Within(p, n, ip, lc, x) ==
  \/ ip \in {1, 7, 13} /\ x = 0
  \/ \E o \in Nat, r \in 0 .. n :
       /\ Follows(p, n, o, r)
       /\ IF r = 0 THEN ip = o + 1 /\ x = n ELSE InLoop(r, ip - o, lc, x - (n - r))

\* It is at the start of the loops for r bursts.
LEMMA LoopsBegin ==
  ASSUME Microcode, NEW n \in Sizes, NEW p, NEW o \in Nat, NEW r \in 0 .. n, Follows(p, n, o, r), NEW lc
  PROVE  Within(p, n, o + 1, lc, n - r)
<1>1. n \in Nat
  BY DEF Microcode
<1>2. CASE r = 0
  <2>1. o + 1 = o + 1 /\ n - r = n
    BY <1>1, <1>2
  <2>2. QED
    BY <1>2, <2>1 DEF Within
<1>3. CASE r # 0
  <2>1. r \in Nat \ {0} /\ (o + 1) - o = 1 /\ (n - r) - (n - r) = 0
    BY <1>1, <1>3
  <2>2. InLoop(r, 1, lc, 0)
    BY <2>1, LoopBegins
  <2>3. InLoop(r, (o + 1) - o, lc, (n - r) - (n - r))
    BY <2>1, <2>2
  <2>4. QED
    BY <1>3, <2>3 DEF Within
<1>4. QED
  BY <1>2, <1>3

\* An instruction keeps the thread within the program; it raises the event when it has copied
\* all bursts, and comes to no end before.
LEMMA WithinMoves ==
  ASSUME Microcode, NEW n \in Sizes, NEW ip \in Int, NEW lc \in [1 .. 2 -> Nat], NEW x \in Int,
         Within(Driver!Program[n], n, ip, lc, x)
  PROVE  LET i == Driver!Program[n][ip] IN
         /\ i.op = "MOV" => Within(Driver!Program[n], n, ip + 6, lc, x)
         /\ i.op = "SEV" => x = n
         /\ i.op # "END"
         /\ \A k2, lc2, x2 : Moves(i, ip, lc, x, k2, lc2, x2) =>
              k2 \in Int /\ x2 \in Int /\ lc2 \in [1 .. 2 -> Nat] /\ Within(Driver!Program[n], n, k2, lc2, x2)
<1> DEFINE p == Driver!Program[n]
           i == p[ip]
           Goal == /\ i.op = "MOV" => Within(p, n, ip + 6, lc, x)
                   /\ i.op = "SEV" => x = n
                   /\ i.op # "END"
                   /\ \A k2, lc2, x2 : Moves(i, ip, lc, x, k2, lc2, x2) =>
                        k2 \in Int /\ x2 \in Int /\ lc2 \in [1 .. 2 -> Nat] /\ Within(p, n, k2, lc2, x2)
<1>1. n \in Nat
  BY DEF Microcode
<1>2. p[1].op = "MOV" /\ p[7].op = "MOV" /\ p[13].op = "MOV" /\ Follows(p, n, 18, n)
  BY ProgramIs
<1>3. Within(p, n, ip, lc, x)
  OBVIOUS
<1> HIDE DEF p
<1>4. ASSUME ip \in {1, 7, 13}, x = 0 PROVE Goal
  <2>1. i.op = "MOV"
    BY <1>2, <1>4
  <2>2. Within(p, n, ip + 6, lc, x)
    <3>1. CASE ip \in {1, 7}
      <4>1. ip + 6 \in {1, 7, 13}
        BY <3>1
      <4>2. QED
        BY <1>4, <4>1 DEF Within
    <3>2. CASE ip = 13
      <4>1. n \in 0 .. n /\ 18 \in Nat /\ 18 + 1 = ip + 6 /\ n - n = x
        BY <1>1, <1>4, <3>2
      <4>2. Within(p, n, 18 + 1, lc, n - n)
        BY <1>2, <4>1, LoopsBegin
      <4>3. QED
        BY <4>1, <4>2
    <3>3. QED
      BY <1>4, <3>1, <3>2
  <2> HIDE DEF i
  <2>3. \A k2, lc2, x2 : ~Moves(i, ip, lc, x, k2, lc2, x2)
    BY <2>1 DEF Moves
  <2>4. QED
    BY <2>1, <2>2, <2>3
<1>5. ASSUME NEW o \in Nat, Follows(p, n, o, 0), ip = o + 1, x = n PROVE Goal
  <2>1. LoopsOf(n)[0] = <<>>
    BY <1>1, LoopsAre
  <2>2. Len(LoopsOf(n)[0]) = 0
    BY <2>1
  <2>3. p[o + 0 + 1].op = "SEV"
    BY <1>5, <2>2 DEF Follows
  <2>4. i.op = "SEV"
    BY <1>5, <2>3
  <2> HIDE DEF i
  <2>5. \A k2, lc2, x2 : ~Moves(i, ip, lc, x, k2, lc2, x2)
    BY <2>4 DEF Moves
  <2>6. QED
    BY <1>5, <2>4, <2>5
<1>6. ASSUME NEW o \in Nat, NEW r \in 1 .. n, Follows(p, n, o, r), InLoop(r, ip - o, lc, x - (n - r))
      PROVE  Goal
  <2> DEFINE k == ip - o
             w == n - r
             c == Driver!Loop(r).code
             d == Driver!Loop(r).done
  <2>1. r \in Nat \ {0} /\ r \in 0 .. n /\ k \in Int /\ w \in Int /\ x - w \in Int
    BY <1>1
  <2>2. /\ c \in Seq(Cells) /\ Len(c) \in Nat /\ r - d \in 0 .. n /\ d \in 1 .. r
        /\ \A j \in 1 .. Len(c) : p[o + j] = c[j]
        /\ Follows(p, n, o + Len(c), r - d)
    <3>1. Follows(p, n, o, r) /\ Microcode
      BY <1>6
    <3>2. /\ c \in Seq(Cells) /\ Len(c) \in Nat
          /\ \A j \in 1 .. Len(c) : p[o + j] = c[j]
      BY <3>1, FollowsOn
    <3>3. r - d \in 0 .. n /\ d \in 1 .. r /\ Follows(p, n, o + Len(c), r - d)
      BY <3>1, FollowsOn
    <3>4. QED
      BY <3>2, <3>3
  <2> HIDE DEF k, w, c, d
  <2>3. InLoop(r, k, lc, x - w)
    BY <1>6 DEF k, w
  <2>4. /\ k \in 1 .. Len(c) /\ IsLoop(c[k])
        /\ \A k2, lc2, x2 : Moves(c[k], k, lc, x - w, k2, lc2, x2) =>
             /\ k2 \in Int /\ x2 \in Int /\ lc2 \in [1 .. 2 -> Nat]
             /\ InLoop(r, k2, lc2, x2) \/ LoopEnds(r, k2, x2)
    BY <2>1, <2>3, LoopMoves DEF c
  <2>5. i = c[k]
    <3>1. o + k = ip
      BY <2>1 DEF k
    <3>2. QED
      BY <2>2, <2>4, <3>1
  <2> HIDE DEF i
  <2>6. IsLoop(i)
    BY <2>4, <2>5
  <2>7. i.op # "MOV" /\ i.op # "SEV" /\ i.op # "END"
    BY <2>6 DEF IsLoop
  <2>8. ASSUME NEW k2, NEW lc2, NEW x2, Moves(i, ip, lc, x, k2, lc2, x2)
        PROVE  k2 \in Int /\ x2 \in Int /\ lc2 \in [1 .. 2 -> Nat] /\ Within(p, n, k2, lc2, x2)
    <3>1. k2 \in Int /\ x2 \in Int /\ Moves(i, ip - o, lc, x - w, k2 - o, lc2, x2 - w)
      BY <2>1, <2>6, <2>8, Shifted
    <3> DEFINE k3 == k2 - o
               x3 == x2 - w
    <3>2. Moves(c[k], k, lc, x - w, k3, lc2, x3)
      BY <2>5, <3>1 DEF k
    <3>3. k3 \in Int /\ x3 \in Int
      BY <2>1, <3>1
    <3> HIDE DEF k3, x3
    <3>4. lc2 \in [1 .. 2 -> Nat] /\ (InLoop(r, k3, lc2, x3) \/ LoopEnds(r, k3, x3))
      BY <2>4, <3>2
    <3>5. CASE InLoop(r, k3, lc2, x3)
      <4>1. InLoop(r, k2 - o, lc2, x2 - (n - r)) /\ r # 0
        BY <2>1, <3>5 DEF k3, x3, w
      <4>2. Within(p, n, k2, lc2, x2)
        BY <2>1, <4>1, <1>6 DEF Within
      <4>3. QED
        BY <3>1, <3>4, <4>2
    <3>6. CASE LoopEnds(r, k3, x3)
      <4>1. k3 = Len(c) + 1 /\ x3 = d
        BY <3>6 DEF LoopEnds, c, d
      <4>2. k2 = (o + Len(c)) + 1 /\ x2 = n - (r - d) /\ o + Len(c) \in Nat
        <5> DEFINE y == Len(c)
        <5>1. y \in Nat /\ k2 - o = y + 1 /\ x2 - w = d /\ d \in Int /\ k2 \in Int /\ x2 \in Int
          BY <2>2, <3>1, <4>1 DEF k3, x3
        <5> HIDE DEF y
        <5>2. k2 = (o + y) + 1 /\ o + y \in Nat
          BY <5>1
        <5>3. x2 = n - (r - d)
          BY <1>1, <5>1 DEF w
        <5>4. QED
          BY <5>2, <5>3 DEF y
      <4> DEFINE q == o + Len(c)
                 s == r - d
      <4>3. q \in Nat /\ s \in 0 .. n /\ Follows(p, n, q, s)
        BY <2>2, <4>2
      <4> HIDE DEF q, s
      <4>4. Within(p, n, q + 1, lc2, n - s)
        BY <4>3, LoopsBegin
      <4>5. Within(p, n, k2, lc2, x2)
        BY <4>2, <4>4 DEF q, s
      <4>6. QED
        BY <3>1, <3>4, <4>5
    <3>7. QED
      BY <3>4, <3>5, <3>6
  <2>9. QED
    BY <2>7, <2>8
<1>7. \/ ip \in {1, 7, 13} /\ x = 0
      \/ \E o \in Nat : Follows(p, n, o, 0) /\ ip = o + 1 /\ x = n
      \/ \E o \in Nat, r \in 1 .. n : Follows(p, n, o, r) /\ InLoop(r, ip - o, lc, x - (n - r))
  <2>1. SUFFICES ASSUME NEW o \in Nat, NEW r \in 0 .. n, Follows(p, n, o, r),
                        IF r = 0 THEN ip = o + 1 /\ x = n ELSE InLoop(r, ip - o, lc, x - (n - r))
                 PROVE  \/ Follows(p, n, o, 0) /\ ip = o + 1 /\ x = n
                        \/ r \in 1 .. n /\ Follows(p, n, o, r) /\ InLoop(r, ip - o, lc, x - (n - r))
    BY <1>3 DEF Within
  <2>2. r = 0 \/ r \in 1 .. n
    BY <1>1
  <2>3. QED
    BY <2>1, <2>2
<1> HIDE DEF Goal
<1>8. Goal
  BY <1>4, <1>5, <1>6, <1>7
<1>9. QED
  BY <1>8 DEF Goal, p

-----------------------------------------------------------------------------
(* Requests of the one channel                                              *)

\* The driver as the boot loader uses it: one channel, and an END that does not lag.
CopiesWhole ==
  /\ Microcode /\ Chans = {0} /\ EndLags = FALSE /\ Nil \notin Driver!Request
  /\ \A c \in Clients : c.cb \in BOOLEAN

Threads == [st : {"stopped", "run", "fault"}, buf : {0}, ip : Int, lc : [1 .. 2 -> Nat], copied : Int]

IsThread(t) == t = [x \in {"st", "buf", "ip", "lc", "copied"} |-> t[x]]

\* The thread runs the program of the request, which is not done before the thread has copied
\* all of it.
CopyInv ==
  /\ client \in Clients /\ chan = 0 /\ intmis \subseteq {0}
  /\ desc \in [{0} -> Driver!Request \cup {Nil}] /\ running \in [{0} -> BOOLEAN] /\ hw \in [{0} -> Threads]
  /\ code \in [{0} -> Sizes \cup {Nil}]
  /\ running[0] => desc[0] # Nil /\ desc[0].status = "BUSY"
  /\ at \in {"inten", "go"} =>
       running[0] /\ intmis = {} /\ hw[0].st = "stopped" /\ code[0] = desc[0].n
  /\ hw[0].st = "run" =>
       /\ running[0] /\ intmis = {} /\ at \notin {"inten", "go"} /\ code[0] = desc[0].n
       /\ Within(Driver!Program[desc[0].n], desc[0].n, hw[0].ip, hw[0].lc, hw[0].copied)
  /\ hw[0].st = "fault" => running[0] /\ intmis = {}
  /\ running[0] /\ 0 \in intmis => hw[0].copied = desc[0].n

\* What an instruction does to the thread.
LEMMA Executes ==
  ASSUME CopiesWhole, hw \in [{0} -> Threads], hw[0].st = "run", intmis = {}, Driver!Execute(0)
  PROVE  LET i == Driver!Program[code[0]][hw[0].ip]  g == hw'[0] IN
         /\ hw' = [hw EXCEPT ![0] = g] /\ g.buf = 0 /\ IsThread(g)
         /\ \/ /\ i.op = "MOV" /\ intmis' = {} /\ g.st = "run"
               /\ g.ip = hw[0].ip + 6 /\ g.lc = hw[0].lc /\ g.copied = hw[0].copied
            \/ /\ intmis' = {} /\ g.st = "run"
               /\ Moves(i, hw[0].ip, hw[0].lc, hw[0].copied, g.ip, g.lc, g.copied)
            \/ i.op = "SEV" /\ intmis' \subseteq {0} /\ g = [hw[0] EXCEPT !.st = "stopped"]
            \/ i.op = "END"
<1> DEFINE i == Driver!Program[code[0]][hw[0].ip]
<1>1. PICK h \in Threads : h = hw[0]
  OBVIOUS
<1>2. h.buf = 0 /\ h.st = "run" /\ IsThread(h)
  BY <1>1 DEF Threads, IsThread
<1>3. Driver!Cell(0) = i
  BY <1>1, <1>2 DEF Driver!Cell
<1> HIDE DEF i
<1> DEFINE Goal == LET g == hw'[0] IN
         /\ hw' = [hw EXCEPT ![0] = g] /\ g.buf = 0 /\ IsThread(g)
         /\ \/ /\ i.op = "MOV" /\ intmis' = {} /\ g.st = "run"
               /\ g.ip = h.ip + 6 /\ g.lc = h.lc /\ g.copied = h.copied
            \/ intmis' = {} /\ g.st = "run" /\ Moves(i, h.ip, h.lc, h.copied, g.ip, g.lc, g.copied)
            \/ i.op = "SEV" /\ intmis' \subseteq {0} /\ g = [h EXCEPT !.st = "stopped"]
            \/ i.op = "END"
<1> SUFFICES Goal
  BY <1>1 DEF Goal, i
<1> HIDE DEF Goal
<1>4. ASSUME NEW g, hw' = [hw EXCEPT ![0] = g], g.buf = 0, IsThread(g), g.st = "run",
             intmis' = {},
             \/ i.op = "MOV" /\ g.ip = h.ip + 6 /\ g.lc = h.lc /\ g.copied = h.copied
             \/ Moves(i, h.ip, h.lc, h.copied, g.ip, g.lc, g.copied)
      PROVE  Goal
  <2>1. hw'[0] = g
    BY <1>4
  <2>2. QED
    BY <1>4, <2>1 DEF Goal
<1>5. CASE i.op = "MOV" /\ hw' = Driver!To(0, h.ip + 6) /\ UNCHANGED intmis
  <2> DEFINE g == [h EXCEPT !.ip = h.ip + 6]
  <2>1. hw' = [hw EXCEPT ![0] = g] /\ intmis' = {}
    BY <1>1, <1>5 DEF Driver!To
  <2>2. g.buf = 0 /\ g.st = "run" /\ IsThread(g)
    BY <1>2 DEF Threads, IsThread
  <2>3. g.ip = h.ip + 6 /\ g.lc = h.lc /\ g.copied = h.copied
    BY DEF Threads
  <2> HIDE DEF g
  <2>4. QED
    BY <1>4, <1>5, <2>1, <2>2, <2>3
<1>6. CASE i.op \in {"LD", "RMB", "WMB"} /\ hw' = Driver!To(0, h.ip + 1) /\ UNCHANGED intmis
  <2> DEFINE g == [h EXCEPT !.ip = h.ip + 1]
  <2>1. hw' = [hw EXCEPT ![0] = g] /\ intmis' = {}
    BY <1>1, <1>6 DEF Driver!To
  <2>2. g.buf = 0 /\ g.st = "run" /\ IsThread(g)
    BY <1>2 DEF Threads, IsThread
  <2>3. g.ip = h.ip + 1 /\ g.lc = h.lc /\ g.copied = h.copied
    BY DEF Threads
  <2> HIDE DEF g
  <2>4. Moves(i, h.ip, h.lc, h.copied, g.ip, g.lc, g.copied)
    BY <1>6, <2>3 DEF Moves
  <2>5. QED
    BY <1>4, <2>1, <2>2, <2>4
<1>7. CASE i.op = "ST" /\ hw' = [Driver!To(0, h.ip + 1) EXCEPT ![0].copied = @ + 1] /\ UNCHANGED intmis
  <2> DEFINE g == [h EXCEPT !.ip = h.ip + 1, !.copied = h.copied + 1]
  <2>1. hw' = [hw EXCEPT ![0] = g] /\ intmis' = {}
    BY <1>1, <1>7 DEF Driver!To, Threads
  <2>2. g.buf = 0 /\ g.st = "run" /\ IsThread(g)
    BY <1>2 DEF Threads, IsThread
  <2>3. g.ip = h.ip + 1 /\ g.lc = h.lc /\ g.copied = h.copied + 1
    BY DEF Threads
  <2> HIDE DEF g
  <2>4. Moves(i, h.ip, h.lc, h.copied, g.ip, g.lc, g.copied)
    BY <1>7, <2>3 DEF Moves
  <2>5. QED
    BY <1>4, <2>1, <2>2, <2>4
<1>8. CASE i.op = "LP" /\ hw' = [Driver!To(0, h.ip + 2) EXCEPT ![0].lc[i.loop + 1] = i.arg] /\ UNCHANGED intmis
  <2> DEFINE lc2 == [h.lc EXCEPT ![i.loop + 1] = i.arg]
             g == [h EXCEPT !.ip = h.ip + 2, !.lc = lc2]
  <2>1. hw' = [hw EXCEPT ![0] = g] /\ intmis' = {}
    BY <1>1, <1>8 DEF Driver!To, Threads
  <2> HIDE DEF lc2
  <2>2. g.buf = 0 /\ g.st = "run" /\ IsThread(g)
    BY <1>2 DEF Threads, IsThread
  <2>3. g.ip = h.ip + 2 /\ g.lc = lc2 /\ g.copied = h.copied
    BY DEF Threads
  <2> HIDE DEF g
  <2>4. Moves(i, h.ip, h.lc, h.copied, g.ip, g.lc, g.copied)
    BY <1>8, <2>3 DEF Moves, lc2
  <2>5. QED
    BY <1>4, <2>1, <2>2, <2>4
<1>9. CASE /\ i.op = "LPEND" /\ UNCHANGED intmis
           /\ hw' = IF h.lc[i.loop + 1] = 0 THEN Driver!To(0, h.ip + 2)
                    ELSE [Driver!To(0, h.ip - i.arg) EXCEPT ![0].lc[i.loop + 1] = @ - 1]
  <2> DEFINE lc2 == IF h.lc[i.loop + 1] = 0 THEN h.lc ELSE [h.lc EXCEPT ![i.loop + 1] = @ - 1]
             ip2 == IF h.lc[i.loop + 1] = 0 THEN h.ip + 2 ELSE h.ip - i.arg
             g == [h EXCEPT !.ip = ip2, !.lc = lc2]
  <2>1. hw' = [hw EXCEPT ![0] = g] /\ intmis' = {}
    <3>1. CASE h.lc[i.loop + 1] = 0
      <4>1. g = [h EXCEPT !.ip = h.ip + 2]
        BY <3>1 DEF Threads
      <4>2. hw' = [hw EXCEPT ![0] = [h EXCEPT !.ip = h.ip + 2]]
        BY <1>1, <1>9, <3>1 DEF Driver!To
      <4> HIDE DEF g
      <4>3. QED
        BY <1>9, <4>1, <4>2
    <3>2. CASE h.lc[i.loop + 1] # 0
      <4>1. g = [h EXCEPT !.ip = h.ip - i.arg, !.lc = [h.lc EXCEPT ![i.loop + 1] = @ - 1]]
        BY <3>2
      <4>2. hw' = [Driver!To(0, h.ip - i.arg) EXCEPT ![0].lc[i.loop + 1] = @ - 1]
        BY <1>9, <3>2
      <4>3. hw' = [hw EXCEPT ![0] = [h EXCEPT !.ip = h.ip - i.arg, !.lc = [h.lc EXCEPT ![i.loop + 1] = @ - 1]]]
        BY <1>1, <4>2 DEF Driver!To, Threads
      <4> HIDE DEF g
      <4>4. QED
        BY <1>9, <4>1, <4>3
    <3>3. QED
      BY <3>1, <3>2
  <2> HIDE DEF lc2, ip2
  <2>2. g.buf = 0 /\ g.st = "run" /\ IsThread(g)
    BY <1>2 DEF Threads, IsThread
  <2>3. g.ip = ip2 /\ g.lc = lc2 /\ g.copied = h.copied
    BY DEF Threads
  <2> HIDE DEF g
  <2>4. Moves(i, h.ip, h.lc, h.copied, g.ip, g.lc, g.copied)
    BY <1>9, <2>3 DEF Moves, lc2, ip2
  <2>5. QED
    BY <1>4, <2>1, <2>2, <2>4
<1>10. CASE /\ i.op = "SEV" /\ intmis' = intmis \cup (inten \cap {h.buf})
            /\ hw' = IF EndLags THEN Driver!To(0, h.ip + 2) ELSE [hw EXCEPT ![0].st = "stopped"]
  <2> DEFINE g == [h EXCEPT !.st = "stopped"]
  <2>1. hw' = [hw EXCEPT ![0] = g] /\ intmis' \subseteq {0}
    BY <1>1, <1>2, <1>10 DEF CopiesWhole
  <2>2. g.buf = 0 /\ IsThread(g)
    BY <1>2 DEF Threads, IsThread
  <2> HIDE DEF g
  <2>3. hw'[0] = g
    BY <2>1
  <2>4. QED
    BY <1>10, <2>1, <2>2, <2>3 DEF g, Goal
<1>11. CASE i.op = "END" /\ hw' = [hw EXCEPT ![0].st = "stopped"] /\ UNCHANGED intmis
  <2> DEFINE g == [h EXCEPT !.st = "stopped"]
  <2>1. hw' = [hw EXCEPT ![0] = g]
    BY <1>1, <1>11
  <2>2. g.buf = 0 /\ IsThread(g)
    BY <1>2 DEF Threads, IsThread
  <2> HIDE DEF g
  <2>3. hw'[0] = g
    BY <2>1
  <2>4. QED
    BY <1>11, <2>1, <2>2, <2>3 DEF Goal
<1>12. QED
  BY <1>1, <1>3, <1>5, <1>6, <1>7, <1>8, <1>9, <1>10, <1>11 DEF Driver!Execute

\* A request is made when there is no other, and its thread has stopped.
LEMMA AskStep ==
  ASSUME CopiesWhole, CopyInv, NEW m \in Sizes, Driver!Transfer(0, m)
  PROVE  CopyInv'
<1>1. /\ at = "ready" /\ intmis = {} /\ hw[0].st # "fault" /\ chan' = 0 /\ UNCHANGED <<client, hw, intmis>>
      /\ client.cb \in BOOLEAN
  BY DEF Driver!Transfer, Driver!At, Driver!Faulted, CopiesWhole, CopyInv
<1>2. CASE UNCHANGED Driver!swVars /\ at' = Driver!Returned(FALSE)
  <2>1. UNCHANGED <<desc, running, code>> /\ at' \notin {"inten", "go"}
    BY <1>2 DEF Driver!swVars, Driver!Returned
  <2>2. QED
    BY <1>1, <2>1 DEF CopyInv
<1>3. CASE ~(UNCHANGED Driver!swVars /\ at' = Driver!Returned(FALSE))
  <2> DEFINE q == [status |-> "BUSY", n |-> m, rc |-> -1, cb |-> client.cb]
  <2>1. /\ desc[0] = Nil /\ desc' = [desc EXCEPT ![0] = q] /\ running' = [running EXCEPT ![0] = TRUE]
        /\ code' = [code EXCEPT ![0] = m] /\ at' = "inten"
    BY <1>3 DEF Driver!Transfer
  <2>2. q \in Driver!Request /\ q # Nil /\ q.status = "BUSY" /\ q.n = m
    BY <1>1 DEF Driver!Request, CopiesWhole
  <2> HIDE DEF q
  <2>3. desc'[0] = q /\ desc' \in [{0} -> Driver!Request \cup {Nil}] /\ running'[0] /\ running' \in [{0} -> BOOLEAN]
    BY <2>1, <2>2 DEF CopyInv
  <2>4. hw[0].st = "stopped" /\ hw[0].st # "run"
    BY <1>1, <2>1 DEF CopyInv, Threads
  <2>5. code'[0] = m /\ code' \in [{0} -> Sizes \cup {Nil}]
    BY <2>1 DEF CopyInv
  <2>6. QED
    BY <1>1, <2>1, <2>2, <2>3, <2>4, <2>5 DEF CopyInv
<1>4. QED
  BY <1>2, <1>3

\* DMAGO starts a thread at the first byte of the program of the request.
LEMMA GoStep ==
  ASSUME CopiesWhole, CopyInv, Driver!Go
  PROVE  CopyInv'
<1> DEFINE g == [Driver!Stopped EXCEPT !.st = "run", !.buf = chan]
<1>1. /\ at = "go" /\ running[0] /\ intmis = {} /\ hw[0].st = "stopped" /\ code[0] = desc[0].n /\ chan = 0
      /\ at' = Driver!Returned(TRUE) /\ UNCHANGED <<client, desc, running, code, intmis, chan>>
      /\ hw' = [hw EXCEPT ![0] = g]
  BY DEF Driver!Go, Driver!At, Driver!swVars, CopyInv
<1>2. at' \notin {"inten", "go"}
  BY <1>1 DEF Driver!Returned
<1>3. g \in Threads /\ g.st = "run" /\ g.ip = 1 /\ g.copied = 0
  <2>1. Driver!Stopped \in Threads /\ Driver!Stopped.ip = 1 /\ Driver!Stopped.copied = 0
    BY DEF Driver!Stopped, Threads
  <2>2. QED
    BY <1>1, <2>1 DEF Threads
<1> HIDE DEF g
<1>4. hw' \in [{0} -> Threads] /\ hw'[0] = g
  BY <1>1, <1>3 DEF CopyInv
<1>5. Within(Driver!Program[desc[0].n], desc[0].n, g.ip, g.lc, g.copied)
  BY <1>3 DEF Within
<1>6. QED
  BY <1>1, <1>2, <1>3, <1>4, <1>5 DEF CopyInv

\* The other steps of the main loop leave the thread and what it copies for alone.
LEMMA IdleSteps ==
  ASSUME CopiesWhole, CopyInv, Driver!IntenLoad \/ Driver!Wfi \/ Driver!Tick \/ Driver!WaitCheck
  PROVE  CopyInv'
<1>1. CASE Driver!IntenLoad \/ Driver!Wfi \/ Driver!Tick
  <2>1. UNCHANGED <<client, desc, running, code, hw, intmis, chan>>
    BY <1>1 DEF Driver!IntenLoad, Driver!Wfi, Driver!Tick, Driver!swVars
  <2>2. at' \in {"inten", "go"} => at \in {"inten", "go"}
    BY <1>1 DEF Driver!IntenLoad, Driver!Wfi, Driver!Tick, Driver!At
  <2>3. hw[0].st = "run" => at' \notin {"inten", "go"}
    BY <2>2 DEF CopyInv
  <2>4. QED
    BY <2>1, <2>2, <2>3 DEF CopyInv
<1>2. CASE Driver!WaitCheck
  <2>1. /\ UNCHANGED <<client, running, code, hw, intmis, chan>> /\ at' \notin {"inten", "go"} /\ chan = 0
        /\ IF desc[0].status = "DONE" THEN desc' = [desc EXCEPT ![0] = Nil] ELSE UNCHANGED desc
    BY <1>2 DEF Driver!WaitCheck, CopyInv
  <2>2. CASE desc[0].status = "DONE"
    <3>1. ~running[0] /\ hw[0].st \notin {"run", "fault"}
      BY <2>2 DEF CopyInv
    <3>2. desc' \in [{0} -> Driver!Request \cup {Nil}]
      BY <2>1, <2>2 DEF CopyInv
    <3>3. QED
      BY <2>1, <3>1, <3>2 DEF CopyInv
  <2>3. CASE desc[0].status # "DONE"
    BY <2>1, <2>3 DEF CopyInv
  <2>4. QED
    BY <2>2, <2>3
<1>3. QED
  BY <1>1, <1>2

\* A request is done.
LEMMA DoneIs ==
  ASSUME CopiesWhole, CopyInv, running[0], NEW err \in {0, 2}, Driver!Detach(0, err)
  PROVE  /\ desc' \in [{0} -> Driver!Request \cup {Nil}] /\ running' \in [{0} -> BOOLEAN] /\ ~running'[0]
         /\ desc[0].cb \/ desc'[0].rc = err
<1> DEFINE q == [desc[0] EXCEPT !.status = "DONE", !.rc = err]
<1>1. desc[0] \in Driver!Request /\ desc[0].cb \in BOOLEAN
  BY DEF CopyInv, Driver!Request
<1>2. desc' = [desc EXCEPT ![0] = IF desc[0].cb THEN Nil ELSE q] /\ running' = [running EXCEPT ![0] = FALSE]
  BY DEF Driver!Detach, CopyInv
<1>3. q \in Driver!Request /\ q.rc = err
  BY <1>1 DEF Driver!Request
<1> HIDE DEF q
<1>4. QED
  BY <1>1, <1>2, <1>3 DEF CopyInv

\* The handler of the event ends a request that has copied all of its bursts.
LEMMA EventCopied ==
  ASSUME CopiesWhole, CopyInv, NEW ev \in Chans, Driver!EventIsr(ev)
  PROVE  /\ CopyInv'
         /\ running[0] /\ ~running'[0] => /\ 0 \notin Driver!Faulted /\ hw[0].copied = desc[0].n
                                          /\ desc[0].cb \/ desc'[0].rc = 0
<1>1. /\ 0 \in intmis /\ intmis' \subseteq {0} /\ UNCHANGED <<client, code, hw, chan>>
      /\ at' \in {at, "wait"}
  BY DEF Driver!EventIsr, Driver!Woken, CopiesWhole, CopyInv
<1>2. hw[0].st \notin {"run", "fault"} /\ at \notin {"inten", "go"}
  BY <1>1 DEF CopyInv
<1>3. 0 \notin Driver!Faulted
  BY <1>2 DEF Driver!Faulted
<1>4. CASE running[0]
  <2>1. Driver!Detach(0, 0)
    BY <1>4 DEF Driver!EventIsr, Driver!ChanOf
  <2>2. /\ desc' \in [{0} -> Driver!Request \cup {Nil}] /\ running' \in [{0} -> BOOLEAN] /\ ~running'[0]
        /\ desc[0].cb \/ desc'[0].rc = 0
    BY <1>4, <2>1, DoneIs
  <2>3. hw[0].copied = desc[0].n
    BY <1>1, <1>4 DEF CopyInv
  <2>4. CopyInv'
    BY <1>1, <1>2, <2>2 DEF CopyInv
  <2>5. QED
    BY <1>3, <2>2, <2>3, <2>4
<1>5. CASE ~running[0]
  <2>1. UNCHANGED <<desc, running>>
    BY <1>5 DEF Driver!EventIsr, Driver!ChanOf
  <2>2. CopyInv'
    BY <1>1, <1>2, <1>5, <2>1 DEF CopyInv
  <2>3. QED
    BY <1>5, <2>2
<1>6. QED
  BY <1>4, <1>5

\* The handler of faults ends a request as failed, and its thread is stopped.
LEMMA AbortReported ==
  ASSUME CopiesWhole, CopyInv, Driver!AbortIsr
  PROVE  /\ CopyInv'
         /\ running[0] /\ ~running'[0] => 0 \in Driver!Faulted /\ (desc[0].cb \/ desc'[0].rc = 2)
<1>1. 0 \in Driver!Faulted /\ UNCHANGED <<client, code, intmis, chan>>
      /\ IF running[0]
         THEN Driver!Detach(0, 2) /\ hw' = [hw EXCEPT ![0].st = "stopped"] /\ at' = Driver!Woken
         ELSE at' = "hang" /\ UNCHANGED <<desc, running, hw>>
  <2>1. \A c \in Driver!Faulted : c = 0
    BY DEF Driver!Faulted, CopiesWhole
  <2>2. QED
    BY <2>1 DEF Driver!AbortIsr
<1>2. hw[0].st = "fault" /\ running[0] /\ intmis = {} /\ at \notin {"inten", "go"}
  BY <1>1 DEF Driver!Faulted, CopyInv
<1>3. /\ desc' \in [{0} -> Driver!Request \cup {Nil}] /\ running' \in [{0} -> BOOLEAN] /\ ~running'[0]
      /\ desc[0].cb \/ desc'[0].rc = 2
  BY <1>1, <1>2, DoneIs
<1>4. hw' \in [{0} -> Threads] /\ hw'[0].st = "stopped"
  BY <1>1, <1>2 DEF CopyInv, Threads
<1>5. at' \in {at, "wait"}
  BY <1>1, <1>2 DEF Driver!Woken
<1>6. CopyInv'
  BY <1>1, <1>2, <1>3, <1>4, <1>5 DEF CopyInv
<1>7. QED
  BY <1>1, <1>3, <1>6

\* The thread copies on, until it raises the event or faults.
LEMMA ThreadStep ==
  ASSUME CopiesWhole, CopyInv, Driver!HwStep(0) \/ Driver!Fault(0)
  PROVE  CopyInv'
<1>1. /\ UNCHANGED <<client, desc, running, code, at, chan>> /\ hw[0].st = "run"
      /\ running[0] /\ intmis = {} /\ at \notin {"inten", "go"} /\ code[0] = desc[0].n
      /\ Within(Driver!Program[desc[0].n], desc[0].n, hw[0].ip, hw[0].lc, hw[0].copied)
  BY DEF Driver!HwStep, Driver!Fault, Driver!swVars, CopyInv
<1>2. CASE Driver!Fault(0)
  <2>1. intmis' = {} /\ hw' = [hw EXCEPT ![0].st = "fault"]
    BY <1>1, <1>2 DEF Driver!Fault
  <2>2. hw' \in [{0} -> Threads] /\ hw'[0].st = "fault"
    BY <2>1 DEF CopyInv, Threads
  <2>3. QED
    BY <1>1, <2>1, <2>2 DEF CopyInv
<1>3. CASE Driver!HwStep(0)
  <2>1. PICK h \in Threads : h = hw[0]
    BY DEF CopyInv
  <2>2. PICK m \in Sizes : m = desc[0].n
    <3>1. desc[0] \in Driver!Request
      BY <1>1 DEF CopyInv
    <3>2. QED
      BY <3>1 DEF Driver!Request
  <2> DEFINE i == Driver!Program[code[0]][hw[0].ip]
             g == hw'[0]
             p == Driver!Program[m]
  <2>3. /\ hw' = [hw EXCEPT ![0] = g] /\ g.buf = 0 /\ IsThread(g)
        /\ \/ /\ i.op = "MOV" /\ intmis' = {} /\ g.st = "run"
              /\ g.ip = hw[0].ip + 6 /\ g.lc = hw[0].lc /\ g.copied = hw[0].copied
           \/ /\ intmis' = {} /\ g.st = "run"
              /\ Moves(i, hw[0].ip, hw[0].lc, hw[0].copied, g.ip, g.lc, g.copied)
           \/ i.op = "SEV" /\ intmis' \subseteq {0} /\ g = [hw[0] EXCEPT !.st = "stopped"]
           \/ i.op = "END"
    <3>1. Driver!Execute(0) /\ hw \in [{0} -> Threads]
      BY <1>3 DEF Driver!HwStep, CopyInv
    <3>2. QED
      BY <1>1, <3>1, Executes
  <2>4. h.ip \in Int /\ h.lc \in [1 .. 2 -> Nat] /\ h.copied \in Int /\ h.buf = 0
    BY <2>1 DEF Threads
  <2>5. i = p[h.ip] /\ Within(p, m, h.ip, h.lc, h.copied)
    BY <1>1, <2>1, <2>2
  <2>6. /\ i.op = "MOV" => Within(p, m, h.ip + 6, h.lc, h.copied)
        /\ i.op = "SEV" => h.copied = m
        /\ i.op # "END"
        /\ \A k2, lc2, x2 : Moves(i, h.ip, h.lc, h.copied, k2, lc2, x2) =>
             k2 \in Int /\ x2 \in Int /\ lc2 \in [1 .. 2 -> Nat] /\ Within(p, m, k2, lc2, x2)
    <3> HIDE DEF i
    <3>1. /\ p[h.ip].op = "MOV" => Within(p, m, h.ip + 6, h.lc, h.copied)
          /\ p[h.ip].op = "SEV" => h.copied = m
          /\ p[h.ip].op # "END"
          /\ \A k2, lc2, x2 : Moves(p[h.ip], h.ip, h.lc, h.copied, k2, lc2, x2) =>
               k2 \in Int /\ x2 \in Int /\ lc2 \in [1 .. 2 -> Nat] /\ Within(p, m, k2, lc2, x2)
      BY <2>4, <2>5, WithinMoves DEF CopiesWhole
    <3>2. QED
      BY <2>5, <3>1
  <2> HIDE DEF i, g, p
  <2>7. hw'[0] = g
    BY <2>3 DEF CopyInv
  <2>8. ASSUME g \in Threads PROVE hw' \in [{0} -> Threads]
    BY <2>3, <2>8 DEF CopyInv
  <2>9. CASE /\ intmis' = {} /\ g.st = "run" /\ g.ip \in Int /\ g.lc \in [1 .. 2 -> Nat] /\ g.copied \in Int
             /\ Within(p, m, g.ip, g.lc, g.copied)
    <3>1. g \in Threads
      BY <2>3, <2>9 DEF Threads, IsThread
    <3>2. QED
      BY <1>1, <2>2, <2>7, <2>8, <2>9, <3>1 DEF CopyInv, p
  <2>10. CASE i.op = "SEV" /\ intmis' \subseteq {0} /\ g = [h EXCEPT !.st = "stopped"]
    <3>1. g \in Threads /\ g.st = "stopped" /\ g.copied = h.copied
      BY <2>10 DEF Threads
    <3>2. g.copied = desc[0].n
      BY <2>2, <2>6, <2>10, <3>1
    <3>3. QED
      BY <1>1, <2>7, <2>8, <2>10, <3>1, <3>2 DEF CopyInv
  <2>11. CASE i.op = "MOV" /\ intmis' = {} /\ g.st = "run" /\ g.ip = h.ip + 6 /\ g.lc = h.lc /\ g.copied = h.copied
    <3>1. /\ intmis' = {} /\ g.st = "run" /\ g.ip \in Int /\ g.lc \in [1 .. 2 -> Nat] /\ g.copied \in Int
          /\ Within(p, m, g.ip, g.lc, g.copied)
      BY <2>4, <2>6, <2>11
    <3>2. QED
      BY <2>9, <3>1
  <2>12. CASE intmis' = {} /\ g.st = "run" /\ Moves(i, h.ip, h.lc, h.copied, g.ip, g.lc, g.copied)
    <3>1. /\ intmis' = {} /\ g.st = "run" /\ g.ip \in Int /\ g.lc \in [1 .. 2 -> Nat] /\ g.copied \in Int
          /\ Within(p, m, g.ip, g.lc, g.copied)
      BY <2>6, <2>12
    <3>2. QED
      BY <2>9, <3>1
  <2>13. QED
    BY <2>1, <2>3, <2>6, <2>10, <2>11, <2>12
<1>4. QED
  BY <1>2, <1>3

\* A request is reported as done without error only when every burst of it has been copied,
\* no more and no less, however the loops had to be split and whatever faults came before; one
\* that faulted is reported as failed.
THEOREM RequestsCopied ==
  CopiesWhole /\ Driver!Spec => CopiedExact
<1> DEFINE Copied == \A c \in Chans : running[c] /\ ~running'[c] =>
              IF c \in Faulted THEN desc[c].cb \/ desc'[c].rc = 2
              ELSE hw[c].copied = desc[c].n /\ (desc[c].cb \/ desc'[c].rc = 0)
<1>1. CopiesWhole /\ Driver!Init => CopyInv
  <2> SUFFICES ASSUME CopiesWhole, Driver!Init PROVE CopyInv
    OBVIOUS
  <2>1. Driver!Stopped \in Threads /\ Driver!Stopped.st = "stopped"
    BY DEF Driver!Stopped, Threads
  <2>2. hw = [c \in {0} |-> Driver!Stopped]
    BY DEF Driver!Init, CopiesWhole
  <2>3. hw \in [{0} -> Threads] /\ hw[0].st = "stopped"
    BY <2>1, <2>2
  <2>4. QED
    BY <2>3 DEF Driver!Init, CopyInv, CopiesWhole
<1>2. CopiesWhole /\ CopyInv /\ [Driver!Next]_(Driver!vars) => CopiesWhole' /\ CopyInv' /\ [Copied]_running
  <2> SUFFICES ASSUME CopiesWhole, CopyInv, [Driver!Next]_(Driver!vars)
               PROVE  CopyInv' /\ [Copied]_running
    BY DEF CopiesWhole, Microcode, Driver!Request
  <2>0. Chans = {0} /\ Driver!Faulted = Faulted
    BY DEF CopiesWhole, Driver!Faulted, Faulted
  <2>1. CASE Driver!Main \/ Driver!Tick
    <3>1. UNCHANGED running
      BY <2>1 DEF Driver!Main, Driver!Tick, Driver!IntenLoad, Driver!Go, Driver!WaitCheck, Driver!Wfi, Driver!swVars
    <3>2. QED
      BY <2>1, <3>1, GoStep, IdleSteps DEF Driver!Main
  <2>2. CASE Driver!AbortIsr
    <3>1. CopyInv' /\ Copied
      BY <2>0, <2>2, AbortReported
    <3>2. QED
      BY <3>1
  <2>3. CASE \E ev \in Chans : Driver!EventIsr(ev)
    <3>1. CopyInv' /\ Copied
      BY <2>0, <2>3, EventCopied
    <3>2. QED
      BY <3>1
  <2>4. CASE Driver!HwStep(0) \/ Driver!Fault(0)
    <3>1. UNCHANGED running
      BY <2>4 DEF Driver!HwStep, Driver!Fault, Driver!swVars
    <3>2. QED
      BY <2>4, <3>1, ThreadStep
  <2>5. ASSUME NEW m \in Sizes, Driver!Transfer(0, m) PROVE CopyInv' /\ Copied
    <3>1. running' = running \/ running' = [running EXCEPT ![0] = TRUE]
      BY <2>5 DEF Driver!Transfer, Driver!swVars
    <3>2. Copied
      BY <2>0, <3>1 DEF CopyInv
    <3>3. QED
      BY <2>5, <3>2, AskStep
  <2>6. CASE UNCHANGED Driver!vars
    BY <2>6 DEF Driver!vars, Driver!swVars, CopyInv
  <2> HIDE DEF Copied
  <2>7. QED
    BY <2>0, <2>1, <2>2, <2>3, <2>4, <2>5, <2>6 DEF Driver!Next, Driver!Isr
<1>3. QED
  BY <1>1, <1>2, PTL DEF Driver!Spec, CopiedExact

=============================================================================

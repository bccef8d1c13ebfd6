------------------------- MODULE CommandQueueProofs -------------------------
(***************************************************************************)
(* Theorems about CommandQueue, for every length of the queue, every set   *)
(* of links and every load below the length of the queue, when one context *)
(* enqueues: nothing is lost or misrouted (the invariant is QueueInv), and *)
(* the ring, filled and emptied statement by statement, implements the     *)
(* FIFO of CommandFifo.                                                    *)
(***************************************************************************)
EXTENDS CommandQueue, FiniteSetTheorems, SequenceTheorems, TLAPS

(* Arithmetic of the ring, free of "%". *)

\* The successor of an index wraps at QLen - 1.
LEMMA SuccWraps ==
  ASSUME NEW i \in Index
  PROVE  /\ Succ(i) = IF i = QLen - 1 THEN 0 ELSE i + 1
         /\ Succ(i) \in Index
BY QueueAssumption DEF Succ, Index

\* The number of filled slots, by comparison of the two indices.
LEMMA FilledByCases ==
  ASSUME NEW h \in Index, NEW t \in Index
  PROVE  /\ Filled(h, t) = IF h >= t THEN h - t ELSE h - t + QLen
         /\ Filled(h, t) \in Index
BY QueueAssumption DEF Filled, Index

\* Advancing the head of a ring that is not full adds exactly one live slot.
LEMMA HeadAdvances ==
  ASSUME NEW h \in Index, NEW t \in Index, Filled(h, t) < QLen - 1
  PROVE  /\ Filled(Succ(h), t) = Filled(h, t) + 1
         /\ Succ(h) # t
         /\ \A i \in Index : Between(i, Succ(h), t) <=> Between(i, h, t) \/ i = Succ(h)
<1> DEFINE h2 == Succ(h)  t2 == t
<1>1. /\ h2 \in Index /\ t2 \in Index
      /\ Succ(h) = (IF h = QLen - 1 THEN 0 ELSE h + 1)
      /\ Succ(t) = (IF t = QLen - 1 THEN 0 ELSE t + 1)
  BY SuccWraps
<1>2. /\ Filled(h, t) = (IF h >= t THEN h - t ELSE h - t + QLen)
      /\ Filled(h2, t2) = (IF h2 >= t2 THEN h2 - t2 ELSE h2 - t2 + QLen)
  BY <1>1, FilledByCases
<1>3. QLen \in Nat /\ QLen > 1 /\ h \in 0 .. QLen - 1 /\ t \in 0 .. QLen - 1
  BY QueueAssumption DEF Index
<1>4. Filled(h2, t2) = Filled(h, t) + 1 /\ h2 # t
  BY <1>1, <1>2, <1>3
<1>5. ASSUME NEW i \in Index
      PROVE  Between(i, h2, t) <=> Between(i, h, t) \/ i = h2
  BY <1>1, <1>2, <1>3 DEF Between, Index
<1>6. QED
  BY <1>4, <1>5

\* Advancing the tail of a ring that is not empty removes exactly the oldest slot.
LEMMA TailAdvances ==
  ASSUME NEW h \in Index, NEW t \in Index, h # t
  PROVE  /\ Filled(h, Succ(t)) = Filled(h, t) - 1
         /\ Between(Succ(t), h, t)
         /\ \A i \in Index : Between(i, h, Succ(t)) => Between(i, h, t)
<1> DEFINE h2 == h  t2 == Succ(t)
<1>1. /\ h2 \in Index /\ t2 \in Index
      /\ Succ(h) = (IF h = QLen - 1 THEN 0 ELSE h + 1)
      /\ Succ(t) = (IF t = QLen - 1 THEN 0 ELSE t + 1)
  BY SuccWraps
<1>2. /\ Filled(h, t) = (IF h >= t THEN h - t ELSE h - t + QLen)
      /\ Filled(h2, t2) = (IF h2 >= t2 THEN h2 - t2 ELSE h2 - t2 + QLen)
  BY <1>1, FilledByCases
<1>3. QLen \in Nat /\ QLen > 1 /\ h \in 0 .. QLen - 1 /\ t \in 0 .. QLen - 1
  BY QueueAssumption DEF Index
<1>4. Filled(h2, t2) = Filled(h, t) - 1
  BY <1>1, <1>2, <1>3
<1>5. Between(t2, h, t)
  BY <1>1, <1>3 DEF Between
<1>6. ASSUME NEW i \in Index
      PROVE  Between(i, h, t2) => Between(i, h, t)
  BY <1>1, <1>3 DEF Between, Index
<1>7. QED
  BY <1>4, <1>5, <1>6

\* The full test of cmd_enqueue compares the unwrapped successor of the head.
LEMMA FullUnwrapped ==
  ASSUME head \in Index, tail \in Index
  PROVE  QueueFull <=> head + 1 = tail
<1>1. 1 % QLen = 1
  BY QueueAssumption
<1>2. QED
  BY <1>1, QueueAssumption DEF QueueFull, Index

\* The positions of links_poll name shared-memory links.
LEMMA OrderInLinks ==
  ASSUME NEW i \in 1 .. Len(ShmOrder)
  PROVE  ShmOrder[i] \in ShmLinks
<1>1. DOMAIN ShmOrder = 1 .. Len(ShmOrder)
  BY QueueAssumption
<1>2. QED
  BY <1>1 DEF ShmLinks

\* Messages still with the clients' side are finite in number.
LEMMA WaitingFinite ==
  ASSUME NEW R \in SUBSET MboxLinks, NEW S \in SUBSET ShmLinks
  PROVE  /\ IsFiniteSet(R) /\ Cardinality(R) \in Nat
         /\ IsFiniteSet(S) /\ Cardinality(S) \in Nat
<1>1. R \in SUBSET Links /\ S \in SUBSET Links
  BY DEF Links
<1>2. IsFiniteSet(R) /\ IsFiniteSet(S)
  BY <1>1, FS_Subset, QueueAssumption
<1>3. QED
  BY <1>2, FS_CardinalityType

-----------------------------------------------------------------------------
\* The queue starts empty.
LEMMA InitInv == Init => QueueInv
<1> SUFFICES ASSUME Init PROVE QueueInv
  OBVIOUS
<1>1. TypeOK
  BY QueueAssumption DEF Init, TypeOK, Index, Slot, Empty, PCs, EnqSteps
<1>2. Count = 0
  BY <1>1, FilledByCases DEF Init, TypeOK, Count
<1>3. NothingLost
  BY <1>2, FS_EmptySet DEF Init, NothingLost, B2N, HandSteps
<1>4. \A i \in Index : ~Live(i)
  BY DEF Init, Live, Between, Index
<1>5. QED
  BY <1>1, <1>3, <1>4 DEF Init, QueueInv, NoPanic, ReplyToSender

-----------------------------------------------------------------------------
(* Steps that leave the ring, the hand and the messages under way alone.   *)

\* Steps of the main loop that leave the ring alone.
LEMMA QuietStep ==
  ASSUME QueueInv, Bounded,
         \/ PollDone \/ EnqCheck \/ EnqLoad \/ DeqEmpty
         \/ IntDisable \/ IdleCheck \/ WakeUp \/ IntEnable
  PROVE  QueueInv'
<1> USE DEF Goto, ring
<1>1. head \in Index /\ tail \in Index
  BY DEF QueueInv, TypeOK
<1>2. /\ UNCHANGED <<head, tail, slots, hand, raised, shmNew, load>>
      /\ pc \notin {"enq_link", "enq_msg", "copy_link", "copy_msg", "handle"}
      /\ pc' \notin {"enq_link", "enq_msg", "copy_link", "copy_msg", "handle"}
  BY DEF PollDone, EnqCheck, EnqLoad, DeqEmpty, IntDisable, IdleCheck, WakeUp, IntEnable
<1>3. ~QueueFull \/ pc # "enq_check"
  <2>1. QueueFull => Count = QLen - 1
    BY <1>1, FullUnwrapped, FilledByCases, QueueAssumption DEF Index, Count
  <2>2. pc = "enq_check" => Count < load
    <3>1. Cardinality(raised) \in Nat /\ Cardinality(shmNew) \in Nat
      BY WaitingFinite DEF QueueInv, TypeOK
    <3>2. Count \in Index
      BY <1>1, FilledByCases DEF Count
    <3>3. QED
      BY <3>1, <3>2 DEF QueueInv, NothingLost, B2N, HandSteps, Index
  <2>3. load < QLen
    BY QueueAssumption DEF QueueInv, TypeOK, Bounded
  <2>4. QED
    BY <2>1, <2>2, <2>3, <1>1, FilledByCases, QueueAssumption DEF QueueInv, TypeOK, Index, Count
<1>4. TypeOK'
  <2>1. Len(ShmOrder) \in Nat
    BY QueueAssumption
  <2>2. pos' \in 0 .. Len(ShmOrder) /\ (pc' \in EnqSteps => pos' > 0)
    BY <2>1 DEF QueueInv, TypeOK, EnqSteps, PollDone, EnqCheck,
       EnqLoad, DeqEmpty, IntDisable, IdleCheck, WakeUp, IntEnable
  <2>3. pc' \in PCs /\ masked' \in BOOLEAN
    BY DEF QueueInv, TypeOK, PCs, EnqSteps, HandSteps, PollDone, EnqCheck,
       EnqLoad, DeqEmpty, IntDisable, IdleCheck, WakeUp, IntEnable
  <2>4. reg' \in Index
    BY <1>1 DEF QueueInv, TypeOK, PollDone, EnqCheck,
       EnqLoad, DeqEmpty, IntDisable, IdleCheck, WakeUp, IntEnable
  <2>5. QED
    BY <1>2, <2>2, <2>3, <2>4 DEF QueueInv, TypeOK
<1>5. pc' # "panic" /\ (pc' \in {"enq_check", "enq_load", "enq_store"}
                         <=> pc \in {"enq_check", "enq_load", "enq_store"})
  BY <1>3 DEF QueueInv, NoPanic, PollDone, EnqCheck,
     EnqLoad, DeqEmpty, IntDisable, IdleCheck, WakeUp, IntEnable
<1>6. NothingLost'
  BY <1>2, <1>5 DEF QueueInv, NoPanic, NothingLost, Count, B2N, HandSteps
<1>7. pc' = "enq_store" => reg' = head'
  BY <1>2 DEF PollDone, EnqCheck, EnqLoad, DeqEmpty, IntDisable, IdleCheck, WakeUp, IntEnable
<1>8. \A i \in Index : Live(i)' /\ ~Filling(i)' => Whole(slots'[i])
  BY <1>2 DEF QueueInv, Live, Filling
<1>9. QED
  BY <1>2, <1>4, <1>5, <1>6, <1>7, <1>8 DEF QueueInv, NoPanic, ReplyToSender, Whole, Live, Filling

-----------------------------------------------------------------------------
(* A client sends a command.                                               *)

\* A client sends a command, by a mailbox or through shared memory.
LEMMA SendStep ==
  ASSUME QueueInv,
         \/ \E l \in MboxLinks : SendMbox(l)
         \/ \E l \in ShmLinks : SendShm(l)
  PROVE  QueueInv'
<1>1. /\ UNCHANGED <<head, tail, slots, hand, pc, pos, reg, masked>>
      /\ load' = load + 1 /\ load < MaxLoad
  BY DEF SendMbox, SendShm, ring
<1>2. /\ raised' \subseteq MboxLinks /\ shmNew' \subseteq ShmLinks
      /\ Cardinality(raised') + Cardinality(shmNew')
           = Cardinality(raised) + Cardinality(shmNew) + 1
  <2>1. CASE \E l \in MboxLinks : SendMbox(l)
    <3>1. PICK l \in MboxLinks : SendMbox(l)
      BY <2>1
    <3>2. l \notin raised /\ raised' = raised \cup {l} /\ shmNew' = shmNew
      BY <3>1 DEF SendMbox
    <3>3. Cardinality(raised') = Cardinality(raised) + 1
      BY <3>2, WaitingFinite, FS_AddElement DEF QueueInv, TypeOK
    <3>4. QED
      BY <3>2, <3>3, WaitingFinite DEF QueueInv, TypeOK
  <2>2. CASE \E l \in ShmLinks : SendShm(l)
    <3>1. PICK l \in ShmLinks : SendShm(l)
      BY <2>2
    <3>2. l \notin shmNew /\ shmNew' = shmNew \cup {l} /\ raised' = raised
      BY <3>1 DEF SendShm
    <3>3. Cardinality(shmNew') = Cardinality(shmNew) + 1
      BY <3>2, WaitingFinite, FS_AddElement DEF QueueInv, TypeOK
    <3>4. QED
      BY <3>2, <3>3, WaitingFinite DEF QueueInv, TypeOK
  <2>3. QED
    BY <2>1, <2>2
<1>3. TypeOK'
  BY <1>1, <1>2, QueueAssumption DEF QueueInv, TypeOK
<1>4. NothingLost'
  <2>1. /\ Cardinality(raised) \in Nat /\ Cardinality(shmNew) \in Nat
        /\ Cardinality(raised') \in Nat /\ Cardinality(shmNew') \in Nat
    BY <1>2, WaitingFinite DEF QueueInv, TypeOK
  <2>2. Count' = Count /\ Count \in Int
    BY <1>1, FilledByCases DEF QueueInv, TypeOK, Count, Index
  <2>3. QED
    BY <1>1, <1>2, <2>1, <2>2 DEF QueueInv, TypeOK, NoPanic, NothingLost, B2N
<1>5. QED
  BY <1>1, <1>3, <1>4 DEF QueueInv, NoPanic, ReplyToSender, Whole, Live, Filling

-----------------------------------------------------------------------------
(* The receive interrupt.                                                  *)

\* Where the interrupt enqueues, links_poll has no link to poll.
LEMMA NoShmLinks ==
  ASSUME OneProducer, NEW l \in MboxLinks
  PROVE  ShmLinks = {} /\ Len(ShmOrder) = 0
BY DEF OneProducer, ShmLinks

\* The interrupt handler fills a whole slot.
LEMMA HandleCmdStep ==
  ASSUME QueueInv, Bounded, OneProducer, NEW l \in MboxLinks, HandleCmd(l)
  PROVE  QueueInv'
<1>1. /\ head \in Index /\ tail \in Index
      /\ raised \in SUBSET MboxLinks /\ shmNew \in SUBSET ShmLinks
      /\ load <= QLen - 1 /\ load \in Nat
      /\ slots \in [Index -> Slot]
  BY QueueAssumption DEF QueueInv, TypeOK, Bounded
<1>2. pc \notin EnqSteps /\ pos = 0
  BY NoShmLinks DEF QueueInv, TypeOK
<1>3. /\ Cardinality(raised) \in Nat /\ Cardinality(shmNew) \in Nat
      /\ Cardinality(raised') = Cardinality(raised) - 1 /\ Cardinality(raised') \in Nat
  BY <1>1, WaitingFinite, FS_RemoveElement DEF HandleCmd
<1>4. Count < QLen - 1 /\ Count \in Index
  <2>1. Count \in Index
    BY <1>1, FilledByCases DEF Count
  <2>2. B2N(pc \in {"enq_check", "enq_load", "enq_store"}) = 0
    BY <1>2 DEF B2N, EnqSteps
  <2>3. B2N(pc \in HandSteps) \in 0 .. 1
    BY DEF B2N
  <2>4. load = Cardinality(raised) + Cardinality(shmNew) + Count + B2N(pc \in HandSteps)
    BY <1>1, <1>3, <2>1, <2>2, <2>3 DEF QueueInv, NoPanic, NothingLost, Index
  <2>5. QED
    BY <1>1, <1>3, <2>1, <2>3, <2>4, QueueAssumption DEF Index
<1>5. ~QueueFull
  BY <1>1, <1>4, FullUnwrapped, FilledByCases, QueueAssumption DEF Count, Index
<1>6. /\ head' = Succ(head) /\ head' \in Index /\ tail' = tail /\ pc' = pc
      /\ slots' = [slots EXCEPT ![head'] = [link |-> l, msg |-> l]]
      /\ UNCHANGED <<hand, pos, reg, masked, shmNew, load>>
      /\ raised' = raised \ {l}
  BY <1>1, <1>5, SuccWraps DEF HandleCmd
<1>7. /\ Count' = Count + 1 /\ head' # tail
      /\ \A i \in Index : Live(i)' <=> Live(i) \/ i = head'
  BY <1>1, <1>4, <1>6, HeadAdvances DEF Count, Live
<1>8. TypeOK'
  <2>1. [link |-> l, msg |-> l] \in Slot
    BY DEF Slot, Links
  <2>2. slots' \in [Index -> Slot]
    BY <1>1, <1>6, <2>1
  <2>3. QED
    BY <1>1, <1>6, <2>2 DEF QueueInv, TypeOK
<1>9. NothingLost'
  <2>1. /\ B2N(pc \in HandSteps)' = B2N(pc \in HandSteps)
        /\ B2N(pc \in {"enq_check", "enq_load", "enq_store"})'
             = B2N(pc \in {"enq_check", "enq_load", "enq_store"})
        /\ B2N(pc \in HandSteps) \in 0 .. 1
        /\ B2N(pc \in {"enq_check", "enq_load", "enq_store"}) \in 0 .. 1
    BY <1>6 DEF B2N
  <2>2. Count \in Int /\ load' = load
    BY <1>4, <1>6 DEF Index
  <2>3. QED
    BY <1>3, <1>6, <1>7, <2>1, <2>2 DEF QueueInv, NoPanic, NothingLost
<1>10. slots'[tail] = slots[tail]
  BY <1>1, <1>6, <1>7
<1>11. \A i \in Index : Live(i)' /\ ~Filling(i)' => Whole(slots'[i])
  <2> SUFFICES ASSUME NEW i \in Index, Live(i)' PROVE Whole(slots'[i])
    OBVIOUS
  <2>1. CASE i = head'
    BY <1>1, <1>6, <2>1, QueueAssumption DEF Whole, Links
  <2>2. CASE i # head'
    BY <1>1, <1>2, <1>6, <1>7, <2>2 DEF QueueInv, Filling, EnqSteps
  <2>3. QED
    BY <2>1, <2>2
<1>12. QED
  BY <1>2, <1>6, <1>8, <1>9, <1>10, <1>11
     DEF QueueInv, NoPanic, ReplyToSender, Whole, EnqSteps

-----------------------------------------------------------------------------
(* The main loop takes a message from shared memory and enqueues it.       *)

\* Where links_poll enqueues, no interrupt does.
LEMMA NoMboxLinks ==
  ASSUME QueueInv, OneProducer, pos > 0
  PROVE  MboxLinks = {} /\ raised = {} /\ ShmOrder[pos] \in ShmLinks
<1>1. pos \in 1 .. Len(ShmOrder)
  BY QueueAssumption DEF QueueInv, TypeOK
<1>2. QED
  BY <1>1, OrderInLinks, QueueAssumption DEF OneProducer, QueueInv, TypeOK

\* links_poll finds a command or goes on to the next link.
LEMMA PollLinkStep ==
  ASSUME QueueInv, PollLink
  PROVE  QueueInv'
<1> DEFINE l == ShmOrder[pos + 1]
<1>1. /\ Len(ShmOrder) \in Nat /\ pos \in Nat /\ pos' = pos + 1 /\ pos' <= Len(ShmOrder)
      /\ UNCHANGED <<head, tail, slots, hand, reg, masked, raised, load>>
      /\ pc = "poll" /\ pc' \in {"poll", "enq_check"}
  BY QueueAssumption DEF QueueInv, TypeOK, PollLink, ring
<1>2. raised \in SUBSET MboxLinks /\ shmNew \in SUBSET ShmLinks /\ Count \in Int /\ load \in Int
  BY FilledByCases DEF QueueInv, TypeOK, Count, Index
<1>3. Cardinality(raised) \in Nat /\ Cardinality(shmNew) \in Nat /\ IsFiniteSet(shmNew)
  BY <1>2, WaitingFinite
<1>4. shmNew' \subseteq ShmLinks
  BY <1>2 DEF PollLink
<1>5. TypeOK'
  BY <1>1, <1>4 DEF QueueInv, TypeOK, PCs, EnqSteps
<1>6. NothingLost'
  <2>1. load = Cardinality(raised) + Cardinality(shmNew) + Count
    BY <1>1, <1>2, <1>3 DEF QueueInv, NothingLost, B2N, HandSteps
  <2>2. Count' = Count
    BY <1>1 DEF Count
  <2>3. CASE l \in shmNew
    <3>1. pc' = "enq_check" /\ shmNew' = shmNew \ {l}
      BY <2>3 DEF PollLink
    <3>2. Cardinality(shmNew') = Cardinality(shmNew) - 1
      BY <1>3, <2>3, <3>1, FS_RemoveElement
    <3>3. QED
      BY <1>1, <1>2, <1>3, <2>1, <2>2, <3>1, <3>2 DEF NothingLost, B2N, HandSteps
  <2>4. CASE l \notin shmNew
    <3>1. pc' = "poll" /\ shmNew' = shmNew
      BY <1>1, <2>4 DEF PollLink
    <3>2. QED
      BY <1>1, <1>2, <1>3, <2>1, <2>2, <3>1 DEF NothingLost, B2N, HandSteps
  <2>5. QED
    BY <2>3, <2>4
<1>7. QED
  BY <1>1, <1>5, <1>6 DEF QueueInv, NoPanic, ReplyToSender, Whole, Live, Filling

\* cmd_enqueue stores the head: the slot counts before it is filled.
LEMMA EnqStoreStep ==
  ASSUME QueueInv, Bounded, EnqStore
  PROVE  QueueInv'
<1>1. /\ pc = "enq_store" /\ pc' = "enq_link"
      /\ head \in Index /\ tail \in Index /\ head' = Succ(head) /\ head' \in Index
      /\ UNCHANGED <<tail, slots, hand, pos, reg, masked, raised, shmNew, load>>
  BY SuccWraps DEF QueueInv, TypeOK, EnqStore, Goto
<1>2. /\ Cardinality(raised) \in Nat /\ Cardinality(shmNew) \in Nat
      /\ load \in Nat /\ load < QLen /\ Count \in Index
  BY <1>1, WaitingFinite, FilledByCases, QueueAssumption DEF QueueInv, TypeOK, Bounded, Count
<1>3. load = Cardinality(raised) + Cardinality(shmNew) + Count + 1
  BY <1>1, <1>2 DEF QueueInv, NothingLost, B2N, HandSteps, Index
<1>4. Count < QLen - 1
  BY <1>2, <1>3, QueueAssumption DEF Index
<1>5. /\ Count' = Count + 1 /\ head' # tail
      /\ \A i \in Index : Live(i)' <=> Live(i) \/ i = head'
  BY <1>1, <1>4, HeadAdvances DEF Count, Live
<1>6. TypeOK'
  BY <1>1 DEF QueueInv, TypeOK, PCs, EnqSteps
<1>7. NothingLost'
  BY <1>1, <1>2, <1>3, <1>5 DEF NothingLost, B2N, HandSteps, Index
<1>8. \A i \in Index : Live(i)' /\ ~Filling(i)' => Whole(slots'[i])
  BY <1>1, <1>5 DEF QueueInv, Filling
<1>9. QED
  BY <1>1, <1>5, <1>6, <1>7, <1>8 DEF QueueInv, NoPanic, ReplyToSender

\* cmd_enqueue fills the slot it has claimed.
LEMMA EnqFillStep ==
  ASSUME QueueInv, OneProducer, EnqLink \/ EnqMsg
  PROVE  QueueInv'
<1> DEFINE l == ShmOrder[pos]
<1>1. /\ pc \in {"enq_link", "enq_msg"} /\ pc' \in {"enq_msg", "poll"}
      /\ UNCHANGED <<head, tail, hand, pos, reg, masked, raised, shmNew, load>>
      /\ head \in Index /\ slots \in [Index -> Slot]
  BY DEF QueueInv, TypeOK, EnqLink, EnqMsg, Goto
<1>2. l \in ShmLinks /\ l \in Links /\ l # NoCmd
  <2>1. pos > 0
    BY <1>1 DEF QueueInv, TypeOK, EnqSteps
  <2>2. QED
    BY <2>1, NoMboxLinks, QueueAssumption DEF Links
<1>3. /\ slots' \in [Index -> Slot]
      /\ slots'[head] = IF pc = "enq_link" THEN [slots[head] EXCEPT !.link = l]
                                           ELSE [slots[head] EXCEPT !.msg = l]
      /\ \A i \in Index : i # head => slots'[i] = slots[i]
  BY <1>1, <1>2 DEF EnqLink, EnqMsg, Slot, Goto
<1>4. TypeOK'
  BY <1>1, <1>3 DEF QueueInv, TypeOK, PCs, EnqSteps, EnqLink, EnqMsg, Goto
<1>5. NothingLost'
  BY <1>1 DEF QueueInv, NothingLost, Count, B2N, HandSteps
<1>6. \A i \in Index : Live(i)' /\ ~Filling(i)' => Whole(slots'[i])
  <2> SUFFICES ASSUME NEW i \in Index, Live(i)', ~Filling(i)' PROVE Whole(slots'[i])
    OBVIOUS
  <2>1. CASE i # head
    BY <1>1, <1>3, <2>1 DEF QueueInv, Live, Filling, Whole
  <2>2. CASE i = head
    <3>1. pc = "enq_msg"
      BY <1>1, <2>2 DEF Filling, EnqLink, EnqMsg, Goto
    <3>2. slots[head].link = l /\ slots[head] \in Slot
      BY <1>1, <3>1 DEF QueueInv
    <3>3. QED
      BY <1>2, <1>3, <2>2, <3>1, <3>2 DEF Whole, Slot
  <2>3. QED
    BY <2>1, <2>2
<1>7. pc' = "enq_msg" => slots'[head].link = l
  <2>1. pc' = "enq_msg" => pc = "enq_link"
    BY DEF EnqLink, EnqMsg, Goto
  <2>2. slots[head] \in Slot
    BY <1>1
  <2>3. QED
    BY <1>3, <2>1, <2>2 DEF Slot
<1>8. QED
  BY <1>1, <1>4, <1>5, <1>6, <1>7 DEF QueueInv, NoPanic, ReplyToSender

-----------------------------------------------------------------------------
(* The main loop takes a command out of the queue and handles it.          *)

\* cmd_dequeue moves the tail: the slot is free before it is copied out.
LEMMA DeqTakeStep ==
  ASSUME QueueInv, DeqTake
  PROVE  QueueInv'
<1>1. /\ pc = "drain" /\ pc' = "copy_link" /\ head # tail
      /\ head \in Index /\ tail \in Index /\ tail' = Succ(tail) /\ tail' \in Index
      /\ UNCHANGED <<head, slots, hand, pos, reg, masked, raised, shmNew, load>>
  BY SuccWraps DEF QueueInv, TypeOK, DeqTake, Pending, Goto
<1>2. /\ Count' = Count - 1 /\ Live(tail')
      /\ \A i \in Index : Live(i)' => Live(i)
  BY <1>1, TailAdvances DEF Count, Live
<1>3. TypeOK'
  BY <1>1 DEF QueueInv, TypeOK, PCs, EnqSteps, HandSteps
<1>4. NothingLost'
  <2>1. Cardinality(raised) \in Nat /\ Cardinality(shmNew) \in Nat /\ Count \in Index
    BY <1>1, WaitingFinite, FilledByCases DEF QueueInv, TypeOK, Count
  <2>2. QED
    BY <1>1, <1>2, <2>1 DEF QueueInv, NothingLost, B2N, HandSteps, Index
<1>5. \A i \in Index : Live(i)' => Whole(slots'[i])
  BY <1>1, <1>2 DEF QueueInv, Filling
<1>6. Whole(slots'[tail'])
  BY <1>1, <1>2 DEF QueueInv, Filling
<1>7. QED
  BY <1>1, <1>3, <1>4, <1>5, <1>6 DEF QueueInv, NoPanic, ReplyToSender, Whole

\* cmd_dequeue copies the slot out.
LEMMA CopyStep ==
  ASSUME QueueInv, CopyLink \/ CopyMsg
  PROVE  QueueInv'
<1> USE DEF Goto, ring
<1>1. /\ pc \in {"copy_link", "copy_msg"} /\ pc' \in {"copy_msg", "handle"}
      /\ pc = "copy_link" <=> pc' = "copy_msg"
      /\ tail \in Index /\ slots[tail] \in Slot /\ hand \in Slot
      /\ UNCHANGED <<head, tail, slots, pos, reg, masked, raised, shmNew, load>>
  BY DEF QueueInv, TypeOK, CopyLink, CopyMsg
<1>2. Whole(slots[tail])
  BY <1>1 DEF QueueInv
<1>3. /\ hand' \in Slot
      /\ pc' = "copy_msg" => hand'.link = slots[tail].link
      /\ pc' = "handle" => hand'.link = hand'.msg /\ hand'.msg # NoCmd
  BY <1>1, <1>2 DEF QueueInv, CopyLink, CopyMsg, Slot, Whole
<1>4. TypeOK'
  BY <1>1, <1>3 DEF QueueInv, TypeOK, PCs, EnqSteps, HandSteps
<1>5. NothingLost'
  BY <1>1 DEF QueueInv, NothingLost, Count, B2N, HandSteps
<1>6. QED
  BY <1>1, <1>2, <1>3, <1>4, <1>5 DEF QueueInv, NoPanic, ReplyToSender, Whole, Live, Filling

\* The server is done with the command in hand.
LEMMA CmdHandleStep ==
  ASSUME QueueInv, CmdHandle
  PROVE  QueueInv'
<1>1. /\ pc = "handle" /\ pc' = "drain" /\ hand' = Empty /\ load' = load - 1
      /\ UNCHANGED <<head, tail, slots, pos, reg, masked, raised, shmNew>>
  BY DEF CmdHandle, Goto, ring
<1>2. /\ Cardinality(raised) \in Nat /\ Cardinality(shmNew) \in Nat
      /\ Count \in Index /\ load \in Nat
  <2>1. /\ head \in Index /\ tail \in Index /\ load \in 0 .. MaxLoad
        /\ raised \in SUBSET MboxLinks /\ shmNew \in SUBSET ShmLinks
    BY DEF QueueInv, TypeOK
  <2>2. Count \in Index
    BY <2>1, FilledByCases DEF Count
  <2>3. QED
    BY <2>1, <2>2, WaitingFinite, QueueAssumption
<1>3. load = Cardinality(raised) + Cardinality(shmNew) + Count + 1
  BY <1>1, <1>2 DEF QueueInv, NothingLost, B2N, HandSteps, Index
<1>4. TypeOK'
  BY <1>1, <1>2, <1>3, QueueAssumption
     DEF QueueInv, TypeOK, PCs, EnqSteps, Empty, Slot, Index
<1>5. NothingLost'
  BY <1>1, <1>2, <1>3 DEF NothingLost, Count, B2N, HandSteps, Index
<1>6. QED
  BY <1>1, <1>4, <1>5 DEF QueueInv, NoPanic, ReplyToSender, Whole, Live, Filling

-----------------------------------------------------------------------------
\* Each step keeps the invariant.
LEMMA NextInv ==
  ASSUME QueueInv, Bounded, OneProducer, [Next]_vars
  PROVE  QueueInv'
<1>1. CASE PollDone \/ EnqCheck \/ EnqLoad \/ DeqEmpty \/ Idle
  BY <1>1, QuietStep DEF Idle
<1>2. CASE Clients
  BY <1>2, SendStep DEF Clients
<1>3. CASE \E l \in MboxLinks : HandleCmd(l)
  BY <1>3, HandleCmdStep
<1>4. CASE PollLink
  BY <1>4, PollLinkStep
<1>5. CASE EnqStore
  BY <1>5, EnqStoreStep
<1>6. CASE EnqLink \/ EnqMsg
  BY <1>6, EnqFillStep
<1>7. CASE DeqTake
  BY <1>7, DeqTakeStep
<1>8. CASE CopyLink \/ CopyMsg
  BY <1>8, CopyStep
<1>9. CASE CmdHandle
  BY <1>9, CmdHandleStep
<1>10. CASE UNCHANGED vars
  BY <1>10 DEF vars, QueueInv, TypeOK, NothingLost, NoPanic, ReplyToSender,
     Live, Filling, Count, Whole
<1>11. QED
  BY <1>1, <1>2, <1>3, <1>4, <1>5, <1>6, <1>7, <1>8, <1>9, <1>10
     DEF Next, Main, Enqueue, Dequeue

\* With fewer outstanding commands than slots and one enqueuing context, the
\* ring, the mailboxes and the main loop's hands stay consistent.
THEOREM QueueInvariant ==
  ASSUME Bounded, OneProducer
  PROVE  Spec => []QueueInv
<1>1. QueueInv /\ [Next]_vars => QueueInv'
  BY NextInv
<1>2. QED
  BY <1>1, InitInv, PTL DEF Spec

\* Variables stay in their types.
THEOREM TypeCorrect ==
  ASSUME Bounded, OneProducer
  PROVE  Spec => []TypeOK
<1>1. QueueInv => TypeOK
  BY DEF QueueInv
<1>2. QED
  BY <1>1, QueueInvariant, PTL

\* No command that a client sent disappears or is duplicated in the ring.
THEOREM CommandsConserved ==
  ASSUME Bounded, OneProducer
  PROVE  Spec => []NothingLost
<1>1. QueueInv => NothingLost
  BY DEF QueueInv
<1>2. QED
  BY <1>1, QueueInvariant, PTL

\* A command is handled with the link it came on.
THEOREM RepliesToSender ==
  ASSUME Bounded, OneProducer
  PROVE  Spec => []ReplyToSender
<1>1. QueueInv => ReplyToSender
  BY DEF QueueInv
<1>2. QED
  BY <1>1, QueueInvariant, PTL

\* The full test never stops TRCH.
THEOREM NeverPanics ==
  ASSUME Bounded, OneProducer
  PROVE  Spec => []NoPanic
<1>1. QueueInv => NoPanic
  BY DEF QueueInv
<1>2. QED
  BY <1>1, QueueInvariant, PTL

-----------------------------------------------------------------------------
(* The FIFO                                                                 *)

(* The refinement mapping of Fifo, by name. *)
Msgs(n) == [i \in 1 .. n |-> slots[(tail + i) % QLen].msg]
Current == CASE pc \in {"copy_link", "copy_msg"} -> slots[tail].msg
             [] pc = "handle" -> hand.msg
             [] OTHER -> NoCmd

\* The i-th slot ahead of the tail, free of "%".
LEMMA SlotAhead ==
  ASSUME NEW t \in Index, NEW i \in 1 .. QLen
  PROVE  /\ (t + i) % QLen = IF t + i < QLen THEN t + i ELSE t + i - QLen
         /\ (t + i) % QLen \in Index
BY QueueAssumption DEF Index

\* Sequences given by a function on 1 .. n: one element more, one fewer.
LEMMA SequencePushed ==
  ASSUME NEW S, NEW n \in Nat, NEW f \in [1 .. n + 1 -> S]
  PROVE  f = Append([i \in 1 .. n |-> f[i]], f[n + 1])
<1> DEFINE g == [i \in 1 .. n |-> f[i]]
<1>1. g \in Seq(S) /\ Len(g) = n /\ f[n + 1] \in S
  OBVIOUS
<1> DEFINE h == Append(g, f[n + 1])
<1>2. /\ h \in Seq(S) /\ Len(h) = n + 1 /\ h[n + 1] = f[n + 1]
      /\ \A i \in 1 .. n : h[i] = g[i]
  BY <1>1, AppendProperties
<1>3. f \in Seq(S) /\ Len(f) = n + 1
  OBVIOUS
<1>4. \A i \in 1 .. n : g[i] = f[i]
  OBVIOUS
<1>5. \A i \in 1 .. Len(f) : f[i] = h[i]
  BY <1>2, <1>3, <1>4
<1> HIDE DEF h
<1>6. f = h
  BY <1>2, <1>3, <1>5, SeqEqual
<1>7. QED
  BY <1>6 DEF h

\* The head and the tail of a sequence given as a function.
LEMMA SequencePopped ==
  ASSUME NEW S, NEW n \in Nat \ {0}, NEW f \in [1 .. n -> S]
  PROVE  f # <<>> /\ Head(f) = f[1] /\ Tail(f) = [i \in 1 .. n - 1 |-> f[i + 1]]
<1> DEFINE g == [i \in 1 .. n - 1 |-> f[i + 1]]
           h == Tail(f)
<1>1. f \in Seq(S) /\ Len(f) = n /\ f # <<>>
  OBVIOUS
<1>2. Head(f) = f[1]
  BY <1>1
<1>3. h \in Seq(S) /\ Len(h) = n - 1 /\ \A i \in 1 .. Len(h) : h[i] = f[i + 1]
  BY <1>1, HeadTailProperties
<1>4. g \in Seq(S) /\ Len(g) = n - 1 /\ \A i \in 1 .. n - 1 : g[i] = f[i + 1]
  OBVIOUS
<1> HIDE DEF g, h
<1>5. g = h
  BY <1>3, <1>4, SeqEqual
<1>6. QED
  BY <1>1, <1>2, <1>5 DEF g, h

\* The head is as many slots ahead of the tail as are filled.
LEMMA HeadAhead ==
  ASSUME NEW h \in Index, NEW t \in Index
  PROVE  h = (t + Filled(h, t)) % QLen
<1> DEFINE n == Filled(h, t)
<1>1. n = (IF h >= t THEN h - t ELSE h - t + QLen) /\ n \in Index
  BY FilledByCases
<1> HIDE DEF n
<1>2. QLen \in Nat /\ QLen > 1 /\ h \in 0 .. QLen - 1 /\ t \in 0 .. QLen - 1
  BY QueueAssumption DEF Index
<1>3. CASE n = 0
  <2>1. h = t /\ t + n = t
    BY <1>1, <1>2, <1>3
  <2>2. t % QLen = t
    BY <1>2
  <2>3. QED
    BY <2>1, <2>2 DEF n
<1>4. CASE n # 0
  <2>1. n \in 1 .. QLen
    BY <1>1, <1>2, <1>4 DEF Index
  <2>2. (t + n) % QLen = IF t + n < QLen THEN t + n ELSE t + n - QLen
    BY <2>1, SlotAhead
  <2>3. QED
    BY <1>1, <1>2, <2>2 DEF n
<1>5. QED
  BY <1>3, <1>4

\* The accepted commands ahead of the tail are the slots the ring counts.
LEMMA Counted ==
  ASSUME QueueInv
  PROVE  /\ Count \in 0 .. QLen - 1 /\ Accepted \in 0 .. QLen - 1
         /\ head = (tail + Count) % QLen
         /\ tail \in Index /\ head \in Index /\ slots \in [Index -> Slot] /\ hand \in Slot
         /\ QLen \in Nat /\ QLen > 1
<1>1. tail \in Index /\ head \in Index /\ slots \in [Index -> Slot] /\ hand \in Slot
  BY DEF QueueInv, TypeOK
<1>2. QLen \in Nat /\ QLen > 1
  BY QueueAssumption
<1>3. Count = (IF head >= tail THEN head - tail ELSE head - tail + QLen) /\ Count \in Index
  BY <1>1, FilledByCases DEF Count
<1>4. head = (tail + Count) % QLen
  BY <1>1, HeadAhead DEF Count
<1>5. Accepted \in 0 .. QLen - 1
  <2>1. pc \in {"enq_link", "enq_msg"} => Count # 0
    BY <1>1, <1>2, <1>3 DEF QueueInv, Index
  <2>2. QED
    BY <1>2, <1>3, <2>1 DEF Accepted, B2N, Index
<1>6. QED
  BY <1>1, <1>2, <1>3, <1>4, <1>5 DEF Index

Msg == Links \cup {NoCmd}

\* The accepted commands form a sequence of messages.
LEMMA MsgsAreSequence ==
  ASSUME QueueInv, NEW n \in 0 .. QLen - 1
  PROVE  /\ Msgs(n) \in [1 .. n -> Msg]
         /\ \A i \in 1 .. n : (tail + i) % QLen \in Index /\ Msgs(n)[i] = slots[(tail + i) % QLen].msg
<1>1. ASSUME NEW i \in 1 .. n
      PROVE  (tail + i) % QLen \in Index /\ slots[(tail + i) % QLen].msg \in Msg
  <2>1. tail \in Index /\ i \in 1 .. QLen
    BY Counted, QueueAssumption
  <2>2. (tail + i) % QLen \in Index
    BY <2>1, SlotAhead
  <2>3. QED
    BY <2>2, Counted DEF Slot, Msg
<1>2. QED
  BY <1>1 DEF Msgs

\* Slots ahead of the tail, up to n of them, are not changed by a step: nor are
\* the messages in them.
LEMMA SameMsgs ==
  ASSUME QueueInv, NEW n \in 0 .. QLen - 1, tail' = tail,
         \A i \in 1 .. n : slots'[(tail + i) % QLen].msg = slots[(tail + i) % QLen].msg
  PROVE  [i \in 1 .. n |-> slots'[(tail' + i) % QLen].msg] = Msgs(n)
BY DEF Msgs

-----------------------------------------------------------------------------
(* Steps the FIFO does not see                                              *)

\* Sending, polling, the first half of cmd_enqueue and sleeping leave the FIFO alone.
LEMMA StutterStep ==
  ASSUME QueueInv, QueueInv', OneProducer,
         \/ Clients \/ PollLink \/ PollDone \/ EnqCheck \/ EnqLoad \/ DeqEmpty
         \/ Idle \/ CopyLink \/ UNCHANGED vars
  PROVE  Msgs(Accepted)' = Msgs(Accepted) /\ Current' = Current
<1>1. /\ UNCHANGED ring
      /\ pc \in {"enq_link", "enq_msg"} <=> pc' \in {"enq_link", "enq_msg"}
      /\ pc \in {"copy_link", "copy_msg"} <=> pc' \in {"copy_link", "copy_msg"}
      /\ pc = "handle" <=> pc' = "handle"
  BY DEF Clients, SendMbox, SendShm, PollLink, PollDone, EnqCheck, EnqLoad, DeqEmpty,
         Idle, IntDisable, IdleCheck, WakeUp, IntEnable, CopyLink, Goto, vars, ring
<1>2. pc = "handle" => hand' = hand
  BY DEF Clients, SendMbox, SendShm, PollLink, PollDone, EnqCheck, EnqLoad, DeqEmpty,
         Idle, IntDisable, IdleCheck, WakeUp, IntEnable, CopyLink, Goto, vars
<1>3. Accepted' = Accepted
  BY <1>1 DEF Accepted, Count, B2N, ring
<1>4. QED
  BY <1>1, <1>2, <1>3 DEF Msgs, Current, ring

\* Between moving the head and moving it back into view by EnqMsg the new slot
\* is not counted.
LEMMA EnqStoreHidden ==
  ASSUME QueueInv, QueueInv', EnqStore
  PROVE  Msgs(Accepted)' = Msgs(Accepted) /\ Current' = Current
<1>1. /\ pc = "enq_store" /\ pc' = "enq_link" /\ head' = Succ(head) /\ head' # tail
      /\ UNCHANGED <<tail, slots, hand>>
  BY DEF EnqStore, Goto, QueueInv
<1>2. head \in Index /\ tail \in Index /\ head' \in Index
  BY <1>1, Counted, SuccWraps
<1>3. Count' = Count + 1
  <2>1. Count = IF head >= tail THEN head - tail ELSE head - tail + QLen
    BY <1>2, FilledByCases DEF Count
  <2>2. Count' = IF head' >= tail THEN head' - tail ELSE head' - tail + QLen
    BY <1>1, <1>2, FilledByCases DEF Count
  <2>3. head' = IF head = QLen - 1 THEN 0 ELSE head + 1
    BY <1>1, <1>2, SuccWraps
  <2>4. QED
    BY <1>1, <1>2, <2>1, <2>2, <2>3, QueueAssumption DEF Index
<1>4. Accepted' = Accepted
  BY <1>1, <1>2, <1>3, FilledByCases DEF Accepted, B2N, Count, Index
<1>5. QED
  BY <1>1, <1>4 DEF Msgs, Current

\* A slot that is half filled is not yet in the FIFO.
LEMMA EnqLinkHidden ==
  ASSUME QueueInv, QueueInv', EnqLink
  PROVE  Msgs(Accepted)' = Msgs(Accepted) /\ Current' = Current
<1>1. /\ pc = "enq_link" /\ pc' = "enq_msg" /\ UNCHANGED <<head, tail, hand>>
      /\ slots \in [Index -> Slot]
      /\ slots' = [slots EXCEPT ![head].link = ShmOrder[pos]]
  BY Counted DEF EnqLink, Goto
<1>2. \A i \in Index : slots'[i].msg = slots[i].msg
  BY <1>1 DEF Slot
<1>3. Accepted' = Accepted /\ Accepted \in 0 .. QLen - 1
  BY <1>1, Counted DEF Accepted, Count, B2N
<1>4. \A i \in 1 .. Accepted : slots'[(tail + i) % QLen].msg = slots[(tail + i) % QLen].msg
  BY <1>2, <1>3, MsgsAreSequence
<1>5. Msgs(Accepted)' = Msgs(Accepted)
  BY <1>1, <1>3, <1>4 DEF Msgs
<1>6. QED
  BY <1>1, <1>5 DEF Current

\* The command being copied out is the current one from the move of the tail on.
LEMMA CopyMsgHidden ==
  ASSUME QueueInv, CopyMsg
  PROVE  Msgs(Accepted)' = Msgs(Accepted) /\ Current' = Current
<1>1. /\ pc = "copy_msg" /\ pc' = "handle" /\ UNCHANGED <<head, tail, slots>>
      /\ hand' = [hand EXCEPT !.msg = slots[tail].msg] /\ hand \in Slot
  BY Counted DEF CopyMsg, Goto, ring
<1>2. hand'.msg = slots[tail].msg
  BY <1>1 DEF Slot
<1>3. QED
  BY <1>1, <1>2 DEF Msgs, Current, Accepted, Count, B2N

-----------------------------------------------------------------------------
(* Steps that accept, take and finish a command                             *)

\* The accepted commands grow by the one in the slot at the head.
LEMMA Pushed ==
  ASSUME QueueInv, QueueInv', tail' = tail,
         Accepted' = Accepted + 1, Accepted' < QLen,
         head' = (tail + Accepted') % QLen,
         \A i \in 1 .. Accepted : slots'[(tail + i) % QLen].msg = slots[(tail + i) % QLen].msg
  PROVE  Msgs(Accepted)' = Append(Msgs(Accepted), slots'[head'].msg)
<1> DEFINE n == Accepted
           f == Msgs(Accepted)'
<1>1. n \in 0 .. QLen - 1 /\ n + 1 \in 0 .. QLen - 1 /\ n \in Nat
  BY Counted, QueueAssumption
<1>2. f = [i \in 1 .. n + 1 |-> slots'[(tail + i) % QLen].msg]
  BY DEF Msgs
<1>3. ASSUME NEW i \in 1 .. n + 1 PROVE slots'[(tail + i) % QLen].msg \in Msg
  <2>1. tail \in Index /\ i \in 1 .. QLen /\ slots' \in [Index -> Slot]
    BY <1>1, Counted, QueueAssumption DEF QueueInv, TypeOK
  <2>2. (tail + i) % QLen \in Index
    BY <2>1, SlotAhead
  <2>3. QED
    BY <2>1, <2>2 DEF Slot, Msg
<1>4. f \in [1 .. n + 1 -> Msg]
  BY <1>2, <1>3
<1>5. f[n + 1] = slots'[head'].msg
  BY <1>1, <1>2
<1>6. [i \in 1 .. n |-> f[i]] = Msgs(n)
  BY <1>1, <1>2 DEF Msgs
<1> HIDE DEF f, n
<1>7. f = Append([i \in 1 .. n |-> f[i]], f[n + 1])
  BY <1>1, <1>4, SequencePushed
<1>8. QED
  BY <1>5, <1>6, <1>7 DEF f, n

\* With its message a slot filled by links_poll is at the end of the FIFO.
LEMMA EnqMsgAccepts ==
  ASSUME QueueInv, QueueInv', OneProducer, EnqMsg
  PROVE  /\ Msgs(Accepted)' = Append(Msgs(Accepted), ShmOrder[pos])
         /\ Current' = Current
         /\ ShmOrder[pos] \in Links
<1>1. /\ pc = "enq_msg" /\ pc' = "poll" /\ UNCHANGED <<head, tail, hand>>
      /\ slots \in [Index -> Slot] /\ head \in Index
      /\ slots' = [slots EXCEPT ![head].msg = ShmOrder[pos]]
  BY Counted DEF EnqMsg, Goto
<1>2. Accepted' = Accepted + 1 /\ Accepted' = Count
  BY <1>1, Counted DEF Accepted, Count, B2N
<1>3. \A i \in Index : i # head => slots'[i].msg = slots[i].msg
  BY <1>1
<1>4. slots'[head].msg = ShmOrder[pos]
  BY <1>1 DEF Slot
<1>5. ASSUME NEW i \in 1 .. Accepted PROVE (tail + i) % QLen # head /\ (tail + i) % QLen \in Index
  <2>1. i < Count /\ Count < QLen /\ Count \in Nat /\ i \in 1 .. QLen /\ Count \in 1 .. QLen
    BY <1>2, Counted, QueueAssumption
  <2>2. /\ (tail + i) % QLen = IF tail + i < QLen THEN tail + i ELSE tail + i - QLen
        /\ (tail + Count) % QLen = IF tail + Count < QLen THEN tail + Count ELSE tail + Count - QLen
        /\ (tail + i) % QLen \in Index
    BY <2>1, Counted, SlotAhead
  <2>3. \A x, y : /\ x = IF tail + i < QLen THEN tail + i ELSE tail + i - QLen
                  /\ y = IF tail + Count < QLen THEN tail + Count ELSE tail + Count - QLen
                  => x # y
    <3>1. tail \in 0 .. QLen - 1 /\ QLen \in Nat
      BY Counted DEF Index
    <3>2. QED
      BY <2>1, <3>1
  <2>4. QED
    BY <2>2, <2>3, Counted
<1>6. Msgs(Accepted)' = Append(Msgs(Accepted), slots'[head'].msg)
  <2>1. head' = (tail + Accepted') % QLen /\ tail' = tail
    BY <1>1, <1>2, Counted
  <2>2. \A i \in 1 .. Accepted : slots'[(tail + i) % QLen].msg = slots[(tail + i) % QLen].msg
    BY <1>3, <1>5
  <2>3. QED
    BY <1>2, <2>1, <2>2, Counted, Pushed
<1>7. ShmOrder[pos] \in Links
  BY <1>1, NoMboxLinks DEF QueueInv, TypeOK, EnqSteps, Links
<1>8. QED
  BY <1>1, <1>4, <1>6, <1>7 DEF Current

\* The interrupt handler puts its command at the end of the FIFO in one go.
LEMMA HandleCmdAccepts ==
  ASSUME QueueInv, QueueInv', OneProducer, NEW l \in MboxLinks, HandleCmd(l)
  PROVE  Msgs(Accepted)' = Append(Msgs(Accepted), l) /\ Current' = Current
<1>1. /\ head' = Succ(head) /\ tail' = tail /\ pc' = pc /\ pc # "panic"
      /\ slots' = [slots EXCEPT ![head'] = [link |-> l, msg |-> l]]
      /\ UNCHANGED <<hand, pos, shmNew, load>>
      /\ l \in raised /\ raised' = raised \ {l}
  BY DEF HandleCmd, QueueInv, NoPanic
<1>2. /\ head \in Index /\ tail \in Index /\ head' \in Index /\ slots \in [Index -> Slot]
      /\ Count \in Index /\ Count' \in Index /\ load \in Nat
  <2>1. head \in Index /\ tail \in Index /\ slots \in [Index -> Slot] /\ load \in Nat
    BY QueueAssumption DEF QueueInv, TypeOK
  <2>2. QED
    BY <1>1, <2>1, SuccWraps, FilledByCases DEF Count
<1>3. pc \notin EnqSteps
  BY NoShmLinks DEF QueueInv, TypeOK
<1>4. Accepted = Count /\ Accepted' = Count'
  <2>1. /\ B2N(pc \in {"enq_link", "enq_msg"}) = 0
        /\ B2N(pc \in {"enq_link", "enq_msg"})' = 0
    BY <1>1, <1>3 DEF B2N, EnqSteps
  <2>2. QED
    BY <1>2, <2>1, QueueAssumption DEF Accepted, Index
<1>5. Count' = Count + 1
  <2>1. /\ Cardinality(raised) \in Nat /\ Cardinality(shmNew) \in Nat
        /\ Cardinality(raised') = Cardinality(raised) - 1
    BY <1>1, WaitingFinite, FS_RemoveElement DEF QueueInv, TypeOK
  <2> DEFINE b == B2N(pc \in {"enq_check", "enq_load", "enq_store"})
             c == B2N(pc \in HandSteps)
  <2>2. b \in Nat /\ c \in Nat
    BY DEF B2N
  <2>3. load = Cardinality(raised) + Cardinality(shmNew) + Count + b + c
    BY <1>1 DEF QueueInv, NothingLost
  <2>4. load = Cardinality(raised') + Cardinality(shmNew) + Count' + b + c
    BY <1>1 DEF QueueInv, NothingLost
  <2> HIDE DEF b, c
  <2>5. QED
    <3>1. Count \in Nat /\ Count' \in Nat
      BY <1>2, QueueAssumption DEF Index
    <3>2. QED
      BY <1>2, <2>1, <2>2, <2>3, <2>4, <3>1
<1>6. head' = (tail + Count') % QLen
  BY <1>1, <1>2, HeadAhead DEF Count
<1>7. \A i \in 0 .. Count : (tail + i) % QLen \in Index /\ (tail + i) % QLen # head'
  <2> SUFFICES ASSUME NEW i \in 0 .. Count
               PROVE  (tail + i) % QLen \in Index /\ (tail + i) % QLen # head'
    OBVIOUS
  <2>1. /\ Count' \in 1 .. QLen /\ Count + 1 < QLen /\ Count \in Nat
        /\ QLen \in Nat /\ QLen > 1 /\ tail \in 0 .. QLen - 1
    BY <1>2, <1>5, QueueAssumption DEF Index
  <2>2. head' = IF tail + Count' < QLen THEN tail + Count' ELSE tail + Count' - QLen
    BY <1>2, <1>6, <2>1, SlotAhead
  <2>3. CASE i = 0
    <3>1. (tail + i) % QLen = tail
      BY <2>1, <2>3
    <3>2. QED
      BY <1>2, <1>5, <2>1, <2>2, <3>1
  <2>4. CASE i # 0
    <3>1. i \in 1 .. QLen
      BY <2>1, <2>4
    <3>2. /\ (tail + i) % QLen = IF tail + i < QLen THEN tail + i ELSE tail + i - QLen
          /\ (tail + i) % QLen \in Index
      BY <1>2, <3>1, SlotAhead
    <3>3. QED
      BY <1>5, <2>1, <2>2, <3>1, <3>2
  <2>5. QED
    BY <2>3, <2>4
<1>8. \A i \in Index : i # head' => slots'[i] = slots[i]
  BY <1>1, <1>2
<1>9. slots'[head'].msg = l
  BY <1>1, <1>2
<1>10. Msgs(Accepted)' = Append(Msgs(Accepted), slots'[head'].msg)
  <2>1. \A i \in 1 .. Accepted : slots'[(tail + i) % QLen].msg = slots[(tail + i) % QLen].msg
    <3> SUFFICES ASSUME NEW i \in 1 .. Count
                 PROVE  slots'[(tail + i) % QLen].msg = slots[(tail + i) % QLen].msg
      BY <1>4
    <3>1. i \in 0 .. Count
      BY <1>2, QueueAssumption DEF Index
    <3>2. QED
      BY <1>7, <1>8, <3>1
  <2>2. Accepted' = Accepted + 1 /\ Accepted' < QLen
    BY <1>2, <1>4, <1>5, QueueAssumption DEF Index
  <2>3. QED
    BY <1>1, <1>4, <1>6, <2>1, <2>2, Pushed
<1>11. slots'[tail] = slots[tail]
  <2>1. 0 \in 0 .. Count /\ (tail + 0) % QLen = tail
    BY <1>2, QueueAssumption DEF Index
  <2>2. QED
    BY <1>2, <1>7, <1>8, <2>1
<1>12. QED
  BY <1>1, <1>9, <1>10, <1>11 DEF Current

\* Moving the tail takes the first command of the FIFO.
LEMMA DeqTakes ==
  ASSUME QueueInv, QueueInv', DeqTake
  PROVE  /\ Current = NoCmd /\ Msgs(Accepted) # <<>>
         /\ Current' = Head(Msgs(Accepted))
         /\ Msgs(Accepted)' = Tail(Msgs(Accepted))
<1>1. /\ pc = "drain" /\ pc' = "copy_link" /\ head # tail /\ tail' = Succ(tail)
      /\ UNCHANGED <<head, slots, hand>>
      /\ head \in Index /\ tail \in Index /\ tail' \in Index /\ slots \in [Index -> Slot]
  BY Counted, SuccWraps DEF DeqTake, Pending, Goto
<1>2. Count' = Count - 1 /\ Count \in 1 .. QLen - 1
  <2>1. Count' = Count - 1
    BY <1>1, TailAdvances DEF Count
  <2>2. Count # 0
    <3>1. Count = IF head >= tail THEN head - tail ELSE head - tail + QLen
      BY <1>1, FilledByCases DEF Count
    <3>2. QED
      BY <1>1, <3>1, QueueAssumption DEF Index
  <2>3. QED
    BY <2>1, <2>2, Counted
<1>3. Accepted = Count /\ Accepted' = Count - 1
  BY <1>1, <1>2, Counted DEF Accepted, B2N
<1> DEFINE n == Accepted
           f == Msgs(n)
<1>4. n \in Nat \ {0} /\ n \in 0 .. QLen - 1 /\ f \in [1 .. n -> Msg]
  BY <1>2, <1>3, Counted, MsgsAreSequence
<1> HIDE DEF f, n
<1>5. f # <<>> /\ Head(f) = f[1] /\ Tail(f) = [i \in 1 .. n - 1 |-> f[i + 1]]
  <2>1. \A m \in Nat \ {0} : \A g \in [1 .. m -> Msg] :
          g # <<>> /\ Head(g) = g[1] /\ Tail(g) = [i \in 1 .. m - 1 |-> g[i + 1]]
    BY SequencePopped
  <2>2. QED
    BY <1>4, <2>1
<1> USE DEF f, n
<1>6. ASSUME NEW i \in 0 .. n - 1
      PROVE  (tail + (i + 1)) % QLen = (IF i = 0 THEN tail' ELSE (tail' + i) % QLen)
  <2>1. /\ QLen \in Nat /\ QLen > 1 /\ tail \in 0 .. QLen - 1 /\ tail' \in 0 .. QLen - 1
        /\ n \in 1 .. QLen - 1
    BY <1>1, <1>4, QueueAssumption DEF Index
  <2>2. tail' = IF tail = QLen - 1 THEN 0 ELSE tail + 1
    BY <1>1, SuccWraps
  <2>3. (tail + (i + 1)) % QLen = IF tail + (i + 1) < QLen THEN tail + (i + 1) ELSE tail + (i + 1) - QLen
    BY <1>1, <2>1, SlotAhead
  <2>4. i # 0 => (tail' + i) % QLen = IF tail' + i < QLen THEN tail' + i ELSE tail' + i - QLen
    BY <1>1, <2>1, SlotAhead
  <2> HIDE DEF n
  <2>5. QED
    BY <2>1, <2>2, <2>3, <2>4
<1>7. f[1] = slots[tail'].msg
  <2>1. (tail + 1) % QLen = tail'
    BY <1>4, <1>6
  <2>2. QED
    BY <1>4, <2>1 DEF Msgs
<1>8. Msgs(Accepted)' = [i \in 1 .. n - 1 |-> f[i + 1]]
  <2>1. Msgs(Accepted)' = [i \in 1 .. n - 1 |-> slots[(tail' + i) % QLen].msg]
    BY <1>1, <1>3 DEF Msgs
  <2>2. ASSUME NEW i \in 1 .. n - 1
        PROVE  f[i + 1] = slots[(tail' + i) % QLen].msg
    BY <1>4, <1>6 DEF Msgs
  <2>3. QED
    BY <2>1, <2>2
<1>9. QED
  BY <1>1, <1>5, <1>7, <1>8 DEF Current

\* The server finishes the current command.
LEMMA CmdHandleFinishes ==
  ASSUME QueueInv, CmdHandle
  PROVE  Current # NoCmd /\ Current' = NoCmd /\ Msgs(Accepted)' = Msgs(Accepted)
BY DEF QueueInv, ReplyToSender, CmdHandle, Goto, ring, Current, Msgs, Accepted, Count, B2N

-----------------------------------------------------------------------------
(* The refinement                                                           *)

\* The queue starts as an empty FIFO.
LEMMA InitMaps == Init => Fifo!Init
<1> SUFFICES ASSUME Init PROVE Fifo!Init
  OBVIOUS
<1>1. QueueInv
  BY InitInv
<1>2. Accepted = 0
  BY FilledByCases, QueueAssumption DEF Init, Accepted, Count, B2N, Index
<1>3. [i \in 1 .. Accepted |-> slots[(tail + i) % QLen].msg] = <<>>
  BY <1>2
<1>4. QED
  BY <1>3 DEF Init, Fifo!Init

\* Each step of the queue is one of the FIFO or leaves it alone.
LEMMA StepMaps ==
  ASSUME QueueInv, QueueInv', OneProducer, [Next]_vars
  PROVE  [Fifo!Next]_Fifo!vars
<1> USE DEF Msgs, Current
<1>1. CASE Clients \/ PollLink \/ PollDone \/ EnqCheck \/ EnqLoad \/ DeqEmpty
           \/ Idle \/ CopyLink \/ UNCHANGED vars
  BY <1>1, StutterStep DEF Fifo!vars
<1>2. CASE EnqStore
  BY <1>2, EnqStoreHidden DEF Fifo!vars
<1>3. CASE EnqLink
  BY <1>3, EnqLinkHidden DEF Fifo!vars
<1>4. CASE CopyMsg
  BY <1>4, CopyMsgHidden DEF Fifo!vars
<1>5. CASE EnqMsg
  BY <1>5, EnqMsgAccepts DEF Fifo!Next, Fifo!Accept
<1>6. CASE \E l \in MboxLinks : HandleCmd(l)
  BY <1>6, HandleCmdAccepts DEF Fifo!Next, Fifo!Accept, Links
<1>7. CASE DeqTake
  BY <1>7, DeqTakes DEF Fifo!Next, Fifo!Take
<1>8. CASE CmdHandle
  BY <1>8, CmdHandleFinishes DEF Fifo!Next, Fifo!Finish
<1>9. QED
  BY <1>1, <1>2, <1>3, <1>4, <1>5, <1>6, <1>7, <1>8 DEF Next, Main, Enqueue, Dequeue

\* The ring of lib/command.c is a FIFO: every command that cmd_enqueue accepts is
\* handled exactly once, in the order of acceptance.
THEOREM QueueIsFifo ==
  ASSUME Bounded, OneProducer
  PROVE  Spec => FifoRefinement
<1>1. Init => Fifo!Init
  BY InitMaps
<1>2. QueueInv /\ QueueInv' /\ [Next]_vars => [Fifo!Next]_Fifo!vars
  BY StepMaps
<1>3. QED
  BY <1>1, <1>2, QueueInvariant, PTL DEF Spec, FifoRefinement, Fifo!Spec

=============================================================================

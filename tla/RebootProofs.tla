---------------------------- MODULE RebootProofs ----------------------------
(***************************************************************************)
(* Theorems about Reboot, for any sets of cores, groups and subsystems.    *)
(*                                                                         *)
(* The pool of watchdog objects never leaks and never double-books, when   *)
(* each subsystem has one group and only timeouts reboot it                *)
(* (SingleGroups): the invariant is PoolInv.                               *)
(*                                                                         *)
(* No assertion of the watchdog code fails, watched CPUs are monitored,    *)
(* and are in reset when their images are loaded, when moreover the groups *)
(* do not get into each other's way (Apart), as those of the R52 and the   *)
(* A53 do: the invariant is WatchInv.                                      *)
(***************************************************************************)
EXTENDS Reboot, SequenceTheorems, FiniteSetTheorems, TLAPS

Watched == {c \in Cores : wdts[c] # NoGroup}
Creating == IF pc \in {"configure", "irq", "register"} THEN 1 ELSE 0

\* Sets of cores have cardinalities that add up.
LEMMA CoreSets ==
  ASSUME NEW S \in SUBSET Cores, NEW T \in SUBSET S
  PROVE  /\ IsFiniteSet(S) /\ Cardinality(S) \in Nat /\ Cardinality(T) \in Nat
         /\ Cardinality(S \ T) = Cardinality(S) - Cardinality(T)
         /\ Cardinality(T) <= Cardinality(S)
<1>1. IsFiniteSet(S) /\ IsFiniteSet(T)
  BY FS_Subset, RebootAssumption
<1>2. Cardinality(S) \in Nat /\ Cardinality(T) \in Nat /\ Cardinality(T) <= Cardinality(S)
  BY <1>1, FS_CardinalityType, FS_Subset
<1>3. Cardinality(S \ T) = Cardinality(S) - Cardinality(S \cap T)
  BY <1>1, FS_Difference
<1>4. S \cap T = T
  OBVIOUS
<1>5. QED
  BY <1>1, <1>2, <1>3, <1>4

\* The tail of a nonempty sequence, and its elements.
LEMMA TailElements ==
  ASSUME NEW S, NEW s \in Seq(S), s # <<>>
  PROVE  /\ Head(s) = s[1] /\ 1 \in DOMAIN s /\ Head(s) \in S
         /\ Tail(s) \in Seq(S)
         /\ \A i \in DOMAIN Tail(s) : i + 1 \in DOMAIN s /\ Tail(s)[i] = s[i + 1] /\ i \in Nat
<1>1. /\ Head(s) \in S /\ Tail(s) \in Seq(S) /\ Len(Tail(s)) = Len(s) - 1
      /\ \A i \in 1 .. Len(Tail(s)) : Tail(s)[i] = s[i + 1]
  BY HeadTailProperties
<1>2. Len(s) \in Nat \ {0} /\ DOMAIN s = 1 .. Len(s) /\ Head(s) = s[1]
  OBVIOUS
<1>3. DOMAIN Tail(s) = 1 .. Len(Tail(s))
  BY <1>1
<1>4. QED
  BY <1>1, <1>2, <1>3

\* What a step must keep for PoolInv when it leaves the pool and the requests
\* alone and does not start a boot.
LEMMA PoolKept ==
  ASSUME PoolInv, TypeOK', UNCHANGED <<wdts, objects, requests, subsys>>,
         pc # "panic",
         pc' \notin {"load"} \cup InitSteps,
         pc' \in IdleSteps => subsys = NoSubsys,
         pc' = "finish_store" => reg' \subseteq requests,
         pc' = "request_store" => reg' \subseteq requests \cup Commanded,
         pc \notin {"configure", "irq", "register"}
  PROVE  PoolInv'
BY DEF PoolInv, PoolExact, Requested, ToCreate, InitSteps, IdleSteps

-----------------------------------------------------------------------------
\* No CPU is watched at the start, and the pool is full.
LEMMA PoolInit == Init => PoolInv
<1> SUFFICES ASSUME Init PROVE PoolInv
  OBVIOUS
<1>1. TypeOK
  <2>1. /\ wdts \in [Cores -> Groups \cup {NoGroup}]
        /\ core \in [Cores -> {"reset", "boot", "up", "hung"}]
        /\ requests \subseteq Subsystems /\ objects \in 0 .. MaxWdts
    BY RebootAssumption DEF Init
  <2>2. pc = "run" /\ pc \in PCs
    BY DEF Init, PCs
  <2>3. QED
    BY <2>1, <2>2, RebootAssumption DEF Init, TypeOK, InitSteps
<1>2. {c \in Cores : wdts[c] # NoGroup} = {}
  BY DEF Init
<1>3. PoolExact
  <2>1. Cardinality({c \in Cores : wdts[c] # NoGroup}) = 0
    BY <1>2, FS_EmptySet
  <2>2. pc = "run" /\ objects = 0
    BY DEF Init
  <2>3. QED
    BY <2>1, <2>2 DEF PoolExact
<1>4. QED
  BY <1>1, <1>3 DEF Init, PoolInv, Requested, ToCreate, InitSteps, IdleSteps

\* The supervised CPUs do not touch what PoolInv is about.
LEMMA SupervisedStep ==
  ASSUME PoolInv, NEW c \in Cores, Start(c) \/ Hang(c) \/ Expire(c)
  PROVE  PoolInv'
<1>1. UNCHANGED <<requests, bootVars, wdts, objects, unmasked>>
  BY DEF Start, Hang, Expire, wdtVars
<1>2. TypeOK'
  BY <1>1 DEF PoolInv, TypeOK, Start, Hang, Expire, bootVars, wdtVars
<1>3. QED
  BY <1>1, <1>2 DEF PoolInv, PoolExact, Requested, ToCreate, bootVars

\* A timeout returns the objects of the whole group, or stops TRCH.
LEMMA TimeoutStep ==
  ASSUME PoolInv, SingleGroups, NEW c \in Cores, TimeoutIsr(c)
  PROVE  PoolInv'
<1>1. /\ Delivered(c) /\ UNCHANGED <<subsys, todo, reg, wasOn, failed, fresh>>
      /\ pending' = pending \ {c}
  BY DEF TimeoutIsr, ClearStatus
<1>2. CASE TimeoutAsserts(c)
  <2>1. pc' = "panic" /\ UNCHANGED <<requests, wdts, objects, on, unmasked, core>>
    BY <1>2 DEF TimeoutIsr
  <2>2. TypeOK'
    BY <1>1, <2>1 DEF PoolInv, TypeOK, PCs, MaskedPCs, InitSteps
  <2>3. QED
    BY <1>1, <2>1, <2>2 DEF PoolInv, PoolExact, Requested, ToCreate, InitSteps, IdleSteps
<1>3. CASE ~TimeoutAsserts(c)
  <2> DEFINE g == wdts[c]
             group == GroupCores[g]
  <2>1. /\ g \in Groups /\ group \subseteq Cores /\ \A d \in group : wdts[d] # NoGroup
        /\ GroupSubsys[g] \in Subsystems
    BY <1>3, RebootAssumption DEF PoolInv, TypeOK, TimeoutAsserts
  <2>2. /\ core' = [d \in Cores |-> IF d \in group THEN "reset" ELSE core[d]]
        /\ on' = on \ group /\ unmasked' = unmasked \ group
        /\ wdts' = [d \in Cores |-> IF d \in group THEN NoGroup ELSE wdts[d]]
        /\ objects' = objects - Cardinality(group)
        /\ requests' = requests \cup {GroupSubsys[g]}
        /\ pc' = pc
    BY <1>3 DEF TimeoutIsr, ResetAssert, DeinitGroup, BootRequest
  <2>3. pc # "panic"
    BY <1>1 DEF Delivered, MaskedPCs
  <2>4. /\ Cardinality(Watched \ group) = Cardinality(Watched) - Cardinality(group)
        /\ Cardinality(group) <= Cardinality(Watched)
        /\ Cardinality(group) \in Nat /\ Cardinality(Watched) \in Nat
    <3>1. Watched \in SUBSET Cores /\ group \in SUBSET Watched
      BY <2>1 DEF Watched
    <3>2. QED
      BY <3>1, CoreSets
  <2>5. Watched' = Watched \ group
    BY <2>2, RebootAssumption DEF Watched
  <2>6. objects = Cardinality(Watched) + Creating /\ Creating \in Nat
    BY <2>3 DEF PoolInv, PoolExact, Watched, Creating
  <2>7. objects' = Cardinality(Watched') + Creating' /\ Creating' = Creating
    BY <2>2, <2>4, <2>5, <2>6 DEF Creating
  <2>8. PoolExact'
    BY <2>7 DEF PoolExact, Watched, Creating
  <2>9. objects \in 0 .. MaxWdts
    BY DEF PoolInv, TypeOK
  <2>10. objects' \in 0 .. MaxWdts
    BY <2>2, <2>4, <2>6, <2>9, RebootAssumption
  <2>11. TypeOK'
    <3>1. wdts' \in [Cores -> Groups \cup {NoGroup}]
      BY <2>2 DEF PoolInv, TypeOK
    <3>2. core' \in [Cores -> {"reset", "boot", "up", "hung"}]
      BY <2>2 DEF PoolInv, TypeOK
    <3>3. /\ requests' \subseteq Subsystems /\ on' \subseteq Cores
          /\ unmasked' \subseteq Cores /\ pending' \subseteq Cores
      BY <1>1, <2>1, <2>2 DEF PoolInv, TypeOK
    <3>4. QED
      BY <1>1, <2>2, <2>10, <3>1, <3>2, <3>3 DEF PoolInv, TypeOK
  <2>12. \A d \in Cores : wdts'[d] # NoGroup => wdts'[d] = wdts[d] /\ d \notin group
    BY <2>2
  <2>13. \A d \in Cores : wdts'[d] # NoGroup => d \in GroupCores[wdts'[d]] /\ GroupSubsys[wdts'[d]] # GroupSubsys[g]
    BY <2>1, <2>12 DEF PoolInv, TypeOK, SingleGroups
  <2>14. Requested'
    BY <1>1, <2>2, <2>12, <2>13 DEF PoolInv, Requested
  <2>15. ToCreate'
    <3>1. pc \in InitSteps => todo \in Seq(Groups \X Cores)
      BY DEF PoolInv, TypeOK
    <3>2. \A i \in DOMAIN todo : pc \in InitSteps => todo[i][2] \in Cores
      BY <3>1
    <3>3. QED
      BY <1>1, <2>2, <3>2 DEF PoolInv, ToCreate
  <2>16. QED
    BY <1>1, <2>2, <2>8, <2>11, <2>12, <2>13, <2>14, <2>15 DEF PoolInv
<1>4. QED
  BY <1>2, <1>3

-----------------------------------------------------------------------------
(* The boot                                                                 *)

\* A request taken up is one whose watchdogs are gone.
LEMMA BootHandleStep ==
  ASSUME PoolInv, BootHandle
  PROVE  PoolInv'
<1>1. /\ pc = "run" /\ pc' = "load" /\ subsys = NoSubsys
      /\ UNCHANGED <<requests, todo, reg, wasOn, failed, wdts, objects, on, fresh, pending,
                     unmasked, core>>
  BY DEF BootHandle, Goto, At, PoolInv, IdleSteps, wdtVars
<1>2. subsys' \in requests /\ subsys' \in Subsystems /\ subsys' # NoSubsys
  BY RebootAssumption DEF BootHandle, PoolInv, TypeOK
<1>3. TypeOK'
  BY <1>1, <1>2 DEF PoolInv, TypeOK, PCs, InitSteps
<1>4. \A c \in Cores : wdts[c] # NoGroup => GroupSubsys[wdts[c]] \notin requests
  <2>1. \A c \in Cores : wdts[c] # NoGroup => GroupSubsys[wdts[c]] \in Subsystems
    BY RebootAssumption DEF PoolInv, TypeOK
  <2>2. QED
    BY <1>1, <2>1, RebootAssumption DEF PoolInv, Requested
<1>5. QED
  BY <1>1, <1>2, <1>3, <1>4 DEF PoolInv, PoolExact, Requested, ToCreate, InitSteps, IdleSteps

\* boot_load succeeds or fails, and boot_reboot knows which watchdogs it has to create.
LEMMA BootLoadStep ==
  ASSUME PoolInv, SingleGroups, BootLoad
  PROVE  PoolInv'
<1>1. /\ pc = "load" /\ subsys \in Subsystems
      /\ UNCHANGED <<requests, subsys, reg, wasOn, wdts, objects, on, fresh, pending,
                     unmasked, core>>
      /\ failed' \in BOOLEAN
  BY DEF BootLoad, At, PoolInv, TypeOK, wdtVars
<1>2. InitOrder[subsys] \in Seq(Groups \X Cores) /\ ReleaseOrder[subsys] \in Seq(Cores) \ {<<>>}
  BY <1>1, RebootAssumption
<1>3. \/ /\ pc' = "release" /\ todo' = ReleaseOrder[subsys]
      \/ /\ pc' = "create" /\ todo' = InitOrder[subsys] /\ todo' # <<>>
  BY DEF BootLoad
<1>4. TypeOK'
  BY <1>1, <1>2, <1>3 DEF PoolInv, TypeOK, PCs, BootSteps, InitSteps
<1>5. \A i \in DOMAIN InitOrder[subsys] :
        /\ InitOrder[subsys][i][1] \in Groups /\ InitOrder[subsys][i][2] \in Cores
        /\ wdts[InitOrder[subsys][i][2]] = NoGroup
  <2> SUFFICES ASSUME NEW i \in DOMAIN InitOrder[subsys], NEW g, NEW c,
                      g = InitOrder[subsys][i][1], c = InitOrder[subsys][i][2]
               PROVE  g \in Groups /\ c \in Cores /\ wdts[c] = NoGroup
    OBVIOUS
  <2>1. g \in Groups /\ c \in Cores
    BY <1>2
  <2>2. GroupSubsys[g] = subsys /\ c \in GroupCores[g]
    BY <1>1 DEF SingleGroups
  <2>3. ASSUME wdts[c] # NoGroup PROVE FALSE
    <3>1. wdts[c] \in Groups /\ c \in GroupCores[wdts[c]] /\ GroupSubsys[wdts[c]] # subsys
      BY <1>1, <2>1, <2>3 DEF PoolInv, TypeOK
    <3>2. wdts[c] = g
      BY <2>1, <2>2, <3>1 DEF SingleGroups
    <3>3. QED
      BY <2>2, <3>1, <3>2
  <2>4. QED
    BY <2>1, <2>3
<1>6. ToCreate'
  BY <1>1, <1>3, <1>5 DEF ToCreate, SingleGroups, InitSteps
<1>7. subsys # NoSubsys
  BY <1>1, RebootAssumption
<1>8. PoolExact' /\ Requested'
  BY <1>1, <1>3 DEF PoolInv, PoolExact, Requested
<1>9. QED
  BY <1>1, <1>3, <1>4, <1>6, <1>7, <1>8 DEF PoolInv, InitSteps, IdleSteps

\* The object of a watchdog under construction counts although wdts[] does not
\* have it yet.
LEMMA CreateWdtStep ==
  ASSUME PoolInv, CreateWdt
  PROVE  PoolInv'
<1>1. /\ pc = "create" /\ pc' = (IF objects < MaxWdts THEN "configure" ELSE "lost")
      /\ objects' = (IF objects < MaxWdts THEN objects + 1 ELSE objects)
      /\ UNCHANGED <<requests, subsys, todo, reg, failed, wdts, on, fresh, pending, unmasked, core>>
      /\ wasOn' \in BOOLEAN
      /\ objects \in 0 .. MaxWdts
  BY DEF CreateWdt, Goto, At, PoolInv, TypeOK
<1>2. TypeOK'
  BY <1>1, RebootAssumption DEF PoolInv, TypeOK, PCs, BootSteps, MaskedPCs, InitSteps
<1>3. Cardinality(Watched) \in Nat /\ objects = Cardinality(Watched)
  <2>1. Watched \in SUBSET Cores
    BY DEF Watched
  <2>2. Cardinality(Watched) \in Nat
    BY <2>1, CoreSets
  <2>3. QED
    BY <1>1, <2>2 DEF PoolInv, PoolExact, Watched
<1>4. PoolExact'
  <2>1. Watched' = Watched
    BY <1>1 DEF Watched
  <2>2. objects' = Cardinality(Watched') + Creating'
    BY <1>1, <1>3, <2>1 DEF Creating
  <2>3. QED
    BY <2>2 DEF PoolExact, Watched, Creating
<1>5. QED
  BY <1>1, <1>2, <1>4 DEF PoolInv, Requested, ToCreate, InitSteps, IdleSteps

\* Configuring a watchdog and enabling its interrupt leave the pool alone.
LEMMA ConfigureStep ==
  ASSUME PoolInv, ConfigureWdt \/ EnableIrq
  PROVE  PoolInv'
<1>1. /\ pc \in {"configure", "irq"} /\ pc' \in {"irq", "register", "panic"}
      /\ UNCHANGED <<requests, subsys, todo, reg, wasOn, failed, wdts, objects, pending, core>>
  BY DEF ConfigureWdt, EnableIrq, Goto, At
<1>2. todo \in Seq(Groups \X Cores) \ {<<>>} /\ InitCore \in Cores
  <2>1. todo \in Seq(Groups \X Cores) \ {<<>>}
    BY <1>1 DEF PoolInv, TypeOK, InitSteps
  <2>2. Head(todo) \in Groups \X Cores
    BY <2>1
  <2>3. QED
    BY <2>1, <2>2 DEF InitCore
<1>3. on' \subseteq Cores /\ fresh' \subseteq Cores /\ unmasked' \subseteq Cores
  BY <1>2 DEF ConfigureWdt, EnableIrq, PoolInv, TypeOK
<1>4. TypeOK'
  BY <1>1, <1>2, <1>3 DEF PoolInv, TypeOK, PCs, BootSteps, MaskedPCs, InitSteps
<1>5. PoolExact'
  BY <1>1 DEF PoolInv, PoolExact
<1>6. QED
  BY <1>1, <1>4, <1>5 DEF PoolInv, Requested, ToCreate, InitSteps, IdleSteps

\* The new watchdog takes a place in wdts[] that was empty.
LEMMA RegisterStep ==
  ASSUME PoolInv, RegisterWdt
  PROVE  PoolInv'
<1> DEFINE g == InitGroup
           c == InitCore
<1>1. /\ pc = "register" /\ subsys \in Subsystems /\ subsys # NoSubsys
      /\ wdts' = [wdts EXCEPT ![c] = g]
      /\ UNCHANGED <<requests, subsys, reg, wasOn, failed, objects, on, fresh, pending, unmasked, core>>
      /\ \/ pc' = "create" /\ todo' = Tail(todo) /\ Tail(todo) # <<>>
         \/ pc' = "release" /\ todo' = ReleaseOrder[subsys]
  BY DEF RegisterWdt, At, PoolInv, TypeOK, InitSteps
<1>2. /\ todo \in Seq(Groups \X Cores) /\ todo # <<>>
      /\ Head(todo) = todo[1] /\ 1 \in DOMAIN todo /\ Head(todo) \in Groups \X Cores
      /\ Tail(todo) \in Seq(Groups \X Cores)
      /\ \A i \in DOMAIN Tail(todo) :
           i + 1 \in DOMAIN todo /\ Tail(todo)[i] = todo[i + 1] /\ i \in Nat
  <2>1. todo \in Seq(Groups \X Cores) /\ todo # <<>>
    BY <1>1 DEF PoolInv, TypeOK, InitSteps
  <2>2. QED
    BY <2>1, TailElements
<1>3. g \in Groups /\ c \in Cores /\ g = todo[1][1] /\ c = todo[1][2]
  BY <1>2 DEF InitGroup, InitCore
<1>4. /\ wdts[c] = NoGroup /\ GroupSubsys[g] = subsys /\ c \in GroupCores[g]
      /\ \A i \in DOMAIN todo : todo[i][2] = c => i = 1
  BY <1>1, <1>2, <1>3 DEF PoolInv, ToCreate, InitSteps, IdleSteps
<1> HIDE DEF g, c
<1>5. wdts \in [Cores -> Groups \cup {NoGroup}] /\ g # NoGroup
  BY <1>3, RebootAssumption DEF PoolInv, TypeOK
<1>6. ReleaseOrder[subsys] \in Seq(Cores) \ {<<>>}
  BY <1>1, RebootAssumption
<1>7. TypeOK'
  BY <1>1, <1>2, <1>3, <1>5, <1>6 DEF PoolInv, TypeOK, PCs, BootSteps, InitSteps
<1>8. PoolExact'
  <2>1. Watched' = Watched \cup {c} /\ c \notin Watched
    BY <1>1, <1>3, <1>4, <1>5 DEF Watched
  <2>2. IsFiniteSet(Watched)
    BY FS_Subset, RebootAssumption DEF Watched
  <2>3. Cardinality(Watched') = Cardinality(Watched) + 1 /\ Cardinality(Watched) \in Nat
    BY <2>1, <2>2, FS_AddElement, FS_CardinalityType
  <2>4. objects = Cardinality(Watched) + 1
    BY <1>1 DEF PoolInv, PoolExact, Watched
  <2>5. objects' = Cardinality(Watched') + Creating'
    BY <1>1, <2>3, <2>4 DEF Creating
  <2>6. QED
    BY <2>5 DEF PoolExact, Watched, Creating
<1>9. ToCreate'
  <2> SUFFICES ASSUME pc' = "create", NEW i \in DOMAIN Tail(todo)
               PROVE  /\ wdts'[Tail(todo)[i][2]] = NoGroup
                      /\ GroupSubsys[Tail(todo)[i][1]] = subsys
                      /\ Tail(todo)[i][2] \in GroupCores[Tail(todo)[i][1]]
                      /\ \A j \in DOMAIN Tail(todo) : Tail(todo)[i][2] = Tail(todo)[j][2] => i = j
    BY <1>1 DEF ToCreate, InitSteps, IdleSteps
  <2>1. /\ i + 1 \in DOMAIN todo /\ Tail(todo)[i] = todo[i + 1] /\ i \in Nat
        /\ todo[i + 1] \in Groups \X Cores
    BY <1>2
  <2>2. /\ wdts[todo[i + 1][2]] = NoGroup
        /\ GroupSubsys[todo[i + 1][1]] = subsys /\ todo[i + 1][2] \in GroupCores[todo[i + 1][1]]
        /\ \A j \in DOMAIN todo : todo[i + 1][2] = todo[j][2] => i + 1 = j
    BY <1>1, <2>1 DEF PoolInv, ToCreate, InitSteps, IdleSteps
  <2>3. todo[i + 1][2] # c
    BY <1>4, <2>1
  <2>4. ASSUME NEW j \in DOMAIN Tail(todo), Tail(todo)[i][2] = Tail(todo)[j][2]
        PROVE  i = j
    BY <1>2, <2>1, <2>2, <2>4
  <2>5. QED
    BY <1>1, <1>5, <2>1, <2>2, <2>3, <2>4
<1>10. \A d \in Cores : wdts'[d] # NoGroup => d \in GroupCores[wdts'[d]]
  BY <1>1, <1>4, <1>5 DEF PoolInv
<1>11. Requested'
  BY <1>1, <1>4, <1>5 DEF PoolInv, Requested
<1>12. QED
  BY <1>1, <1>7, <1>8, <1>9, <1>10, <1>11 DEF PoolInv, InitSteps, IdleSteps

\* The two halves of reset_release.
LEMMA ReleaseStep ==
  ASSUME PoolInv, ReleaseLoad \/ ReleaseStore
  PROVE  PoolInv'
<1>1. /\ pc \in {"release", "release_store"}
      /\ pc' \in {"release_store", "release", "finish", "serve"}
      /\ pc' = "release" => Tail(todo) # <<>>
      /\ pc' \in IdleSteps => subsys = NoSubsys
      /\ pc' \in {"release", "release_store"} => todo' = todo \/ todo' = Tail(todo)
      /\ pc' = "release_store" => todo' = todo
      /\ UNCHANGED <<requests, subsys, wasOn, failed, wdts, objects, on, fresh, pending, unmasked>>
      /\ reg' \subseteq Cores
  BY DEF ReleaseLoad, ReleaseStore, Goto, At, wdtVars, IdleSteps
<1>2. todo \in Seq(Cores) /\ todo # <<>> /\ Tail(todo) \in Seq(Cores) /\ Head(todo) \in Cores
  <2>1. todo \in Seq(Cores) /\ todo # <<>>
    BY <1>1 DEF PoolInv, TypeOK
  <2>2. QED
    BY <2>1, TailElements
<1>3. core' \in [Cores -> {"reset", "boot", "up", "hung"}]
  BY <1>2 DEF ReleaseLoad, ReleaseStore, PoolInv, TypeOK
<1>4. TypeOK'
  BY <1>1, <1>2, <1>3 DEF PoolInv, TypeOK, PCs, BootSteps, InitSteps
<1>5. QED
  BY <1>1, <1>4, PoolKept DEF PoolInv, InitSteps, IdleSteps

\* Clearing a request cannot bring one back: the copy it works on is older.
LEMMA FinishStep ==
  ASSUME PoolInv, FinishLoad \/ FinishStore
  PROVE  PoolInv'
<1>1. CASE FinishLoad
  <2>1. /\ pc = "finish" /\ pc' = "finish_store" /\ reg' = requests
        /\ UNCHANGED <<requests, subsys, todo, wasOn, failed, wdts, objects, on, fresh,
                       pending, unmasked, core>>
    BY <1>1 DEF FinishLoad, Goto, At, wdtVars
  <2>2. TypeOK'
    BY <2>1 DEF PoolInv, TypeOK, PCs, BootSteps, InitSteps
  <2>3. QED
    BY <2>1, <2>2, PoolKept DEF PoolInv, InitSteps, IdleSteps
<1>2. CASE FinishStore
  <2>1. /\ pc = "finish_store" /\ pc' \in {"panic", "run"}
        /\ requests' = reg \ {subsys} /\ subsys' = NoSubsys /\ reg' = {} /\ fresh' = {}
        /\ UNCHANGED <<todo, wasOn, failed, wdts, objects, on, pending, unmasked, core>>
    BY <1>2 DEF FinishStore, Goto, At
  <2>2. reg \subseteq requests
    BY <2>1 DEF PoolInv
  <2>3. TypeOK'
    BY <2>1, <2>2 DEF PoolInv, TypeOK, PCs, MaskedPCs, InitSteps
  <2>4. PoolExact'
    BY <2>1 DEF PoolInv, PoolExact
  <2>5. Requested'
    BY <2>1, <2>2 DEF PoolInv, Requested
  <2>6. QED
    BY <2>1, <2>3, <2>4, <2>5 DEF PoolInv, ToCreate, InitSteps, IdleSteps
<1>3. QED
  BY <1>1, <1>2

\* Commands add requests only for subsystems without watchdogs.
LEMMA CommandStep ==
  ASSUME PoolInv, SingleGroups,
         \/ \E s \in Commanded : CmdReset(s)
         \/ CmdResetStore
  PROVE  PoolInv'
<1>1. CASE \E s \in Commanded : CmdReset(s)
  <2>1. PICK s \in Commanded : CmdReset(s)
    BY <1>1
  <2>2. /\ pc = "serve" /\ pc' = "request_store" /\ reg' = requests \cup {s}
        /\ UNCHANGED <<requests, subsys, todo, wasOn, failed, wdts, objects, on, fresh,
                       pending, unmasked, core>>
    BY <2>1 DEF CmdReset, Goto, At, wdtVars
  <2>3. reg' \subseteq requests \cup Commanded /\ reg' \subseteq Subsystems
    BY <2>2, RebootAssumption DEF PoolInv, TypeOK
  <2>4. TypeOK'
    BY <2>2, <2>3 DEF PoolInv, TypeOK, PCs, InitSteps
  <2>5. QED
    BY <2>2, <2>3, <2>4, PoolKept DEF PoolInv, InitSteps, IdleSteps
<1>2. CASE CmdResetStore
  <2>1. /\ pc = "request_store" /\ pc' = "serve" /\ requests' = reg /\ reg' = {}
        /\ UNCHANGED <<subsys, todo, wasOn, failed, wdts, objects, on, fresh, pending,
                       unmasked, core>>
    BY <1>2 DEF CmdResetStore, Goto, At, wdtVars
  <2>2. requests' \subseteq requests \cup Commanded
    BY <2>1 DEF PoolInv
  <2>3. TypeOK'
    BY <2>1, <2>2, RebootAssumption DEF PoolInv, TypeOK, PCs, InitSteps
  <2>4. PoolExact'
    BY <2>1 DEF PoolInv, PoolExact
  <2>5. \A c \in Cores : wdts[c] # NoGroup => GroupSubsys[wdts[c]] \notin Commanded
    BY DEF PoolInv, TypeOK, SingleGroups
  <2>6. Requested'
    BY <2>1, <2>2, <2>5 DEF PoolInv, Requested
  <2>7. QED
    BY <2>1, <2>3, <2>4, <2>6 DEF PoolInv, ToCreate, InitSteps, IdleSteps
<1>3. QED
  BY <1>1, <1>2

\* PSCI changes resets only.
LEMMA PsciStep ==
  ASSUME PoolInv,
         \/ \E c \in PsciCores : PsciSuspend(c) \/ PsciWakeup(c)
         \/ PsciSuspendStore
  PROVE  PoolInv'
<1>1. /\ pc \in {"serve", "assert_store"} /\ pc' \in {"assert_store", "serve", "release"}
      /\ UNCHANGED <<requests, subsys, wasOn, failed, wdts, objects, on, fresh, pending, unmasked>>
      /\ reg' \subseteq Cores \cup Subsystems
      /\ pc' \in {"assert_store", "release"} => \E c \in PsciCores : todo' = <<c>>
  BY DEF PsciSuspend, PsciWakeup, PsciSuspendStore, Goto, At, wdtVars, PoolInv, TypeOK
<1>2. core' \in [Cores -> {"reset", "boot", "up", "hung"}]
  BY DEF PsciSuspend, PsciWakeup, PsciSuspendStore, PoolInv, TypeOK
<1>3. \A c \in PsciCores : <<c>> \in Seq(Cores) \ {<<>>}
  BY RebootAssumption
<1>4. TypeOK'
  BY <1>1, <1>2, <1>3 DEF PoolInv, TypeOK, PCs, BootSteps, InitSteps
<1>5. QED
  BY <1>1, <1>4, PoolKept DEF PoolInv, InitSteps, IdleSteps

\* The rest of the main loop.
LEMMA LoopStep ==
  ASSUME PoolInv, BootNone \/ IdleCheck \/ IntEnable \/ IntDisable \/ WakeUp
  PROVE  PoolInv'
<1>1. /\ pc \in {"run", "check", "unmask", "serve", "wfi"}
      /\ pc' \in {"serve", "wfi", "unmask", "run", "check"}
      /\ pc' = "run" => pc = "unmask"
      /\ UNCHANGED <<requests, subsys, todo, reg, wasOn, failed, wdts, objects, on, fresh,
                     pending, unmasked, core>>
  BY DEF BootNone, IdleCheck, IntEnable, IntDisable, WakeUp, Goto, At, wdtVars
<1>2. TypeOK'
  BY <1>1 DEF PoolInv, TypeOK, PCs, MaskedPCs, InitSteps
<1>3. QED
  BY <1>1, <1>2 DEF PoolInv, PoolExact, Requested, ToCreate, InitSteps, IdleSteps

\* Each step keeps the invariant of the pool.
LEMMA PoolNext ==
  ASSUME PoolInv, SingleGroups, [Next]_vars
  PROVE  PoolInv'
<1>1. CASE Boot
  BY <1>1, BootHandleStep, BootLoadStep, CreateWdtStep, ConfigureStep, RegisterStep,
     ReleaseStep, FinishStep DEF Boot
<1>2. CASE Loop \/ IntDisable \/ WakeUp
  BY <1>2, LoopStep, CommandStep, PsciStep DEF Loop
<1>3. CASE \E s \in Commanded : CmdReset(s)
  BY <1>3, CommandStep
<1>4. CASE \E c \in PsciCores : PsciSuspend(c) \/ PsciWakeup(c)
  BY <1>4, PsciStep
<1>5. CASE \E c \in Cores : Start(c) \/ Hang(c) \/ Expire(c) \/ TimeoutIsr(c)
  BY <1>5, SupervisedStep, TimeoutStep
<1>6. CASE UNCHANGED vars
  BY <1>6 DEF vars, bootVars, wdtVars, PoolInv, TypeOK, PoolExact, Requested, ToCreate
<1>7. QED
  BY <1>1, <1>2, <1>3, <1>4, <1>5, <1>6 DEF Next

-----------------------------------------------------------------------------
\* The inductive invariant: what the pool of struct wdt objects, wdts[], the
\* requests and the progress of boot_reset have to do with each other.
THEOREM PoolInvariant ==
  ASSUME SingleGroups PROVE Spec => []PoolInv
<1>1. Init => PoolInv
  BY PoolInit
<1>2. PoolInv /\ [Next]_vars => PoolInv'
  BY PoolNext
<1>3. QED
  BY <1>1, <1>2, PTL DEF Spec

\* The state of the supervision stays within its types, for any subsystems,
\* groups and cores: in particular the count of objects (wdt_create,
\* watchdog_deinit_group) stays between zero and MAX_WDTS.
THEOREM PoolTyped ==
  ASSUME SingleGroups PROVE Spec => []TypeOK
<1>1. PoolInv => TypeOK
  BY DEF PoolInv
<1>2. QED
  BY <1>1, PoolInvariant, PTL

\* Every object wdt_create took from the pool is found again by
\* watchdog_deinit_group: however often subsystems are rebooted, and wherever in
\* boot_reset a timeout interrupts, none leaks and none is freed twice.
THEOREM PoolIsExact ==
  ASSUME SingleGroups PROVE Spec => []PoolExact
<1>1. PoolInv => PoolExact
  BY DEF PoolInv
<1>2. QED
  BY <1>1, PoolInvariant, PTL

-----------------------------------------------------------------------------
(* Watched CPUs. Two of one group that time out together leave an interrupt *)
(* pending that finds no watchdog, and two groups with a reset register in  *)
(* common undo each other's resets: what follows is proved without those.   *)

\* The cores boot_reset releases for s.
Releases(s) == {ReleaseOrder[s][i] : i \in DOMAIN ReleaseOrder[s]}

\* The watchdogs of a group are created together, boots release one of its CPUs, once, and
\* the others stay in reset; no two groups have a reset register in common; PSCI is not used
\* for watched CPUs, and none of them runs when TRCH comes up.
Apart ==
  /\ Guarded \cap (PsciCores \cup Running) = {}
  /\ \A g \in Groups :
       /\ \A c \in GroupCores[g] : \E i \in DOMAIN InitOrder[GroupSubsys[g]] :
            InitOrder[GroupSubsys[g]][i][2] = c
       /\ \A c \in GroupCores[g], d \in Cores : ResetReg[c] = ResetReg[d] => d \in GroupCores[g]
       /\ \A s \in Subsystems : \A i, j \in DOMAIN ReleaseOrder[s] :
            /\ ReleaseOrder[s][i] \in GroupCores[g] => s = GroupSubsys[g]
            /\ {ReleaseOrder[s][i], ReleaseOrder[s][j]} \subseteq GroupCores[g] => i = j

\* A timer runs only once its CPU has run, and one that has expired is stopped.
TimerInv ==
  \A c \in Guarded :
    /\ core[c] \in {"reset", "boot"} => c \notin on \cup pending
    /\ c \in pending => c \notin on

\* Only the CPU of a group that boots release ever runs, and it is watched as long as it does.
RunInv ==
  \A g \in Groups : \A c \in GroupCores[g] :
    /\ core[c] # "reset" => c \in Releases(GroupSubsys[g]) /\ wdts[c] # NoGroup
    /\ wdts[c] # NoGroup => c \in unmasked

\* The watchdogs of a group come and go together, but for the boot that creates them.
WholeInv ==
  \A g \in Groups : \A c, d \in GroupCores[g] :
    wdts[c] # NoGroup /\ wdts[d] = NoGroup =>
      subsys = GroupSubsys[g] /\ pc \in InitSteps \cup {"lost"}

\* The CPUs of the subsystem that is being booted are in reset until all of them have their
\* watchdog; no interrupt of theirs is pending, and none will be before the boot is over.
BootInv ==
  \A g \in Groups : \A c \in GroupCores[g] : subsys = GroupSubsys[g] =>
    /\ pc \in InitSteps \cup {"load", "lost"} => core[c] = "reset"
    /\ c \notin pending /\ (c \in on => c \in fresh)
    /\ pc \in InitSteps => wdts[c] # NoGroup \/ \E i \in DOMAIN todo : todo[i][2] = c
    /\ pc \in BootSteps \ InitSteps => wdts[c] # NoGroup

\* What the main loop releases, or resets; and what it has read of the register that it is
\* about to write back.
ReleaseInv ==
  /\ pc \in {"release", "release_store"} /\ subsys # NoSubsys =>
       \A i \in DOMAIN todo :
         /\ todo[i] \in Releases(subsys)
         /\ todo[i] \in Guarded =>
              /\ core[todo[i]] = "reset"
              /\ \A j \in DOMAIN todo : todo[j] = todo[i] => i = j
  /\ pc \in {"release", "release_store", "assert_store"} /\ subsys = NoSubsys =>
       Head(todo) \in PsciCores /\ Tail(todo) = <<>>
  /\ pc \in {"release_store", "assert_store"} =>
       \A c \in Cores : core[c] = "reset" /\ ResetReg[c] = ResetReg[Head(todo)] => c \in reg

\* What the main loop knows of the watchdog it is creating.
CreateInv ==
  /\ unmasked \subseteq Guarded
  /\ pc = "configure" => ~wasOn
  /\ pc = "register" => InitCore \in unmasked
  /\ subsys # NoSubsys => pc \in BootSteps \cup {"load", "lost"}

WatchInv ==
  TimerInv /\ RunInv /\ WholeInv /\ BootInv /\ ReleaseInv /\ CreateInv /\ NoPanic

-----------------------------------------------------------------------------
\* A watched CPU is in one group, and its watchdog, if it has one, is of that group.
LEMMA OneGroup ==
  ASSUME PoolInv, SingleGroups, NEW g \in Groups, NEW c \in GroupCores[g]
  PROVE  /\ c \in Cores /\ c \in Guarded /\ wdts[c] \in {g, NoGroup}
         /\ GroupSubsys[g] \in Subsystems /\ GroupSubsys[g] # NoSubsys
         /\ \A h \in Groups : c \in GroupCores[h] => h = g
         /\ \A h \in Groups : GroupSubsys[h] = GroupSubsys[g] => h = g
<1>1. c \in Cores /\ c \in Guarded /\ GroupSubsys[g] \in Subsystems /\ GroupSubsys[g] # NoSubsys
  BY RebootAssumption DEF Guarded
<1>2. \A h \in Groups : c \in GroupCores[h] => h = g
  BY DEF SingleGroups
<1>3. wdts[c] # NoGroup => wdts[c] \in Groups /\ c \in GroupCores[wdts[c]]
  BY <1>1 DEF PoolInv, TypeOK
<1>4. \A h \in Groups : GroupSubsys[h] = GroupSubsys[g] => h = g
  BY DEF SingleGroups
<1>5. QED
  BY <1>1, <1>2, <1>3, <1>4

\* In the initial state nothing is watched and no watched CPU runs.
LEMMA WatchInit == Init /\ Apart => WatchInv
<1> SUFFICES ASSUME Init, Apart PROVE WatchInv
  OBVIOUS
<1>1. /\ pc = "run" /\ subsys = NoSubsys /\ pending = {} /\ unmasked = {} /\ on = Running
      /\ \A c \in Cores : wdts[c] = NoGroup
  BY DEF Init
<1>2. \A c \in Guarded : c \in Cores /\ core[c] = "reset" /\ c \notin on
  <2>1. Guarded \subseteq Cores
    BY RebootAssumption DEF Guarded
  <2>2. QED
    BY <2>1 DEF Init, Apart
<1>3. \A g \in Groups : \A c \in GroupCores[g] :
        c \in Guarded /\ wdts[c] = NoGroup /\ core[c] = "reset" /\ GroupSubsys[g] # NoSubsys
  BY <1>1, <1>2, RebootAssumption DEF Guarded
<1>4. TimerInv /\ RunInv /\ WholeInv /\ BootInv
  BY <1>1, <1>2, <1>3 DEF TimerInv, RunInv, WholeInv, BootInv
<1>5. ReleaseInv /\ CreateInv /\ NoPanic
  BY <1>1 DEF ReleaseInv, CreateInv, NoPanic
<1>6. QED
  BY <1>4, <1>5 DEF WatchInv

\* The software of a CPU, and its timer: a timer that expires is that of a CPU that runs,
\* of a subsystem that is not being booted.
LEMMA CpuWatch ==
  ASSUME PoolInv, SingleGroups, WatchInv, NEW c \in Cores, Start(c) \/ Hang(c) \/ Expire(c)
  PROVE  WatchInv'
<1>1. UNCHANGED <<requests, pc, subsys, todo, reg, wasOn, failed, wdts, objects, unmasked>>
  BY DEF Start, Hang, Expire, bootVars, wdtVars
<1>2. /\ \A d \in Cores : d # c => core'[d] = core[d] /\ (d \in on' <=> d \in on)
                                    /\ (d \in pending' <=> d \in pending)
      /\ \A d \in Cores : core'[d] = "reset" <=> core[d] = "reset"
      /\ c \in Guarded => core[c] # "reset"
  <2>1. core \in [Cores -> {"reset", "boot", "up", "hung"}]
    BY DEF PoolInv, TypeOK
  <2>2. CASE Start(c)
    BY <2>1, <2>2 DEF Start
  <2>3. CASE Hang(c)
    BY <2>1, <2>3 DEF Hang, wdtVars
  <2>4. CASE Expire(c)
    BY <2>1, <2>4 DEF Expire, WatchInv, TimerInv
  <2>5. QED
    BY <2>2, <2>3, <2>4
<1>3. Guarded' = Guarded /\ Guarded \subseteq Cores
  BY RebootAssumption DEF Guarded
<1>4. TimerInv'
  <2>1. ASSUME c \in Guarded
        PROVE  /\ core'[c] \in {"reset", "boot"} => c \notin on' \cup pending'
               /\ c \in pending' => c \notin on'
    <3>1. CASE Start(c)
      BY <2>1, <3>1 DEF Start, WatchInv, TimerInv, PoolInv, TypeOK
    <3>2. CASE Hang(c)
      BY <2>1, <3>2 DEF Hang, wdtVars, WatchInv, TimerInv, PoolInv, TypeOK
    <3>3. CASE Expire(c)
      BY <2>1, <3>3 DEF Expire, WatchInv, TimerInv, PoolInv, TypeOK
    <3>4. QED
      BY <3>1, <3>2, <3>3
  <2>2. \A d \in Guarded : d # c =>
               /\ core'[d] \in {"reset", "boot"} => d \notin on' \cup pending'
               /\ d \in pending' => d \notin on'
    BY <1>2, <1>3 DEF WatchInv, TimerInv
  <2>3. QED
    BY <1>3, <2>1, <2>2 DEF TimerInv
<1>5. RunInv'
  BY <1>1, <1>2, RebootAssumption DEF WatchInv, RunInv
<1>6. WholeInv'
  BY <1>1 DEF WatchInv, WholeInv
<1>7. BootInv'
  <2> SUFFICES ASSUME NEW g \in Groups, NEW d \in GroupCores[g], subsys = GroupSubsys[g]
               PROVE  /\ pc \in InitSteps \cup {"load", "lost"} => core'[d] = "reset"
                      /\ d \notin pending' /\ (d \in on' => d \in fresh')
                      /\ pc \in InitSteps => wdts[d] # NoGroup \/ \E i \in DOMAIN todo : todo[i][2] = d
                      /\ pc \in BootSteps \ InitSteps => wdts[d] # NoGroup
    BY <1>1 DEF BootInv
  <2>1. /\ d \in Cores /\ GroupSubsys[g] # NoSubsys
        /\ pc \in InitSteps \cup {"load", "lost"} => core[d] = "reset"
        /\ d \notin pending /\ (d \in on => d \in fresh)
        /\ pc \in InitSteps => wdts[d] # NoGroup \/ \E i \in DOMAIN todo : todo[i][2] = d
        /\ pc \in BootSteps \ InitSteps => wdts[d] # NoGroup
    BY OneGroup DEF WatchInv, BootInv
  <2>2. d \notin pending'
    BY <2>1 DEF Start, Hang, Expire, wdtVars
  <2>3. d \in on' => d \in fresh'
    BY <2>1 DEF Start, Hang, Expire, wdtVars, Booting
  <2>4. QED
    BY <1>2, <2>1, <2>2, <2>3
<1>8. ReleaseInv'
  <2>1. pc \in {"release", "release_store"} => \A i \in DOMAIN todo : todo[i] \in Cores
    BY DEF PoolInv, TypeOK
  <2>2. QED
    BY <1>1, <1>2, <1>3, <2>1 DEF WatchInv, ReleaseInv
<1>9. CreateInv' /\ NoPanic'
  BY <1>1, <1>3 DEF WatchInv, CreateInv, NoPanic, InitCore
<1>10. QED
  BY <1>4, <1>5, <1>6, <1>7, <1>8, <1>9 DEF WatchInv

\* A timeout finds the watchdogs of its group complete and its own stopped, which no
\* boot is creating; it resets the whole group, whose other CPUs never ran.
LEMMA TimeoutWatch ==
  ASSUME PoolInv, PoolInv', SingleGroups, Apart, WatchInv, NEW c \in Cores, TimeoutIsr(c)
  PROVE  WatchInv'
<1>1. /\ Delivered(c) /\ UNCHANGED <<subsys, todo, reg, wasOn, failed, fresh>>
      /\ pending' = pending \ {c} /\ c \in pending /\ c \in unmasked /\ pc # "panic" /\ pc # "lost"
  BY DEF TimeoutIsr, ClearStatus, Delivered, MaskedPCs
<1>2. c \in Guarded /\ c \notin on /\ core[c] \notin {"reset", "boot"}
  BY <1>1 DEF WatchInv, CreateInv, TimerInv
<1>3. PICK g \in Groups : c \in GroupCores[g]
  BY <1>2 DEF Guarded
<1>4. /\ wdts[c] = g /\ g # NoGroup /\ c \in Releases(GroupSubsys[g]) /\ GroupSubsys[g] \in Subsystems
      /\ \A h \in Groups : GroupSubsys[h] = GroupSubsys[g] => h = g
  <2>1. core[c] # "reset"
    BY <1>2
  <2>2. wdts[c] # NoGroup /\ c \in Releases(GroupSubsys[g])
    BY <1>3, <2>1 DEF WatchInv, RunInv
  <2>3. QED
    BY <1>3, <2>2, OneGroup
<1>5. subsys # GroupSubsys[g]
  BY <1>1, <1>3 DEF WatchInv, BootInv
<1>6. \A d \in GroupCores[g] : wdts[d] # NoGroup /\ d \in Cores /\ d \in Guarded
  <2>1. \A d \in GroupCores[g] : wdts[d] # NoGroup
    BY <1>3, <1>4, <1>5 DEF WatchInv, WholeInv
  <2>2. QED
    BY <2>1, OneGroup
<1>7. \A d \in GroupCores[g] : d # c => core[d] = "reset" /\ d \notin on \cup pending
  <2> SUFFICES ASSUME NEW d \in GroupCores[g], d # c
               PROVE  core[d] = "reset" /\ d \notin on \cup pending
    OBVIOUS
  <2>1. d \notin Releases(GroupSubsys[g])
    BY <1>3, <1>4 DEF Apart, Releases
  <2>2. core[d] = "reset"
    BY <2>1 DEF WatchInv, RunInv
  <2>3. QED
    BY <1>6, <2>2 DEF WatchInv, TimerInv
<1>8. ~TimeoutAsserts(c)
  BY <1>2, <1>4, <1>6 DEF TimeoutAsserts
<1>9. /\ core' = [d \in Cores |-> IF d \in GroupCores[g] THEN "reset" ELSE core[d]]
      /\ on' = on \ GroupCores[g] /\ unmasked' = unmasked \ GroupCores[g]
      /\ wdts' = [d \in Cores |-> IF d \in GroupCores[g] THEN NoGroup ELSE wdts[d]]
      /\ pc' = pc
  BY <1>4, <1>8 DEF TimeoutIsr, ResetAssert, DeinitGroup, BootRequest
<1>10. \A h \in Groups : \A d \in GroupCores[h] : h # g =>
         /\ d \notin GroupCores[g] /\ d # c /\ wdts'[d] = wdts[d] /\ core'[d] = core[d]
         /\ (d \in unmasked' <=> d \in unmasked) /\ (d \in pending' <=> d \in pending)
         /\ (d \in on' <=> d \in on)
  BY <1>1, <1>3, <1>9, OneGroup
<1>11. \A d \in GroupCores[g] :
         wdts'[d] = NoGroup /\ core'[d] = "reset" /\ d \notin on' \cup pending'
  BY <1>1, <1>6, <1>7, <1>9
<1>12. TimerInv'
  <2> SUFFICES ASSUME NEW d \in Guarded
               PROVE  /\ core'[d] \in {"reset", "boot"} => d \notin on' \cup pending'
                      /\ d \in pending' => d \notin on'
    BY DEF TimerInv, Guarded
  <2>1. PICK h \in Groups : d \in GroupCores[h]
    BY DEF Guarded
  <2>2. CASE h = g
    BY <1>11, <2>1, <2>2
  <2>3. CASE h # g
    BY <1>10, <2>1, <2>3 DEF WatchInv, TimerInv
  <2>4. QED
    BY <2>2, <2>3
<1>13. RunInv'
  <2> SUFFICES ASSUME NEW h \in Groups, NEW d \in GroupCores[h]
               PROVE  /\ core'[d] # "reset" => d \in Releases(GroupSubsys[h]) /\ wdts'[d] # NoGroup
                      /\ wdts'[d] # NoGroup => d \in unmasked'
    BY DEF RunInv, Releases
  <2>1. CASE h = g
    BY <1>11, <2>1
  <2>2. CASE h # g
    BY <1>10, <2>2 DEF WatchInv, RunInv
  <2>3. QED
    BY <2>1, <2>2
<1>14. WholeInv'
  <2> SUFFICES ASSUME NEW h \in Groups, NEW d \in GroupCores[h], NEW e \in GroupCores[h],
                      wdts'[d] # NoGroup, wdts'[e] = NoGroup
               PROVE  subsys' = GroupSubsys[h] /\ pc' \in InitSteps \cup {"lost"}
    BY DEF WholeInv
  <2>1. h # g
    BY <1>11
  <2>2. QED
    BY <1>1, <1>9, <1>10, <2>1 DEF WatchInv, WholeInv
<1>15. BootInv'
  <2> SUFFICES ASSUME NEW h \in Groups, NEW d \in GroupCores[h], subsys' = GroupSubsys[h]
               PROVE  /\ pc' \in InitSteps \cup {"load", "lost"} => core'[d] = "reset"
                      /\ d \notin pending' /\ (d \in on' => d \in fresh')
                      /\ pc' \in InitSteps => wdts'[d] # NoGroup \/ \E i \in DOMAIN todo' : todo'[i][2] = d
                      /\ pc' \in BootSteps \ InitSteps => wdts'[d] # NoGroup
    BY DEF BootInv
  <2>1. h # g
    BY <1>1, <1>5
  <2>2. /\ pc \in InitSteps \cup {"load", "lost"} => core[d] = "reset"
        /\ d \notin pending /\ (d \in on => d \in fresh)
        /\ pc \in InitSteps => wdts[d] # NoGroup \/ \E i \in DOMAIN todo : todo[i][2] = d
        /\ pc \in BootSteps \ InitSteps => wdts[d] # NoGroup
    BY <1>1 DEF WatchInv, BootInv
  <2>3. /\ wdts'[d] = wdts[d] /\ core'[d] = core[d]
        /\ (d \in pending' <=> d \in pending) /\ (d \in on' <=> d \in on)
    BY <1>10, <2>1
  <2>4. todo' = todo /\ pc' = pc /\ fresh' = fresh
    BY <1>1, <1>9
  <2>5. QED
    BY <2>2, <2>3, <2>4
<1>16. ReleaseInv'
  <2>1. ASSUME pc \in {"release", "release_store"}, subsys # NoSubsys, NEW i \in DOMAIN todo,
               todo[i] \in Guarded
        PROVE  core'[todo[i]] = "reset"
    <3>1. core[todo[i]] = "reset" /\ todo[i] \in Cores
      BY <2>1 DEF WatchInv, ReleaseInv, PoolInv, TypeOK
    <3>2. QED
      BY <1>9, <3>1
  <2>2. ASSUME pc \in {"release_store", "assert_store"}, NEW d \in Cores, core'[d] = "reset",
               ResetReg[d] = ResetReg[Head(todo)]
        PROVE  d \in reg
    <3>1. todo \in Seq(Cores) /\ todo # <<>> /\ Head(todo) \in Cores /\ Head(todo) = todo[1] /\ 1 \in DOMAIN todo
      <4>1. todo \in Seq(Cores) /\ todo # <<>>
        BY <2>2 DEF PoolInv, TypeOK
      <4>2. QED
        BY <4>1, TailElements
    <3>2. d \notin GroupCores[g]
      <4> SUFFICES ASSUME d \in GroupCores[g] PROVE FALSE
        OBVIOUS
      <4>1. Head(todo) \in GroupCores[g]
        BY <2>2, <3>1 DEF Apart
      <4>2. CASE subsys = NoSubsys
        <5>1. Head(todo) \in PsciCores
          BY <2>2, <4>2 DEF WatchInv, ReleaseInv
        <5>2. QED
          BY <1>6, <4>1, <5>1 DEF Apart
      <4>3. CASE subsys # NoSubsys
        <5>1. pc = "release_store" /\ subsys \in Subsystems
          BY <2>2, <4>3 DEF PoolInv, TypeOK, IdleSteps
        <5>2. todo[1] \in Releases(subsys)
          BY <3>1, <4>3, <5>1 DEF WatchInv, ReleaseInv
        <5>3. subsys = GroupSubsys[g]
          BY <3>1, <4>1, <5>1, <5>2 DEF Apart, Releases
        <5>4. QED
          BY <1>5, <5>3
      <4>4. QED
        BY <4>2, <4>3
    <3>3. core[d] = "reset"
      BY <1>9, <2>2, <3>2
    <3>4. QED
      BY <2>2, <3>3 DEF WatchInv, ReleaseInv
  <2>3. ReleaseInv
    BY DEF WatchInv
  <2>4. QED
    BY <1>1, <1>9, <2>1, <2>2, <2>3 DEF ReleaseInv, Releases, Guarded
<1>17. CreateInv'
  <2>1. pc = "register" => InitCore \notin GroupCores[g]
    <3> SUFFICES ASSUME pc = "register", InitCore \in GroupCores[g] PROVE FALSE
      OBVIOUS
    <3>1. todo \in Seq(Groups \X Cores) /\ todo # <<>>
      BY DEF PoolInv, TypeOK, InitSteps
    <3>2. Head(todo) = todo[1] /\ 1 \in DOMAIN todo /\ Head(todo) \in Groups \X Cores
      BY <3>1, TailElements
    <3>3. GroupSubsys[InitGroup] = subsys /\ InitCore \in GroupCores[InitGroup] /\ InitGroup \in Groups
      BY <3>2 DEF PoolInv, ToCreate, InitSteps, InitGroup, InitCore
    <3>4. QED
      BY <1>5, <3>3 DEF SingleGroups
  <2>2. unmasked' \subseteq unmasked /\ Guarded' = Guarded /\ InitCore' = InitCore
    BY <1>1, <1>9 DEF Guarded, InitCore
  <2>3. QED
    BY <1>1, <1>9, <2>1, <2>2 DEF WatchInv, CreateInv
<1>18. NoPanic'
  BY <1>1, <1>9 DEF NoPanic
<1>19. QED
  BY <1>12, <1>13, <1>14, <1>15, <1>16, <1>17, <1>18 DEF WatchInv

\* What a step keeps that leaves the CPUs, their timers and their interrupts alone.
LEMMA QuietKept ==
  ASSUME WatchInv, UNCHANGED <<core, on, pending, unmasked, wdts>>
  PROVE  TimerInv' /\ RunInv'
BY DEF WatchInv, TimerInv, RunInv, Guarded, Releases

\* The main loop between two boots.
LEMMA IdleWatch ==
  ASSUME PoolInv, WatchInv,
         \/ BootNone \/ IdleCheck \/ IntEnable \/ IntDisable \/ WakeUp \/ CmdResetStore
         \/ \E s \in Commanded : CmdReset(s)
         \/ \E c \in PsciCores : PsciSuspend(c) \/ PsciWakeup(c)
  PROVE  WatchInv'
<1>1. /\ pc \in IdleSteps /\ pc' \in IdleSteps \cup {"release"}
      /\ UNCHANGED <<subsys, wasOn, failed, wdts, on, fresh, pending, unmasked, core>>
      /\ pc' \in {"release", "assert_store"} => \E c \in PsciCores : todo' = <<c>>
      /\ pc' = "assert_store" => reg' = {d \in Cores : core[d] = "reset"}
  BY DEF BootNone, IdleCheck, IntEnable, IntDisable, WakeUp, CmdResetStore, CmdReset, PsciSuspend,
         PsciWakeup, Goto, At, wdtVars, IdleSteps
<1>2. subsys = NoSubsys
  BY <1>1 DEF PoolInv
<1>3. TimerInv' /\ RunInv'
  BY <1>1, QuietKept
<1>4. WholeInv' /\ BootInv'
  <2>1. \A g \in Groups : GroupSubsys[g] # NoSubsys
    BY RebootAssumption
  <2>2. BootInv'
    BY <1>1, <1>2, <2>1 DEF BootInv
  <2>3. WholeInv'
    BY <1>1, <1>2, <2>1 DEF WatchInv, WholeInv
  <2>4. QED
    BY <2>2, <2>3
<1>5. ReleaseInv'
  <2>1. \A c : Head(<<c>>) = c /\ Tail(<<c>>) = <<>>
    OBVIOUS
  <2>2. QED
    BY <1>1, <1>2, <2>1 DEF ReleaseInv, IdleSteps
<1>6. CreateInv' /\ NoPanic'
  BY <1>1, <1>2 DEF WatchInv, CreateInv, NoPanic, IdleSteps, Guarded
<1>7. QED
  BY <1>3, <1>4, <1>5, <1>6 DEF WatchInv

\* A boot begins with CPUs that are all in reset: their watchdogs were removed with the
\* timeout that asked for it.
LEMMA BootHandleWatch ==
  ASSUME PoolInv, SingleGroups, WatchInv, BootHandle
  PROVE  WatchInv'
<1>1. /\ pc = "run" /\ pc' = "load" /\ subsys = NoSubsys /\ subsys' \in requests
      /\ UNCHANGED <<requests, todo, reg, wasOn, failed, wdts, objects, on, fresh, pending,
                     unmasked, core>>
  BY DEF BootHandle, Goto, At, PoolInv, IdleSteps, wdtVars
<1>2. TimerInv' /\ RunInv'
  BY <1>1, QuietKept
<1>3. WholeInv'
  BY <1>1, RebootAssumption DEF WatchInv, WholeInv
<1>4. BootInv'
  <2> SUFFICES ASSUME NEW g \in Groups, NEW c \in GroupCores[g], subsys' = GroupSubsys[g]
               PROVE  core[c] = "reset" /\ c \notin pending /\ c \notin on
    BY <1>1 DEF BootInv, InitSteps, BootSteps
  <2>1. c \in Cores /\ c \in Guarded /\ wdts[c] \in {g, NoGroup} /\ GroupSubsys[g] # NoSubsys
    BY OneGroup
  <2>2. wdts[c] = NoGroup
    BY <1>1, <2>1 DEF PoolInv, Requested
  <2>3. core[c] = "reset"
    BY <2>2 DEF WatchInv, RunInv
  <2>4. QED
    BY <2>1, <2>3 DEF WatchInv, TimerInv
<1>5. ReleaseInv' /\ CreateInv' /\ NoPanic'
  BY <1>1 DEF WatchInv, ReleaseInv, CreateInv, NoPanic, Guarded
<1>6. QED
  BY <1>2, <1>3, <1>4, <1>5 DEF WatchInv

\* After the images are loaded, each watched CPU of the subsystem waits for its watchdog.
LEMMA BootLoadWatch ==
  ASSUME PoolInv, SingleGroups, Apart, WatchInv, BootLoad
  PROVE  WatchInv'
<1>1. /\ pc = "load" /\ subsys # NoSubsys /\ subsys \in Subsystems
      /\ UNCHANGED <<requests, subsys, reg, wasOn, wdts, objects, on, fresh, pending,
                     unmasked, core>>
      /\ \/ InitOrder[subsys] = <<>> /\ pc' = "release" /\ todo' = ReleaseOrder[subsys]
         \/ pc' = "create" /\ todo' = InitOrder[subsys]
  BY DEF BootLoad, At, PoolInv, TypeOK, InitSteps, wdtVars
<1>2. TimerInv' /\ RunInv'
  BY <1>1, QuietKept
<1>3. \A g \in Groups : \A c \in GroupCores[g] : subsys = GroupSubsys[g] =>
        /\ core[c] = "reset" /\ c \notin pending /\ (c \in on => c \in fresh)
        /\ \E i \in DOMAIN InitOrder[subsys] : InitOrder[subsys][i][2] = c
  BY <1>1 DEF WatchInv, BootInv, Apart
<1>4. BootInv'
  BY <1>1, <1>3 DEF BootInv, InitSteps, BootSteps
<1>5. WholeInv'
  BY <1>1 DEF WatchInv, WholeInv, InitSteps
<1>6. ReleaseInv'
  <2> SUFFICES ASSUME pc' = "release", NEW i \in DOMAIN ReleaseOrder[subsys],
                      NEW c, c = ReleaseOrder[subsys][i]
               PROVE  /\ c \in Releases(subsys)
                      /\ c \in Guarded =>
                           /\ core[c] = "reset"
                           /\ \A j \in DOMAIN ReleaseOrder[subsys] : ReleaseOrder[subsys][j] = c => i = j
    BY <1>1 DEF ReleaseInv, Releases, Guarded
  <2>1. ASSUME NEW g \in Groups, c \in GroupCores[g]
        PROVE  FALSE
    <3>1. subsys = GroupSubsys[g]
      BY <1>1, <2>1 DEF Apart
    <3>2. QED
      BY <1>1, <1>3, <2>1, <3>1
  <2>2. QED
    BY <2>1 DEF Releases, Guarded
<1>7. CreateInv' /\ NoPanic'
  BY <1>1 DEF WatchInv, CreateInv, NoPanic, BootSteps, InitSteps, Guarded
<1>8. QED
  BY <1>2, <1>4, <1>5, <1>6, <1>7 DEF WatchInv

\* The watchdog about to be created is that of a CPU of the subsystem being booted.
LEMMA InitCoreBoots ==
  ASSUME PoolInv, WatchInv, pc \in InitSteps
  PROVE  /\ InitGroup \in Groups /\ InitCore \in GroupCores[InitGroup]
         /\ InitGroup = todo[1][1] /\ InitCore = todo[1][2]
         /\ GroupSubsys[InitGroup] = subsys /\ InitCore \in Guarded /\ InitCore \in Cores
         /\ core[InitCore] = "reset" /\ InitCore \notin on
<1>1. todo \in Seq(Groups \X Cores) /\ todo # <<>>
  BY DEF PoolInv, TypeOK
<1>2. Head(todo) = todo[1] /\ 1 \in DOMAIN todo /\ Head(todo) \in Groups \X Cores
  BY <1>1, TailElements
<1>3. /\ InitGroup \in Groups /\ InitCore \in Cores /\ InitGroup = todo[1][1] /\ InitCore = todo[1][2]
      /\ GroupSubsys[InitGroup] = subsys /\ InitCore \in GroupCores[InitGroup]
  BY <1>2 DEF InitGroup, InitCore, PoolInv, ToCreate
<1>4. core[InitCore] = "reset" /\ InitCore \in Guarded
  BY <1>3 DEF WatchInv, BootInv, Guarded
<1>5. QED
  BY <1>3, <1>4 DEF WatchInv, TimerInv

\* wdt_create, for a CPU in reset, whose timer is off.
LEMMA CreateWatch ==
  ASSUME PoolInv, WatchInv, CreateWdt
  PROVE  WatchInv'
<1>1. /\ pc = "create" /\ pc' \in {"configure", "lost"} /\ wasOn' = (InitCore \in on)
      /\ UNCHANGED <<requests, subsys, todo, reg, failed, wdts, on, fresh, pending, unmasked, core>>
  BY DEF CreateWdt, Goto, At
<1>2. TimerInv' /\ RunInv'
  BY <1>1, QuietKept
<1>3. ~wasOn'
  BY <1>1, InitCoreBoots DEF InitSteps
<1>4. WholeInv' /\ BootInv'
  <2>1. WholeInv'
    BY <1>1 DEF WatchInv, WholeInv, InitSteps
  <2>2. BootInv'
    BY <1>1 DEF WatchInv, BootInv, InitSteps, BootSteps
  <2>3. QED
    BY <2>1, <2>2
<1>5. ReleaseInv' /\ CreateInv' /\ NoPanic'
  BY <1>1, <1>3 DEF WatchInv, ReleaseInv, CreateInv, NoPanic, BootSteps, InitSteps, Guarded
<1>6. QED
  BY <1>2, <1>4, <1>5 DEF WatchInv

\* wdt_configure finds the timer off, and leaves it off.
LEMMA ConfigureWatch ==
  ASSUME PoolInv, WatchInv, ConfigureWdt
  PROVE  WatchInv'
<1>1. pc = "configure" /\ ~wasOn /\ InitCore \notin on
  BY InitCoreBoots DEF ConfigureWdt, Goto, At, WatchInv, CreateInv, InitSteps
<1>2. /\ pc' = "irq"
      /\ UNCHANGED <<requests, subsys, todo, reg, wasOn, failed, wdts, objects, on, fresh, pending,
                     unmasked, core>>
  BY <1>1 DEF ConfigureWdt, Goto
<1>3. TimerInv' /\ RunInv'
  BY <1>2, QuietKept
<1>4. WholeInv' /\ BootInv'
  <2>1. WholeInv'
    BY <1>1, <1>2 DEF WatchInv, WholeInv, InitSteps
  <2>2. BootInv'
    BY <1>1, <1>2 DEF WatchInv, BootInv, InitSteps, BootSteps
  <2>3. QED
    BY <2>1, <2>2
<1>5. ReleaseInv' /\ CreateInv' /\ NoPanic'
  BY <1>1, <1>2 DEF WatchInv, ReleaseInv, CreateInv, NoPanic, BootSteps, InitSteps, Guarded
<1>6. QED
  BY <1>3, <1>4, <1>5 DEF WatchInv

\* nvic_int_enable: no interrupt of the CPU is pending that it could let through.
LEMMA EnableWatch ==
  ASSUME PoolInv, WatchInv, EnableIrq
  PROVE  WatchInv'
<1>1. /\ pc = "irq" /\ pc' = "register" /\ unmasked' = unmasked \cup {InitCore}
      /\ UNCHANGED <<requests, subsys, todo, reg, wasOn, failed, wdts, objects, on, fresh, pending, core>>
      /\ InitCore \in Guarded
  BY InitCoreBoots DEF EnableIrq, Goto, At, InitSteps
<1>2. TimerInv'
  BY <1>1 DEF WatchInv, TimerInv, Guarded
<1>3. RunInv'
  BY <1>1 DEF WatchInv, RunInv, Releases
<1>4. WholeInv'
  BY <1>1 DEF WatchInv, WholeInv, InitSteps
<1>5. BootInv'
  BY <1>1 DEF WatchInv, BootInv, InitSteps, BootSteps
<1>6. CreateInv'
  <2>1. InitCore' = InitCore /\ Guarded' = Guarded
    BY <1>1 DEF InitCore, Guarded
  <2>2. QED
    BY <1>1, <2>1 DEF WatchInv, CreateInv, BootSteps, InitSteps
<1>7. ReleaseInv' /\ NoPanic'
  BY <1>1 DEF ReleaseInv, NoPanic
<1>8. QED
  BY <1>2, <1>3, <1>4, <1>5, <1>6, <1>7 DEF WatchInv

\* The watchdog is registered with its interrupt enabled; after the last one, all CPUs of
\* the subsystem have theirs, and are still in reset.
LEMMA RegisterWatch ==
  ASSUME PoolInv, SingleGroups, Apart, WatchInv, RegisterWdt
  PROVE  WatchInv'
<1>1. /\ pc = "register" /\ subsys \in Subsystems /\ subsys # NoSubsys
      /\ wdts' = [wdts EXCEPT ![InitCore] = InitGroup]
      /\ UNCHANGED <<requests, subsys, reg, wasOn, failed, objects, on, fresh, pending, unmasked, core>>
      /\ \/ pc' = "create" /\ todo' = Tail(todo)
         \/ pc' = "release" /\ todo' = ReleaseOrder[subsys] /\ Tail(todo) = <<>>
  BY DEF RegisterWdt, At, PoolInv, TypeOK, InitSteps
<1>2. /\ InitGroup \in Groups /\ InitCore \in GroupCores[InitGroup] /\ InitCore \in Cores
      /\ InitGroup = todo[1][1] /\ InitCore = todo[1][2] /\ GroupSubsys[InitGroup] = subsys
      /\ InitGroup # NoGroup /\ InitCore \in unmasked /\ core[InitCore] = "reset"
  BY <1>1, InitCoreBoots, RebootAssumption DEF InitSteps, WatchInv, CreateInv
<1>3. /\ wdts'[InitCore] = InitGroup
      /\ \A d \in Cores : d # InitCore => wdts'[d] = wdts[d]
  BY <1>1, <1>2 DEF PoolInv, TypeOK
<1>4. \A g \in Groups : \A d \in GroupCores[g] : d \in Cores
  BY RebootAssumption
<1>5. \A g \in Groups : \A d \in GroupCores[g] : subsys = GroupSubsys[g] =>
        core[d] = "reset" /\ d \notin pending /\ (d \in on => d \in fresh)
  BY <1>1 DEF WatchInv, BootInv, InitSteps
<1>6. TimerInv'
  BY <1>1 DEF WatchInv, TimerInv, Guarded
<1>7. RunInv'
  <2> SUFFICES ASSUME NEW g \in Groups, NEW d \in GroupCores[g]
               PROVE  /\ core[d] # "reset" => d \in Releases(GroupSubsys[g]) /\ wdts'[d] # NoGroup
                      /\ wdts'[d] # NoGroup => d \in unmasked
    BY <1>1 DEF RunInv, Releases
  <2>1. /\ core[d] # "reset" => d \in Releases(GroupSubsys[g]) /\ wdts[d] # NoGroup
        /\ wdts[d] # NoGroup => d \in unmasked
    BY DEF WatchInv, RunInv
  <2>2. QED
    BY <1>2, <1>3, <1>4, <2>1
<1>8. \A g \in Groups : \A d \in GroupCores[g] : subsys = GroupSubsys[g] =>
        \/ wdts'[d] # NoGroup
        \/ \E i \in DOMAIN todo : todo[i][2] = d /\ i # 1
  <2> SUFFICES ASSUME NEW g \in Groups, NEW d \in GroupCores[g], subsys = GroupSubsys[g]
               PROVE  \/ wdts'[d] # NoGroup
                      \/ \E i \in DOMAIN todo : todo[i][2] = d /\ i # 1
    OBVIOUS
  <2>1. wdts[d] # NoGroup \/ \E i \in DOMAIN todo : todo[i][2] = d
    BY <1>1 DEF WatchInv, BootInv, InitSteps
  <2>2. CASE d = InitCore
    BY <1>2, <1>3, <2>2
  <2>3. CASE d # InitCore
    BY <1>2, <1>3, <1>4, <2>1, <2>3
  <2>4. QED
    BY <2>2, <2>3
<1>9. \A i \in DOMAIN todo : i # 1 =>
        i - 1 \in DOMAIN Tail(todo) /\ Tail(todo)[i - 1] = todo[i]
  <2>1. todo \in Seq(Groups \X Cores) /\ todo # <<>>
    BY <1>1 DEF PoolInv, TypeOK, InitSteps
  <2>2. /\ Tail(todo) \in Seq(Groups \X Cores) /\ Len(Tail(todo)) = Len(todo) - 1
        /\ \A i \in 1 .. Len(Tail(todo)) : Tail(todo)[i] = todo[i + 1]
    BY <2>1, HeadTailProperties
  <2>3. DOMAIN todo = 1 .. Len(todo) /\ DOMAIN Tail(todo) = 1 .. Len(Tail(todo)) /\ Len(todo) \in Nat
    BY <2>1, <2>2
  <2>4. QED
    BY <2>2, <2>3
<1>10. CASE pc' = "create" /\ todo' = Tail(todo)
  <2>1. BootInv'
    <3> SUFFICES ASSUME NEW g \in Groups, NEW d \in GroupCores[g], subsys = GroupSubsys[g]
                 PROVE  wdts'[d] # NoGroup \/ \E i \in DOMAIN Tail(todo) : Tail(todo)[i][2] = d
      BY <1>1, <1>5, <1>10 DEF BootInv, InitSteps, BootSteps
    <3>1. CASE wdts'[d] # NoGroup
      BY <3>1
    <3>2. CASE \E i \in DOMAIN todo : todo[i][2] = d /\ i # 1
      <4>1. PICK i \in DOMAIN todo : todo[i][2] = d /\ i # 1
        BY <3>2
      <4>2. i - 1 \in DOMAIN Tail(todo) /\ Tail(todo)[i - 1][2] = d
        BY <1>9, <4>1
      <4>3. QED
        BY <4>2
    <3>3. QED
      BY <1>8, <3>1, <3>2
  <2>2. WholeInv'
    <3> SUFFICES ASSUME NEW g \in Groups, NEW d \in GroupCores[g], NEW e \in GroupCores[g],
                        wdts'[d] # NoGroup, wdts'[e] = NoGroup
                 PROVE  subsys = GroupSubsys[g]
      BY <1>1, <1>10 DEF WholeInv, InitSteps
    <3>1. CASE d = InitCore
      BY <1>2, <3>1 DEF SingleGroups
    <3>2. CASE d # InitCore
      <4>1. wdts[d] # NoGroup /\ wdts[e] = NoGroup
        BY <1>2, <1>3, <1>4, <3>2
      <4>2. QED
        BY <4>1 DEF WatchInv, WholeInv
    <3>3. QED
      BY <3>1, <3>2
  <2>3. ReleaseInv' /\ NoPanic'
    BY <1>10 DEF ReleaseInv, NoPanic
  <2>4. CreateInv'
    BY <1>1, <1>10 DEF WatchInv, CreateInv, Guarded, BootSteps, InitSteps
  <2>5. QED
    BY <1>6, <1>7, <2>1, <2>2, <2>3, <2>4 DEF WatchInv
<1>11. CASE pc' = "release" /\ todo' = ReleaseOrder[subsys] /\ Tail(todo) = <<>>
  <2>1. \A g \in Groups : \A d \in GroupCores[g] : subsys = GroupSubsys[g] => wdts'[d] # NoGroup
    <3>1. DOMAIN Tail(todo) = {}
      BY <1>11
    <3>2. QED
      BY <1>8, <1>9, <3>1
  <2>2. BootInv'
    BY <1>1, <1>5, <1>11, <2>1 DEF BootInv, InitSteps, BootSteps
  <2>3. WholeInv'
    <3> SUFFICES ASSUME NEW g \in Groups, NEW d \in GroupCores[g], NEW e \in GroupCores[g],
                        wdts'[d] # NoGroup, wdts'[e] = NoGroup
                 PROVE  FALSE
      BY DEF WholeInv
    <3>1. subsys # GroupSubsys[g]
      BY <2>1
    <3>2. d # InitCore /\ e # InitCore
      BY <1>2, <3>1 DEF SingleGroups
    <3>3. wdts[d] # NoGroup /\ wdts[e] = NoGroup
      BY <1>3, <1>4, <3>2
    <3>4. QED
      BY <3>1, <3>3 DEF WatchInv, WholeInv
  <2>4. ReleaseInv'
    <3> SUFFICES ASSUME NEW i \in DOMAIN ReleaseOrder[subsys], NEW c, c = ReleaseOrder[subsys][i]
                 PROVE  /\ c \in Releases(subsys)
                        /\ c \in Guarded =>
                             /\ core[c] = "reset"
                             /\ \A j \in DOMAIN ReleaseOrder[subsys] : ReleaseOrder[subsys][j] = c => i = j
      BY <1>1, <1>11 DEF ReleaseInv, Releases, Guarded
    <3>1. ASSUME NEW g \in Groups, c \in GroupCores[g]
          PROVE  /\ core[c] = "reset"
                 /\ \A j \in DOMAIN ReleaseOrder[subsys] : ReleaseOrder[subsys][j] = c => i = j
      <4>1. subsys = GroupSubsys[g]
        BY <1>1, <3>1 DEF Apart
      <4>2. core[c] = "reset"
        BY <1>5, <3>1, <4>1
      <4>3. \A j \in DOMAIN ReleaseOrder[subsys] : ReleaseOrder[subsys][j] = c => i = j
        BY <1>1, <3>1 DEF Apart
      <4>4. QED
        BY <4>2, <4>3
    <3>2. QED
      BY <3>1 DEF Releases, Guarded
  <2>5. CreateInv' /\ NoPanic'
    BY <1>1, <1>11 DEF WatchInv, CreateInv, NoPanic, Guarded, BootSteps, InitSteps
  <2>6. QED
    BY <1>6, <1>7, <2>2, <2>3, <2>4, <2>5 DEF WatchInv
<1>12. QED
  BY <1>1, <1>10, <1>11

\* What is about to be released, or reset by PSCI.
LEMMA ReleaseHead ==
  ASSUME PoolInv, Apart, WatchInv, pc \in {"release", "release_store", "assert_store"}
  PROVE  /\ todo \in Seq(Cores) /\ todo # <<>> /\ Head(todo) \in Cores
         /\ Head(todo) = todo[1] /\ 1 \in DOMAIN todo
         /\ Head(todo) \in Guarded =>
              pc # "assert_store" /\ subsys \in Subsystems /\ core[Head(todo)] = "reset"
         /\ \A g \in Groups : Head(todo) \in GroupCores[g] =>
              subsys = GroupSubsys[g] /\ Head(todo) \in Releases(subsys)
<1>1. todo \in Seq(Cores) /\ todo # <<>>
  BY DEF PoolInv, TypeOK
<1>2. Head(todo) \in Cores /\ Head(todo) = todo[1] /\ 1 \in DOMAIN todo
  BY <1>1, TailElements
<1>3. pc = "assert_store" => subsys = NoSubsys
  BY DEF PoolInv, IdleSteps
<1>4. subsys = NoSubsys => Head(todo) \notin Guarded
  BY DEF WatchInv, ReleaseInv, Apart
<1>5. subsys # NoSubsys =>
        subsys \in Subsystems /\ pc \in {"release", "release_store"} /\ Head(todo) \in Releases(subsys)
  BY <1>2, <1>3 DEF WatchInv, ReleaseInv, PoolInv, TypeOK
<1>6. Head(todo) \in Guarded => core[Head(todo)] = "reset"
  BY <1>2, <1>4, <1>5 DEF WatchInv, ReleaseInv
<1>7. \A g \in Groups : Head(todo) \in GroupCores[g] => Head(todo) \in Guarded
  BY DEF Guarded
<1>8. \A g \in Groups : Head(todo) \in GroupCores[g] => subsys = GroupSubsys[g]
  BY <1>4, <1>5, <1>7 DEF Apart, Releases
<1>9. QED
  BY <1>1, <1>2, <1>3, <1>4, <1>5, <1>6, <1>7, <1>8

\* What a step keeps that leaves the watched CPUs, their timers and interrupts alone.
LEMMA WatchedKept ==
  ASSUME WatchInv, UNCHANGED <<on, pending, unmasked, wdts>>,
         \A c \in Guarded : core'[c] = core[c]
  PROVE  TimerInv' /\ RunInv'
<1>1. \A g \in Groups : \A c \in GroupCores[g] : c \in Guarded
  BY DEF Guarded
<1>2. RunInv'
  BY <1>1 DEF WatchInv, RunInv, Releases
<1>3. TimerInv'
  BY DEF WatchInv, TimerInv, Guarded
<1>4. QED
  BY <1>2, <1>3

\* The pulse before a release is for CPUs without a watchdog: the watched ones are in reset.
LEMMA ReleaseLoadWatch ==
  ASSUME PoolInv, Apart, WatchInv, ReleaseLoad
  PROVE  WatchInv'
<1>1. /\ pc = "release" /\ pc' = "release_store"
      /\ UNCHANGED <<requests, subsys, todo, wasOn, failed, wdts, objects, on, fresh, pending, unmasked>>
      /\ core' = core \/ core' = [core EXCEPT ![Head(todo)] = "reset"]
      /\ reg' = {c \in Cores : core'[c] = "reset"}
  BY DEF ReleaseLoad, Goto, At, wdtVars
<1>2. core \in [Cores -> {"reset", "boot", "up", "hung"}] /\ Guarded \subseteq Cores
  BY RebootAssumption DEF PoolInv, TypeOK, Guarded
<1>3. \A c \in Guarded : core'[c] = core[c]
  BY <1>1, <1>2, ReleaseHead
<1>4. TimerInv' /\ RunInv'
  BY <1>1, <1>3, WatchedKept
<1>5. WholeInv'
  BY <1>1 DEF WatchInv, WholeInv, InitSteps
<1>6. BootInv'
  BY <1>1 DEF WatchInv, BootInv, InitSteps, BootSteps
<1>7. ReleaseInv'
  BY <1>1, <1>3 DEF WatchInv, ReleaseInv, Releases, Guarded
<1>8. CreateInv' /\ NoPanic'
  BY <1>1 DEF WatchInv, CreateInv, NoPanic, Guarded, BootSteps, InitSteps
<1>9. QED
  BY <1>4, <1>5, <1>6, <1>7, <1>8 DEF WatchInv

\* The store releases no CPU but the one it is for: no other CPU whose reset bit is in the
\* register can have been reset since the load.
LEMMA StoreReleases ==
  ASSUME PoolInv, Apart, WatchInv, NEW c \in Cores, pc \in {"release_store", "assert_store"},
         core[c] = "reset", Released(c)
  PROVE  c = Head(todo)
BY DEF WatchInv, ReleaseInv, Released

\* The register is written back: only the CPU that is being released leaves its reset.
LEMMA ReleaseStoreWatch ==
  ASSUME PoolInv, Apart, WatchInv, ReleaseStore
  PROVE  WatchInv'
<1>1. /\ pc = "release_store" /\ todo' = Tail(todo) /\ reg' = {}
      /\ core' = [c \in Cores |-> IF core[c] = "reset" /\ Released(c) THEN "boot" ELSE core[c]]
      /\ pc' = CASE Tail(todo) # <<>> -> "release"
                 [] Tail(todo) = <<>> /\ subsys # NoSubsys -> "finish"
                 [] OTHER -> "serve"
      /\ UNCHANGED <<requests, subsys, wasOn, failed, wdts, objects, on, fresh, pending, unmasked>>
  BY DEF ReleaseStore, At, wdtVars
<1>2. /\ pc' \in {"release", "finish", "serve"}
      /\ pc' = "release" => Tail(todo) # <<>>
      /\ pc' = "serve" => subsys = NoSubsys
  BY <1>1
<1>3. Guarded \subseteq Cores /\ \A g \in Groups : \A d \in GroupCores[g] : d \in Guarded
  BY RebootAssumption DEF Guarded
<1>4. \A d \in Cores : d # Head(todo) => core'[d] = core[d]
  BY <1>1, StoreReleases
<1>5. Head(todo) \in Cores => core'[Head(todo)] = core[Head(todo)] \/ core'[Head(todo)] = "boot"
  BY <1>1
<1>6. TimerInv'
  <2> SUFFICES ASSUME NEW d \in Guarded
               PROVE  /\ core'[d] \in {"reset", "boot"} => d \notin on \cup pending
                      /\ d \in pending => d \notin on
    BY <1>1 DEF TimerInv, Guarded
  <2>1. CASE d # Head(todo)
    BY <1>3, <1>4, <2>1 DEF WatchInv, TimerInv
  <2>2. CASE d = Head(todo)
    <3>1. core[d] = "reset"
      BY <1>1, <2>2, ReleaseHead
    <3>2. QED
      BY <3>1 DEF WatchInv, TimerInv
  <2>3. QED
    BY <2>1, <2>2
<1>7. RunInv'
  <2> SUFFICES ASSUME NEW g \in Groups, NEW d \in GroupCores[g]
               PROVE  /\ core'[d] # "reset" => d \in Releases(GroupSubsys[g]) /\ wdts[d] # NoGroup
                      /\ wdts[d] # NoGroup => d \in unmasked
    BY <1>1 DEF RunInv, Releases
  <2>1. CASE d # Head(todo)
    BY <1>3, <1>4, <2>1 DEF WatchInv, RunInv
  <2>2. CASE d = Head(todo)
    <3>1. subsys = GroupSubsys[g] /\ d \in Releases(subsys)
      BY <1>1, <2>2, ReleaseHead
    <3>2. wdts[d] # NoGroup
      BY <1>1, <3>1 DEF WatchInv, BootInv, BootSteps, InitSteps
    <3>3. QED
      BY <3>1, <3>2 DEF WatchInv, RunInv
  <2>3. QED
    BY <2>1, <2>2
<1>8. WholeInv'
  BY <1>1, <1>2 DEF WatchInv, WholeInv, InitSteps
<1>9. BootInv'
  <2>1. \A g \in Groups : \A d \in GroupCores[g] : subsys = GroupSubsys[g] =>
          d \notin pending /\ (d \in on => d \in fresh) /\ wdts[d] # NoGroup
    BY <1>1 DEF WatchInv, BootInv, BootSteps, InitSteps
  <2>2. QED
    BY <1>1, <1>2, <2>1 DEF BootInv, InitSteps
<1>10. ReleaseInv'
  <2> SUFFICES ASSUME pc' = "release"
               PROVE  /\ subsys # NoSubsys
                      /\ \A i \in DOMAIN Tail(todo) :
                           /\ Tail(todo)[i] \in Releases(subsys)
                           /\ Tail(todo)[i] \in Guarded =>
                                /\ core'[Tail(todo)[i]] = "reset"
                                /\ \A j \in DOMAIN Tail(todo) : Tail(todo)[j] = Tail(todo)[i] => i = j
    <3>1. /\ todo' = Tail(todo) /\ subsys' = subsys /\ pc' \notin {"release_store", "assert_store"}
          /\ Releases(subsys)' = Releases(subsys) /\ Guarded' = Guarded
      BY <1>1, <1>2 DEF Releases, Guarded
    <3>2. QED
      BY <3>1 DEF ReleaseInv
  <2>1. subsys # NoSubsys
    BY <1>1, <1>2 DEF WatchInv, ReleaseInv
  <2>2. todo \in Seq(Cores) /\ todo # <<>> /\ Head(todo) = todo[1] /\ 1 \in DOMAIN todo
    BY <1>1, ReleaseHead
  <2>3. \A i \in DOMAIN Tail(todo) : i + 1 \in DOMAIN todo /\ Tail(todo)[i] = todo[i + 1] /\ i \in Nat
    BY <2>2, TailElements
  <2>4. ASSUME NEW i \in DOMAIN Tail(todo)
        PROVE  /\ Tail(todo)[i] \in Releases(subsys)
               /\ Tail(todo)[i] \in Guarded =>
                    /\ core'[Tail(todo)[i]] = "reset"
                    /\ \A j \in DOMAIN Tail(todo) : Tail(todo)[j] = Tail(todo)[i] => i = j
    <3>1. i + 1 \in DOMAIN todo /\ Tail(todo)[i] = todo[i + 1] /\ i \in Nat
      BY <2>3
    <3>2. /\ todo[i + 1] \in Releases(subsys)
          /\ todo[i + 1] \in Guarded =>
               /\ core[todo[i + 1]] = "reset"
               /\ \A j \in DOMAIN todo : todo[j] = todo[i + 1] => i + 1 = j
      BY <1>1, <2>1, <3>1 DEF WatchInv, ReleaseInv
    <3>3. ASSUME todo[i + 1] \in Guarded PROVE core'[todo[i + 1]] = "reset"
      <4>1. todo[i + 1] # Head(todo)
        BY <2>2, <3>1, <3>2, <3>3
      <4>2. QED
        BY <1>3, <1>4, <3>2, <3>3, <4>1
    <3>4. ASSUME todo[i + 1] \in Guarded, NEW j \in DOMAIN Tail(todo), Tail(todo)[j] = Tail(todo)[i]
          PROVE  i = j
      <4>1. j + 1 \in DOMAIN todo /\ todo[j + 1] = todo[i + 1] /\ j \in Nat
        BY <2>3, <3>1, <3>4
      <4>2. i + 1 = j + 1
        BY <3>2, <3>4, <4>1
      <4>3. QED
        BY <3>1, <4>1, <4>2
    <3>5. QED
      BY <3>1, <3>2, <3>3, <3>4
  <2>5. QED
    BY <2>1, <2>4
<1>11. CreateInv' /\ NoPanic'
  BY <1>1, <1>2 DEF WatchInv, CreateInv, NoPanic, Guarded, BootSteps, InitSteps
<1>12. QED
  BY <1>6, <1>7, <1>8, <1>9, <1>10, <1>11 DEF WatchInv

\* PSCI resets a CPU without a watchdog, and releases none.
LEMMA PsciStoreWatch ==
  ASSUME PoolInv, Apart, WatchInv, PsciSuspendStore
  PROVE  WatchInv'
<1>1. /\ pc = "assert_store" /\ pc' = "serve" /\ todo' = <<>> /\ reg' = {} /\ subsys = NoSubsys
      /\ core' = [c \in Cores |->
                    CASE c = Head(todo) -> "reset"
                      [] c # Head(todo) /\ core[c] = "reset" /\ Released(c) -> "boot"
                      [] OTHER -> core[c]]
      /\ UNCHANGED <<requests, subsys, wasOn, failed, wdts, objects, on, fresh, pending, unmasked>>
  BY DEF PsciSuspendStore, Goto, At, wdtVars, PoolInv, IdleSteps
<1>2. \A c \in Guarded : c \in Cores /\ c # Head(todo)
  BY <1>1, ReleaseHead, RebootAssumption DEF Guarded
<1>3. \A c \in Guarded : ~(core[c] = "reset" /\ Released(c))
  BY <1>1, <1>2, StoreReleases
<1>4. \A c \in Guarded : core'[c] = core[c]
  BY <1>1, <1>2, <1>3
<1>5. TimerInv' /\ RunInv'
  BY <1>1, <1>4, WatchedKept
<1>6. WholeInv'
  BY <1>1 DEF WatchInv, WholeInv, InitSteps
<1>7. BootInv'
  BY <1>1, RebootAssumption DEF BootInv
<1>8. ReleaseInv' /\ CreateInv' /\ NoPanic'
  BY <1>1 DEF WatchInv, ReleaseInv, CreateInv, NoPanic, Guarded
<1>9. QED
  BY <1>5, <1>6, <1>7, <1>8 DEF WatchInv

\* The boot ends with the watchdogs of the subsystem in place.
LEMMA FinishWatch ==
  ASSUME PoolInv, WatchInv, FinishLoad \/ FinishStore
  PROVE  WatchInv'
<1>1. UNCHANGED <<todo, wasOn, failed, wdts, objects, on, pending, unmasked, core>>
  BY DEF FinishLoad, FinishStore, wdtVars
<1>2. TimerInv' /\ RunInv'
  BY <1>1, QuietKept
<1>3. CASE FinishLoad
  <2>1. pc = "finish" /\ pc' = "finish_store" /\ subsys' = subsys /\ fresh' = fresh
    BY <1>3 DEF FinishLoad, Goto, At, wdtVars
  <2>2. WholeInv'
    BY <1>1, <2>1 DEF WatchInv, WholeInv, InitSteps
  <2>3. BootInv'
    BY <1>1, <2>1 DEF WatchInv, BootInv, InitSteps, BootSteps
  <2>4. ReleaseInv' /\ CreateInv' /\ NoPanic'
    BY <1>1, <2>1 DEF WatchInv, ReleaseInv, CreateInv, NoPanic, Guarded, BootSteps, InitSteps
  <2>5. QED
    BY <1>2, <2>2, <2>3, <2>4 DEF WatchInv
<1>4. CASE FinishStore
  <2>1. /\ pc = "finish_store" /\ pc' = (IF failed THEN "panic" ELSE "run") /\ subsys' = NoSubsys
    BY <1>4 DEF FinishStore, Goto, At
  <2>2. WholeInv'
    BY <1>1, <2>1 DEF WatchInv, WholeInv, InitSteps
  <2>3. BootInv'
    BY <2>1, RebootAssumption DEF BootInv
  <2>4. ReleaseInv' /\ CreateInv' /\ NoPanic'
    BY <1>1, <2>1 DEF WatchInv, ReleaseInv, CreateInv, NoPanic, Guarded
  <2>5. QED
    BY <1>2, <2>2, <2>3, <2>4 DEF WatchInv
<1>5. QED
  BY <1>3, <1>4

\* Each step keeps the invariant of the watched CPUs.
LEMMA WatchNext ==
  ASSUME PoolInv, PoolInv', SingleGroups, Apart, WatchInv, [Next]_vars
  PROVE  WatchInv'
<1>1. CASE Boot
  BY <1>1, BootHandleWatch, BootLoadWatch, CreateWatch, ConfigureWatch, EnableWatch, RegisterWatch,
     ReleaseLoadWatch, ReleaseStoreWatch, FinishWatch DEF Boot
<1>2. CASE Loop \/ IntDisable \/ WakeUp
  BY <1>2, IdleWatch, PsciStoreWatch DEF Loop
<1>3. CASE \E s \in Commanded : CmdReset(s)
  BY <1>3, IdleWatch
<1>4. CASE \E c \in PsciCores : PsciSuspend(c) \/ PsciWakeup(c)
  BY <1>4, IdleWatch
<1>5. CASE \E c \in Cores : Start(c) \/ Hang(c) \/ Expire(c) \/ TimeoutIsr(c)
  BY <1>5, CpuWatch, TimeoutWatch
<1>6. CASE UNCHANGED vars
  <2>1. UNCHANGED <<core, on, pending, unmasked, wdts>>
    BY <1>6 DEF vars, wdtVars
  <2>2. TimerInv' /\ RunInv'
    BY <2>1, QuietKept
  <2>3. WholeInv' /\ BootInv'
    BY <1>6 DEF vars, bootVars, wdtVars, WatchInv, WholeInv, BootInv
  <2>4. ReleaseInv' /\ CreateInv' /\ NoPanic'
    BY <1>6 DEF vars, bootVars, wdtVars, WatchInv, ReleaseInv, CreateInv, NoPanic, Guarded, Releases, InitCore
  <2>5. QED
    BY <2>2, <2>3, <2>4 DEF WatchInv
<1>7. QED
  BY <1>1, <1>2, <1>3, <1>4, <1>5, <1>6 DEF Next

\* The inductive invariant of the supervision: which CPUs run, which timers count, which
\* interrupts are pending or enabled, and how far the main loop got with a boot.
THEOREM WatchInvariant ==
  ASSUME SingleGroups, Apart PROVE Spec => [](PoolInv /\ WatchInv)
<1>1. Init => PoolInv /\ WatchInv
  BY PoolInit, WatchInit
<1>2. PoolInv /\ WatchInv /\ [Next]_vars => PoolInv' /\ WatchInv'
  BY PoolNext, WatchNext
<1>3. QED
  BY <1>1, <1>2, PTL DEF Spec

\* handle_timeout, wdt_isr, wdt_disable and wdt_configure never run into one of their
\* assertions, wherever in the main loop the watchdog interrupts it: what stops TRCH is a
\* boot that failed.
THEOREM NeverAsserts ==
  ASSUME SingleGroups, Apart PROVE Spec => []NoPanic
<1>1. WatchInv => NoPanic
  BY DEF WatchInv
<1>2. QED
  BY <1>1, WatchInvariant, PTL

\* A watched CPU that is out of reset has a watchdog whose interrupt is enabled, unless its
\* subsystem is about to be rebooted.
THEOREM CpusMonitored ==
  ASSUME SingleGroups, Apart PROVE Spec => []Monitored
<1>1. WatchInv => Monitored
  <2> SUFFICES ASSUME WatchInv, NEW c \in Guarded, core[c] # "reset"
               PROVE  wdts[c] # NoGroup /\ c \in unmasked
    BY DEF Monitored
  <2>1. PICK g \in Groups : c \in GroupCores[g]
    BY DEF Guarded
  <2>2. QED
    BY <2>1 DEF WatchInv, RunInv
<1>2. QED
  BY <1>1, WatchInvariant, PTL

\* No image is loaded under a watched CPU that runs, and none of its watchdogs is created while
\* it does, wherever timeouts interrupt boots: their requests come with a reset, and are gone
\* when the boot they asked for is over.
THEOREM LoadsInReset ==
  ASSUME SingleGroups, Apart PROVE Spec => []LoadedInReset
<1>1. WatchInv => LoadedInReset
  <2> SUFFICES ASSUME WatchInv, NEW c \in Guarded, subsys \in SubsysOf(c), pc \in InitSteps \cup {"load"}
               PROVE  core[c] = "reset"
    BY DEF LoadedInReset
  <2>1. PICK g \in Groups : c \in GroupCores[g] /\ subsys = GroupSubsys[g]
    BY DEF SubsysOf
  <2>2. QED
    BY <2>1 DEF WatchInv, BootInv
<1>2. QED
  BY <1>1, WatchInvariant, PTL

=============================================================================

---------------------------- MODULE ClockProofs ----------------------------
(***************************************************************************)
(* Theorems about Clock, for any timers, intervals, sleeps, tick and width *)
(* of the time: the list of lib/list.c stays intact and sw_timer_run finds *)
(* every timer that was due, however much callbacks schedule and cancel,   *)
(* but for the calls "own" and "behind" of Clock; and msleep waits long    *)
(* enough wherever the ticks fall.                                         *)
(*                                                                         *)
(* That a list ends and holds its timers is proved from an order of its    *)
(* nodes, along which next leads down.                                     *)
(***************************************************************************)
EXTENDS Clock, FiniteSetTheorems, FunctionTheorems, TLAPS

ListType == [next : [Nodes -> Nodes \cup {Null}], prev : [Nodes -> Nodes \cup {Null}]]

\* Node n leads to the first of the timers A behind it, or to none: ranks fall along the
\* list, from that of its head.
Leads(l, A, r, n) ==
  IF l.next[n] = Null THEN \A t \in A : r[n] <= r[t]
  ELSE /\ l.next[n] \in A /\ r[l.next[n]] < r[n]
       /\ \A t \in A : r[t] < r[n] => r[t] <= r[l.next[n]]

\* The list is intact, and holds the timers A in the order of r.
Ordered(l, A, r) ==
  /\ \A t \in A : r[t] < r[Head]
  /\ \A t, u \in A : r[t] = r[u] => t = u
  /\ \A n \in A \cup {Head} : Leads(l, A, r, n)
  /\ \A t \in A : l.prev[t] \in A \cup {Head} /\ l.next[l.prev[t]] = t

-----------------------------------------------------------------------------
(* The inductive invariants                                                 *)

\* tmr->next says when a timer is due, up to the wraps of the time.
DueInv ==
  ~Halted => \A t \in active :
    left[t] = CASE epoch[t] = 0  -> Less(next[t], time)
                [] epoch[t] = 1  -> next[t] + W - time
                [] epoch[t] = -1 -> 0

\* sw_timer_run: its node is in the list, unless its timer has just been cancelled, and
\* leads to what is behind it all the same; no timer that was due is before it, and none
\* is left when the run ends.
Walking == pc \in {"walk", "callback", "fired"}
OwedInv == \A t \in owed : left[t] = 0 /\ epoch[t] \in {-1, 0}
WalkInv(r) ==
  /\ Walking => /\ Leads(list, active, r, node) /\ r[node] <= r[Head]
                /\ \A t \in owed : epoch[t] = 0 => r[t] < r[node]
  /\ pc \in {"callback", "fired"} => node \notin owed /\ (node \in active \/ node \in Periodic)
ListInv == \E r \in [Nodes -> Nat] : Ordered(list, active, r) /\ WalkInv(r)
TimerInv == DueInv /\ OwedInv /\ NoneMissed /\ ListInv

\* msleep. What is still to be waited for is e when the remaining time is computed; the
\* time may step on by one tick meanwhile.
BranchInv ==
  pc \in {"branch", "ahead", "around"} =>
    \E e \in 1 - Tick .. W - 1 :
      /\ 2 * e < W /\ (~hit => e >= 1)
      /\ rest = Less(e, 0) /\ sl.wakeup = (time + e) % W
LastInv == pc = "last" => rest <= Less(sl.remaining + 1, 0) /\ 2 * sl.remaining < W
\* ... and d cycles have passed since last_tick.
Lag == CASE pc \in {"loop", "sleep"} /\ ~hit -> 0
         [] pc \in {"loop", "sleep"} /\ hit -> Tick
         [] pc \in {"elapsed", "since", "wrap", "elapse"} /\ ~hit -> 2 * Tick
         [] OTHER -> 3 * Tick
LoopInv ==
  pc \in {"loop", "sleep", "elapsed", "since", "wrap", "elapse"} =>
    /\ 2 * sl.remaining < W
    /\ pc # "loop" => sl.remaining > 0
    /\ \E d \in 0 .. Lag :
         /\ time = (sl.last + d) % W
         /\ rest <= Less(sl.remaining + 1, d)
         /\ pc = "wrap" => d > 0
         /\ pc = "elapse" => sl.elapsed <= d
SleepInv == BranchInv /\ LastInv /\ LoopInv

-----------------------------------------------------------------------------
(* Natural numbers: induction, and the least of a set                       *)

\* A set of numbers closed under successor misses none: shifting the part of it below a
\* missing number would be an injection into a smaller set.
LEMMA SetInduction ==
  ASSUME NEW S \in SUBSET Nat, 0 \in S, \A n \in S : n + 1 \in S
  PROVE  S = Nat
<1> SUFFICES ASSUME NEW n \in Nat \ S PROVE FALSE
  OBVIOUS
<1> DEFINE T == S \cap (0 .. n)
           f == [x \in T |-> x + 1]
<1>1. IsFiniteSet(T)
  <2>1. IsFiniteSet(0 .. n)
    BY FS_Interval
  <2>2. QED
    BY <2>1, FS_Intersection
<1>2. 0 \in T
  OBVIOUS
<1>3. f \in Injection(T, T \ {0})
  <2>1. \A x \in T : x + 1 \in T \ {0}
    OBVIOUS
  <2>2. f \in [T -> T \ {0}] /\ \A x, y \in T : f[x] = f[y] => x = y
    BY <2>1
  <2>3. QED
    BY <2>2, Fun_IsInj
<1>4. Cardinality(T) <= Cardinality(T \ {0})
  <2>1. IsFiniteSet(T \ {0})
    BY <1>1, FS_RemoveElement
  <2>2. QED
    BY <1>3, <2>1, FS_Injection
<1>5. Cardinality(T \ {0}) = Cardinality(T) - 1 /\ Cardinality(T) \in Nat
  BY <1>1, <1>2, FS_RemoveElement, FS_CardinalityType
<1>6. QED
  BY <1>4, <1>5

\* Every set of natural numbers has a least one.
LEMMA LeastElement ==
  ASSUME NEW S \in SUBSET Nat, S # {}
  PROVE  \E m \in S : \A n \in S : m <= n
<1> SUFFICES ASSUME \A m \in S : \E n \in S : n < m PROVE FALSE
  OBVIOUS
<1> DEFINE T == {n \in Nat : \A m \in S : n <= m}
<1>1. 0 \in T /\ \A n \in T : n + 1 \in T
  OBVIOUS
<1>2. T = Nat
  BY <1>1, SetInduction
<1>3. PICK m \in S : TRUE
  OBVIOUS
<1>4. m + 1 \in T
  BY <1>2
<1>5. QED
  BY <1>3, <1>4

-----------------------------------------------------------------------------
(* Following a list                                                         *)

\* Steps are the numbers up to one more than there are items.
LEMMA StepsAre ==
  /\ Cardinality(Items) \in Nat /\ Steps = 0 .. Cardinality(Items) + 1
  /\ IsFiniteSet(Nodes) /\ Cardinality(Nodes) = Cardinality(Items) + 1
<1>1. IsFiniteSet(Items) /\ Head \notin Items
  BY LinkedListAssumption
<1>2. QED
  BY <1>1, FS_CardinalityType, FS_AddElement DEF Steps, Nodes

\* What Met defines by recursion exists: it is built step by step.
LEMMA MetIs ==
  ASSUME NEW l
  PROVE  Met(l) = [i \in Steps |->
           IF i = 0 THEN Head
           ELSE IF Met(l)[i - 1] = Null THEN Null ELSE l.next[Met(l)[i - 1]]]
<1> DEFINE N == Cardinality(Items) + 1
           Follows(f, n) == \A i \in 0 .. n :
             f[i] = IF i = 0 THEN Head ELSE IF f[i - 1] = Null THEN Null ELSE l.next[f[i - 1]]
           S == {n \in Nat : \E f : f = [i \in 0 .. n |-> f[i]] /\ Follows(f, n)}
<1>1. 0 \in S
  <2> DEFINE f == [i \in 0 .. 0 |-> Head]
  <2>1. f = [i \in 0 .. 0 |-> f[i]] /\ Follows(f, 0)
    OBVIOUS
  <2>2. QED
    BY <2>1
<1>2. ASSUME NEW n \in S PROVE n + 1 \in S
  <2>1. PICK f : f = [i \in 0 .. n |-> f[i]] /\ Follows(f, n)
    BY <1>2
  <2> DEFINE v == IF f[n] = Null THEN Null ELSE l.next[f[n]]
             g == [i \in 0 .. n + 1 |-> IF i = n + 1 THEN v ELSE f[i]]
  <2>2. g = [i \in 0 .. n + 1 |-> g[i]]
    OBVIOUS
  <2>3. Follows(g, n + 1)
    <3> SUFFICES ASSUME NEW i \in 0 .. n + 1
                 PROVE  g[i] = IF i = 0 THEN Head
                               ELSE IF g[i - 1] = Null THEN Null ELSE l.next[g[i - 1]]
      OBVIOUS
    <3>1. CASE i = n + 1
      BY <3>1, <1>2
    <3>2. CASE i \in 0 .. n
      <4>1. g[i] = f[i] /\ (i # 0 => g[i - 1] = f[i - 1])
        BY <3>2
      <4>2. QED
        BY <2>1, <3>2, <4>1
    <3>3. QED
      BY <3>1, <3>2, <1>2
  <2>4. n + 1 \in Nat
    BY <1>2
  <2> HIDE DEF g, Follows
  <2>5. QED
    BY <2>2, <2>3, <2>4
<1>3. N \in S
  <2>1. S \in SUBSET Nat /\ N \in Nat
    BY StepsAre
  <2> HIDE DEF S
  <2>2. QED
    BY <1>1, <1>2, <2>1, SetInduction
<1>4. PICK f : f = [i \in 0 .. N |-> f[i]] /\ Follows(f, N)
  BY <1>3
<1>5. f = [i \in Steps |-> IF i = 0 THEN Head ELSE IF f[i - 1] = Null THEN Null ELSE l.next[f[i - 1]]]
  BY <1>4, StepsAre
<1>6. QED
  BY <1>5 DEF Met

\* A list in an order holds the timers of that order, and ends: ranks fall along it, so
\* that no node is met twice, and none of the timers is skipped.
LEMMA OrderedIsIntact ==
  ASSUME NEW l \in ListType, NEW A \in SUBSET Items, NEW r \in [Nodes -> Nat], Ordered(l, A, r)
  PROVE  ListItems(l) = A /\ ListEnds(l)
<1> DEFINE N == Cardinality(Items) + 1
           m == Met(l)
<1>1. N \in Nat \ {0} /\ Steps = 0 .. N /\ Null \notin Nodes /\ A \subseteq Nodes
      /\ Head \in Nodes /\ Head \notin A
  BY StepsAre, LinkedListAssumption DEF Nodes
<1>2. m[0] = Head /\ \A i \in 1 .. N : m[i] = IF m[i - 1] = Null THEN Null ELSE l.next[m[i - 1]]
  <2>1. \A i \in Steps :
          m[i] = IF i = 0 THEN Head ELSE IF m[i - 1] = Null THEN Null ELSE l.next[m[i - 1]]
    BY MetIs
  <2>2. QED
    BY <1>1, <2>1
<1> HIDE DEF m, N
<1>3. \A n \in A \cup {Head} : Leads(l, A, r, n)
  BY DEF Ordered
<1>4. \A i \in 0 .. N : m[i] \in A \cup {Head, Null}
  <2> DEFINE S == {i \in Nat : i <= N => m[i] \in A \cup {Head, Null}}
  <2>1. 0 \in S
    BY <1>2
  <2>2. ASSUME NEW i \in S PROVE i + 1 \in S
    <3> SUFFICES ASSUME i + 1 <= N PROVE m[i + 1] \in A \cup {Head, Null}
      OBVIOUS
    <3>1. i \in Nat /\ i + 1 \in 1 .. N /\ (i + 1) - 1 = i /\ m[i] \in A \cup {Head, Null}
      BY <1>1
    <3>2. m[i + 1] = IF m[i] = Null THEN Null ELSE l.next[m[i]]
      BY <1>2, <3>1
    <3>3. QED
      BY <1>3, <3>1, <3>2 DEF Leads
  <2>3. S = Nat
    <3> HIDE DEF S
    <3>1. S \in SUBSET Nat
      BY DEF S
    <3>2. QED
      BY <2>1, <2>2, <3>1, SetInduction
  <2>4. QED
    BY <1>1, <2>3
<1>5. \A i \in 1 .. N : m[i] # Null => m[i - 1] # Null /\ m[i - 1] \in A \cup {Head} /\ m[i] \in A
                                       /\ r[m[i]] < r[m[i - 1]]
  <2> SUFFICES ASSUME NEW i \in 1 .. N, m[i] # Null
               PROVE  m[i - 1] # Null /\ m[i - 1] \in A \cup {Head} /\ m[i] \in A
                      /\ r[m[i]] < r[m[i - 1]]
    OBVIOUS
  <2>1. m[i - 1] # Null /\ m[i] = l.next[m[i - 1]]
    BY <1>2
  <2>2. m[i - 1] \in A \cup {Head}
    BY <1>1, <1>4, <2>1
  <2>3. QED
    BY <1>3, <2>1, <2>2 DEF Leads
<1>6. \A j \in 0 .. N : \A i \in 0 .. N : i < j /\ m[j] # Null => m[i] # Null /\ r[m[j]] < r[m[i]]
  <2> DEFINE Falls(j) == \A i \in 0 .. N : i < j /\ m[j] # Null => m[i] # Null /\ r[m[j]] < r[m[i]]
             S == {j \in Nat : j <= N => Falls(j)}
  <2>1. 0 \in S
    OBVIOUS
  <2>2. ASSUME NEW j \in S PROVE j + 1 \in S
    <3> SUFFICES ASSUME j + 1 <= N, NEW i \in 0 .. N, i < j + 1, m[j + 1] # Null
                 PROVE  m[i] # Null /\ r[m[j + 1]] < r[m[i]]
      OBVIOUS
    <3>1. j \in 0 .. N /\ j + 1 \in 1 .. N /\ (j + 1) - 1 = j
      BY <1>1
    <3>2. m[j] # Null /\ m[j] \in Nodes /\ m[j + 1] \in Nodes /\ r[m[j + 1]] < r[m[j]]
      BY <1>1, <1>5, <3>1
    <3>3. CASE i = j
      BY <3>2, <3>3
    <3>4. CASE i < j
      <4>1. m[i] # Null /\ r[m[j]] < r[m[i]]
        BY <3>1, <3>2, <3>4
      <4>2. m[i] \in Nodes
        BY <1>1, <1>4, <4>1
      <4>3. r[m[i]] \in Nat /\ r[m[j]] \in Nat /\ r[m[j + 1]] \in Nat
        BY <3>2, <4>2
      <4>4. QED
        BY <3>2, <4>1, <4>3
    <3>5. QED
      BY <3>1, <3>3, <3>4
  <2>3. S = Nat
    <3> HIDE DEF S
    <3>1. S \in SUBSET Nat
      BY DEF S
    <3>2. QED
      BY <2>1, <2>2, <3>1, SetInduction
  <2>4. QED
    BY <1>1, <2>3
<1>7. m[N] = Null
  <2> SUFFICES ASSUME m[N] # Null PROVE FALSE
    OBVIOUS
  <2> DEFINE f == [i \in 0 .. N |-> m[i]]
  <2>1. \A i \in 0 .. N : m[i] \in Nodes
    <3>1. \A i \in 0 .. N : m[i] # Null
      BY <1>1, <1>6
    <3>2. QED
      BY <1>1, <1>4, <3>1
  <2>2. f \in [0 .. N -> Nodes]
    BY <2>1
  <2>3. IsFiniteSet(0 .. N) /\ Cardinality(0 .. N) = N + 1
    <3>1. 0 \in Int /\ N \in Int /\ ~(0 > N)
      BY <1>1
    <3>2. QED
      BY <3>1, FS_Interval
  <2>4. Cardinality(Nodes) < Cardinality(0 .. N) /\ IsFiniteSet(Nodes)
    BY <1>1, <2>3, StepsAre DEF N
  <2>5. \E i, j \in 0 .. N : i # j /\ f[i] = f[j]
    <3> HIDE DEF f
    <3>1. QED
      BY <2>2, <2>3, <2>4, FS_PigeonHole
  <2>6. PICK i, j \in 0 .. N : m[i] = m[j] /\ (i < j \/ j < i)
    BY <1>1, <2>5
  <2>7. r[m[i]] \in Nat
    BY <2>1
  <2>8. QED
    BY <1>1, <1>4, <1>6, <2>1, <2>6, <2>7
<1>8. ASSUME NEW a \in A PROVE \E i \in 1 .. N : m[i] = a
  <2> DEFINE S == {i \in 0 .. N : m[i] = Null \/ r[m[i]] <= r[a]}
  <2>1. N \in S /\ S \in SUBSET Nat
    BY <1>1, <1>7
  <2>2. PICK k \in S : \A i \in S : k <= i
    BY <2>1, LeastElement
  <2>3. r[a] < r[Head] /\ r[a] \in Nat /\ r[Head] \in Nat
    BY <1>1 DEF Ordered
  <2>4. k \in 1 .. N /\ k - 1 \in 0 .. N
    BY <1>1, <1>2, <2>2, <2>3
  <2>5. k - 1 \notin S
    BY <2>2, <2>4
  <2>6. m[k - 1] # Null /\ ~(r[m[k - 1]] <= r[a]) /\ m[k - 1] \in A \cup {Head}
    BY <1>1, <1>4, <2>4, <2>5
  <2>7. m[k] = l.next[m[k - 1]] /\ Leads(l, A, r, m[k - 1])
    BY <1>2, <1>3, <2>4, <2>6
  <2>8. r[m[k - 1]] \in Nat
    BY <1>1, <2>6
  <2>9. m[k] \in A /\ r[a] <= r[m[k]]
    BY <1>1, <2>3, <2>6, <2>7, <2>8 DEF Leads
  <2>10. r[m[k]] <= r[a] /\ r[m[k]] \in Nat
    BY <1>1, <2>2, <2>9
  <2>11. m[k] = a
    BY <2>3, <2>9, <2>10 DEF Ordered
  <2>12. QED
    BY <2>4, <2>11
<1>9. ListItems(l) = A
  <2>1. ListItems(l) = {m[i] : i \in 1 .. N} \ {Null}
    BY <1>1 DEF ListItems, m
  <2>2. \A i \in 1 .. N : m[i] # Null => m[i] \in A
    BY <1>5
  <2>3. QED
    BY <1>1, <1>8, <2>1, <2>2
<1>10. QED
  BY <1>7, <1>9 DEF ListEnds, m, N

\* What list_insert at the head does to an intact list: the new timer gets the rank of the
\* head, and the head one more.
Pushed(r, n) == [r EXCEPT ![n] = r[Head], ![Head] = r[Head] + 1]

\* list_insert keeps a list intact, and leaves the successors of the timers in it alone.
LEMMA InsertOrdered ==
  ASSUME NEW l \in ListType, NEW A \in SUBSET Items, NEW r \in [Nodes -> Nat], Ordered(l, A, r),
         NEW n \in Items \ A
  PROVE  /\ Pushed(r, n) \in [Nodes -> Nat]
         /\ Ordered(ListInsert(l, n, Head), A \cup {n}, Pushed(r, n))
         /\ \A k \in Nodes \ {n, Head} : r[k] <= r[Head] /\ Leads(l, A, r, k) =>
                                         Leads(ListInsert(l, n, Head), A \cup {n}, Pushed(r, n), k)
<1> DEFINE q == Pushed(r, n)
           k == ListInsert(l, n, Head)
           after == l.next[Head]
<1>1. Head \in Nodes /\ n \in Nodes /\ n # Head /\ Head \notin A /\ Null \notin Nodes /\ A \subseteq Nodes
  BY LinkedListAssumption DEF Nodes
<1>2. /\ q \in [Nodes -> Nat] /\ q[n] = r[Head] /\ q[Head] = r[Head] + 1
      /\ \A t \in Nodes \ {n, Head} : q[t] = r[t]
      /\ \A t \in A : q[t] = r[t]
  BY <1>1 DEF Pushed
<1>3. l.next \in [Nodes -> Nodes \cup {Null}] /\ l.prev \in [Nodes -> Nodes \cup {Null}]
  BY DEF ListType
<1>4. /\ k.next[n] = after /\ k.next[Head] = n
      /\ \A t \in Nodes \ {n, Head} : k.next[t] = l.next[t]
      /\ \A t \in A : k.next[t] = l.next[t]
  BY <1>1, <1>3 DEF ListInsert
<1>5. /\ after = Null => k.prev = [l.prev EXCEPT ![n] = Head]
      /\ after # Null => k.prev = [[l.prev EXCEPT ![n] = Head] EXCEPT ![after] = n]
  BY DEF ListInsert
<1> HIDE DEF q, k
<1>6. /\ \A t \in A : r[t] < r[Head]
      /\ \A t, u \in A : r[t] = r[u] => t = u
      /\ \A t \in A : Leads(l, A, r, t)
      /\ Leads(l, A, r, Head)
      /\ \A t \in A : l.prev[t] \in A \cup {Head} /\ l.next[l.prev[t]] = t
  BY DEF Ordered
<1>7. r[Head] \in Nat /\ \A t \in A : r[t] \in Nat
  BY <1>1
<1>8. \A t \in A \cup {n} : q[t] < q[Head]
  BY <1>2, <1>6, <1>7
<1>9. \A t, u \in A \cup {n} : q[t] = q[u] => t = u
  <2>1. \A t \in A : q[t] # q[n]
    BY <1>2, <1>6, <1>7
  <2>2. QED
    BY <1>2, <1>6, <2>1
<1>10. \A t \in A : Leads(k, A \cup {n}, q, t)
  BY <1>2, <1>4, <1>6, <1>7 DEF Leads
<1>11. Leads(k, A \cup {n}, q, n)
  BY <1>2, <1>4, <1>6, <1>7 DEF Leads
<1>12. Leads(k, A \cup {n}, q, Head)
  BY <1>1, <1>2, <1>4, <1>6, <1>7 DEF Leads
<1>13. \A t \in A \cup {n} : k.prev[t] \in A \cup {n} \cup {Head} /\ k.next[k.prev[t]] = t
  <2>1. k.prev[n] = Head
    <3>1. after # n
      BY <1>1, <1>6 DEF Leads
    <3>2. QED
      BY <1>1, <1>3, <1>5, <3>1
  <2>2. ASSUME NEW t \in A, t # after PROVE k.prev[t] = l.prev[t] /\ l.prev[t] # Head
    <3>1. k.prev[t] = l.prev[t]
      BY <1>1, <1>3, <1>5, <2>2
    <3>2. QED
      BY <1>6, <2>2, <3>1
  <2>3. after # Null => after \in A /\ k.prev[after] = n
    BY <1>1, <1>3, <1>5, <1>6 DEF Leads
  <2>4. QED
    BY <1>1, <1>4, <1>6, <2>1, <2>2, <2>3
<1>14. ASSUME NEW m \in Nodes \ {n, Head}, r[m] <= r[Head], Leads(l, A, r, m)
       PROVE  Leads(k, A \cup {n}, q, m)
  <2>1. r[m] \in Nat /\ q[m] = r[m] /\ k.next[m] = l.next[m]
    BY <1>2, <1>4, <1>14
  <2>2. QED
    BY <1>2, <1>7, <1>14, <2>1 DEF Leads
<1>15. QED
  BY <1>2, <1>8, <1>9, <1>10, <1>11, <1>12, <1>13, <1>14 DEF Ordered, q, k

\* What list_remove does to an intact list: the order of the others stays, and the timer
\* removed goes on leading to those behind it.
LEMMA RemoveOrdered ==
  ASSUME NEW l \in ListType, NEW A \in SUBSET Items, NEW r \in [Nodes -> Nat], Ordered(l, A, r),
         NEW n \in A
  PROVE  /\ Ordered(ListRemove(l, n), A \ {n}, r)
         /\ \A k \in A : k # n => Leads(ListRemove(l, n), A \ {n}, r, k)
         /\ Leads(ListRemove(l, n), A \ {n}, r, n)
         /\ \A k \in Nodes \ (A \cup {Head}) : Leads(l, A, r, k) /\ l.next[k] # n =>
                                              Leads(ListRemove(l, n), A \ {n}, r, k)
<1> DEFINE k == ListRemove(l, n)
           before == l.prev[n]
           after == l.next[n]
<1>1. Head \in Nodes /\ Head \notin A /\ Null \notin Nodes /\ A \subseteq Nodes
  BY LinkedListAssumption DEF Nodes
<1>2. l.next \in [Nodes -> Nodes \cup {Null}] /\ l.prev \in [Nodes -> Nodes \cup {Null}]
  BY DEF ListType
<1>3. /\ \A t \in A : r[t] < r[Head]
      /\ \A t, u \in A : r[t] = r[u] => t = u
      /\ \A t \in A \cup {Head} : Leads(l, A, r, t)
      /\ \A t \in A : l.prev[t] \in A \cup {Head} /\ l.next[l.prev[t]] = t
  BY DEF Ordered
<1>4. r[Head] \in Nat /\ \A t \in A : r[t] \in Nat
  BY <1>1
<1>5. before \in A \cup {Head} /\ l.next[before] = n
  BY <1>3
<1>6. n # Null /\ r[n] < r[before] /\ before # n
  BY <1>1, <1>3, <1>4, <1>5 DEF Leads
<1>7. k.next[before] = after /\ \A t \in Nodes : t # before => k.next[t] = l.next[t]
  BY <1>1, <1>2, <1>5 DEF ListRemove
<1>8. k.prev = IF after = Null THEN l.prev ELSE [l.prev EXCEPT ![after] = before]
  BY <1>1, <1>2, <1>5, <1>6 DEF ListRemove
<1> HIDE DEF k, before, after
<1>9. \A t \in A \cup {Head} : l.next[t] = n => t = before
  <2> SUFFICES ASSUME NEW t \in A \cup {Head}, l.next[t] = n, t # before PROVE FALSE
    OBVIOUS
  <2>1. Leads(l, A, r, t) /\ Leads(l, A, r, before) /\ r[t] \in Nat /\ r[before] \in Nat /\ r[n] \in Nat
    BY <1>3, <1>4, <1>5
  <2>2. r[n] < r[t] /\ \A u \in A : r[u] < r[t] => r[u] <= r[n]
    BY <1>6, <2>1 DEF Leads
  <2>3. \A u \in A : r[u] < r[before] => r[u] <= r[n]
    BY <1>5, <1>6, <2>1 DEF Leads
  <2>4. r[t] # r[before]
    BY <1>3, <1>4, <1>5
  <2>5. CASE r[t] < r[before]
    <3>1. t \in A
      BY <1>3, <1>4, <1>5, <2>1, <2>5
    <3>2. QED
      BY <2>1, <2>2, <2>3, <2>5, <3>1
  <2>6. CASE r[before] < r[t]
    <3>1. before \in A
      BY <1>3, <1>4, <1>5, <2>1, <2>6
    <3>2. QED
      BY <1>6, <2>1, <2>2, <2>6, <3>1
  <2>7. QED
    BY <2>1, <2>4, <2>5, <2>6
<1>10. Leads(l, A, r, n) /\ after \in A \cup {Null} /\ after # n
  <2>1. Leads(l, A, r, n) /\ r[n] \in Nat
    BY <1>3, <1>4
  <2>2. QED
    BY <1>6, <2>1 DEF Leads, after
<1>11. Leads(k, A \ {n}, r, n)
  <2>1. k.next[n] = after
    BY <1>1, <1>6, <1>7 DEF after
  <2>2. QED
    BY <1>10, <2>1 DEF Leads, after
<1>12. ASSUME NEW t \in A \cup {Head}, t # n, t # before PROVE Leads(k, A \ {n}, r, t)
  <2>1. k.next[t] = l.next[t] /\ l.next[t] # n
    BY <1>1, <1>7, <1>9, <1>12
  <2>2. Leads(l, A, r, t)
    BY <1>3
  <2>3. QED
    BY <2>1, <2>2 DEF Leads
<1>13. Leads(k, A \ {n}, r, before)
  <2>1. Leads(l, A, r, before) /\ r[before] \in Nat /\ r[n] \in Nat
    BY <1>3, <1>4, <1>5
  <2>2. \A t \in A : r[t] < r[before] => r[t] <= r[n]
    BY <1>5, <1>6, <2>1 DEF Leads
  <2>3. \A t \in A \ {n} : r[t] < r[before] => r[t] < r[n]
    BY <1>3, <1>4, <2>1, <2>2
  <2>4. CASE after = Null
    <3>1. \A t \in A : r[n] <= r[t]
      BY <1>10, <2>4 DEF Leads, after
    <3>2. \A t \in A \ {n} : r[before] <= r[t]
      BY <1>4, <2>1, <2>3, <3>1
    <3>3. QED
      BY <1>7, <2>4, <3>2 DEF Leads
  <2>5. CASE after # Null
    <3>1. after \in A \ {n} /\ r[after] < r[n] /\ \A t \in A : r[t] < r[n] => r[t] <= r[after]
      BY <1>10, <2>5 DEF Leads, after
    <3>2. r[after] < r[before]
      BY <1>4, <1>6, <2>1, <3>1
    <3>3. QED
      BY <1>7, <2>3, <2>5, <3>1, <3>2 DEF Leads
  <2>6. QED
    BY <2>4, <2>5
<1>14. \A t \in A \ {n} : k.prev[t] \in (A \ {n}) \cup {Head} /\ k.next[k.prev[t]] = t
  <2> SUFFICES ASSUME NEW t \in A \ {n}
               PROVE  k.prev[t] \in (A \ {n}) \cup {Head} /\ k.next[k.prev[t]] = t
    OBVIOUS
  <2>1. CASE t = after
    <3>1. k.prev[t] = before
      BY <1>1, <1>2, <1>8, <2>1
    <3>2. QED
      BY <1>5, <1>6, <1>7, <2>1, <3>1
  <2>2. CASE t # after
    <3>1. k.prev[t] = l.prev[t]
      BY <1>1, <1>2, <1>8, <2>2
    <3>2. l.prev[t] \in A \cup {Head} /\ l.next[l.prev[t]] = t
      BY <1>3
    <3>3. l.prev[t] # n /\ l.prev[t] # before
      BY <1>5, <2>2, <3>2 DEF after
    <3>4. QED
      BY <1>1, <1>7, <3>1, <3>2, <3>3
  <2>3. QED
    BY <2>1, <2>2
<1>15. ASSUME NEW t \in Nodes \ (A \cup {Head}), Leads(l, A, r, t), l.next[t] # n
       PROVE  Leads(k, A \ {n}, r, t)
  <2>1. k.next[t] = l.next[t]
    BY <1>5, <1>7, <1>15
  <2>2. QED
    BY <1>15, <2>1 DEF Leads
<1>16. Ordered(k, A \ {n}, r)
  BY <1>1, <1>3, <1>11, <1>12, <1>13, <1>14 DEF Ordered
<1>17. \A t \in A : t # n => Leads(k, A \ {n}, r, t)
  BY <1>12, <1>13
<1>18. QED
  BY <1>11, <1>15, <1>16, <1>17 DEF k

-----------------------------------------------------------------------------
(* Arithmetic modulo W                                                      *)

\* What ClockAssumption says about the widths of time, tick and intervals.
LEMMA Widths ==
  /\ W \in Nat \ {0} /\ Tick \in Nat /\ 2 <= Tick /\ Tick < W /\ 2 * (3 * Tick - 1) <= W /\ 3 * Tick < W
  /\ \A t \in Timers : Interval[t] \in 1 .. W - 1
  /\ Timers = Items
BY ClockAssumption

\* A number and W more are the same modulo W.
LEMMA Mod ==
  /\ \A x \in Int : x % W \in 0 .. W - 1
  /\ \A x \in 0 .. W - 1 : x % W = x
  /\ \A x \in Int : (x + W) % W = x % W
<1>1. W \in Int /\ W > 0
  BY Widths
<1>2. \A x \in Int : x % W \in 0 .. W - 1
  BY <1>1
<1>3. \A x \in 0 .. W - 1 : x % W = x
  BY <1>1
<1>4. ASSUME NEW x \in Int PROVE (x + W) % W = x % W
  <2>1. PICK q \in Int, s \in 0 .. W - 1 : x = W * q + s /\ s = x % W
    BY <1>1
  <2>2. PICK p \in Int, r \in 0 .. W - 1 : x + W = W * p + r /\ r = (x + W) % W
    BY <1>1
  <2>3. PICK k \in Int : k = q + 1 - p
    OBVIOUS
  <2>4. W * k = r - s
    BY <1>1, <2>1, <2>2, <2>3
  <2>5. k >= 1 => W * k >= W
    BY <1>1
  <2>6. k <= -1 => W * k <= -W
    BY <1>1
  <2>7. k = 0
    BY <1>1, <2>4, <2>5, <2>6
  <2>8. r = s
    BY <1>1, <2>4, <2>7
  <2>9. QED
    BY <2>1, <2>2, <2>8
<1>5. QED
  BY <1>2, <1>3, <1>4

\* What the C code gets when it stores an unsigned number in an int.
LEMMA AsIntIs ==
  ASSUME NEW k \in Int, -W <= 2 * k, 2 * k < W, NEW x \in {k, k + W, (k + W) + W, k - W}
  PROVE  AsInt(x) = k
<1>1. W \in Int /\ W > 0 /\ k + W \in Int /\ k - W \in Int
  BY Widths
<1>2. x % W = k % W
  <2>1. (k + W) % W = k % W /\ ((k + W) + W) % W = (k + W) % W
    BY <1>1, Mod
  <2>2. ((k - W) + W) % W = (k - W) % W /\ (k - W) + W = k
    BY <1>1, Mod
  <2>3. QED
    BY <2>1, <2>2
<1>3. CASE k >= 0
  <2>1. k % W = k
    BY <1>1, <1>3, Mod
  <2>2. QED
    BY <1>1, <1>2, <2>1 DEF AsInt
<1>4. CASE k < 0
  <2>1. k % W = k + W
    <3>1. k + W \in 0 .. W - 1
      BY <1>1, <1>4
    <3>2. QED
      BY <1>1, <3>1, Mod
  <2>2. QED
    BY <1>1, <1>2, <1>4, <2>1 DEF AsInt
<1>5. QED
  BY <1>3, <1>4

\* A sum modulo W is one of three numbers.
LEMMA SumMod ==
  ASSUME NEW a \in 0 .. W - 1, NEW d \in -W .. W
  PROVE  (a + d) % W \in {a + d, a + d - W, a + d + W}
<1>1. W \in Int /\ W > 0 /\ a + d \in Int
  BY Widths
<1>2. CASE a + d >= W
  <2>1. a + d - W \in 0 .. W - 1
    BY <1>1, <1>2
  <2>2. ((a + d - W) + W) % W = (a + d - W) % W /\ (a + d - W) + W = a + d
    BY <1>1, Mod
  <2>3. QED
    BY <2>1, <2>2, Mod
<1>3. CASE a + d < 0
  <2>1. a + d + W \in 0 .. W - 1
    BY <1>1, <1>3
  <2>2. ((a + d) + W) % W = (a + d) % W
    BY <1>1, Mod
  <2>3. QED
    BY <2>1, <2>2, Mod
<1>4. CASE a + d \in 0 .. W - 1
  BY <1>4, Mod
<1>5. QED
  BY <1>1, <1>2, <1>3, <1>4

\* A sum may be taken modulo W before or after something is added.
LEMMA ModAgain ==
  ASSUME NEW a \in 0 .. W - 1, NEW d \in -W .. W, NEW x \in Int
  PROVE  (((a + d) % W) + x) % W = (a + d + x) % W
<1>1. W \in Int /\ W > 0 /\ a + d + x \in Int /\ a + d + x - W \in Int /\ a + d \in Int
  BY Widths
<1>2. (a + d) % W \in {a + d, a + d - W, a + d + W}
  BY SumMod
<1>3. ((a + d + x) + W) % W = (a + d + x) % W
  BY <1>1, Mod
<1>4. ((a + d + x - W) + W) % W = (a + d + x - W) % W /\ (a + d + x - W) + W = a + d + x
  BY <1>1, Mod
<1>5. \/ ((a + d) % W) + x = a + d + x
      \/ ((a + d) % W) + x = a + d + x - W
      \/ ((a + d) % W) + x = (a + d + x) + W
  BY <1>1, <1>2
<1>6. QED
  BY <1>3, <1>4, <1>5

\* A deadline wraps around at most once.
LEMMA Deadlines ==
  ASSUME NEW t \in Timers, time \in 0 .. W - 1
  PROVE  \/ Deadline(t) < W /\ Deadline(t) % W = Deadline(t) /\ Deadline(t) \div W = 0
         \/ Deadline(t) >= W /\ Deadline(t) % W = Deadline(t) - W /\ Deadline(t) \div W = 1
<1>1. W \in Int /\ W > 0 /\ Interval[t] \in 1 .. W - 1
  BY Widths
<1>2. Deadline(t) \in 0 .. 2 * W - 2
  BY <1>1 DEF Deadline
<1> DEFINE x == Deadline(t)
<1> HIDE DEF x
<1>3. x \in 0 .. 2 * W - 2
  BY <1>2 DEF x
<1>4. CASE x < W
  <2>1. x % W = x
    BY <1>1, <1>3, <1>4, Mod
  <2>2. x \div W = 0
    BY <1>1, <1>3, <1>4
  <2>3. QED
    BY <1>4, <2>1, <2>2 DEF x
<1>5. CASE x >= W
  <2>1. x - W \in 0 .. W - 1 /\ (x - W) + W = x
    BY <1>1, <1>3, <1>5
  <2>2. x % W = x - W
    BY <2>1, <1>1, Mod
  <2>3. x \div W = 1
    BY <1>1, <1>3, <1>5
  <2>4. QED
    BY <1>5, <2>2, <2>3 DEF x
<1>6. QED
  BY <1>1, <1>3, <1>4, <1>5

-----------------------------------------------------------------------------
(* Types                                                                    *)

\* The operators of the watchdog keep its type.
LEMMA WdtTypes ==
  /\ WdtReset \in WdtType
  /\ \A w \in WdtType : /\ WdtPass(w) \in WdtType /\ WdtKick(w) \in WdtType
                        /\ WdtEnable(w) \in WdtType /\ WdtDisable(w) \in WdtType
                        /\ WdtConfigure(w, TrchTimeouts) \in WdtType
<1>1. Zero \in [Stages -> Nat] /\ 0 \in Stages /\ 1 \in Stages
  BY DEF Zero, Stages
<1>2. WdtReset \in WdtType
  BY <1>1 DEF WdtReset, WdtType
<1>3. ASSUME NEW w \in WdtType
      PROVE  /\ WdtPass(w) \in WdtType /\ WdtKick(w) \in WdtType
             /\ WdtEnable(w) \in WdtType /\ WdtDisable(w) \in WdtType
             /\ WdtConfigure(w, TrchTimeouts) \in WdtType
  <2>1. WdtKick(w) \in WdtType /\ WdtEnable(w) \in WdtType /\ WdtDisable(w) \in WdtType
    BY <1>1 DEF WdtKick, WdtEnable, WdtDisable, WdtType
  <2>2. WdtPass(w) \in WdtType
    <3>1. w.count[0] \in Nat /\ w.count[1] \in Nat /\ w.term \in [Stages -> Nat] /\ w.en \in BOOLEAN
      BY <1>1 DEF WdtType
    <3>2. CASE ~w.en
      BY <3>2 DEF WdtPass
    <3>3. CASE w.en /\ w.count[0] < w.term[0]
      <4> DEFINE c == [w.count EXCEPT ![0] = @ + 1]
                 u == IF w.count[0] + 1 = w.term[0] THEN w.status \cup {0} ELSE w.status
      <4>1. c \in [Stages -> Nat] /\ u \in SUBSET Stages
        BY <1>1, <3>1 DEF WdtType
      <4>2. WdtPass(w) = [w EXCEPT !.count = c, !.status = u]
        <5>1. ~(w.count[0] >= w.term[0])
          BY <1>1, <3>1, <3>3
        <5>2. WdtPass(w) = [w EXCEPT !.count[0] = @ + 1,
                                     !.status = IF w.count[0] + 1 = w.term[0] THEN @ \cup {0} ELSE @]
          BY <3>3, <5>1 DEF WdtPass
        <5>3. QED
          BY <5>2 DEF WdtType
      <4> HIDE DEF c, u
      <4>3. QED
        BY <4>1, <4>2 DEF WdtType
    <3>4. CASE w.en /\ w.count[0] >= w.term[0]
      <4>1. ~(w.count[0] < w.term[0])
        BY <1>1, <3>1, <3>4
      <4>2. WdtPass(w) = [w EXCEPT !.count[1] = @ + 1,
                                   !.status = IF w.count[1] + 1 = w.term[1] THEN @ \cup {1} ELSE @,
                                   !.en = w.count[1] + 1 # w.term[1]]
        BY <3>4, <4>1 DEF WdtPass
      <4> DEFINE c == [w.count EXCEPT ![1] = @ + 1]
                 u == IF w.count[1] + 1 = w.term[1] THEN w.status \cup {1} ELSE w.status
                 e == w.count[1] + 1 # w.term[1]
      <4>3. c \in [Stages -> Nat] /\ u \in SUBSET Stages /\ e \in BOOLEAN
        BY <1>1, <3>1 DEF WdtType
      <4>4. WdtPass(w) = [w EXCEPT !.count = c, !.status = u, !.en = e]
        BY <4>2 DEF WdtType
      <4> HIDE DEF c, u, e
      <4>5. QED
        BY <4>3, <4>4 DEF WdtType
    <3>5. QED
      BY <1>1, <3>1, <3>2, <3>3, <3>4
  <2>3. WdtConfigure(w, TrchTimeouts) \in WdtType
    <3>1. \A s \in Stages : Units(TrchTimeouts[s]) \in Nat
      <4>1. Units(2000) \in Nat /\ Units(5000) \in Nat
        BY DEF Units, WDT_FREQ_HZ
      <4>2. \A s \in Stages : TrchTimeouts[s] \in {2000, 5000}
        BY DEF TrchTimeouts
      <4>3. QED
        BY <4>1, <4>2
    <3>2. [s \in Stages |-> Units(TrchTimeouts[s])] \in [Stages -> Nat]
      BY <3>1
    <3>3. QED
      BY <1>1, <3>2 DEF WdtConfigure, WdtType
  <2>4. QED
    BY <2>1, <2>2, <2>3
<1>4. QED
  BY <1>2, <1>3

\* list_insert and list_remove keep the type of the list, whatever is in it.
LEMMA ListTypes ==
  /\ EmptyList \in ListType
  /\ \A l \in ListType : \A n \in Nodes :
       ListInsert(l, n, Head) \in ListType /\ ListRemove(l, n) \in ListType
<1>1. EmptyList \in ListType
  BY DEF EmptyList, ListType
<1>2. ASSUME NEW l \in ListType, NEW n \in Nodes
      PROVE  ListInsert(l, n, Head) \in ListType /\ ListRemove(l, n) \in ListType
  <2>1. n \in Nodes /\ Head \in Nodes /\ Null \notin Nodes
    BY LinkedListAssumption DEF Nodes
  <2>2. l.next \in [Nodes -> Nodes \cup {Null}] /\ l.prev \in [Nodes -> Nodes \cup {Null}]
    BY DEF ListType
  <2>3. ListInsert(l, n, Head) \in ListType
    <3>1. [l.next EXCEPT ![n] = l.next[Head], ![Head] = n] \in [Nodes -> Nodes \cup {Null}]
      BY <2>1, <2>2
    <3>2. \A f \in [Nodes -> Nodes \cup {Null}], k \in Nodes \cup {Null}, v \in Nodes \cup {Null} :
            [f EXCEPT ![k] = v] \in [Nodes -> Nodes \cup {Null}]
      OBVIOUS
    <3>3. QED
      BY <2>1, <2>2, <3>1, <3>2 DEF ListInsert, ListType
  <2>4. ListRemove(l, n) \in ListType
    <3>1. \A f \in [Nodes -> Nodes \cup {Null}], k \in Nodes \cup {Null}, v \in Nodes \cup {Null} :
            [f EXCEPT ![k] = v] \in [Nodes -> Nodes \cup {Null}]
      OBVIOUS
    <3>2. l.prev[n] \in Nodes \cup {Null} /\ l.next[n] \in Nodes \cup {Null}
      BY <2>1, <2>2
    <3>3. [l.next EXCEPT ![l.prev[n]] = l.next[n]] \in [Nodes -> Nodes \cup {Null}]
      BY <2>2, <3>1, <3>2
    <3>4. QED
      BY <2>1, <2>2, <3>1, <3>2, <3>3 DEF ListRemove, ListType
  <2>5. QED
    BY <2>3, <2>4
<1>3. QED
  BY <1>1, <1>2

\* What Rearm writes.
LEMMA RearmIs ==
  ASSUME TypeOK, NEW t \in Timers, Rearm(t)
  PROVE  /\ next' \in [Timers -> 0 .. W - 1] /\ left' \in [Timers -> 0 .. W - 1]
         /\ epoch' \in [Timers -> -1 .. 1]
         /\ \A u \in Timers : u # t => next'[u] = next[u] /\ left'[u] = left[u] /\ epoch'[u] = epoch[u]
         /\ left'[t] = Interval[t] /\ epoch'[t] \in {0, 1}
         /\ epoch'[t] = 0 => left'[t] = Less(next'[t], time)
         /\ epoch'[t] = 1 => left'[t] = next'[t] + W - time
<1>1. /\ W \in Nat \ {0} /\ Interval[t] \in 1 .. W - 1 /\ time \in 0 .. W - 1
      /\ next \in [Timers -> 0 .. W - 1] /\ left \in [Timers -> 0 .. W - 1]
      /\ epoch \in [Timers -> -1 .. 1]
  BY Widths DEF TypeOK
<1>2. /\ next' = [next EXCEPT ![t] = Deadline(t) % W]
      /\ left' = [left EXCEPT ![t] = Interval[t]]
      /\ epoch' = [epoch EXCEPT ![t] = Deadline(t) \div W]
  BY DEF Rearm
<1>3. \/ Deadline(t) < W /\ Deadline(t) % W = Deadline(t) /\ Deadline(t) \div W = 0
      \/ Deadline(t) >= W /\ Deadline(t) % W = Deadline(t) - W /\ Deadline(t) \div W = 1
  BY <1>1, Deadlines
<1> DEFINE x == Deadline(t) % W
           y == Deadline(t) \div W
<1>4. x \in 0 .. W - 1 /\ y \in {0, 1}
  BY <1>1, <1>3 DEF Deadline
<1>5. /\ y = 0 => Interval[t] = Less(x, time)
      /\ y = 1 => Interval[t] = x + W - time
  BY <1>1, <1>3 DEF Deadline, Less
<1> HIDE DEF x, y
<1>6. next' = [next EXCEPT ![t] = x] /\ epoch' = [epoch EXCEPT ![t] = y]
  BY <1>2 DEF x, y
<1>7. next'[t] = x /\ epoch'[t] = y /\ left'[t] = Interval[t]
  BY <1>1, <1>2, <1>6
<1>8. QED
  BY <1>1, <1>2, <1>4, <1>5, <1>6, <1>7

\* What a tick does to the time and to what is left until something is due.
LEMMA AdvanceIs ==
  ASSUME TypeOK, Advance
  PROVE  /\ time' \in 0 .. W - 1
         /\ \/ time' = time + Tick /\ ~(time' < time)
            \/ time' = time + Tick - W /\ time' < time
         /\ left' \in [Timers -> 0 .. W - 1] /\ epoch' \in [Timers -> -1 .. 1]
         /\ rest' \in 0 .. W - 1 /\ rest' = Less(rest, Tick)
         /\ \A t \in Timers : left'[t] = Less(left[t], Tick)
         /\ \A t \in Timers : epoch'[t] = IF t \in active /\ time' < time /\ epoch[t] >= 0
                                          THEN epoch[t] - 1 ELSE epoch[t]
<1>1. /\ W \in Nat \ {0} /\ Tick \in Nat /\ 2 <= Tick /\ Tick < W /\ time \in 0 .. W - 1
      /\ left \in [Timers -> 0 .. W - 1] /\ epoch \in [Timers -> -1 .. 1] /\ rest \in 0 .. W - 1
  BY Widths DEF TypeOK
<1>2. time' = (time + Tick) % W /\ rest' = Less(rest, Tick)
      /\ left' = [t \in Timers |-> Less(left[t], Tick)]
      /\ epoch' = [t \in Timers |-> IF t \in active /\ time' < time /\ epoch[t] >= 0
                                    THEN epoch[t] - 1 ELSE epoch[t]]
  BY DEF Advance
<1>3. time' \in 0 .. W - 1
  <2>1. time + Tick \in Int
    BY <1>1
  <2>2. (time + Tick) % W \in 0 .. W - 1
    BY <2>1, Mod
  <2>3. QED
    BY <1>2, <2>2
<1>4. time' \in {time + Tick, time + Tick - W, time + Tick + W}
  BY <1>1, <1>2, SumMod
<1>5. \/ time' = time + Tick /\ ~(time' < time)
      \/ time' = time + Tick - W /\ time' < time
  BY <1>1, <1>3, <1>4
<1>6. \A x \in 0 .. W - 1 : Less(x, Tick) \in 0 .. W - 1
  BY <1>1 DEF Less
<1>7. \A t \in Timers : (IF t \in active /\ time' < time /\ epoch[t] >= 0
                         THEN epoch[t] - 1 ELSE epoch[t]) \in -1 .. 1
  BY <1>1
<1>8. QED
  BY <1>1, <1>2, <1>3, <1>5, <1>6, <1>7

\* What scheduling and cancelling a timer do to the types.
LEMMA TimerTypes ==
  ASSUME TypeOK, NEW t \in Timers, SwTimerSchedule(t) \/ SwTimerCancel(t)
  PROVE  /\ list' \in ListType /\ next' \in [Timers -> 0 .. W - 1]
         /\ active' \subseteq Timers /\ owed' \subseteq active'
         /\ left' \in [Timers -> 0 .. W - 1] /\ epoch' \in [Timers -> -1 .. 1]
<1>1. t \in Nodes /\ list \in ListType /\ active \subseteq Timers /\ owed \subseteq active /\ W \in Nat \ {0}
      /\ next \in [Timers -> 0 .. W - 1]
      /\ left \in [Timers -> 0 .. W - 1] /\ epoch \in [Timers -> -1 .. 1]
  BY Widths DEF TypeOK, ListType, Nodes
<1>2. CASE SwTimerSchedule(t)
  <2>1. Rearm(t) /\ list' = ListInsert(list, t, Head) /\ active' = active \cup {t} /\ owed' = owed
    BY <1>2 DEF SwTimerSchedule
  <2>2. list' \in ListType
    BY <1>1, <2>1, ListTypes
  <2>3. QED
    BY <1>1, <2>1, <2>2, RearmIs
<1>3. CASE SwTimerCancel(t)
  <2>1. list' = ListRemove(list, t) /\ next' = [next EXCEPT ![t] = 0] /\ left' = [left EXCEPT ![t] = 0]
        /\ epoch' = [epoch EXCEPT ![t] = 0] /\ active' = active \ {t} /\ owed' = owed \ {t}
    BY <1>3 DEF SwTimerCancel
  <2>2. list' \in ListType
    BY <1>1, <2>1, ListTypes
  <2>3. 0 \in 0 .. W - 1 /\ 0 \in -1 .. 1
    BY <1>1
  <2>4. QED
    BY <1>1, <2>1, <2>2, <2>3
<1>4. QED
  BY <1>2, <1>3

SleepType == [wakeup : 0 .. W - 1, remaining : -W .. W, last : 0 .. W - 1, elapsed : 0 .. W - 1]

\* TypeOK for a step, part by part.
LEMMA TypeParts ==
  ASSUME /\ time' \in 0 .. W - 1 /\ next' \in [Timers -> 0 .. W - 1] /\ list' \in ListType
         /\ pc' \in Pcs /\ node' \in Nodes /\ started' \in BOOLEAN /\ hit' \in BOOLEAN
         /\ sl' \in SleepType /\ wdt' \in WdtType
         /\ active' \subseteq Timers /\ owed' \subseteq active'
         /\ left' \in [Timers -> 0 .. W - 1] /\ epoch' \in [Timers -> -1 .. 1] /\ rest' \in 0 .. W - 1
  PROVE  TypeOK'
BY DEF TypeOK, ListType, SleepType, WdtType

\* The same of a state.
LEMMA TypesOf ==
  ASSUME TypeOK
  PROVE  /\ time \in 0 .. W - 1 /\ next \in [Timers -> 0 .. W - 1] /\ list \in ListType
         /\ pc \in Pcs /\ node \in Nodes /\ started \in BOOLEAN /\ hit \in BOOLEAN
         /\ sl \in SleepType /\ wdt \in WdtType
         /\ active \subseteq Timers /\ owed \subseteq active
         /\ left \in [Timers -> 0 .. W - 1] /\ epoch \in [Timers -> -1 .. 1] /\ rest \in 0 .. W - 1
BY DEF TypeOK, ListType, SleepType, WdtType

\* The types hold at the start.
LEMMA TypeInit == Init => TypeOK
<1> SUFFICES ASSUME Init PROVE TypeOK
  OBVIOUS
<1>1. W \in Nat \ {0} /\ 0 \in 0 .. W - 1 /\ 0 \in -1 .. 1 /\ 0 \in -W .. W
  BY Widths
<1>2. EmptyList \in ListType /\ WdtReset \in WdtType
  BY ListTypes, WdtTypes
<1>3. NoSleep \in SleepType
  BY <1>1 DEF NoSleep, SleepType
<1>4. QED
  BY <1>1, <1>2, <1>3 DEF Init, TypeOK, ListType, SleepType, WdtType, Pcs, Nodes

\* Each step keeps the types: what is computed modulo W stays below it.
LEMMA TypeNext ==
  ASSUME TypeOK, [Next]_vars
  PROVE  TypeOK'
<1>1. /\ W \in Nat \ {0} /\ Tick \in Nat /\ 2 <= Tick /\ Tick < W /\ 3 * Tick < W
      /\ 0 \in 0 .. W - 1 /\ 0 \in -1 .. 1 /\ 0 \in -W .. W
  BY Widths
<1>2. /\ time \in 0 .. W - 1 /\ next \in [Timers -> 0 .. W - 1] /\ list \in ListType
      /\ pc \in Pcs /\ node \in Nodes /\ started \in BOOLEAN /\ hit \in BOOLEAN
      /\ sl \in SleepType /\ wdt \in WdtType
      /\ active \subseteq Timers /\ owed \subseteq active
      /\ left \in [Timers -> 0 .. W - 1] /\ epoch \in [Timers -> -1 .. 1] /\ rest \in 0 .. W - 1
  BY TypesOf
<1>3. Head \in Nodes /\ Null \notin Nodes /\ Timers \subseteq Nodes
  BY LinkedListAssumption, Widths DEF Nodes
<1>4. CASE SysTick
  <2>1. UNCHANGED <<list, next, active, owed, node, sl, started>> /\ Advance
    BY <1>4 DEF SysTick
  <2>2. wdt' \in WdtType
    <3>1. WdtPass(wdt) \in WdtType
      BY <1>2, WdtTypes
    <3>2. QED
      BY <1>4, <3>1, WdtTypes DEF SysTick, Kick
  <2>3. pc' \in Pcs /\ hit' \in BOOLEAN
    BY <1>2, <1>4 DEF SysTick, Pcs
  <2>4. QED
    BY <1>2, <2>1, <2>2, <2>3, AdvanceIs, TypeParts
<1>5. CASE Interrupt
  <2>1. UNCHANGED <<time, next, list, node, started, sl, wdt, active, owed, left, epoch, rest>>
        /\ pc' \in Pcs /\ hit' \in BOOLEAN
    BY <1>5 DEF Interrupt, mainVars, timerVars, sleepVars, dogVars, Pcs
  <2>2. QED
    BY <1>2, <2>1, TypeParts
<1>6. CASE Pass
  <2>1. UNCHANGED <<time, next, list, node, pc, hit, started, sl, active, owed, left, epoch, rest>>
        /\ wdt' = WdtPass(wdt)
    BY <1>6 DEF Pass, timerVars, sleepVars
  <2>2. wdt' \in WdtType
    BY <1>2, <2>1, WdtTypes
  <2>3. QED
    BY <1>2, <2>1, <2>2, TypeParts
<1>7. CASE Reset
  <2>1. Init'
    BY <1>7 DEF Reset, Init
  <2>2. QED
    <3>1. EmptyList \in ListType /\ WdtReset \in WdtType
      BY ListTypes, WdtTypes
    <3>2. NoSleep \in SleepType
      BY <1>1 DEF NoSleep, SleepType
    <3>3. QED
      BY <1>1, <1>3, <2>1, <3>1, <3>2, TypeParts DEF Init, Pcs
<1>8. CASE StartUp \/ StartUpFails \/ EnableWdt \/ FlagWdt
  <2>1. UNCHANGED <<time, next, list, node, hit, sl, active, owed, left, epoch, rest>>
        /\ pc' \in Pcs /\ started' \in BOOLEAN
    BY <1>2, <1>8 DEF StartUp, StartUpFails, EnableWdt, FlagWdt, Goto, mainVars, timerVars, sleepVars,
                      dogVars, Pcs
  <2>2. wdt' \in WdtType
    BY <1>2, <1>8, WdtTypes DEF StartUp, StartUpFails, EnableWdt, FlagWdt, mainVars, dogVars
  <2>3. QED
    BY <1>2, <2>1, <2>2, TypeParts
<1>9. CASE Panic \/ TrchPanic
  <2>1. UNCHANGED <<time, hit, list, next, active, node, sl, rest, started>> /\ owed' = {}
        /\ left' = [t \in Timers |-> 0] /\ epoch' = [t \in Timers |-> 0] /\ pc' \in Pcs
    BY <1>9 DEF Panic, TrchPanic, Abandon, Goto, sleepVars, Pcs
  <2>2. wdt' \in WdtType
    BY <1>2, <1>9, WdtTypes DEF Panic, TrchPanic
  <2>3. left' \in [Timers -> 0 .. W - 1] /\ epoch' \in [Timers -> -1 .. 1]
    BY <1>1, <2>1
  <2>4. QED
    BY <1>2, <2>1, <2>2, <2>3, TypeParts
<1>10. CASE Run
  <2>1. UNCHANGED <<time, hit, list, next, active, left, epoch, sl, rest, started, wdt>>
        /\ owed' = Due /\ node' = Head /\ pc' \in Pcs
    BY <1>10 DEF Run, Goto, sleepVars, dogVars, Pcs
  <2>2. owed' \subseteq active'
    BY <2>1 DEF Due
  <2>3. QED
    BY <1>2, <1>3, <2>1, <2>2, TypeParts
<1>11. CASE Walk
  <2>1. UNCHANGED <<time, hit, list, next, active, left, epoch, sl, rest, started, wdt>>
        /\ owed' \subseteq owed
    BY <1>11 DEF Walk, sleepVars, dogVars
  <2>2. node' \in Nodes /\ pc' \in Pcs
    <3>1. list.next[node] \in Nodes \cup {Null}
      BY <1>2 DEF ListType
    <3>2. node' = (IF list.next[node] = Null THEN Head ELSE list.next[node])
          /\ pc' \in {"serve", "callback", "walk"}
      BY <1>11 DEF Walk
    <3>3. QED
      BY <1>3, <3>1, <3>2 DEF Pcs
  <2>3. QED
    BY <1>2, <2>1, <2>2, TypeParts
<1>12. CASE Callback \/ Serve \/ Call
  <2>1. UNCHANGED <<time, hit, node, sl, rest, started, wdt>> /\ pc' \in Pcs
    BY <1>12 DEF Callback, Serve, Call, Goto, mainVars, sleepVars, dogVars, Pcs
  <2>2. \/ UNCHANGED <<list, next, active, left, epoch, owed>>
        \/ \E t \in Timers : SwTimerSchedule(t) \/ SwTimerCancel(t)
    BY <1>12 DEF Callback, Serve, Call, ClientSchedules, ClientCancels, mainVars, timerVars
  <2>3. /\ list' \in ListType /\ next' \in [Timers -> 0 .. W - 1]
        /\ active' \subseteq Timers /\ owed' \subseteq active'
        /\ left' \in [Timers -> 0 .. W - 1] /\ epoch' \in [Timers -> -1 .. 1]
    BY <1>2, <2>2, TimerTypes
  <2>4. QED
    BY <1>2, <2>1, <2>3, TypeParts
<1>13. CASE Fired
  <2>1. UNCHANGED <<time, hit, node, sl, rest, started, wdt>> /\ pc' \in Pcs
    BY <1>13 DEF Fired, Goto, sleepVars, dogVars, Pcs
  <2>2. \/ node \in Periodic \cap active /\ Rearm(node) /\ UNCHANGED <<list, active, owed>>
        \/ UNCHANGED <<list, next, active, left, epoch, owed>>
        \/ SwTimerCancel(node)
    BY <1>13 DEF Fired, timerVars
  <2>3. CASE node \in Periodic \cap active /\ Rearm(node) /\ UNCHANGED <<list, active, owed>>
    BY <1>2, <2>1, <2>3, RearmIs, TypeParts
  <2>4. CASE UNCHANGED <<list, next, active, left, epoch, owed>>
    BY <1>2, <2>1, <2>4, TypeParts
  <2>5. CASE SwTimerCancel(node) /\ node \in Timers
    BY <1>2, <2>1, <2>5, TimerTypes, TypeParts
  <2>6. CASE SwTimerCancel(node) /\ node = Head
    <3>1. list' = ListRemove(list, Head) /\ next' = [next EXCEPT ![Head] = 0]
          /\ left' = [left EXCEPT ![Head] = 0] /\ epoch' = [epoch EXCEPT ![Head] = 0]
          /\ active' = active \ {Head} /\ owed' = owed \ {Head}
      BY <2>6 DEF SwTimerCancel
    <3>2. Head \notin Timers
      BY LinkedListAssumption, Widths
    <3>3. next' = next /\ left' = left /\ epoch' = epoch
      BY <1>2, <3>1, <3>2
    <3>4. list' \in ListType
      BY <1>2, <1>3, <3>1, ListTypes
    <3>5. QED
      BY <1>2, <2>1, <3>1, <3>3, <3>4, TypeParts
  <2>7. QED
    BY <1>2, <2>2, <2>3, <2>4, <2>5, <2>6, Widths DEF Nodes
<1>14. CASE Wait
  <2>1. UNCHANGED <<time, hit, node, list, next, active, left, epoch, owed, started, wdt>> /\ pc' \in Pcs
    BY <1>14 DEF Wait, Goto, timerVars, dogVars, Pcs
  <2>2. PICK c \in Sleeps : sl' = [NoSleep EXCEPT !.wakeup = (time + c) % W] /\ rest' = c
    BY <1>14 DEF Wait
  <2>3. c \in 1 .. W - 1
    BY ClockAssumption
  <2>4. (time + c) % W \in 0 .. W - 1
    <3>1. time + c \in Int
      BY <1>1, <1>2, <2>3
    <3>2. QED
      BY <3>1, Mod
  <2>5. sl' \in SleepType /\ rest' \in 0 .. W - 1
    BY <1>1, <2>2, <2>3, <2>4 DEF NoSleep, SleepType
  <2>6. QED
    BY <1>2, <2>1, <2>5, TypeParts
<1>15. CASE Msleep
  <2>1. UNCHANGED <<time, hit, node, list, next, active, left, epoch, owed, started, wdt>> /\ pc' \in Pcs
        /\ (rest' = rest \/ rest' = 0)
    BY <1>15 DEF Msleep, Branch, Ahead, Around, LastTick, Loop, Awake, Elapsed, Since, Wrap, Elapse,
                 Set, Goto, timerVars, dogVars, Pcs
  <2>2. \A x \in Int : x % W \in 0 .. W - 1 /\ AsInt(x) \in -W .. W
    <3> SUFFICES ASSUME NEW x \in Int PROVE x % W \in 0 .. W - 1 /\ AsInt(x) \in -W .. W
      OBVIOUS
    <3>1. x % W \in 0 .. W - 1
      BY Mod
    <3>2. PICK u \in 0 .. W - 1 : u = x % W
      BY <3>1
    <3>3. AsInt(x) = IF 2 * u >= W THEN u - W ELSE u
      BY <3>2 DEF AsInt
    <3>4. QED
      BY <1>1, <3>1, <3>2, <3>3
  <2>3. /\ sl.wakeup \in 0 .. W - 1 /\ sl.remaining \in -W .. W /\ sl.last \in 0 .. W - 1
        /\ sl.elapsed \in 0 .. W - 1 /\ MAX_TIME \in Int
    BY <1>1, <1>2 DEF SleepType, MAX_TIME
  <2>4. sl' \in SleepType
    <3>1. CASE Branch \/ Loop \/ Elapsed
      BY <1>2, <3>1 DEF Branch, Loop, Elapsed, Set
    <3>2. CASE Ahead \/ Around
      <4>1. \E v \in -W .. W : sl' = [sl EXCEPT !.remaining = v, !.wakeup = 0]
        <5>1. AsInt(sl.wakeup - time) \in -W .. W /\ AsInt(MAX_TIME - time + sl.wakeup) \in -W .. W
          BY <1>1, <1>2, <2>2, <2>3
        <5>2. QED
          BY <3>2, <5>1 DEF Ahead, Around, Set
      <4>2. QED
        BY <1>1, <1>2, <4>1 DEF SleepType
    <3>3. CASE LastTick
      BY <1>2, <3>3 DEF LastTick, Set, SleepType
    <3>4. CASE Awake
      BY <1>1, <3>4 DEF Awake, NoSleep, SleepType
    <3>5. CASE Since \/ Wrap
      <4>1. \E v \in 0 .. W - 1 : sl' = [sl EXCEPT !.elapsed = v]
        <5>1. (time - sl.last) % W \in 0 .. W - 1 /\ (MAX_TIME - sl.last + time) % W \in 0 .. W - 1
          <6>1. time - sl.last \in Int /\ MAX_TIME - sl.last + time \in Int
            BY <1>1, <1>2, <2>3
          <6>2. QED
            BY <2>2, <6>1
        <5>2. QED
          BY <3>5, <5>1 DEF Since, Wrap, Set
      <4>2. QED
        BY <1>2, <4>1 DEF SleepType
    <3>6. CASE Elapse
      <4>1. \E v \in -W .. W : sl' = [sl EXCEPT !.last = time, !.remaining = v, !.elapsed = 0]
        <5>1. AsInt(sl.remaining - sl.elapsed) \in -W .. W
          BY <1>1, <2>2, <2>3
        <5>2. QED
          BY <3>6, <5>1 DEF Elapse, Set
      <4>2. QED
        BY <1>1, <1>2, <4>1 DEF SleepType
    <3>7. QED
      BY <1>15, <3>1, <3>2, <3>3, <3>4, <3>5, <3>6 DEF Msleep
  <2>5. QED
    BY <1>1, <1>2, <2>1, <2>4, TypeParts
<1>16. CASE UNCHANGED vars
  <2>1. UNCHANGED <<time, next, list, node, pc, hit, started, sl, wdt, active, owed, left, epoch, rest>>
    BY <1>16 DEF vars, mainVars, timerVars, sleepVars, dogVars
  <2>2. QED
    BY <1>2, <2>1, TypeParts
<1>17. QED
  BY <1>4, <1>5, <1>6, <1>7, <1>8, <1>9, <1>10, <1>11, <1>12, <1>13, <1>14, <1>15, <1>16
     DEF Next, Main, Fails

-----------------------------------------------------------------------------
(* msleep                                                                   *)

SleepSteps == {"branch", "ahead", "around", "last", "loop", "sleep", "elapsed", "since", "wrap", "elapse"}

\* Outside of msleep there is nothing to say of it; and what leaves it alone keeps it.
LEMMA SleepKept ==
  ASSUME \/ pc' \notin SleepSteps
         \/ SleepInv /\ UNCHANGED <<time, hit, pc, sl, rest>>
  PROVE  SleepInv'
<1>1. CASE pc' \notin SleepSteps
  BY <1>1 DEF SleepInv, BranchInv, LastInv, LoopInv, SleepSteps
<1>2. CASE SleepInv /\ UNCHANGED <<time, hit, pc, sl, rest>>
  <2>1. BranchInv' /\ LastInv'
    BY <1>2 DEF SleepInv, BranchInv, LastInv
  <2>2. Lag' = Lag
    BY <1>2 DEF Lag
  <2>3. LoopInv'
    BY <1>2, <2>2 DEF SleepInv, LoopInv
  <2>4. QED
    BY <2>1, <2>3 DEF SleepInv
<1>3. QED
  BY <1>1, <1>2

\* A tick takes its length off what is left, and adds it to what msleep has not yet seen;
\* it ends the WFI.
LEMMA SleepTick ==
  ASSUME TypeOK, SleepInv, SysTick
  PROVE  SleepInv'
<1>1. /\ W \in Nat \ {0} /\ Tick \in Nat /\ 2 <= Tick /\ Tick < W /\ 3 * Tick < W
      /\ time \in 0 .. W - 1 /\ rest \in 0 .. W - 1 /\ sl.remaining \in -W .. W
      /\ sl.last \in 0 .. W - 1 /\ sl.elapsed \in 0 .. W - 1 /\ hit \in BOOLEAN
  BY Widths, TypesOf DEF SleepType
<1>2. /\ \/ pc \in Long /\ hit' = FALSE
         \/ pc \notin Long /\ ~hit /\ hit' = TRUE
      /\ pc' = (CASE pc = "sleep" -> "elapsed" [] pc = "wfi" -> "top" [] OTHER -> pc)
      /\ sl' = sl /\ Advance
  BY DEF SysTick
<1>3. time' = (time + Tick) % W /\ rest' = Less(rest, Tick)
  BY <1>2 DEF Advance
<1>4. CASE pc \in {"branch", "ahead", "around"}
  <2>1. PICK e \in 1 - Tick .. W - 1 :
           2 * e < W /\ (~hit => e >= 1) /\ rest = Less(e, 0) /\ sl.wakeup = (time + e) % W
    BY <1>4 DEF SleepInv, BranchInv
  <2>2. pc' = pc /\ ~hit /\ hit'
    BY <1>2, <1>4 DEF Long
  <2>3. e >= 1 /\ e - Tick \in 1 - Tick .. W - 1 /\ 2 * (e - Tick) < W /\ rest' = Less(e - Tick, 0)
    BY <1>1, <1>3, <2>1, <2>2 DEF Less
  <2>4. sl'.wakeup = (time' + (e - Tick)) % W
    <3>1. (((time + Tick) % W) + (e - Tick)) % W = (time + Tick + (e - Tick)) % W
      <4>1. Tick \in -W .. W /\ e - Tick \in Int
        BY <1>1, <2>1
      <4>2. QED
        BY <1>1, <4>1, ModAgain
    <3>2. time + Tick + (e - Tick) = time + e
      BY <1>1, <2>1
    <3>3. QED
      BY <1>2, <1>3, <2>1, <3>1, <3>2
  <2>5. BranchInv'
    BY <2>2, <2>3, <2>4 DEF BranchInv
  <2>6. QED
    BY <1>4, <2>2, <2>5 DEF SleepInv, LastInv, LoopInv
<1>5. CASE pc = "last"
  <2>1. pc' = "last"
    BY <1>2, <1>5
  <2>2. rest <= Less(sl.remaining + 1, 0) /\ 2 * sl.remaining < W
    BY <1>5 DEF SleepInv, LastInv
  <2>3. rest' <= Less(sl'.remaining + 1, 0) /\ 2 * sl'.remaining < W
    BY <1>1, <1>2, <1>3, <2>2 DEF Less
  <2>4. QED
    BY <2>1, <2>3 DEF SleepInv, BranchInv, LastInv, LoopInv
<1>6. CASE pc \in {"loop", "sleep", "elapsed", "since", "wrap", "elapse"}
  <2>1. 2 * sl.remaining < W /\ (pc # "loop" => sl.remaining > 0)
    BY <1>6 DEF SleepInv, LoopInv
  <2>2. Lag \in 0 .. 3 * Tick
    BY <1>1 DEF Lag
  <2>3. PICK d \in 0 .. Lag :
           /\ time = (sl.last + d) % W
           /\ rest <= Less(sl.remaining + 1, d)
           /\ pc = "wrap" => d > 0
           /\ pc = "elapse" => sl.elapsed <= d
    BY <1>6 DEF SleepInv, LoopInv
  <2>4. pc' = (IF pc = "sleep" THEN "elapsed" ELSE pc) /\ (pc # "sleep" => ~hit /\ hit')
        /\ (pc = "sleep" => hit' = FALSE)
    BY <1>2, <1>6 DEF Long
  <2>5. d + Tick \in 0 .. Lag'
    <3>1. CASE pc = "loop"
      BY <1>1, <2>3, <2>4, <3>1 DEF Lag
    <3>2. CASE pc = "sleep"
      BY <1>1, <2>3, <2>4, <3>2 DEF Lag
    <3>3. CASE pc \in {"elapsed", "since", "wrap", "elapse"}
      <4>1. Lag = 2 * Tick /\ Lag' = 3 * Tick
        BY <2>4, <3>3 DEF Lag
      <4>2. QED
        BY <1>1, <2>3, <4>1
    <3>4. QED
      BY <1>6, <3>1, <3>2, <3>3
  <2>6. time' = (sl.last + (d + Tick)) % W
    <3>1. (((sl.last + d) % W) + Tick) % W = (sl.last + d + Tick) % W
      BY <1>1, <2>2, <2>3, ModAgain
    <3>2. sl.last + d + Tick = sl.last + (d + Tick)
      BY <1>1, <2>2, <2>3
    <3>3. QED
      BY <1>3, <2>3, <3>1, <3>2
  <2>7. rest' <= Less(sl'.remaining + 1, d + Tick)
    BY <1>1, <1>2, <1>3, <2>2, <2>3 DEF Less
  <2>8. (pc' = "wrap" => d + Tick > 0) /\ (pc' = "elapse" => sl'.elapsed <= d + Tick)
    BY <1>1, <1>2, <2>2, <2>3, <2>4
  <2>9. LoopInv'
    <3>1. pc' # "loop" => sl'.remaining > 0
      BY <1>2, <2>1, <2>4
    <3>2. QED
      BY <1>2, <2>1, <2>5, <2>6, <2>7, <2>8, <3>1 DEF LoopInv
  <2>10. QED
    BY <1>6, <2>4, <2>9 DEF SleepInv, BranchInv, LastInv
<1>7. CASE pc \notin SleepSteps
  BY <1>2, <1>7, SleepKept DEF SleepSteps
<1>8. QED
  BY <1>4, <1>5, <1>6, <1>7 DEF SleepSteps

\* The remaining time is computed: exactly, or one less if the deadline wraps around
\* before the time does.
LEMMA SleepBegins ==
  ASSUME TypeOK, SleepInv, Wait \/ Branch \/ Ahead \/ Around \/ LastTick
  PROVE  SleepInv'
<1>1. /\ W \in Nat \ {0} /\ Tick \in Nat /\ 2 <= Tick /\ Tick < W /\ 3 * Tick < W
      /\ 2 * (3 * Tick - 1) <= W
      /\ time \in 0 .. W - 1 /\ rest \in 0 .. W - 1 /\ sl.remaining \in -W .. W
      /\ sl.wakeup \in 0 .. W - 1 /\ hit \in BOOLEAN /\ sl \in SleepType
  BY Widths, TypesOf DEF SleepType
<1>2. CASE Wait
  <2>1. pc' = "branch" /\ time' = time
    BY <1>2 DEF Wait, Goto
  <2>2. PICK c \in Sleeps : sl' = [NoSleep EXCEPT !.wakeup = (time + c) % W] /\ rest' = c
    BY <1>2 DEF Wait
  <2>3. c \in 1 .. W - 1 /\ 2 * c < W
    BY ClockAssumption
  <2>4. c \in 1 - Tick .. W - 1 /\ c >= 1 /\ rest' = Less(c, 0)
    BY <1>1, <2>2, <2>3 DEF Less
  <2>5. sl'.wakeup = (time' + c) % W
    BY <2>1, <2>2 DEF NoSleep
  <2>6. BranchInv'
    BY <2>3, <2>4, <2>5 DEF BranchInv
  <2>7. QED
    BY <2>1, <2>6 DEF SleepInv, LastInv, LoopInv
<1>3. CASE Branch
  <2>1. pc = "branch" /\ pc' \in {"ahead", "around"} /\ UNCHANGED <<time, hit, rest, sl>>
    BY <1>3 DEF Branch, Set
  <2>2. BranchInv'
    BY <2>1 DEF SleepInv, BranchInv
  <2>3. QED
    BY <2>1, <2>2 DEF SleepInv, LastInv, LoopInv
<1>4. CASE Ahead \/ Around
  <2>1. pc \in {"ahead", "around"} /\ pc' = "last" /\ UNCHANGED <<time, hit, rest>>
    BY <1>4 DEF Ahead, Around, Goto, Set
  <2>2. PICK e \in 1 - Tick .. W - 1 :
           2 * e < W /\ (~hit => e >= 1) /\ rest = Less(e, 0) /\ sl.wakeup = (time + e) % W
    BY <2>1 DEF SleepInv, BranchInv
  <2>3. sl.wakeup \in {time + e, time + e - W, time + e + W}
    <3>1. e \in -W .. W
      BY <1>1, <2>2
    <3>2. QED
      BY <1>1, <2>2, <3>1, SumMod
  <2>4. CASE Ahead
    <3>1. sl' = [sl EXCEPT !.remaining = AsInt(sl.wakeup - time), !.wakeup = 0]
      BY <2>4 DEF Ahead, Set
    <3>2. sl.wakeup - time \in {e, e + W, (e + W) + W, e - W}
      BY <1>1, <2>2, <2>3
    <3>3. e \in Int /\ -W <= 2 * e /\ 2 * e < W
      BY <1>1, <2>2
    <3>4. AsInt(sl.wakeup - time) = e
      BY <3>2, <3>3, AsIntIs
    <3>5. sl'.remaining = e
      BY <1>1, <3>1, <3>4 DEF SleepType
    <3>6. LastInv'
      BY <1>1, <2>1, <2>2, <3>5 DEF LastInv, Less
    <3>7. QED
      BY <2>1, <3>6 DEF SleepInv, BranchInv, LoopInv
  <2>5. CASE Around
    <3>1. sl' = [sl EXCEPT !.remaining = AsInt(MAX_TIME - time + sl.wakeup), !.wakeup = 0]
      BY <2>5 DEF Around, Set
    <3> DEFINE k == e - 1
    <3>2. MAX_TIME - time + sl.wakeup \in {k, k + W, (k + W) + W, k - W}
      <4>1. sl.wakeup = time + e => MAX_TIME - time + sl.wakeup = k + W
        BY <1>1, <2>2 DEF MAX_TIME
      <4>2. sl.wakeup = time + e - W => MAX_TIME - time + sl.wakeup = k
        BY <1>1, <2>2 DEF MAX_TIME
      <4>3. sl.wakeup = time + e + W => MAX_TIME - time + sl.wakeup = (k + W) + W
        BY <1>1, <2>2 DEF MAX_TIME
      <4>4. QED
        BY <2>3, <4>1, <4>2, <4>3
    <3>3. k \in Int /\ -W <= 2 * k /\ 2 * k < W
      BY <1>1, <2>2
    <3>4. AsInt(MAX_TIME - time + sl.wakeup) = k
      <4> HIDE DEF k
      <4>1. QED
        BY <3>2, <3>3, AsIntIs
    <3>5. sl'.remaining = e - 1
      BY <1>1, <3>1, <3>4 DEF SleepType
    <3>6. LastInv'
      BY <1>1, <2>1, <2>2, <3>5 DEF LastInv, Less
    <3>7. QED
      BY <2>1, <3>6 DEF SleepInv, BranchInv, LoopInv
  <2>6. QED
    BY <1>4, <2>4, <2>5
<1>5. CASE LastTick
  <2>1. pc = "last" /\ pc' = "loop" /\ UNCHANGED <<time, hit, rest>> /\ sl' = [sl EXCEPT !.last = time]
    BY <1>5 DEF LastTick, Goto, Set
  <2>2. sl'.last = time /\ sl'.remaining = sl.remaining
    BY <1>1, <2>1 DEF SleepType
  <2>3. rest <= Less(sl.remaining + 1, 0) /\ 2 * sl.remaining < W
    BY <2>1 DEF SleepInv, LastInv
  <2>4. Lag' \in Nat /\ 0 \in 0 .. Lag'
    BY <1>1 DEF Lag
  <2>5. time' = (sl'.last + 0) % W
    BY <1>1, <2>1, <2>2, Mod
  <2>6. LoopInv'
    BY <2>1, <2>2, <2>3, <2>4, <2>5 DEF LoopInv
  <2>7. QED
    BY <2>1, <2>6 DEF SleepInv, BranchInv, LastInv
<1>6. QED
  BY <1>2, <1>3, <1>4, <1>5

\* The loop of msleep takes no more than has passed, or one less: what it has not yet
\* seen is added to the wait.
LEMMA SleepLoops ==
  ASSUME TypeOK, SleepInv, Loop \/ Elapsed \/ Since \/ Wrap \/ Elapse \/ (Interrupt /\ pc = "sleep")
  PROVE  SleepInv'
<1>1. /\ W \in Nat \ {0} /\ Tick \in Nat /\ 2 <= Tick /\ Tick < W /\ 3 * Tick < W
      /\ 2 * (3 * Tick - 1) <= W
      /\ time \in 0 .. W - 1 /\ rest \in 0 .. W - 1 /\ sl.remaining \in -W .. W
      /\ sl.last \in 0 .. W - 1 /\ sl.elapsed \in 0 .. W - 1 /\ hit \in BOOLEAN /\ sl \in SleepType
  BY Widths, TypesOf DEF SleepType
<1>2. pc \in {"loop", "sleep", "elapsed", "since", "wrap", "elapse"}
      /\ UNCHANGED <<time, rest>>
  BY DEF Loop, Elapsed, Since, Wrap, Elapse, Interrupt, Goto, Set, mainVars, sleepVars
<1>3. 2 * sl.remaining < W /\ (pc # "loop" => sl.remaining > 0)
  BY <1>2 DEF SleepInv, LoopInv
<1>4. PICK d \in 0 .. Lag :
        /\ time = (sl.last + d) % W
        /\ rest <= Less(sl.remaining + 1, d)
        /\ pc = "wrap" => d > 0
        /\ pc = "elapse" => sl.elapsed <= d
  BY <1>2 DEF SleepInv, LoopInv
<1>5. Lag \in 0 .. 3 * Tick /\ d \in 0 .. 3 * Tick /\ d \in -W .. W
  <2>1. Lag \in 0 .. 3 * Tick
    BY <1>1 DEF Lag
  <2>2. QED
    BY <1>1, <1>4, <2>1
<1>6. time \in {sl.last + d, sl.last + d - W}
  <2>1. time \in {sl.last + d, sl.last + d - W, sl.last + d + W}
    BY <1>1, <1>4, <1>5, SumMod
  <2>2. QED
    BY <1>1, <1>5, <2>1
<1>7. CASE Loop
  <2>1. pc = "loop" /\ pc' = "sleep" /\ UNCHANGED <<hit, sl>> /\ sl.remaining > 0
    BY <1>7 DEF Loop, Goto, Set
  <2>2. Lag' = Lag
    BY <2>1 DEF Lag
  <2>3. LoopInv'
    BY <1>2, <1>3, <1>4, <2>1, <2>2 DEF LoopInv
  <2>4. QED
    BY <2>1, <2>3 DEF SleepInv, BranchInv, LastInv
<1>8. CASE Interrupt /\ pc = "sleep"
  <2>1. pc' = "elapsed" /\ hit' = FALSE /\ UNCHANGED sl
    BY <1>8 DEF Interrupt, mainVars, sleepVars
  <2>2. d \in 0 .. Lag'
    <3>1. Lag \in {0, Tick} /\ Lag' = 2 * Tick
      BY <1>1, <1>8, <2>1 DEF Lag
    <3>2. QED
      BY <1>1, <1>4, <3>1
  <2>3. LoopInv'
    BY <1>2, <1>3, <1>4, <1>8, <2>1, <2>2 DEF LoopInv
  <2>4. QED
    BY <2>1, <2>3 DEF SleepInv, BranchInv, LastInv
<1>9. CASE Elapsed
  <2>1. pc = "elapsed" /\ pc' = (IF time >= sl.last THEN "since" ELSE "wrap") /\ UNCHANGED <<hit, sl>>
    BY <1>9 DEF Elapsed, Set
  <2>2. Lag' = Lag
    BY <2>1 DEF Lag
  <2>3. pc' = "wrap" => d > 0
    BY <1>1, <1>5, <1>6, <2>1
  <2>4. LoopInv'
    BY <1>2, <1>3, <1>4, <2>1, <2>2, <2>3 DEF LoopInv
  <2>5. QED
    BY <2>1, <2>4 DEF SleepInv, BranchInv, LastInv
<1>10. CASE Since \/ Wrap
  <2>1. pc \in {"since", "wrap"} /\ pc' = "elapse" /\ hit' = hit
    BY <1>10 DEF Since, Wrap, Goto, Set
  <2>2. \E v \in 0 .. W - 1 : v <= d /\ sl' = [sl EXCEPT !.elapsed = v]
    <3>1. CASE Since
      <4>1. sl' = [sl EXCEPT !.elapsed = (time - sl.last) % W]
        BY <3>1 DEF Since, Set
      <4>2. d \in 0 .. W - 1
        BY <1>1, <1>5
      <4>3. (time - sl.last) % W = d
        <5>1. CASE time = sl.last + d
          <6>1. time - sl.last = d
            BY <1>1, <4>2, <5>1
          <6>2. QED
            BY <4>2, <6>1, Mod
        <5>2. CASE time = sl.last + d - W
          <6>1. (time - sl.last) + W = d /\ time - sl.last \in Int
            BY <1>1, <4>2, <5>2
          <6>2. ((time - sl.last) + W) % W = (time - sl.last) % W
            BY <6>1, Mod
          <6>3. QED
            BY <4>2, <6>1, <6>2, Mod
        <5>3. QED
          BY <1>6, <5>1, <5>2
      <4>4. QED
        BY <4>1, <4>2, <4>3
    <3>2. CASE Wrap
      <4>1. sl' = [sl EXCEPT !.elapsed = (MAX_TIME - sl.last + time) % W] /\ pc = "wrap"
        BY <3>2 DEF Wrap, Set, Goto
      <4>2. d - 1 \in 0 .. W - 1 /\ d - 1 \in Int
        BY <1>1, <1>4, <1>5, <4>1
      <4>3. (MAX_TIME - sl.last + time) % W = d - 1
        <5>1. CASE time = sl.last + d
          <6>1. MAX_TIME - sl.last + time = (d - 1) + W
            BY <1>1, <4>2, <5>1 DEF MAX_TIME
          <6>2. ((d - 1) + W) % W = (d - 1) % W
            BY <4>2, Mod
          <6>3. QED
            BY <4>2, <6>1, <6>2, Mod
        <5>2. CASE time = sl.last + d - W
          <6>1. MAX_TIME - sl.last + time = d - 1
            BY <1>1, <4>2, <5>2 DEF MAX_TIME
          <6>2. QED
            BY <4>2, <6>1, Mod
        <5>3. QED
          BY <1>6, <5>1, <5>2
      <4>4. QED
        BY <1>5, <4>1, <4>2, <4>3
    <3>3. QED
      BY <1>10, <3>1, <3>2
  <2>3. PICK v \in 0 .. W - 1 : v <= d /\ sl' = [sl EXCEPT !.elapsed = v]
    BY <2>2
  <2>4. sl'.elapsed = v /\ sl'.remaining = sl.remaining /\ sl'.last = sl.last
    BY <1>1, <2>3 DEF SleepType
  <2>5. Lag' = Lag
    BY <2>1 DEF Lag
  <2>6. LoopInv'
    BY <1>2, <1>3, <1>4, <2>1, <2>3, <2>4, <2>5 DEF LoopInv
  <2>7. QED
    BY <2>1, <2>6 DEF SleepInv, BranchInv, LastInv
<1>11. CASE Elapse
  <2>1. pc = "elapse" /\ pc' = "loop" /\ hit' = hit
        /\ sl' = [sl EXCEPT !.last = time, !.remaining = AsInt(sl.remaining - sl.elapsed), !.elapsed = 0]
    BY <1>11 DEF Elapse, Goto, Set
  <2> DEFINE k == sl.remaining - sl.elapsed
  <2>2. k \in Int /\ -W <= 2 * k /\ 2 * k < W
    BY <1>1, <1>3, <1>4, <1>5, <2>1
  <2>3. AsInt(k) = k
    <3> HIDE DEF k
    <3>1. QED
      BY <2>2, AsIntIs
  <2>4. sl'.last = time /\ sl'.remaining = k
    BY <1>1, <2>1, <2>3 DEF SleepType
  <2>5. rest <= Less(k + 1, 0)
    BY <1>1, <1>4, <1>5, <2>1 DEF Less
  <2>6. Lag' \in Nat /\ 0 \in 0 .. Lag'
    BY <1>1 DEF Lag
  <2>7. time' = (sl'.last + 0) % W
    <3>1. time + 0 = time /\ time' = time
      BY <1>1, <1>2
    <3>2. QED
      BY <1>1, <2>4, <3>1, Mod
  <2> HIDE DEF k
  <2>8. LoopInv'
    BY <1>2, <2>1, <2>2, <2>4, <2>5, <2>6, <2>7 DEF LoopInv
  <2>9. QED
    BY <2>1, <2>8 DEF SleepInv, BranchInv, LastInv
<1>12. QED
  BY <1>7, <1>8, <1>9, <1>10, <1>11

\* Each step keeps what msleep knows.
LEMMA SleepNext ==
  ASSUME TypeOK, SleepInv, [Next]_vars
  PROVE  SleepInv'
<1>1. CASE SysTick
  BY <1>1, SleepTick
<1>2. CASE Wait \/ Branch \/ Ahead \/ Around \/ LastTick
  BY <1>2, SleepBegins
<1>3. CASE Loop \/ Elapsed \/ Since \/ Wrap \/ Elapse
  BY <1>3, SleepLoops
<1>4. CASE Interrupt
  <2>1. pc = "sleep" \/ pc' = "top"
    BY <1>4 DEF Interrupt
  <2>2. QED
    BY <1>4, <2>1, SleepLoops, SleepKept DEF SleepSteps
<1>5. CASE Awake \/ Reset \/ StartUp \/ StartUpFails \/ EnableWdt \/ FlagWdt \/ Panic \/ TrchPanic
           \/ Run \/ Walk \/ Callback \/ Serve \/ Call \/ Fired
  <2>1. pc' \notin SleepSteps
    BY <1>5 DEF Awake, Reset, StartUp, StartUpFails, EnableWdt, FlagWdt, Panic, TrchPanic, Run, Walk,
                Callback, Serve, Call, Fired, Goto, SleepSteps
  <2>2. QED
    BY <2>1, SleepKept
<1>6. CASE Pass \/ UNCHANGED vars
  BY <1>6, SleepKept DEF Pass, vars, mainVars, sleepVars
<1>7. QED
  BY <1>1, <1>2, <1>3, <1>4, <1>5, <1>6 DEF Next, Main, Fails, Msleep

-----------------------------------------------------------------------------
(* The software timers                                                      *)

\* At the start the list is empty and nothing is due.
LEMMA TimerInit == Init => TimerInv
<1> SUFFICES ASSUME Init PROVE TimerInv
  OBVIOUS
<1>1. /\ time = 0 /\ list = EmptyList /\ pc = "start" /\ node = Head /\ active = {} /\ owed = {}
  BY DEF Init
<1>2. DueInv /\ OwedInv /\ NoneMissed
  BY <1>1 DEF DueInv, OwedInv, NoneMissed
<1> DEFINE r == [n \in Nodes |-> 0]
<1>3. r \in [Nodes -> Nat] /\ Head \in Nodes
  BY DEF Nodes
<1>4. Ordered(list, active, r)
  <2>1. list.next[Head] = Null
    BY <1>1, <1>3 DEF EmptyList
  <2>2. QED
    BY <1>1, <2>1 DEF Ordered, Leads
<1>5. WalkInv(r)
  BY <1>1 DEF WalkInv, Walking
<1>6. ListInv
  <2> HIDE DEF r
  <2>1. QED
    BY <1>3, <1>4, <1>5 DEF ListInv
<1>7. QED
  BY <1>2, <1>6 DEF TimerInv

\* What leaves the timers and the run alone keeps the invariant.
LEMMA TimersKept ==
  ASSUME TimerInv, UNCHANGED <<time, list, next, active, left, epoch, owed, node>>,
         \/ pc' = pc
         \/ pc' \notin {"walk", "callback", "fired", "serve"} /\ ~Halted
  PROVE  TimerInv'
<1>1. DueInv'
  BY DEF TimerInv, DueInv, Halted
<1>2. OwedInv' /\ NoneMissed'
  BY DEF TimerInv, OwedInv, NoneMissed
<1>3. PICK r \in [Nodes -> Nat] : Ordered(list, active, r) /\ WalkInv(r)
  BY DEF TimerInv, ListInv
<1>4. WalkInv(r)'
  BY <1>3 DEF WalkInv, Walking
<1>5. QED
  BY <1>1, <1>2, <1>3, <1>4 DEF TimerInv, ListInv

\* A tick: the timers that become due stay due, and a deadline passed by the time when it
\* wraps around counts as such.
LEMMA TickTimers ==
  ASSUME TypeOK, TimerInv, SysTick
  PROVE  TimerInv'
<1>1. ~Halted /\ Advance /\ UNCHANGED <<list, next, active, owed, node>>
      /\ (pc' = pc \/ pc' \notin {"walk", "callback", "fired", "serve"})
  BY DEF SysTick
<1>2. /\ W \in Nat \ {0} /\ Tick \in Nat /\ 2 <= Tick /\ Tick < W
      /\ time \in 0 .. W - 1 /\ next \in [Timers -> 0 .. W - 1]
      /\ active \subseteq Timers /\ owed \subseteq active
      /\ left \in [Timers -> 0 .. W - 1] /\ epoch \in [Timers -> -1 .. 1]
  BY Widths, TypesOf
<1>3. /\ \/ time' = time + Tick /\ ~(time' < time)
         \/ time' = time + Tick - W /\ time' < time
      /\ time' \in 0 .. W - 1
      /\ \A t \in active : left'[t] = Less(left[t], Tick)
      /\ \A t \in active : epoch'[t] = IF time' < time /\ epoch[t] >= 0 THEN epoch[t] - 1 ELSE epoch[t]
  BY <1>1, <1>2, AdvanceIs
<1>4. DueInv'
  <2> SUFFICES ASSUME NEW t \in active
               PROVE  left'[t] = CASE epoch'[t] = 0  -> Less(next[t], time')
                                   [] epoch'[t] = 1  -> next[t] + W - time'
                                   [] epoch'[t] = -1 -> 0
    BY <1>1 DEF DueInv
  <2>1. left[t] = CASE epoch[t] = 0  -> Less(next[t], time)
                    [] epoch[t] = 1  -> next[t] + W - time
                    [] epoch[t] = -1 -> 0
    BY <1>1 DEF TimerInv, DueInv
  <2>2. next[t] \in 0 .. W - 1 /\ epoch[t] \in {-1, 0, 1}
    BY <1>2
  <2>3. left'[t] = Less(left[t], Tick)
        /\ epoch'[t] = IF time' < time /\ epoch[t] >= 0 THEN epoch[t] - 1 ELSE epoch[t]
    BY <1>3
  <2>4. CASE epoch[t] = 0
    <3>1. left[t] = Less(next[t], time)
      BY <2>1, <2>4
    <3>2. QED
      BY <1>2, <1>3, <2>2, <2>3, <2>4, <3>1 DEF Less
  <2>5. CASE epoch[t] = 1
    <3>1. left[t] = next[t] + W - time
      BY <2>1, <2>5
    <3>2. QED
      BY <1>2, <1>3, <2>2, <2>3, <2>5, <3>1 DEF Less
  <2>6. CASE epoch[t] = -1
    <3>1. left[t] = 0
      BY <2>1, <2>6
    <3>2. QED
      BY <1>2, <1>3, <2>2, <2>3, <2>6, <3>1 DEF Less
  <2>7. QED
    BY <2>2, <2>4, <2>5, <2>6
<1>5. \A t \in owed : left'[t] = 0 /\ epoch'[t] \in {-1, 0} /\ (epoch'[t] = 0 => epoch[t] = 0)
                      /\ (epoch[t] = -1 => epoch'[t] = -1)
  <2> SUFFICES ASSUME NEW t \in owed
               PROVE  left'[t] = 0 /\ epoch'[t] \in {-1, 0} /\ (epoch'[t] = 0 => epoch[t] = 0)
                      /\ (epoch[t] = -1 => epoch'[t] = -1)
    OBVIOUS
  <2>1. t \in active /\ left[t] = 0 /\ epoch[t] \in {-1, 0}
    BY <1>2 DEF TimerInv, OwedInv
  <2>2. QED
    BY <1>2, <1>3, <2>1 DEF Less
<1>6. OwedInv' /\ NoneMissed'
  BY <1>1, <1>5 DEF TimerInv, OwedInv, NoneMissed
<1>7. PICK r \in [Nodes -> Nat] : Ordered(list, active, r) /\ WalkInv(r)
  BY DEF TimerInv, ListInv
<1>8. WalkInv(r)'
  BY <1>1, <1>5, <1>7 DEF WalkInv, Walking
<1>9. QED
  BY <1>1, <1>4, <1>6, <1>7, <1>8 DEF TimerInv, ListInv

\* A run begins at the head, with everything behind it that is due.
LEMMA RunStep ==
  ASSUME TypeOK, TimerInv, Run
  PROVE  TimerInv'
<1>1. pc = "top" /\ pc' = "walk" /\ node' = Head /\ owed' = Due
      /\ UNCHANGED <<time, list, next, active, left, epoch>>
  BY DEF Run, Goto
<1>2. DueInv' /\ OwedInv' /\ NoneMissed'
  BY <1>1 DEF TimerInv, DueInv, OwedInv, NoneMissed, Halted, Due
<1>3. PICK r \in [Nodes -> Nat] : Ordered(list, active, r) /\ WalkInv(r)
  BY DEF TimerInv, ListInv
<1>4. WalkInv(r)'
  <2>1. \A t \in owed' : r[t] < r[Head]
    BY <1>1, <1>3 DEF Ordered, Due
  <2>2. Leads(list, active, r, Head)
    BY <1>3 DEF Ordered
  <2>3. r[Head] <= r[Head]
    BY LinkedListAssumption DEF Nodes
  <2>4. QED
    BY <1>1, <2>1, <2>2, <2>3 DEF WalkInv, Walking
<1>5. QED
  BY <1>1, <1>2, <1>3, <1>4 DEF TimerInv, ListInv

\* The run steps to the next node: what was due is behind it, or it is the next one, and
\* that is found expired.
LEMMA WalkStep ==
  ASSUME TypeOK, TimerInv, Walk
  PROVE  TimerInv'
<1> DEFINE n == list.next[node]
<1>1. /\ pc = "walk" /\ UNCHANGED <<time, list, next, active, left, epoch>>
      /\ node' = (IF n = Null THEN Head ELSE n)
      /\ owed' = (IF n # Null /\ IsExpired(n) THEN owed \ {n} ELSE owed)
      /\ n = Null => pc' = "serve"
      /\ n # Null /\ IsExpired(n) => pc' = "callback"
      /\ n # Null /\ ~IsExpired(n) => pc' = "walk"
  BY DEF Walk
<1>2. PICK r \in [Nodes -> Nat] : Ordered(list, active, r) /\ WalkInv(r)
  BY DEF TimerInv, ListInv
<1>3. /\ W \in Nat \ {0} /\ time \in 0 .. W - 1 /\ next \in [Timers -> 0 .. W - 1]
      /\ node \in Nodes /\ active \subseteq Timers /\ owed \subseteq active /\ Timers \subseteq Nodes
  BY Widths, TypesOf DEF Nodes
<1>4. \A t \in owed : left[t] = 0 /\ epoch[t] \in {-1, 0}
  BY DEF TimerInv, OwedInv
<1>5. Leads(list, active, r, node) /\ \A t \in owed : epoch[t] = 0 => r[t] < r[node]
  BY <1>1, <1>2 DEF WalkInv, Walking
<1>6. r[node] \in Nat /\ \A t \in active : r[t] \in Nat
  BY <1>3
<1>7. DueInv' /\ OwedInv'
  BY <1>1, <1>4 DEF TimerInv, DueInv, OwedInv, Halted
<1>8. CASE n = Null
  <2>1. \A t \in active : r[node] <= r[t]
    BY <1>5, <1>8 DEF Leads
  <2>2. \A t \in owed : epoch[t] = -1
    BY <1>3, <1>4, <1>5, <1>6, <2>1
  <2>3. NoneMissed'
    BY <1>1, <1>8, <2>2 DEF NoneMissed
  <2>4. WalkInv(r)'
    BY <1>1, <1>8 DEF WalkInv, Walking
  <2>5. QED
    BY <1>1, <1>2, <1>7, <2>3, <2>4 DEF TimerInv, ListInv
<1>9. CASE n # Null
  <2>1. n \in active /\ \A t \in active : r[t] < r[node] => r[t] <= r[n]
    BY <1>5, <1>9 DEF Leads
  <2>2. \A t \in active : t # n /\ r[t] < r[node] => r[t] < r[n]
    BY <1>2, <1>6, <2>1 DEF Ordered
  <2>3. n \in owed /\ epoch[n] = 0 => IsExpired(n)
    <3> SUFFICES ASSUME n \in owed, epoch[n] = 0 PROVE next[n] <= time
      BY DEF IsExpired
    <3>1. left[n] = Less(next[n], time) /\ left[n] = 0
      BY <1>1, <1>4, <2>1 DEF TimerInv, DueInv, Halted
    <3>2. QED
      BY <1>3, <2>1, <3>1 DEF Less
  <2>4. \A t \in owed' : epoch[t] = 0 => r[t] < r[n]
    BY <1>1, <1>3, <1>5, <1>9, <2>2, <2>3
  <2>5. Leads(list, active, r, n) /\ r[n] <= r[Head]
    <3>1. r[Head] \in Nat /\ r[n] \in Nat
      BY <1>6, <2>1, LinkedListAssumption DEF Nodes
    <3>2. QED
      BY <1>2, <2>1, <3>1 DEF Ordered
  <2>6. WalkInv(r)'
    <3>1. node' = n /\ pc' \in {"callback", "walk"} /\ (pc' = "callback" => n \notin owed')
      BY <1>1, <1>9
    <3>2. QED
      BY <1>1, <2>1, <2>4, <2>5, <3>1 DEF WalkInv, Walking
  <2>7. NoneMissed'
    BY <1>1, <1>9 DEF NoneMissed
  <2>8. QED
    BY <1>1, <1>2, <1>7, <2>6, <2>7 DEF TimerInv, ListInv
<1>10. QED
  BY <1>8, <1>9

\* A client schedules a timer that is not in the list, in a callback or outside of the run:
\* the callback's own, if that is periodic, among them.
LEMMA ScheduleStep ==
  ASSUME TypeOK, TimerInv, NEW t \in Timers, t \notin active, SwTimerSchedule(t),
         UNCHANGED <<time, node, pc>>, pc \in {"callback", "serve"}
  PROVE  TimerInv'
<1>1. Rearm(t) /\ list' = ListInsert(list, t, Head) /\ active' = active \cup {t} /\ owed' = owed
  BY DEF SwTimerSchedule
<1>2. owed \subseteq active /\ active \in SUBSET Items /\ list \in ListType /\ t \in Items
      /\ active \subseteq Timers
  BY TypesOf, Widths
<1>3. /\ \A u \in Timers : u # t => next'[u] = next[u] /\ left'[u] = left[u] /\ epoch'[u] = epoch[u]
      /\ epoch'[t] \in {0, 1}
      /\ epoch'[t] = 0 => left'[t] = Less(next'[t], time)
      /\ epoch'[t] = 1 => left'[t] = next'[t] + W - time
  BY <1>1, RearmIs
<1>4. DueInv'
  <2> SUFFICES ASSUME NEW u \in active'
               PROVE  left'[u] = CASE epoch'[u] = 0  -> Less(next'[u], time')
                                   [] epoch'[u] = 1  -> next'[u] + W - time'
                                   [] epoch'[u] = -1 -> 0
    BY DEF DueInv
  <2>1. CASE u = t
    BY <1>3, <2>1
  <2>2. CASE u # t
    <3>1. u \in active /\ u \in Timers
      BY <1>1, <1>2, <2>2
    <3>2. QED
      BY <1>3, <2>2, <3>1 DEF TimerInv, DueInv, Halted
  <2>3. QED
    BY <2>1, <2>2
<1>5. OwedInv' /\ NoneMissed'
  <2>1. \A u \in owed : u # t /\ u \in Timers
    BY <1>2
  <2>2. QED
    BY <1>1, <1>3, <2>1 DEF TimerInv, OwedInv, NoneMissed
<1>6. PICK r \in [Nodes -> Nat] : Ordered(list, active, r) /\ WalkInv(r)
  BY DEF TimerInv, ListInv
<1>7. PICK q : q = Pushed(r, t)
  OBVIOUS
<1>8. q \in [Nodes -> Nat] /\ Ordered(list', active', q)
  BY <1>1, <1>2, <1>6, <1>7, InsertOrdered
<1>9. WalkInv(q)'
  <2>1. CASE pc = "serve"
    BY <2>1 DEF WalkInv, Walking
  <2>2. CASE pc = "callback"
    <3>1. /\ node \in Nodes \ {Head} /\ node \notin owed /\ (node \in active \/ node \in Periodic)
          /\ r[node] <= r[Head] /\ Leads(list, active, r, node)
          /\ \A u \in owed : epoch[u] = 0 => r[u] < r[node]
      BY <1>2, <1>6, <2>2, ClockAssumption, LinkedListAssumption DEF WalkInv, Walking, Nodes
    <3>2. Head \notin active /\ t \in Nodes /\ Head \in Nodes /\ t # Head /\ active \subseteq Nodes
      BY <1>2, LinkedListAssumption DEF Nodes
    <3>3. /\ \A u \in Nodes \ {t, Head} : q[u] = r[u]
          /\ q[t] = r[Head] /\ q[Head] = r[Head] + 1
          /\ r[Head] \in Nat /\ r[node] \in Nat
          /\ \A u \in active : r[u] \in Nat /\ r[u] < r[Head]
      <4>1. r \in [Nodes -> Nat] /\ \A u \in active : r[u] < r[Head]
        BY <1>6 DEF Ordered
      <4>2. q = [r EXCEPT ![t] = r[Head], ![Head] = r[Head] + 1]
        BY <1>7 DEF Pushed
      <4>3. \A u \in active : u \in Nodes
        BY <3>2
      <4>4. r[Head] \in Nat /\ r[node] \in Nat /\ \A u \in active : r[u] \in Nat
        BY <3>1, <3>2, <4>1, <4>3
      <4>5. QED
        BY <3>2, <4>1, <4>2, <4>4
    <3>4. \A u \in owed : u \in active /\ u # t /\ u # Head /\ u \in Nodes /\ epoch'[u] = epoch[u]
      BY <1>2, <1>3, <3>2
    <3>5. Leads(list', active', q, node)
      <4>1. CASE node = t
        BY <1>1, <1>8, <4>1 DEF Ordered
      <4>2. CASE node # t
        <5>1. t \in Items \ active /\ node \in Nodes \ {t, Head}
          BY <1>2, <3>1, <4>2
        <5>2. Leads(ListInsert(list, t, Head), active \cup {t}, Pushed(r, t), node)
          BY <1>2, <1>6, <3>1, <5>1, InsertOrdered
        <5>3. QED
          BY <1>1, <1>7, <5>2
      <4>3. QED
        BY <4>1, <4>2
    <3>6. q[node] <= q[Head] /\ \A u \in owed : epoch[u] = 0 => q[u] < q[node]
      <4>1. \A u \in owed : q[u] = r[u] /\ r[u] \in Nat /\ r[u] < r[Head]
        BY <3>3, <3>4
      <4>2. CASE node = t
        BY <3>3, <4>1, <4>2
      <4>3. CASE node # t
        BY <3>1, <3>3, <4>1, <4>3
      <4>4. QED
        BY <4>2, <4>3
    <3>7. node' = node /\ pc' = "callback" /\ owed' = owed /\ active \subseteq active'
      BY <1>1, <2>2
    <3>8. \A u \in owed' : epoch'[u] = 0 => q[u] < q[node']
      BY <3>4, <3>6, <3>7
    <3>9. QED
      BY <3>1, <3>5, <3>6, <3>7, <3>8 DEF WalkInv, Walking
  <2>3. QED
    BY <2>1, <2>2
<1>10. QED
  BY <1>4, <1>5, <1>8, <1>9 DEF TimerInv, ListInv

\* A timer in the list is cancelled: by a client, or when the run is done with it.
LEMMA CancelStep ==
  ASSUME TypeOK, TimerInv, NEW t \in active, SwTimerCancel(t), UNCHANGED <<time, node>>, ~Halted,
         \/ pc = "callback" /\ pc' = pc /\ (t # node \/ node \in Periodic)
                            /\ (node \notin active => t # list.next[node])
         \/ pc = "fired" /\ pc' = "walk" /\ t = node
         \/ pc = "serve" /\ pc' = pc
  PROVE  TimerInv'
<1>1. /\ list' = ListRemove(list, t) /\ active' = active \ {t} /\ owed' = owed \ {t}
      /\ next' = [next EXCEPT ![t] = 0] /\ left' = [left EXCEPT ![t] = 0]
      /\ epoch' = [epoch EXCEPT ![t] = 0]
  BY DEF SwTimerCancel
<1>2. owed \subseteq active /\ active \in SUBSET Items /\ list \in ListType /\ active \subseteq Timers
      /\ next \in [Timers -> 0 .. W - 1] /\ left \in [Timers -> 0 .. W - 1]
      /\ epoch \in [Timers -> -1 .. 1]
  BY TypesOf, Widths
<1>3. \A u \in Timers : u # t => next'[u] = next[u] /\ left'[u] = left[u] /\ epoch'[u] = epoch[u]
  BY <1>1, <1>2
<1>4. \A u \in active' : u \in active /\ u \in Timers /\ u # t
  BY <1>1, <1>2
<1>5. DueInv'
  BY <1>3, <1>4 DEF TimerInv, DueInv
<1>6. OwedInv' /\ NoneMissed'
  <2>1. \A u \in owed' : u \in owed /\ u \in Timers /\ u # t
    BY <1>1, <1>2
  <2>2. QED
    BY <1>3, <2>1 DEF TimerInv, OwedInv, NoneMissed
<1>7. PICK r \in [Nodes -> Nat] : Ordered(list, active, r) /\ WalkInv(r)
  BY DEF TimerInv, ListInv
<1>8. /\ Ordered(list', active', r)
      /\ Leads(list', active', r, t)
      /\ \A k \in active : k # t => Leads(list', active', r, k)
      /\ \A k \in Nodes \ (active \cup {Head}) :
           Leads(list, active, r, k) /\ list.next[k] # t => Leads(list', active', r, k)
  BY <1>1, <1>2, <1>7, RemoveOrdered
<1>9. WalkInv(r)'
  <2>1. CASE pc = "serve"
    BY <2>1 DEF WalkInv, Walking
  <2>2. CASE pc \in {"callback", "fired"}
    <3>1. /\ node \notin owed /\ (node \in active \/ node \in Periodic)
          /\ r[node] <= r[Head] /\ Leads(list, active, r, node)
          /\ \A u \in owed : epoch[u] = 0 => r[u] < r[node]
      BY <1>7, <2>2 DEF WalkInv, Walking
    <3>2. \A u \in owed' : u \in owed /\ epoch'[u] = epoch[u]
      BY <1>1, <1>2, <1>3
    <3>3. Leads(list', active', r, node')
      <4>1. CASE node = t
        BY <1>8, <4>1
      <4>2. CASE node # t
        <5>1. CASE node \in active
          BY <1>8, <4>2, <5>1
        <5>2. CASE node \notin active
          <6>1. node \in Nodes \ (active \cup {Head}) /\ list.next[node] # t
            BY <2>2, <3>1, <4>2, <5>2, ClockAssumption, LinkedListAssumption DEF Nodes
          <6>2. QED
            BY <1>8, <3>1, <6>1
        <5>3. QED
          BY <5>1, <5>2
      <4>3. QED
        BY <4>1, <4>2
    <3>4. pc' = "callback" => node' \in active' \/ node' \in Periodic
      BY <1>1, <2>2, <3>1
    <3>5. node' = node /\ node \notin owed' /\ \A u \in owed' : epoch'[u] = 0 => r[u] < r[node]
      BY <1>1, <3>1, <3>2
    <3>6. pc' \in {"callback", "walk"}
      BY <2>2
    <3>7. QED
      BY <3>1, <3>3, <3>4, <3>5, <3>6 DEF WalkInv, Walking
  <2>3. QED
    BY <2>1, <2>2
<1>10. QED
  BY <1>5, <1>6, <1>7, <1>8, <1>9 DEF TimerInv, ListInv

\* A callback returns, and so do the handlers of the main loop.
LEMMA ReturnStep ==
  ASSUME TypeOK, TimerInv, Callback \/ Serve
  PROVE  TimerInv'
<1>1. UNCHANGED <<time, list, next, active, left, epoch, owed, node>>
  BY DEF Callback, Serve, mainVars, timerVars
<1>2. CASE Serve
  BY <1>1, <1>2, TimersKept DEF Serve, Goto, Halted
<1>3. CASE Callback
  <2>1. pc = "callback" /\ pc' = "fired" /\ ~Halted
    BY <1>3 DEF Callback, Goto, Halted
  <2>2. DueInv' /\ OwedInv' /\ NoneMissed'
    BY <1>1, <2>1 DEF TimerInv, DueInv, OwedInv, NoneMissed
  <2>3. PICK r \in [Nodes -> Nat] : Ordered(list, active, r) /\ WalkInv(r)
    BY DEF TimerInv, ListInv
  <2>4. WalkInv(r)'
    BY <1>1, <2>1, <2>3 DEF WalkInv, Walking
  <2>5. QED
    BY <1>1, <2>2, <2>3, <2>4 DEF TimerInv, ListInv
<1>4. QED
  BY <1>2, <1>3

\* A call of a callback or of a handler of the main loop, unless a one-shot timer's callback
\* makes it for that timer, or a periodic one's for the timer that was behind its own.
LEMMA CallStep ==
  ASSUME Liberties \cap {"own", "behind"} = {}, TypeOK, TimerInv, Call
  PROVE  TimerInv'
<1>1. UNCHANGED <<time, node, pc>> /\ pc \in {"callback", "serve"} /\ ~Halted
  BY DEF Call, Halted
<1>2. PICK t \in Timers : ClientSchedules(t) \/ ClientCancels(t)
  BY DEF Call
<1>3. CASE ClientSchedules(t)
  <2>1. t \notin active /\ SwTimerSchedule(t)
    BY <1>3 DEF ClientSchedules
  <2>2. QED
    BY <1>1, <2>1, ScheduleStep
<1>4. CASE ClientCancels(t)
  <2>1. t \in active /\ SwTimerCancel(t)
    BY <1>4 DEF ClientCancels
  <2>2. pc = "callback" => (t # node \/ node \in Periodic) /\ (node \notin active => t # list.next[node])
    BY <1>4 DEF ClientCancels, Own, Behind
  <2>3. QED
    BY <1>1, <2>1, <2>2, CancelStep
<1>5. QED
  BY <1>2, <1>3, <1>4

\* After the callback: a periodic timer gets its next deadline, a one-shot timer leaves.
LEMMA FiredStep ==
  ASSUME TypeOK, TimerInv, Fired
  PROVE  TimerInv'
<1>1. pc = "fired" /\ pc' = "walk" /\ UNCHANGED <<time, node>> /\ ~Halted
  BY DEF Fired, Goto, Halted
<1>2. PICK r \in [Nodes -> Nat] : Ordered(list, active, r) /\ WalkInv(r)
  BY DEF TimerInv, ListInv
<1>3. owed \subseteq active /\ active \subseteq Timers
  BY TypesOf
<1>4. node \notin owed
  BY <1>1, <1>2 DEF WalkInv
<1>5. CASE node \in Periodic \cap active
  <2>1. Rearm(node) /\ UNCHANGED <<list, active, owed>> /\ node \in Timers
    BY <1>3, <1>5 DEF Fired
  <2>2. /\ \A u \in Timers : u # node => next'[u] = next[u] /\ left'[u] = left[u] /\ epoch'[u] = epoch[u]
        /\ epoch'[node] \in {0, 1}
        /\ epoch'[node] = 0 => left'[node] = Less(next'[node], time)
        /\ epoch'[node] = 1 => left'[node] = next'[node] + W - time
    BY <2>1, RearmIs
  <2>3. DueInv'
    <3> SUFFICES ASSUME NEW u \in active'
                 PROVE  left'[u] = CASE epoch'[u] = 0  -> Less(next'[u], time')
                                     [] epoch'[u] = 1  -> next'[u] + W - time'
                                     [] epoch'[u] = -1 -> 0
      BY DEF DueInv
    <3>1. CASE u = node
      BY <1>1, <2>2, <3>1
    <3>2. CASE u # node
      <4>1. u \in active /\ u \in Timers
        BY <1>3, <2>1
      <4>2. QED
        BY <1>1, <2>2, <3>2, <4>1 DEF TimerInv, DueInv
    <3>3. QED
      BY <3>1, <3>2
  <2>4. \A u \in owed : u # node /\ u \in Timers
    BY <1>3, <1>4
  <2>5. OwedInv' /\ NoneMissed'
    BY <1>1, <2>1, <2>2, <2>4 DEF TimerInv, OwedInv, NoneMissed
  <2>6. WalkInv(r)'
    BY <1>1, <1>2, <2>1, <2>2, <2>4 DEF WalkInv, Walking
  <2>7. QED
    BY <1>2, <2>1, <2>3, <2>5, <2>6 DEF TimerInv, ListInv
<1>6. CASE node \in Periodic \ active
  <2>1. UNCHANGED <<list, next, active, left, epoch, owed>>
    BY <1>6 DEF Fired, timerVars
  <2>2. DueInv' /\ OwedInv' /\ NoneMissed'
    BY <1>1, <2>1 DEF TimerInv, DueInv, OwedInv, NoneMissed
  <2>3. WalkInv(r)'
    BY <1>1, <1>2, <2>1 DEF WalkInv, Walking
  <2>4. QED
    BY <1>2, <2>1, <2>2, <2>3 DEF TimerInv, ListInv
<1>7. CASE node \notin Periodic
  <2>1. SwTimerCancel(node)
    BY <1>7 DEF Fired
  <2>2. node \in active
    BY <1>1, <1>2, <1>7 DEF WalkInv
  <2>3. QED
    BY <1>1, <2>1, <2>2, CancelStep
<1>8. QED
  BY <1>5, <1>6, <1>7

\* Each step keeps the invariant of the software timers, but for those two calls.
LEMMA TimerNext ==
  ASSUME Liberties \cap {"own", "behind"} = {}, TypeOK, TimerInv, [Next]_vars
  PROVE  TimerInv'
<1>1. CASE SysTick
  BY <1>1, TickTimers
<1>2. CASE Run
  BY <1>2, RunStep
<1>3. CASE Walk
  BY <1>3, WalkStep
<1>4. CASE Callback \/ Serve
  BY <1>4, ReturnStep
<1>5. CASE Fired
  BY <1>5, FiredStep
<1>6. CASE Interrupt \/ StartUp \/ EnableWdt \/ FlagWdt \/ Wait \/ Msleep
  <2>1. UNCHANGED <<time, list, next, active, left, epoch, owed, node>>
    BY <1>6 DEF Interrupt, StartUp, EnableWdt, FlagWdt, Wait, Msleep, Branch, Ahead, Around, LastTick,
                Loop, Awake, Elapsed, Since, Wrap, Elapse, Set, mainVars, timerVars
  <2>2. ~Halted /\ pc' \notin {"walk", "callback", "fired", "serve"}
    BY <1>6 DEF Interrupt, StartUp, EnableWdt, FlagWdt, Wait, Msleep, Branch, Ahead, Around, LastTick,
                Loop, Awake, Elapsed, Since, Wrap, Elapse, Goto, Halted
  <2>3. QED
    BY <2>1, <2>2, TimersKept
<1>7. CASE StartUpFails
  <2>1. UNCHANGED <<time, list, next, active, left, epoch, owed, node>> /\ pc = "start" /\ pc' = "halt"
    BY <1>7 DEF StartUpFails, Goto, mainVars, timerVars
  <2>2. QED
    BY <2>1, TimersKept DEF Halted
<1>8. CASE Pass \/ UNCHANGED vars
  <2>1. UNCHANGED <<time, list, next, active, left, epoch, owed, node, pc>>
    BY <1>8 DEF Pass, vars, mainVars, timerVars
  <2>2. QED
    BY <2>1, TimersKept
<1>9. CASE Panic \/ TrchPanic
  <2>1. pc' \in {"panic", "halt"} /\ UNCHANGED <<list, active, node>> /\ owed' = {}
    BY <1>9 DEF Panic, TrchPanic, Abandon, Goto
  <2>2. DueInv' /\ OwedInv' /\ NoneMissed'
    BY <2>1 DEF DueInv, Halted, OwedInv, NoneMissed
  <2>3. PICK r \in [Nodes -> Nat] : Ordered(list, active, r)
    BY DEF TimerInv, ListInv
  <2>4. WalkInv(r)'
    BY <2>1 DEF WalkInv, Walking
  <2>5. QED
    BY <2>1, <2>2, <2>3, <2>4 DEF TimerInv, ListInv
<1>10. CASE Reset
  <2>1. Init'
    BY <1>10 DEF Reset, Init
  <2>2. (Init => TimerInv)'
    BY TimerInit, PTL
  <2>3. QED
    BY <2>1, <2>2
<1>11. CASE Call
  BY <1>11, CallStep
<1>12. QED
  BY <1>1, <1>2, <1>3, <1>4, <1>5, <1>6, <1>7, <1>8, <1>9, <1>10, <1>11 DEF Next, Main, Fails

-----------------------------------------------------------------------------
(* The theorems                                                             *)

\* Every counter, time and pointer of TRCH stays in its range; the runs do not check this.
THEOREM ClockTyped == Spec => []TypeOK
<1>1. TypeOK /\ [Next]_vars => TypeOK'
  BY TypeNext
<1>2. QED
  BY <1>1, TypeInit, PTL DEF Spec

\* What msleep has computed at each of its steps, in spite of the ticks between them.
THEOREM SleepInvariant == Spec => [](TypeOK /\ SleepInv)
<1>1. Init => SleepInv
  BY DEF Init, SleepInv, BranchInv, LastInv, LoopInv
<1>2. TypeOK /\ SleepInv /\ [Next]_vars => (TypeOK /\ SleepInv)'
  BY TypeNext, SleepNext
<1>3. QED
  BY <1>1, <1>2, TypeInit, PTL DEF Spec

\* msleep returns at most one cycle early, wherever the ticks fall (sleep.c:44, 50).
THEOREM SleepsEnough == Spec => SleptEnough
<1>1. TypeOK /\ SleepInv /\ [Next]_vars => [Awake => rest <= 1]_vars
  <2> SUFFICES ASSUME TypeOK, SleepInv, Awake PROVE rest <= 1
    OBVIOUS
  <2>1. pc = "loop" /\ sl.remaining <= 0 /\ sl.remaining \in -W .. W /\ W \in Nat \ {0}
        /\ rest \in 0 .. W - 1 /\ Tick \in Nat
    BY TypesOf, Widths DEF Awake, Goto, SleepType
  <2>2. PICK d \in 0 .. Lag : rest <= Less(sl.remaining + 1, d)
    BY <2>1 DEF SleepInv, LoopInv
  <2>3. d \in Nat
    BY <2>1, <2>2 DEF Lag
  <2>4. QED
    BY <2>1, <2>2, <2>3 DEF Less
<1>2. QED
  BY <1>1, SleepInvariant, PTL DEF Spec, SleptEnough

\* The list is an order of the scheduled timers, the run is somewhere in it, and everything
\* that was due when it began is still before it, whatever number of calls the callbacks make.
THEOREM TimerInvariant ==
  ASSUME Liberties \cap {"own", "behind"} = {}
  PROVE  Spec => [](TypeOK /\ TimerInv)
<1>1. TypeOK /\ TimerInv /\ [Next]_vars => (TypeOK /\ TimerInv)'
  BY TypeNext, TimerNext
<1>2. QED
  BY <1>1, TypeInit, TimerInit, PTL DEF Spec

\* list_insert and list_remove keep the list intact, also during sw_timer_run.
THEOREM ListStaysIntact ==
  ASSUME Liberties \cap {"own", "behind"} = {}
  PROVE  Spec => []ListIntact
<1>1. TypeOK /\ TimerInv => ListIntact
  <2> SUFFICES ASSUME TypeOK, TimerInv PROVE ListIntact
    OBVIOUS
  <2>1. PICK r \in [Nodes -> Nat] : Ordered(list, active, r)
    BY DEF TimerInv, ListInv
  <2>2. list \in ListType /\ active \in SUBSET Items
    BY TypesOf, Widths
  <2>3. ListItems(list) = active /\ ListEnds(list)
    BY <2>1, <2>2, OrderedIsIntact
  <2>4. \A t \in active : list.prev[t] \in active \cup {Head} /\ list.next[list.prev[t]] = t
    BY <2>1 DEF Ordered
  <2>5. QED
    BY <2>3, <2>4 DEF ListIntact
<1>2. QED
  BY <1>1, TimerInvariant, PTL

\* sw_timer_run calls every timer that was due when it began, but for those that the time
\* passed by wrapping around.
THEOREM RunMissesNone ==
  ASSUME Liberties \cap {"own", "behind"} = {}
  PROVE  Spec => []NoneMissed
<1>1. TypeOK /\ TimerInv => NoneMissed
  BY DEF TimerInv
<1>2. QED
  BY <1>1, TimerInvariant, PTL

\* No callback without a scheduled timer that is due, or whose deadline wrapped around
\* while the time did not.
THEOREM CallbacksForCause ==
  ASSUME Liberties \cap {"own", "behind"} = {}
  PROVE  Spec => CallbackForCause
<1>1. TypeOK /\ TimerInv /\ [Next]_vars =>
        [pc' = "callback" /\ pc # "callback" =>
           node' \in active /\ (left[node'] = 0 \/ epoch[node'] = 1)]_vars
  <2> SUFFICES ASSUME TypeOK, TimerInv, [Next]_vars, pc' = "callback", pc # "callback"
               PROVE  node' \in active /\ (left[node'] = 0 \/ epoch[node'] = 1)
    OBVIOUS
  <2>1. Walk
    BY DEF Next, Main, Fails, Msleep, SysTick, Interrupt, Pass, Reset, StartUp, StartUpFails, EnableWdt,
           FlagWdt, Panic, TrchPanic, Run, Callback, Serve, Call, Fired, Wait, Branch, Ahead, Around,
           LastTick, Loop, Awake, Elapsed, Since, Wrap, Elapse, Goto, vars
  <2>2. PICK n : n = list.next[node]
    OBVIOUS
  <2>3. pc = "walk" /\ n # Null /\ IsExpired(n) /\ node' = n
    BY <2>1, <2>2 DEF Walk
  <2>4. PICK r \in [Nodes -> Nat] : Ordered(list, active, r) /\ WalkInv(r)
    BY DEF TimerInv, ListInv
  <2>5. n \in active
    BY <2>2, <2>3, <2>4 DEF WalkInv, Walking, Leads
  <2>6. /\ left[n] = CASE epoch[n] = 0  -> Less(next[n], time)
                       [] epoch[n] = 1  -> next[n] + W - time
                       [] epoch[n] = -1 -> 0
        /\ next[n] \in Int /\ time \in Int /\ epoch[n] \in -1 .. 1
    BY <2>3, <2>5, TypesOf, Widths DEF TimerInv, DueInv, Halted
  <2>7. CASE epoch[n] = 0
    BY <2>3, <2>5, <2>6, <2>7 DEF IsExpired, Less
  <2>8. CASE epoch[n] # 0
    BY <2>3, <2>5, <2>6, <2>8
  <2>9. QED
    BY <2>7, <2>8
<1>2. QED
  BY <1>1, TimerInvariant, PTL DEF Spec, CallbackForCause

=============================================================================

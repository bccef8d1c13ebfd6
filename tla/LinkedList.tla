----------------------------- MODULE LinkedList -----------------------------
(***************************************************************************)
(* The doubly linked list of lib/list.c. A list is the two pointers of     *)
(* every node, the head of the list among them; a node that was removed    *)
(* keeps its pointers.                                                     *)
(***************************************************************************)
EXTENDS Integers, FiniteSets

CONSTANTS
  Items, \* nodes that can be in the list
  Head,  \* the node the list hangs from
  Null

Nodes == Items \cup {Head}

ASSUME LinkedListAssumption == IsFiniteSet(Items) /\ Head \notin Items /\ Null \notin Nodes

EmptyList == [next |-> [n \in Nodes |-> Null], prev |-> [n \in Nodes |-> Null]]

\* n->prev, n->next, n->next->prev and p->next, in the order of the code.
ListInsert(l, n, p) ==
  LET after == l.next[p]
      prev1 == [l.prev EXCEPT ![n] = p]
  IN  [next |-> [l.next EXCEPT ![n] = after, ![p] = n],
       prev |-> IF after = Null THEN prev1 ELSE [prev1 EXCEPT ![after] = n]]

\* Mutant: the node behind the one removed keeps pointing at it.
ListRemoveForward(l, n) == [l EXCEPT !.next[l.prev[n]] = l.next[n]]

\* Mutant: the node that is removed no longer leads to the rest of the list.
ListRemoveClear(l, n) ==
  LET after == l.next[n]
  IN  [next |-> [l.next EXCEPT ![l.prev[n]] = after, ![n] = Null],
       prev |-> IF after = Null THEN l.prev ELSE [l.prev EXCEPT ![after] = l.prev[n]]]

\* n->prev->next, then n->next->prev.
ListRemove(l, n) ==
  LET next1 == [l.next EXCEPT ![l.prev[n]] = l.next[n]]
      after == next1[n]
  IN  [next |-> next1,
       prev |-> IF after = Null THEN l.prev ELSE [l.prev EXCEPT ![after] = l.prev[n]]]

\* The nodes that are met when the list is followed from its head, and whether it
\* ends after them: at most one step more than there are nodes.
Steps == 0 .. Cardinality(Items) + 1
Met(l) ==
  LET at[i \in Steps] ==
        IF i = 0 THEN Head ELSE IF at[i - 1] = Null THEN Null ELSE l.next[at[i - 1]]
  IN  at
ListItems(l) == {Met(l)[i] : i \in Steps \ {0}} \ {Null}
ListEnds(l)  == Met(l)[Cardinality(Items) + 1] = Null

=============================================================================

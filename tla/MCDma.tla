------------------------------- MODULE MCDma -------------------------------
(***************************************************************************)
(* Instances of Dma: loops of at most two iterations, and jumps over at    *)
(* most two bursts in two loops, so that a transfer needs several loops.   *)
(***************************************************************************)
EXTENDS Dma

Waiting  == [cb |-> FALSE, faults |-> TRUE]
Calling  == [cb |-> TRUE, faults |-> FALSE]
Both     == {Waiting, Calling}
OneWait  == {Waiting}
Aborted  == {[cb |-> TRUE, faults |-> TRUE]}

=============================================================================

---------------------------- MODULE CommandFifo ----------------------------
(***************************************************************************)
(* What the command queue of TRCH promises to the links that feed it and   *)
(* to the main loop that empties it: every accepted command is handled     *)
(* exactly once, in the order of acceptance, one at a time.                *)
(* CommandQueue implements it (see FifoRefinement there).                  *)
(***************************************************************************)
EXTENDS Sequences

CONSTANTS Links,   \* the links commands arrive on; a command is named by its link
          NoCmd    \* no command is being handled

VARIABLES queue,   \* accepted commands not yet taken, oldest first
          current  \* the command the main loop is handling

vars == <<queue, current>>

Init == queue = <<>> /\ current = NoCmd

\* cmd_enqueue returned 0 for a command of link l.
Accept(l) == queue' = Append(queue, l) /\ UNCHANGED current

\* cmd_dequeue returned 0.
Take == /\ current = NoCmd
        /\ queue # <<>>
        /\ current' = Head(queue)
        /\ queue' = Tail(queue)

\* cmd_handle returned.
Finish == current # NoCmd /\ current' = NoCmd /\ UNCHANGED queue

Next == Take \/ Finish \/ \E l \in Links : Accept(l)

Spec == Init /\ [][Next]_vars

=============================================================================

------------------------------ MODULE LinkRpc ------------------------------
(***************************************************************************)
(* What a link promises to the caller of request() (lib/link.h): a blocking *)
(* remote procedure call. The server executes each call exactly once, while *)
(* the caller waits, and the caller gets the reply to that very call. The   *)
(* promise ends when one of the waits inside the link gives up.             *)
(***************************************************************************)
EXTENDS Naturals

CONSTANT NoReply

VARIABLES issued,    \* number of calls made
          executed,  \* number of calls the server has taken up
          waiting,   \* the last call has not returned
          reply,     \* what it returned: the call the reply is for, or NoReply
          patient    \* no wait has given up so far

vars == <<issued, executed, waiting, reply, patient>>

Init == issued = 0 /\ executed = 0 /\ waiting = FALSE /\ reply = NoReply /\ patient = TRUE

Call == /\ ~waiting
        /\ issued' = issued + 1 /\ waiting' = TRUE /\ reply' = NoReply
        /\ UNCHANGED <<executed, patient>>

Execute == /\ waiting /\ executed < issued
           /\ executed' = issued
           /\ UNCHANGED <<issued, waiting, reply, patient>>

Return == /\ waiting /\ executed = issued
          /\ waiting' = FALSE /\ reply' = issued
          /\ UNCHANGED <<issued, executed, patient>>

\* From here on nothing is promised.
GiveUp == patient' = FALSE

Next == Call \/ Execute \/ Return \/ GiveUp

Spec == Init /\ [][Next]_vars

=============================================================================

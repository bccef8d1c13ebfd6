--------------------------- MODULE MCCommandQueue ---------------------------
(***************************************************************************)
(* Instances of CommandQueue for TLC. MCSpec restricts it to one kind of   *)
(* client (OneProducer): "mbox", and then no tick ends WFI, or "shm".      *)
(***************************************************************************)
EXTENDS CommandQueue

CONSTANTS s1, s2

OneShm == <<s1>>
TwoShm == <<s1, s2>>
NoShm  == <<>>

VARIABLE kind
mcvars == <<vars, kind>>

MCClients == \/ kind = "mbox" /\ \E l \in MboxLinks : SendMbox(l)
             \/ kind = "shm" /\ \E l \in ShmLinks : SendShm(l)

MCMain == \/ PollLink \/ PollDone \/ Enqueue \/ Dequeue
          \/ IntDisable \/ IdleCheck \/ IntEnable
          \/ WakeUp /\ (kind = "mbox" => raised # {})

MCInit == Init /\ kind \in {"mbox", "shm"}
MCNext == \/ MCClients /\ UNCHANGED kind
          \/ MCMain /\ UNCHANGED kind
          \/ (\E l \in MboxLinks : HandleCmd(l)) /\ UNCHANGED kind

MCSpec == /\ MCInit /\ [][MCNext]_mcvars
          /\ WF_mcvars(MCMain /\ UNCHANGED kind)
          /\ \A l \in MboxLinks : SF_mcvars(HandleCmd(l) /\ UNCHANGED kind)

\* Every interleaving of both kinds of clients, without fairness.
MCAnySpec == Init /\ kind = "any" /\ [][Next /\ UNCHANGED kind]_mcvars

=============================================================================

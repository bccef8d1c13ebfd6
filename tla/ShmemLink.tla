----------------------------- MODULE ShmemLink -----------------------------
(***************************************************************************)
(* A shared-memory link (lib/shmem-link.c over lib/shmem.c) between a      *)
(* client that makes requests and the server, TRCH, that polls for them    *)
(* (links_poll). Two regions carry it, one per direction; each holds one   *)
(* message and a status word with the bits NEW, set by the sender, and     *)
(* ACK, set by the receiver.                                               *)
(*                                                                         *)
(* Both ends use the same code, so its actions have the processor as a     *)
(* parameter. Nothing but the protocol keeps the two processors from       *)
(* changing a status word at once: "status |= bit" is a load and a store,  *)
(* and a message is copied piece by piece (here: two pieces). Messages     *)
(* carry no identification; the numbers say which request they belong to.  *)
(***************************************************************************)
EXTENDS Integers, Sequences

CONSTANTS
  MaxReq,       \* bound: number of requests the client makes
  Silent        \* the requests whose command has no reply

ASSUME LinkAssumption == MaxReq \in Nat /\ Silent \subseteq 1 .. MaxReq

VARIABLES
  data,    \* data[p]: the message in the region p sends to
  status,  \* status[p]: the bits set in the status word of that region
  pc,      \* where each processor stands
  reg,     \* the status word a processor is modifying, in a register
  msg,     \* the message a processor is sending or receiving
  req,     \* number of requests made; the current one while the client is in one
  result,  \* what the last request returned
  served,  \* the commands executed so far, in order
  gaveUp   \* the kinds of waits that have timed out so far (not in the code):
           \* "send" for the ACK of a request, "recv", "reply" for the reply's ACK

vars == <<data, status, pc, reg, msg, req, result, served, gaveUp>>

CPU == {"client", "server"}
Peer(p) == IF p = "client" THEN "server" ELSE "client"
Status == SUBSET {"NEW", "ACK"}
Msg == (-1 .. MaxReq) \X (-1 .. MaxReq)

Whole(r) == <<r, r>>
NoReply == Whole(0)
SendFailed == Whole(-1)

Init ==
  /\ data = [p \in CPU |-> NoReply] /\ status = [p \in CPU |-> {}]
  /\ pc = [p \in CPU |-> "idle"] /\ reg = [p \in CPU |-> {}]
  /\ msg = [p \in CPU |-> NoReply]
  /\ req = 0 /\ result = NoReply /\ served = <<>> /\ gaveUp = {}

Goto(p, from, to) == pc[p] = from /\ pc' = [pc EXCEPT ![p] = to]

-----------------------------------------------------------------------------
(* lib/shmem.c: a bit of the status word of q's region is set or cleared    *)

LoadStatus(p, q) == reg' = [reg EXCEPT ![p] = status[q]]
SetBit(p, q, bit) == status' = [status EXCEPT ![q] = reg[p] \cup {bit}]
ClearBit(p, q, bit) == status' = [status EXCEPT ![q] = reg[p] \ {bit}]

-----------------------------------------------------------------------------
(* shmem_link_send, by either processor                                     *)

Write1(p) ==
  /\ Goto(p, "write1", "write2")
  /\ data' = [data EXCEPT ![p][1] = msg[p][1]]
  /\ UNCHANGED <<status, reg, msg, req, result, served, gaveUp>>

Write2(p) ==
  /\ Goto(p, "write2", "new_load")
  /\ data' = [data EXCEPT ![p][2] = msg[p][2]]
  /\ UNCHANGED <<status, reg, msg, req, result, served, gaveUp>>

NewLoad(p) ==
  /\ Goto(p, "new_load", "new_store") /\ LoadStatus(p, p)
  /\ UNCHANGED <<data, status, msg, req, result, served, gaveUp>>

NewStore(p) ==
  /\ Goto(p, "new_store", "wait") /\ SetBit(p, p, "NEW")
  /\ UNCHANGED <<data, reg, msg, req, result, served, gaveUp>>

AckSeen(p) ==
  /\ Goto(p, "wait", "ack_load") /\ "ACK" \in status[p]
  /\ UNCHANGED <<data, status, reg, msg, req, result, served, gaveUp>>

AckLoad(p) ==
  /\ Goto(p, "ack_load", "ack_store") /\ LoadStatus(p, p)
  /\ UNCHANGED <<data, status, msg, req, result, served, gaveUp>>

\* Mutant: the ACK bit is left set.
AckStoreNot(p) ==
  /\ Goto(p, "ack_store", IF p = "client" THEN "poll" ELSE "idle")
  /\ UNCHANGED <<data, status, reg, msg, req, result, served, gaveUp>>

\* The client goes on to wait for the reply, the server to its main loop.
AckStore(p) ==
  /\ Goto(p, "ack_store", IF p = "client" THEN "poll" ELSE "idle")
  /\ ClearBit(p, p, "ACK")
  /\ UNCHANGED <<data, reg, msg, req, result, served, gaveUp>>

\* Mutant: the wait for the ACK never ends.
SendGiveUpNever(p) == FALSE /\ UNCHANGED vars

\* No ACK in time. NEW stays set.
SendGiveUp(p) ==
  /\ Goto(p, "wait", "idle") /\ "ACK" \notin status[p]
  /\ result' = IF p = "client" THEN SendFailed ELSE result
  /\ gaveUp' = gaveUp \cup {IF p = "client" THEN "send" ELSE "reply"}
  /\ UNCHANGED <<data, status, reg, msg, req, served>>

-----------------------------------------------------------------------------
(* shmem_link_recv, by either processor                                     *)

\* The client polls inside a request, the server in its main loop.
NewSeen(p) ==
  /\ Goto(p, IF p = "client" THEN "poll" ELSE "idle", "read1")
  /\ "NEW" \in status[Peer(p)]
  /\ UNCHANGED <<data, status, reg, msg, req, result, served, gaveUp>>

Read1(p) ==
  /\ Goto(p, "read1", "read2")
  /\ msg' = [msg EXCEPT ![p][1] = data[Peer(p)][1]]
  /\ UNCHANGED <<data, status, reg, req, result, served, gaveUp>>

Read2(p) ==
  /\ Goto(p, "read2", "clear_load")
  /\ msg' = [msg EXCEPT ![p][2] = data[Peer(p)][2]]
  /\ UNCHANGED <<data, status, reg, req, result, served, gaveUp>>

ClearLoad(p) ==
  /\ Goto(p, "clear_load", "clear_store") /\ LoadStatus(p, Peer(p))
  /\ UNCHANGED <<data, status, msg, req, result, served, gaveUp>>

\* Mutant: the NEW bit is left set.
ClearStoreNot(p) ==
  /\ Goto(p, "clear_store", "set_load")
  /\ UNCHANGED <<data, status, reg, msg, req, result, served, gaveUp>>

ClearStore(p) ==
  /\ Goto(p, "clear_store", "set_load") /\ ClearBit(p, Peer(p), "NEW")
  /\ UNCHANGED <<data, reg, msg, req, result, served, gaveUp>>

SetLoad(p) ==
  /\ Goto(p, "set_load", "set_store") /\ LoadStatus(p, Peer(p))
  /\ UNCHANGED <<data, status, msg, req, result, served, gaveUp>>

\* The client's request returns the reply; the server enqueues the command.
SetStore(p) ==
  /\ Goto(p, "set_store", IF p = "client" THEN "idle" ELSE "handle")
  /\ SetBit(p, Peer(p), "ACK")
  /\ result' = IF p = "client" THEN msg[p] ELSE result
  /\ UNCHANGED <<data, reg, msg, req, served, gaveUp>>

-----------------------------------------------------------------------------
(* shmem_link_request; the server's cmd_dequeue and cmd_handle              *)

Request ==
  /\ req < MaxReq
  /\ Goto("client", "idle", "write1")
  /\ req' = req + 1 /\ result' = NoReply
  /\ msg' = [msg EXCEPT !["client"] = Whole(req + 1)]
  /\ UNCHANGED <<data, status, reg, served, gaveUp>>

\* No reply in time.
PollGiveUp ==
  /\ Goto("client", "poll", "idle") /\ "NEW" \notin status["server"]
  /\ gaveUp' = gaveUp \cup {"recv"}
  /\ UNCHANGED <<data, status, reg, msg, req, result, served>>

\* The main loop empties the queue before it polls again, so that this link has
\* at most one command there. The reply to a command is modelled as its number.
Handle ==
  /\ Goto("server", "handle",
          IF msg["server"][1] \in Silent THEN "idle" ELSE "write1")
  /\ served' = Append(served, msg["server"])
  /\ UNCHANGED <<data, status, reg, msg, req, result, gaveUp>>

-----------------------------------------------------------------------------
Send(p) == \/ Write1(p) \/ Write2(p) \/ NewLoad(p) \/ NewStore(p)
           \/ AckSeen(p) \/ AckLoad(p) \/ AckStore(p) \/ SendGiveUp(p)

Recv(p) == \/ NewSeen(p) \/ Read1(p) \/ Read2(p)
           \/ ClearLoad(p) \/ ClearStore(p) \/ SetLoad(p) \/ SetStore(p)

ClientRuns == Send("client") \/ Recv("client") \/ PollGiveUp
ServerRuns == Send("server") \/ Recv("server") \/ Handle

Next == Request \/ ClientRuns \/ ServerRuns

Spec == Init /\ [][Next]_vars

\* Both processors run; a request need not be made.
FairSpec == Spec /\ WF_vars(ClientRuns) /\ WF_vars(ServerRuns)

-----------------------------------------------------------------------------
(* Properties *)

Requests == 1 .. MaxReq
InRequest == pc["client"] # "idle"

PCs == {"idle", "write1", "write2", "new_load", "new_store", "wait", "ack_load", "ack_store",
        "poll", "read1", "read2", "clear_load", "clear_store", "set_load", "set_store", "handle"}

TypeOK ==
  /\ data \in [CPU -> Msg] /\ status \in [CPU -> Status]
  /\ pc \in [CPU -> PCs]
  /\ pc["client"] # "handle" /\ pc["server"] # "poll"
  /\ reg \in [CPU -> Status] /\ msg \in [CPU -> Msg]
  /\ req \in 0 .. MaxReq /\ result \in Msg /\ served \in Seq(Msg)
  /\ gaveUp \subseteq {"send", "recv", "reply"}

\* No command is executed twice or out of order, and none that mixes two
\* messages: a region is not written while it is read, as long as no request
\* was given up unacknowledged.
ServedOnce ==
  "send" \notin gaveUp =>
    \A i \in DOMAIN served :
      /\ served[i] \in {Whole(r) : r \in Requests}
      /\ \A j \in 1 .. i - 1 : served[j][1] < served[i][1]

\* When send() has seen the ACK for the request, the server has the message, or
\* it is still marked NEW: the ACK was for this message, and no update of the
\* status word was lost.
AckIsReceipt ==
  pc["client"] = "poll" =>
    \/ \E i \in DOMAIN served : served[i] = Whole(req)
    \/ msg["server"] = Whole(req)
    \/ "NEW" \in status["client"] /\ data["client"] = Whole(req)

\* That is so unless an earlier request was given up unacknowledged; giving up
\* on replies, at either end, does no harm.
AckReliable == "send" \notin gaveUp => AckIsReceipt

\* Every request returns.
Returns == InRequest ~> ~InRequest

Rpc == INSTANCE LinkRpc WITH
  issued <- req, executed <- Len(served), waiting <- InRequest,
  reply <- IF result = Whole(result[1]) THEN result[1] ELSE -2,
  NoReply <- 0, patient <- (gaveUp = {})

\* The link is a remote procedure call until a wait gives up.
RpcRefinement == Rpc!Spec

=============================================================================

---------------------------- MODULE MailboxLink ----------------------------
(***************************************************************************)
(* A mailbox link (lib/mailbox-link.c over drivers/mailbox.c) between a    *)
(* client that makes requests (RTPS, or TRCH for CMD_MBOX_LINK_PING) and   *)
(* the server that executes them (TRCH, or RTPS). Two mailboxes carry it,  *)
(* one per direction; each has data registers and two events: A announces  *)
(* a message to the receiver, B acknowledges it to the sender.             *)
(*                                                                         *)
(* The two ends run on different processors: the main code and the         *)
(* interrupt handlers of one end interleave with those of the other at     *)
(* every access to a mailbox. On one end an interrupt handler runs to its  *)
(* end before the main code goes on. Messages carry no identification; the *)
(* numbers in this model say which request they belong to.                 *)
(***************************************************************************)
EXTENDS Integers, Sequences

CONSTANTS
  MaxReq,       \* bound: number of requests the client makes
  Silent        \* the requests whose command has no reply (CMD_ACTION, an error)

ASSUME LinkAssumption == MaxReq \in Nat /\ Silent \subseteq 1 .. MaxReq

VARIABLES
  cmdBox,   \* mailbox to the server: data, event A (rcv), event B (ack)
  repBox,   \* mailbox to the client
  \* client
  cpc,      \* where request() stands
  req,      \* number of requests made; the current one while cpc # "idle"
  cAcked,   \* cmd_ctx.tx_acked
  got,      \* cmd_ctx.reply_sz_read # 0, and what handle_reply stored; 0: nothing
  cisr,     \* where the client's interrupt handler stands
  result,   \* what the last request returned: SendFailed, NoReply, or a reply
  gaveUp,   \* the kinds of waits that have timed out so far (not in the code):
            \* "send" for the ACK of a request, "recv", "reply" for the reply's ACK
  \* server
  taken,    \* handle_cmd's local cmd
  spc,      \* where cmd_handle stands
  queue,    \* the command queue (lib/command.c)
  cur,      \* the command being handled
  sAcked,   \* cmd_ctx.tx_acked
  sisr,     \* where the server's interrupt handler stands
  served    \* the requests executed so far, in order

clientVars == <<cpc, req, cAcked, got, cisr, result, gaveUp>>
serverVars == <<spc, queue, cur, sAcked, sisr, taken, served>>
vars == <<cmdBox, repBox, clientVars, serverVars>>

Box == [data : 0 .. MaxReq, rcv : BOOLEAN, ack : BOOLEAN]
SendFailed == -1
NoReply == 0
Empty == [data |-> 0, rcv |-> FALSE, ack |-> FALSE]

Init ==
  /\ cmdBox = Empty /\ repBox = Empty
  /\ cpc = "idle" /\ req = 0 /\ cAcked = FALSE /\ got = 0
  /\ cisr = "none" /\ result = NoReply /\ gaveUp = {}
  /\ spc = "idle" /\ queue = <<>> /\ cur = 0 /\ sAcked = FALSE
  /\ sisr = "none" /\ taken = 0 /\ served = <<>>

-----------------------------------------------------------------------------
(* The client's request(): mbox_link_request, mbox_link_send, mbox_link_poll *)

\* A step of the client's main code, which runs while no handler does. An event
\* that is set interrupts it sooner or later.
Client(from, to) == cisr = "none" /\ cpc = from /\ cpc' = to

\* Mutant: the reply of the last request is not forgotten.
RequestKeepGot ==
  /\ req < MaxReq
  /\ Client("idle", "clear")
  /\ req' = req + 1 /\ result' = NoReply
  /\ UNCHANGED <<cmdBox, repBox, cAcked, got, cisr, gaveUp, serverVars>>

\* mbox_link_request clears the size read and points reply at the caller's
\* buffer; the new request is the one whose buffer it is.
Request ==
  /\ req < MaxReq
  /\ Client("idle", "clear")
  /\ req' = req + 1 /\ got' = 0 /\ result' = NoReply
  /\ UNCHANGED <<cmdBox, repBox, cAcked, cisr, gaveUp, serverVars>>

\* Mutant: tx_acked keeps its value from the last request.
SendClearNot ==
  /\ Client("clear", "data")
  /\ UNCHANGED <<cmdBox, repBox, req, cAcked, got, cisr, result, gaveUp, serverVars>>

SendClear ==
  /\ Client("clear", "data") /\ cAcked' = FALSE
  /\ UNCHANGED <<cmdBox, repBox, req, got, cisr, result, gaveUp, serverVars>>

\* mbox_send
SendData ==
  /\ Client("data", "event")
  /\ cmdBox' = [cmdBox EXCEPT !.data = req]
  /\ UNCHANGED <<repBox, req, cAcked, got, cisr, result, gaveUp, serverVars>>

\* mbox_event_set_rcv
SendEvent ==
  /\ Client("event", "wait_ack")
  /\ cmdBox' = [cmdBox EXCEPT !.rcv = TRUE]
  /\ UNCHANGED <<repBox, req, cAcked, got, cisr, result, gaveUp, serverVars>>

\* tx_acked is set: clear the ACK event once more, go on to the reply.
SendAcked ==
  /\ Client("wait_ack", "wait_reply") /\ cAcked
  /\ cmdBox' = [cmdBox EXCEPT !.ack = FALSE]
  /\ UNCHANGED <<repBox, req, cAcked, got, cisr, result, gaveUp, serverVars>>

\* The ACK did not come in time: request() returns -1.
SendGiveUp ==
  /\ Client("wait_ack", "idle") /\ ~cAcked
  /\ result' = SendFailed
  /\ gaveUp' = gaveUp \cup {"send"}
  /\ UNCHANGED <<cmdBox, repBox, req, cAcked, got, cisr, serverVars>>

PollReply ==
  /\ Client("wait_reply", "idle") /\ got # 0
  /\ result' = got
  /\ UNCHANGED <<cmdBox, repBox, req, cAcked, got, cisr, gaveUp, serverVars>>

\* The reply did not come in time: request() returns 0.
PollGiveUp ==
  /\ Client("wait_reply", "idle") /\ got = 0
  /\ result' = NoReply
  /\ gaveUp' = gaveUp \cup {"recv"}
  /\ UNCHANGED <<cmdBox, repBox, req, cAcked, got, cisr, serverVars>>

-----------------------------------------------------------------------------
(* The client's interrupt handlers                                          *)

HandleAck ==
  /\ cisr = "none" /\ cmdBox.ack
  /\ cAcked' = TRUE /\ cisr' = "ack"
  /\ UNCHANGED <<cmdBox, repBox, cpc, req, got, result, gaveUp, serverVars>>

HandleAckClear ==
  /\ cisr = "ack" /\ cisr' = "none"
  /\ cmdBox' = [cmdBox EXCEPT !.ack = FALSE]
  /\ UNCHANGED <<repBox, cpc, req, cAcked, got, result, gaveUp, serverVars>>

\* mbox_read into cmd_ctx.reply, whoever's buffer that is by now
HandleReply ==
  /\ cisr = "none" /\ repBox.rcv
  /\ got' = repBox.data
  /\ cisr' = "reply_read"
  /\ UNCHANGED <<cmdBox, repBox, cpc, req, cAcked, result, gaveUp, serverVars>>

HandleReplyClear ==
  /\ cisr = "reply_read" /\ cisr' = "reply_clear"
  /\ repBox' = [repBox EXCEPT !.rcv = FALSE]
  /\ UNCHANGED <<cmdBox, cpc, req, cAcked, got, result, gaveUp, serverVars>>

HandleReplyAck ==
  /\ cisr = "reply_clear" /\ cisr' = "none"
  /\ repBox' = [repBox EXCEPT !.ack = TRUE]
  /\ UNCHANGED <<cmdBox, cpc, req, cAcked, got, result, gaveUp, serverVars>>

-----------------------------------------------------------------------------
(* The server's interrupt handlers                                          *)

\* Mutant: the ACK is set before event A is cleared.
HandleCmdAckFirst ==
  /\ sisr = "none" /\ cmdBox.rcv
  /\ taken' = cmdBox.data
  /\ cmdBox' = [cmdBox EXCEPT !.ack = TRUE]
  /\ sisr' = "cmd_read"
  /\ UNCHANGED <<repBox, clientVars, spc, queue, cur, sAcked, served>>

\* handle_cmd: read the message, clear A, set B, enqueue.
HandleCmd ==
  /\ sisr = "none" /\ cmdBox.rcv
  /\ taken' = cmdBox.data
  /\ sisr' = "cmd_read"
  /\ UNCHANGED <<cmdBox, repBox, clientVars, spc, queue, cur, sAcked, served>>

\* Mutant: event A is left set.
HandleCmdClearNot ==
  /\ sisr = "cmd_read" /\ sisr' = "cmd_clear"
  /\ UNCHANGED <<cmdBox, repBox, clientVars, spc, queue, cur, sAcked, taken, served>>

HandleCmdClear ==
  /\ sisr = "cmd_read" /\ sisr' = "cmd_clear"
  /\ cmdBox' = [cmdBox EXCEPT !.rcv = FALSE]
  /\ UNCHANGED <<repBox, clientVars, spc, queue, cur, sAcked, taken, served>>

HandleCmdAck ==
  /\ sisr = "cmd_clear" /\ sisr' = "cmd_ack"
  /\ cmdBox' = [cmdBox EXCEPT !.ack = TRUE]
  /\ UNCHANGED <<repBox, clientVars, spc, queue, cur, sAcked, taken, served>>

\* The client already has its ACK when the command is enqueued.
HandleCmdEnqueue ==
  /\ sisr = "cmd_ack" /\ sisr' = "none"
  /\ queue' = Append(queue, taken) /\ taken' = 0
  /\ UNCHANGED <<cmdBox, repBox, clientVars, spc, cur, sAcked, served>>

ReplyAck ==
  /\ sisr = "none" /\ repBox.ack
  /\ sAcked' = TRUE /\ sisr' = "ack"
  /\ UNCHANGED <<cmdBox, repBox, clientVars, spc, queue, cur, taken, served>>

ReplyAckClear ==
  /\ sisr = "ack" /\ sisr' = "none"
  /\ repBox' = [repBox EXCEPT !.ack = FALSE]
  /\ UNCHANGED <<cmdBox, clientVars, spc, queue, cur, sAcked, taken, served>>

-----------------------------------------------------------------------------
(* The server's main code: cmd_dequeue, cmd_handle, mbox_link_send           *)

Server(from, to) == sisr = "none" /\ spc = from /\ spc' = to

\* cmd_dequeue, and the server's work; nothing is sent without a reply.
Take ==
  /\ queue # <<>>
  /\ Server("idle", IF Head(queue) \in Silent THEN "idle" ELSE "clear")
  /\ cur' = Head(queue) /\ queue' = Tail(queue)
  /\ served' = Append(served, Head(queue))
  /\ UNCHANGED <<cmdBox, repBox, clientVars, sAcked, sisr, taken>>

ReplyClear ==
  /\ Server("clear", "data") /\ sAcked' = FALSE
  /\ UNCHANGED <<cmdBox, repBox, clientVars, queue, cur, sisr, taken, served>>

ReplyData ==
  /\ Server("data", "event")
  /\ repBox' = [repBox EXCEPT !.data = cur]
  /\ UNCHANGED <<cmdBox, clientVars, queue, cur, sAcked, sisr, taken, served>>

ReplyEvent ==
  /\ Server("event", "wait_ack")
  /\ repBox' = [repBox EXCEPT !.rcv = TRUE]
  /\ UNCHANGED <<cmdBox, clientVars, queue, cur, sAcked, sisr, taken, served>>

ReplyAcked ==
  /\ Server("wait_ack", "idle") /\ sAcked
  /\ repBox' = [repBox EXCEPT !.ack = FALSE]
  /\ UNCHANGED <<cmdBox, clientVars, queue, cur, sAcked, sisr, taken, served>>

ReplyGiveUp ==
  /\ Server("wait_ack", "idle") /\ ~sAcked
  /\ gaveUp' = gaveUp \cup {"reply"}
  /\ UNCHANGED <<cmdBox, repBox, cpc, req, cAcked, got, cisr, result, queue, cur, sAcked, sisr, taken, served>>

-----------------------------------------------------------------------------
ClientMain == \/ SendClear \/ SendData \/ SendEvent \/ SendAcked \/ SendGiveUp
              \/ PollReply \/ PollGiveUp
ClientIsr  == HandleAck \/ HandleAckClear \/ HandleReply \/ HandleReplyClear \/ HandleReplyAck
ServerMain == Take \/ ReplyClear \/ ReplyData \/ ReplyEvent \/ ReplyAcked \/ ReplyGiveUp
ServerIsr  == HandleCmd \/ HandleCmdClear \/ HandleCmdAck \/ HandleCmdEnqueue
              \/ ReplyAck \/ ReplyAckClear

Next == Request \/ ClientMain \/ ClientIsr \/ ServerMain \/ ServerIsr

Spec == Init /\ [][Next]_vars

\* Both processors run, and take their interrupts; a request need not be made.
Fairness ==
  WF_vars(ClientMain) /\ WF_vars(ClientIsr) /\ WF_vars(ServerMain) /\ WF_vars(ServerIsr)

FairSpec == Spec /\ Fairness

-----------------------------------------------------------------------------
(* Properties *)

Requests == 1 .. MaxReq

TypeOK ==
  /\ cmdBox \in Box /\ repBox \in Box
  /\ cpc \in {"idle", "clear", "data", "event", "wait_ack", "wait_reply"}
  /\ req \in 0 .. MaxReq /\ got \in 0 .. MaxReq /\ result \in SendFailed .. MaxReq
  /\ cAcked \in BOOLEAN /\ sAcked \in BOOLEAN /\ gaveUp \subseteq {"send", "recv", "reply"}
  /\ cisr \in {"none", "ack", "reply_read", "reply_clear"}
  /\ spc \in {"idle", "clear", "data", "event", "wait_ack"}
  /\ queue \in Seq(Requests) /\ served \in Seq(Requests) /\ cur \in 0 .. MaxReq
  /\ sisr \in {"none", "cmd_read", "cmd_clear", "cmd_ack", "ack"} /\ taken \in 0 .. MaxReq

Served(r) == \E i \in DOMAIN served : served[i] = r
Queued(r) == \E i \in DOMAIN queue : queue[i] = r

\* A request that returns a reply returns the reply to that request: "positive
\* value on bytes received on success" (lib/link.h:33-34).
ReplyMatches == cpc = "idle" /\ result > NoReply => result = req

\* Requests are executed in order and none twice: the server never reads the
\* same message again, as long as no request was given up unacknowledged.
ServedOnce ==
  "send" \notin gaveUp => \A i, j \in DOMAIN served : i < j => served[i] < served[j]

\* When the client goes on to wait for the reply, its request is executed,
\* queued, being taken, or still announced: the ACK it saw was for this request.
AckIsReceipt ==
  cpc = "wait_reply" =>
    Served(req) \/ Queued(req) \/ taken = req \/ (cmdBox.rcv /\ cmdBox.data = req)

\* That is so unless an earlier request was given up unacknowledged; giving up
\* on replies, at either end, does no harm.
AckReliable == "send" \notin gaveUp => AckIsReceipt

\* Every request that was announced reaches the server, whose handler clears
\* event A before it sets B: the other way round "the second message is missed"
\* (drivers/mailbox.h:57-60).
EventuallyServed ==
  \A r \in Requests : (req = r /\ cpc = "wait_ack") ~> (Served(r) \/ "send" \in gaveUp)

Rpc == INSTANCE LinkRpc WITH
  issued <- req, executed <- Len(served), waiting <- (cpc # "idle"),
  reply <- result, patient <- (gaveUp = {})

\* The link is a remote procedure call until a wait gives up.
RpcRefinement == Rpc!Spec

=============================================================================

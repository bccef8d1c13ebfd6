------------------------- MODULE MailboxLinkProofs -------------------------
(***************************************************************************)
(* A mailbox link, for any number of requests and any set of them without  *)
(* a reply: no message is read twice and an ACK is a receipt until a       *)
(* request is given up unacknowledged (CmdInv), and the link is a remote   *)
(* procedure call until any wait gives up (RpcInv).                        *)
(***************************************************************************)
EXTENDS MailboxLink, SequenceTheorems, TLAPS

Taking == {"cmd_read", "cmd_clear", "cmd_ack"}

\* What TypeOK rests on: a message that is announced or taken was written before.
LinkInv ==
  /\ TypeOK
  /\ cpc # "idle" => req # 0
  /\ (cpc = "event" \/ cmdBox.rcv) => cmdBox.data # 0
  /\ sisr \in Taking => taken # 0

\* The stages of a request at the mailbox for commands: announced, taken off, and
\* acknowledged; the handler of the client then sees the ACK, and clears it.
Announced == cmdBox.rcv /\ ~cmdBox.ack /\ ~cAcked /\ cisr # "ack" /\ sisr # "cmd_clear"
TakenOff  == ~cmdBox.rcv /\ ~cmdBox.ack /\ ~cAcked /\ cisr # "ack" /\ sisr = "cmd_clear"
Acked     == /\ ~cmdBox.rcv /\ sisr \notin {"cmd_read", "cmd_clear"}
             /\ \/ cmdBox.ack /\ cAcked = (cisr = "ack")
                \/ ~cmdBox.ack /\ cAcked /\ cisr # "ack"
Quiet     == /\ ~cmdBox.rcv /\ ~cmdBox.ack /\ cisr # "ack" /\ sisr \notin {"cmd_read", "cmd_clear"}

\* The current request has not been taken up by the server's handler.
Fresh == \/ cpc \in {"clear", "data", "event"}
         \/ cpc = "wait_ack" /\ ~Acked

BoxInv ==
  /\ cpc # "wait_ack" => Quiet
  /\ cpc \in {"data", "event"} => ~cAcked
  /\ cpc \in {"event", "wait_ack"} => cmdBox.data = req
  /\ cpc = "wait_ack" => Announced \/ TakenOff \/ Acked

\* The requests that the server has, in the order in which it executes them.
OrderInv ==
  /\ \A i, j \in DOMAIN served : i < j => served[i] < served[j]
  /\ \A i, j \in DOMAIN queue : i < j => queue[i] < queue[j]
  /\ \A i \in DOMAIN served, j \in DOMAIN queue : served[i] < queue[j]
  /\ \A i \in DOMAIN served : served[i] <= req /\ (Fresh => served[i] < req)
  /\ \A i \in DOMAIN queue : queue[i] <= req /\ (Fresh => queue[i] < req)
  /\ sisr = "cmd_ack" =>
       /\ taken <= req /\ (Fresh => taken < req)
       /\ \A i \in DOMAIN served : served[i] < taken
       /\ \A i \in DOMAIN queue : queue[i] < taken
  /\ sisr \in {"cmd_read", "cmd_clear"} => taken = req

\* An acknowledged request is with the server.
ReceiptInv ==
  cpc = "wait_reply" \/ (cpc = "wait_ack" /\ Acked) =>
    Served(req) \/ Queued(req) \/ (sisr = "cmd_ack" /\ taken = req)

CmdInv == "send" \notin gaveUp => BoxInv /\ OrderInv /\ ReceiptInv

\* While no wait has given up, the client and the server work on one request at a time.
Executed == Len(served) = req
Due      == Len(served) + 1 = req /\ cpc # "idle"
Waiting  == cpc \in {"wait_ack", "wait_reply"}

\* The stages of a reply, like those of a request.
RepQuiet     == ~repBox.rcv /\ ~repBox.ack /\ cisr \notin {"reply_read", "reply_clear"} /\ sisr # "ack"
RepAnnounced == /\ repBox.rcv /\ repBox.data = req /\ ~repBox.ack /\ ~sAcked /\ sisr # "ack"
                /\ cisr # "reply_clear" /\ (cisr # "reply_read" => got = 0) /\ Executed /\ Waiting
RepTaken     == /\ ~repBox.rcv /\ ~repBox.ack /\ ~sAcked /\ sisr # "ack"
                /\ cisr = "reply_clear" /\ Executed /\ Waiting
RepAcked     == /\ ~repBox.rcv /\ cisr \notin {"reply_read", "reply_clear"}
                /\ \/ repBox.ack /\ sAcked = (sisr = "ack")
                   \/ ~repBox.ack /\ sAcked /\ sisr # "ack"

ReqInv ==
  /\ Executed \/ Due
  /\ cpc = "idle" => Executed
  /\ cpc \in {"clear", "data", "event"} => Due /\ queue = <<>> /\ sisr \notin Taking
  /\ cmdBox.rcv => Due /\ queue = <<>> /\ sisr \notin {"cmd_clear", "cmd_ack"}
  /\ sisr \in Taking => Due /\ queue = <<>> /\ taken = req /\ Waiting
  /\ queue # <<>> => Due /\ queue = <<req>> /\ Waiting

RepInv ==
  /\ got # 0 => got = req /\ Executed
  /\ spc = "idle" => RepQuiet
  /\ spc \in {"clear", "data", "event"} => RepQuiet /\ cur = req /\ got = 0 /\ Executed /\ Waiting
  /\ spc \in {"data", "event"} => ~sAcked
  /\ spc = "event" => repBox.data = req
  /\ spc = "wait_ack" => RepAnnounced \/ RepTaken \/ RepAcked

RpcInv == gaveUp = {} => ReqInv /\ RepInv

-----------------------------------------------------------------------------
(* Sequences *)

\* A sequence with one element more.
LEMMA AppendElements ==
  ASSUME NEW S, NEW s \in Seq(S), NEW e \in S
  PROVE  /\ Append(s, e) \in Seq(S) /\ Len(Append(s, e)) = Len(s) + 1 /\ Len(s) \in Nat
         /\ DOMAIN s = 1 .. Len(s) /\ DOMAIN Append(s, e) = 1 .. Len(s) + 1
         /\ Append(s, e)[Len(s) + 1] = e
         /\ \A i \in DOMAIN s : Append(s, e)[i] = s[i]
OBVIOUS

\* The head and the tail of a nonempty sequence.
LEMMA TailElements ==
  ASSUME NEW S, NEW s \in Seq(S), s # <<>>
  PROVE  /\ Head(s) = s[1] /\ Head(s) \in S /\ 1 \in DOMAIN s
         /\ Tail(s) \in Seq(S) /\ Len(Tail(s)) = Len(s) - 1
         /\ \A i \in DOMAIN Tail(s) : i + 1 \in DOMAIN s /\ Tail(s)[i] = s[i + 1] /\ i \in Nat \ {0}
         /\ \A i \in DOMAIN s : i = 1 \/ (i - 1 \in DOMAIN Tail(s) /\ Tail(s)[i - 1] = s[i])
<1>1. /\ Head(s) \in S /\ Tail(s) \in Seq(S) /\ Len(Tail(s)) = Len(s) - 1
      /\ \A i \in 1 .. Len(Tail(s)) : Tail(s)[i] = s[i + 1]
  BY HeadTailProperties
<1>2. Len(s) \in Nat \ {0} /\ DOMAIN s = 1 .. Len(s) /\ Head(s) = s[1]
  OBVIOUS
<1>3. DOMAIN Tail(s) = 1 .. Len(Tail(s))
  BY <1>1
<1>4. \A i \in DOMAIN s : i = 1 \/ (i - 1 \in DOMAIN Tail(s) /\ Tail(s)[i - 1] = s[i])
  <2> SUFFICES ASSUME NEW i \in DOMAIN s, i # 1
               PROVE  i - 1 \in DOMAIN Tail(s) /\ Tail(s)[i - 1] = s[i]
    OBVIOUS
  <2>1. i - 1 \in 1 .. Len(Tail(s)) /\ (i - 1) + 1 = i
    BY <1>1, <1>2
  <2>2. QED
    BY <1>1, <1>3, <2>1
<1>5. QED
  BY <1>1, <1>2, <1>3, <1>4

-----------------------------------------------------------------------------
(* Types *)

\* A mailbox after an access to one of its registers.
LEMMA BoxAccess ==
  ASSUME NEW b \in Box
  PROVE  /\ b.data \in 0 .. MaxReq /\ b.rcv \in BOOLEAN /\ b.ack \in BOOLEAN
         /\ LET c == [b EXCEPT !.rcv = TRUE]
            IN  c \in Box /\ c.rcv /\ c.data = b.data /\ c.ack = b.ack
         /\ LET c == [b EXCEPT !.rcv = FALSE]
            IN  c \in Box /\ ~c.rcv /\ c.data = b.data /\ c.ack = b.ack
         /\ LET c == [b EXCEPT !.ack = TRUE]
            IN  c \in Box /\ c.ack /\ c.data = b.data /\ c.rcv = b.rcv
         /\ LET c == [b EXCEPT !.ack = FALSE]
            IN  c \in Box /\ ~c.ack /\ c.data = b.data /\ c.rcv = b.rcv
         /\ \A d \in 0 .. MaxReq :
              LET c == [b EXCEPT !.data = d]
              IN  c \in Box /\ c.data = d /\ c.ack = b.ack /\ c.rcv = b.rcv
BY DEF Box

\* The types hold at the start.
LEMMA LinkInit == Init => LinkInv
<1> SUFFICES ASSUME Init PROVE LinkInv
  OBVIOUS
<1>1. Empty \in Box /\ ~Empty.rcv
  BY LinkAssumption DEF Empty, Box
<1>2. TypeOK
  <2>1. queue \in Seq(Requests) /\ served \in Seq(Requests)
    BY DEF Init
  <2>2. 0 \in 0 .. MaxReq /\ NoReply \in SendFailed .. MaxReq
    BY LinkAssumption DEF SendFailed, NoReply
  <2>3. QED
    BY <1>1, <2>1, <2>2 DEF Init, TypeOK
<1>3. QED
  BY <1>1, <1>2 DEF Init, LinkInv, Taking

\* The client's request keeps the types.
LEMMA LinkClient == LinkInv /\ (Request \/ ClientMain) => LinkInv'
<1> SUFFICES ASSUME LinkInv, Request \/ ClientMain PROVE LinkInv'
  OBVIOUS
<1> USE LinkAssumption DEF LinkInv, TypeOK, Client, SendFailed, NoReply, serverVars, Taking
<1>1. CASE Request
  BY <1>1 DEF Request
<1>2. CASE SendClear
  BY <1>2 DEF SendClear
<1>3. CASE SendData
  <2>1. /\ cmdBox' \in Box /\ cmdBox'.data = req /\ cmdBox'.rcv = cmdBox.rcv
    <3>1. req \in 0 .. MaxReq /\ cmdBox \in Box /\ cmdBox' = [cmdBox EXCEPT !.data = req]
      BY <1>3 DEF SendData
    <3> HIDE DEF LinkInv, TypeOK
    <3>2. QED
      BY <3>1 DEF Box
  <2>2. QED
    BY <1>3, <2>1 DEF SendData
<1>4. CASE SendEvent
  <2>1. /\ cmdBox' \in Box /\ cmdBox'.data = cmdBox.data
    BY <1>4, BoxAccess DEF SendEvent
  <2>2. QED
    BY <1>4, <2>1 DEF SendEvent
<1>5. CASE SendAcked
  <2>1. /\ cmdBox' \in Box /\ cmdBox'.data = cmdBox.data /\ cmdBox'.rcv = cmdBox.rcv
    BY <1>5, BoxAccess DEF SendAcked
  <2>2. QED
    BY <1>5, <2>1 DEF SendAcked
<1>6. CASE SendGiveUp
  BY <1>6 DEF SendGiveUp
<1>7. CASE PollReply
  BY <1>7 DEF PollReply
<1>8. CASE PollGiveUp
  BY <1>8 DEF PollGiveUp
<1>9. QED
  BY <1>1, <1>2, <1>3, <1>4, <1>5, <1>6, <1>7, <1>8 DEF ClientMain

\* The client's handlers keep the types.
LEMMA LinkClientIsr == LinkInv /\ ClientIsr => LinkInv'
<1> SUFFICES ASSUME LinkInv, ClientIsr PROVE LinkInv'
  OBVIOUS
<1> USE LinkAssumption DEF LinkInv, TypeOK, serverVars, Taking
<1>1. CASE HandleAck
  BY <1>1 DEF HandleAck
<1>2. CASE HandleAckClear
  <2>1. /\ cmdBox' \in Box /\ cmdBox'.data = cmdBox.data /\ cmdBox'.rcv = cmdBox.rcv
    BY <1>2, BoxAccess DEF HandleAckClear
  <2>2. QED
    BY <1>2, <2>1 DEF HandleAckClear
<1>3. CASE HandleReply
  BY <1>3, BoxAccess DEF HandleReply
<1>4. CASE HandleReplyClear
  <2>1. repBox' \in Box
    BY <1>4, BoxAccess DEF HandleReplyClear
  <2>2. QED
    BY <1>4, <2>1 DEF HandleReplyClear
<1>5. CASE HandleReplyAck
  <2>1. repBox' \in Box
    BY <1>5, BoxAccess DEF HandleReplyAck
  <2>2. QED
    BY <1>5, <2>1 DEF HandleReplyAck
<1>6. QED
  BY <1>1, <1>2, <1>3, <1>4, <1>5 DEF ClientIsr

\* The execution of a command and the reply keep the types.
LEMMA LinkServer == LinkInv /\ ServerMain => LinkInv'
<1> SUFFICES ASSUME LinkInv, ServerMain PROVE LinkInv'
  OBVIOUS
<1> USE LinkAssumption DEF LinkInv, TypeOK, Server, Requests, clientVars, Taking
<1>1. CASE Take
  <2>1. /\ Head(queue) \in Requests /\ queue' \in Seq(Requests) /\ served' \in Seq(Requests)
        /\ cur' \in 0 .. MaxReq /\ spc' \in {"idle", "clear"}
    BY <1>1, TailElements, AppendElements DEF Take
  <2>2. QED
    BY <1>1, <2>1 DEF Take
<1>2. CASE ReplyClear
  BY <1>2 DEF ReplyClear
<1>3. CASE ReplyData
  <2>1. repBox' \in Box
    BY <1>3, BoxAccess DEF ReplyData
  <2>2. QED
    BY <1>3, <2>1 DEF ReplyData
<1>4. CASE ReplyEvent
  <2>1. repBox' \in Box
    BY <1>4, BoxAccess DEF ReplyEvent
  <2>2. QED
    BY <1>4, <2>1 DEF ReplyEvent
<1>5. CASE ReplyAcked
  <2>1. repBox' \in Box
    BY <1>5, BoxAccess DEF ReplyAcked
  <2>2. QED
    BY <1>5, <2>1 DEF ReplyAcked
<1>6. CASE ReplyGiveUp
  BY <1>6 DEF ReplyGiveUp
<1>7. QED
  BY <1>1, <1>2, <1>3, <1>4, <1>5, <1>6 DEF ServerMain

\* The server's handlers keep the types.
LEMMA LinkServerIsr == LinkInv /\ ServerIsr => LinkInv'
<1> SUFFICES ASSUME LinkInv, ServerIsr PROVE LinkInv'
  OBVIOUS
<1> USE LinkAssumption DEF LinkInv, TypeOK, Requests, clientVars, Taking
<1>1. CASE HandleCmd
  BY <1>1, BoxAccess DEF HandleCmd
<1>2. CASE HandleCmdClear
  <2>1. /\ cmdBox' \in Box /\ cmdBox'.data = cmdBox.data /\ ~cmdBox'.rcv
    BY <1>2, BoxAccess DEF HandleCmdClear
  <2>2. QED
    BY <1>2, <2>1 DEF HandleCmdClear
<1>3. CASE HandleCmdAck
  <2>1. /\ cmdBox' \in Box /\ cmdBox'.data = cmdBox.data /\ cmdBox'.rcv = cmdBox.rcv
    BY <1>3, BoxAccess DEF HandleCmdAck
  <2>2. QED
    BY <1>3, <2>1 DEF HandleCmdAck
<1>4. CASE HandleCmdEnqueue
  <2>1. queue' \in Seq(Requests)
    BY <1>4, AppendElements DEF HandleCmdEnqueue
  <2>2. QED
    BY <1>4, <2>1 DEF HandleCmdEnqueue
<1>5. CASE ReplyAck
  BY <1>5 DEF ReplyAck
<1>6. CASE ReplyAckClear
  <2>1. repBox' \in Box
    BY <1>6, BoxAccess DEF ReplyAckClear
  <2>2. QED
    BY <1>6, <2>1 DEF ReplyAckClear
<1>7. QED
  BY <1>1, <1>2, <1>3, <1>4, <1>5, <1>6 DEF ServerIsr
-----------------------------------------------------------------------------
(* Requests *)

CmdParts == BoxInv /\ OrderInv /\ ReceiptInv

\* A step that leaves a request where it is.
LEMMA CmdKept ==
  ASSUME CmdParts, UNCHANGED <<cpc, cmdBox, cAcked, req, taken, served, queue>>,
         cisr' = "ack" <=> cisr = "ack",
         \A s \in Taking : sisr' = s <=> sisr = s
  PROVE  CmdParts'
<1>1. /\ Announced' = Announced /\ TakenOff' = TakenOff /\ Acked' = Acked /\ Quiet' = Quiet /\ Fresh' = Fresh
  BY DEF Announced, TakenOff, Acked, Quiet, Fresh, Taking
<1>2. BoxInv'
  BY <1>1 DEF CmdParts, BoxInv
<1>3. OrderInv'
  BY <1>1 DEF CmdParts, OrderInv, Taking
<1>4. ReceiptInv'
  BY <1>1 DEF CmdParts, ReceiptInv, Served, Queued, Taking
<1>5. QED
  BY <1>2, <1>3, <1>4 DEF CmdParts

\* A step that leaves the server's requests as they are.
LEMMA OrderKept ==
  ASSUME OrderInv, UNCHANGED <<served, queue, req, taken, sisr>>, Fresh' => Fresh
  PROVE  OrderInv'
BY DEF OrderInv

\* A new request is fresh: the mailbox is quiet, and its number above all others.
LEMMA CmdRequest ==
  ASSUME LinkInv, CmdParts, Request
  PROVE  CmdParts'
<1>1. /\ cpc = "idle" /\ cpc' = "clear" /\ req' = req + 1 /\ req \in Nat
      /\ UNCHANGED <<cmdBox, cAcked, cisr, sisr, taken, served, queue>>
  BY LinkAssumption DEF Request, Client, serverVars, LinkInv, TypeOK
<1>2. BoxInv'
  BY <1>1 DEF CmdParts, BoxInv, Quiet
<1>3. OrderInv'
  <2>1. /\ \A i \in DOMAIN served : served[i] \in Nat
        /\ \A i \in DOMAIN queue : queue[i] \in Nat /\ taken \in Nat
    BY LinkAssumption DEF LinkInv, TypeOK, Requests
  <2>2. sisr \notin {"cmd_read", "cmd_clear"}
    BY <1>1 DEF CmdParts, BoxInv, Quiet
  <2>3. QED
    BY <1>1, <2>1, <2>2, LinkAssumption DEF CmdParts, OrderInv, LinkInv, TypeOK
<1>4. ReceiptInv'
  BY <1>1 DEF ReceiptInv
<1>5. QED
  BY <1>2, <1>3, <1>4 DEF CmdParts

\* The client announces a message only after it has written it.
LEMMA CmdSend ==
  ASSUME LinkInv, CmdParts, SendClear \/ SendData \/ SendEvent
  PROVE  CmdParts'
<1> USE DEF CmdParts
<1>1. UNCHANGED <<served, queue, req, taken, sisr, cisr>> /\ cpc \in {"clear", "data", "event"}
  BY DEF SendClear, SendData, SendEvent, Client, serverVars
<1>2. BoxInv'
  <2>1. cmdBox \in Box /\ req \in 0 .. MaxReq
    BY DEF LinkInv, TypeOK
  <2>2. CASE SendClear
    BY <1>1, <2>2 DEF SendClear, Client, BoxInv, Quiet
  <2>3. CASE SendData
    <3>1. /\ cpc = "data" /\ cpc' = "event" /\ UNCHANGED cAcked
          /\ cmdBox'.data = req /\ cmdBox'.rcv = cmdBox.rcv /\ cmdBox'.ack = cmdBox.ack
      BY <2>1, <2>3 DEF SendData, Client, Box
    <3>2. QED
      BY <1>1, <3>1 DEF BoxInv, Quiet
  <2>4. CASE SendEvent
    <3>1. /\ cpc = "event" /\ cpc' = "wait_ack" /\ UNCHANGED cAcked
          /\ cmdBox'.data = cmdBox.data /\ cmdBox'.rcv /\ cmdBox'.ack = cmdBox.ack
      BY <2>1, <2>4 DEF SendEvent, Client, Box
    <3>2. Announced'
      BY <1>1, <3>1 DEF BoxInv, Quiet, Announced
    <3>3. QED
      BY <1>1, <3>1, <3>2 DEF BoxInv
  <2>5. QED
    BY <2>2, <2>3, <2>4
<1>3. Fresh
  BY <1>1 DEF Fresh
<1>4. OrderInv'
  BY <1>1, <1>3, OrderKept
<1>5. ReceiptInv'
  <2>1. cpc' \in {"data", "event"} \/ SendEvent
    BY DEF SendClear, SendData, Client
  <2>2. SendEvent => ~Acked'
    BY DEF SendEvent, Acked, LinkInv, TypeOK, Box
  <2>3. QED
    BY <2>1, <2>2 DEF ReceiptInv, SendEvent, Client
<1>6. QED
  BY <1>2, <1>4, <1>5

\* The client goes on, having seen the ACK, or returns from the request.
LEMMA CmdReturn ==
  ASSUME LinkInv, CmdParts, SendAcked \/ PollReply \/ PollGiveUp
  PROVE  CmdParts'
<1> USE DEF CmdParts
<1>1. /\ UNCHANGED <<served, queue, req, taken, sisr, cisr, cAcked>>
      /\ cpc' \in {"wait_reply", "idle"} /\ cpc \in {"wait_ack", "wait_reply"} /\ cisr = "none"
  BY DEF SendAcked, PollReply, PollGiveUp, Client, serverVars
<1>2. cmdBox \in Box
  BY DEF LinkInv, TypeOK
<1>3. BoxInv' /\ (cpc = "wait_ack" => Acked)
  <2>1. CASE SendAcked
    <3>1. /\ cpc = "wait_ack" /\ cAcked
          /\ cmdBox'.data = cmdBox.data /\ cmdBox'.rcv = cmdBox.rcv /\ ~cmdBox'.ack
      BY <1>2, <2>1 DEF SendAcked, Client, Box
    <3>2. Acked
      BY <3>1 DEF BoxInv, Announced, TakenOff
    <3>3. QED
      BY <1>1, <3>1, <3>2 DEF BoxInv, Acked, Quiet
  <2>2. CASE PollReply \/ PollGiveUp
    BY <1>1, <2>2 DEF PollReply, PollGiveUp, Client, BoxInv, Quiet
  <2>3. QED
    BY <2>1, <2>2
<1>4. OrderInv'
  BY <1>1, OrderKept DEF Fresh
<1>5. ReceiptInv'
  BY <1>1, <1>3 DEF ReceiptInv, Served, Queued
<1>6. QED
  BY <1>3, <1>4, <1>5

\* The client's handler of an ACK: it is for the current request.
LEMMA CmdAck ==
  ASSUME LinkInv, CmdParts, HandleAck \/ HandleAckClear
  PROVE  CmdParts'
<1> USE DEF CmdParts
<1>1. UNCHANGED <<served, queue, req, taken, sisr, cpc>>
  BY DEF HandleAck, HandleAckClear, serverVars
<1>2. /\ cmdBox \in Box /\ cAcked \in BOOLEAN
      /\ cpc = "wait_ack" /\ Acked /\ Acked' /\ cmdBox'.data = cmdBox.data
  <2>1. cmdBox \in Box /\ cAcked \in BOOLEAN
    BY DEF LinkInv, TypeOK
  <2>2. CASE HandleAck
    <3>1. cmdBox.ack /\ cAcked' = TRUE /\ cisr' = "ack" /\ cisr = "none" /\ UNCHANGED cmdBox
      BY <2>2 DEF HandleAck
    <3>2. cpc = "wait_ack" /\ Acked
      BY <3>1 DEF BoxInv, Quiet, Announced, TakenOff
    <3>3. QED
      BY <1>1, <2>1, <3>1, <3>2 DEF Acked
  <2>3. CASE HandleAckClear
    <3>1. /\ cisr = "ack" /\ cisr' = "none" /\ UNCHANGED cAcked
          /\ cmdBox'.data = cmdBox.data /\ cmdBox'.rcv = cmdBox.rcv /\ ~cmdBox'.ack
      BY <2>1, <2>3 DEF HandleAckClear, Box
    <3>2. cpc = "wait_ack" /\ Acked
      BY <3>1 DEF BoxInv, Quiet, Announced, TakenOff
    <3>3. QED
      BY <1>1, <2>1, <3>1, <3>2 DEF Acked
  <2>4. QED
    BY <2>2, <2>3
<1>3. BoxInv'
  BY <1>1, <1>2 DEF BoxInv
<1>4. OrderInv'
  BY <1>1, <1>2, OrderKept DEF Fresh
<1>5. ReceiptInv'
  BY <1>1, <1>2 DEF ReceiptInv, Served, Queued
<1>6. QED
  BY <1>3, <1>4, <1>5
\* The server's handler takes the message off the mailbox.
LEMMA CmdTaken ==
  ASSUME LinkInv, CmdParts, HandleCmd \/ HandleCmdClear \/ HandleCmdAck
  PROVE  CmdParts'
<1> USE DEF CmdParts
<1>1. UNCHANGED <<served, queue, req, cpc, cisr, cAcked>>
  BY DEF HandleCmd, HandleCmdClear, HandleCmdAck, clientVars
<1>2. cmdBox \in Box /\ cAcked \in BOOLEAN /\ req \in Nat /\ taken \in Nat
  BY LinkAssumption DEF LinkInv, TypeOK
<1>3. CASE HandleCmd
  <2>1. sisr = "none" /\ sisr' = "cmd_read" /\ cmdBox.rcv /\ taken' = cmdBox.data /\ UNCHANGED cmdBox
    BY <1>3 DEF HandleCmd
  <2>2. cpc = "wait_ack" /\ Announced /\ Announced' /\ ~Acked /\ ~Acked'
    BY <1>1, <2>1 DEF BoxInv, Quiet, TakenOff, Acked, Announced
  <2>3. BoxInv' /\ ReceiptInv'
    BY <1>1, <2>1, <2>2 DEF BoxInv, ReceiptInv
  <2>4. OrderInv'
    BY <1>1, <2>1, <2>2 DEF BoxInv, OrderInv, Fresh
  <2>5. QED
    BY <2>3, <2>4
<1>4. CASE HandleCmdClear
  <2>1. /\ sisr = "cmd_read" /\ sisr' = "cmd_clear" /\ UNCHANGED taken
        /\ cmdBox'.data = cmdBox.data /\ ~cmdBox'.rcv /\ cmdBox'.ack = cmdBox.ack
    BY <1>2, <1>4 DEF HandleCmdClear, Box
  <2>2. cpc = "wait_ack" /\ Announced /\ TakenOff' /\ ~Acked /\ ~Acked'
    BY <1>1, <2>1 DEF BoxInv, Quiet, TakenOff, Acked, Announced
  <2>3. BoxInv' /\ ReceiptInv'
    BY <1>1, <2>1, <2>2 DEF BoxInv, ReceiptInv
  <2>4. OrderInv'
    BY <1>1, <2>1, <2>2 DEF BoxInv, OrderInv, Fresh
  <2>5. QED
    BY <2>3, <2>4
<1>5. CASE HandleCmdAck
  <2>1. /\ sisr = "cmd_clear" /\ sisr' = "cmd_ack" /\ UNCHANGED taken
        /\ cmdBox'.data = cmdBox.data /\ cmdBox'.rcv = cmdBox.rcv /\ cmdBox'.ack
    BY <1>2, <1>5 DEF HandleCmdAck, Box
  <2>2. cpc = "wait_ack" /\ TakenOff /\ Acked' /\ ~Acked /\ Fresh /\ ~Fresh'
    BY <1>1, <1>2, <2>1 DEF BoxInv, Quiet, TakenOff, Acked, Announced, Fresh
  <2>3. taken = req
    BY <2>1 DEF OrderInv
  <2>4. BoxInv' /\ ReceiptInv'
    BY <1>1, <2>1, <2>2, <2>3 DEF BoxInv, ReceiptInv
  <2>5. OrderInv'
    BY <1>1, <1>2, <2>1, <2>2, <2>3 DEF OrderInv
  <2>6. QED
    BY <2>4, <2>5
<1>6. QED
  BY <1>3, <1>4, <1>5

\* The request goes from the handler to the queue,
LEMMA CmdEnqueue ==
  ASSUME LinkInv, CmdParts, HandleCmdEnqueue
  PROVE  CmdParts'
<1> USE DEF CmdParts
<1>1. /\ sisr = "cmd_ack" /\ sisr' = "none" /\ queue' = Append(queue, taken)
      /\ UNCHANGED <<served, req, cpc, cisr, cAcked, cmdBox>>
  BY DEF HandleCmdEnqueue, clientVars
<1>2. /\ queue \in Seq(Requests) /\ taken \in Requests /\ served \in Seq(Requests)
      /\ Requests \subseteq Nat /\ req \in Nat
  BY <1>1, LinkAssumption DEF LinkInv, TypeOK, Taking, Requests
<1>3. /\ Len(queue) \in Nat /\ DOMAIN queue = 1 .. Len(queue) /\ DOMAIN queue' = 1 .. Len(queue) + 1
      /\ queue'[Len(queue) + 1] = taken
      /\ \A i \in DOMAIN queue : queue'[i] = queue[i]
  BY <1>1, <1>2, AppendElements
<1>4. BoxInv' /\ Fresh' = Fresh /\ Acked' = Acked
  BY <1>1 DEF BoxInv, Announced, TakenOff, Acked, Quiet, Fresh
<1>5. OrderInv'
  <2>1. \A i \in DOMAIN queue' : i \in DOMAIN queue \/ i = Len(queue) + 1
    BY <1>3
  <2>2. \A i \in DOMAIN queue' : queue'[i] <= req /\ (Fresh => queue'[i] < req)
    BY <1>1, <1>3, <2>1 DEF OrderInv
  <2>3. \A i, j \in DOMAIN queue' : i < j => queue'[i] < queue'[j]
    BY <1>1, <1>3, <2>1 DEF OrderInv
  <2>4. \A i \in DOMAIN served, j \in DOMAIN queue' : served[i] < queue'[j]
    BY <1>1, <1>3, <2>1 DEF OrderInv
  <2>5. QED
    BY <1>1, <1>4, <2>2, <2>3, <2>4 DEF OrderInv
<1>6. ReceiptInv'
  <2>1. Queued(req) => Queued(req)'
    BY <1>1, <1>3 DEF Queued
  <2>2. taken = req => Queued(req)'
    BY <1>1, <1>3 DEF Queued
  <2>3. QED
    BY <1>1, <1>4, <2>1, <2>2 DEF ReceiptInv, Served
<1>7. QED
  BY <1>4, <1>5, <1>6

\* and from the queue to the server.
LEMMA CmdTake ==
  ASSUME LinkInv, CmdParts, Take
  PROVE  CmdParts'
<1> USE DEF CmdParts
<1>1. /\ queue # <<>> /\ queue' = Tail(queue) /\ served' = Append(served, Head(queue))
      /\ UNCHANGED <<req, cpc, cisr, cAcked, cmdBox, sisr, taken>>
  BY DEF Take, clientVars
<1>2. /\ queue \in Seq(Requests) /\ served \in Seq(Requests)
      /\ Requests \subseteq Nat /\ req \in Nat
  BY LinkAssumption DEF LinkInv, TypeOK, Requests
<1>3. /\ Head(queue) \in Requests /\ 1 \in DOMAIN queue /\ queue[1] = Head(queue)
      /\ \A i \in DOMAIN queue' : i + 1 \in DOMAIN queue /\ queue'[i] = queue[i + 1] /\ i \in Nat \ {0}
      /\ \A i \in DOMAIN queue : i = 1 \/ (i - 1 \in DOMAIN queue' /\ queue'[i - 1] = queue[i])
  BY <1>1, <1>2, TailElements
<1>4. /\ Len(served) \in Nat /\ DOMAIN served = 1 .. Len(served)
      /\ DOMAIN served' = 1 .. Len(served) + 1
      /\ served'[Len(served) + 1] = queue[1]
      /\ \A i \in DOMAIN served : served'[i] = served[i]
  BY <1>1, <1>2, <1>3, AppendElements
<1>5. BoxInv' /\ Fresh' = Fresh /\ Acked' = Acked
  BY <1>1 DEF BoxInv, Announced, TakenOff, Acked, Quiet, Fresh
<1>6. OrderInv'
  <2>1. \A i \in DOMAIN served' : i \in DOMAIN served \/ i = Len(served) + 1
    BY <1>4
  <2>2. \A i \in DOMAIN served' : served'[i] <= req /\ (Fresh => served'[i] < req)
    BY <1>3, <1>4, <2>1 DEF OrderInv
  <2>3. \A i, j \in DOMAIN served' : i < j => served'[i] < served'[j]
    BY <1>3, <1>4, <2>1 DEF OrderInv
  <2>4. \A i \in DOMAIN queue' : queue'[i] <= req /\ (Fresh => queue'[i] < req)
    BY <1>3 DEF OrderInv
  <2>5. \A i, j \in DOMAIN queue' : i < j => queue'[i] < queue'[j]
    BY <1>3 DEF OrderInv
  <2>6. \A i \in DOMAIN served', j \in DOMAIN queue' : served'[i] < queue'[j]
    BY <1>3, <1>4, <2>1 DEF OrderInv
  <2>7. sisr = "cmd_ack" => /\ \A i \in DOMAIN served' : served'[i] < taken
                            /\ \A i \in DOMAIN queue' : queue'[i] < taken
    BY <1>3, <1>4, <2>1 DEF OrderInv
  <2>8. QED
    BY <1>1, <1>5, <2>2, <2>3, <2>4, <2>5, <2>6, <2>7 DEF OrderInv
<1>7. ReceiptInv'
  <2>1. Served(req) => Served(req)'
    BY <1>1, <1>4 DEF Served
  <2>2. Queued(req) => Served(req)' \/ Queued(req)'
    <3>1. SUFFICES ASSUME NEW i \in DOMAIN queue, queue[i] = req
                   PROVE  Served(req)' \/ Queued(req)'
      BY DEF Queued
    <3>2. CASE i = 1
      BY <1>1, <1>4, <3>1, <3>2 DEF Served
    <3>3. CASE i # 1
      <4>1. i - 1 \in DOMAIN queue' /\ queue'[i - 1] = req'
        BY <1>1, <1>3, <3>1, <3>3
      <4>2. QED
        BY <4>1 DEF Queued
    <3>4. QED
      BY <3>2, <3>3
  <2>3. QED
    BY <1>1, <1>5, <2>1, <2>2 DEF ReceiptInv
<1>8. QED
  BY <1>5, <1>6, <1>7

-----------------------------------------------------------------------------
(* The invariant and what it shows until a request is given up *)

\* The types, and the requests until one is given up unacknowledged.
LEMMA LinkInvariant == Spec => [](LinkInv /\ CmdInv)
<1>1. Init => LinkInv /\ CmdInv
  BY LinkInit DEF Init, CmdInv, BoxInv, OrderInv, ReceiptInv, Quiet, Empty, Fresh
<1>2. LinkInv /\ CmdInv /\ [Next]_vars => (LinkInv /\ CmdInv)'
  <2> SUFFICES ASSUME LinkInv, CmdInv, [Next]_vars
               PROVE  LinkInv' /\ CmdInv'
    OBVIOUS
  <2>1. LinkInv'
    <3>1. CASE UNCHANGED vars
      BY <3>1 DEF vars, clientVars, serverVars, LinkInv, TypeOK
    <3>2. QED
      BY <3>1, LinkClient, LinkClientIsr, LinkServer, LinkServerIsr DEF Next
  <2>2. CASE "send" \in gaveUp'
    BY <2>1, <2>2 DEF CmdInv
  <2>3. CASE "send" \notin gaveUp'
    <3>1. "send" \notin gaveUp
      BY <2>3 DEF Next, vars, Request, ClientMain, SendClear, SendData, SendEvent, SendAcked, SendGiveUp,
         PollReply, PollGiveUp, ClientIsr, HandleAck, HandleAckClear, HandleReply, HandleReplyClear,
         HandleReplyAck, ServerMain, Take, ReplyClear, ReplyData, ReplyEvent, ReplyAcked, ReplyGiveUp,
         ServerIsr, HandleCmd, HandleCmdClear, HandleCmdAck, HandleCmdEnqueue, ReplyAck, ReplyAckClear, clientVars
    <3>2. CmdParts
      BY <3>1 DEF CmdInv, CmdParts
    <3>3. ~SendGiveUp
      BY <2>3 DEF SendGiveUp
    <3>4. CmdParts'
      <4>1. CASE HandleReply \/ HandleReplyClear \/ HandleReplyAck
        BY <3>2, <4>1, CmdKept DEF HandleReply, HandleReplyClear, HandleReplyAck, serverVars
      <4>2. CASE ReplyClear \/ ReplyData \/ ReplyEvent \/ ReplyAcked \/ ReplyGiveUp
        BY <3>2, <4>2, CmdKept DEF ReplyClear, ReplyData, ReplyEvent, ReplyAcked, ReplyGiveUp, clientVars
      <4>3. CASE ReplyAck \/ ReplyAckClear
        BY <3>2, <4>3, CmdKept DEF ReplyAck, ReplyAckClear, clientVars, Taking
      <4>4. CASE UNCHANGED vars
        BY <3>2, <4>4, CmdKept DEF vars, clientVars, serverVars
      <4>5. QED
        BY <3>2, <3>3, <4>1, <4>2, <4>3, <4>4, CmdRequest, CmdSend, CmdReturn, CmdAck, CmdTaken, CmdEnqueue, CmdTake
        DEF Next, ClientMain, ClientIsr, ServerMain, ServerIsr
    <3>5. QED
      BY <2>1, <3>4 DEF CmdParts, CmdInv
  <2>4. QED
    BY <2>2, <2>3
<1>3. QED
  BY <1>1, <1>2, PTL DEF Spec

\* The state of both ends is well-typed (lib/mailbox-link.c), for any number of requests.
THEOREM LinkTyped == Spec => []TypeOK
<1>1. LinkInv => TypeOK
  BY DEF LinkInv
<1>2. QED
  BY <1>1, LinkInvariant, PTL

\* The server executes requests in order and none twice (handle_cmd of lib/mailbox-link.c),
\* as long as no request was given up unacknowledged, for any number of requests.
THEOREM MailboxServesOnce == Spec => []ServedOnce
<1>1. CmdInv => ServedOnce
  BY DEF CmdInv, OrderInv, ServedOnce
<1>2. QED
  BY <1>1, LinkInvariant, PTL

\* The ACK that mbox_link_send waits for is a receipt for the message it sent, as long as
\* no request was given up unacknowledged.
THEOREM MailboxAckIsReceipt == Spec => []AckReliable
<1>1. CmdInv => AckReliable
  BY DEF CmdInv, ReceiptInv, AckReliable, AckIsReceipt
<1>2. QED
  BY <1>1, LinkInvariant, PTL
-----------------------------------------------------------------------------
(* The remote procedure call, until a wait gives up *)

RpcParts == LinkInv /\ BoxInv /\ ReqInv /\ RepInv

\* A step that leaves the request where it is, and one that leaves the reply.
LEMMA ReqKept ==
  ASSUME ReqInv, UNCHANGED <<cpc, cmdBox, req, taken, served, queue>>,
         \A s \in Taking : sisr' = s <=> sisr = s
  PROVE  ReqInv'
BY DEF ReqInv, Executed, Due, Waiting, Taking

\* A step that leaves the reply where it is.
LEMMA RepKept ==
  ASSUME RepInv, UNCHANGED <<spc, repBox, got, cur, sAcked, req, served>>,
         sisr' = "ack" <=> sisr = "ack",
         \A s \in {"reply_read", "reply_clear"} : cisr' = s <=> cisr = s,
         Waiting => Waiting'
  PROVE  RepInv'
<1>1. /\ RepQuiet' <=> RepQuiet
      /\ RepAcked' <=> RepAcked
      /\ Executed' <=> Executed
      /\ RepAnnounced => RepAnnounced'
      /\ RepTaken => RepTaken'
  BY DEF RepQuiet, RepAnnounced, RepTaken, RepAcked, Executed
<1>2. QED
  BY <1>1 DEF RepInv

\* A request that is not executed has no reply under way but that to an earlier one.
LEMMA DueQuiet ==
  ASSUME RpcParts, Due
  PROVE  /\ ~Executed /\ got = 0 /\ spc \in {"idle", "wait_ack"}
         /\ spc = "wait_ack" => RepAcked
<1>1. Len(served) \in Nat /\ spc \in {"idle", "clear", "data", "event", "wait_ack"}
  BY DEF RpcParts, LinkInv, TypeOK
<1>2. ~Executed
  BY <1>1 DEF Executed, Due
<1>3. QED
  BY <1>1, <1>2 DEF RpcParts, RepInv, RepAnnounced, RepTaken

\* A new request is due, and nothing is left over from the one before.
LEMMA RpcRequest ==
  ASSUME RpcParts, Request
  PROVE  ReqInv' /\ RepInv'
<1>1. /\ cpc = "idle" /\ cpc' = "clear" /\ cisr = "none" /\ req' = req + 1 /\ got' = 0
      /\ UNCHANGED <<cmdBox, repBox, cisr, sisr, taken, served, queue, spc, cur, sAcked>>
  BY DEF Request, Client, serverVars
<1>2. /\ Executed /\ queue = <<>> /\ sisr \notin Taking /\ ~cmdBox.rcv
      /\ Len(served) \in Nat /\ req \in Nat
  BY <1>1, LinkAssumption DEF RpcParts, ReqInv, Due, Waiting, LinkInv, TypeOK
<1>3. ReqInv'
  BY <1>1, <1>2 DEF ReqInv, Executed, Due, Waiting, Taking
<1>4. spc \notin {"clear", "data", "event"} /\ (spc = "wait_ack" => RepAcked)
  BY <1>1 DEF RpcParts, RepInv, Waiting, RepAnnounced, RepTaken
<1>5. RepInv'
  BY <1>1, <1>4 DEF RpcParts, RepInv, RepQuiet, RepAcked
<1>6. QED
  BY <1>3, <1>5

\* Until the request is announced the server has nothing to do.
LEMMA RpcSend ==
  ASSUME RpcParts, SendClear \/ SendData \/ SendEvent
  PROVE  ReqInv' /\ RepInv'
<1>1. /\ cpc \in {"clear", "data", "event"} /\ cpc' \in {"data", "event", "wait_ack"}
      /\ UNCHANGED <<repBox, cisr, sisr, taken, served, queue, spc, cur, sAcked, req, got>>
      /\ UNCHANGED cmdBox.rcv \/ cpc' = "wait_ack"
  BY DEF SendClear, SendData, SendEvent, Client, serverVars, RpcParts, LinkInv, TypeOK, Box
<1>2. Due /\ queue = <<>> /\ sisr \notin Taking
  BY <1>1 DEF RpcParts, ReqInv
<1>3. ReqInv'
  BY <1>1, <1>2 DEF RpcParts, ReqInv, Executed, Due, Waiting, Taking
<1>4. RepInv'
  BY <1>1, <1>2, DueQuiet DEF RpcParts, RepInv, RepQuiet, RepAcked
<1>5. QED
  BY <1>3, <1>4

\* The client goes on to wait, or returns with the reply of this request.
LEMMA RpcReceive ==
  ASSUME RpcParts, SendAcked \/ PollReply
  PROVE  ReqInv' /\ RepInv'
<1>1. /\ UNCHANGED <<repBox, cisr, sisr, taken, served, queue, spc, cur, sAcked, req, got>>
      /\ cisr = "none" /\ Waiting
  BY DEF SendAcked, PollReply, Client, serverVars, Waiting
<1>2. CASE SendAcked
  <2>1. cpc' = "wait_reply" /\ cmdBox'.rcv = cmdBox.rcv
    BY <1>2 DEF SendAcked, Client, RpcParts, LinkInv, TypeOK, Box
  <2>2. ReqInv'
    BY <1>1, <2>1 DEF RpcParts, ReqInv, Executed, Due, Waiting
  <2>3. RepInv'
    BY <1>1, <2>1, RepKept DEF RpcParts, Waiting
  <2>4. QED
    BY <2>2, <2>3
<1>3. CASE PollReply
  <2>1. cpc' = "idle" /\ got # 0 /\ UNCHANGED cmdBox
    BY <1>3 DEF PollReply, Client
  <2>2. Executed /\ ~Due
    BY <2>1, DueQuiet DEF RpcParts, RepInv
  <2>3. ReqInv'
    BY <1>1, <2>1, <2>2 DEF RpcParts, ReqInv, Executed, Due, Waiting
  <2>4. spc \notin {"clear", "data", "event"} /\ (spc = "wait_ack" => RepAcked)
    BY <1>1, <2>1 DEF RpcParts, RepInv, RepAnnounced, RepTaken
  <2>5. RepInv'
    BY <1>1, <2>1, <2>2, <2>4 DEF RpcParts, RepInv, RepQuiet, RepAcked, Executed
  <2>6. QED
    BY <2>3, <2>5
<1>4. QED
  BY <1>2, <1>3

\* The client's handlers.
LEMMA RpcClientIsr ==
  ASSUME RpcParts, ClientIsr
  PROVE  ReqInv' /\ RepInv'
<1>1. CASE HandleAck \/ HandleAckClear
  <2>1. /\ UNCHANGED <<repBox, cpc, sisr, taken, served, queue, spc, cur, sAcked, req, got>>
        /\ cmdBox'.rcv = cmdBox.rcv /\ cisr \in {"none", "ack"} /\ cisr' \in {"none", "ack"}
    BY <1>1 DEF HandleAck, HandleAckClear, serverVars, RpcParts, LinkInv, TypeOK, Box
  <2>2. ReqInv'
    BY <2>1 DEF RpcParts, ReqInv, Executed, Due, Waiting
  <2>3. RepInv'
    BY <2>1, RepKept DEF RpcParts, Waiting
  <2>4. QED
    BY <2>2, <2>3
<1>2. CASE HandleReply \/ HandleReplyClear \/ HandleReplyAck
  <2>1. UNCHANGED <<cmdBox, cpc, sisr, taken, served, queue, spc, cur, sAcked, req>>
    BY <1>2 DEF HandleReply, HandleReplyClear, HandleReplyAck, serverVars
  <2>2. ReqInv'
    BY <2>1, ReqKept DEF RpcParts
  <2>3. repBox \in Box /\ spc \in {"idle", "clear", "data", "event", "wait_ack"} /\ sAcked \in BOOLEAN
    BY DEF RpcParts, LinkInv, TypeOK
  <2>4. CASE HandleReply
    <3>1. /\ cisr = "none" /\ cisr' = "reply_read" /\ repBox.rcv /\ got' = repBox.data /\ UNCHANGED repBox
      BY <2>4 DEF HandleReply
    <3>2. spc = "wait_ack" /\ RepAnnounced
      BY <2>3, <3>1 DEF RpcParts, RepInv, RepQuiet, RepTaken, RepAcked
    <3>3. RepAnnounced'
      BY <2>1, <3>1, <3>2 DEF RepAnnounced, Executed, Waiting
    <3>4. QED
      BY <2>1, <2>2, <3>1, <3>2, <3>3 DEF RepInv, RepAnnounced, Executed
  <2>5. CASE HandleReplyClear
    <3>1. /\ cisr = "reply_read" /\ cisr' = "reply_clear" /\ UNCHANGED got
          /\ ~repBox'.rcv /\ repBox'.ack = repBox.ack
      BY <2>3, <2>5 DEF HandleReplyClear, Box
    <3>2. spc = "wait_ack" /\ RepAnnounced
      BY <2>3, <3>1 DEF RpcParts, RepInv, RepQuiet, RepTaken, RepAcked
    <3>3. RepTaken'
      BY <2>1, <3>1, <3>2 DEF RepAnnounced, RepTaken, Executed, Waiting
    <3>4. QED
      BY <2>1, <2>2, <3>1, <3>2, <3>3 DEF RpcParts, RepInv, Executed
  <2>6. CASE HandleReplyAck
    <3>1. /\ cisr = "reply_clear" /\ cisr' = "none" /\ UNCHANGED got
          /\ repBox'.rcv = repBox.rcv /\ repBox'.ack
      BY <2>3, <2>6 DEF HandleReplyAck, Box
    <3>2. spc = "wait_ack" /\ RepTaken
      BY <2>3, <3>1 DEF RpcParts, RepInv, RepQuiet, RepAnnounced, RepAcked
    <3>3. RepAcked'
      BY <2>1, <2>3, <3>1, <3>2 DEF RepTaken, RepAcked
    <3>4. QED
      BY <2>1, <2>2, <3>1, <3>2, <3>3 DEF RpcParts, RepInv, Executed
  <2>7. QED
    BY <1>2, <2>4, <2>5, <2>6
<1>3. QED
  BY <1>1, <1>2 DEF ClientIsr
\* The server's handlers.
LEMMA RpcServerIsr ==
  ASSUME RpcParts, ServerIsr
  PROVE  ReqInv' /\ RepInv'
<1>1. CASE HandleCmd \/ HandleCmdClear \/ HandleCmdAck \/ HandleCmdEnqueue
  <2>1. /\ UNCHANGED <<repBox, cpc, cisr, served, spc, cur, sAcked, req, got>>
        /\ sisr # "ack" /\ sisr' # "ack"
    BY <1>1 DEF HandleCmd, HandleCmdClear, HandleCmdAck, HandleCmdEnqueue, clientVars
  <2>2. RepInv'
    BY <2>1, RepKept DEF RpcParts, Waiting
  <2>3. cmdBox \in Box
    BY DEF RpcParts, LinkInv, TypeOK
  <2>4. CASE HandleCmd
    <3>1. /\ sisr' = "cmd_read" /\ cmdBox.rcv /\ taken' = cmdBox.data /\ UNCHANGED <<cmdBox, queue>>
      BY <2>4 DEF HandleCmd
    <3>2. cpc = "wait_ack" /\ cmdBox.data = req
      BY <3>1 DEF RpcParts, BoxInv, Quiet
    <3>3. QED
      BY <2>1, <2>2, <3>1, <3>2 DEF RpcParts, ReqInv, Executed, Due, Waiting
  <2>5. CASE HandleCmdClear
    <3>1. sisr = "cmd_read" /\ sisr' = "cmd_clear" /\ ~cmdBox'.rcv /\ UNCHANGED <<taken, queue>>
      BY <2>3, <2>5 DEF HandleCmdClear, Box
    <3>2. QED
      BY <2>1, <2>2, <3>1 DEF RpcParts, ReqInv, Executed, Due, Waiting, Taking
  <2>6. CASE HandleCmdAck
    <3>1. sisr = "cmd_clear" /\ sisr' = "cmd_ack" /\ cmdBox'.rcv = cmdBox.rcv /\ UNCHANGED <<taken, queue>>
      BY <2>3, <2>6 DEF HandleCmdAck, Box
    <3>2. QED
      BY <2>1, <2>2, <3>1 DEF RpcParts, ReqInv, Executed, Due, Waiting, Taking
  <2>7. CASE HandleCmdEnqueue
    <3>1. /\ sisr = "cmd_ack" /\ sisr' = "none" /\ UNCHANGED cmdBox
          /\ queue = <<>> /\ queue' = Append(queue, taken) /\ taken = req
          /\ Due /\ Waiting /\ ~cmdBox.rcv
      BY <2>7 DEF HandleCmdEnqueue, RpcParts, ReqInv, Taking
    <3>2. queue' = <<req>>
      BY <3>1
    <3>3. Due' /\ Waiting'
      BY <2>1, <3>1 DEF Due, Waiting
    <3>4. cpc \notin {"idle", "clear", "data", "event"}
      BY <3>1 DEF Waiting
    <3>5. QED
      BY <2>1, <2>2, <3>1, <3>2, <3>3, <3>4 DEF ReqInv, Taking
  <2>8. QED
    BY <1>1, <2>4, <2>5, <2>6, <2>7
<1>2. CASE ReplyAck \/ ReplyAckClear
  <2>1. /\ UNCHANGED <<cmdBox, cpc, cisr, served, spc, cur, taken, queue, req, got>>
        /\ sisr \notin Taking /\ sisr' \notin Taking
    BY <1>2 DEF ReplyAck, ReplyAckClear, clientVars, Taking
  <2>2. ReqInv'
    BY <2>1, ReqKept DEF RpcParts
  <2>3. repBox \in Box /\ spc \in {"idle", "clear", "data", "event", "wait_ack"} /\ sAcked \in BOOLEAN
    BY DEF RpcParts, LinkInv, TypeOK
  <2>4. spc = "wait_ack" /\ RepAcked /\ RepAcked'
    <3>1. CASE ReplyAck
      <4>1. sisr = "none" /\ sisr' = "ack" /\ repBox.ack /\ sAcked' = TRUE /\ UNCHANGED repBox
        BY <3>1 DEF ReplyAck
      <4>2. spc = "wait_ack" /\ RepAcked
        BY <2>3, <4>1 DEF RpcParts, RepInv, RepQuiet, RepAnnounced, RepTaken
      <4>3. QED
        BY <2>1, <4>1, <4>2 DEF RepAcked
    <3>2. CASE ReplyAckClear
      <4>1. /\ sisr = "ack" /\ sisr' = "none" /\ repBox'.rcv = repBox.rcv /\ ~repBox'.ack /\ UNCHANGED sAcked
        BY <2>3, <3>2 DEF ReplyAckClear, Box
      <4>2. spc = "wait_ack" /\ RepAcked
        BY <2>3, <4>1 DEF RpcParts, RepInv, RepQuiet, RepAnnounced, RepTaken
      <4>3. QED
        BY <2>1, <4>1, <4>2 DEF RepAcked
    <3>3. QED
      BY <1>2, <3>1, <3>2
  <2>5. RepInv'
    BY <2>1, <2>4 DEF RpcParts, RepInv, Executed
  <2>6. QED
    BY <2>2, <2>5
<1>3. QED
  BY <1>1, <1>2 DEF ServerIsr

\* The server executes the one request that is queued.
LEMMA RpcTake ==
  ASSUME RpcParts, Take
  PROVE  ReqInv' /\ RepInv' /\ Due /\ Executed'
<1>1. /\ queue # <<>> /\ queue' = Tail(queue) /\ served' = Append(served, Head(queue))
      /\ cur' = Head(queue) /\ spc = "idle" /\ spc' \in {"idle", "clear"} /\ sisr = "none"
      /\ UNCHANGED <<cmdBox, repBox, cpc, cisr, cAcked, req, got, sAcked, sisr, taken>>
  BY DEF Take, Server, clientVars
<1>2. Due /\ queue = <<req>> /\ Waiting /\ ~cmdBox.rcv
  BY <1>1 DEF RpcParts, ReqInv
<1>3. Head(queue) = req /\ Tail(queue) = <<>>
  BY <1>2
<1>4. Len(served') = Len(served) + 1
  BY <1>1 DEF RpcParts, LinkInv, TypeOK
<1>5. Executed' /\ Waiting'
  BY <1>1, <1>2, <1>4 DEF Executed, Due, Waiting
<1>6. ReqInv'
  BY <1>1, <1>2, <1>3, <1>5 DEF ReqInv, Waiting, Taking
<1>7. got = 0 /\ RepQuiet
  BY <1>1, <1>2, DueQuiet DEF RpcParts, RepInv
<1>8. RepInv'
  BY <1>1, <1>3, <1>5, <1>7 DEF RepInv, RepQuiet
<1>9. QED
  BY <1>2, <1>5, <1>6, <1>8

\* The server sends the reply of the request it executed last.
LEMMA RpcReply ==
  ASSUME RpcParts, ReplyClear \/ ReplyData \/ ReplyEvent \/ ReplyAcked
  PROVE  ReqInv' /\ RepInv'
<1>1. /\ UNCHANGED <<cmdBox, cpc, cisr, served, sisr, cur, taken, queue, req, got>> /\ sisr = "none"
  BY DEF ReplyClear, ReplyData, ReplyEvent, ReplyAcked, Server, clientVars
<1>2. ReqInv'
  BY <1>1, ReqKept DEF RpcParts
<1>3. repBox \in Box /\ sAcked \in BOOLEAN /\ cur \in 0 .. MaxReq
  BY DEF RpcParts, LinkInv, TypeOK
<1>4. Executed' = Executed /\ Waiting' = Waiting
  BY <1>1 DEF Executed, Waiting
<1>5. CASE ReplyClear
  <2>1. spc = "clear" /\ spc' = "data" /\ ~sAcked' /\ UNCHANGED repBox
    BY <1>5 DEF ReplyClear, Server
  <2>2. QED
    BY <1>1, <1>2, <1>4, <2>1 DEF RpcParts, RepInv, RepQuiet
<1>6. CASE ReplyData
  <2>1. /\ spc = "data" /\ spc' = "event" /\ UNCHANGED sAcked
        /\ repBox'.data = cur /\ repBox'.rcv = repBox.rcv /\ repBox'.ack = repBox.ack
    BY <1>3, <1>6 DEF ReplyData, Server, Box
  <2>2. QED
    BY <1>1, <1>2, <1>4, <2>1 DEF RpcParts, RepInv, RepQuiet
<1>7. CASE ReplyEvent
  <2>1. /\ spc = "event" /\ spc' = "wait_ack" /\ UNCHANGED sAcked
        /\ repBox'.data = repBox.data /\ repBox'.rcv /\ repBox'.ack = repBox.ack
    BY <1>3, <1>7 DEF ReplyEvent, Server, Box
  <2>2. RepAnnounced'
    BY <1>1, <1>4, <2>1 DEF RpcParts, RepInv, RepQuiet, RepAnnounced
  <2>3. QED
    BY <1>1, <1>2, <1>4, <2>1, <2>2 DEF RpcParts, RepInv
<1>8. CASE ReplyAcked
  <2>1. /\ spc = "wait_ack" /\ spc' = "idle" /\ sAcked
        /\ repBox'.rcv = repBox.rcv /\ ~repBox'.ack
    BY <1>3, <1>8 DEF ReplyAcked, Server, Box
  <2>2. RepAcked
    BY <2>1 DEF RpcParts, RepInv, RepAnnounced, RepTaken
  <2>3. RepQuiet'
    BY <1>1, <2>1, <2>2 DEF RepQuiet, RepAcked
  <2>4. QED
    BY <1>1, <1>2, <1>4, <2>1, <2>3 DEF RpcParts, RepInv
<1>9. QED
  BY <1>5, <1>6, <1>7, <1>8

\* What a step does to the call: nothing, one of its steps, or a wait gives up.
LEMMA RpcStep ==
  ASSUME RpcParts, RpcParts', gaveUp = {}, gaveUp' = {}, [Next]_vars
  PROVE  [Rpc!Next]_(Rpc!vars)
<1>1. Len(served) \in Nat /\ req \in Nat /\ result \in Int
  BY LinkAssumption DEF RpcParts, LinkInv, TypeOK, SendFailed
<1>2. CASE Request
  <2>1. cpc = "idle" /\ cpc' = "clear" /\ req' = req + 1 /\ result' = NoReply /\ UNCHANGED <<served, gaveUp>>
    BY <1>2 DEF Request, Client, serverVars
  <2>2. Rpc!Call
    BY <2>1 DEF Rpc!Call
  <2>3. QED
    BY <2>2 DEF Rpc!Next
<1>3. CASE Take
  <2>1. Due /\ Executed' /\ UNCHANGED <<req, cpc, result, gaveUp>>
    BY <1>3, RpcTake DEF Take, clientVars
  <2>2. Rpc!Execute
    BY <1>1, <2>1 DEF Rpc!Execute, Due, Executed
  <2>3. QED
    BY <2>2 DEF Rpc!Next
<1>4. CASE PollReply
  <2>1. cpc = "wait_reply" /\ cpc' = "idle" /\ got # 0 /\ result' = got /\ UNCHANGED <<req, served, gaveUp>>
    BY <1>4 DEF PollReply, Client, serverVars
  <2>2. got = req /\ Executed
    BY <2>1 DEF RpcParts, RepInv
  <2>3. Rpc!Return
    BY <2>1, <2>2 DEF Rpc!Return, Executed
  <2>4. QED
    BY <2>3 DEF Rpc!Next
<1>5. CASE SendGiveUp \/ PollGiveUp \/ ReplyGiveUp
  BY <1>5 DEF SendGiveUp, PollGiveUp, ReplyGiveUp
<1>6. CASE SendClear \/ SendData \/ SendEvent \/ SendAcked
  BY <1>6 DEF SendClear, SendData, SendEvent, SendAcked, Client, serverVars, Rpc!vars
<1>7. CASE ClientIsr
  BY <1>7 DEF ClientIsr, HandleAck, HandleAckClear, HandleReply, HandleReplyClear, HandleReplyAck, serverVars, Rpc!vars
<1>8. CASE ReplyClear \/ ReplyData \/ ReplyEvent \/ ReplyAcked
  BY <1>8 DEF ReplyClear, ReplyData, ReplyEvent, ReplyAcked, clientVars, Rpc!vars
<1>9. CASE ServerIsr
  BY <1>9 DEF ServerIsr, HandleCmd, HandleCmdClear, HandleCmdAck, HandleCmdEnqueue, ReplyAck, ReplyAckClear,
     clientVars, Rpc!vars
<1>10. CASE UNCHANGED vars
  BY <1>10 DEF vars, clientVars, serverVars, Rpc!vars
<1>11. QED
  BY <1>2, <1>3, <1>4, <1>5, <1>6, <1>7, <1>8, <1>9, <1>10 DEF Next, ClientMain, ServerMain

\* A wait that has given up stays given up.
LEMMA GaveUpGrows == [Next]_vars => gaveUp \subseteq gaveUp'
BY DEF Next, vars, Request, ClientMain, SendClear, SendData, SendEvent, SendAcked, SendGiveUp,
   PollReply, PollGiveUp, ClientIsr, HandleAck, HandleAckClear, HandleReply, HandleReplyClear,
   HandleReplyAck, ServerMain, Take, ReplyClear, ReplyData, ReplyEvent, ReplyAcked, ReplyGiveUp,
   ServerIsr, HandleCmd, HandleCmdClear, HandleCmdAck, HandleCmdEnqueue, ReplyAck, ReplyAckClear, clientVars

\* One request at a time, until a wait gives up.
LEMMA RpcInvariant == Spec => []RpcInv
<1>1. Init => RpcInv
  BY DEF Init, RpcInv, ReqInv, RepInv, Executed, RepQuiet, Empty, Taking
<1>2. LinkInv /\ CmdInv /\ LinkInv' /\ CmdInv' /\ RpcInv /\ [Next]_vars => RpcInv'
  <2> SUFFICES ASSUME LinkInv, CmdInv, RpcInv, [Next]_vars, gaveUp' = {}
               PROVE  ReqInv' /\ RepInv'
    BY DEF RpcInv
  <2>1. gaveUp = {}
    BY GaveUpGrows
  <2>2. RpcParts
    BY <2>1 DEF RpcParts, CmdInv, RpcInv
  <2>3. ~(SendGiveUp \/ PollGiveUp \/ ReplyGiveUp)
    BY DEF SendGiveUp, PollGiveUp, ReplyGiveUp
  <2>4. CASE UNCHANGED vars
    BY <2>2, <2>4, ReqKept, RepKept DEF RpcParts, vars, clientVars, serverVars, Waiting
  <2>5. QED
    BY <2>2, <2>3, <2>4, RpcRequest, RpcSend, RpcReceive, RpcClientIsr, RpcServerIsr, RpcTake, RpcReply
    DEF Next, ClientMain, ServerMain
<1>3. QED
  BY <1>1, <1>2, LinkInvariant, PTL DEF Spec

\* A mailbox link is the remote procedure call that lib/link.h promises until one of its waits
\* gives up: each call is executed once, while the caller waits, and returns its own reply.
THEOREM MailboxIsRpc == Spec => RpcRefinement
<1>1. Init => Rpc!Init
  BY DEF Init, Rpc!Init
<1>2. /\ LinkInv /\ CmdInv /\ RpcInv /\ [Next]_vars
      /\ LinkInv' /\ CmdInv' /\ RpcInv'
      => [Rpc!Next]_(Rpc!vars)
  <2> SUFFICES ASSUME LinkInv, CmdInv, RpcInv, [Next]_vars, LinkInv', CmdInv', RpcInv'
               PROVE  [Rpc!Next]_(Rpc!vars)
    OBVIOUS
  <2>1. CASE gaveUp' # {}
    BY <2>1 DEF Rpc!Next, Rpc!GiveUp
  <2>2. CASE gaveUp' = {}
    <3>1. gaveUp = {}
      BY <2>2, GaveUpGrows
    <3>2. RpcParts /\ RpcParts'
      BY <2>2, <3>1 DEF RpcParts, CmdInv, RpcInv
    <3>3. QED
      BY <2>2, <3>1, <3>2, RpcStep
  <2>3. QED
    BY <2>1, <2>2
<1>3. QED
  BY <1>1, <1>2, LinkInvariant, RpcInvariant, PTL DEF Spec, RpcRefinement, Rpc!Spec

=============================================================================

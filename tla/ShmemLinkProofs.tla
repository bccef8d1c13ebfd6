-------------------------- MODULE ShmemLinkProofs --------------------------
(***************************************************************************)
(* A shared-memory link, for any number of requests and any set of them    *)
(* without a reply: as long as the sender of a region does not give up on  *)
(* an ACK, the two processors take turns at its status word and at its     *)
(* message (Region). Hence requests are executed once, in order and whole, *)
(* and an ACK is a receipt, until a request is given up unacknowledged     *)
(* (CmdInv), and the link is a remote procedure call until any wait gives  *)
(* up (RpcInv).                                                            *)
(***************************************************************************)
EXTENDS ShmemLink, SequenceTheorems, TLAPS

Writing == {"write1", "write2", "new_load", "new_store"}
Acking  == {"wait", "ack_load", "ack_store"}
Sending == Writing \cup Acking
Reading == {"read1", "read2", "clear_load", "clear_store", "set_load", "set_store"}

\* The turns of the region that q sends to and its peer receives from: the status word
\* and the message are q's; announced, until the receiver has read the message and
\* cleared NEW; taken, until the receiver has set ACK; acknowledged, until q has cleared ACK.
Own(q) ==
  /\ status[q] = {} /\ pc[q] \notin Acking /\ pc[Peer(q)] \notin Reading
  /\ pc[q] = "write2" => data[q][1] = msg[q][1]
  /\ pc[q] \in {"new_load", "new_store"} => data[q] = msg[q]
  /\ pc[q] = "new_store" => reg[q] = {}

Announced(q) ==
  /\ status[q] = {"NEW"} /\ pc[q] = "wait" /\ data[q] = msg[q]
  /\ pc[Peer(q)] \notin {"set_load", "set_store"}
  /\ pc[Peer(q)] = "read2" => msg[Peer(q)][1] = msg[q][1]
  /\ pc[Peer(q)] \in {"clear_load", "clear_store"} => msg[Peer(q)] = msg[q]
  /\ pc[Peer(q)] = "clear_store" => reg[Peer(q)] = {"NEW"}

Taken(q) ==
  /\ status[q] = {} /\ pc[q] = "wait" /\ msg[Peer(q)] = msg[q]
  /\ pc[Peer(q)] \in {"set_load", "set_store"}
  /\ pc[Peer(q)] = "set_store" => reg[Peer(q)] = {}

Acked(q) ==
  /\ status[q] = {"ACK"} /\ pc[q] \in Acking /\ pc[Peer(q)] \notin Reading
  /\ pc[q] = "ack_store" => reg[q] = {"ACK"}

Region(q) == Own(q) \/ Announced(q) \/ Taken(q) \/ Acked(q)

\* What TypeOK rests on: a command that is sent or executed is a pair of numbers up to req.
\* The current request has not been taken off its region.
Fresh == pc["client"] \in Writing \/ Announced("client") \/ Taken("client")

OrderInv ==
  /\ pc["client"] \in Sending => req # 0 /\ msg["client"] = Whole(req)
  /\ \A i, j \in DOMAIN served : i < j => served[i][1] < served[j][1]
  /\ \A i \in DOMAIN served :
       /\ served[i] = Whole(served[i][1]) /\ served[i][1] \in 1 .. req
       /\ Fresh => served[i][1] < req
  /\ pc["server"] = "handle" =>
       /\ msg["server"] = Whole(msg["server"][1]) /\ msg["server"][1] \in 1 .. req
       /\ Fresh => msg["server"][1] < req
       /\ \A i \in DOMAIN served : served[i][1] < msg["server"][1]

\* An acknowledged request is the last one that the server has received.
ReceiptInv ==
  Acked("client") \/ pc["client"] \in Reading \cup {"poll"} => msg["server"] = Whole(req)

CmdParts == Region("client") /\ OrderInv /\ ReceiptInv
CmdInv == "send" \notin gaveUp => CmdParts

\* While no wait has given up, the client and the server work on one request at a time.
Executed == Len(served) = req
Due      == Len(served) + 1 = req /\ pc["client"] # "idle"

\* The reply is being sent, or has not reached the client.
Replying == pc["server"] \in Writing \/ Announced("server") \/ Taken("server")

CallInv ==
  /\ Executed \/ Due
  /\ pc["client"] = "idle" => Executed /\ ~Replying
  /\ Fresh => Due
  /\ Due => Fresh \/ pc["server"] = "handle"
  /\ pc["server"] = "handle" => Due /\ msg["server"] = Whole(req)
  /\ Replying => Executed /\ msg["server"] = Whole(req)

RpcInv == gaveUp = {} => Region("server") /\ CallInv

-----------------------------------------------------------------------------
(* Processors, pieces of a message, and types *)

\* Each of the two processors is the peer of the other.
LEMMA Peers ==
  /\ \A q \in CPU : Peer(q) \in CPU /\ Peer(q) # q /\ Peer(Peer(q)) = q
  /\ \A p, q \in CPU : p = q \/ p = Peer(q)
BY DEF CPU, Peer

\* A message is a pair, and is written piece by piece.
LEMMA Pieces ==
  /\ \A m \in Msg : m = <<m[1], m[2]>> /\ m[1] \in -1 .. MaxReq /\ m[2] \in -1 .. MaxReq
  /\ \A m, n \in Msg : m[1] = n[1] /\ m[2] = n[2] => m = n
  /\ \A m \in Msg, v \in -1 .. MaxReq :
       /\ [m EXCEPT ![1] = v] \in Msg /\ [m EXCEPT ![1] = v][1] = v /\ [m EXCEPT ![1] = v][2] = m[2]
       /\ [m EXCEPT ![2] = v] \in Msg /\ [m EXCEPT ![2] = v][2] = v /\ [m EXCEPT ![2] = v][1] = m[1]
BY LinkAssumption DEF Msg

\* The second piece, which is written last.
LEMMA LastPiece ==
  ASSUME NEW m \in Msg, NEW v \in -1 .. MaxReq
  PROVE  [m EXCEPT ![2] = v] \in Msg
BY LinkAssumption DEF Msg

\* The messages that are sent.
LEMMA Wholes ==
  /\ \A r \in -1 .. MaxReq : Whole(r) \in Msg /\ Whole(r)[1] = r
  /\ NoReply \in Msg /\ SendFailed \in Msg
BY LinkAssumption DEF Msg, Whole, NoReply, SendFailed

\* What a step of a processor to another place does to the places.
LEMMA Goes ==
  ASSUME TypeOK, NEW p \in CPU, NEW from, NEW to, Goto(p, from, to)
  PROVE  /\ pc[p] = from /\ pc'[p] = to
         /\ \A q \in CPU : q # p => pc'[q] = pc[q]
         /\ pc' = [pc EXCEPT ![p] = to]
BY DEF Goto, TypeOK

\* Sending keeps the types.
LEMMA TypeSend ==
  ASSUME TypeOK, NEW p \in CPU, Send(p)
  PROVE  TypeOK'
<1> USE DEF TypeOK
<1>0. /\ pc' \in [CPU -> PCs] /\ pc'["client"] # "handle" /\ pc'["server"] # "poll"
  BY DEF Send, Write1, Write2, NewLoad, NewStore, AckSeen, AckLoad, AckStore, SendGiveUp, Goto, PCs, CPU
<1>1. CASE Write1(p)
  <2>1. data' \in [CPU -> Msg]
    <3>1. [data[p] EXCEPT ![1] = msg[p][1]] \in Msg
      BY Pieces
    <3>2. data' = [data EXCEPT ![p] = [data[p] EXCEPT ![1] = msg[p][1]]]
      BY <1>1 DEF Write1
    <3>3. QED
      BY <3>1, <3>2
  <2>2. QED
    BY <1>0, <1>1, <2>1 DEF Write1
<1>2. CASE Write2(p)
  <2>1. data' \in [CPU -> Msg]
    <3>1. [data[p] EXCEPT ![2] = msg[p][2]] \in Msg
      BY Pieces
    <3>2. data' = [data EXCEPT ![p] = [data[p] EXCEPT ![2] = msg[p][2]]]
      BY <1>2 DEF Write2
    <3>3. QED
      BY <3>1, <3>2
  <2>2. QED
    BY <1>0, <1>2, <2>1 DEF Write2
<1>3. CASE NewLoad(p) \/ AckSeen(p) \/ AckLoad(p)
  BY <1>0, <1>3 DEF NewLoad, AckSeen, AckLoad, LoadStatus
<1>4. CASE NewStore(p) \/ AckStore(p)
  <2>1. status' \in [CPU -> Status]
    BY <1>4 DEF NewStore, AckStore, SetBit, ClearBit, Status
  <2>2. QED
    BY <1>0, <1>4, <2>1 DEF NewStore, AckStore
<1>5. CASE SendGiveUp(p)
  BY <1>0, <1>5, Wholes DEF SendGiveUp
<1>6. QED
  BY <1>1, <1>2, <1>3, <1>4, <1>5 DEF Send

\* Receiving keeps the types.
LEMMA TypeRecv ==
  ASSUME TypeOK, NEW p \in CPU, Recv(p)
  PROVE  TypeOK'
<1> USE DEF TypeOK
<1>0. /\ pc' \in [CPU -> PCs] /\ pc'["client"] # "handle" /\ pc'["server"] # "poll"
  BY DEF Recv, NewSeen, Read1, Read2, ClearLoad, ClearStore, SetLoad, SetStore, Goto, PCs, CPU
<1>1. CASE Read1(p)
  <2>1. msg' \in [CPU -> Msg]
    <3>1. [msg[p] EXCEPT ![1] = data[Peer(p)][1]] \in Msg
      BY Pieces, Peers
    <3>2. msg' = [msg EXCEPT ![p] = [msg[p] EXCEPT ![1] = data[Peer(p)][1]]]
      BY <1>1 DEF Read1
    <3>3. QED
      BY <3>1, <3>2
  <2>2. QED
    BY <1>0, <1>1, <2>1 DEF Read1
<1>2. CASE Read2(p)
  <2>1. msg' \in [CPU -> Msg]
    <3>1. [msg[p] EXCEPT ![2] = data[Peer(p)][2]] \in Msg
      BY Pieces, Peers
    <3>2. msg' = [msg EXCEPT ![p] = [msg[p] EXCEPT ![2] = data[Peer(p)][2]]]
      BY <1>2 DEF Read2
    <3>3. QED
      BY <3>1, <3>2
  <2>2. QED
    BY <1>0, <1>2, <2>1 DEF Read2
<1>3. CASE NewSeen(p) \/ ClearLoad(p) \/ SetLoad(p)
  <2>1. reg' \in [CPU -> Status]
    <3>1. status[Peer(p)] \in Status
      BY Peers
    <3>2. reg' = reg \/ reg' = [reg EXCEPT ![p] = status[Peer(p)]]
      BY <1>3 DEF NewSeen, ClearLoad, SetLoad, LoadStatus
    <3>3. QED
      BY <3>1, <3>2
  <2>2. QED
    BY <1>0, <1>3, <2>1 DEF NewSeen, ClearLoad, SetLoad
<1>4. CASE ClearStore(p) \/ SetStore(p)
  <2>1. status' \in [CPU -> Status] /\ result' \in Msg
    BY <1>4, Peers DEF ClearStore, SetStore, SetBit, ClearBit, Status
  <2>2. QED
    BY <1>0, <1>4, <2>1 DEF ClearStore, SetStore
<1>5. QED
  BY <1>1, <1>2, <1>3, <1>4 DEF Recv

\* Every step keeps the types.
LEMMA TypeStep == TypeOK /\ [Next]_vars => TypeOK'
<1> SUFFICES ASSUME TypeOK, [Next]_vars PROVE TypeOK'
  OBVIOUS
<1>1. CASE Request
  <2>1. Whole(req + 1) \in Msg /\ NoReply \in Msg /\ req + 1 \in 0 .. MaxReq
    BY <1>1, Wholes, LinkAssumption DEF Request, TypeOK
  <2>2. QED
    BY <1>1, <2>1 DEF Request, TypeOK, CPU, Goto, PCs
<1>2. CASE PollGiveUp
  BY <1>2 DEF PollGiveUp, TypeOK, CPU, Goto, PCs
<1>3. CASE Handle
  <2>1. served' \in Seq(Msg)
    BY <1>3 DEF Handle, TypeOK, CPU
  <2>2. QED
    BY <1>3, <2>1 DEF Handle, TypeOK, CPU, Goto, PCs
<1>4. CASE UNCHANGED vars
  BY <1>4 DEF vars, TypeOK
<1>5. QED
  BY <1>1, <1>2, <1>3, <1>4, TypeSend, TypeRecv DEF Next, ClientRuns, ServerRuns, CPU

-----------------------------------------------------------------------------
(* The turns at a region *)

\* What a region consists of, as far as its turns go: a step that keeps it.
LEMMA RegionKept ==
  ASSUME NEW q \in CPU, Region(q),
         UNCHANGED <<status[q], data[q], pc[q], reg[q], msg[q]>>,
         UNCHANGED <<pc[Peer(q)], reg[Peer(q)], msg[Peer(q)]>>
  PROVE  Region(q)'
BY DEF Region, Own, Announced, Taken, Acked

\* A step of the receiver that has nothing to do with the message of the region.
LEMMA RegionAside ==
  ASSUME NEW q \in CPU, Region(q),
         UNCHANGED <<status[q], data[q], pc[q], reg[q], msg[q]>>,
         pc[Peer(q)] \notin Reading, pc'[Peer(q)] \notin Reading
  PROVE  Region(q)'
BY DEF Region, Own, Announced, Taken, Acked, Reading

\* The sender's step moves its region on, or starts a message in it.
LEMMA RegionSend ==
  ASSUME TypeOK, NEW q \in CPU, Region(q), Send(q), ~SendGiveUp(q)
  PROVE  Region(q)'
<1> DEFINE r == Peer(q)
<1>1. r \in CPU /\ r # q
  BY Peers
<1>2. /\ UNCHANGED msg /\ pc'[r] = pc[r] /\ reg'[r] = reg[r]
  BY <1>1, Goes DEF Send, Write1, Write2, NewLoad, NewStore, AckSeen, AckLoad, AckStore, LoadStatus, TypeOK
<1> USE DEF Writing, Acking, Reading
<1>3. CASE Write1(q)
  <2>1. /\ pc[q] = "write1" /\ pc'[q] = "write2" /\ UNCHANGED <<status, reg>>
        /\ data'[q][1] = msg[q][1]
    <3>1. data' = [data EXCEPT ![q] = [data[q] EXCEPT ![1] = msg[q][1]]]
      BY <1>3 DEF Write1
    <3>2. data'[q] = [data[q] EXCEPT ![1] = msg[q][1]] /\ data[q] \in Msg /\ msg[q][1] \in -1 .. MaxReq
      BY <3>1, Pieces DEF TypeOK
    <3>3. data'[q][1] = msg[q][1]
      BY <3>2, Pieces
    <3>4. QED
      BY <1>3, <3>3, Goes DEF Write1
  <2>2. Own(q)'
    BY <1>2, <2>1 DEF Region, Own, Announced, Taken, Acked
  <2>3. QED
    BY <2>2 DEF Region
<1>4. CASE Write2(q)
  <2>1. /\ pc[q] = "write2" /\ pc'[q] = "new_load" /\ UNCHANGED <<status, reg>>
        /\ data'[q][1] = data[q][1] /\ data'[q][2] = msg[q][2] /\ data'[q] \in Msg
    <3>1. data' = [data EXCEPT ![q] = [data[q] EXCEPT ![2] = msg[q][2]]]
      BY <1>4 DEF Write2
    <3>2. data'[q] = [data[q] EXCEPT ![2] = msg[q][2]] /\ data[q] \in Msg /\ msg[q][2] \in -1 .. MaxReq
      BY <3>1, Pieces DEF TypeOK
    <3>3. data'[q] \in Msg
      BY <3>2, LastPiece
    <3>4. data'[q][1] = data[q][1] /\ data'[q][2] = msg[q][2]
      BY <3>2, Pieces
    <3>5. QED
      BY <1>4, <3>3, <3>4, Goes DEF Write2
  <2>2. data[q][1] = msg[q][1]
    BY <2>1 DEF Region, Own, Announced, Taken, Acked
  <2>3. data'[q] = msg[q]
    BY <2>1, <2>2, Pieces DEF TypeOK
  <2>4. Own(q)'
    BY <1>2, <2>1, <2>3 DEF Region, Own, Announced, Taken, Acked
  <2>5. QED
    BY <2>4 DEF Region
<1>5. CASE NewLoad(q)
  <2>1. /\ pc[q] = "new_load" /\ pc'[q] = "new_store" /\ UNCHANGED <<status, data>>
        /\ reg'[q] = status[q]
    BY <1>5, Goes DEF NewLoad, LoadStatus, TypeOK
  <2>2. QED
    BY <1>2, <2>1 DEF Region, Own, Announced, Taken, Acked
<1>6. CASE NewStore(q)
  <2>1. /\ pc[q] = "new_store" /\ pc'[q] = "wait" /\ UNCHANGED <<reg, data>>
        /\ status'[q] = reg[q] \cup {"NEW"}
    BY <1>6, Goes DEF NewStore, SetBit, TypeOK
  <2>2. Own(q) /\ status'[q] = {"NEW"}
    BY <2>1 DEF Region, Own, Announced, Taken, Acked
  <2>3. Announced(q)'
    BY <1>2, <2>1, <2>2 DEF Own, Announced
  <2>4. QED
    BY <2>3 DEF Region
<1>7. CASE AckSeen(q)
  <2>1. /\ pc[q] = "wait" /\ pc'[q] = "ack_load" /\ "ACK" \in status[q] /\ UNCHANGED <<status, data, reg>>
    BY <1>7, Goes DEF AckSeen
  <2>2. QED
    BY <1>2, <2>1 DEF Region, Own, Announced, Taken, Acked
<1>8. CASE AckLoad(q)
  <2>1. /\ pc[q] = "ack_load" /\ pc'[q] = "ack_store" /\ UNCHANGED <<status, data>>
        /\ reg'[q] = status[q]
    BY <1>8, Goes DEF AckLoad, LoadStatus, TypeOK
  <2>2. QED
    BY <1>2, <2>1 DEF Region, Own, Announced, Taken, Acked
<1>9. CASE AckStore(q)
  <2>1. /\ pc[q] = "ack_store" /\ pc'[q] \in {"poll", "idle"} /\ UNCHANGED <<reg, data>>
        /\ status'[q] = reg[q] \ {"ACK"}
    BY <1>9, Goes DEF AckStore, ClearBit, TypeOK
  <2>2. Acked(q) /\ status'[q] = {}
    BY <2>1 DEF Region, Own, Announced, Taken, Acked
  <2>3. Own(q)'
    BY <1>2, <2>1, <2>2 DEF Own, Acked
  <2>4. QED
    BY <2>3 DEF Region
<1>10. QED
  BY <1>3, <1>4, <1>5, <1>6, <1>7, <1>8, <1>9 DEF Send

\* The receiver's step takes the message, or acknowledges it.
LEMMA RegionRecv ==
  ASSUME TypeOK, NEW q \in CPU, Region(q), Recv(Peer(q))
  PROVE  Region(q)'
<1> DEFINE r == Peer(q)
<1>1. r \in CPU /\ r # q /\ Peer(r) = q
  BY Peers
<1>2. /\ UNCHANGED data /\ pc'[q] = pc[q] /\ reg'[q] = reg[q] /\ msg'[q] = msg[q]
  BY <1>1, Goes DEF Recv, NewSeen, Read1, Read2, ClearLoad, ClearStore, SetLoad, SetStore, LoadStatus, TypeOK
<1> HIDE DEF r
<1> USE DEF Writing, Acking, Reading
<1>3. CASE NewSeen(r)
  <2>1. /\ pc[r] \in {"poll", "idle"} /\ pc'[r] = "read1" /\ "NEW" \in status[q] /\ UNCHANGED <<status, reg, msg>>
    BY <1>1, <1>3, Goes DEF NewSeen
  <2>2. Announced(q)
    BY <2>1 DEF Region, Own, Announced, Taken, Acked
  <2>3. Announced(q)'
    BY <1>2, <2>1, <2>2 DEF Announced, r
  <2>4. QED
    BY <2>3 DEF Region
<1>4. CASE Read1(r)
  <2>1. /\ pc[r] = "read1" /\ pc'[r] = "read2" /\ UNCHANGED <<status, reg>> /\ msg'[r][1] = data[q][1]
    <3>1. msg' = [msg EXCEPT ![r] = [msg[r] EXCEPT ![1] = data[q][1]]]
      BY <1>1, <1>4 DEF Read1
    <3>2. msg'[r] = [msg[r] EXCEPT ![1] = data[q][1]] /\ msg[r] \in Msg /\ data[q][1] \in -1 .. MaxReq
      BY <1>1, <3>1, Pieces DEF TypeOK
    <3>3. msg'[r][1] = data[q][1]
      BY <3>2, Pieces
    <3>4. QED
      BY <1>1, <1>4, <3>3, Goes DEF Read1
  <2>2. Announced(q)
    BY <2>1 DEF Region, Own, Announced, Taken, Acked, r
  <2>3. Announced(q)'
    BY <1>2, <2>1, <2>2 DEF Announced, r
  <2>4. QED
    BY <2>3 DEF Region
<1>5. CASE Read2(r)
  <2>1. /\ pc[r] = "read2" /\ pc'[r] = "clear_load" /\ UNCHANGED <<status, reg>>
        /\ msg'[r][1] = msg[r][1] /\ msg'[r][2] = data[q][2] /\ msg'[r] \in Msg
    <3>1. msg' = [msg EXCEPT ![r] = [msg[r] EXCEPT ![2] = data[q][2]]]
      BY <1>1, <1>5 DEF Read2
    <3>2. msg'[r] = [msg[r] EXCEPT ![2] = data[q][2]] /\ msg[r] \in Msg /\ data[q][2] \in -1 .. MaxReq
      BY <1>1, <3>1, Pieces DEF TypeOK
    <3>3. msg'[r] \in Msg
      BY <3>2, LastPiece
    <3>4. msg'[r][1] = msg[r][1] /\ msg'[r][2] = data[q][2]
      BY <3>2, Pieces
    <3>5. QED
      BY <1>1, <1>5, <3>3, <3>4, Goes DEF Read2
  <2>2. Announced(q)
    BY <2>1 DEF Region, Own, Announced, Taken, Acked, r
  <2>3. msg'[r] = msg[q]
    <3>1. msg[r][1] = msg[q][1] /\ data[q] = msg[q] /\ msg[q] \in Msg
      BY <2>1, <2>2 DEF Announced, r, TypeOK
    <3>2. QED
      BY <2>1, <3>1, Pieces
  <2>4. Announced(q)'
    BY <1>2, <2>1, <2>2, <2>3 DEF Announced, r
  <2>5. QED
    BY <2>4 DEF Region
<1>6. CASE ClearLoad(r)
  <2>1. /\ pc[r] = "clear_load" /\ pc'[r] = "clear_store" /\ UNCHANGED <<status, msg>> /\ reg'[r] = status[q]
    BY <1>1, <1>6, Goes DEF ClearLoad, LoadStatus, TypeOK
  <2>2. Announced(q)
    BY <2>1 DEF Region, Own, Announced, Taken, Acked, r
  <2>3. Announced(q)'
    BY <1>2, <2>1, <2>2 DEF Announced, r
  <2>4. QED
    BY <2>3 DEF Region
<1>7. CASE ClearStore(r)
  <2>1. /\ pc[r] = "clear_store" /\ pc'[r] = "set_load" /\ UNCHANGED <<reg, msg>>
        /\ status'[q] = reg[r] \ {"NEW"}
    BY <1>1, <1>7, Goes DEF ClearStore, ClearBit, TypeOK
  <2>2. Announced(q) /\ status'[q] = {}
    BY <2>1 DEF Region, Own, Announced, Taken, Acked, r
  <2>3. Taken(q)'
    BY <1>2, <2>1, <2>2 DEF Announced, Taken, r
  <2>4. QED
    BY <2>3 DEF Region
<1>8. CASE SetLoad(r)
  <2>1. /\ pc[r] = "set_load" /\ pc'[r] = "set_store" /\ UNCHANGED <<status, msg>> /\ reg'[r] = status[q]
    BY <1>1, <1>8, Goes DEF SetLoad, LoadStatus, TypeOK
  <2>2. Taken(q)
    BY <2>1 DEF Region, Own, Announced, Taken, Acked, r
  <2>3. Taken(q)'
    BY <1>2, <2>1, <2>2 DEF Taken, r
  <2>4. QED
    BY <2>3 DEF Region
<1>9. CASE SetStore(r)
  <2>1. /\ pc[r] = "set_store" /\ pc'[r] \in {"idle", "handle"} /\ UNCHANGED <<reg, msg>>
        /\ status'[q] = reg[r] \cup {"ACK"}
    BY <1>1, <1>9, Goes DEF SetStore, SetBit, TypeOK
  <2>2. Taken(q) /\ status'[q] = {"ACK"}
    BY <2>1 DEF Region, Own, Announced, Taken, Acked, r
  <2>3. Acked(q)'
    BY <1>2, <2>1, <2>2 DEF Taken, Acked, r
  <2>4. QED
    BY <2>3 DEF Region
<1>10. QED
  BY <1>3, <1>4, <1>5, <1>6, <1>7, <1>8, <1>9 DEF Recv, r

\* A processor that receives, or starts to send, does nothing to its own region: it has that.
LEMMA RegionOther ==
  ASSUME TypeOK, NEW q \in CPU, Region(q), Recv(q)
  PROVE  Region(q)'
<1> DEFINE r == Peer(q)
<1>1. r \in CPU /\ r # q
  BY Peers
<1>2. /\ UNCHANGED data /\ status'[q] = status[q]
      /\ pc'[r] = pc[r] /\ reg'[r] = reg[r] /\ msg'[r] = msg[r]
  BY <1>1, Goes DEF Recv, NewSeen, Read1, Read2, ClearLoad, ClearStore, SetLoad, SetStore,
     LoadStatus, SetBit, ClearBit, TypeOK
<1>3. pc[q] \notin Sending /\ pc'[q] \notin Sending
  BY Goes DEF Recv, NewSeen, Read1, Read2, ClearLoad, ClearStore, SetLoad, SetStore, Sending, Writing, Acking
<1>4. QED
  BY <1>2, <1>3 DEF Region, Own, Announced, Taken, Acked, Sending, Writing, Acking

\* As long as its sender does not give up, the processors take turns at a region.
LEMMA RegionStep ==
  ASSUME TypeOK, NEW q \in CPU, Region(q), [Next]_vars, ~SendGiveUp(q)
  PROVE  Region(q)'
<1> DEFINE r == Peer(q)
<1>1. r \in CPU /\ r # q /\ Peer(r) = q
  BY Peers
<1>2. CASE Send(r)
  <2>1. UNCHANGED <<status[q], data[q], pc[q], reg[q], msg[q]>>
    BY <1>1, <1>2, Goes DEF Send, Write1, Write2, NewLoad, NewStore, AckSeen, AckLoad, AckStore, SendGiveUp,
       LoadStatus, SetBit, ClearBit, TypeOK
  <2>2. pc[r] \notin Reading /\ pc'[r] \notin Reading
    BY <1>1, <1>2, Goes DEF Send, Write1, Write2, NewLoad, NewStore, AckSeen, AckLoad, AckStore, SendGiveUp, Reading
  <2>3. QED
    BY <2>1, <2>2, RegionAside
<1>3. CASE Request \/ PollGiveUp \/ Handle
  <2>1. UNCHANGED <<status, data, reg>>
    BY <1>3 DEF Request, PollGiveUp, Handle
  <2>2. ASSUME NEW p \in CPU
        PROVE  \/ pc'[p] = pc[p] /\ msg'[p] = msg[p]
               \/ pc[p] \in {"idle", "poll", "handle"} /\ pc'[p] \in {"idle", "write1"}
    <3>1. "client" \in CPU /\ "server" \in CPU
      BY DEF CPU
    <3>2. CASE Request
      BY <3>1, <3>2, Goes DEF Request, TypeOK
    <3>3. CASE PollGiveUp
      BY <3>1, <3>3, Goes DEF PollGiveUp
    <3>4. CASE Handle
      BY <3>1, <3>4, Goes DEF Handle
    <3>5. QED
      BY <1>3, <3>2, <3>3, <3>4
  <2>3. CASE pc'[q] = pc[q] /\ msg'[q] = msg[q]
    BY <1>1, <2>1, <2>2, <2>3, RegionKept, RegionAside DEF Reading
  <2>4. CASE pc[q] \in {"idle", "poll", "handle"} /\ pc'[q] \in {"idle", "write1"}
    BY <1>1, <2>1, <2>2, <2>4 DEF Region, Own, Announced, Taken, Acked, Acking, Reading
  <2>5. QED
    BY <2>2, <2>3, <2>4
<1>4. CASE UNCHANGED vars
  BY <1>4, RegionKept DEF vars
<1>5. QED
  BY <1>1, <1>2, <1>3, <1>4, RegionSend, RegionRecv, RegionOther DEF Next, ClientRuns, ServerRuns, Peer, CPU

-----------------------------------------------------------------------------
(* Requests *)

\* A step that leaves the request where it is: the server may read or send, the client
\* receive or wait.
LEMMA OrderKept ==
  ASSUME OrderInv, UNCHANGED <<req, served>>,
         pc'["client"] \in Sending => pc["client"] \in Sending /\ msg'["client"] = msg["client"],
         pc'["server"] = "handle" => pc["server"] = "handle" /\ msg'["server"] = msg["server"],
         Fresh' => Fresh
  PROVE  OrderInv'
BY DEF OrderInv

\* A new request is above all that the server has.
LEMMA CmdRequest ==
  ASSUME TypeOK, CmdParts, Request
  PROVE  OrderInv' /\ ReceiptInv'
<1>1. /\ req' = req + 1 /\ req \in Nat /\ UNCHANGED <<served, status>>
      /\ pc["client"] = "idle" /\ pc'["client"] = "write1" /\ pc'["server"] = pc["server"]
      /\ msg'["client"] = Whole(req + 1) /\ msg'["server"] = msg["server"]
  BY Goes, LinkAssumption DEF Request, TypeOK, CPU
<1>2. \A i \in DOMAIN served : served[i][1] \in 1 .. req
  BY DEF CmdParts, OrderInv
<1>3. OrderInv'
  BY <1>1, <1>2 DEF CmdParts, OrderInv
<1>4. ReceiptInv'
  BY <1>1 DEF ReceiptInv, Acked, Acking, Reading
<1>5. QED
  BY <1>3, <1>4

\* What the client's sending does to the request.
LEMMA CmdSend ==
  ASSUME TypeOK, CmdParts, Send("client"), ~SendGiveUp("client")
  PROVE  OrderInv' /\ ReceiptInv'
<1>1. /\ UNCHANGED <<req, served, msg>> /\ pc["client"] \in Sending
      /\ pc'["client"] \in Sending \cup {"poll"} /\ pc'["server"] = pc["server"]
  BY Goes DEF Send, Write1, Write2, NewLoad, NewStore, AckSeen, AckLoad, AckStore, CPU, Sending, Writing, Acking
<1>2. CASE Acked("client")
  <2>1. pc'["client"] \in {"ack_load", "ack_store", "poll"}
    BY <1>2, Goes DEF Acked, Acking, Send, Write1, Write2, NewLoad, NewStore, AckSeen, AckLoad, AckStore, CPU
  <2>2. ~Fresh'
    BY <2>1 DEF Fresh, Announced, Taken, Writing
  <2>3. QED
    BY <1>1, <1>2, <2>2, OrderKept DEF CmdParts, ReceiptInv
<1>3. CASE ~Acked("client")
  <2>1. Write1("client") \/ Write2("client") \/ NewLoad("client") \/ NewStore("client")
    <3>1. ~("ACK" \in status["client"] /\ pc["client"] = "wait") /\ pc["client"] \notin {"ack_load", "ack_store"}
      BY <1>3 DEF CmdParts, Region, Own, Announced, Taken, Acking
    <3>2. QED
      BY <3>1, Goes DEF Send, AckSeen, AckLoad, AckStore, CPU
  <2>2. /\ pc["client"] \in Writing /\ pc'["client"] \in Writing \cup {"wait"}
        /\ Own("client") /\ ("ACK" \notin status'["client"] \/ pc'["client"] # "wait")
    <3>1. pc["client"] \in Writing /\ pc'["client"] \in Writing \cup {"wait"}
      BY <2>1, Goes DEF Write1, Write2, NewLoad, NewStore, CPU, Writing
    <3>2. Own("client")
      BY <1>3, <3>1 DEF CmdParts, Region, Announced, Taken, Writing
    <3>3. NewStore("client") => "ACK" \notin status'["client"]
      BY <3>2, Goes DEF Own, NewStore, SetBit, TypeOK, CPU
    <3>4. ~NewStore("client") => pc'["client"] # "wait"
      BY <2>1, Goes DEF Write1, Write2, NewLoad, CPU
    <3>5. QED
      BY <3>1, <3>2, <3>3, <3>4
  <2>3. Fresh /\ ~Acked("client")'
    BY <2>2 DEF Fresh, Acked, Writing, Acking
  <2>4. QED
    BY <1>1, <2>2, <2>3, OrderKept DEF CmdParts, ReceiptInv, Reading, Writing
<1>4. QED
  BY <1>2, <1>3

\* The client's receiving, and its giving up on a reply, leave the request with the server.
LEMMA CmdReceive ==
  ASSUME TypeOK, CmdParts, Recv("client") \/ PollGiveUp
  PROVE  OrderInv' /\ ReceiptInv'
<1>1. /\ UNCHANGED <<req, served>> /\ msg'["server"] = msg["server"] /\ pc'["server"] = pc["server"]
      /\ pc["client"] \in Reading \cup {"poll"} /\ pc'["client"] \in Reading \cup {"idle"}
  BY Goes DEF Recv, NewSeen, Read1, Read2, ClearLoad, ClearStore, SetLoad, SetStore, PollGiveUp,
     Reading, CPU, TypeOK
<1>2. /\ pc'["client"] \notin Sending /\ ~Fresh' /\ ~Acked("client")'
  BY <1>1 DEF Sending, Reading, Writing, Acking, Fresh, Announced, Taken, Acked
<1>3. QED
  BY <1>1, <1>2, OrderKept DEF CmdParts, ReceiptInv

\* The server takes the request from the region: it is the current one, and whole.
LEMMA CmdTaken ==
  ASSUME TypeOK, CmdParts, Region("client")', Recv("server")
  PROVE  OrderInv' /\ ReceiptInv'
<1>1. "client" \in CPU /\ "server" \in CPU /\ Peer("server") = "client" /\ Peer("client") = "server"
  BY DEF CPU, Peer
<1>2. /\ UNCHANGED <<req, served, data>>
      /\ pc'["client"] = pc["client"] /\ msg'["client"] = msg["client"]
  BY <1>1, Goes DEF Recv, NewSeen, Read1, Read2, ClearLoad, ClearStore, SetLoad, SetStore, TypeOK
<1>3. /\ pc["server"] \in Reading \/ "NEW" \in status["client"]
      /\ Announced("client") \/ Taken("client")
  <2>1. pc["server"] \in Reading \/ "NEW" \in status["client"]
    BY <1>1, Goes DEF Recv, NewSeen, Read1, Read2, ClearLoad, ClearStore, SetLoad, SetStore, Reading
  <2>2. QED
    BY <1>1, <2>1 DEF CmdParts, Region, Own, Acked
<1>4. Fresh /\ pc["client"] = "wait" /\ msg["client"] = Whole(req) /\ req # 0
  BY <1>3 DEF Fresh, Announced, Taken, CmdParts, OrderInv, Sending, Acking
<1>5. CASE SetStore("server")
  <2>1. Taken("client") /\ msg["server"] = Whole(req) /\ UNCHANGED msg
    BY <1>1, <1>3, <1>4, <1>5, Goes DEF SetStore, Announced, Taken
  <2>2. Acked("client")'
    <3>1. "ACK" \in status'["client"]
      BY <1>1, <1>5 DEF SetStore, SetBit, TypeOK
    <3>2. QED
      BY <1>2, <1>4, <3>1 DEF Region, Own, Announced, Taken, Acking
  <2>3. ~Fresh'
    BY <1>2, <1>4, <2>2 DEF Fresh, Writing, Acked, Announced, Taken
  <2>4. Whole(req)[1] = req /\ req \in Nat
    BY Wholes, LinkAssumption DEF TypeOK
  <2>5. OrderInv'
    BY <1>2, <1>4, <2>1, <2>3, <2>4 DEF CmdParts, OrderInv
  <2>6. QED
    BY <1>2, <2>1, <2>5 DEF ReceiptInv
<1>6. CASE ~SetStore("server")
  <2>1. pc'["server"] \in Reading
    BY <1>1, <1>6, Goes DEF Recv, NewSeen, Read1, Read2, ClearLoad, ClearStore, SetLoad, Reading
  <2>2. ~Acked("client")'
    BY <1>1, <2>1 DEF Acked
  <2>3. OrderInv'
    BY <1>2, <1>4, <2>1, OrderKept DEF CmdParts, Reading
  <2>4. QED
    BY <1>2, <1>4, <2>2, <2>3 DEF ReceiptInv, Reading
<1>7. QED
  BY <1>5, <1>6

\* The server executes the command that it has received last.
LEMMA CmdHandle ==
  ASSUME TypeOK, CmdParts, Handle
  PROVE  OrderInv' /\ ReceiptInv'
<1>1. /\ UNCHANGED <<req, msg, status, data, reg>> /\ pc'["client"] = pc["client"]
      /\ pc["server"] = "handle" /\ pc'["server"] \in {"idle", "write1"}
      /\ served' = Append(served, msg["server"]) /\ served \in Seq(Msg) /\ msg["server"] \in Msg
  BY Goes DEF Handle, CPU, TypeOK
<1>2. /\ Len(served) \in Nat /\ DOMAIN served = 1 .. Len(served)
      /\ DOMAIN served' = 1 .. Len(served) + 1 /\ served'[Len(served) + 1] = msg["server"]
      /\ \A i \in DOMAIN served : served'[i] = served[i]
  BY <1>1
<1>3. Peer("client") = "server"
  BY DEF Peer
<1>4. Fresh' => Fresh
  BY <1>1, <1>3 DEF Fresh, Announced, Taken
<1>5. OrderInv'
  <2>1. \A i \in DOMAIN served' : i \in DOMAIN served \/ i = Len(served) + 1
    BY <1>2
  <2>2. \A i \in DOMAIN served' :
          /\ served'[i] = Whole(served'[i][1]) /\ served'[i][1] \in 1 .. req
          /\ Fresh' => served'[i][1] < req
    BY <1>1, <1>2, <1>4, <2>1 DEF CmdParts, OrderInv
  <2>3. \A i, j \in DOMAIN served' : i < j => served'[i][1] < served'[j][1]
    BY <1>1, <1>2, <2>1 DEF CmdParts, OrderInv
  <2>4. QED
    BY <1>1, <2>2, <2>3 DEF CmdParts, OrderInv
<1>6. ReceiptInv'
  BY <1>1, <1>3 DEF CmdParts, ReceiptInv, Acked, Reading
<1>7. QED
  BY <1>5, <1>6

\* What the server sends leaves the request where it is.
LEMMA CmdReply ==
  ASSUME TypeOK, CmdParts, Send("server")
  PROVE  OrderInv' /\ ReceiptInv'
<1>1. "client" \in CPU /\ "server" \in CPU /\ Peer("client") = "server"
  BY DEF CPU, Peer
<1>2. /\ UNCHANGED <<req, served, msg>> /\ pc'["client"] = pc["client"]
      /\ status'["client"] = status["client"] /\ data'["client"] = data["client"] /\ reg'["client"] = reg["client"]
  BY <1>1, Goes DEF Send, Write1, Write2, NewLoad, NewStore, AckSeen, AckLoad, AckStore, SendGiveUp,
     LoadStatus, SetBit, ClearBit, TypeOK
<1>3. /\ pc["server"] \in Sending /\ pc'["server"] \in Sending \cup {"idle"}
  BY <1>1, Goes DEF Send, Write1, Write2, NewLoad, NewStore, AckSeen, AckLoad, AckStore, SendGiveUp,
     Sending, Writing, Acking
<1>4. (Fresh' => Fresh) /\ (Acked("client")' => Acked("client"))
  BY <1>1, <1>2, <1>3 DEF Fresh, Announced, Taken, Acked, Sending, Writing, Acking, Reading
<1>5. QED
  BY <1>2, <1>3, <1>4, OrderKept DEF CmdParts, ReceiptInv, Sending, Writing, Acking

-----------------------------------------------------------------------------
(* The invariant and what it shows until a request is given up *)

\* A wait that has given up stays given up.
LEMMA GaveUpGrows ==
  [Next]_vars => /\ gaveUp \subseteq gaveUp'
                 /\ SendGiveUp("client") => "send" \in gaveUp'
                 /\ SendGiveUp("server") => "reply" \in gaveUp'
                 /\ PollGiveUp => "recv" \in gaveUp'
BY DEF Next, vars, ClientRuns, ServerRuns, Request, Handle, PollGiveUp, Send, Recv, Write1, Write2, NewLoad,
   NewStore, AckSeen, AckLoad, AckStore, SendGiveUp, NewSeen, Read1, Read2, ClearLoad, ClearStore, SetLoad, SetStore

\* The types, and the requests until one is given up unacknowledged.
LEMMA LinkInvariant == Spec => [](TypeOK /\ CmdInv)
<1>1. Init => TypeOK /\ CmdInv
  <2> SUFFICES ASSUME Init PROVE TypeOK /\ CmdInv
    OBVIOUS
  <2>1. TypeOK
    BY Wholes, LinkAssumption DEF Init, TypeOK, CPU, PCs, Status
  <2>2. Own("client")
    BY DEF Init, Own, CPU, Peer, Acking, Reading
  <2>3. OrderInv /\ ReceiptInv
    BY DEF Init, OrderInv, ReceiptInv, CPU, Sending, Writing, Acking, Reading, Acked
  <2>4. QED
    BY <2>1, <2>2, <2>3 DEF CmdInv, CmdParts, Region
<1>2. TypeOK /\ CmdInv /\ [Next]_vars => (TypeOK /\ CmdInv)'
  <2> SUFFICES ASSUME TypeOK, CmdInv, [Next]_vars, "send" \notin gaveUp'
               PROVE  CmdParts'
    BY TypeStep DEF CmdInv
  <2>1. CmdParts /\ ~SendGiveUp("client")
    BY GaveUpGrows DEF CmdInv
  <2>2. Region("client")'
    BY <2>1, RegionStep DEF CmdParts, CPU
  <2>3. CASE UNCHANGED vars
    BY <2>1, <2>3 DEF vars, CmdParts, Region, Own, Announced, Taken, Acked, OrderInv, ReceiptInv, Fresh
  <2>4. CASE Next
    BY <2>1, <2>2, <2>4, CmdRequest, CmdSend, CmdReceive, CmdTaken, CmdHandle, CmdReply
    DEF Next, ClientRuns, ServerRuns, CmdParts
  <2>5. QED
    BY <2>3, <2>4
<1>3. QED
  BY <1>1, <1>2, PTL DEF Spec

\* The state of both ends is well-typed (lib/shmem-link.c), for any number of requests.
THEOREM ShmemTyped == Spec => []TypeOK
BY LinkInvariant, PTL

\* The server executes requests in order, none twice and none that is mixed of two messages
\* (shmem_link_recv), as long as no request was given up unacknowledged: although both
\* processors load, change and store one status word, and a message is copied piece by piece.
THEOREM ShmemServesOnce == Spec => []ServedOnce
<1>1. TypeOK /\ CmdInv => ServedOnce
  <2> SUFFICES ASSUME TypeOK, CmdParts
               PROVE  \A i \in DOMAIN served :
                        /\ served[i] \in {Whole(r) : r \in Requests}
                        /\ \A j \in 1 .. i - 1 : served[j][1] < served[i][1]
    BY DEF CmdInv, ServedOnce
  <2>1. DOMAIN served = 1 .. Len(served) /\ Len(served) \in Nat /\ 1 .. req \subseteq Requests
    BY LinkAssumption DEF TypeOK, Requests
  <2>2. QED
    BY <2>1 DEF CmdParts, OrderInv
<1>2. QED
  BY <1>1, LinkInvariant, PTL

\* The ACK that shmem_link_send waits for is a receipt for the message it sent, as long as
\* no request was given up unacknowledged.
THEOREM ShmemAckIsReceipt == Spec => []AckReliable
<1>1. CmdInv => AckReliable
  BY DEF CmdInv, CmdParts, ReceiptInv, AckReliable, AckIsReceipt
<1>2. QED
  BY <1>1, LinkInvariant, PTL

-----------------------------------------------------------------------------
(* The remote procedure call, until a wait gives up *)

RpcParts == TypeOK /\ CmdParts /\ Region("server") /\ CallInv

\* The processors by name, as each other's peers.
LEMMA Ends ==
  /\ "client" \in CPU /\ "server" \in CPU
  /\ Peer("client") = "server" /\ Peer("server") = "client"
BY DEF CPU, Peer

\* A call is due or executed, not both.
LEMMA NotBoth == TypeOK => ~(Executed /\ Due)
BY DEF TypeOK, Executed, Due

\* A new call is due, and nothing is left over from the one before.
LEMMA RpcRequest ==
  ASSUME RpcParts, Request
  PROVE  CallInv' /\ Executed /\ Due'
<1>1. /\ req' = req + 1 /\ req \in Nat /\ UNCHANGED <<served, status, data>>
      /\ pc["client"] = "idle" /\ pc'["client"] = "write1" /\ pc'["server"] = pc["server"]
      /\ msg'["server"] = msg["server"] /\ reg' = reg /\ Len(served) \in Nat
  BY Goes, LinkAssumption DEF Request, RpcParts, TypeOK, CPU
<1>2. Executed /\ ~Replying /\ pc["server"] # "handle"
  BY <1>1, NotBoth DEF RpcParts, CallInv
<1>3. ~Replying'
  BY <1>1, <1>2, Ends DEF Replying, Announced, Taken
<1>4. Due' /\ Fresh'
  BY <1>1, <1>2 DEF Executed, Due, Fresh, Writing
<1>5. QED
  BY <1>1, <1>2, <1>3, <1>4 DEF CallInv

\* What the client sends leaves the call where it is.
LEMMA RpcSend ==
  ASSUME RpcParts, Region("client")', Send("client"), ~SendGiveUp("client")
  PROVE  CallInv' /\ pc'["client"] # "idle"
<1>1. /\ UNCHANGED <<req, served, msg>> /\ pc["client"] \in Sending
      /\ pc'["client"] \in Sending \cup {"poll"} /\ pc'["server"] = pc["server"]
      /\ status'["server"] = status["server"] /\ data'["server"] = data["server"]
      /\ reg'["server"] = reg["server"]
  BY Goes DEF Send, Write1, Write2, NewLoad, NewStore, AckSeen, AckLoad, AckStore, Sending, Writing, Acking,
     CPU, RpcParts, TypeOK, LoadStatus, SetBit, ClearBit
<1>2. Fresh' <=> Fresh
  <2>1. CASE pc["client"] \in Writing
    <3>1. pc'["client"] \in Writing \cup {"wait"} /\ (pc'["client"] = "wait" => NewStore("client"))
      BY <2>1, Goes DEF Send, Write1, Write2, NewLoad, NewStore, AckSeen, AckLoad, AckStore, CPU, Writing, RpcParts
    <3>2. NewStore("client") => "NEW" \in status'["client"]
      BY DEF NewStore, SetBit, CPU, RpcParts, TypeOK
    <3>3. pc'["client"] = "wait" => Announced("client")'
      BY <3>1, <3>2 DEF Region, Own, Taken, Acked, Acking
    <3>4. QED
      BY <2>1, <3>1, <3>3 DEF Fresh
  <2>2. CASE pc["client"] \notin Writing
    <3>1. pc["client"] \in Acking /\ pc'["client"] \in {"ack_load", "ack_store", "poll"}
      BY <1>1, <2>2, Goes DEF Send, Write1, Write2, NewLoad, NewStore, AckSeen, AckLoad, AckStore, CPU,
         Writing, Acking, Sending, RpcParts
    <3>2. Acked("client")
      BY <3>1, Goes, Ends DEF RpcParts, CmdParts, Region, Own, Announced, Taken, Acking,
         Send, Write1, Write2, NewLoad, NewStore, AckSeen, AckLoad, AckStore
    <3>3. QED
      BY <3>1, <3>2 DEF Fresh, Acked, Announced, Taken, Acking, Writing
  <2>3. QED
    BY <2>1, <2>2
<1>3. Replying' <=> Replying
  BY <1>1, Ends DEF Replying, Announced, Taken, Sending, Writing, Acking
<1>4. pc["client"] # "idle" /\ pc'["client"] # "idle"
  BY <1>1 DEF Sending, Writing, Acking
<1>5. QED
  BY <1>1, <1>2, <1>3, <1>4 DEF RpcParts, CallInv, Executed, Due

\* The client receives the reply to its call, which has been executed.
LEMMA RpcReceive ==
  ASSUME RpcParts, Region("server")', Recv("client")
  PROVE  /\ CallInv' /\ Executed /\ pc["client"] # "idle"
         /\ pc'["client"] = "idle" <=> SetStore("client")
         /\ SetStore("client") => msg["client"] = Whole(req)
<1>1. /\ UNCHANGED <<req, served>> /\ msg'["server"] = msg["server"] /\ pc'["server"] = pc["server"]
      /\ pc["client"] \in Reading \cup {"poll"} /\ pc'["client"] \in Reading \cup {"idle"}
      /\ pc["client"] \in Reading \/ "NEW" \in status["server"]
      /\ pc'["client"] = "idle" <=> SetStore("client")
  BY Goes, Ends DEF Recv, NewSeen, Read1, Read2, ClearLoad, ClearStore, SetLoad, SetStore, Reading, RpcParts, TypeOK
<1>2. (Announced("server") \/ Taken("server")) /\ pc["server"] = "wait"
  BY <1>1, Ends DEF RpcParts, Region, Own, Announced, Taken, Acked
<1>3. Executed /\ msg["server"] = Whole(req) /\ ~Due
  BY <1>2, NotBoth DEF RpcParts, CallInv, Replying
<1>4. SetStore("client") => ~Replying' /\ msg["client"] = Whole(req)
  <2> SUFFICES ASSUME SetStore("client")
               PROVE  ~Replying' /\ msg["client"] = Whole(req)
    OBVIOUS
  <2>1. pc["client"] = "set_store" /\ "ACK" \in status'["server"]
    BY Goes, Ends DEF SetStore, SetBit, RpcParts, TypeOK
  <2>2. Taken("server")
    BY <1>2, <2>1, Ends DEF Announced
  <2>3. QED
    BY <1>1, <1>2, <1>3, <2>1, <2>2, Ends DEF Taken, Announced, Replying, Writing
<1>5. ~Fresh' /\ ~Due' /\ Executed' /\ pc["client"] # "idle"
  BY <1>1, <1>3 DEF Fresh, Due, Executed, Announced, Taken, Reading, Writing
<1>6. CallInv'
  BY <1>1, <1>2, <1>3, <1>4, <1>5 DEF CallInv, Reading
<1>7. QED
  BY <1>1, <1>3, <1>4, <1>5, <1>6

\* The server receives the call that is due.
LEMMA RpcTaken ==
  ASSUME RpcParts, Region("client")', Recv("server")
  PROVE  CallInv'
<1>1. /\ UNCHANGED <<req, served, data>> /\ pc'["client"] = pc["client"] /\ msg'["client"] = msg["client"]
      /\ status'["server"] = status["server"]
      /\ pc["server"] \in Reading \cup {"idle"} /\ pc'["server"] \in Reading \cup {"handle"}
      /\ pc["server"] \in Reading \/ "NEW" \in status["client"]
      /\ pc'["server"] = "handle" <=> SetStore("server")
  BY Goes, Ends DEF Recv, NewSeen, Read1, Read2, ClearLoad, ClearStore, SetLoad, SetStore, Reading, RpcParts,
     TypeOK, SetBit, ClearBit
<1>2. /\ Announced("client") \/ Taken("client")
      /\ pc["client"] = "wait" /\ msg["client"] = Whole(req)
  <2>1. Announced("client") \/ Taken("client")
    BY <1>1, Ends DEF RpcParts, CmdParts, Region, Own, Acked
  <2>2. QED
    BY <2>1 DEF Announced, Taken, RpcParts, CmdParts, OrderInv, Sending, Acking
<1>3. Fresh /\ Due /\ ~Executed /\ ~Replying
  BY <1>2, NotBoth DEF Fresh, RpcParts, CallInv
<1>4. ~Replying' /\ Due' /\ ~Executed'
  BY <1>1, <1>3 DEF Replying, Announced, Taken, Due, Executed, Reading, Writing
<1>5. CASE SetStore("server")
  <2>1. /\ msg'["server"] = Whole(req) /\ pc'["server"] = "handle"
    <3>1. pc["server"] = "set_store" /\ pc'["server"] = "handle" /\ UNCHANGED msg
      BY <1>5, Goes, Ends DEF SetStore, RpcParts
    <3>2. Taken("client")
      BY <1>2, <3>1, Ends DEF Announced
    <3>3. QED
      BY <1>2, <3>1, <3>2, Ends DEF Taken
  <2>2. QED
    BY <1>1, <1>2, <1>4, <2>1 DEF CallInv
<1>6. CASE ~SetStore("server")
  <2>1. pc'["server"] \in Reading
    BY <1>1, <1>6
  <2>2. Fresh'
    BY <2>1, Ends DEF Fresh, Region, Own, Acked
  <2>3. QED
    BY <1>1, <1>2, <1>4, <2>1, <2>2 DEF CallInv, Reading
<1>7. QED
  BY <1>5, <1>6

\* The server sends the reply to the call it has executed.
LEMMA RpcReply ==
  ASSUME RpcParts, Send("server"), ~SendGiveUp("server")
  PROVE  CallInv'
<1>1. /\ UNCHANGED <<req, served, msg>> /\ pc'["client"] = pc["client"]
      /\ status'["client"] = status["client"] /\ data'["client"] = data["client"] /\ reg'["client"] = reg["client"]
      /\ pc["server"] \in Sending /\ pc'["server"] \in Sending \cup {"idle"}
  BY Goes, Ends DEF Send, Write1, Write2, NewLoad, NewStore, AckSeen, AckLoad, AckStore,
     Sending, Writing, Acking, RpcParts, TypeOK, LoadStatus, SetBit, ClearBit
<1>2. Fresh' <=> Fresh
  BY <1>1, Ends DEF Fresh, Announced, Taken, Sending, Writing, Acking
<1>3. Replying' => Replying
  <2>1. CASE pc["server"] \in Writing
    BY <2>1 DEF Replying
  <2>2. CASE pc["server"] \notin Writing
    <3>1. pc["server"] \in Acking /\ pc'["server"] \in {"ack_load", "ack_store", "idle"}
      BY <1>1, <2>2, Goes, Ends DEF Send, Write1, Write2, NewLoad, NewStore, AckSeen, AckLoad, AckStore,
         Writing, Acking, Sending, RpcParts
    <3>2. QED
      BY <3>1 DEF Replying, Announced, Taken, Writing
  <2>3. QED
    BY <2>1, <2>2
<1>4. pc["server"] # "handle" /\ pc'["server"] # "handle"
  BY <1>1 DEF Sending, Writing, Acking
<1>5. QED
  BY <1>1, <1>2, <1>3, <1>4 DEF RpcParts, CallInv, Executed, Due

\* The server executes the call that is due.
LEMMA RpcHandle ==
  ASSUME RpcParts, Handle
  PROVE  CallInv' /\ Due /\ Executed'
<1>1. /\ UNCHANGED <<req, msg, status, data, reg>> /\ pc'["client"] = pc["client"]
      /\ pc["server"] = "handle" /\ pc'["server"] \in {"idle", "write1"}
      /\ served' = Append(served, msg["server"]) /\ served \in Seq(Msg) /\ msg["server"] \in Msg
  BY Goes, Ends DEF Handle, RpcParts, TypeOK
<1>2. Len(served') = Len(served) + 1
  BY <1>1
<1>3. Due /\ msg["server"] = Whole(req) /\ req \in -1 .. MaxReq
  BY <1>1, LinkAssumption DEF RpcParts, CallInv, TypeOK
<1>4. Executed' /\ ~Due'
  BY <1>1, <1>2, <1>3, LinkAssumption DEF Due, Executed, RpcParts, TypeOK
<1>5. ~Fresh
  <2>1. Whole(req)[1] = req
    BY <1>3, Wholes
  <2>2. QED
    BY <1>1, <1>3, <2>1 DEF RpcParts, CmdParts, OrderInv
<1>6. ~Fresh'
  BY <1>1, <1>5, Ends DEF Fresh, Announced, Taken
<1>7. pc'["client"] # "idle"
  BY <1>1, <1>3 DEF Due
<1>8. QED
  BY <1>1, <1>3, <1>4, <1>6, <1>7 DEF CallInv

\* One call at a time, until a wait gives up.
LEMMA RpcInvariant == Spec => []RpcInv
<1>1. Init => RpcInv
  BY DEF Init, RpcInv, CallInv, Executed, Due, Fresh, Replying, Region, Own, Announced, Taken, CPU, Peer,
     Writing, Acking, Reading
<1>2. /\ TypeOK /\ CmdInv /\ RpcInv /\ [Next]_vars
      /\ TypeOK' /\ CmdInv'
      => RpcInv'
  <2> SUFFICES ASSUME TypeOK, CmdInv, RpcInv, [Next]_vars, TypeOK', CmdInv', gaveUp' = {}
               PROVE  Region("server")' /\ CallInv'
    BY DEF RpcInv
  <2>1. gaveUp = {} /\ ~SendGiveUp("client") /\ ~SendGiveUp("server") /\ ~PollGiveUp
    BY GaveUpGrows
  <2>2. RpcParts /\ Region("client")'
    BY <2>1 DEF RpcParts, CmdParts, CmdInv, RpcInv
  <2>3. Region("server")'
    BY <2>1, <2>2, RegionStep, Ends DEF RpcParts
  <2>4. CASE UNCHANGED vars
    <3>1. (Fresh' <=> Fresh) /\ (Replying' <=> Replying) /\ (Executed' <=> Executed) /\ (Due' <=> Due)
      BY <2>4 DEF vars, Executed, Due, Fresh, Replying, Announced, Taken
    <3>2. UNCHANGED <<pc, msg, req>>
      BY <2>4 DEF vars
    <3>3. QED
      BY <2>2, <2>3, <3>1, <3>2 DEF RpcParts, CallInv
  <2>5. CASE Next
    BY <2>1, <2>2, <2>3, <2>5, RpcRequest, RpcSend, RpcReceive, RpcTaken, RpcReply, RpcHandle
    DEF Next, ClientRuns, ServerRuns
  <2>6. QED
    BY <2>3, <2>4, <2>5
<1>3. QED
  BY <1>1, <1>2, LinkInvariant, PTL DEF Spec

\* What a step does to the call: nothing, or one of its steps.
LEMMA RpcStep ==
  ASSUME RpcParts, RpcParts', gaveUp = {}, gaveUp' = {}, [Next]_vars
  PROVE  [Rpc!Next]_(Rpc!vars)
<1>1. /\ ~SendGiveUp("client") /\ ~SendGiveUp("server") /\ ~PollGiveUp
      /\ Len(served) \in Nat /\ req \in Nat /\ req \in -1 .. MaxReq
  BY GaveUpGrows, LinkAssumption DEF RpcParts, TypeOK
<1>2. CASE Request
  <2>1. pc["client"] = "idle" /\ pc'["client"] # "idle" /\ req' = req + 1 /\ result' = NoReply /\ UNCHANGED served
    BY <1>2, Goes, Ends DEF Request, RpcParts
  <2>2. result' = Whole(result'[1]) /\ result'[1] = 0
    BY <2>1 DEF NoReply, Whole
  <2>3. Rpc!Call
    BY <2>1, <2>2 DEF Rpc!Call, InRequest
  <2>4. QED
    BY <2>3 DEF Rpc!Next
<1>3. CASE Handle
  <2>1. Due /\ Executed' /\ UNCHANGED <<req, result>> /\ pc'["client"] = pc["client"]
    BY <1>3, RpcHandle, Goes, Ends DEF Handle, RpcParts
  <2>2. Rpc!Execute
    BY <1>1, <2>1 DEF Rpc!Execute, Due, Executed, InRequest
  <2>3. QED
    BY <2>2 DEF Rpc!Next
<1>4. CASE SetStore("client")
  <2>1. /\ Executed /\ pc["client"] # "idle" /\ pc'["client"] = "idle" /\ msg["client"] = Whole(req)
        /\ UNCHANGED <<req, served>> /\ result' = msg["client"]
    BY <1>4, RpcReceive DEF SetStore, RpcParts, Recv
  <2>2. result' = Whole(result'[1]) /\ result'[1] = req
    BY <1>1, <2>1, Wholes
  <2>3. Rpc!Return
    BY <2>1, <2>2 DEF Rpc!Return, Executed, InRequest
  <2>4. QED
    BY <2>3 DEF Rpc!Next
<1>5. CASE Send("client")
  <2>1. UNCHANGED <<req, served, result>> /\ pc["client"] # "idle" /\ pc'["client"] # "idle"
    BY <1>1, <1>5, RpcSend, Goes, Ends DEF RpcParts, CmdParts, Send, Write1, Write2, NewLoad, NewStore,
       AckSeen, AckLoad, AckStore
  <2>2. QED
    BY <2>1 DEF Rpc!vars, InRequest
<1>6. CASE Recv("client") /\ ~SetStore("client")
  <2>1. UNCHANGED <<req, served, result>> /\ pc["client"] # "idle" /\ pc'["client"] # "idle"
    BY <1>6, RpcReceive DEF RpcParts, Recv, NewSeen, Read1, Read2, ClearLoad, ClearStore, SetLoad
  <2>2. QED
    BY <2>1 DEF Rpc!vars, InRequest
<1>7. CASE Send("server") \/ Recv("server")
  <2>1. UNCHANGED <<req, served, result>> /\ pc'["client"] = pc["client"]
    BY <1>7, Goes, Ends DEF RpcParts, Send, Write1, Write2, NewLoad, NewStore, AckSeen, AckLoad, AckStore,
       SendGiveUp, Recv, NewSeen, Read1, Read2, ClearLoad, ClearStore, SetLoad, SetStore
  <2>2. QED
    BY <2>1 DEF Rpc!vars, InRequest
<1>8. CASE UNCHANGED vars
  BY <1>8 DEF vars, Rpc!vars, InRequest
<1>9. QED
  BY <1>1, <1>2, <1>3, <1>4, <1>5, <1>6, <1>7, <1>8 DEF Next, ClientRuns, ServerRuns

\* A shared-memory link is the remote procedure call that lib/link.h promises until one of its
\* waits gives up: each call is executed once, while the caller waits, and returns its own reply.
THEOREM ShmemIsRpc == Spec => RpcRefinement
<1>1. Init => Rpc!Init
  BY DEF Init, Rpc!Init, CPU, InRequest, NoReply, Whole
<1>2. /\ TypeOK /\ CmdInv /\ RpcInv /\ [Next]_vars
      /\ TypeOK' /\ CmdInv' /\ RpcInv'
      => [Rpc!Next]_(Rpc!vars)
  <2> SUFFICES ASSUME TypeOK, CmdInv, RpcInv, [Next]_vars, TypeOK', CmdInv', RpcInv'
               PROVE  [Rpc!Next]_(Rpc!vars)
    OBVIOUS
  <2>1. CASE gaveUp' # {}
    BY <2>1 DEF Rpc!Next, Rpc!GiveUp
  <2>2. CASE gaveUp' = {}
    <3>1. gaveUp = {}
      BY <2>2, GaveUpGrows
    <3>2. RpcParts /\ RpcParts'
      BY <2>2, <3>1 DEF RpcParts, CmdInv, RpcInv
    <3>3. QED
      BY <2>2, <3>1, <3>2, RpcStep
  <2>3. QED
    BY <2>1, <2>2
<1>3. QED
  BY <1>1, <1>2, LinkInvariant, RpcInvariant, PTL DEF Spec, RpcRefinement, Rpc!Spec

=============================================================================

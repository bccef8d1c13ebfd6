-------------------------------- MODULE Dma --------------------------------
(***************************************************************************)
(* Transfers with the DMA controller (drivers/dma.c): dma_transfer writes  *)
(* a program of two nested loops for a channel and has the manager start   *)
(* it; the controller executes it, raises an event, or faults; the two     *)
(* interrupt handlers detach the request, and dma_wait or the callback     *)
(* ends it. The data is a number of bursts.                                *)
(***************************************************************************)
EXTENDS DmaRequests, Sequences

CONSTANTS
  Sizes,    \* sizes of transfers, in bursts
  MaxIter,  \* iterations of a DMALP (256)
  MaxJump,  \* largest backward jump of a DMALPEND (255)
  McBufSz,  \* bytes of microcode a request has room for (MCBUFSZ / 2)
  Barriers, \* whether the controller is a revision that needs DMARMB and DMAWMB
  MaxTxes,  \* size of txes[]
  Clients,  \* kinds of clients: [cb, faults]
  EndLags   \* whether DMAEND may take longer than the interrupt of DMASEV

ASSUME DmaAssumption ==
  /\ Chans \subseteq Nat /\ Sizes \subseteq Nat /\ MaxTxes \in Nat \ {0}
  /\ MaxIter \in Nat \ {0, 1} /\ McBufSz \in Nat
  /\ MaxJump \in Nat /\ MaxJump >= 12 \* the longest loop around one burst
  /\ Clients \subseteq [cb : BOOLEAN, faults : BOOLEAN]
  /\ Barriers \in BOOLEAN /\ EndLags \in BOOLEAN

VARIABLES
  client,   \* the kind of client
  code,     \* channel -> the size the program in its buffer is for
  inten, intmis, \* registers: events that interrupt; interrupts that are up
  cur, reg  \* the channel of the main loop, and the value of INTEN it loaded

swVars == <<desc, running, txes, code>>
vars   == <<client, swVars, hw, inten, intmis, at, cur, reg>>

-----------------------------------------------------------------------------
(* The program of a transfer, byte by byte: an instruction is a cell with    *)
(* its operation, followed by its operands.                                  *)

Emit(op, size, loop, arg) ==
  << [op |-> op, loop |-> loop, arg |-> arg] >> \o [i \in 1 .. (size - 1) |-> Nil]

MOV             == Emit("MOV", 6, 0, 0)

LP(loop, cnt)   == Emit("LP", 2, loop, (cnt - 1) % MaxIter)
LPEND(loop, to) == Emit("LPEND", 2, loop, to % (MaxJump + 1))

\* _ldst_memtomem for one burst
Burst == IF Barriers
         THEN Emit("LD", 1, 0, 0) \o Emit("RMB", 1, 0, 0) \o Emit("ST", 1, 0, 0) \o Emit("WMB", 1, 0, 0)
         ELSE Emit("LD", 1, 0, 0) \o Emit("ST", 1, 0, 0)

BurstsOf == [n \in 0 .. (MaxJump + 1) |->
              [i \in 1 .. (n * Len(Burst)) |-> Burst[((i - 1) % Len(Burst)) + 1]]]

Least(a, b) == IF a < b THEN a ELSE b

\* Mutant: the jump over the loops themselves is forgotten.
CycMaxBare(lcnt0) == MaxJump \div Len(Burst)

\* Bursts that can be unrolled in a loop, given the largest jump.
CycMax(lcnt0) == (MaxJump - (IF lcnt0 > 0 THEN 8 ELSE 4)) \div Len(Burst)

\* The iterations of the outer and the inner loop, and the bursts in the inner one.
LoopCounts(n) ==
  CASE n >= MaxIter * MaxIter -> [outer |-> MaxIter, inner |-> MaxIter, cyc |-> n \div (MaxIter * MaxIter)]
    [] n > MaxIter /\ n < MaxIter * MaxIter -> [outer |-> n \div MaxIter, inner |-> MaxIter, cyc |-> 1]
    [] OTHER -> [outer |-> 0, inner |-> n, cyc |-> 1]

\* _loop: as many of n bursts as two loops can do. Returns the code and the number.
Loop(n) ==
  LET c    == LoopCounts(n)
      cyc  == Least(CycMax(c.outer), c.cyc)
      body == LP(1, c.inner) \o BurstsOf[cyc]
      in   == body \o LPEND(1, Len(body) - 2)
      out  == LP(0, c.outer) \o in
  IN  CASE n = 1 -> [code |-> Burst, done |-> 1]
        [] n > 1 /\ c.outer = 0 -> [code |-> in, done |-> c.inner * cyc]
        [] OTHER -> [code |-> out \o LPEND(0, Len(out) - 2), done |-> c.inner * cyc * c.outer]

\* _setup_req: loops until no bursts are left.
SetupReq(n) ==
  LET Loops[b \in 0 .. n] == IF b = 0 THEN <<>> ELSE Loop(b).code \o Loops[b - Loop(b).done]
  IN  MOV \o MOV \o MOV \o Loops[n] \o Emit("SEV", 2, 0, 0) \o Emit("END", 1, 0, 0)

Program == [n \in Sizes |-> SetupReq(n)]

-----------------------------------------------------------------------------
Stopped == [st |-> "stopped", buf |-> 0, ip |-> 1, lc |-> <<0, 0>>, copied |-> 0]

Init ==
  /\ client \in Clients
  /\ desc = [c \in Chans |-> Nil] /\ running = [c \in Chans |-> FALSE] /\ txes = 0
  /\ code = [c \in Chans |-> Nil] /\ hw = [c \in Chans |-> Stopped]
  /\ inten = {} /\ intmis = {} /\ at = "ready" /\ cur = 0 /\ reg = {}

\* An interrupt is taken before the main loop goes on.
At(step) == at = step /\ intmis = {} /\ Faulted = {}

-----------------------------------------------------------------------------
(* dma_transfer and dma_wait                                                *)

\* A transfer without a callback is waited for, even if it was refused (lib/sfs.c:51).
Returned(ok) == IF client.cb THEN "ready" ELSE IF ok THEN "wait" ELSE "lost"

Transfer(c, n) ==
  /\ At("ready")
  /\ cur' = c
  /\ IF desc[c] # Nil \/ txes = MaxTxes \/ Len(Program[n]) > McBufSz
     THEN at' = Returned(FALSE) /\ UNCHANGED swVars
     ELSE /\ desc' = [desc EXCEPT ![c] = [status |-> "BUSY", n |-> n, rc |-> -1, cb |-> client.cb]]
          /\ running' = [running EXCEPT ![c] = TRUE]
          /\ txes' = txes + 1
          /\ code' = [code EXCEPT ![c] = n]
          /\ at' = "inten"
  /\ UNCHANGED <<client, hw, inten, intmis, reg>>

IntenLoad ==
  /\ At("inten") /\ at' = "go"
  /\ reg' = inten
  /\ UNCHANGED <<client, swVars, hw, inten, intmis, cur>>

\* Mutant: the interrupt of the event is not enabled.
GoMasked ==
  /\ At("go") /\ at' = Returned(TRUE)
  /\ inten' = reg
  /\ hw' = IF hw[0].st # "stopped" THEN hw
           ELSE [hw EXCEPT ![0] = [Stopped EXCEPT !.st = "run", !.buf = cur]]
  /\ UNCHANGED <<client, swVars, intmis, cur, reg>>

\* DMAGO starts channel 0 (go.chan = 0), whichever channel the request is for; a
\* channel that has not stopped ignores it.
Go ==
  /\ At("go") /\ at' = Returned(TRUE)
  /\ inten' = reg \cup {cur}
  /\ hw' = IF hw[0].st # "stopped" THEN hw
           ELSE [hw EXCEPT ![0] = [Stopped EXCEPT !.st = "run", !.buf = cur]]
  /\ UNCHANGED <<client, swVars, intmis, cur, reg>>

\* dma_wait: the status, and WFI, which an interrupt in between does not end.
WaitCheck ==
  /\ At("wait")
  /\ IF desc[cur].status = "DONE"
     THEN /\ desc' = [desc EXCEPT ![cur] = Nil] /\ txes' = txes - 1
          /\ at' = "ready"
     ELSE at' = "drowsy" /\ UNCHANGED <<desc, txes>>
  /\ UNCHANGED <<client, running, code, hw, inten, intmis, cur, reg>>

Wfi ==
  /\ At("drowsy") /\ at' = "asleep"
  /\ UNCHANGED <<client, swVars, hw, inten, intmis, cur, reg>>

\* A timer ends WFI too: "it's not a problem as long as we have the watchdog timer".
Tick ==
  /\ At("asleep") /\ at' = "wait"
  /\ UNCHANGED <<client, swVars, hw, inten, intmis, cur, reg>>

-----------------------------------------------------------------------------
(* The interrupt handlers                                                   *)

Woken == IF at = "asleep" THEN "wait" ELSE at

\* The request is done; with a callback, which is made now, it is gone.
Detach(c, rc) ==
  /\ desc' = [desc EXCEPT ![c] = IF @.cb THEN Nil ELSE [@ EXCEPT !.status = "DONE", !.rc = rc]]
  /\ running' = [running EXCEPT ![c] = FALSE]

\* Mutant: the object of a request with a callback is not freed.
FreeTxNot(c) == UNCHANGED txes

FreeTx(c) == txes' = IF desc[c].cb THEN txes - 1 ELSE txes

\* events[], which is never written, says which channel an event belongs to.
ChanOf(ev) == 0

\* dma_event_isr. The event is only cleared while it is enabled.
EventIsr(ev) ==
  /\ at \notin {"hang", "lost"} /\ ev \in intmis
  /\ intmis' = intmis \ (inten \cap {ev})
  /\ inten' = inten \ {ev}
  /\ IF running[ChanOf(ev)] THEN Detach(ChanOf(ev), 0) /\ FreeTx(ChanOf(ev))
     ELSE UNCHANGED <<desc, running, txes>>
  /\ at' = Woken
  /\ UNCHANGED <<client, code, hw, cur, reg>>

\* dma_abort_isr: a channel that is not running is looked at for ever. The object of
\* a request with a callback is not freed.
AbortIsr ==
  /\ at \notin {"hang", "lost"} /\ Faulted # {}
  /\ \E c \in Faulted :
       IF running[c]
       THEN /\ Detach(c, 2)
            /\ inten' = inten \ {c} /\ hw' = [hw EXCEPT ![c].st = "stopped"]
            /\ at' = Woken
       ELSE at' = "hang" /\ UNCHANGED <<desc, running, inten, hw>>
  /\ UNCHANGED <<client, txes, code, intmis, cur, reg>>

-----------------------------------------------------------------------------
(* The controller: one instruction of a channel                             *)

Cell(c) == Program[code[hw[c].buf]][hw[c].ip]

To(c, ip) == [hw EXCEPT ![c].ip = ip]

Execute(c) ==
  LET i == Cell(c)  ip == hw[c].ip  lc == hw[c].lc  IN
  \/ i.op = "MOV" /\ hw' = To(c, ip + 6) /\ UNCHANGED intmis
  \/ i.op \in {"LD", "RMB", "WMB"} /\ hw' = To(c, ip + 1) /\ UNCHANGED intmis
  \/ /\ i.op = "ST" /\ UNCHANGED intmis
     /\ hw' = [To(c, ip + 1) EXCEPT ![c].copied = @ + 1]
  \/ /\ i.op = "LP" /\ UNCHANGED intmis
     /\ hw' = [To(c, ip + 2) EXCEPT ![c].lc[i.loop + 1] = i.arg]
  \/ /\ i.op = "LPEND" /\ UNCHANGED intmis
     /\ hw' = IF lc[i.loop + 1] = 0 THEN To(c, ip + 2)
              ELSE [To(c, ip - i.arg) EXCEPT ![c].lc[i.loop + 1] = @ - 1]
  \/ /\ i.op = "SEV"
     /\ intmis' = intmis \cup (inten \cap {hw[c].buf})
     /\ hw' = IF EndLags THEN To(c, ip + 2) ELSE [hw EXCEPT ![c].st = "stopped"]
  \/ i.op = "END" /\ hw' = [hw EXCEPT ![c].st = "stopped"] /\ UNCHANGED intmis

HwStep(c) ==
  /\ hw[c].st = "run" /\ Execute(c)
  /\ UNCHANGED <<client, swVars, inten, at, cur, reg>>

Fault(c) ==
  /\ client.faults /\ hw[c].st = "run"
  /\ hw' = [hw EXCEPT ![c].st = "fault"]
  /\ UNCHANGED <<client, swVars, inten, intmis, at, cur, reg>>

-----------------------------------------------------------------------------
Main == IntenLoad \/ Go \/ WaitCheck \/ Wfi
Isr  == AbortIsr \/ \E ev \in Chans : EventIsr(ev)
Next ==
  \/ Main \/ Tick \/ Isr
  \/ \E c \in Chans : HwStep(c) \/ Fault(c) \/ \E n \in Sizes : Transfer(c, n)

Spec == Init /\ [][Next]_vars

\* The processor and the controller run, and the timer ticks.
FairSpec == Spec /\ WF_vars(Main) /\ WF_vars(Isr) /\ WF_vars(Tick)
                 /\ \A c \in Chans : WF_vars(HwStep(c))

-----------------------------------------------------------------------------
(* Properties *)

Request == [status : {"BUSY", "DONE"}, n : Sizes, rc : {-1, 0, 2}, cb : BOOLEAN]

TypeOK ==
  /\ client \in Clients /\ txes \in 0 .. MaxTxes
  /\ desc \in [Chans -> Request \cup {Nil}] /\ running \in [Chans -> BOOLEAN]
  /\ code \in [Chans -> Sizes \cup {Nil}]
  /\ \A c \in Chans :
       /\ hw[c].st \in {"stopped", "run", "fault"} /\ hw[c].buf \in Chans \cup {0}
       /\ hw[c].ip \in Nat /\ hw[c].copied \in Nat /\ hw[c].lc \in [1 .. 2 -> 0 .. (MaxIter - 1)]
  /\ inten \subseteq Chans /\ intmis \subseteq Chans /\ reg \subseteq Chans
  /\ at \in {"ready", "inten", "go", "wait", "drowsy", "asleep", "hang", "lost"}
  /\ cur \in Chans \cup {0}

\* Every transfer ends: reaped by dma_wait, although an interrupt may come between its
\* check and WFI, or by the callback.
TransfersEnd == \A c \in Chans : desc[c] # Nil ~> desc[c] = Nil

\* An interrupt handler never waits for what does not come.
NoHang == at # "hang"

=============================================================================

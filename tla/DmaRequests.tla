---------------------------- MODULE DmaRequests ----------------------------
(***************************************************************************)
(* The requests of the DMA driver (drivers/dma.c): the objects of txes[]   *)
(* that they take, and what is reported of them.                           *)
(***************************************************************************)
EXTENDS Integers, FiniteSets

CONSTANTS
  Chans,   \* channels that clients use
  Nil      \* no request

VARIABLES
  desc,    \* channel -> the request: its status, size, result, whether it has a callback
  running, \* channel -> req_running # -1
  txes,    \* objects allocated from txes[]
  hw,      \* channel -> state of its thread in the controller
  at       \* where the main loop is

Faulted == {c \in Chans : hw[c].st = "fault"}

\* Every allocated object belongs to a request and every request has one, so that
\* transfers made one after the other are never refused.
TxesExact == at # "lost" /\ txes = Cardinality({c \in Chans : desc[c] # Nil})

\* A request is reported as done without error only when every burst of it has been
\* copied, no more and no less, however the loops had to be split and whatever faults
\* came before; one that faulted is reported as failed.
CopiedExact ==
  [][\A c \in Chans : running[c] /\ ~running'[c] =>
       IF c \in Faulted THEN desc[c].cb \/ desc'[c].rc = 2
       ELSE hw[c].copied = desc[c].n /\ (desc[c].cb \/ desc'[c].rc = 0)]_running

=============================================================================

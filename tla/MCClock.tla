------------------------------ MODULE MCClock ------------------------------
(***************************************************************************)
(* Instances of Clock.                                                     *)
(***************************************************************************)
EXTENDS Clock, TLC

CONSTANTS p, o

\* A periodic timer of one tick, and a one-shot timer of several.
TwoIntervals == p :> 2 @@ o :> 3

=============================================================================

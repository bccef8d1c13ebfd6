---------------------------- MODULE MCMailboxes ----------------------------
(***************************************************************************)
(* Instances of Mailboxes: the devices and mailboxes of the chip.          *)
(***************************************************************************)
EXTENDS Mailboxes

CONSTANTS lsio, hpps, s1, s2, s3, s4, d1, d2

Between(from, to) == [e \in Events |-> IF e = "rcv" THEN from ELSE to]

OneDev  == [i \in Instances |-> lsio]
TwoDevs == [i \in Instances |-> IF i \in {s3, s4} THEN hpps ELSE lsio]

OneServer  == <<Between(s1, s2)>>
TwoServers == <<Between(s1, s2), Between(s3, s4)>>

\* Every dynamic link is on the same two mailboxes.
SameMailboxes == {Between(d1, d2)}

NoLinks == {}

=============================================================================

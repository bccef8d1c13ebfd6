------------------------------- MODULE MCBoot -------------------------------
(***************************************************************************)
(* Instances of Boot. Images of three cells, staged so that they overlap   *)
(* their final place in every way; every pattern of corruption of the two  *)
(* copies in each NOR memory.                                              *)
(***************************************************************************)
EXTENDS Boot

Select6(spi, rank, mram, failover, parity) ==
  [spi |-> spi, rank |-> rank, mram |-> mram, offset |-> 0, failover |-> failover, parity |-> parity]

NorSelects  == {Select6(0, r, 0, f, p) : r \in 0 .. 1, f \in 0 .. 1, p \in 0 .. 1}
MramSelects == {Select6(0, 0, 1, 0, 0)}
OneSelect   == {Select6(0, 0, 0, 0, 1)}

\* Image c of rank r; a corrupt one differs in a cell from what its checksum is of.
Image(r, c) == [k \in 1 .. 3 |-> << r, c, k >>]
Data(r, bad) == [a \in 0 .. 5 |-> IF (a \div 3) + 1 \in bad /\ (a % 3) = 2 THEN Empty ELSE Image(r, (a \div 3) + 1)[(a % 3) + 1]]
BlobAt(r, c, e) == [load |-> 0, entry |-> e, size |-> 3, offset |-> 3 * (c - 1), sum |-> Image(r, c)]
Rank(r, bad, e) == [blobs |-> << BlobAt(r, 1, e), BlobAt(r, 2, e) >>, data |-> Data(r, bad)]

Bad == SUBSET {1, 2}
FlashOf(b0, b1, e) == [r \in 0 .. 3 |-> Rank(r, IF r = 0 THEN b0 ELSE IF r = 1 THEN b1 ELSE {}, e)]
AllFlashes == {FlashOf(b0, b1, e) : b0 \in Bad, b1 \in Bad, e \in 0 .. 3}
OneFlash   == {FlashOf({}, {}, 1)}

File(name, valid, at, size, load) == [name |-> name, valid |-> valid, at |-> at, size |-> size, load |-> load]

\* Images next to each other, one of exactly a burst, and a deleted version of another.
Aligned4 == << File("b", FALSE, 0, 4, 8), File("a", TRUE, 8, 4, 0), File("b", TRUE, 16, 5, 4), File("c", TRUE, 4, 2, 12) >>
Packed   == << File("a", TRUE, 0, 3, 0), File("b", TRUE, 3, 2, 3), File("c", TRUE, 5, 3, 5) >>

Card(files, l1, l2, load, sfs, dma) ==
  [files |-> files, lists |-> << l1, l2 >>, load |-> load, sfs |-> sfs, dma |-> dma]

Sound == {Card(Aligned4, <<"a", "c">>, <<"b">>, TRUE, TRUE, d) : d \in BOOLEAN}
         \cup {Card(Packed, <<"b">>, <<"a", "c">>, TRUE, TRUE, FALSE), Card(Packed, <<"a">>, <<"b">>, TRUE, FALSE, FALSE),
               Card(Packed, <<"a">>, <<"x">>, TRUE, TRUE, FALSE), Card(Packed, <<"a", "b", "c", "a">>, <<>>, TRUE, TRUE, FALSE)}
FullList  == {Card(Packed, <<"a", "b", "c">>, <<"b">>, TRUE, TRUE, FALSE)}

=============================================================================

------------------------------- MODULE MCMmu -------------------------------
(***************************************************************************)
(* Instances of Mmu: 32 pages below a root that is smaller than the other  *)
(* tables, as with each granule of the driver. A block holds 16 pages on   *)
(* level 1, 4 on level 2.                                                  *)
(***************************************************************************)
EXTENDS Mmu

To(page, frame, pages) == [va |-> page, pa |-> frame, sz |-> pages]
Same(page, pages)      == To(page, page, pages)

\* Like the regions of trch/mmus.c: two mailboxes on pages of one table, a block of
\* level 2 (HSIO) and one of level 1 (DDR); and the same with an HSIO region that
\* reaches into the mailboxes.
Mailboxes == <<Same(12, 1), Same(13, 1)>>
HpscMap   == Mailboxes \o <<Same(8, 4), Same(16, 16)>>
BadMap    == Mailboxes \o <<Same(7, 6)>>
Maps      == {HpscMap, BadMap}
GoodMap   == {HpscMap}

\* Windows: two pages, two pages and a block, a page in the first of them, a page in
\* that block, a block over the first two, and the mailbox pages.
Windows == {To(0, 40, 2), To(2, 66, 6), To(1, 1, 1), To(0, 64, 4), To(5, 5, 1), Same(12, 2)}

\* The first window, and the block around it.
Nested == {To(0, 40, 2), To(0, 64, 4)}

\* The bounds keep to what the theorems about Mmu suppose, and have entries for all pieces.
ASSUME MapsSupported == Careful => Supported /\ FramesFit /\ Cardinality(Tables) < MaxBlocks

=============================================================================

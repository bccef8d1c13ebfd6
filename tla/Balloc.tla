------------------------------- MODULE Balloc -------------------------------
(***************************************************************************)
(* The block allocator (lib/balloc.c): an array of free blocks, each empty *)
(* or an address and a size, searched from its start. Addresses count in   *)
(* units from the start of the area.                                       *)
(***************************************************************************)
EXTENDS Integers

CONSTANTS
  MaxBlocks, \* entries of free_blocks[]
  None       \* an empty entry (address 0), and the NULL that balloc_alloc returns

ASSUME BallocAssumption ==
  MaxBlocks \in Nat \ {0} /\ None \notin Int /\ None \notin [addr : Nat, size : Nat \ {0}]

Entries == 1 .. MaxBlocks

\* The units of an entry.
Units(e) == IF e = None THEN {} ELSE e.addr .. (e.addr + e.size - 1)

FirstOf(S) == CHOOSE x \in S : \A y \in S : x <= y

Padding(addr, align) == (align - (addr % align)) % align

BallocCreate(size) == [i \in Entries |-> IF i = 1 THEN [addr |-> 0, size |-> size] ELSE None]

EmptyIn(f) == {i \in Entries : f[i] = None}

\* An aligned block that is large enough; else a block that has room after padding.
Fitting(f, sz, align) ==
  {i \in Entries : f[i] # None /\ f[i].size >= sz /\ f[i].addr % align = 0}
Paddable(f, sz, align) ==
  {i \in Entries : f[i] # None /\ f[i].size >= sz + Padding(f[i].addr, align)}

\* Take sz units from the start of entry i.
Cut(f, i, sz) ==
  [addr |-> f[i].addr,
   free |-> [f EXCEPT ![i] = IF @.size = sz THEN None
                             ELSE [addr |-> @.addr + sz, size |-> @.size - sz]]]

\* Mutant: the padding is not kept as a free block.
SplitLosing(f, i, j, padding) ==
  [f EXCEPT ![i] = None,
            ![j] = [addr |-> f[i].addr + padding, size |-> f[i].size - padding]]

\* Leave the padding in entry i, and put the rest of it into entry j.
Split(f, i, j, padding) ==
  [f EXCEPT ![i].size = padding,
            ![j] = [addr |-> f[i].addr + padding, size |-> f[i].size - padding]]

\* The address returned (or None) and the free blocks that are left.
BallocAlloc(f, sz, align) ==
  LET fitting  == Fitting(f, sz, align)
      paddable == Paddable(f, sz, align)
      empty    == EmptyIn(f)
  IN  CASE fitting # {} -> Cut(f, FirstOf(fitting), sz)
        [] fitting = {} /\ paddable # {} /\ empty # {} ->
             LET i == FirstOf(paddable)  j == FirstOf(empty)
             IN  Cut(Split(f, i, j, Padding(f[i].addr, align)), j, sz)
        [] OTHER -> [addr |-> None, free |-> f]

\* The search for a block that starts where this one ends stops at an empty entry;
\* the block goes there. With neither, it cannot be freed (rc is not 0).
BallocFree(f, addr, sz) ==
  LET ends == {i \in Entries : f[i] = None \/ f[i].addr = addr + sz}
      i    == FirstOf(ends)
  IN  IF ends = {} THEN [rc |-> -1, free |-> f]
      ELSE [rc |-> 0,
            free |-> [f EXCEPT ![i] = [addr |-> addr, size |-> IF @ = None THEN sz ELSE @.size + sz]]]

=============================================================================

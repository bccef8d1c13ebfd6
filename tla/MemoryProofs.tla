---------------------------- MODULE MemoryProofs ----------------------------
(***************************************************************************)
(* Theorems about what is in memory: the images (Boot) and the page tables *)
(* (Mmu).                                                                  *)
(* Boot: for any boot select code for a NOR memory and any copies of the   *)
(* image, corrupt or not, BL0 starts the first that is intact, whole,      *)
(* although it is staged where it overlaps its place (the invariant is     *)
(* SearchInv). For any file system and lists of images that keep apart     *)
(* when they are loaded in whole bursts, the images of a subsystem that    *)
(* runs are in memory as they are stored (LoadInv).                        *)
(* Mmu: for any sizes of tables, lists of regions and requests that are    *)
(* Supported, as long as free_blocks[] is not full (EntryLeft), the        *)
(* page-table area is the disjoint union of the free blocks and of the     *)
(* tables of the context, which form a tree (the invariant is Good(T), of  *)
(* the set T of these tables).                                             *)
(***************************************************************************)
EXTENDS
  Boot, Mmu, SequenceTheorems, FiniteSetTheorems, FunctionTheorems, TLAPS

\* A code that selects a rank of the NOR memory. (For MRAM and SPI the code does not
\* initialise mem_chip.)
NorSelected ==
  sel.spi = 0 /\ sel.mram = 0 /\ sel.rank \in 0 .. 1 /\ sel.failover \in 0 .. 1

\* Every copy, staged where its entry point will be, fits into the RAM.
CopiesFit ==
  \A r \in Ranks, c \in 1 .. Copies : LET b == flash[r].blobs[c] IN
    /\ {b.load, b.entry, b.size, b.offset} \subseteq Nat
    /\ b.load + b.entry + b.size <= RamSz

\* BL0 is at copy j of rank i, and those before it were corrupt.
Pos  == 2 * i + j + 1
Here == Candidates[Pos]
DataOf(c) == Cells(flash[c.rank].data, BlobOf(c).offset, BlobOf(c).size)
Searching == {"blob", "image", "check", "move", "start"}

SearchInv ==
  /\ DOMAIN ram = 0 .. (RamSz - 1) /\ ram = [a \in DOMAIN ram |-> ram[a]]
  /\ pc = "select" => i = 0 /\ j = 0
  /\ pc \in Searching =>
       /\ i \in 0 .. 1 /\ j \in 0 .. 1 /\ (i = 1 => sel.failover = 1)
       /\ chip = Here.rank /\ backup = 1 - sel.rank /\ sel.rank \in ready
       /\ sel.failover = 1 => backup \in ready
       /\ \A k \in 1 .. (Pos - 1) : ~Intact(Candidates[k])
  /\ pc \in Searching \ {"blob"} => blob = BlobOf(Here)
  /\ pc \in {"check", "move"} => Cells(ram, Staged, blob.size) = DataOf(Here)
  /\ pc \in {"move", "start"} => Intact(Here)
  /\ pc = "start" => Cells(ram, blob.load, blob.size) = DataOf(Here)
  /\ pc = "dead" => ~ParityOk(sel) \/ \A k \in DOMAIN Candidates : ~Intact(Candidates[k])

\* What is overwritten when an image is loaded: whole bursts, by DMA.
Loads(f) == f.load .. (f.load + (IF card.dma THEN Align(f.size) ELSE f.size) - 1)

\* The images of a subsystem are in its memory, and loading one leaves the others, and those
\* of the other subsystem, alone.
Placed ==
  /\ \A s \in Subs : Len(card.lists[s]) \in Nat /\ DOMAIN card.lists[s] = 1 .. Len(card.lists[s])
  /\ \A s \in Subs : \A f \in Images(s) :
       f.load \in Nat /\ f.at \in Nat /\ f.size \in Nat /\ f.load + f.size <= DramSz
  /\ \A s, t \in Subs : \A f \in Images(s), g \in Images(t) :
       s # t \/ f # g => Loads(f) \cap Region(g) = {}

InPlace(d, f) == \A a \in Region(f) : d[a] = f.at + a - f.load

\* Of the subsystem that is being loaded, the images before the next one are in place.
ImagesInv ==
  card.load /\ card.sfs =>
    /\ \A s \in up : \A f \in Images(s) : InPlace(dram, f)
    /\ pc = "load" => \A k \in DOMAIN card.lists[sub] :
         k < n /\ FilesNamed(card.lists[sub][k]) # {} => InPlace(dram, FileOf(card.lists[sub][k]))
    /\ pc = "boot" => \A f \in Images(sub) : InPlace(dram, f)

\* A subsystem that is being booted does not run.
LoadInv ==
  /\ DOMAIN dram = 0 .. (DramSz - 1)
  /\ requests \subseteq Subs /\ up \subseteq Subs /\ requests \cap up = {}
  /\ pc \in Searching \cup {"select"} => up = {}
  /\ pc \in {"load", "boot"} => sub \in requests /\ n \in Nat \ {0}
  /\ ImagesInv

-----------------------------------------------------------------------------
(* The search for a copy                                                    *)

\* A subset of an interval that is closed under successor is the interval: shifting its
\* part below a number it misses would be an injection into a smaller set.
LEMMA IntervalInduction ==
  ASSUME NEW m \in Nat, NEW S \in SUBSET (0 .. m), 0 \in S, \A k \in S : k < m => k + 1 \in S
  PROVE  S = 0 .. m
<1> SUFFICES ASSUME NEW l \in (0 .. m) \ S PROVE FALSE
  OBVIOUS
<1> DEFINE T == S \cap (0 .. l)
           f == [x \in T |-> x + 1]
<1>1. IsFiniteSet(T)
  <2>1. IsFiniteSet(0 .. l)
    BY FS_Interval
  <2>2. QED
    BY <2>1, FS_Intersection
<1>2. 0 \in T
  OBVIOUS
<1>3. f \in Injection(T, T \ {0})
  <2>1. \A x \in T : x + 1 \in T \ {0}
    OBVIOUS
  <2>2. f \in [T -> T \ {0}] /\ \A x, y \in T : f[x] = f[y] => x = y
    BY <2>1
  <2>3. QED
    BY <2>2, Fun_IsInj
<1>4. Cardinality(T) <= Cardinality(T \ {0})
  <2>1. IsFiniteSet(T \ {0})
    BY <1>1, FS_RemoveElement
  <2>2. QED
    BY <1>3, <2>1, FS_Injection
<1>5. Cardinality(T \ {0}) = Cardinality(T) - 1 /\ Cardinality(T) \in Nat
  BY <1>1, <1>2, FS_RemoveElement, FS_CardinalityType
<1>6. QED
  BY <1>4, <1>5

\* load_memcpy_ecc towards lower addresses copies what was there at the start, whether or
\* not source and destination overlap.
LEMMA MovedIs ==
  ASSUME NEW size \in Nat, NEW to \in Nat, NEW from \in Nat, to <= from,
         NEW R \in Nat, from + size <= R,
         NEW m, DOMAIN m = 0 .. (R - 1), m = [a \in DOMAIN m |-> m[a]]
  PROVE  Moved(m, from, to, size) =
           [a \in 0 .. (R - 1) |-> IF a \in to .. (to + size - 1) THEN m[a - to + from] ELSE m[a]]
<1> DEFINE Is(k) == [a \in 0 .. (R - 1) |->
                       IF a \in to .. (to + k - 1) THEN m[a - to + from] ELSE m[a]]
           F(M) == [k \in 0 .. size |->
                      IF k = 0 THEN m ELSE [M[k - 1] EXCEPT ![to + k - 1] = M[k - 1][from + k - 1]]]
           G == [k \in 0 .. size |-> Is(k)]
<1>1. Is(0) = m
  <2>1. \A a \in 0 .. (R - 1) : a \notin to .. (to + 0 - 1)
    OBVIOUS
  <2>2. QED
    BY <2>1
<1>2. ASSUME NEW k \in 1 .. size
      PROVE  Is(k) = [Is(k - 1) EXCEPT ![to + k - 1] = Is(k - 1)[from + k - 1]]
  <2>1. from + k - 1 \in 0 .. (R - 1) /\ from + k - 1 \notin to .. (to + (k - 1) - 1)
    OBVIOUS
  <2>2. Is(k - 1)[from + k - 1] = m[from + k - 1]
    BY <2>1
  <2>3. ASSUME NEW a \in 0 .. (R - 1)
        PROVE  Is(k)[a] = IF a = to + k - 1 THEN m[from + k - 1] ELSE Is(k - 1)[a]
    <3>1. CASE a = to + k - 1
      <4>1. a \in to .. (to + k - 1) /\ a - to + from = from + k - 1
        BY <3>1
      <4>2. QED
        BY <3>1, <4>1
    <3>2. CASE a # to + k - 1
      <4>1. a \in to .. (to + k - 1) <=> a \in to .. (to + (k - 1) - 1)
        BY <3>2
      <4>2. QED
        BY <3>2, <4>1
    <3>3. QED
      BY <3>1, <3>2
  <2> HIDE DEF Is
  <2>4. Is(k) = [a \in 0 .. (R - 1) |-> Is(k)[a]] /\ Is(k - 1) = [a \in 0 .. (R - 1) |-> Is(k - 1)[a]]
    BY DEF Is
  <2>5. QED
    BY <2>2, <2>3, <2>4
<1>3. G = F(G)
  <2> HIDE DEF Is
  <2>1. \A k \in 0 .. size : k # 0 => k \in 1 .. size /\ k - 1 \in 0 .. size
    OBVIOUS
  <2>2. \A k \in 0 .. size :
          Is(k) = IF k = 0 THEN m ELSE [Is(k - 1) EXCEPT ![to + k - 1] = Is(k - 1)[from + k - 1]]
    BY <1>1, <1>2, <2>1
  <2>3. QED
    BY <2>1, <2>2
<1>4. ASSUME NEW M, M = F(M)
      PROVE  \A k \in 0 .. size : M[k] = Is(k)
  <2> HIDE DEF Is
  <2> DEFINE S == {k \in 0 .. size : M[k] = Is(k)}
  <2>1. 0 \in S
    BY <1>1, <1>4
  <2>2. ASSUME NEW k \in S, k < size PROVE k + 1 \in S
    <3>1. k + 1 \in 1 .. size /\ (k + 1) - 1 = k
      BY <2>2
    <3>2. \A x \in 0 .. size :
            M[x] = IF x = 0 THEN m ELSE [M[x - 1] EXCEPT ![to + x - 1] = M[x - 1][from + x - 1]]
      BY <1>4
    <3>3. k + 1 \in 0 .. size /\ k + 1 # 0 /\ M[(k + 1) - 1] = Is((k + 1) - 1)
      BY <2>2, <3>1
    <3>4. M[k + 1] = Is(k + 1)
      BY <1>2, <3>1, <3>2, <3>3
    <3>5. QED
      BY <3>3, <3>4
  <2>3. S = 0 .. size
    <3> HIDE DEF S
    <3>1. S \in SUBSET (0 .. size)
      BY DEF S
    <3>2. QED
      BY <2>1, <2>2, <3>1, IntervalInduction
  <2>4. QED
    BY <2>3
<1> DEFINE N == CHOOSE M : M = F(M)
<1>5. N = F(N)
  <2> HIDE DEF Is, G
  <2>1. QED
    BY <1>3
<1>6. Moved(m, from, to, size) = N[size]
  BY DEF Moved
<1>7. N[size] = Is(size)
  <2> HIDE DEF Is, G, N, F
  <2>1. QED
    BY <1>4, <1>5
<1>8. QED
  BY <1>6, <1>7

\* The copies in the order in which they are to be tried.
LEMMA CandidatesAre ==
  ASSUME NorSelected
  PROVE  /\ DOMAIN Candidates = IF sel.failover = 1 THEN 1 .. 4 ELSE 1 .. 2
         /\ Candidates[1] = [rank |-> sel.rank, copy |-> 1]
         /\ Candidates[2] = [rank |-> sel.rank, copy |-> 2]
         /\ sel.failover = 1 =>
              /\ Candidates[3] = [rank |-> 1 - sel.rank, copy |-> 1]
              /\ Candidates[4] = [rank |-> 1 - sel.rank, copy |-> 2]
<1> DEFINE rank(r) == << [rank |-> r, copy |-> 1], [rank |-> r, copy |-> 2] >>
<1>1. Nor.start + sel.rank = sel.rank /\ Nor.start + 1 - sel.rank = 1 - sel.rank
  BY DEF NorSelected, Nor
<1>2. Candidates = IF sel.failover = 1 THEN rank(sel.rank) \o rank(1 - sel.rank) ELSE rank(sel.rank)
  BY <1>1 DEF Candidates, NorSelected
<1>3. CASE sel.failover = 1
  <2> DEFINE s == rank(sel.rank)
             t == rank(1 - sel.rank)
             S == {s[1], s[2], t[1], t[2]}
  <2>1. s \in Seq(S) /\ t \in Seq(S) /\ Len(s) = 2 /\ Len(t) = 2
    OBVIOUS
  <2>2. /\ s[1] = [rank |-> sel.rank, copy |-> 1] /\ s[2] = [rank |-> sel.rank, copy |-> 2]
        /\ t[1] = [rank |-> 1 - sel.rank, copy |-> 1] /\ t[2] = [rank |-> 1 - sel.rank, copy |-> 2]
    OBVIOUS
  <2>3. Candidates = s \o t
    BY <1>2, <1>3
  <2> HIDE DEF s, t, S
  <2>4. /\ s \o t \in Seq(S) /\ Len(s \o t) = 4
        /\ \A k \in 1 .. 4 : (s \o t)[k] = IF k <= 2 THEN s[k] ELSE t[k - 2]
    <3>1. /\ s \o t \in Seq(S) /\ Len(s \o t) = Len(s) + Len(t)
          /\ \A k \in 1 .. Len(s) + Len(t) : (s \o t)[k] = IF k <= Len(s) THEN s[k] ELSE t[k - Len(s)]
      BY <2>1, ConcatProperties, Zenon
    <3>2. QED
      BY <2>1, <3>1
  <2>5. DOMAIN (s \o t) = 1 .. 4
    BY <2>4
  <2>6. /\ Candidates[1] = s[1] /\ Candidates[2] = s[2] /\ Candidates[3] = t[1] /\ Candidates[4] = t[2]
    BY <2>3, <2>4
  <2>7. QED
    BY <1>3, <2>2, <2>3, <2>5, <2>6
<1>4. CASE sel.failover # 1
  <2>1. Candidates = rank(sel.rank)
    BY <1>2, <1>4
  <2>2. QED
    BY <1>4, <2>1
<1>5. QED
  BY <1>3, <1>4

\* Copy b of rank a.
LEMMA CopyIs ==
  ASSUME NorSelected, NEW a \in 0 .. 1, NEW b \in 0 .. 1, a = 1 => sel.failover = 1
  PROVE  /\ 2 * a + b + 1 \in DOMAIN Candidates
         /\ Candidates[2 * a + b + 1] =
              [rank |-> IF a = 0 THEN sel.rank ELSE 1 - sel.rank, copy |-> b + 1]
<1>1. CASE a = 0 /\ b = 0
  BY <1>1, CandidatesAre
<1>2. CASE a = 0 /\ b = 1
  BY <1>2, CandidatesAre
<1>3. CASE a = 1 /\ b = 0
  BY <1>3, CandidatesAre
<1>4. CASE a = 1 /\ b = 1
  BY <1>4, CandidatesAre
<1>5. QED
  BY <1>1, <1>2, <1>3, <1>4

\* Where BL0 is while it searches.
LEMMA HereIs ==
  ASSUME NorSelected, i \in 0 .. 1, j \in 0 .. 1, i = 1 => sel.failover = 1
  PROVE  /\ Pos \in DOMAIN Candidates
         /\ Here = [rank |-> IF i = 0 THEN sel.rank ELSE 1 - sel.rank, copy |-> j + 1]
         /\ Here.rank \in 0 .. 1 /\ Here.rank \in Ranks /\ Here.copy \in 1 .. Copies
<1>1. Here = [rank |-> IF i = 0 THEN sel.rank ELSE 1 - sel.rank, copy |-> j + 1] /\ Pos \in DOMAIN Candidates
  BY CopyIs DEF Pos, Here
<1>2. QED
  BY <1>1 DEF NorSelected, Ranks, Copies

\* The copy at hand fits into the RAM.
LEMMA BlobFits ==
  ASSUME NorSelected, CopiesFit, i \in 0 .. 1, j \in 0 .. 1, i = 1 => sel.failover = 1
  PROVE  LET b == BlobOf(Here) IN
           /\ b.load \in Nat /\ b.entry \in Nat /\ b.size \in Nat /\ b.offset \in Nat
           /\ b.load + b.entry + b.size <= RamSz /\ RamSz \in Nat
BY HereIs, BootAssumption DEF CopiesFit, BlobOf

\* The environment does not change.
LEMMA NorKept ==
  ASSUME NorSelected, CopiesFit, UNCHANGED <<sel, flash>>
  PROVE  NorSelected' /\ CopiesFit'
BY DEF NorSelected, CopiesFit

\* The search starts at the first copy in the selected rank, which smc_init configures.
LEMMA SelectStep ==
  ASSUME NorSelected, SearchInv, Select
  PROVE  SearchInv'
<1>1. /\ pc = "select" /\ UNCHANGED <<sel, flash, i, j, blob, ram>> /\ i = 0 /\ j = 0
      /\ pc' \in {"blob", "dead"} /\ (pc' = "dead" => ~ParityOk(sel))
  BY DEF Select, SearchInv
<1>2. Candidates' = Candidates /\ ParityOk(sel)' = ParityOk(sel)
  BY <1>1 DEF Candidates
<1>3. ASSUME pc' = "blob"
      PROVE  /\ chip' = sel.rank /\ backup' = 1 - sel.rank /\ sel.rank \in ready'
             /\ sel.failover = 1 => backup' \in ready'
  <2>1. PICK c \in Chips(sel) : chip' = c[1] /\ backup' = c[2] /\ ready' = Configured(c)
    BY <1>3 DEF Select
  <2>2. MemType(sel) = 0
    BY DEF MemType, NorSelected
  <2>3. c = <<sel.rank, (sel.rank + 1) % 2>>
    BY <2>1, <2>2 DEF Chips, Both, Nor, NorSelected
  <2>4. (sel.rank + 1) % 2 = 1 - sel.rank
    BY DEF NorSelected
  <2>5. QED
    BY <2>1, <2>3, <2>4 DEF Configured, NorSelected
<1>4. Here = [rank |-> sel.rank, copy |-> 1] /\ Pos = 1 /\ Here' = Here /\ Pos' = Pos
  BY <1>1, <1>2, HereIs DEF Here, Pos, NorSelected
<1>5. QED
  BY <1>1, <1>2, <1>3, <1>4 DEF SearchInv, Searching

\* What a step that leaves the place of the search alone keeps.
LEMMA PlaceKept ==
  ASSUME UNCHANGED <<sel, flash, i, j>>
  PROVE  /\ Candidates' = Candidates /\ Here' = Here /\ Pos' = Pos /\ BlobOf(Here)' = BlobOf(Here)
         /\ DataOf(Here)' = DataOf(Here) /\ (Intact(Here)' <=> Intact(Here))
         /\ \A k : Intact(Candidates[k])' <=> Intact(Candidates[k])
BY DEF Candidates, Here, Pos, BlobOf, DataOf, Intact, Cells

\* The blob of the copy is read.
LEMMA LoadBlobStep ==
  ASSUME NorSelected, SearchInv, LoadBlob
  PROVE  SearchInv'
<1>1. /\ pc = "blob" /\ UNCHANGED <<sel, flash, chip, backup, ready, i, j, ram>>
      /\ i \in 0 .. 1 /\ j \in 0 .. 1 /\ (i = 1 => sel.failover = 1) /\ chip = Here.rank
  BY DEF LoadBlob, SearchInv, Searching
<1>2. pc' = "image" /\ blob' = BlobOf(Here)
  BY <1>1, HereIs DEF LoadBlob, BlobOf
<1>3. QED
  BY <1>1, <1>2, PlaceKept DEF SearchInv, Searching

\* The image is staged as it is stored.
LEMMA LoadImageStep ==
  ASSUME NorSelected, CopiesFit, SearchInv, LoadImage
  PROVE  SearchInv'
<1>1. /\ pc = "image" /\ pc' = "check" /\ UNCHANGED <<sel, flash, chip, backup, ready, i, j, blob>>
      /\ i \in 0 .. 1 /\ j \in 0 .. 1 /\ (i = 1 => sel.failover = 1)
      /\ chip = Here.rank /\ blob = BlobOf(Here)
      /\ ram' = [a \in DOMAIN ram |-> IF a \in Staged .. (Staged + blob.size - 1)
                                      THEN flash[chip].data[blob.offset + a - Staged] ELSE ram[a]]
      /\ DOMAIN ram = 0 .. (RamSz - 1)
  BY DEF LoadImage, SearchInv, Searching
<1>2. /\ blob.load \in Nat /\ blob.entry \in Nat /\ blob.size \in Nat /\ blob.offset \in Nat
      /\ Staged \in Nat /\ Staged + blob.size <= RamSz /\ RamSz \in Nat /\ Staged' = Staged
  BY <1>1, BlobFits DEF Staged
<1>3. ASSUME NEW k \in 1 .. blob.size
      PROVE  ram'[Staged + k - 1] = flash[chip].data[blob.offset + k - 1]
  <2>1. /\ Staged + k - 1 \in 0 .. (RamSz - 1) /\ Staged + k - 1 \in Staged .. (Staged + blob.size - 1)
        /\ blob.offset + (Staged + k - 1) - Staged = blob.offset + k - 1
    BY <1>2
  <2>2. QED
    BY <1>1, <2>1
<1>4. Cells(ram', Staged, blob.size) = DataOf(Here)
  BY <1>1, <1>3 DEF Cells, DataOf
<1>5. Cells(ram, Staged, blob.size)' = DataOf(Here)'
  BY <1>1, <1>2, <1>4, PlaceKept DEF Cells
<1>6. /\ DOMAIN ram' = 0 .. (RamSz - 1) /\ ram' = [a \in DOMAIN ram' |-> ram'[a]]
  BY <1>1
<1>7. QED
  BY <1>1, <1>5, <1>6, PlaceKept DEF SearchInv, Searching

\* A copy is verified by its checksum: it is moved, or the search goes on with the next copy
\* or the next rank, or ends.
LEMMA CheckStep ==
  ASSUME NorSelected, CopiesFit, SearchInv, Check
  PROVE  SearchInv'
<1>1. /\ pc = "check" /\ UNCHANGED <<sel, flash, backup, ready, blob, ram>>
      /\ i \in 0 .. 1 /\ j \in 0 .. 1 /\ (i = 1 => sel.failover = 1)
      /\ chip = Here.rank /\ blob = BlobOf(Here) /\ Cells(ram, Staged, blob.size) = DataOf(Here)
      /\ backup = 1 - sel.rank /\ sel.rank \in ready /\ (sel.failover = 1 => backup \in ready)
      /\ \A k \in 1 .. (Pos - 1) : ~Intact(Candidates[k])
  BY DEF Check, SearchInv, Searching
<1>2. Intact(Here) <=> Cells(ram, Staged, blob.size) = blob.sum
  BY <1>1 DEF Intact, DataOf
<1>3. /\ Candidates' = Candidates /\ ParityOk(sel)' = ParityOk(sel)
      /\ \A k : Intact(Candidates[k])' <=> Intact(Candidates[k])
  <2>1. Candidates' = Candidates
    BY <1>1 DEF Candidates
  <2>2. ParityOk(sel)' = ParityOk(sel)
    BY <1>1 DEF ParityOk
  <2>3. \A k : Intact(Candidates[k])' <=> Intact(Candidates[k])
    BY <1>1, <2>1 DEF Intact, BlobOf, Cells
  <2>4. QED
    BY <2>1, <2>2, <2>3
<1>4. DOMAIN ram' = 0 .. (RamSz - 1) /\ ram' = [a \in DOMAIN ram' |-> ram'[a]]
  <2>1. DOMAIN ram = 0 .. (RamSz - 1) /\ ram = [a \in DOMAIN ram |-> ram[a]]
    BY DEF SearchInv
  <2>2. QED
    BY <1>1, <2>1
<1>5. CASE Intact(Here)
  <2>1. pc' = "move" /\ UNCHANGED <<i, j, chip>>
    BY <1>2, <1>5 DEF Check
  <2>2. Cells(ram, Staged, blob.size)' = Cells(ram, Staged, blob.size)
    BY <1>1 DEF Cells, Staged
  <2>3. QED
    BY <1>1, <1>3, <1>4, <1>5, <2>1, <2>2, PlaceKept DEF SearchInv, Searching
<1>6. CASE ~Intact(Here)
  <2>1. NextCopy
    BY <1>2, <1>6 DEF Check
  <2>2. \A k \in 1 .. Pos : ~Intact(Candidates[k])
    BY <1>1, <1>6 DEF Pos, Here
  <2>3. CASE j = 0
    <3>1. j' = 1 /\ pc' = "blob" /\ UNCHANGED <<i, chip>> /\ Pos' = Pos + 1
      BY <1>1, <2>1, <2>3 DEF NextCopy, Copies, Pos
    <3>2. Here'.rank = Here.rank
      BY <1>1, <1>3, <1>4, <2>3, <3>1, CopyIs DEF Here, Pos
    <3>3. \A k \in 1 .. (Pos' - 1) : ~Intact(Candidates[k])'
      BY <1>1, <1>3, <1>4, <2>2, <3>1 DEF Pos
    <3>4. QED
      BY <1>1, <1>3, <1>4, <3>1, <3>2, <3>3 DEF SearchInv, Searching
  <2>4. CASE j = 1 /\ i = 0 /\ sel.failover = 1
    <3>1. i' = 1 /\ j' = 0 /\ chip' = backup /\ pc' = "blob" /\ Pos' = Pos + 1
      BY <1>1, <2>1, <2>4 DEF NextCopy, Copies, Ranks2Try, Pos
    <3>2. Here'.rank = 1 - sel.rank
      BY <1>1, <1>3, <1>4, <2>4, <3>1, CopyIs DEF Here, Pos
    <3>3. \A k \in 1 .. (Pos' - 1) : ~Intact(Candidates[k])'
      BY <1>1, <1>3, <1>4, <2>2, <3>1 DEF Pos
    <3>4. QED
      BY <1>1, <1>3, <1>4, <2>4, <3>1, <3>2, <3>3 DEF SearchInv, Searching
  <2>5. CASE j = 1 /\ (i = 1 \/ sel.failover # 1)
    <3>1. pc' = "dead"
      BY <1>1, <2>1, <2>5 DEF NextCopy, Copies, Ranks2Try
    <3>2. DOMAIN Candidates = 1 .. Pos
      <4>1. CASE i = 1
        BY <1>1, <2>5, <4>1, CandidatesAre DEF Pos
      <4>2. CASE i = 0 /\ sel.failover # 1
        BY <1>1, <2>5, <4>2, CandidatesAre DEF Pos
      <4>3. QED
        BY <1>1, <2>5, <4>1, <4>2
    <3>3. QED
      BY <1>1, <1>3, <1>4, <2>2, <3>1, <3>2 DEF SearchInv, Searching
  <2>6. QED
    BY <1>1, <2>3, <2>4, <2>5
<1>7. QED
  BY <1>5, <1>6

\* The verified image is moved to its place, whole.
LEMMA MoveStep ==
  ASSUME NorSelected, CopiesFit, SearchInv, Move
  PROVE  SearchInv'
<1>1. /\ pc = "move" /\ pc' = "start" /\ UNCHANGED <<sel, flash, chip, backup, ready, i, j, blob>>
      /\ i \in 0 .. 1 /\ j \in 0 .. 1 /\ (i = 1 => sel.failover = 1)
      /\ chip = Here.rank /\ blob = BlobOf(Here) /\ Cells(ram, Staged, blob.size) = DataOf(Here)
      /\ ram' = Moved(ram, Staged, blob.load, blob.size)
      /\ DOMAIN ram = 0 .. (RamSz - 1) /\ ram = [a \in DOMAIN ram |-> ram[a]]
  BY DEF Move, SearchInv, Searching
<1>2. /\ blob.load \in Nat /\ blob.size \in Nat /\ Staged \in Nat /\ blob.load <= Staged
      /\ Staged + blob.size <= RamSz /\ RamSz \in Nat
  BY <1>1, BlobFits DEF Staged
<1>3. ram' = [a \in 0 .. (RamSz - 1) |-> IF a \in blob.load .. (blob.load + blob.size - 1)
                                          THEN ram[a - blob.load + Staged] ELSE ram[a]]
  <2>1. Moved(ram, Staged, blob.load, blob.size) =
          [a \in 0 .. (RamSz - 1) |-> IF a \in blob.load .. (blob.load + blob.size - 1)
                                      THEN ram[a - blob.load + Staged] ELSE ram[a]]
    <3> DEFINE to == blob.load
               size == blob.size
               from == Staged
               m == ram
    <3>1. /\ to \in Nat /\ size \in Nat /\ from \in Nat /\ to <= from /\ from + size <= RamSz
          /\ RamSz \in Nat /\ DOMAIN m = 0 .. (RamSz - 1) /\ m = [a \in DOMAIN m |-> m[a]]
      BY <1>1, <1>2
    <3> HIDE DEF to, size, from, m
    <3>2. Moved(m, from, to, size) =
            [a \in 0 .. (RamSz - 1) |-> IF a \in to .. (to + size - 1) THEN m[a - to + from] ELSE m[a]]
      BY <3>1, MovedIs
    <3>3. QED
      BY <3>2 DEF to, size, from, m
  <2>2. QED
    BY <1>1, <2>1
<1>4. ASSUME NEW k \in 1 .. blob.size
      PROVE  ram'[blob.load + k - 1] = ram[Staged + k - 1]
  <2>1. /\ blob.load + k - 1 \in 0 .. (RamSz - 1)
        /\ blob.load + k - 1 \in blob.load .. (blob.load + blob.size - 1)
        /\ (blob.load + k - 1) - blob.load + Staged = Staged + k - 1
    BY <1>2
  <2>2. QED
    BY <1>3, <2>1
<1>5. Cells(ram', blob.load, blob.size) = Cells(ram, Staged, blob.size)
  BY <1>4 DEF Cells
<1>6. Cells(ram, blob.load, blob.size)' = DataOf(Here)'
  BY <1>1, <1>5, PlaceKept DEF Cells
<1>7. DOMAIN ram' = 0 .. (RamSz - 1) /\ ram' = [a \in DOMAIN ram' |-> ram'[a]]
  BY <1>3
<1>8. QED
  BY <1>1, <1>6, <1>7, PlaceKept DEF SearchInv, Searching

\* Once TRCH has been started, BL0 is over, and its memory and its verdict stay.
LEMMA SearchOver ==
  ASSUME NorSelected, SearchInv,
         \/ Start \/ Handle \/ LoadNext \/ Release \/ \E s \in Subs : Hang(s)
         \/ UNCHANGED vars
  PROVE  SearchInv'
<1>1. UNCHANGED bl0Vars
  BY DEF Start, Handle, LoadNext, Release, Hang, vars
<1>2. UNCHANGED vars \/ pc' \in {"idle", "load", "boot", "panic", "lost"}
  BY DEF Start, Handle, LoadNext, Release, Hang
<1>3. CASE UNCHANGED vars
  <2>1. UNCHANGED <<sel, flash, i, j, pc, chip, backup, ready, blob, ram>>
    BY <1>3 DEF vars, bl0Vars
  <2>2. /\ ParityOk(sel)' = ParityOk(sel) /\ Cells(ram, Staged, blob.size)' = Cells(ram, Staged, blob.size)
        /\ Cells(ram, blob.load, blob.size)' = Cells(ram, blob.load, blob.size)
    BY <2>1 DEF ParityOk, Cells, Staged
  <2>3. QED
    BY <2>1, <2>2, PlaceKept DEF SearchInv, Searching
<1>4. CASE pc' \in {"idle", "load", "boot", "panic", "lost"}
  BY <1>1, <1>4 DEF SearchInv, Searching, bl0Vars
<1>5. QED
  BY <1>2, <1>3, <1>4

\* The invariant of the search: BL0 is at some copy, all before it are corrupt.
THEOREM SearchInvariant ==
  NorSelected /\ CopiesFit /\ Spec => [](NorSelected /\ CopiesFit /\ SearchInv)
<1>1. Init => SearchInv
  <2> SUFFICES ASSUME Init PROVE SearchInv
    OBVIOUS
  <2>1. ram = [a \in 0 .. (RamSz - 1) |-> Empty] /\ pc = "select" /\ i = 0 /\ j = 0
    BY DEF Init
  <2>2. DOMAIN ram = 0 .. (RamSz - 1) /\ ram = [a \in DOMAIN ram |-> ram[a]]
    BY <2>1
  <2>3. QED
    BY <2>1, <2>2 DEF SearchInv, Searching
<1>2. NorSelected /\ CopiesFit /\ SearchInv /\ [Next]_vars => (NorSelected /\ CopiesFit /\ SearchInv)'
  <2> SUFFICES ASSUME NorSelected, CopiesFit, SearchInv, [Next]_vars
               PROVE  NorSelected' /\ CopiesFit' /\ SearchInv'
    OBVIOUS
  <2>1. UNCHANGED <<sel, flash>>
    BY DEF Next, Bl0, Select, LoadBlob, LoadImage, Check, Move, Start, Handle, LoadNext, Release,
           Hang, bl0Vars, vars
  <2>2. CASE Bl0
    BY <2>1, <2>2, NorKept, SelectStep, LoadBlobStep, LoadImageStep, CheckStep, MoveStep DEF Bl0
  <2>3. CASE \/ Start \/ Handle \/ LoadNext \/ Release \/ \E s \in Subs : Hang(s)
             \/ UNCHANGED vars
    BY <2>1, <2>3, NorKept, SearchOver
  <2>4. QED
    BY <2>1, <2>2, <2>3, NorKept DEF Next
<1>3. QED
  BY <1>1, <1>2, PTL DEF Spec

\* The first of a set of numbers, if it is one with none before it.
LEMMA FirstIs ==
  ASSUME NEW S \in SUBSET Nat, NEW k \in S, \A l \in S : k <= l
  PROVE  First(S) = k
<1>1. \A l \in S : (\A m \in S : l <= m) => l = k
  OBVIOUS
<1>2. QED
  BY <1>1 DEF First

\* BL0 reads only memories that it configured; it gives up only when the select code is bad
\* or every copy is corrupt; and what it starts is the first intact copy, whole and in place.
THEOREM FirstIntactStarts ==
  NorSelected /\ CopiesFit /\ Spec => []StartsFirstIntact
<1>1. NorSelected /\ CopiesFit /\ SearchInv => StartsFirstIntact
  <2> SUFFICES ASSUME NorSelected, CopiesFit, SearchInv PROVE StartsFirstIntact
    OBVIOUS
  <2>1. ASSUME pc = "blob" PROVE chip \in ready
    <3>1. /\ i \in 0 .. 1 /\ j \in 0 .. 1 /\ (i = 1 => sel.failover = 1) /\ chip = Here.rank
          /\ backup = 1 - sel.rank /\ sel.rank \in ready /\ (sel.failover = 1 => backup \in ready)
      BY <2>1 DEF SearchInv, Searching
    <3>2. QED
      BY <3>1, HereIs
  <2>2. ASSUME pc = "start"
        PROVE  /\ \E k \in DOMAIN Candidates : Intact(Candidates[k])
               /\ LET b == BlobOf(Candidates[FirstIntact])
                  IN  Cells(ram, b.load, b.size)
                        = Cells(flash[Candidates[FirstIntact].rank].data, b.offset, b.size)
    <3>1. /\ i \in 0 .. 1 /\ j \in 0 .. 1 /\ (i = 1 => sel.failover = 1)
          /\ \A k \in 1 .. (Pos - 1) : ~Intact(Candidates[k])
          /\ blob = BlobOf(Here) /\ Intact(Here) /\ Cells(ram, blob.load, blob.size) = DataOf(Here)
      BY <2>2 DEF SearchInv, Searching
    <3>2. Pos \in DOMAIN Candidates /\ DOMAIN Candidates \subseteq Nat \ {0} /\ Here = Candidates[Pos]
      BY <3>1, HereIs, CandidatesAre DEF Here
    <3> DEFINE S == {k \in DOMAIN Candidates : Intact(Candidates[k])}
    <3>3. Pos \in S /\ S \in SUBSET Nat
      BY <3>1, <3>2
    <3>4. \A l \in S : Pos <= l
      <4> SUFFICES ASSUME NEW l \in S, l < Pos PROVE FALSE
        BY <3>2
      <4>1. l \in 1 .. (Pos - 1)
        BY <3>2
      <4>2. QED
        BY <3>1, <4>1
    <3>5. FirstIntact = Pos
      <4> HIDE DEF S
      <4>1. First(S) = Pos
        BY <3>3, <3>4, FirstIs
      <4>2. QED
        BY <4>1 DEF FirstIntact, S
    <3>6. QED
      BY <3>1, <3>2, <3>5 DEF DataOf
  <2>3. pc = "dead" => ~ParityOk(sel) \/ ~\E k \in DOMAIN Candidates : Intact(Candidates[k])
    BY DEF SearchInv
  <2>4. QED
    BY <2>1, <2>2, <2>3 DEF StartsFirstIntact
<1>2. QED
  BY <1>1, SearchInvariant, PTL

-----------------------------------------------------------------------------
(* The images of the subsystems                                             *)

\* Whole bursts cover the file.
LEMMA AlignCovers == ASSUME NEW size \in Nat PROVE Align(size) \in Nat /\ size <= Align(size)
<1> DEFINE t == size + BurstSz - 1
           q == t \div BurstSz
           r == t % BurstSz
<1>1. BurstSz \in Nat /\ BurstSz >= 1
  BY BootAssumption
<1>2. t \in Nat /\ q \in Nat /\ r \in 0 .. (BurstSz - 1)
  BY <1>1
<1>3. t = BurstSz * q + r
  <2>1. ASSUME NEW x \in Nat, NEW b \in Nat, b >= 1 PROVE x = b * (x \div b) + (x % b)
    BY <2>1
  <2> HIDE DEF t
  <2>2. QED
    BY <1>1, <1>2, <2>1
<1>4. Align(size) = q * BurstSz
  BY DEF Align
<1> HIDE DEF q, r
<1>5. q * BurstSz \in Nat /\ q * BurstSz = BurstSz * q
  BY <1>1, <1>2
<1> DEFINE z == q * BurstSz
<1>6. Align(size) = z /\ z \in Nat /\ t = z + r
  BY <1>3, <1>4, <1>5
<1> HIDE DEF z
<1>7. QED
  BY <1>1, <1>2, <1>6

\* The images of a subsystem, by their place in its list.
LEMMA ImagesAre ==
  ASSUME NEW s \in Subs
  PROVE  /\ \A k \in DOMAIN card.lists[s] :
              FilesNamed(card.lists[s][k]) # {} => FileOf(card.lists[s][k]) \in Images(s)
         /\ \A f \in Images(s) : \E k \in DOMAIN card.lists[s] :
              FilesNamed(card.lists[s][k]) # {} /\ f = FileOf(card.lists[s][k])
BY DEF Images

\* The file system and the lists do not change.
LEMMA CardKept ==
  ASSUME UNCHANGED card
  PROVE  /\ \A f : Loads(f)' = Loads(f)
         /\ \A s : Images(s)' = Images(s)
         /\ \A x : FilesNamed(x)' = FilesNamed(x) /\ FileOf(x)' = FileOf(x)
         /\ Placed => Placed'
<1>1. /\ \A f : Loads(f)' = Loads(f)
      /\ \A x : FilesNamed(x)' = FilesNamed(x) /\ FileOf(x)' = FileOf(x)
  BY DEF Loads, FilesNamed, FileOf
<1>2. \A s : Images(s)' = Images(s)
  BY <1>1 DEF Images
<1>3. QED
  BY <1>1, <1>2 DEF Placed, Region

\* An image lies within the memory, in what is overwritten when it is loaded.
LEMMA RegionWithin ==
  ASSUME Placed, NEW s \in Subs, NEW f \in Images(s)
  PROVE  /\ f.load \in Nat /\ f.at \in Nat /\ f.size \in Nat
         /\ Region(f) \subseteq 0 .. (DramSz - 1) /\ Region(f) \subseteq Loads(f)
<1>1. f.load \in Nat /\ f.at \in Nat /\ f.size \in Nat /\ f.load + f.size <= DramSz /\ DramSz \in Nat
  BY BootAssumption DEF Placed
<1>2. Region(f) \subseteq 0 .. (DramSz - 1)
  BY <1>1 DEF Region
<1>3. CASE card.dma
  <2>1. Loads(f) = f.load .. (f.load + Align(f.size) - 1)
    BY <1>3 DEF Loads
  <2>2. Align(f.size) \in Nat /\ f.size <= Align(f.size)
    BY <1>1, AlignCovers
  <2>3. QED
    BY <1>1, <1>2, <2>1, <2>2 DEF Region
<1>4. CASE ~card.dma
  <2>1. Loads(f) = f.load .. (f.load + f.size - 1)
    BY <1>4 DEF Loads
  <2>2. QED
    BY <1>1, <1>2, <2>1 DEF Region
<1>5. QED
  BY <1>3, <1>4

\* An image that was loaded is in place, and what it does not touch stays there.
LEMMA LoadedIs ==
  ASSUME Placed, LoadInv, NEW s \in Subs, NEW f \in Images(s)
  PROVE  /\ DOMAIN Loaded(f) = 0 .. (DramSz - 1)
         /\ InPlace(Loaded(f), f)
         /\ \A g : Loads(f) \cap Region(g) = {} /\ Region(g) \subseteq 0 .. (DramSz - 1) =>
                     (InPlace(dram, g) => InPlace(Loaded(f), g))
<1>1. DOMAIN dram = 0 .. (DramSz - 1)
  BY DEF LoadInv
<1>2. Loaded(f) = [a \in 0 .. (DramSz - 1) |-> IF a \in Loads(f) THEN f.at + a - f.load ELSE dram[a]]
  BY <1>1 DEF Loaded, Loads
<1>3. Region(f) \subseteq Loads(f) /\ Region(f) \subseteq 0 .. (DramSz - 1)
  BY RegionWithin
<1>4. InPlace(Loaded(f), f)
  BY <1>2, <1>3 DEF InPlace
<1>5. ASSUME NEW g, Loads(f) \cap Region(g) = {}, Region(g) \subseteq 0 .. (DramSz - 1), InPlace(dram, g)
      PROVE  InPlace(Loaded(f), g)
  BY <1>2, <1>5 DEF InPlace
<1>6. QED
  BY <1>2, <1>4, <1>5

\* The next image is loaded: the others of the subsystem and those of the other one stay
\* in place.
LEMMA LoadNextStep ==
  ASSUME Placed, LoadInv, LoadNext
  PROVE  LoadInv'
<1> DEFINE l == card.lists[sub]
<1>1. /\ pc = "load" /\ UNCHANGED <<card, requests, sub, up>>
      /\ sub \in requests /\ sub \in Subs /\ sub \notin up /\ n \in Nat \ {0}
      /\ up \subseteq Subs /\ requests \subseteq Subs /\ requests \cap up = {}
      /\ DOMAIN dram = 0 .. (DramSz - 1) /\ DOMAIN l = 1 .. Len(l) /\ Len(l) \in Nat
  BY DEF LoadNext, LoadInv, Placed
<1>2. /\ \A s : Images(s)' = Images(s)
      /\ \A x : FilesNamed(x)' = FilesNamed(x) /\ FileOf(x)' = FileOf(x)
  BY <1>1, CardKept
<1>3. CASE n > Len(l)
  <2>1. pc' \in {"lost", "boot"} /\ UNCHANGED <<n, dram>>
    BY <1>1, <1>3 DEF LoadNext
  <2>2. ASSUME card.load, card.sfs, NEW f \in Images(sub) PROVE InPlace(dram, f)
    <3>1. PICK k \in DOMAIN l : FilesNamed(l[k]) # {} /\ f = FileOf(l[k])
      BY <1>1, ImagesAre
    <3>2. k < n
      BY <1>1, <1>3, <3>1
    <3>3. QED
      BY <1>1, <2>2, <3>1, <3>2 DEF LoadInv, ImagesInv
  <2>3. ImagesInv'
    BY <1>1, <1>2, <2>1, <2>2 DEF LoadInv, ImagesInv, InPlace, Region
  <2>4. QED
    BY <1>1, <2>1, <2>3 DEF LoadInv, Searching
<1>4. CASE ~(n > Len(l)) /\ pc' # "load"
  <2>1. pc' \in {"panic", "lost"} /\ UNCHANGED <<n, dram>>
    BY <1>1, <1>4 DEF LoadNext
  <2>2. ImagesInv'
    BY <1>1, <1>2, <2>1 DEF LoadInv, ImagesInv, InPlace, Region
  <2>3. QED
    BY <1>1, <2>1, <2>2 DEF LoadInv, Searching
<1>5. CASE ~(n > Len(l)) /\ pc' = "load"
  <2> DEFINE f == FileOf(l[n])
  <2>1. FilesNamed(l[n]) # {} /\ dram' = Loaded(f) /\ n' = n + 1
    BY <1>1, <1>5 DEF LoadNext
  <2>2. n \in DOMAIN l
    BY <1>1, <1>5
  <2>3. f \in Images(sub)
    BY <1>1, <2>1, <2>2, ImagesAre
  <2>4. PICK h \in Images(sub) : h = f
    BY <2>3
  <2> HIDE DEF f
  <2>5. /\ DOMAIN dram' = 0 .. (DramSz - 1) /\ InPlace(dram', h)
        /\ \A g : Loads(h) \cap Region(g) = {} /\ Region(g) \subseteq 0 .. (DramSz - 1) =>
                    (InPlace(dram, g) => InPlace(dram', g))
    BY <1>1, <2>1, <2>4, LoadedIs
  <2>6. ASSUME card.load, card.sfs, NEW s \in up, NEW g \in Images(s) PROVE InPlace(dram', g)
    <3>1. Loads(h) \cap Region(g) = {} /\ s \in Subs
      BY <1>1, <2>4, <2>6 DEF Placed
    <3>2. Region(g) \subseteq 0 .. (DramSz - 1)
      BY <2>6, <3>1, RegionWithin
    <3>3. QED
      BY <2>5, <2>6, <3>1, <3>2 DEF LoadInv, ImagesInv
  <2>7. ASSUME card.load, card.sfs, NEW k \in DOMAIN l, k < n + 1, FilesNamed(l[k]) # {}
        PROVE  InPlace(dram', FileOf(l[k]))
    <3>1. PICK g \in Images(sub) : g = FileOf(l[k])
      BY <1>1, <2>7, ImagesAre
    <3>2. CASE g = h
      BY <2>5, <3>1, <3>2
    <3>3. CASE g # h
      <4>1. Loads(h) \cap Region(g) = {} /\ Region(g) \subseteq 0 .. (DramSz - 1)
        BY <1>1, <3>3, RegionWithin DEF Placed
      <4>2. k # n
        BY <2>4, <3>1, <3>3 DEF f
      <4>3. k < n
        BY <1>1, <2>7, <4>2
      <4>4. InPlace(dram, g)
        BY <1>1, <2>7, <3>1, <4>3 DEF LoadInv, ImagesInv
      <4>5. QED
        BY <2>5, <3>1, <4>1, <4>4
    <3>4. QED
      BY <3>2, <3>3
  <2>8. ImagesInv'
    <3>1. ASSUME card.load, card.sfs
          PROVE  \A s \in up' : \A g \in Images(s)' : InPlace(dram, g)'
      BY <1>1, <1>2, <2>6, <3>1 DEF InPlace, Region
    <3>2. ASSUME card.load, card.sfs, NEW k \in DOMAIN l, k < n + 1, FilesNamed(card.lists[sub][k])' # {}
          PROVE  InPlace(dram, FileOf(card.lists[sub][k]))'
      <4>1. FilesNamed(l[k]) # {} /\ FileOf(card.lists[sub][k])' = FileOf(l[k])
        BY <1>1, <1>2, <3>2
      <4>2. InPlace(dram', FileOf(l[k]))
        BY <2>7, <3>2, <4>1
      <4>3. QED
        BY <4>1, <4>2 DEF InPlace, Region
    <3>3. QED
      BY <1>1, <1>5, <2>1, <3>1, <3>2 DEF ImagesInv
  <2>9. QED
    BY <1>1, <1>5, <2>1, <2>5, <2>8 DEF LoadInv, Searching
<1>6. QED
  BY <1>3, <1>4, <1>5

\* A subsystem that hangs overwrites only its own images, and is to be booted again.
LEMMA HangStep ==
  ASSUME Placed, LoadInv, NEW s \in Subs, Hang(s)
  PROVE  LoadInv'
<1>1. /\ pc \in {"idle", "load", "boot"} /\ s \in up /\ UNCHANGED <<card, sub, n, pc>>
      /\ up' = up \ {s} /\ requests' = requests \cup {s}
      /\ dram' = [a \in DOMAIN dram |-> IF \E f \in Images(s) : a \in Region(f) THEN Empty ELSE dram[a]]
      /\ DOMAIN dram = 0 .. (DramSz - 1)
      /\ up \subseteq Subs /\ requests \subseteq Subs /\ requests \cap up = {}
      /\ pc \in {"load", "boot"} => sub \in requests /\ n \in Nat \ {0}
  BY DEF Hang, LoadInv, bl0Vars
<1>2. /\ \A t : Images(t)' = Images(t)
      /\ \A x : FilesNamed(x)' = FilesNamed(x) /\ FileOf(x)' = FileOf(x)
  BY <1>1, CardKept
<1>3. ASSUME NEW t \in Subs \ {s}, NEW g \in Images(t), InPlace(dram, g) PROVE InPlace(dram', g)
  <2>1. \A f \in Images(s) : Region(f) \cap Region(g) = {}
    <3> TAKE f \in Images(s)
    <3>1. Loads(f) \cap Region(g) = {}
      BY <1>3 DEF Placed
    <3>2. Region(f) \subseteq Loads(f)
      BY RegionWithin
    <3>3. QED
      BY <3>1, <3>2
  <2>2. Region(g) \subseteq 0 .. (DramSz - 1)
    BY <1>3, RegionWithin
  <2>3. \A a \in Region(g) : dram'[a] = dram[a]
    BY <1>1, <2>1, <2>2
  <2>4. QED
    BY <1>3, <2>3 DEF InPlace
<1>4. ASSUME card.load, card.sfs, NEW t \in up \ {s}, NEW g \in Images(t) PROVE InPlace(dram', g)
  BY <1>1, <1>3, <1>4 DEF LoadInv, ImagesInv
<1>5. ASSUME card.load, card.sfs, pc = "load", NEW k \in DOMAIN card.lists[sub], k < n,
             FilesNamed(card.lists[sub][k]) # {}
      PROVE  InPlace(dram', FileOf(card.lists[sub][k]))
  <2>1. sub \in Subs \ {s}
    BY <1>1, <1>5
  <2>2. PICK g \in Images(sub) : g = FileOf(card.lists[sub][k])
    BY <1>5, <2>1, ImagesAre
  <2>3. InPlace(dram, g)
    BY <1>5, <2>2 DEF LoadInv, ImagesInv
  <2>4. QED
    BY <1>3, <2>1, <2>2, <2>3
<1>6. ASSUME card.load, card.sfs, pc = "boot", NEW g \in Images(sub) PROVE InPlace(dram', g)
  <2>1. sub \in Subs \ {s}
    BY <1>1, <1>6
  <2>2. InPlace(dram, g)
    BY <1>6 DEF LoadInv, ImagesInv
  <2>3. QED
    BY <1>3, <1>6, <2>1, <2>2
<1>7. ImagesInv'
  <2>1. ASSUME card.load, card.sfs
        PROVE  \A t \in up' : \A g \in Images(t)' : InPlace(dram, g)'
    BY <1>1, <1>2, <1>4, <2>1 DEF InPlace, Region
  <2>2. ASSUME card.load, card.sfs, pc = "load", NEW k \in DOMAIN card.lists[sub], k < n,
               FilesNamed(card.lists[sub][k])' # {}
        PROVE  InPlace(dram, FileOf(card.lists[sub][k]))'
    <3> DEFINE x == card.lists[sub][k]
    <3>1. FilesNamed(x) # {} /\ FileOf(card.lists[sub][k])' = FileOf(x)
      BY <1>1, <1>2, <2>2
    <3>2. InPlace(dram', FileOf(x))
      BY <1>5, <2>2, <3>1
    <3>3. QED
      BY <3>1, <3>2 DEF InPlace, Region
  <2>3. ASSUME card.load, card.sfs, pc = "boot"
        PROVE  \A g \in Images(sub)' : InPlace(dram, g)'
    BY <1>1, <1>2, <1>6, <2>3 DEF InPlace, Region
  <2>4. QED
    BY <1>1, <2>1, <2>2, <2>3 DEF ImagesInv
<1>8. QED
  BY <1>1, <1>7 DEF LoadInv, Searching

\* The steps that load nothing: those of BL0, the start of TRCH, the choice of the
\* subsystem, and its release once its images are in place.
LEMMA OtherSteps ==
  ASSUME Placed, LoadInv, Bl0 \/ Start \/ Handle \/ Release \/ UNCHANGED vars
  PROVE  LoadInv'
<1>1. UNCHANGED <<card, dram>>
  BY DEF Bl0, Select, LoadBlob, LoadImage, Check, Move, Start, Handle, Release, trchVars, vars
<1>2. /\ \A s : Images(s)' = Images(s)
      /\ \A x : FilesNamed(x)' = FilesNamed(x) /\ FileOf(x)' = FileOf(x)
  BY <1>1, CardKept
<1>3. CASE Bl0
  <2>1. UNCHANGED trchVars /\ pc \in Searching \cup {"select"} /\ pc' \in Searching \cup {"dead"}
    BY <1>3 DEF Bl0, Select, LoadBlob, LoadImage, Check, NextCopy, Move, Searching
  <2>2. up = {} /\ up' = {}
    BY <2>1 DEF LoadInv, trchVars
  <2>3. ImagesInv'
    BY <2>1, <2>2 DEF ImagesInv, Searching
  <2>4. QED
    BY <2>1, <2>2, <2>3 DEF LoadInv, Searching, trchVars
<1>4. CASE Start
  <2>1. pc = "start" /\ pc' \in {"panic", "idle"} /\ UNCHANGED <<card, sub, n, dram, up>>
        /\ requests' \in {requests, Subs}
    BY <1>4 DEF Start
  <2>2. up = {} /\ up' = {}
    BY <2>1 DEF LoadInv, Searching
  <2>3. ImagesInv'
    BY <2>1, <2>2 DEF ImagesInv
  <2>4. QED
    BY <2>1, <2>2, <2>3 DEF LoadInv, Searching
<1>5. CASE Handle
  <2>1. /\ pc = "idle" /\ requests # {} /\ n' = 1 /\ UNCHANGED <<card, requests, dram, up>>
        /\ sub' = IF 1 \in requests THEN 1 ELSE 2
        /\ pc' = IF card.load /\ card.sfs THEN "load" ELSE "boot"
    BY <1>5 DEF Handle
  <2>2. sub' \in requests /\ sub' \in Subs
    <3>1. requests \subseteq {1, 2} /\ Subs = {1, 2}
      BY BootAssumption DEF LoadInv
    <3>2. QED
      BY <2>1, <3>1
  <2>3. \A k \in DOMAIN card.lists[sub'] : ~(k < 1)
    BY <2>2 DEF Placed
  <2>4. ImagesInv'
    BY <1>2, <2>1, <2>3 DEF LoadInv, ImagesInv, InPlace, Region
  <2>5. QED
    BY <2>1, <2>2, <2>4 DEF LoadInv, Searching
<1>6. CASE Release
  <2>1. /\ pc = "boot" /\ pc' = "idle" /\ UNCHANGED <<card, sub, n, dram>>
        /\ up' = up \cup {sub} /\ requests' = requests \ {sub}
    BY <1>6 DEF Release
  <2>2. sub \in Subs
    BY <2>1 DEF LoadInv
  <2>3. ImagesInv'
    BY <1>2, <2>1 DEF LoadInv, ImagesInv, InPlace, Region
  <2>4. QED
    BY <2>1, <2>2, <2>3 DEF LoadInv, Searching
<1>7. CASE UNCHANGED vars
  <2>1. UNCHANGED <<card, requests, sub, n, dram, up, pc>>
    BY <1>7 DEF vars, trchVars
  <2>2. ImagesInv
    BY DEF LoadInv
  <2>3. \A g : InPlace(dram, g)' = InPlace(dram, g)
    BY <2>1 DEF InPlace, Region
  <2>4. ImagesInv'
    BY <1>2, <2>1, <2>2, <2>3 DEF ImagesInv
  <2>5. QED
    BY <2>1, <2>4 DEF LoadInv
<1>8. QED
  BY <1>3, <1>4, <1>5, <1>6, <1>7

\* The invariant of loading: the images of what runs, and those loaded so far of what is
\* being booted, are in place.
THEOREM LoadInvariant == Placed /\ Spec => [](Placed /\ LoadInv)
<1>1. Init => LoadInv
  <2> SUFFICES ASSUME Init PROVE LoadInv
    OBVIOUS
  <2>1. pc = "select" /\ requests = {} /\ up = {} /\ dram = [a \in 0 .. (DramSz - 1) |-> Empty]
    BY DEF Init
  <2>2. QED
    BY <2>1 DEF LoadInv, ImagesInv
<1>2. Placed /\ LoadInv /\ [Next]_vars => (Placed /\ LoadInv)'
  <2> SUFFICES ASSUME Placed, LoadInv, [Next]_vars PROVE Placed' /\ LoadInv'
    OBVIOUS
  <2>1. UNCHANGED card
    BY DEF Next, Bl0, Select, LoadBlob, LoadImage, Check, Move, Start, Handle, LoadNext, Release,
           Hang, trchVars, vars
  <2>2. Placed'
    BY <2>1, CardKept
  <2>3. CASE Bl0 \/ Start \/ Handle \/ Release \/ UNCHANGED vars
    BY <2>2, <2>3, OtherSteps
  <2>4. CASE LoadNext
    BY <2>2, <2>4, LoadNextStep
  <2>5. CASE \E s \in Subs : Hang(s)
    BY <2>2, <2>5, HangStep
  <2>6. QED
    BY <2>2, <2>3, <2>4, <2>5 DEF Next
<1>3. QED
  BY <1>1, <1>2, PTL DEF Spec

\* While a subsystem runs, its images are in memory as they are stored, whatever was loaded
\* for the other one since and whatever the other one did when it hung.
THEOREM ImagesStayInPlace == Placed /\ Spec => []ImagesInPlace
<1>1. LoadInv => ImagesInPlace
  BY DEF LoadInv, ImagesInv, InPlace, ImagesInPlace
<1>2. QED
  BY <1>1, LoadInvariant, PTL

-----------------------------------------------------------------------------
(* Types                                                                    *)

\* TRCH loads only lists of at most MaxBlobs images.
TypeInv ==
  /\ TypeOK
  /\ pc \in {"idle", "load", "boot"} => \A s \in Subs : Len(card.lists[s]) <= MaxBlobs

\* What BL0 stores has its type.
LEMMA Bl0Typed ==
  ASSUME NorSelected, TypeInv, Bl0, DOMAIN ram' = 0 .. (RamSz - 1)
  PROVE  TypeInv'
<1>1. UNCHANGED trchVars /\ pc' \in {"blob", "image", "check", "move", "start", "dead"}
  BY DEF Bl0, Select, LoadBlob, LoadImage, Check, NextCopy, Move
<1>2. chip' \in 0 .. 4 /\ backup' \in 0 .. 4 /\ ready' \subseteq 0 .. 4
  <2>1. CASE Select /\ ParityOk(sel)
    <3>1. PICK c \in Chips(sel) : chip' = c[1] /\ backup' = c[2] /\ ready' = Configured(c)
      BY <2>1 DEF Select
    <3>2. MemType(sel) = 0
      BY DEF MemType, NorSelected
    <3>3. c = <<sel.rank, (sel.rank + 1) % 2>>
      BY <3>1, <3>2 DEF Chips, Both, Nor, NorSelected
    <3>4. sel.rank \in 0 .. 1 /\ (sel.rank + 1) % 2 \in 0 .. 1
      BY DEF NorSelected
    <3>5. QED
      BY <3>1, <3>3, <3>4 DEF Configured, NorSelected
  <2>2. CASE ~(Select /\ ParityOk(sel))
    <3>1. UNCHANGED ready /\ backup' = backup /\ chip' \in {chip, backup}
      BY <2>2 DEF Bl0, Select, LoadBlob, LoadImage, Check, NextCopy, Move
    <3>2. QED
      BY <3>1 DEF TypeInv, TypeOK
  <2>3. QED
    BY <2>1, <2>2
<1>3. i' \in 0 .. 1 /\ j' \in 0 .. (Copies - 1)
  <2>1. i \in 0 .. 1 /\ j \in 0 .. (Copies - 1) /\ Copies = 2 /\ Ranks2Try(sel) \in 1 .. 2
    BY DEF TypeInv, TypeOK, Copies, Ranks2Try
  <2>2. CASE Check
    BY <2>1, <2>2 DEF Check, NextCopy
  <2>3. CASE ~Check
    <3>1. UNCHANGED <<i, j>>
      BY <2>3 DEF Bl0, Select, LoadBlob, LoadImage, Move
    <3>2. QED
      BY <2>1, <3>1
  <2>4. QED
    BY <2>2, <2>3
<1>4. QED
  BY <1>1, <1>2, <1>3 DEF TypeInv, TypeOK, trchVars

\* What TRCH stores has its type: the index of the next image stays within a list and its end.
LEMMA TrchTyped ==
  ASSUME Placed, LoadInv, TypeInv, DOMAIN dram' = 0 .. (DramSz - 1),
         Start \/ Handle \/ LoadNext \/ Release \/ \E s \in Subs : Hang(s)
  PROVE  TypeInv'
<1>1. UNCHANGED bl0Vars /\ UNCHANGED card
  BY DEF Start, Handle, LoadNext, Release, Hang
<1>2. Subs = {1, 2} /\ MaxBlobs \in Nat \ {0}
  BY BootAssumption
<1>3. \A s \in Subs : Len(card.lists[s]) \in Nat
  BY DEF Placed
<1>4. CASE Start
  <2>1. UNCHANGED <<card, sub, n, dram, up>>
    BY <1>4 DEF Start
  <2>2. CASE \E s \in Subs : Len(card.lists[s]) > MaxBlobs
    <3>1. pc' = "panic" /\ UNCHANGED requests
      BY <1>4, <2>2 DEF Start
    <3>2. QED
      BY <1>1, <2>1, <3>1 DEF TypeInv, TypeOK, bl0Vars
  <2>3. CASE ~\E s \in Subs : Len(card.lists[s]) > MaxBlobs
    <3>1. pc' = "idle" /\ requests' = Subs
      BY <1>4, <2>3 DEF Start
    <3>2. \A s \in Subs : Len(card.lists[s]) <= MaxBlobs
      BY <1>2, <1>3, <2>3
    <3>3. QED
      BY <1>1, <2>1, <3>1, <3>2 DEF TypeInv, TypeOK, bl0Vars
  <2>4. QED
    BY <2>2, <2>3
<1>5. CASE Handle
  BY <1>1, <1>2, <1>5 DEF Handle, TypeInv, TypeOK, bl0Vars
<1>6. CASE LoadNext
  <2>1. sub \in Subs /\ Len(card.lists[sub]) <= MaxBlobs /\ Len(card.lists[sub]) \in Nat
    BY <1>3, <1>6 DEF LoadNext, LoadInv, TypeInv
  <2>2. n \in 1 .. (MaxBlobs + 1) /\ pc = "load"
    BY <1>6 DEF TypeInv, TypeOK, LoadNext
  <2>3. n' \in 1 .. (MaxBlobs + 1) /\ pc' \in {"load", "boot", "lost", "panic"}
    BY <1>2, <1>6, <2>1, <2>2 DEF LoadNext
  <2>4. UNCHANGED <<card, requests, sub, up>>
    BY <1>6 DEF LoadNext
  <2>5. QED
    BY <1>1, <2>2, <2>3, <2>4 DEF TypeInv, TypeOK, bl0Vars
<1>7. CASE Release
  BY <1>1, <1>7 DEF Release, TypeInv, TypeOK, LoadInv, bl0Vars
<1>8. CASE \E s \in Subs : Hang(s)
  BY <1>1, <1>8 DEF Hang, TypeInv, TypeOK, bl0Vars
<1>9. QED
  BY <1>4, <1>5, <1>6, <1>7, <1>8

\* The types of the state of BL0 and of TRCH, for every boot that reads the NOR memories.
THEOREM BootTyped ==
  NorSelected /\ CopiesFit /\ Placed /\ Spec => []TypeOK
<1>1. Init => TypeInv
  <2> SUFFICES ASSUME Init PROVE TypeInv
    OBVIOUS
  <2>1. /\ pc = "select" /\ chip = 0 /\ backup = 0 /\ ready = {} /\ i = 0 /\ j = 0
        /\ requests = {} /\ sub = 0 /\ n = 1 /\ up = {}
        /\ DOMAIN ram = 0 .. (RamSz - 1) /\ DOMAIN dram = 0 .. (DramSz - 1)
    BY DEF Init
  <2>2. QED
    BY <2>1, BootAssumption DEF TypeInv, TypeOK, Copies
<1>2. /\ NorSelected /\ CopiesFit /\ SearchInv /\ SearchInv' /\ Placed /\ LoadInv /\ LoadInv'
      /\ TypeInv /\ [Next]_vars
      => TypeInv'
  <2> SUFFICES ASSUME NorSelected, SearchInv', Placed, LoadInv, LoadInv', TypeInv, [Next]_vars
               PROVE  TypeInv'
    OBVIOUS
  <2>1. DOMAIN ram' = 0 .. (RamSz - 1) /\ DOMAIN dram' = 0 .. (DramSz - 1)
    BY DEF SearchInv, LoadInv
  <2>2. CASE Bl0
    BY <2>1, <2>2, Bl0Typed
  <2>3. CASE Start \/ Handle \/ LoadNext \/ Release \/ \E s \in Subs : Hang(s)
    BY <2>1, <2>3, TrchTyped
  <2>4. CASE UNCHANGED vars
    BY <2>4 DEF TypeInv, TypeOK, vars, bl0Vars, trchVars
  <2>5. QED
    BY <2>2, <2>3, <2>4 DEF Next
<1>3. TypeInv => TypeOK
  BY DEF TypeInv
<1>4. QED
  BY <1>1, <1>2, <1>3, SearchInvariant, LoadInvariant, PTL DEF Spec


\* T is what can be reached from the root, by one path each.
Tree(m, r, T) ==
  /\ RootTable(r) \in T /\ \A t \in T : t.level = FirstLevel => t = RootTable(r)
  /\ \A t \in T : t.level # MaxLevel =>
       \A s \in Slots(t.level) : IsTable(m[t.addr][s]) => Below(m, t, s) \in T
  /\ \A u \in T : u.level # FirstLevel =>
       \E t \in T : /\ t.level = u.level - 1
                    /\ \E s \in Slots(t.level) : IsTable(m[t.addr][s]) /\ u = Below(m, t, s)

\* No two tables are in one place, or for one block.
Apart(T) == \A t, u \in T : t.addr = u.addr \/ (t.level = u.level /\ t.at = u.at) => t = u

\* The free blocks and the tables of T are the area, without overlap.
Starts == Tables \cup {Size(FirstLevel)}
Shape(f) ==
  /\ f \in [Entries -> [addr : Nat, size : Nat \ {0}] \cup {None}]
  /\ \A k \in Entries : f[k] # None => f[k].addr \in Starts /\ f[k].addr + f[k].size <= AreaSize
  /\ \A k, e \in Entries : \A u \in Units(f[k]) : u \in Units(f[e]) => k = e
Area(f, T) ==
  /\ Shape(f)
  /\ \A k \in Entries : \A u \in Units(f[k]) : \A t \in T : u \notin Extent(t)
  /\ \A u \in 0 .. (AreaSize - 1) : (\E k \in Entries : u \in Units(f[k])) \/ \E t \in T : u \in Extent(t)

\* The block of level l that the call is at starts there, and is not larger than what
\* is left.
Fits(l) == va % Block(l) = 0 /\ sz >= Block(l)

\* A call is in its region, and not inside a block that the region covers; on the walk
\* down no block has fitted.
CallInv ==
  /\ req \in Calls /\ \E r \in AllRegions : r.va = req.va /\ r.sz = req.sz
  /\ PagesOf(req) \subseteq Pages
  /\ req.call = IF busy = "map" THEN "map" ELSE "unmap"
  /\ req.va <= va /\ va + sz = req.va + req.sz /\ sz # 0
  /\ \A l \in Levels : Covers(req, l, va \div Block(l)) => va % Block(l) = 0
  /\ \A l \in Levels : l < level => ~Fits(l)
  /\ busy = "back" => AtLeaf

\* The walk down is at a table of T.
DownInv(T) ==
  \E t \in T : t.addr = pt /\ t.level = level /\ (t.level # FirstLevel => t.at = va \div Block(level - 1))

\* The way back goes through descriptors of T, each leading to the next table.
NextOn(k) == IF k = Len(walk) THEN pt ELSE walk[k + 1].pt
BackInv(T) ==
  /\ BackLevel <= level
  /\ \E t \in T : t.addr = pt /\ t.level = BackLevel
  /\ \A k \in 1 .. Len(walk) :
       /\ \E t \in T : t.addr = walk[k].pt /\ t.level = FirstLevel + k - 1
       /\ walk[k].index \in Slots(FirstLevel + k - 1)
       /\ mem[walk[k].pt][walk[k].index] = TableDesc(NextOn(k))

\* No block of the region that is unmapped has a table.
ClearInv(T) == \A t \in T : t.level # FirstLevel => ~Covers(req, t.level - 1, t.at)

\* Where the functions of trch/mmus.c are.
StageInv ==
  /\ (root # None) <=> stage \in {"init", "up", "undo", "deinit"}
  /\ root # None => root = 0
  /\ busy # "idle" => root # None
  /\ busy = "start" => stage # "up" /\ nth # 0
  /\ stage = "init" => nth # 0
  /\ stage = "down" => todo = {}
  /\ busy # "lost"

\* The tables of T are those in use.
Stored(T) ==
  /\ T \subseteq TableRecs /\ Apart(T) /\ Area(free, T)
  /\ IF root = None THEN T = todo
     ELSE Tree(mem, root, T) /\ \A t \in T : <<t.level, t.at>> \in Needed

\* mmu_map and mmu_unmap are where they can be.
Calling(T) ==
  /\ busy \in {"map", "unmap", "back"} => CallInv
  /\ busy \in {"map", "unmap"} => DownInv(T)
  /\ busy \in {"unmap", "back"} => BackInv(T) /\ ClearInv(T)
  /\ busy = "unmap" => BackLevel = level

\* The type invariant, by the parts that the steps change.
TablesTyped ==
  /\ free \in [Entries -> [addr : Nat, size : Nat \ {0}] \cup {None}]
  /\ mem \in [Tables -> [0 .. (PtAlign - 1) -> Descs \cup {None}]]
  /\ root \in Tables \cup {None} /\ todo \subseteq TableRecs
StageTyped ==
  /\ enabled \in BOOLEAN /\ smr \subseteq Streams
  /\ stage \in {"down", "init", "up", "deinit", "undo", "destroy"}
  /\ boot \in BootLists /\ nth \in 0 .. Len(boot)
CallTyped ==
  /\ busy \in {"idle", "start", "map", "unmap", "back", "lost"}
  /\ req \in Calls \cup {None} /\ va \in Nat /\ pa \in Nat /\ sz \in Nat
  /\ level \in Levels /\ pt \in Tables \cup {None} /\ rc \in {0, -1}
  /\ walk \in Seq([pt : Tables, index : 0 .. (PtAlign - 1)])

Good(T) == TablesTyped /\ StageTyped /\ CallTyped /\ StageInv /\ Stored(T) /\ Calling(T)

\* Division with a remainder.
LEMMA DivMod ==
  ASSUME NEW x \in Nat, NEW b \in Nat \ {0}
  PROVE  x \div b \in Nat /\ x % b \in 0 .. (b - 1) /\ x = (x \div b) * b + (x % b)
<1>1. x % b \in 0 .. (b - 1) OBVIOUS
<1>2. x \div b \in Int OBVIOUS
<1>3. x = (x \div b) * b + (x % b)
  <2>1. \A y, c \in Int : c > 0 => y = (y \div c) * c + (y % c) OBVIOUS
  <2>2. x \in Int /\ b \in Int /\ b > 0 OBVIOUS
  <2> QED BY <2>1, <2>2
<1>4. x \div b >= 0 BY <1>1, <1>2, <1>3
<1> QED BY <1>1, <1>2, <1>3, <1>4

\* A number has one quotient and one remainder,
LEMMA Quot ==
  ASSUME NEW b \in Nat \ {0}, NEW q \in Nat, NEW r \in 0 .. (b - 1), NEW p \in Nat, NEW s \in 0 .. (b - 1),
         q * b + r = p * b + s
  PROVE  q = p /\ r = s
<1>1. CASE q = p BY <1>1
<1>2. CASE q > p
  <2>1. (q - p) * b >= b BY <1>2
  <2>2. (q - p) * b = s - r OBVIOUS
  <2> QED BY <2>1, <2>2
<1>3. CASE q < p
  <2>1. (p - q) * b >= b BY <1>3
  <2>2. (p - q) * b = r - s OBVIOUS
  <2> QED BY <2>1, <2>2
<1> QED BY <1>1, <1>2, <1>3

\* Dividing twice is dividing by the product.
LEMMA DivDiv ==
  ASSUME NEW b \in Nat \ {0}, NEW s \in Nat \ {0}, NEW x \in Nat
  PROVE  (x \div b) \div s = x \div (s * b)
<1> DEFINE q == x \div b
           r == x % b
           c == q \div s
           e == q % s
           m == s * b
<1>1. q \in Nat /\ r \in 0 .. (b - 1) /\ x = q * b + r BY DivMod
<1>2. c \in Nat /\ e \in 0 .. (s - 1) /\ q = c * s + e BY <1>1, DivMod
<1>3. m \in Nat \ {0} OBVIOUS
<1>4. x \div m \in Nat /\ x % m \in 0 .. (m - 1) /\ x = (x \div m) * m + (x % m)
  <2> HIDE DEF m
  <2> QED BY <1>3, DivMod
<1> HIDE DEF q, r, c, e
<1>5. x = c * m + (e * b + r)
  <2>1. \A u, v, w \in Int : (u + v) * w = u * w + v * w OBVIOUS
  <2>2. (c * s) * b = c * m BY <1>2
  <2>3. q * b = (c * s) * b + e * b BY <1>1, <1>2, <2>1
  <2> QED BY <2>2, <2>3, <1>1, <1>2
<1>6. e * b + r \in 0 .. (m - 1)
  <2>1. e * b <= (s - 1) * b BY <1>2
  <2>2. (s - 1) * b = m - b OBVIOUS
  <2>3. e * b >= 0 BY <1>2
  <2>4. e * b \in Int BY <1>2
  <2> HIDE DEF m
  <2> QED BY <2>1, <2>2, <2>3, <2>4, <1>1, <1>2, <1>3
<1>7. x \div m = c
  <2> HIDE DEF m
  <2> QED BY <1>2, <1>3, <1>4, <1>5, <1>6, Quot
<1> QED BY <1>7, Zenon DEF q, c, m
\* so they can be read off a sum,
LEMMA QuotIs ==
  ASSUME NEW b \in Nat \ {0}, NEW q \in Nat, NEW r \in 0 .. (b - 1), NEW x \in Nat, x = q * b + r
  PROVE  x \div b = q /\ x % b = r
<1> DEFINE p == x \div b
           o == x % b
<1>1. p \in Nat /\ o \in 0 .. (b - 1) /\ x = p * b + o
  BY DivMod
<1> HIDE DEF p, o
<1>2. p = q /\ o = r
  BY <1>1, Quot
<1>3. QED
  BY <1>2 DEF p, o

\* What divides two numbers divides their sum; what divides a number divides its
\* multiples.
LEMMA Divides ==
  ASSUME NEW c \in Nat \ {0}, NEW x \in Nat, x % c = 0, NEW y \in Nat
  PROVE  /\ y % c = 0 => (x + y) % c = 0
         /\ x # 0 /\ y % x = 0 => y % c = 0
<1> DEFINE p == x \div c
           q == y \div c
           o == y \div x
<1>1. p \in Nat /\ x = p * c
  BY DivMod
<1>2. ASSUME y % c = 0 PROVE (x + y) % c = 0
  <2>1. q \in Nat /\ y = q * c
    BY <1>2, DivMod
  <2> HIDE DEF p, q
  <2>2. (p + q) * c = p * c + q * c
    BY <1>1, <2>1
  <2> DEFINE z == x + y
  <2>3. z \in Nat /\ z = (p + q) * c + 0 /\ p + q \in Nat
    BY <1>1, <2>1, <2>2
  <2> HIDE DEF z
  <2>4. z % c = 0
    BY <2>3, QuotIs
  <2>5. QED
    BY <2>4 DEF z
<1>3. ASSUME x # 0, y % x = 0 PROVE y % c = 0
  <2>1. o \in Nat /\ y = o * x
    BY <1>3, DivMod
  <2> HIDE DEF p, o
  <2>2. o * (p * c) = (o * p) * c
    BY <1>1, <2>1
  <2>3. y = (o * p) * c + 0 /\ o * p \in Nat
    BY <1>1, <2>1, <2>2
  <2>4. QED
    BY <2>3, QuotIs
<1>4. QED
  BY <1>2, <1>3

\* Two multiples are apart by the number at least.
LEMMA Multiples ==
  ASSUME NEW b \in Nat \ {0}, NEW x \in Nat, x % b = 0, NEW y \in Nat, y % b = 0, x < y
  PROVE  x + b <= y
<1> DEFINE p == x \div b
           q == y \div b
<1>1. p \in Nat /\ q \in Nat /\ x = p * b /\ y = q * b
  BY DivMod
<1> HIDE DEF p, q
<1>2. ~(q <= p)
  <2> SUFFICES ASSUME q <= p PROVE q * b <= p * b
    BY <1>1
  <2>1. QED
    BY <1>1
<1>3. (p + 1) * b <= q * b /\ (p + 1) * b = p * b + b
  BY <1>1, <1>2
<1>4. QED
  BY <1>1, <1>3

\* A non-empty set of naturals has a least one.
LEMMA LeastOf ==
  ASSUME NEW m \in Nat, NEW S \in SUBSET (0 .. m), S # {}
  PROVE  FirstOf(S) \in S /\ \A y \in S : FirstOf(S) <= y
<1> SUFFICES \E x \in S : \A y \in S : x <= y
  BY DEF FirstOf
<1> SUFFICES ASSUME \A x \in S : \E y \in S : y < x PROVE FALSE
  OBVIOUS
<1> DEFINE L == {w \in 0 .. m : \A x \in S : w < x}
<1>1. 0 \in L
  <2>1. \A x \in S : 0 < x
    OBVIOUS
  <2>2. QED
    BY <2>1
<1>2. \A w \in L : w < m => w + 1 \in L
  <2> SUFFICES ASSUME NEW w \in L, w < m PROVE \A x \in S : w + 1 < x
    OBVIOUS
  <2>1. \A x \in S : w + 1 <= x
    OBVIOUS
  <2>2. w + 1 \notin S
    BY <2>1
  <2>3. QED
    BY <2>1, <2>2
<1>3. L = 0 .. m
  BY <1>1, <1>2, IntervalInduction
<1>4. m \in L
  BY <1>3
<1>5. PICK x \in S : TRUE
  OBVIOUS
<1>6. m < x
  BY <1>4
<1>7. QED
  BY <1>5, <1>6

\* FirstOf finds the first entry of a set of them.
LEMMA LeastExists ==
  ASSUME NEW m \in Nat, NEW S \in SUBSET (1 .. m), S # {}
  PROVE  FirstOf(S) \in S /\ \A y \in S : FirstOf(S) <= y
<1>1. S \in SUBSET (0 .. m)
  OBVIOUS
<1>2. QED
  BY <1>1, LeastOf

\* The assumption about powers of two, with what it says of alignments and levels.
LEMMA PowersAre ==
  /\ PtAlign \in Nat \ {0} /\ Levels \subseteq Nat /\ FirstLevel \in Levels /\ MaxLevel \in Levels
  /\ \A l \in Levels : Block(l) \in Nat \ {0} /\ Size(l) \in Nat \ {0} /\ Size(l) <= PtAlign
  /\ \A l \in Levels \ {FirstLevel} : Size(l) = PtAlign /\ l - 1 \in Levels
<1>1. MaxLevel \in Levels \ {FirstLevel} /\ FirstLevel \in Levels /\ Levels \subseteq Nat
  BY TablesAssumption DEF Levels
<1>2. \A l \in Levels \ {FirstLevel} : l - 1 \in Levels
  BY TablesAssumption DEF Levels
<1>3. QED
  BY <1>1, <1>2, PowersAssumption

\* Tables start at the multiples of the alignment, and have room up to the next one.
LEMMA TablesAre ==
  /\ AreaSize \in Nat \ {0} /\ 0 \in Tables /\ Tables \subseteq Nat
  /\ \A a \in Tables : a % PtAlign = 0 /\ a + PtAlign <= AreaSize
  /\ \A a \in Tables : a + PtAlign # AreaSize => a + PtAlign \in Tables
  /\ \A a, b \in Tables : a < b => a + PtAlign <= b
<1>1. AreaSize \in Nat \ {0} /\ AreaSize % PtAlign = 0
  BY PowersAre, TablesAssumption
<1>2. Tables \subseteq Nat /\ \A a \in Tables : a % PtAlign = 0 /\ a < AreaSize
  BY <1>1 DEF Tables
<1>3. 0 % PtAlign = 0 /\ PtAlign % PtAlign = 0
  BY PowersAre
<1>4. \A a \in Tables : a + PtAlign <= AreaSize
  BY <1>1, <1>2, PowersAre, Multiples
<1>5. \A a \in Tables : (a + PtAlign) % PtAlign = 0
  BY <1>2, <1>3, PowersAre, Divides
<1>6. \A a, b \in Tables : a < b => a + PtAlign <= b
  BY <1>2, PowersAre, Multiples
<1>7. 0 \in Tables
  BY <1>1, <1>3 DEF Tables
<1>8. ASSUME NEW a \in Tables, a + PtAlign # AreaSize PROVE a + PtAlign \in Tables
  <2>1. a + PtAlign \in 0 .. (AreaSize - 1)
    BY <1>1, <1>2, <1>4, <1>8, PowersAre
  <2>2. (a + PtAlign) % PtAlign = 0
    BY <1>5
  <2>3. QED
    BY <2>1, <2>2 DEF Tables
<1>9. QED
  BY <1>1, <1>2, <1>4, <1>6, <1>7, <1>8

-----------------------------------------------------------------------------
(* The allocator                                                            *)

\* A table lies between its address and the next multiple of the alignment.
LEMMA ExtentIs ==
  ASSUME NEW t \in TableRecs
  PROVE  /\ t.addr \in Tables /\ t.addr \in Nat /\ t.level \in Levels /\ Size(t.level) \in Nat \ {0}
         /\ Size(t.level) <= PtAlign /\ t.addr + PtAlign <= AreaSize
         /\ \A u : u \in Extent(t) <=> u \in Nat /\ t.addr <= u /\ u < t.addr + Size(t.level)
<1>1. t.addr \in Tables /\ t.addr \in Nat /\ t.level \in Levels
  BY TablesAre DEF TableRecs
<1>2. Size(t.level) \in Nat \ {0} /\ Size(t.level) <= PtAlign /\ t.addr + PtAlign <= AreaSize
  BY <1>1, PowersAre, TablesAre
<1>3. QED
  BY <1>1, <1>2 DEF Extent

\* The units of an entry of free_blocks[], as an interval.
LEMMA UnitsAre ==
  ASSUME NEW f, Shape(f), NEW k \in Entries
  PROVE  /\ f[k] = None => Units(f[k]) = {}
         /\ f[k] # None =>
              /\ f[k].addr \in Starts /\ f[k].addr \in Nat /\ f[k].size \in Nat \ {0}
              /\ f[k].addr + f[k].size <= AreaSize
              /\ \A u : u \in Units(f[k]) <=> u \in Nat /\ f[k].addr <= u /\ u < f[k].addr + f[k].size
<1>1. ASSUME f[k] # None PROVE f[k].addr \in Starts /\ f[k].addr \in Nat /\ f[k].size \in Nat \ {0} /\ f[k].addr + f[k].size <= AreaSize
  BY <1>1 DEF Shape
<1>2. QED
  BY <1>1 DEF Units

\* A free block starts at a multiple of the alignment, or right behind the (smaller) root.
LEMMA StartsAre ==
  /\ Starts \subseteq Nat
  /\ \A x \in Starts : x % PtAlign # 0 => x = Size(FirstLevel) /\ 0 < x /\ x < PtAlign /\ x % PtAlign = x
  /\ \A x \in Starts, a \in Tables : a < x => a + PtAlign <= x \/ (a = 0 /\ x < PtAlign)
<1> DEFINE s == Size(FirstLevel)
<1>1. s \in Nat \ {0} /\ s <= PtAlign /\ PtAlign \in Nat \ {0}
  BY PowersAre
<1>2. Starts = Tables \cup {s}
  BY DEF Starts
<1> HIDE DEF s
<1>3. PtAlign % PtAlign = 0 /\ (s < PtAlign => s % PtAlign = s)
  BY <1>1
<1>4. \A x \in Starts : x % PtAlign # 0 => x = s /\ 0 < x /\ x < PtAlign /\ x % PtAlign = x
  BY <1>1, <1>2, <1>3, TablesAre
<1>5. \A a \in Tables : a < s => a = 0
  BY <1>1, TablesAre
<1>6. \A x \in Starts, a \in Tables : a < x => a + PtAlign <= x \/ (a = 0 /\ x < PtAlign)
  BY <1>1, <1>2, <1>5, TablesAre
<1>7. QED
  BY <1>1, <1>2, <1>4, <1>6, TablesAre DEF s

\* No table is where a free block starts.
LEMMA NoTableAt ==
  ASSUME NEW T, T \subseteq TableRecs, NEW f, Area(f, T), NEW k \in Entries, f[k] # None
  PROVE  \A u \in T : u.addr # f[k].addr
<1>1. f[k].addr \in Units(f[k])
  BY UnitsAre DEF Area
<1>2. \A u \in T : u.addr \in Extent(u)
  BY ExtentIs
<1>3. QED
  BY <1>1, <1>2 DEF Area

\* A table at the start of a free block that is large enough.
LEMMA CutExact ==
  ASSUME NEW T, T \subseteq TableRecs, NEW f, Area(f, T),
         NEW t \in TableRecs, t.level = FirstLevel => t.addr = 0, NEW U, U = T \cup {t},
         NEW s, s = Size(t.level),
         NEW k \in Entries, f[k] # None, f[k].addr = t.addr, f[k].size >= s
  PROVE  Area(Cut(f, k, s).free, U)
<1> DEFINE g == Cut(f, k, s).free
           v == [addr |-> f[k].addr + s, size |-> f[k].size - s]
<1>1. g = [f EXCEPT ![k] = IF f[k].size = s THEN None ELSE v]
  BY DEF Cut
<1>2. /\ s \in Nat \ {0} /\ t.addr \in Nat /\ t.addr + PtAlign <= AreaSize /\ s <= PtAlign /\ t.addr \in Tables
      /\ f[k].size >= s
      /\ \A u : u \in Extent(t) <=> u \in Nat /\ t.addr <= u /\ u < t.addr + s
  BY ExtentIs
<1> HIDE DEF g, v
<1>3. Shape(f)
  BY DEF Area
<1>4. /\ f[k].size \in Nat \ {0} /\ f[k].addr + f[k].size <= AreaSize
      /\ \A u : u \in Units(f[k]) <=> u \in Nat /\ t.addr <= u /\ u < t.addr + f[k].size
  BY <1>3, UnitsAre
<1>5. ASSUME f[k].size # s
      PROVE  /\ v \in [addr : Nat, size : Nat \ {0}] /\ v # None /\ v.addr = t.addr + s
             /\ v.addr + v.size <= AreaSize /\ v.addr + v.size = t.addr + f[k].size /\ v.addr \in Starts
  <2>1. v \in [addr : Nat, size : Nat \ {0}] /\ v.addr = t.addr + s /\ v.size = f[k].size - s
    BY <1>2, <1>4, <1>5 DEF v
  <2>2. v # None
    BY <2>1, BallocAssumption
  <2>3. v.addr \in Starts
    <3>1. CASE t.level = FirstLevel
      BY <2>1, <3>1, <1>2 DEF Starts
    <3>2. CASE t.level # FirstLevel
      <4>1. s = PtAlign
        BY <3>2, PowersAre, ExtentIs
      <4>2. QED
        BY <1>2, <1>4, <1>5, <2>1, <4>1, TablesAre DEF Starts
    <3>3. QED
      BY <3>1, <3>2
  <2>4. QED
    BY <1>2, <1>4, <2>1, <2>2, <2>3
<1>6. /\ g \in [Entries -> [addr : Nat, size : Nat \ {0}] \cup {None}]
      /\ g[k] = (IF f[k].size = s THEN None ELSE v) /\ \A e \in Entries \ {k} : g[e] = f[e]
  BY <1>1, <1>3, <1>5 DEF Shape
<1>7. \A u : u \in Units(g[k]) <=> u \in Nat /\ t.addr + s <= u /\ u < t.addr + f[k].size
  <2>1. CASE f[k].size = s
    BY <1>2, <1>6, <2>1 DEF Units
  <2>2. CASE f[k].size # s
    BY <1>2, <1>4, <1>5, <1>6, <2>2 DEF Units
  <2>3. QED
    BY <2>1, <2>2
<1>8. /\ \A u \in Units(g[k]) : u \in Units(f[k]) /\ u \notin Extent(t)
      /\ \A u \in Extent(t) : u \in Units(f[k])
      /\ \A u \in Units(f[k]) : u \in Units(g[k]) \/ u \in Extent(t)
  BY <1>2, <1>4, <1>7
<1>9. Shape(g)
  <2>1. \A e \in Entries : g[e] # None => g[e].addr \in Starts /\ g[e].addr + g[e].size <= AreaSize
    BY <1>3, <1>5, <1>6 DEF Shape
  <2>2. \A e \in Entries : \A u \in Units(g[e]) : u \in Units(f[e])
    BY <1>6, <1>8
  <2>3. \A e, o \in Entries : \A u \in Units(g[e]) : u \in Units(g[o]) => e = o
    BY <1>3, <2>2 DEF Shape
  <2>4. QED
    BY <1>6, <2>1, <2>3 DEF Shape
<1>10. \A e \in Entries : \A u \in Units(g[e]) : \A o \in U : u \notin Extent(o)
  <2>1. \A e \in Entries : \A u \in Units(g[e]) : u \in Units(f[e])
    BY <1>6, <1>8
  <2>2. \A e \in Entries : \A u \in Units(g[e]) : u \notin Extent(t)
    BY <1>3, <1>6, <1>8 DEF Shape
  <2>3. QED
    BY <2>1, <2>2 DEF Area
<1>11. \A u \in 0 .. (AreaSize - 1) : (\E e \in Entries : u \in Units(g[e])) \/ \E o \in U : u \in Extent(o)
  BY <1>6, <1>8 DEF Area
<1>12. QED
  BY <1>9, <1>10, <1>11 DEF Area, g

\* The same, of a table below the root: what BallocAlloc takes for it.
LEMMA CutAt ==
  ASSUME NEW T, T \subseteq TableRecs, NEW f, Area(f, T),
         NEW t \in TableRecs, t.level # FirstLevel,
         NEW k \in Entries, f[k] # None, f[k].addr = t.addr, f[k].size >= Size(t.level)
  PROVE  Area(Cut(f, k, Size(t.level)).free, T \cup {t})
<1> DEFINE s == Size(t.level)
           U == T \cup {t}
<1>1. s = Size(t.level) /\ U = T \cup {t} /\ f[k].size >= s /\ (t.level = FirstLevel => t.addr = 0)
  OBVIOUS
<1> HIDE DEF s, U
<1>2. Area(Cut(f, k, s).free, U)
  BY <1>1, CutExact
<1>3. QED
  BY <1>1, <1>2

\* A free block that does not start where a table may is split there.
LEMMA SplitExact ==
  ASSUME NEW T, NEW f, Area(f, T), NEW s \in Nat \ {0},
         NEW k \in Entries, f[k] # None, f[k].addr % PtAlign # 0,
         f[k].size >= s + Padding(f[k].addr, PtAlign),
         NEW e \in Entries, f[e] = None
  PROVE  LET g == Split(f, k, e, Padding(f[k].addr, PtAlign)) IN
         Area(g, T) /\ g[e] # None /\ g[e].addr \in Tables /\ g[e].addr # 0 /\ g[e].size >= s
<1> DEFINE x == f[k].addr
           y == f[k].size
           p == Padding(x, PtAlign)
           g == Split(f, k, e, p)
           v == [addr |-> x, size |-> p]
           w == [addr |-> x + p, size |-> y - p]
<1>1. Shape(f) /\ k # e
  BY DEF Area
<1>2. /\ x \in Starts /\ x \in Nat /\ y \in Nat \ {0} /\ x + y <= AreaSize
      /\ \A u : u \in Units(f[k]) <=> u \in Nat /\ x <= u /\ u < x + y
  BY <1>1, UnitsAre
<1>3. 0 < x /\ x < PtAlign /\ x % PtAlign = x /\ PtAlign \in Nat \ {0}
  BY <1>2, StartsAre, PowersAre
<1>4. p = PtAlign - x /\ y >= s + p
  <2>1. p = (PtAlign - x) % PtAlign
    BY <1>3 DEF Padding
  <2>2. QED
    BY <1>2, <1>3, <2>1
<1>5. f[k] \in [addr : Nat, size : Nat \ {0}]
  BY <1>1 DEF Shape
<1>6. g = [f EXCEPT ![k] = v, ![e] = w]
  <2>1. [f[k] EXCEPT !.size = p] = v
    BY <1>5 DEF v
  <2>2. QED
    BY <1>1, <2>1 DEF Split
<1> HIDE DEF p, g, x, y
<1>7. v \in [addr : Nat, size : Nat \ {0}] /\ w \in [addr : Nat, size : Nat \ {0}] /\ v # None /\ w # None
  BY <1>2, <1>3, <1>4, BallocAssumption
<1>8. /\ v.addr = x /\ v.size = p /\ w.addr = PtAlign /\ w.size = y - p
  BY <1>2, <1>3, <1>4
<1>9. PtAlign \in Tables
  BY <1>2, <1>3, <1>4, TablesAre
<1> HIDE DEF v, w
<1>10. /\ g \in [Entries -> [addr : Nat, size : Nat \ {0}] \cup {None}]
       /\ g[k] = v /\ g[e] = w /\ \A o \in Entries \ {k, e} : g[o] = f[o]
  BY <1>1, <1>6, <1>7 DEF Shape
<1>11. /\ \A u : u \in Units(g[k]) <=> u \in Nat /\ x <= u /\ u < PtAlign
       /\ \A u : u \in Units(g[e]) <=> u \in Nat /\ PtAlign <= u /\ u < x + y
  BY <1>2, <1>3, <1>4, <1>7, <1>8, <1>10 DEF Units
<1>12. /\ \A u : u \in Units(f[k]) <=> u \in Units(g[k]) \/ u \in Units(g[e])
       /\ \A u \in Units(g[k]) : u \notin Units(g[e])
  BY <1>2, <1>3, <1>4, <1>11
<1>13. \A o \in Entries : \A u \in Units(g[o]) : u \in Units(f[IF o = e THEN k ELSE o])
  BY <1>10, <1>12
<1>14. Shape(g)
  <2>1. \A o \in Entries : g[o] # None => g[o].addr \in Starts /\ g[o].addr + g[o].size <= AreaSize
    <3>1. g[k].addr \in Starts /\ g[k].addr + g[k].size <= AreaSize
      BY <1>2, <1>3, <1>4, <1>8, <1>10, TablesAre
    <3>2. g[e].addr \in Starts /\ g[e].addr + g[e].size <= AreaSize
      BY <1>2, <1>3, <1>4, <1>8, <1>9, <1>10 DEF Starts
    <3>3. QED
      BY <1>1, <1>10, <3>1, <3>2 DEF Shape
  <2>2. \A o, c \in Entries : \A u \in Units(g[o]) : u \in Units(g[c]) => o = c
    BY <1>1, <1>12, <1>13 DEF Shape
  <2>3. QED
    BY <1>10, <2>1, <2>2 DEF Shape
<1>15. \A o \in Entries : \A u \in Units(g[o]) : \A t \in T : u \notin Extent(t)
  BY <1>13 DEF Area
<1>16. \A u \in 0 .. (AreaSize - 1) : (\E o \in Entries : u \in Units(g[o])) \/ \E t \in T : u \in Extent(t)
  <2>1. Units(f[e]) = {}
    BY DEF Units
  <2>2. QED
    BY <1>10, <1>12, <2>1 DEF Area
<1>17. Area(g, T)
  BY <1>14, <1>15, <1>16 DEF Area
<1>18. g[e] # None /\ g[e].addr \in Tables /\ g[e].addr # 0 /\ g[e].size >= s
  BY <1>2, <1>3, <1>4, <1>7, <1>8, <1>9, <1>10
<1>19. QED
  BY <1>17, <1>18 DEF g, p, x

\* What balloc_alloc returns for a table below the first level is in no other table, and
\* it takes nothing else.
LEMMA AllocExact ==
  ASSUME NEW T, T \subseteq TableRecs, NEW f, Area(f, T), NEW l \in Levels \ {FirstLevel}, NEW o \in Nat,
         BallocAlloc(f, Size(l), PtAlign).addr # None,
         NEW U, U = T \cup {[addr |-> BallocAlloc(f, Size(l), PtAlign).addr, level |-> l, at |-> o]}
  PROVE  LET new == BallocAlloc(f, Size(l), PtAlign) IN
         /\ new.addr \in Tables /\ \A u \in T : u.addr # new.addr
         /\ Area(new.free, U)
<1> DEFINE s == Size(l)
           fitting == Fitting(f, s, PtAlign)
           paddable == Paddable(f, s, PtAlign)
           empty == EmptyIn(f)
           new == BallocAlloc(f, s, PtAlign)
<1>1. s \in Nat \ {0} /\ s = PtAlign /\ PtAlign \in Nat \ {0}
  BY PowersAre
<1>2. Shape(f) /\ MaxBlocks \in Nat
  BY BallocAssumption DEF Area
<1>3. CASE fitting # {}
  <2> DEFINE k == FirstOf(fitting)
  <2>1. k \in fitting
    BY <1>2, <1>3, LeastExists DEF Fitting, Entries
  <2> HIDE DEF k
  <2>2. k \in Entries /\ f[k] # None /\ f[k].size >= s /\ f[k].addr % PtAlign = 0
    BY <2>1 DEF Fitting
  <2>3. f[k].addr \in Tables
    BY <1>1, <1>2, <2>2, UnitsAre, TablesAre DEF Tables
  <2> DEFINE t == [addr |-> f[k].addr, level |-> l, at |-> o]
  <2>4. t \in TableRecs /\ t.addr = f[k].addr /\ t.level = l
    BY <2>3 DEF TableRecs
  <2> HIDE DEF t
  <2>a. new = Cut(f, k, s)
    BY <1>3 DEF BallocAlloc, k
  <2>b. Cut(f, k, s).addr = f[k].addr
    BY DEF Cut
  <2>c. U = T \cup {t}
    BY <2>a, <2>b DEF t
  <2> HIDE DEF t
  <2>5. Area(Cut(f, k, s).free, U)
    <3>1. s = Size(t.level) /\ t.level # FirstLevel /\ f[k].addr = t.addr /\ f[k].size >= s
      BY <2>2, <2>4
    <3>2. k \in Entries /\ f[k] # None
      BY <2>2
    <3>3. t \in TableRecs
      BY <2>4
    <3> HIDE DEF s, fitting, paddable, empty, new, k
    <3>4. Area(Cut(f, k, Size(t.level)).free, T \cup {t})
      BY <3>1, <3>2, <3>3, CutAt
    <3>5. QED
      BY <2>c, <3>1, <3>4
  <2>6. QED
    BY <2>2, <2>3, <2>5, <2>a, <2>b, NoTableAt
<1>4. CASE fitting = {} /\ paddable # {} /\ empty # {}
  <2> DEFINE k == FirstOf(paddable)
             e == FirstOf(empty)
             p == Padding(f[k].addr, PtAlign)
             g == Split(f, k, e, p)
  <2>1. k \in paddable /\ e \in empty
    BY <1>2, <1>4, LeastExists DEF Paddable, EmptyIn, Entries
  <2> HIDE DEF k, e
  <2>2. k \in Entries /\ f[k] # None /\ f[k].size >= s + p /\ e \in Entries /\ f[e] = None
    BY <2>1 DEF Paddable, EmptyIn
  <2>3. f[k].addr % PtAlign # 0
    <3> SUFFICES ASSUME f[k].addr % PtAlign = 0 PROVE FALSE
      OBVIOUS
    <3>1. p = PtAlign % PtAlign
      BY <1>1 DEF Padding
    <3>2. p = 0
      BY <1>1, <3>1
    <3>3. f[k].size >= s
      BY <1>1, <2>2, <3>2
    <3>4. k \in fitting
      BY <2>2, <3>3 DEF Fitting
    <3>5. QED
      BY <1>4, <3>4
  <2>4. Area(g, T) /\ g[e] # None /\ g[e].addr \in Tables /\ g[e].size >= s
    BY <1>1, <2>2, <2>3, SplitExact
  <2> HIDE DEF g
  <2> DEFINE t == [addr |-> g[e].addr, level |-> l, at |-> o]
  <2>5. t \in TableRecs /\ t.addr = g[e].addr /\ t.level = l
    BY <2>4 DEF TableRecs
  <2>a. new = Cut(g, e, s)
    BY <1>4 DEF BallocAlloc, k, e, g
  <2>b. Cut(g, e, s).addr = g[e].addr
    BY DEF Cut
  <2>c. U = T \cup {t}
    BY <2>a, <2>b DEF t
  <2> HIDE DEF t
  <2>6. Area(Cut(g, e, s).free, U)
    <3>1. s = Size(t.level) /\ t.level # FirstLevel /\ g[e].addr = t.addr /\ g[e].size >= s
      BY <2>4, <2>5
    <3>2. e \in Entries /\ g[e] # None /\ Area(g, T) /\ t \in TableRecs
      BY <2>2, <2>4, <2>5
    <3> HIDE DEF s, fitting, paddable, empty, new, p
    <3>3. Area(Cut(g, e, Size(t.level)).free, T \cup {t})
      BY <3>1, <3>2, CutAt
    <3>4. QED
      BY <2>c, <3>1, <3>3
  <2>7. QED
    BY <2>2, <2>4, <2>6, <2>a, <2>b, NoTableAt
<1>5. QED
  <2>1. fitting # {} \/ (fitting = {} /\ paddable # {} /\ empty # {})
    <3> SUFFICES ASSUME fitting = {}, ~(paddable # {} /\ empty # {}) PROVE FALSE
      OBVIOUS
    <3>1. new.addr = None
      BY DEF BallocAlloc
    <3>2. QED
      BY <3>1
  <2>2. QED
    BY <1>3, <1>4, <2>1

\* balloc_create, and the table of the first level.
LEMMA CreateExact ==
  LET f == BallocCreate(AreaSize) IN
  /\ f[1] # None /\ f[1].addr = 0 /\ f[1].size = AreaSize /\ \A k \in Entries \ {1} : f[k] = None
  /\ Area(f, {})
<1> DEFINE f == BallocCreate(AreaSize)
           v == [addr |-> 0, size |-> AreaSize]
<1>1. /\ AreaSize \in Nat \ {0} /\ 0 \in Tables /\ 1 \in Entries /\ MaxBlocks \in Nat
  BY TablesAre, BallocAssumption DEF Entries
<1>2. v \in [addr : Nat, size : Nat \ {0}] /\ v # None /\ v.addr = 0 /\ v.size = AreaSize
  BY <1>1, BallocAssumption
<1> HIDE DEF v
<1>3. /\ f \in [Entries -> [addr : Nat, size : Nat \ {0}] \cup {None}]
      /\ f[1] = v /\ \A k \in Entries \ {1} : f[k] = None
  BY <1>1, <1>2 DEF BallocCreate, v
<1> HIDE DEF f
<1>4. \A u : u \in Units(f[1]) <=> u \in 0 .. (AreaSize - 1)
  BY <1>1, <1>2, <1>3 DEF Units
<1>5. \A k \in Entries \ {1} : Units(f[k]) = {}
  BY <1>3 DEF Units
<1>6. Shape(f)
  <2>1. \A k \in Entries : f[k] # None => f[k].addr \in Starts /\ f[k].addr + f[k].size <= AreaSize
    BY <1>1, <1>2, <1>3 DEF Starts
  <2>2. QED
    BY <1>3, <1>5, <2>1 DEF Shape
<1>7. Area(f, {})
  BY <1>1, <1>4, <1>6 DEF Area
<1>8. QED
  BY <1>2, <1>3, <1>7 DEF f

\* The root that a new context gets is at the start of the area.
LEMMA RootExact ==
  LET new == BallocAlloc(BallocCreate(AreaSize), Size(FirstLevel), PtAlign) IN
  new.addr = 0 /\ RootTable(0) \in TableRecs /\ Area(new.free, {RootTable(0)})
<1> DEFINE f == BallocCreate(AreaSize)
           s == Size(FirstLevel)
           t == RootTable(0)
           fitting == Fitting(f, s, PtAlign)
           new == BallocAlloc(f, s, PtAlign)
<1>1. /\ s \in Nat \ {0} /\ s <= AreaSize /\ AreaSize \in Nat \ {0} /\ 0 % PtAlign = 0 /\ 0 \in Tables
      /\ 1 \in Entries /\ MaxBlocks \in Nat
  BY PowersAre, TablesAre, TablesAssumption, BallocAssumption DEF Entries
<1>2. f[1] # None /\ f[1].addr = 0 /\ f[1].size = AreaSize /\ \A k \in Entries \ {1} : f[k] = None
  BY CreateExact
<1>3. Area(f, {})
  BY CreateExact
<1> HIDE DEF f
<1>4. t \in TableRecs /\ t.addr = 0 /\ t.level = FirstLevel
  BY <1>1, PowersAre DEF RootTable, TableRecs
<1> HIDE DEF t
<1>5. new = Cut(f, 1, s)
  <2>1. fitting = {1}
    BY <1>1, <1>2 DEF Fitting
  <2>2. FirstOf(fitting) = 1
    BY <1>1, <2>1, LeastExists
  <2>3. QED
    BY <2>1, <2>2 DEF BallocAlloc
<1>6. Area(Cut(f, 1, s).free, {t})
  <2> DEFINE T == {}
             U == {t}
  <2>1. T \subseteq TableRecs /\ Area(f, T) /\ U = T \cup {t}
    BY <1>3
  <2> HIDE DEF T, U
  <2>2. s = Size(t.level) /\ f[1] # None /\ f[1].addr = t.addr /\ f[1].size >= s
    BY <1>1, <1>2, <1>4
  <2> HIDE DEF s
  <2>3. Area(Cut(f, 1, s).free, U)
    BY <1>1, <1>4, <2>1, <2>2, CutExact
  <2>4. QED
    BY <2>3 DEF U
<1>7. Cut(f, 1, s).addr = 0
  BY <1>2 DEF Cut
<1>8. QED
  BY <1>4, <1>5, <1>6, <1>7 DEF f, t

\* The area has finitely many places for tables.
LEMMA TablesFinite == IsFiniteSet(Tables) /\ Cardinality(Tables) \in Nat
<1>1. IsFiniteSet(0 .. (AreaSize - 1)) /\ Tables \subseteq 0 .. (AreaSize - 1)
  BY TablesAre, FS_Interval DEF Tables
<1>2. QED
  BY <1>1, FS_Subset, FS_CardinalityType

\* With a table in use there is an empty entry: no two free blocks start in one place.
LEMMA SomeEmpty ==
  ASSUME Cardinality(Tables) < MaxBlocks, NEW T, T \subseteq TableRecs, NEW f, Area(f, T), NEW t \in T
  PROVE  \E k \in Entries : f[k] = None
<1> SUFFICES ASSUME \A k \in Entries : f[k] # None PROVE FALSE
  OBVIOUS
<1> DEFINE S == Starts \ {t.addr}
           h == [k \in Entries |-> f[k].addr]
<1>1. t.addr \in Tables /\ Shape(f) /\ MaxBlocks \in Nat
  BY ExtentIs, BallocAssumption DEF Area
<1>2. IsFiniteSet(S) /\ Cardinality(S) <= Cardinality(Tables)
  <2> DEFINE x == Size(FirstLevel)
  <2>1. Starts = Tables \cup {x} /\ t.addr \in Starts
    BY <1>1 DEF Starts
  <2> HIDE DEF x
  <2>2. IsFiniteSet(Starts) /\ Cardinality(Starts) \in Nat /\ Cardinality(Starts) <= Cardinality(Tables) + 1
    BY <2>1, TablesFinite, FS_AddElement, FS_CardinalityType
  <2>3. IsFiniteSet(S) /\ Cardinality(S) = Cardinality(Starts) - 1
    BY <2>1, <2>2, FS_RemoveElement
  <2>4. QED
    BY <2>2, <2>3, TablesFinite
<1>3. IsFiniteSet(Entries) /\ Cardinality(Entries) = MaxBlocks
  BY <1>1, FS_Interval DEF Entries
<1>4. h \in [Entries -> S]
  BY <1>1, UnitsAre, NoTableAt
<1>5. Cardinality(Entries) > Cardinality(S) /\ Cardinality(S) \in Nat
  BY <1>2, <1>3, <1>1, TablesFinite, FS_CardinalityType
<1> HIDE DEF h, S
<1>6. \E k, e \in Entries : k # e /\ h[k] = h[e]
  BY <1>2, <1>3, <1>4, <1>5, FS_PigeonHole
<1>7. PICK k \in Entries, e \in Entries : k # e /\ f[k].addr = f[e].addr
  BY <1>6 DEF h
<1>8. f[k].addr \in Units(f[k]) /\ f[k].addr \in Units(f[e])
  BY <1>1, <1>7, UnitsAre
<1>9. QED
  BY <1>1, <1>7, <1>8 DEF Shape

\* A place for a table that is in no table is in one free block, with what comes before it.
LEMMA FreePlace ==
  ASSUME NEW T, T \subseteq TableRecs, NEW f, Area(f, T),
         NEW a \in Tables, a # 0, \A t \in T : t.addr # a
  PROVE  \E k \in Entries : f[k] # None /\ f[k].addr <= a /\ a + PtAlign <= f[k].addr + f[k].size
<1>1. /\ Shape(f) /\ a \in Nat /\ PtAlign \in Nat \ {0} /\ a + PtAlign <= AreaSize /\ AreaSize \in Nat
  BY TablesAre, PowersAre DEF Area
<1>2. \A t \in T : a \notin Extent(t) /\ \A u \in Extent(t) : a <= u => a + PtAlign <= u
  <2> SUFFICES ASSUME NEW t \in T PROVE a \notin Extent(t) /\ \A u \in Extent(t) : a <= u => a + PtAlign <= u
    OBVIOUS
  <2>1. /\ t.addr \in Tables /\ t.addr \in Nat /\ t.addr # a /\ Size(t.level) \in Nat /\ Size(t.level) <= PtAlign
        /\ \A u : u \in Extent(t) <=> u \in Nat /\ t.addr <= u /\ u < t.addr + Size(t.level)
    BY ExtentIs
  <2>2. t.addr + PtAlign <= a \/ a + PtAlign <= t.addr
    BY <1>1, <2>1, TablesAre
  <2>3. QED
    BY <1>1, <2>1, <2>2
<1>3. PICK k \in Entries : a \in Units(f[k])
  BY <1>1, <1>2 DEF Area
<1>4. /\ f[k] # None /\ f[k].addr \in Nat /\ f[k].size \in Nat \ {0} /\ f[k].addr <= a /\ a < f[k].addr + f[k].size
      /\ f[k].addr + f[k].size <= AreaSize
      /\ \A u : u \in Units(f[k]) <=> u \in Nat /\ f[k].addr <= u /\ u < f[k].addr + f[k].size
  BY <1>1, <1>3, UnitsAre
<1> DEFINE z == f[k].addr + f[k].size
<1>5. z \in Nat /\ z \notin Units(f[k]) /\ a < z /\ z <= AreaSize
  BY <1>4
<1> HIDE DEF z
<1>6. ~(z < a + PtAlign)
  <2> SUFFICES ASSUME z < a + PtAlign PROVE FALSE
    OBVIOUS
  <2>1. z \in 0 .. (AreaSize - 1)
    BY <1>1, <1>5
  <2>2. \A t \in T : z \notin Extent(t)
    BY <1>1, <1>2, <1>5
  <2>3. PICK e \in Entries : z \in Units(f[e])
    BY <2>1, <2>2 DEF Area
  <2>4. /\ f[e].addr \in Starts /\ f[e].addr \in Nat /\ f[e].size \in Nat /\ f[e].addr <= z /\ z < f[e].addr + f[e].size
        /\ \A u : u \in Units(f[e]) <=> u \in Nat /\ f[e].addr <= u /\ u < f[e].addr + f[e].size
    BY <1>1, <2>3, UnitsAre
  <2>5. ~(a < f[e].addr)
    BY <1>1, <1>5, <2>4, StartsAre
  <2>6. a \in Units(f[e])
    BY <1>1, <1>5, <2>4, <2>5
  <2>7. e = k
    BY <1>1, <1>3, <2>6 DEF Shape
  <2>8. QED
    BY <1>5, <2>3, <2>7
<1>7. QED
  BY <1>1, <1>4, <1>5, <1>6 DEF z

\* balloc_alloc finds it, or another.
LEMMA AllocSucceeds ==
  ASSUME NEW T, T \subseteq TableRecs, NEW f, Area(f, T), EmptyIn(f) # {},
         NEW a \in Tables, a # 0, \A t \in T : t.addr # a, NEW l \in Levels \ {FirstLevel}
  PROVE  BallocAlloc(f, Size(l), PtAlign).addr # None
<1> DEFINE s == Size(l)
           fitting == Fitting(f, s, PtAlign)
           paddable == Paddable(f, s, PtAlign)
           empty == EmptyIn(f)
<1>1. /\ Shape(f) /\ a \in Nat /\ PtAlign \in Nat \ {0} /\ s = PtAlign /\ PtAlign <= a /\ MaxBlocks \in Nat
  BY TablesAre, PowersAre, BallocAssumption DEF Area
<1>2. PICK k \in Entries : f[k] # None /\ f[k].addr <= a /\ a + PtAlign <= f[k].addr + f[k].size
  BY FreePlace
<1>3. f[k].addr \in Starts /\ f[k].addr \in Nat /\ f[k].size \in Nat
  BY <1>1, <1>2, UnitsAre
<1>4. empty # {}
  OBVIOUS
<1>5. fitting # {} \/ paddable # {}
  <2>1. CASE f[k].addr % PtAlign = 0
    <3>1. f[k].size >= s
      BY <1>1, <1>2, <1>3
    <3>2. k \in fitting
      BY <1>2, <2>1, <3>1 DEF Fitting
    <3>3. QED
      BY <3>2
  <2>2. CASE f[k].addr % PtAlign # 0
    <3> DEFINE x == f[k].addr
               p == Padding(x, PtAlign)
    <3>1. 0 < x /\ x < PtAlign /\ x % PtAlign = x
      BY <1>3, <2>2, StartsAre
    <3>2. p = (PtAlign - x) % PtAlign
      BY <3>1 DEF Padding
    <3>3. p = PtAlign - x
      BY <1>1, <1>3, <3>1, <3>2
    <3> HIDE DEF p
    <3>4. f[k].size >= s + p
      BY <1>1, <1>2, <1>3, <3>1, <3>3
    <3>5. k \in paddable
      BY <1>2, <3>4 DEF Paddable, p
    <3>6. QED
      BY <3>5
  <2>3. QED
    BY <2>1, <2>2
<1>6. \A e \in Entries : f[e] # None => f[e].addr # None
  BY <1>1, UnitsAre, BallocAssumption
<1>7. CASE fitting # {}
  <2> DEFINE c == FirstOf(fitting)
  <2>1. c \in fitting
    BY <1>1, <1>7, LeastExists DEF Fitting, Entries
  <2> HIDE DEF c
  <2>2. f[c].addr # None
    BY <1>6, <2>1 DEF Fitting
  <2>3. BallocAlloc(f, s, PtAlign).addr = f[c].addr
    BY <1>7 DEF BallocAlloc, Cut, c
  <2>4. QED
    BY <2>2, <2>3
<1>8. CASE fitting = {} /\ paddable # {}
  <2> DEFINE c == FirstOf(paddable)
             e == FirstOf(empty)
             p == Padding(f[c].addr, PtAlign)
             g == Split(f, c, e, p)
  <2>1. c \in paddable /\ e \in empty
    BY <1>1, <1>4, <1>8, LeastExists DEF Paddable, EmptyIn, Entries
  <2>2. BallocAlloc(f, s, PtAlign).addr = g[e].addr
    BY <1>4, <1>8 DEF BallocAlloc, Cut
  <2> HIDE DEF c, e
  <2>3. c \in Entries /\ f[c] # None /\ e \in Entries /\ f[e] = None /\ f[c].addr \in Nat /\ f[c].addr \in Starts
    BY <1>1, <2>1, UnitsAre DEF Paddable, EmptyIn
  <2>4. g[e].addr = f[c].addr + p
    BY <1>1, <2>3 DEF Split, Shape
  <2>5. p \in Int
    BY <1>1, <2>3 DEF Padding
  <2> HIDE DEF g, p
  <2>6. g[e].addr \in Int
    BY <2>3, <2>4, <2>5
  <2>7. QED
    BY <2>2, <2>6, BallocAssumption
<1>9. QED
  BY <1>5, <1>7, <1>8

\* balloc_free gives the area of a table back, unless it finds neither a block that the
\* table precedes nor an empty entry.
LEMMA FreeExact ==
  ASSUME NEW T, T \subseteq TableRecs, Apart(T), NEW f, Area(f, T), NEW t \in T,
         \E e \in Entries : f[e] = None
  PROVE  LET freed == BallocFree(f, t.addr, Size(t.level)) IN
         freed.rc = 0 /\ Area(freed.free, T \ {t})
<1> DEFINE s == Size(t.level)
           ends == {k \in Entries : f[k] = None \/ f[k].addr = t.addr + s}
           k == FirstOf(ends)
           v == [addr |-> t.addr, size |-> IF f[k] = None THEN s ELSE f[k].size + s]
           g == [f EXCEPT ![k] = v]
           freed == BallocFree(f, t.addr, s)
<1>1. Shape(f) /\ MaxBlocks \in Nat
  BY BallocAssumption DEF Area
<1>2. ends # {}
  OBVIOUS
<1>3. k \in ends
  BY <1>1, <1>2, LeastExists DEF Entries
<1>4. freed = [rc |-> 0, free |-> g]
  BY <1>2 DEF BallocFree
<1>5. k \in Entries /\ (f[k] = None \/ f[k].addr = t.addr + s)
  BY <1>3
<1> HIDE DEF k, s, ends
<1>6. /\ t.addr \in Tables /\ t.addr \in Nat /\ s \in Nat \ {0} /\ t.addr + s <= AreaSize
      /\ \A u : u \in Extent(t) <=> u \in Nat /\ t.addr <= u /\ u < t.addr + s
  BY ExtentIs, PowersAre, TablesAre DEF s
<1>7. /\ v \in [addr : Nat, size : Nat \ {0}] /\ v # None /\ v.addr = t.addr /\ v.addr + v.size <= AreaSize
      /\ \A u : u \in Nat /\ t.addr <= u /\ u < t.addr + v.size <=> u \in Extent(t) \/ u \in Units(f[k])
  <2>1. CASE f[k] = None
    <3>1. v.size = s /\ v.addr = t.addr /\ v \in [addr : Nat, size : Nat \ {0}]
      BY <1>6, <2>1
    <3> HIDE DEF v
    <3>2. QED
      BY <1>6, <2>1, <3>1, BallocAssumption DEF Units
  <2>2. CASE f[k] # None
    <3>1. /\ f[k].addr = t.addr + s /\ f[k].size \in Nat \ {0} /\ f[k].addr + f[k].size <= AreaSize
          /\ \A u : u \in Units(f[k]) <=> u \in Nat /\ f[k].addr <= u /\ u < f[k].addr + f[k].size
      BY <1>1, <1>5, <2>2, UnitsAre
    <3>2. v.size = f[k].size + s /\ v.addr = t.addr /\ v \in [addr : Nat, size : Nat \ {0}]
      BY <1>6, <2>2, <3>1
    <3> HIDE DEF v
    <3>3. QED
      BY <1>6, <3>1, <3>2, BallocAssumption
  <2>3. QED
    BY <2>1, <2>2
<1> HIDE DEF v
<1>8. /\ g \in [Entries -> [addr : Nat, size : Nat \ {0}] \cup {None}]
      /\ g[k] = v /\ \A e \in Entries \ {k} : g[e] = f[e]
  BY <1>1, <1>5, <1>7 DEF Shape
<1> HIDE DEF g
<1>9. \A u : u \in Units(g[k]) <=> u \in Extent(t) \/ u \in Units(f[k])
  <2>1. \A u : u \in Units(g[k]) <=> u \in Nat /\ t.addr <= u /\ u < t.addr + v.size
    BY <1>6, <1>7, <1>8 DEF Units
  <2>2. QED
    BY <1>7, <2>1
<1>10. \A e \in Entries : \A u \in Units(f[e]) : u \notin Extent(t)
  BY DEF Area
<1>11. \A o \in T \ {t} : \A u \in Extent(t) : u \notin Extent(o)
  <2> SUFFICES ASSUME NEW o \in T \ {t}, NEW u \in Extent(t), u \in Extent(o) PROVE FALSE
    OBVIOUS
  <2>1. o.addr # t.addr
    BY DEF Apart
  <2>2. /\ o.addr \in Tables /\ o.addr \in Nat /\ Size(o.level) \in Nat /\ Size(o.level) <= PtAlign
        /\ u \in Nat /\ o.addr <= u /\ u < o.addr + Size(o.level)
    BY ExtentIs
  <2>3. t.addr <= u /\ u < t.addr + s /\ s <= PtAlign /\ PtAlign \in Nat
    BY <1>6, PowersAre, ExtentIs DEF s
  <2>4. t.addr + PtAlign <= o.addr \/ o.addr + PtAlign <= t.addr
    BY <1>6, <2>1, <2>2, TablesAre
  <2>5. QED
    BY <1>6, <2>2, <2>3, <2>4
<1>12. Shape(g)
  <2>1. \A e \in Entries : g[e] # None => g[e].addr \in Starts /\ g[e].addr + g[e].size <= AreaSize
    BY <1>1, <1>6, <1>7, <1>8 DEF Shape, Starts
  <2>2. \A e, o \in Entries : \A u \in Units(g[e]) : u \in Units(g[o]) => e = o
    <3> SUFFICES ASSUME NEW e \in Entries, NEW o \in Entries, NEW u \in Units(g[e]), u \in Units(g[o]), e # o PROVE FALSE
      OBVIOUS
    <3>1. CASE e # k /\ o # k
      BY <1>1, <1>8, <3>1 DEF Shape
    <3>2. CASE e = k
      BY <1>1, <1>5, <1>8, <1>9, <1>10, <3>2 DEF Shape
    <3>3. CASE o = k
      BY <1>1, <1>5, <1>8, <1>9, <1>10, <3>3 DEF Shape
    <3>4. QED
      BY <3>1, <3>2, <3>3
  <2>3. QED
    BY <1>8, <2>1, <2>2 DEF Shape
<1>13. \A e \in Entries : \A u \in Units(g[e]) : \A o \in T \ {t} : u \notin Extent(o)
  BY <1>5, <1>8, <1>9, <1>11 DEF Area
<1>14. \A u \in 0 .. (AreaSize - 1) : (\E e \in Entries : u \in Units(g[e])) \/ \E o \in T \ {t} : u \in Extent(o)
  <2> SUFFICES ASSUME NEW u \in 0 .. (AreaSize - 1), \A o \in T \ {t} : u \notin Extent(o)
               PROVE  \E e \in Entries : u \in Units(g[e])
    OBVIOUS
  <2>1. u \in Extent(t) \/ \E e \in Entries : u \in Units(f[e])
    BY DEF Area
  <2>2. QED
    BY <1>5, <1>8, <1>9, <2>1
<1>15. Area(g, T \ {t})
  BY <1>12, <1>13, <1>14 DEF Area
<1>16. QED
  BY <1>4, <1>15 DEF s

-----------------------------------------------------------------------------
(* The tree                                                                 *)

\* What the tables of T say of each other makes them the tables found from the root.
LEMMA TreeIs ==
  ASSUME NEW T, T \subseteq TableRecs, NEW m, NEW r, Tree(m, r, T)
  PROVE  TablesFrom(m, r) = T
<1> DEFINE Step(h) ==
             [l \in Levels |->
                IF l = FirstLevel THEN {RootTable(r)}
                ELSE UNION {{Below(m, t, s) : s \in {s \in Slots(l - 1) : IsTable(m[t.addr][s])}} : t \in h[l - 1]}]
           On == CHOOSE h : h = Step(h)
           F  == [l \in Levels |-> {t \in T : t.level = l}]
<1>1. \A l \in Levels \ {FirstLevel} : l - 1 \in Levels /\ l - 1 # MaxLevel
  BY TablesAssumption DEF Levels
<1>2. ASSUME NEW l \in Levels \ {FirstLevel}
      PROVE  {t \in T : t.level = l} =
               UNION {{Below(m, t, s) : s \in {s \in Slots(l - 1) : IsTable(m[t.addr][s])}} : t \in {t \in T : t.level = l - 1}}
  <2> DEFINE R == UNION {{Below(m, t, s) : s \in {s \in Slots(l - 1) : IsTable(m[t.addr][s])}} : t \in {t \in T : t.level = l - 1}}
  <2>1. ASSUME NEW u \in T, u.level = l PROVE u \in R
    BY <2>1 DEF Tree
  <2>2. ASSUME NEW u \in R PROVE u \in T /\ u.level = l
    <3>1. PICK t \in T, s \in Slots(l - 1) : t.level = l - 1 /\ IsTable(m[t.addr][s]) /\ u = Below(m, t, s)
      OBVIOUS
    <3>2. u \in T
      BY <1>1, <3>1 DEF Tree
    <3>3. u.level = l
      BY <3>1, PowersAre DEF Below
    <3>4. QED
      BY <3>2, <3>3
  <2>3. QED
    BY <2>1, <2>2
<1>3. {t \in T : t.level = FirstLevel} = {RootTable(r)}
  BY DEF Tree, RootTable
<1>4. F = Step(F)
  BY <1>1, <1>2, <1>3
<1>5. On = Step(On)
  BY <1>4
<1> HIDE DEF On
<1>6. \A l \in Levels : On[l] = F[l]
  <2> DEFINE m1 == MaxLevel - FirstLevel
             S == {k \in 0 .. m1 : On[FirstLevel + k] = F[FirstLevel + k]}
  <2>1. m1 \in Nat /\ FirstLevel \in Nat /\ \A k \in 0 .. m1 : FirstLevel + k \in Levels
    BY TablesAssumption DEF Levels
  <2>2. 0 \in S
    <3>1. On[FirstLevel] = F[FirstLevel]
      BY <1>3, <1>5, PowersAre
    <3>2. FirstLevel + 0 = FirstLevel /\ 0 \in 0 .. m1
      BY <2>1
    <3> HIDE DEF F, m1
    <3>3. QED
      BY <3>1, <3>2
  <2>3. \A k \in S : k < m1 => k + 1 \in S
    <3> SUFFICES ASSUME NEW k \in S, k < m1 PROVE k + 1 \in S
      OBVIOUS
    <3> DEFINE l == FirstLevel + (k + 1)
    <3>1. l \in Levels \ {FirstLevel} /\ l - 1 = FirstLevel + k /\ l - 1 \in Levels
      BY <2>1
    <3> HIDE DEF l
    <3>2. On[l - 1] = {t \in T : t.level = l - 1}
      BY <3>1
    <3>3. On[l] = {t \in T : t.level = l}
      BY <1>2, <1>5, <3>1, <3>2
    <3>4. QED
      BY <2>1, <3>1, <3>3 DEF l
  <2> HIDE DEF S
  <2>4. S = 0 .. m1
    <3>1. S \in SUBSET (0 .. m1)
      BY DEF S
    <3>2. QED
      BY <2>1, <2>2, <2>3, <3>1, IntervalInduction
  <2>5. \A l \in Levels : l - FirstLevel \in 0 .. m1 /\ FirstLevel + (l - FirstLevel) = l
    BY TablesAssumption DEF Levels
  <2>6. QED
    BY <2>4, <2>5 DEF S
<1>7. TablesFrom(m, r) = UNION {On[l] : l \in Levels}
  BY DEF TablesFrom, On
<1>8. UNION {On[l] : l \in Levels} = T
  BY <1>6 DEF TableRecs
<1>9. QED
  BY <1>7, <1>8

-----------------------------------------------------------------------------
(* Where a walk is                                                          *)

\* A page number is below the number of pages of the root.
LEMMA PagesAre ==
  /\ Size(FirstLevel) * Block(FirstLevel) \in Nat \ {0} /\ Pages \subseteq Nat
  /\ \A p \in Pages : p < Size(FirstLevel) * Block(FirstLevel)
  /\ \A p \in Pages, x \in Nat : x <= p => x \in Pages
<1> DEFINE z == Size(FirstLevel) * Block(FirstLevel)
<1>1. Size(FirstLevel) \in Nat \ {0} /\ Block(FirstLevel) \in Nat \ {0}
  BY PowersAre
<1>2. z \in Nat \ {0}
  BY <1>1
<1>3. Pages = 0 .. (z - 1)
  BY DEF Pages
<1> HIDE DEF z
<1>4. Pages \subseteq Nat /\ (\A p \in Pages : p < z) /\ \A p \in Pages, x \in Nat : x <= p => x \in Pages
  BY <1>2, <1>3
<1>5. QED
  BY <1>2, <1>4 DEF z

\* pt_index is a slot of a table of its level.
LEMMA IndexIs ==
  ASSUME NEW l \in Levels, NEW p \in Pages
  PROVE  /\ Index(l, p) \in Slots(l) /\ Index(l, p) \in 0 .. (PtAlign - 1)
         /\ p \div Block(l) \in Pages /\ p \div Block(l) \in Nat
<1> DEFINE q == p \div Block(l)
           s == Size(l)
<1>1. p \in Nat /\ Block(l) \in Nat \ {0} /\ s \in Nat \ {0} /\ s <= PtAlign /\ PtAlign \in Nat
  BY PowersAre, PagesAre
<1>2. q \in Nat /\ q <= p
  <2>1. q \in Nat /\ p % Block(l) \in 0 .. (Block(l) - 1) /\ p = q * Block(l) + (p % Block(l))
    BY <1>1, DivMod
  <2> HIDE DEF q
  <2>2. q * Block(l) >= q
    BY <1>1, <2>1
  <2>3. q * Block(l) \in Nat
    BY <1>1, <2>1
  <2>4. QED
    BY <1>1, <2>1, <2>2, <2>3
<1>3. Index(l, p) = q % s
  BY DEF Index
<1> HIDE DEF q, s
<1>4. q % s \in 0 .. (s - 1)
  BY <1>1, <1>2, DivMod
<1>5. Index(l, p) \in 0 .. (PtAlign - 1)
  BY <1>1, <1>3, <1>4
<1>6. QED
  BY <1>2, <1>3, <1>4, <1>5, PagesAre DEF q, s, Slots

\* The descriptor of a page in a table for the page is for the block that the page is in.
LEMMA ChildIs ==
  ASSUME NEW l \in Levels, NEW p \in Pages, NEW o \in Nat,
         IF l = FirstLevel THEN o = 0 ELSE o = p \div Block(l - 1)
  PROVE  o * Size(l) + Index(l, p) = p \div Block(l)
<1> DEFINE b == Block(l)
           s == Size(l)
           q == p \div b
<1>1. p \in Nat /\ b \in Nat \ {0} /\ s \in Nat \ {0}
  BY PowersAre, PagesAre
<1>2. q \in Nat
  BY <1>1, DivMod
<1>3. Index(l, p) = q % s
  BY DEF Index
<1>4. o = q \div s
  <2>1. CASE l = FirstLevel
    <3>1. o = 0 /\ p < s * b
      BY <2>1, PagesAre
    <3>2. p % b \in 0 .. (b - 1) /\ p = q * b + (p % b)
      BY <1>1, DivMod
    <3> HIDE DEF q, b, s
    <3>3. q < s
      <4> SUFFICES ASSUME s <= q PROVE FALSE
        BY <1>1, <1>2
      <4>1. s * b <= q * b
        BY <1>1, <1>2
      <4>2. s * b \in Int /\ q * b \in Int /\ p % b >= 0 /\ p % b \in Int
        BY <1>1, <1>2, <3>2
      <4>3. QED
        BY <1>1, <3>1, <3>2, <4>1, <4>2
    <3>4. q = 0 * s + q /\ q \in 0 .. (s - 1) /\ 0 \in Nat
      BY <1>1, <1>2, <3>3
    <3>5. q \div s = 0
      BY <1>1, <1>2, <3>4, QuotIs
    <3>6. QED
      BY <3>1, <3>5
  <2>2. CASE l # FirstLevel
    <3>1. Block(l - 1) = s * b
      BY <2>2, PowersAssumption
    <3>2. o = p \div (s * b)
      BY <2>2, <3>1
    <3> HIDE DEF b, s
    <3>3. QED
      BY <1>1, <3>2, DivDiv
  <2>3. QED
    BY <2>1, <2>2
<1> HIDE DEF q, s, b
<1>5. q = (q \div s) * s + (q % s)
  BY <1>1, <1>2, DivMod
<1>6. QED
  BY <1>3, <1>4, <1>5 DEF q, s, b

\* also where the sum is not named.
LEMMA QuotOf ==
  ASSUME NEW b \in Nat \ {0}, NEW q \in Nat, NEW r \in 0 .. (b - 1)
  PROVE  (q * b + r) \div b = q /\ (q * b + r) % b = r
<1> DEFINE x == q * b + r
<1>1. x \in Nat /\ x = q * b + r
  OBVIOUS
<1> HIDE DEF x
<1>2. x \div b = q /\ x % b = r
  BY <1>1, QuotIs
<1>3. QED
  BY <1>2 DEF x

\* A multiple of b, and the next, in multiples of c, of which b is a part.
LEMMA SameBlock ==
  ASSUME NEW b \in Nat \ {0}, NEW c \in Nat \ {0}, c % b = 0,
         NEW x \in Nat, x % b = 0, (x + b) % c # 0
  PROVE  x \div c = (x + b) \div c
<1> DEFINE y == x + b
           q == y \div c
           o == y % c
           z == q * c
           d == x - z
<1>1. y \in Nat
  OBVIOUS
<1> HIDE DEF y
<1>2. q \in Nat /\ o \in 0 .. (c - 1) /\ y = z + o
  BY <1>1, DivMod
<1>3. z = q * c /\ o # 0
  BY DEF y
<1> HIDE DEF q, o, z
<1>4. z \in Nat
  BY <1>2, <1>3
<1>5. z % c = 0
  <2>1. 0 \in 0 .. (c - 1)
    OBVIOUS
  <2>2. (q * c + 0) % c = 0
    BY <1>2, <2>1, QuotOf, Zenon
  <2>3. q * c + 0 = z
    BY <1>3, <1>4
  <2>4. QED
    BY <2>2, <2>3, Zenon
<1>6. z % b = 0 /\ y % b = 0
  <2>1. b % b = 0 /\ c \in Nat /\ c # 0 /\ b \in Nat
    OBVIOUS
  <2>2. (x + b) % b = 0
    BY <2>1, Divides, Zenon
  <2>3. z % b = 0
    BY <2>1, <1>4, <1>5, Divides, Zenon
  <2>4. QED
    BY <2>2, <2>3 DEF y
<1>7. z + b <= y
  <2>1. z < y
    BY <1>1, <1>2, <1>3, <1>4
  <2>2. QED
    BY <1>1, <1>4, <1>6, <2>1, Multiples, Zenon
<1>8. d \in 0 .. (c - 1) /\ x = z + d
  BY <1>1, <1>2, <1>4, <1>7 DEF y
<1> HIDE DEF d
<1>9. (q * c + d) \div c = q
  BY <1>2, <1>8, QuotOf, Zenon
<1>10. x = q * c + d
  BY <1>3, <1>8, Zenon
<1>11. QED
  BY <1>9, <1>10, Zenon DEF q, y

\* The next block of a region is not inside a larger one that the region covers.
LEMMA StepAligned ==
  ASSUME NEW b \in Nat \ {0}, NEW c \in Nat \ {0}, c % b = 0,
         NEW x \in Nat, x % b = 0, NEW s \in Nat, NEW lo \in Nat,
         lo <= (x \div c) * c /\ ((x \div c) + 1) * c <= x + s => x % c = 0,
         ~(x % c = 0 /\ s >= c),
         lo <= ((x + b) \div c) * c, (((x + b) \div c) + 1) * c <= x + s
  PROVE  (x + b) % c = 0
<1> SUFFICES ASSUME (x + b) % c # 0 PROVE FALSE
  OBVIOUS
<1>1. x \div c = (x + b) \div c
  BY SameBlock, Zenon
<1>2. x % c = 0
  BY <1>1, Zenon
<1> DEFINE q == x \div c
<1>3. q \in Nat /\ x % c \in 0 .. (c - 1) /\ x = q * c + (x % c)
  BY DivMod, Zenon
<1>4. (q + 1) * c <= x + s
  BY <1>1, Zenon
<1> HIDE DEF q
<1>5. q * c \in Nat /\ x = q * c
  BY <1>2, <1>3
<1>6. (q + 1) * c = q * c + c
  BY <1>3
<1>7. s >= c
  BY <1>4, <1>5, <1>6
<1>8. QED
  BY <1>2, <1>7

\* The page that a call is at is one of its region.
LEMMA CallAt ==
  ASSUME CallTyped, CallInv
  PROVE  /\ va \in Nat /\ sz \in Nat \ {0} /\ req.va \in Nat /\ req.sz \in Nat /\ req.pa \in Nat
         /\ req.va <= va /\ va + sz = req.va + req.sz /\ va \in PagesOf(req) /\ va \in Pages
<1>1. va \in Nat /\ sz \in Nat \ {0} /\ req.va <= va /\ va + sz = req.va + req.sz
  BY DEF CallTyped, CallInv
<1>2. req.va \in Nat /\ req.sz \in Nat /\ req.pa \in Nat
  BY PagesAre DEF CallInv, Calls
<1>3. va \in req.va .. (req.va + req.sz - 1)
  BY <1>1, <1>2
<1>4. QED
  BY <1>1, <1>2, <1>3 DEF CallInv, PagesOf

\* A block fits where the region covers the one that the call is at.
LEMMA FitsIs ==
  ASSUME CallTyped, CallInv, NEW l \in Levels
  PROVE  Fits(l) <=> Covers(req, l, va \div Block(l))
<1> DEFINE b == Block(l)
           q == va \div b
<1>1. va \in Nat /\ sz \in Nat /\ req.va \in Nat /\ req.sz \in Nat /\ req.va <= va /\ va + sz = req.va + req.sz
  BY CallAt
<1>2. b \in Nat \ {0}
  BY PowersAre
<1>3. q \in Nat /\ va % b \in 0 .. (b - 1) /\ va = q * b + (va % b)
  BY <1>1, <1>2, DivMod
<1>4. Fits(l) <=> va % b = 0 /\ sz >= b
  BY DEF Fits
<1>5. Covers(req, l, q) <=> req.va <= q * b /\ (q + 1) * b <= req.va + req.sz
  BY DEF Covers
<1>6. Covers(req, l, q) => va % b = 0
  BY DEF CallInv
<1> HIDE DEF b, q
<1>7. (q + 1) * b = q * b + b /\ q * b \in Nat
  BY <1>2, <1>3
<1>8. va % b = 0 => va = q * b
  BY <1>3, <1>7
<1>9. va % b = 0 => (Covers(req, l, q) <=> sz >= b)
  <2> SUFFICES ASSUME va % b = 0 PROVE Covers(req, l, q) <=> sz >= b
    OBVIOUS
  <2> DEFINE z == q * b
             y == (q + 1) * b
  <2>1. va = z /\ y = z + b /\ z \in Nat /\ (Covers(req, l, q) <=> req.va <= z /\ y <= req.va + req.sz)
    BY <1>5, <1>7, <1>8
  <2> HIDE DEF z, y
  <2>2. QED
    BY <1>1, <1>2, <2>1
<1>10. Fits(l) <=> Covers(req, l, q)
  BY <1>4, <1>6, <1>9
<1>11. QED
  BY <1>10 DEF q, b

\* Above the level where the walk ends, the call is not at a whole block.
LEMMA PassedNot ==
  ASSUME CallTyped, CallInv, ~AtLeaf
  PROVE  /\ level # MaxLevel /\ level + 1 \in Levels \ {FirstLevel}
         /\ \A l \in Levels : l < level + 1 => ~Fits(l)
         /\ <<level + 1, va \div Block(level)>> \in Needed
<1>1. level # MaxLevel /\ level \in Levels /\ ~Fits(level)
  BY DEF AtLeaf, Fits, CallTyped
<1>2. level + 1 \in Levels \ {FirstLevel} /\ (level + 1) - 1 = level /\ Levels \subseteq Nat
  BY <1>1, TablesAssumption DEF Levels
<1>3. \A l \in Levels : l < level + 1 => l < level \/ l = level
  BY <1>1, <1>2
<1>4. \A l \in Levels : l < level + 1 => ~Fits(l)
  BY <1>1, <1>3 DEF CallInv
<1> DEFINE o == va \div Block(level)
<1>5. ~Covers(req, level, o)
  BY <1>1, FitsIs
<1>6. o \in Pages /\ va \in PagesOf(req)
  BY <1>1, CallAt, IndexIs
<1>7. PICK r \in AllRegions : r.va = req.va /\ r.sz = req.sz
  BY DEF CallInv
<1>8. va \in PagesOf(r) /\ ~Covers(r, level, o)
  BY <1>5, <1>6, <1>7 DEF PagesOf, Covers
<1> HIDE DEF o
<1> DEFINE q == <<level + 1, o>>
<1>9. q \in (Levels \ {FirstLevel}) \X Pages /\ q[1] = level + 1 /\ q[2] = o /\ q[1] - 1 = level
  <2> DEFINE k == level + 1
             A == Levels \ {FirstLevel}
  <2>1. k \in A /\ k - 1 = level
    BY <1>2
  <2> HIDE DEF k, A
  <2>2. <<k, o>> \in A \X Pages /\ <<k, o>>[1] = k /\ <<k, o>>[2] = o
    BY <1>6, <2>1
  <2>3. QED
    BY <2>1, <2>2 DEF k, A
<1>10. \E p \in PagesOf(r) : q[2] = p \div Block(q[1] - 1)
  BY <1>8, <1>9 DEF o
<1>11. q \in Needed
  <2>1. ~Covers(r, q[1] - 1, q[2])
    BY <1>8, <1>9
  <2> HIDE DEF q
  <2>2. QED
    BY <1>9, <1>10, <2>1 DEF Needed
<1>12. QED
  BY <1>1, <1>2, <1>4, <1>11 DEF o

\* An interval is finite.
LEMMA FiniteInterval ==
  ASSUME NEW y \in Int, NEW z \in Int
  PROVE  IsFiniteSet(y .. z)
BY FS_Interval

\* A table that is needed and not there has a place.
LEMMA Room ==
  ASSUME Cardinality(Needed) <= Cardinality(Tables),
         NEW T, T \subseteq TableRecs, Apart(T), \A t \in T : <<t.level, t.at>> \in Needed,
         NEW q \in Needed, \A t \in T : <<t.level, t.at>> # q
  PROVE  \E a \in Tables : \A t \in T : t.addr # a
<1> SUFFICES ASSUME \A a \in Tables : \E t \in T : t.addr = a PROVE FALSE
  OBVIOUS
<1> DEFINE In(a) == CHOOSE t \in T : t.addr = a
           h == [a \in Tables |-> <<In(a).level, In(a).at>>]
           S == Needed \ {q}
<1>1. \A a \in Tables : In(a) \in T /\ In(a).addr = a
  OBVIOUS
<1> HIDE DEF In
<1>2. IsFiniteSet(Needed)
  <2> DEFINE A == Levels \ {FirstLevel}
             N == A \X Pages
             P == {<<FirstLevel, 0>>}
  <2>1. IsFiniteSet(Levels) /\ IsFiniteSet(Pages)
    <3>1. FirstLevel \in Int /\ MaxLevel \in Int
      BY TablesAssumption
    <3>2. \A z \in Int : IsFiniteSet(FirstLevel .. z) /\ IsFiniteSet(0 .. z)
      BY <3>1, FiniteInterval
    <3>3. Size(FirstLevel) * Block(FirstLevel) - 1 \in Int
      BY PagesAre
    <3>4. QED
      BY <3>1, <3>2, <3>3 DEF Levels, Pages
  <2>2. IsFiniteSet(A)
    BY <2>1, FS_Subset
  <2> HIDE DEF A
  <2>3. IsFiniteSet(N)
    BY <2>1, <2>2, FS_Product
  <2>4. IsFiniteSet(P)
    BY FS_Singleton
  <2>5. Needed \subseteq P \cup N
    BY DEF Needed, A
  <2> HIDE DEF N, P
  <2>6. QED
    BY <2>3, <2>4, <2>5, FS_Union, FS_Subset
<1>3. IsFiniteSet(S) /\ Cardinality(S) = Cardinality(Needed) - 1 /\ Cardinality(Needed) \in Nat
  BY <1>2, FS_RemoveElement, FS_CardinalityType
<1>4. h \in [Tables -> S]
  BY <1>1
<1>5. Cardinality(S) < Cardinality(Tables)
  BY <1>3, TablesFinite
<1> HIDE DEF h, S
<1>6. PICK a, b \in Tables : a # b /\ h[a] = h[b]
  BY <1>3, <1>4, <1>5, TablesFinite, FS_PigeonHole
<1>7. In(a).level = In(b).level /\ In(a).at = In(b).at
  BY <1>6 DEF h
<1>8. QED
  BY <1>1, <1>6, <1>7 DEF Apart

-----------------------------------------------------------------------------
(* The steps of mmu_map and mmu_unmap                                       *)

\* A call that returns is over.
LEMMA Returned ==
  ASSUME CallTyped, TablesTyped, UNCHANGED <<root, req>>, NEW c \in {0, -1}, Return(c), NEW T
  PROVE  CallTyped' /\ busy' = "idle" /\ Calling(T)'
<1>1. /\ busy' = "idle" /\ rc' = c /\ va' = 0 /\ pa' = 0 /\ sz' = 0
      /\ level' = FirstLevel /\ pt' = root /\ walk' = <<>> /\ req' = req
  BY DEF Return, Locals, Restart
<1>2. CallTyped'
  BY <1>1, PowersAre DEF CallTyped, TablesTyped
<1>3. QED
  BY <1>1, <1>2 DEF Calling

\* The next page or block of the region, from the root.
LEMMA Advanced ==
  ASSUME CallTyped, TablesTyped, CallInv, AtLeaf, NEW T, RootTable(root) \in T, req.call = "unmap" => ClearInv(T),
         UNCHANGED <<root, req>>, root \in Tables, Advance(Block(level))
  PROVE  CallTyped' /\ busy' \in {"idle", "map", "unmap"} /\ Calling(T)'
<1> DEFINE b == Block(level)
<1>1. level \in Levels /\ b \in Nat \ {0}
  BY PowersAre DEF CallTyped
<1>2. /\ va \in Nat /\ sz \in Nat \ {0} /\ req.va \in Nat /\ req.sz \in Nat /\ req.pa \in Nat
      /\ req.va <= va /\ va + sz = req.va + req.sz
  BY CallAt
<1>3. va % b = 0 /\ sz >= b
  <2>1. CASE level = MaxLevel
    <3>1. b = 1
      BY <2>1, PowersAssumption
    <3>2. QED
      BY <1>2, <3>1
  <2>2. CASE level # MaxLevel
    BY <2>2 DEF AtLeaf
  <2>3. QED
    BY <2>1, <2>2
<1>4. CASE sz = b
  <2>1. Return(0)
    BY <1>4 DEF Advance
  <2>2. QED
    BY <2>1, Returned
<1>5. CASE sz # b
  <2>1. /\ busy' = req.call /\ va' = va + b /\ pa' = pa + b /\ sz' = sz - b
        /\ level' = FirstLevel /\ pt' = root /\ walk' = <<>> /\ rc' = rc /\ req' = req
    BY <1>5 DEF Advance, Locals, Restart
  <2>2. req \in Calls /\ req.call \in {"map", "unmap"}
    BY DEF CallInv, Calls
  <2>3. ASSUME NEW l \in Levels, Covers(req, l, (va + b) \div Block(l)) PROVE (va + b) % Block(l) = 0
    <3> DEFINE c == Block(l)
    <3>1. c \in Nat \ {0}
      BY PowersAre
    <3>2. CASE level <= l
      <4>1. b % c = 0
        BY <1>1, <3>2, PowersAssumption
      <4> HIDE DEF b, c
      <4>2. b % b = 0 /\ b \in Nat /\ b # 0
        BY <1>1
      <4>3. (va + b) % b = 0 /\ va + b \in Nat
        <5>1. (b + va) % b = 0
          BY <1>1, <1>2, <1>3, <4>2, Divides, Zenon
        <5>2. b + va = va + b /\ va + b \in Nat
          BY <1>1, <1>2
        <5>3. QED
          BY <5>1, <5>2, Zenon
      <4>4. (va + b) % c = 0
        BY <3>1, <4>1, <4>2, <4>3, Divides, Zenon
      <4>5. QED
        BY <4>4 DEF c
    <3>3. CASE l < level
      <4>1. c % b = 0
        BY <1>1, <3>3, PowersAssumption, PowersAre
      <4>2. ~(va % c = 0 /\ sz >= c)
        BY <3>3 DEF CallInv, Fits
      <4>3. Covers(req, l, va \div c) => va % c = 0
        BY DEF CallInv
      <4>4. req.va <= (va \div c) * c /\ ((va \div c) + 1) * c <= va + sz => va % c = 0
        BY <1>2, <4>3 DEF Covers
      <4>5. req.va <= ((va + b) \div c) * c /\ (((va + b) \div c) + 1) * c <= va + sz
        BY <1>2, <2>3 DEF Covers
      <4>6. sz \in Nat
        BY <1>2
      <4> HIDE DEF b, c
      <4>7. (va + b) % c = 0
        BY <1>1, <1>2, <1>3, <3>1, <4>1, <4>2, <4>4, <4>5, <4>6, StepAligned, Zenon
      <4>8. QED
        BY <4>7 DEF c
    <3>4. QED
      BY <1>1, <3>2, <3>3, PowersAre
  <2> HIDE DEF b
  <2>4. CallTyped'
    BY <1>1, <1>2, <1>3, <2>1, <2>2, PowersAre DEF CallTyped
  <2>5. CallInv'
    <3>1. \A l \in Levels : Covers(req', l, va' \div Block(l)) => va' % Block(l) = 0
      BY <2>1, <2>3, Zenon
    <3>2. \A l \in Levels : l < level' => ~Fits(l)'
      BY <2>1, TablesAssumption DEF Levels
    <3>3. req'.va <= va' /\ va' + sz' = req'.va + req'.sz /\ sz' # 0
      BY <1>1, <1>2, <1>3, <1>5, <2>1
    <3>4. /\ req' \in Calls /\ (\E r \in AllRegions : r.va = req'.va /\ r.sz = req'.sz)
          /\ PagesOf(req') \subseteq Pages
      BY <2>1 DEF CallInv
    <3>5. req'.call = (IF busy' = "map" THEN "map" ELSE "unmap") /\ busy' # "back"
      BY <2>1, <2>2
    <3>6. QED
      BY <3>1, <3>2, <3>3, <3>4, <3>5 DEF CallInv
  <2>6. DownInv(T)'
    BY <2>1 DEF DownInv, RootTable
  <2>7. BackLevel' = FirstLevel /\ BackLevel' = level'
    BY <2>1, TablesAssumption DEF BackLevel
  <2>8. busy' = "unmap" => BackInv(T)' /\ ClearInv(T)'
    <3> SUFFICES ASSUME busy' = "unmap" PROVE BackInv(T)' /\ ClearInv(T)'
      OBVIOUS
    <3>1. ClearInv(T)'
      BY <2>1 DEF ClearInv
    <3>2. \E t \in T : t.addr = pt' /\ t.level = BackLevel'
      BY <2>1, <2>7 DEF RootTable
    <3>3. 1 .. Len(walk') = {} /\ BackLevel' <= level'
      BY <2>1, <2>7, TablesAssumption
    <3>4. QED
      BY <3>1, <3>2, <3>3 DEF BackInv
  <2>9. QED
    BY <2>1, <2>2, <2>4, <2>5, <2>6, <2>7, <2>8 DEF Calling
<1>6. QED
  BY <1>4, <1>5

\* The descriptor that a walk is at, in a table of T for the page of the call.
LEMMA AtDesc ==
  ASSUME TablesTyped, CallTyped, CallInv, NEW T, T \subseteq TableRecs, Tree(mem, root, T), DownInv(T)
  PROVE  \E t \in T :
           /\ t.addr = pt /\ t.level = level /\ t.at \in Nat /\ pt \in Tables
           /\ Index(level, va) \in Slots(level) /\ Index(level, va) \in 0 .. (PtAlign - 1)
           /\ t.at * Size(level) + Index(level, va) = va \div Block(level)
           /\ Desc \in Descs \cup {None}
<1>1. level \in Levels /\ va \in Pages
  BY CallAt DEF CallTyped
<1>2. PICK t \in T : t.addr = pt /\ t.level = level /\ (t.level # FirstLevel => t.at = va \div Block(level - 1))
  BY DEF DownInv
<1>3. t.at \in Nat /\ pt \in Tables
  BY <1>2 DEF TableRecs
<1>4. level = FirstLevel => t.at = 0
  BY <1>2 DEF Tree, RootTable
<1>5. /\ Index(level, va) \in Slots(level) /\ Index(level, va) \in 0 .. (PtAlign - 1)
      /\ t.at * Size(level) + Index(level, va) = va \div Block(level)
  BY <1>1, <1>2, <1>3, <1>4, IndexIs, ChildIs
<1>6. Desc \in Descs \cup {None}
  BY <1>3, <1>5 DEF Desc, TablesTyped
<1>7. QED
  BY <1>2, <1>3, <1>5, <1>6

\* A walk that goes on to a table of T.
LEMMA Descended ==
  ASSUME TablesTyped, CallTyped, CallInv, NEW T, T \subseteq TableRecs, Tree(mem, root, T), DownInv(T), ~AtLeaf,
         busy \in {"map", "unmap"}, busy = "unmap" => BackInv(T) /\ ClearInv(T) /\ BackLevel = level,
         NEW a \in Tables, Descend(a), UNCHANGED <<busy, req, va, pa, sz, rc>>,
         NEW U, T \subseteq U,
         [addr |-> a, level |-> level + 1, at |-> va \div Block(level)] \in U,
         busy = "unmap" => U = T /\ mem' = mem /\ Desc = TableDesc(a)
  PROVE  CallTyped' /\ Calling(U)'
<1>1. PICK t \in T :
         /\ t.addr = pt /\ t.level = level /\ pt \in Tables
         /\ Index(level, va) \in Slots(level) /\ Index(level, va) \in 0 .. (PtAlign - 1)
  BY AtDesc
<1> DEFINE e == [pt |-> pt, index |-> Index(level, va)]
           L == [pt : Tables, index : 0 .. (PtAlign - 1)]
<1>2. /\ pt' = a /\ level' = level + 1 /\ walk' = Append(walk, e)
      /\ busy' = busy /\ req' = req /\ va' = va /\ pa' = pa /\ sz' = sz /\ rc' = rc
  BY DEF Descend
<1>3. /\ level # MaxLevel /\ level + 1 \in Levels \ {FirstLevel} /\ level \in Levels /\ Levels \subseteq Nat /\ FirstLevel \in Nat
      /\ \A l \in Levels : l < level + 1 => ~Fits(l)
  BY PassedNot, PowersAre, TablesAssumption DEF CallTyped
<1>4. e \in L /\ e.pt = pt /\ e.index = Index(level, va) /\ walk \in Seq(L)
  BY <1>1 DEF CallTyped
<1> HIDE DEF e, L
<1>5. walk' \in Seq(L)
  BY <1>2, <1>4
<1>6. CallTyped'
  BY <1>2, <1>3, <1>5 DEF CallTyped, L
<1>7. CallInv'
  <2>1. \A l \in Levels : l < level' => ~Fits(l)'
    BY <1>2, <1>3 DEF Fits
  <2>2. busy' # "back" /\ PagesOf(req') = PagesOf(req)
    BY <1>2
  <2>3. QED
    BY <1>2, <2>1, <2>2 DEF CallInv
<1>8. DownInv(U)'
  <2> DEFINE u == [addr |-> a, level |-> level + 1, at |-> va \div Block(level)]
  <2>1. u \in U /\ u.addr = a /\ u.level = level + 1 /\ u.at = va \div Block(level)
    OBVIOUS
  <2> HIDE DEF u
  <2>2. (level + 1) - 1 = level
    BY <1>3
  <2>3. u.addr = pt' /\ u.level = level' /\ u.at = va' \div Block(level' - 1)
    BY <1>2, <2>1, <2>2
  <2>4. QED
    BY <2>1, <2>3 DEF DownInv
<1>9. ASSUME busy = "unmap" PROVE BackInv(U)' /\ ClearInv(U)' /\ BackLevel' = level'
  <2>1. U = T /\ mem' = mem /\ Desc = TableDesc(a) /\ BackInv(T) /\ ClearInv(T) /\ BackLevel = level
    BY <1>9
  <2>2. Len(walk') = Len(walk) + 1 /\ Len(walk) \in Nat
    BY <1>2, <1>4
  <2>3. BackLevel' = level' /\ BackLevel' \in Nat
    BY <1>2, <1>3, <2>1, <2>2 DEF BackLevel
  <2>4. \E u \in U : u.addr = pt' /\ u.level = BackLevel'
    BY <1>8, <2>3 DEF DownInv
  <2>5. ASSUME NEW k \in 1 .. Len(walk')
        PROVE  /\ \E u \in U : u.addr = walk'[k].pt /\ u.level = FirstLevel + k - 1
               /\ walk'[k].index \in Slots(FirstLevel + k - 1)
               /\ mem'[walk'[k].pt][walk'[k].index] = TableDesc(NextOn(k)')
    <3>1. CASE k = Len(walk) + 1
      <4>1. walk'[k] = e /\ k = Len(walk')
        BY <1>2, <1>4, <2>2, <3>1
      <4>2. FirstLevel + k - 1 = level
        BY <1>3, <2>1, <2>2, <3>1 DEF BackLevel
      <4>3. NextOn(k)' = a
        BY <1>2, <4>1 DEF NextOn
      <4>4. mem'[pt][Index(level, va)] = TableDesc(a)
        BY <2>1 DEF Desc
      <4>5. QED
        BY <1>1, <1>4, <2>1, <4>1, <4>2, <4>3, <4>4
    <3>2. CASE k # Len(walk) + 1
      <4>1. k \in 1 .. Len(walk) /\ walk'[k] = walk[k]
        BY <1>2, <1>4, <2>2, <3>2
      <4>2. NextOn(k)' = NextOn(k)
        <5>1. CASE k = Len(walk)
          <6>1. walk'[k + 1] = e /\ k # Len(walk')
            BY <1>2, <1>4, <2>2, <5>1
          <6>2. QED
            BY <1>4, <5>1, <6>1 DEF NextOn
        <5>2. CASE k # Len(walk)
          <6>1. walk'[k + 1] = walk[k + 1] /\ k # Len(walk')
            BY <1>2, <1>4, <2>2, <4>1, <5>2
          <6>2. QED
            BY <5>2, <6>1 DEF NextOn
        <5>3. QED
          BY <5>1, <5>2
      <4>3. QED
        BY <2>1, <4>1, <4>2 DEF BackInv
    <3>3. QED
      BY <3>1, <3>2
  <2>6. BackInv(U)'
    BY <1>3, <1>2, <2>3, <2>4, <2>5 DEF BackInv
  <2>7. ClearInv(U)'
    BY <1>2, <2>1 DEF ClearInv
  <2>8. QED
    BY <2>3, <2>6, <2>7
<1>10. QED
  BY <1>2, <1>6, <1>7, <1>8, <1>9 DEF Calling

\* Each table has at most as many slots as descriptors are kept for.
LEMMA SlotsAre == \A l \in Levels : Slots(l) \subseteq 0 .. (PtAlign - 1) /\ Slots(l) \subseteq Nat
<1> SUFFICES ASSUME NEW l \in Levels PROVE Slots(l) \subseteq 0 .. (PtAlign - 1) /\ Slots(l) \subseteq Nat
  OBVIOUS
<1>1. Size(l) \in Nat /\ Size(l) <= PtAlign /\ PtAlign \in Nat
  BY PowersAre
<1>2. QED
  BY <1>1 DEF Slots

\* A descriptor is a table or a leaf, and says where the table is.
LEMMA DescsAre ==
  /\ \A a \in Tables : TableDesc(a) \in Descs /\ IsTable(TableDesc(a)) /\ TableDesc(a).addr = a /\ TableDesc(a) # None
  /\ \A p \in Nat : LeafDesc(p) \in Descs /\ ~IsTable(LeafDesc(p)) /\ LeafDesc(p) # None
  /\ ~IsTable(None)
  /\ \A d \in Descs \cup {None} : IsTable(d) => d.addr \in Tables /\ d = TableDesc(d.addr)
<1>1. None \notin Descs
  BY TablesAssumption
<1>2. \A a \in Tables : TableDesc(a) \in Descs /\ TableDesc(a).type = "table" /\ TableDesc(a).addr = a
  BY DEF TableDesc, Descs
<1>3. \A p \in Nat : LeafDesc(p) \in Descs /\ LeafDesc(p).type = "leaf"
  BY DEF LeafDesc, Descs
<1>4. \A d \in Descs : d.type = "table" => d.addr \in Tables /\ d = TableDesc(d.addr)
  BY DEF TableDesc, Descs
<1>5. QED
  BY <1>1, <1>2, <1>3, <1>4 DEF IsTable

\* A store of one descriptor.
LEMMA StoreIs ==
  ASSUME TablesTyped, NEW a \in Tables, NEW x \in 0 .. (PtAlign - 1), NEW d \in Descs \cup {None},
         mem' = [mem EXCEPT ![a][x] = d]
  PROVE  /\ mem' \in [Tables -> [0 .. (PtAlign - 1) -> Descs \cup {None}]]
         /\ \A b \in Tables, s \in 0 .. (PtAlign - 1) : mem'[b][s] = IF b = a /\ s = x THEN d ELSE mem[b][s]
  BY DEF TablesTyped

\* The tables are the same when the descriptors of tables are.
LEMMA TreeKept ==
  ASSUME NEW m, NEW o, NEW r, NEW T, T \subseteq TableRecs, Tree(m, r, T),
         \A t \in T : t.level # MaxLevel => \A s \in Slots(t.level) :
           IsTable(m[t.addr][s]) \/ IsTable(o[t.addr][s]) => o[t.addr][s] = m[t.addr][s]
  PROVE  Tree(o, r, T)
<1>1. \A t \in T : t.level # MaxLevel => \A s \in Slots(t.level) : IsTable(o[t.addr][s]) => Below(o, t, s) \in T
  BY DEF Tree, Below
<1>2. ASSUME NEW u \in T, u.level # FirstLevel
      PROVE  \E t \in T : /\ t.level = u.level - 1
                          /\ \E s \in Slots(t.level) : IsTable(o[t.addr][s]) /\ u = Below(o, t, s)
  <2>1. PICK t \in T : /\ t.level = u.level - 1
                       /\ \E s \in Slots(t.level) : IsTable(m[t.addr][s]) /\ u = Below(m, t, s)
    BY <1>2 DEF Tree
  <2>2. PICK s \in Slots(t.level) : IsTable(m[t.addr][s]) /\ u = Below(m, t, s)
    BY <2>1
  <2>3. t.level # MaxLevel
    <3>1. u.level \in Levels
      BY DEF TableRecs
    <3>2. QED
      BY <1>2, <2>1, <3>1, TablesAssumption DEF Levels
  <2>4. o[t.addr][s] = m[t.addr][s]
    BY <2>2, <2>3
  <2>5. u = Below(o, t, s)
    BY <2>2, <2>4 DEF Below
  <2>6. QED
    BY <2>1, <2>2, <2>4, <2>5
<1>3. QED
  BY <1>1, <1>2 DEF Tree

\* A store that leaves the tables as they are linked leaves them stored.
LEMMA TreeStays ==
  ASSUME NEW T, Stored(T), root # None, UNCHANGED <<free, root, todo>>, Tree(mem', root, T)
  PROVE  Stored(T)'
BY DEF Stored

\* What mmu_map and mmu_unmap find when they go on.
LEMMA CallGood ==
  ASSUME NEW T, Good(T), busy \in {"map", "unmap", "back"}
  PROVE  /\ root = 0 /\ root \in Tables /\ root # None /\ T \subseteq TableRecs /\ Apart(T) /\ Area(free, T)
         /\ Tree(mem, root, T) /\ RootTable(root) \in T /\ \A t \in T : <<t.level, t.at>> \in Needed
         /\ TablesTyped /\ CallTyped /\ StageTyped /\ CallInv
         /\ req.call \in {"map", "unmap"} /\ (req.call = "unmap" => ClearInv(T) /\ BackInv(T))
<1>1. root = 0 /\ root # None /\ root \in Tables
  BY TablesAre DEF Good, StageInv
<1>2. CallInv
  BY DEF Good, Calling
<1>3. req.call \in {"map", "unmap"} /\ (req.call = "unmap" => ClearInv(T) /\ BackInv(T))
  <2>1. req.call = IF busy = "map" THEN "map" ELSE "unmap"
    BY <1>2 DEF CallInv
  <2>2. QED
    BY <2>1 DEF Good, Calling
<1>4. QED
  BY <1>1, <1>2, <1>3 DEF Good, Stored, Tree

\* What the stage of the context says does not depend on the steps inside a call.
LEMMA StageKept ==
  ASSUME StageInv, StageTyped, UNCHANGED <<root, todo>>, UNCHANGED busVars, UNCHANGED stageVars,
         root # None, busy' \in {"idle", "map", "unmap", "back"}
  PROVE  StageInv' /\ StageTyped'
BY DEF StageInv, StageTyped, busVars, stageVars

\* mmu_map goes down to a table that is there.
LEMMA MapDescendStep ==
  ASSUME NEW T, Good(T), MapDescend
  PROVE  Good(T)'
<1>1. /\ busy = "map" /\ ~AtLeaf /\ IsTable(Desc) /\ Descend(Desc.addr)
      /\ UNCHANGED tableVars /\ UNCHANGED busVars /\ UNCHANGED stageVars /\ UNCHANGED <<busy, req, va, pa, sz, rc>>
  BY DEF MapDescend
<1>2. /\ root = 0 /\ root \in Tables /\ root # None /\ T \subseteq TableRecs /\ Tree(mem, root, T)
      /\ TablesTyped /\ CallTyped /\ StageTyped /\ CallInv /\ DownInv(T)
  BY <1>1, CallGood DEF Good, Calling
<1>3. PICK t \in T :
        /\ t.addr = pt /\ t.level = level
        /\ Index(level, va) \in Slots(level)
        /\ t.at * Size(level) + Index(level, va) = va \div Block(level)
        /\ Desc \in Descs \cup {None}
  BY <1>2, AtDesc
<1>4. Desc.addr \in Tables /\ level # MaxLevel
  BY <1>1, <1>2, <1>3, DescsAre, PassedNot
<1>5. [addr |-> Desc.addr, level |-> level + 1, at |-> va \div Block(level)] \in T
  <2>1. Below(mem, t, Index(level, va)) \in T
    BY <1>1, <1>2, <1>3, <1>4 DEF Tree, Desc
  <2>2. QED
    BY <1>3, <2>1 DEF Below, Desc
<1>6. CallTyped' /\ Calling(T)'
  BY <1>1, <1>2, <1>4, <1>5, Descended
<1>7. Stored(T)' /\ TablesTyped'
  BY <1>1 DEF Good, Stored, TablesTyped, tableVars
<1>8. StageInv' /\ StageTyped'
  BY <1>1, <1>2, StageKept DEF Good, tableVars
<1>9. QED
  BY <1>6, <1>7, <1>8 DEF Good

\* mmu_unmap goes down, or fails where there is no table.
LEMMA UnmapDescendStep ==
  ASSUME NEW T, Good(T), UnmapDescend
  PROVE  Good(T)'
<1>1. /\ busy = "unmap" /\ ~AtLeaf /\ UNCHANGED tableVars /\ UNCHANGED busVars /\ UNCHANGED stageVars /\ req' = req
      /\ IF IsTable(Desc) THEN Descend(Desc.addr) /\ UNCHANGED <<busy, va, pa, sz, rc>> ELSE Return(-1)
  BY DEF UnmapDescend
<1>2. /\ root = 0 /\ root \in Tables /\ root # None /\ T \subseteq TableRecs /\ Tree(mem, root, T)
      /\ TablesTyped /\ CallTyped /\ StageTyped /\ CallInv /\ DownInv(T)
      /\ BackInv(T) /\ ClearInv(T) /\ BackLevel = level
  BY <1>1, CallGood DEF Good, Calling
<1>3. PICK t \in T :
        /\ t.addr = pt /\ t.level = level
        /\ Index(level, va) \in Slots(level)
        /\ t.at * Size(level) + Index(level, va) = va \div Block(level)
        /\ Desc \in Descs \cup {None}
  BY <1>2, AtDesc
<1>4. Stored(T)' /\ TablesTyped' /\ root' = root /\ todo' = todo /\ mem' = mem
  BY <1>1 DEF Good, Stored, TablesTyped, tableVars
<1>5. CASE IsTable(Desc)
  <2>1. Desc.addr \in Tables /\ level # MaxLevel /\ Desc = TableDesc(Desc.addr)
    BY <1>1, <1>2, <1>3, <1>5, DescsAre, PassedNot
  <2>2. [addr |-> Desc.addr, level |-> level + 1, at |-> va \div Block(level)] \in T
    <3>1. Below(mem, t, Index(level, va)) \in T
      BY <1>2, <1>3, <1>5, <2>1 DEF Tree, Desc
    <3>2. QED
      BY <1>3, <3>1 DEF Below, Desc
  <2>3. Descend(Desc.addr) /\ UNCHANGED <<busy, req, va, pa, sz, rc>>
    BY <1>1, <1>5
  <2> DEFINE a == Desc.addr
  <2>4. /\ a \in Tables /\ Desc = TableDesc(a) /\ Descend(a)
        /\ [addr |-> a, level |-> level + 1, at |-> va \div Block(level)] \in T
    BY <2>1, <2>2, <2>3
  <2> HIDE DEF a
  <2>5. CallTyped' /\ Calling(T)'
    BY <1>1, <1>2, <1>4, <2>3, <2>4, Descended
  <2>6. StageInv' /\ StageTyped'
    BY <1>1, <1>2, <1>4, <2>3, StageKept DEF Good
  <2>7. QED
    BY <1>4, <2>5, <2>6 DEF Good
<1>6. CASE ~IsTable(Desc)
  <2>1. CallTyped' /\ busy' = "idle" /\ Calling(T)'
    BY <1>1, <1>2, <1>4, <1>6, Returned
  <2>2. StageInv' /\ StageTyped'
    BY <1>1, <1>2, <1>4, <2>1, StageKept DEF Good
  <2>3. QED
    BY <1>4, <2>1, <2>2 DEF Good
<1>7. QED
  BY <1>5, <1>6

\* mmu_map stores a leaf, or fails because there is a descriptor.
LEMMA MapStoreStep ==
  ASSUME NEW T, Good(T), MapStore
  PROVE  Good(T)'
<1>1. /\ busy = "map" /\ AtLeaf
      /\ UNCHANGED <<free, root, todo, req>> /\ UNCHANGED busVars /\ UNCHANGED stageVars
      /\ IF Desc # None THEN Return(-1) /\ UNCHANGED mem
         ELSE mem' = [mem EXCEPT ![pt][Index(level, va)] = LeafDesc(pa)] /\ Advance(Block(level))
  BY DEF MapStore
<1>2. /\ root = 0 /\ root \in Tables /\ root # None /\ T \subseteq TableRecs /\ Tree(mem, root, T) /\ RootTable(root) \in T
      /\ TablesTyped /\ CallTyped /\ StageTyped /\ CallInv /\ DownInv(T) /\ req.call = "map" /\ Stored(T) /\ StageInv
  BY <1>1, CallGood DEF Good, Calling, CallInv
<1>3. CallTyped' /\ busy' \in {"idle", "map", "unmap"} /\ Calling(T)'
  <2>1. CASE Desc # None
    BY <1>1, <1>2, <2>1, Returned
  <2>2. CASE Desc = None
    BY <1>1, <1>2, <2>2, Advanced
  <2>3. QED
    BY <2>1, <2>2
<1>4. TablesTyped' /\ Tree(mem', root, T)
  <2>1. CASE Desc # None
    BY <1>1, <1>2, <2>1 DEF TablesTyped
  <2>2. CASE Desc = None
    <3> DEFINE x == Index(level, va)
               d == LeafDesc(pa)
    <3>1. pt \in Tables /\ x \in 0 .. (PtAlign - 1)
      BY <1>2, AtDesc
    <3>2. d \in Descs \cup {None} /\ ~IsTable(d) /\ ~IsTable(None)
      BY <1>2, DescsAre DEF CallTyped
    <3>3. mem' = [mem EXCEPT ![pt][x] = d] /\ mem[pt][x] = None
      BY <1>1, <2>2 DEF Desc
    <3> HIDE DEF x, d
    <3>0. TablesTyped
      BY <1>2
    <3>4. /\ mem' \in [Tables -> [0 .. (PtAlign - 1) -> Descs \cup {None}]]
          /\ \A b \in Tables, s \in 0 .. (PtAlign - 1) : mem'[b][s] = IF b = pt /\ s = x THEN d ELSE mem[b][s]
      <4>1. d \in Descs \cup {None}
        BY <3>2
      <4>2. mem' = [mem EXCEPT ![pt][x] = d]
        BY <3>3
      <4>3. QED
        BY <3>0, <3>1, <4>1, <4>2, StoreIs
    <3>5. ASSUME NEW t \in T, NEW s \in Slots(t.level), IsTable(mem[t.addr][s]) \/ IsTable(mem'[t.addr][s])
          PROVE  mem'[t.addr][s] = mem[t.addr][s]
      <4>1. t.addr \in Tables /\ s \in 0 .. (PtAlign - 1)
        BY <1>2, SlotsAre DEF TableRecs
      <4>2. QED
        BY <3>2, <3>3, <3>4, <3>5, <4>1
    <3>6. Tree(mem', root, T)
      BY <1>2, <3>5, TreeKept
    <3>7. QED
      BY <1>1, <1>2, <3>4, <3>6 DEF TablesTyped
  <2>3. QED
    BY <2>1, <2>2
<1>5. Stored(T)'
  BY <1>1, <1>2, <1>4, TreeStays
<1>6. StageInv' /\ StageTyped'
  BY <1>1, <1>2, <1>3, StageKept
<1>7. QED
  BY <1>3, <1>4, <1>5, <1>6 DEF Good

\* The descriptors on the way back are those of other tables than the last.
LEMMA WalkAbove ==
  ASSUME NEW T, T \subseteq TableRecs, Apart(T), BackInv(T), CallTyped, NEW k \in 1 .. Len(walk)
  PROVE  /\ walk[k].pt # pt /\ walk[k].pt \in Tables /\ walk[k].index \in 0 .. (PtAlign - 1)
         /\ \A e \in 1 .. Len(walk) : e # k => walk[e].pt # walk[k].pt
<1>1. FirstLevel \in Nat /\ Len(walk) \in Nat
  BY TablesAssumption DEF CallTyped
<1>2. \A e \in 1 .. Len(walk) : \E t \in T : t.addr = walk[e].pt /\ t.level = FirstLevel + e - 1
  BY DEF BackInv
<1>3. \E t \in T : t.addr = pt /\ t.level = FirstLevel + Len(walk)
  BY DEF BackInv, BackLevel
<1>4. PICK t \in T : t.addr = walk[k].pt /\ t.level = FirstLevel + k - 1
  BY <1>2
<1>5. \A u \in T : u.addr = t.addr => u.level = FirstLevel + k - 1
  BY <1>4 DEF Apart
<1>6. walk[k].pt # pt
  BY <1>1, <1>3, <1>4, <1>5
<1>7. \A e \in 1 .. Len(walk) : e # k => walk[e].pt # walk[k].pt
  BY <1>1, <1>2, <1>4, <1>5
<1>8. walk[k].pt \in Tables /\ walk[k].index \in 0 .. (PtAlign - 1)
  <2> DEFINE L == [pt : Tables, index : 0 .. (PtAlign - 1)]
  <2>1. walk \in Seq(L)
    BY DEF CallTyped
  <2> HIDE DEF L
  <2>2. walk[k] \in L
    BY <2>1
  <2>3. QED
    BY <2>2 DEF L
<1>9. QED
  BY <1>6, <1>7, <1>8

\* Where a block that the call covers starts, it finds no table.
LEMMA ClearIsLeaf ==
  ASSUME NEW T, T \subseteq TableRecs, Tree(mem, root, T), CallTyped, CallInv, ClearInv(T), AtLeaf,
         NEW t \in T, t.level = level, t.addr = pt, Index(level, va) \in Slots(level),
         t.at * Size(level) + Index(level, va) = va \div Block(level), level # MaxLevel
  PROVE  ~IsTable(Desc)
<1> DEFINE x == Index(level, va)
<1> SUFFICES ASSUME IsTable(Desc) PROVE FALSE
  OBVIOUS
<1>1. Below(mem, t, x) \in T
  BY DEF Tree, Desc
<1> DEFINE u == Below(mem, t, x)
<1>2. u.level = level + 1 /\ u.at = va \div Block(level)
  BY DEF Below
<1> HIDE DEF u
<1>3. u.level # FirstLevel /\ u.level - 1 = level
  BY <1>2, TablesAssumption DEF CallTyped, Levels
<1>4. ~Covers(req, level, va \div Block(level))
  BY <1>1, <1>2, <1>3 DEF ClearInv, u
<1>5. Fits(level) /\ level \in Levels
  BY DEF AtLeaf, Fits, CallTyped
<1>6. QED
  BY <1>4, <1>5, FitsIs

\* mmu_unmap clears a descriptor: a leaf, since no table is below a block that is unmapped.
LEMMA UnmapClearStep ==
  ASSUME NEW T, Good(T), UnmapClear
  PROVE  Good(T)'
<1>1. /\ busy = "unmap" /\ AtLeaf
      /\ UNCHANGED <<free, root, todo, req>> /\ UNCHANGED busVars /\ UNCHANGED stageVars
      /\ IF Desc = None THEN Return(-1) /\ UNCHANGED mem
         ELSE /\ mem' = [mem EXCEPT ![pt][Index(level, va)] = None]
              /\ busy' = "back" /\ UNCHANGED <<va, pa, sz, level, pt, walk, rc>>
  BY DEF UnmapClear
<1>2. /\ root = 0 /\ root \in Tables /\ root # None /\ T \subseteq TableRecs /\ Tree(mem, root, T) /\ Apart(T)
      /\ TablesTyped /\ CallTyped /\ StageTyped /\ CallInv /\ DownInv(T) /\ Stored(T) /\ StageInv
      /\ BackInv(T) /\ ClearInv(T) /\ BackLevel = level
  BY <1>1, CallGood DEF Good, Calling
<1>3. CASE Desc = None
  <2>1. CallTyped' /\ busy' = "idle" /\ Calling(T)'
    BY <1>1, <1>2, <1>3, Returned
  <2>2. StageInv' /\ StageTyped'
    BY <1>1, <1>2, <2>1, StageKept
  <2>3. Stored(T)' /\ TablesTyped'
    BY <1>1, <1>2, <1>3 DEF Stored, TablesTyped
  <2>4. QED
    BY <2>1, <2>2, <2>3 DEF Good
<1>4. CASE Desc # None
  <2> DEFINE x == Index(level, va)
  <2>0. PICK t \in T :
        /\ t.addr = pt /\ t.level = level /\ pt \in Tables
        /\ x \in Slots(level) /\ x \in 0 .. (PtAlign - 1)
        /\ t.at * Size(level) + x = va \div Block(level)
        /\ Desc \in Descs \cup {None}
    BY <1>2, AtDesc
  <2>1. level # MaxLevel => ~IsTable(Desc)
    BY <1>1, <1>2, <2>0, ClearIsLeaf
  <2>2. /\ mem' = [mem EXCEPT ![pt][x] = None] /\ mem[pt][x] = Desc
        /\ busy' = "back" /\ va' = va /\ pa' = pa /\ sz' = sz /\ level' = level /\ pt' = pt /\ walk' = walk /\ rc' = rc
        /\ req' = req /\ root' = root
    BY <1>1, <1>4 DEF Desc
  <2> HIDE DEF x
  <2>3. TablesTyped /\ pt \in Tables /\ x \in 0 .. (PtAlign - 1) /\ None \in Descs \cup {None}
    BY <1>2, <2>0
  <2>4. /\ mem' \in [Tables -> [0 .. (PtAlign - 1) -> Descs \cup {None}]]
        /\ \A b \in Tables, s \in 0 .. (PtAlign - 1) : mem'[b][s] = IF b = pt /\ s = x THEN None ELSE mem[b][s]
    BY <2>2, <2>3, StoreIs
  <2>5. ASSUME NEW o \in T, o.level # MaxLevel, NEW s \in Slots(o.level), IsTable(mem[o.addr][s]) \/ IsTable(mem'[o.addr][s])
        PROVE  mem'[o.addr][s] = mem[o.addr][s]
    <3>1. o.addr \in Tables /\ s \in 0 .. (PtAlign - 1) /\ ~IsTable(None)
      BY <1>2, SlotsAre, DescsAre DEF TableRecs
    <3>2. o.addr = pt => o = t
      BY <1>2, <2>0 DEF Apart
    <3>3. QED
      BY <2>0, <2>1, <2>2, <2>4, <2>5, <3>1, <3>2
  <2>6. Tree(mem', root, T)
    BY <1>2, <2>5, TreeKept
  <2>7. TablesTyped' /\ Stored(T)'
    BY <1>1, <1>2, <2>4, <2>6, TreeStays DEF TablesTyped
  <2>8. CallTyped'
    BY <1>2, <2>2 DEF CallTyped
  <2>9. CallInv'
    BY <1>1, <1>2, <2>2 DEF CallInv, AtLeaf, Covers, Fits
  <2>10. ASSUME NEW k \in 1 .. Len(walk) PROVE mem'[walk[k].pt][walk[k].index] = mem[walk[k].pt][walk[k].index]
    BY <1>2, <2>4, WalkAbove
  <2>11. BackInv(T)'
    <3>1. BackLevel' = BackLevel /\ \A k \in 1 .. Len(walk) : NextOn(k)' = NextOn(k)
      BY <2>2 DEF BackLevel, NextOn
    <3>2. QED
      BY <1>2, <2>2, <2>10, <3>1 DEF BackInv
  <2>12. Calling(T)'
    BY <1>2, <2>2, <2>9, <2>11 DEF Calling, ClearInv, Covers
  <2>13. StageInv' /\ StageTyped'
    BY <1>1, <1>2, <2>2, StageKept
  <2>14. QED
    BY <2>7, <2>8, <2>12, <2>13 DEF Good
<1>5. QED
  BY <1>3, <1>4

\* Where a descriptor is no table, T has none.
LEMMA NoneBelow ==
  ASSUME NEW T, T \subseteq TableRecs, Apart(T), NEW m, NEW r, Tree(m, r, T),
         NEW t \in T, t.level # MaxLevel, NEW x \in Slots(t.level), ~IsTable(m[t.addr][x]), NEW o \in T
  PROVE  ~(o.level = t.level + 1 /\ o.at = t.at * Size(t.level) + x)
<1> SUFFICES ASSUME o.level = t.level + 1, o.at = t.at * Size(t.level) + x PROVE FALSE
  OBVIOUS
<1>1. t.level \in Levels /\ t.level \in Nat /\ FirstLevel <= t.level
  BY PowersAre DEF TableRecs, Levels
<1>2. o.level # FirstLevel /\ o.level - 1 = t.level
  BY <1>1, TablesAssumption
<1>3. PICK u \in T : u.level = t.level /\ \E s \in Slots(u.level) : IsTable(m[u.addr][s]) /\ o = Below(m, u, s)
  BY <1>2 DEF Tree
<1>4. PICK s \in Slots(t.level) : IsTable(m[u.addr][s]) /\ o = Below(m, u, s)
  BY <1>3
<1> DEFINE b == Size(t.level)
<1>5. b \in Nat \ {0} /\ s \in 0 .. (b - 1) /\ x \in 0 .. (b - 1) /\ t.at \in Nat /\ u.at \in Nat
  BY <1>1, PowersAre DEF Slots, TableRecs
<1>6. u.at * b + s = t.at * b + x
  BY <1>3, <1>4 DEF Below
<1> HIDE DEF b
<1> DEFINE p == u.at
           q == t.at
<1>7. p = q /\ s = x
  <2>1. p \in Nat /\ q \in Nat /\ p * b + s = q * b + x
    BY <1>5, <1>6
  <2> HIDE DEF p, q
  <2>2. QED
    BY <1>5, <2>1, Quot
<1>8. u = t
  BY <1>3, <1>7 DEF Apart
<1>9. QED
  BY <1>4, <1>7, <1>8

\* Tables m with a new table a, linked at b and x.
Grown(m, w, a, b, x) ==
  /\ \A s \in 0 .. (PtAlign - 1) : w[a][s] = None
  /\ w[b][x] = TableDesc(a)
  /\ \A c \in Tables : \A s \in 0 .. (PtAlign - 1) : c # a /\ ~(c = b /\ s = x) => w[c][s] = m[c][s]
Child(t, x, a) == [addr |-> a, level |-> t.level + 1, at |-> t.at * Size(t.level) + x]

\* The store of MapGrow: table a is cleared, and linked in slot x of table b.
LEMMA GrowStore ==
  ASSUME TablesTyped, NEW a \in Tables, NEW b \in Tables, a # b, NEW x \in 0 .. (PtAlign - 1),
         mem' = [mem EXCEPT ![a] = NoDescs, ![b][x] = TableDesc(a)]
  PROVE  /\ mem' \in [Tables -> [0 .. (PtAlign - 1) -> Descs \cup {None}]]
         /\ Grown(mem, mem', a, b, x)
<1> DEFINE d == TableDesc(a)
           D == Descs \cup {None}
           I == 0 .. (PtAlign - 1)
<1>1. d \in D /\ None \in D
  BY DescsAre
<1>2. NoDescs \in [I -> D] /\ \A s \in I : NoDescs[s] = None
  BY <1>1 DEF NoDescs
<1>3. mem \in [Tables -> [I -> D]] /\ x \in I
  BY DEF TablesTyped
<1>4. mem' = [mem EXCEPT ![a] = NoDescs, ![b][x] = d]
  OBVIOUS
<1> HIDE DEF d, D, I
<1>5. /\ mem' \in [Tables -> [I -> D]]
      /\ \A s \in I : mem'[a][s] = None
      /\ mem'[b][x] = d
      /\ \A c \in Tables : \A s \in I : c # a /\ ~(c = b /\ s = x) => mem'[c][s] = mem[c][s]
  BY <1>1, <1>2, <1>3, <1>4
<1>6. QED
  BY <1>5, Zenon DEF d, D, I, Grown

\* A new empty table, linked in a slot that held none, is one more of the tree.
LEMMA TreeGrown ==
  ASSUME NEW T, T \subseteq TableRecs, Apart(T), NEW m, NEW r, Tree(m, r, T),
         NEW t \in T, t.level # MaxLevel, NEW x \in Slots(t.level), ~IsTable(m[t.addr][x]),
         NEW a \in Tables, \A o \in T : o.addr # a,
         NEW w, Grown(m, w, a, t.addr, x), NEW v, v = Child(t, x, a),
         NEW U, U = T \cup {v}
  PROVE  Tree(w, r, U) /\ Apart(U) /\ U \subseteq TableRecs
<1>1. /\ t.level \in Levels /\ t.level + 1 \in Levels /\ t.level \in Nat /\ FirstLevel <= t.level /\ t.addr \in Tables /\ t.addr # a
      /\ t.at \in Nat /\ Size(t.level) \in Nat /\ x \in Nat /\ x \in 0 .. (PtAlign - 1) /\ t.level + 1 # FirstLevel /\ (t.level + 1) - 1 = t.level
  <2>1. t.level \in Levels /\ t.addr \in Tables /\ t.addr # a /\ t.at \in Nat
    BY DEF TableRecs
  <2>2. t.level + 1 \in Levels /\ t.level \in Nat /\ FirstLevel <= t.level /\ t.level + 1 # FirstLevel
    BY <2>1, TablesAssumption DEF Levels
  <2>3. QED
    BY <2>1, <2>2, PowersAre, SlotsAre
<1>2. v \in TableRecs
  <2>1. t.at * Size(t.level) \in Nat
    BY <1>1
  <2>2. QED
    BY <1>1, <2>1 DEF TableRecs, Child
<1>3. v.addr = a /\ v.level = t.level + 1 /\ v.at = t.at * Size(t.level) + x
  BY DEF Child
<1>4. /\ \A s \in 0 .. (PtAlign - 1) : w[a][s] = None
      /\ w[t.addr][x] = TableDesc(a)
      /\ \A c \in Tables : \A s \in 0 .. (PtAlign - 1) : c # a /\ ~(c = t.addr /\ s = x) => w[c][s] = m[c][s]
  BY DEF Grown
<1>5. Apart(U)
  <2>1. \A o \in T : ~(o.addr = v.addr) /\ ~(o.level = v.level /\ o.at = v.at)
    BY <1>3, NoneBelow
  <2>2. QED
    BY <2>1 DEF Apart
<1>6. Below(w, t, x) = v /\ IsTable(TableDesc(a)) /\ ~IsTable(None)
  BY <1>3, <1>4, DescsAre DEF Below, Child
<1>7. \A o \in T : \A s \in Slots(o.level) :
        /\ o.addr \in Tables /\ s \in 0 .. (PtAlign - 1) /\ o.addr # a
        /\ o.addr = t.addr => o = t
        /\ ~(o = t /\ s = x) => w[o.addr][s] = m[o.addr][s] /\ Below(w, o, s) = Below(m, o, s)
  <2> SUFFICES ASSUME NEW o \in T, NEW s \in Slots(o.level)
               PROVE  /\ o.addr \in Tables /\ s \in 0 .. (PtAlign - 1) /\ o.addr # a
                      /\ o.addr = t.addr => o = t
                      /\ ~(o = t /\ s = x) => w[o.addr][s] = m[o.addr][s] /\ Below(w, o, s) = Below(m, o, s)
    OBVIOUS
  <2>1. o.addr \in Tables /\ s \in 0 .. (PtAlign - 1) /\ o.addr # a
    BY SlotsAre DEF TableRecs
  <2>2. o.addr = t.addr => o = t
    BY DEF Apart
  <2>3. ~(o = t /\ s = x) => w[o.addr][s] = m[o.addr][s]
    BY <1>4, <2>1, <2>2
  <2>4. QED
    BY <2>1, <2>2, <2>3 DEF Below
<1>8. ASSUME NEW o \in U, o.level # MaxLevel, NEW s \in Slots(o.level), IsTable(w[o.addr][s])
      PROVE  Below(w, o, s) \in U
  <2>1. CASE o = v
    <3>1. s \in 0 .. (PtAlign - 1)
      BY <1>2, <2>1, SlotsAre DEF TableRecs
    <3>2. QED
      BY <1>3, <1>4, <1>6, <1>8, <2>1, <3>1
  <2>2. CASE o \in T /\ ~(o = t /\ s = x)
    <3>1. w[o.addr][s] = m[o.addr][s] /\ Below(w, o, s) = Below(m, o, s)
      BY <1>7, <1>8, <2>2
    <3>2. IsTable(m[o.addr][s])
      BY <1>8, <3>1
    <3>3. Below(m, o, s) \in T
      BY <1>8, <2>2, <3>2 DEF Tree
    <3>4. QED
      BY <3>1, <3>3
  <2>3. CASE o = t /\ s = x
    BY <1>6, <2>3
  <2>4. QED
    BY <2>1, <2>2, <2>3
<1>9. ASSUME NEW u \in U, u.level # FirstLevel
      PROVE  \E o \in U : /\ o.level = u.level - 1
                          /\ \E s \in Slots(o.level) : IsTable(w[o.addr][s]) /\ u = Below(w, o, s)
  <2>1. CASE u = v
    BY <1>1, <1>3, <1>4, <1>6, <2>1
  <2>2. CASE u \in T
    <3>1. PICK o \in T : /\ o.level = u.level - 1
                         /\ \E s \in Slots(o.level) : IsTable(m[o.addr][s]) /\ u = Below(m, o, s)
      BY <1>9, <2>2 DEF Tree
    <3>2. PICK s \in Slots(o.level) : IsTable(m[o.addr][s]) /\ u = Below(m, o, s)
      BY <3>1
    <3>3. ~(o = t /\ s = x)
      BY <3>2
    <3>4. IsTable(w[o.addr][s]) /\ u = Below(w, o, s)
      BY <1>7, <3>2, <3>3
    <3>5. QED
      BY <3>1, <3>2, <3>4
  <2>3. QED
    BY <2>1, <2>2
<1>10. RootTable(r) \in U /\ \A o \in U : o.level = FirstLevel => o = RootTable(r)
  BY <1>1, <1>3 DEF Tree
<1>11. Tree(w, r, U)
  BY <1>8, <1>9, <1>10 DEF Tree
<1>12. QED
  BY <1>2, <1>5, <1>11

\* What EntryLeft says of the tables T in use.
LEMMA EntryIs ==
  ASSUME EntryLeft, NEW T, Stored(T), NEW t \in T
  PROVE  EmptyIn(free) # {} /\ \E e \in Entries : free[e] = None
<1>1. InUse = T
  BY TreeIs DEF Stored, InUse
<1>2. QED
  BY <1>1 DEF EntryLeft, EmptyIn

\* pt_alloc finds a table, unless free_blocks[] is full.
LEMMA GrowFinds ==
  ASSUME Supported, EntryLeft, NEW T, Good(T), busy = "map", ~AtLeaf, ~IsTable(Desc)
  PROVE  /\ BallocAlloc(free, Size(level + 1), PtAlign).addr # None
         /\ \E t \in T : /\ t.addr = pt /\ t.level = level
                         /\ Index(level, va) \in Slots(level) /\ Index(level, va) \in 0 .. (PtAlign - 1)
                         /\ t.at * Size(level) + Index(level, va) = va \div Block(level)
<1>1. /\ root = 0 /\ root \in Tables /\ root # None /\ T \subseteq TableRecs /\ Tree(mem, root, T) /\ RootTable(root) \in T
      /\ TablesTyped /\ CallTyped /\ CallInv /\ DownInv(T) /\ Apart(T) /\ Area(free, T)
      /\ \A t \in T : <<t.level, t.at>> \in Needed
  BY CallGood DEF Good, Calling
<1>2. PICK t \in T :
        /\ t.addr = pt /\ t.level = level
        /\ Index(level, va) \in Slots(level) /\ Index(level, va) \in 0 .. (PtAlign - 1)
        /\ t.at * Size(level) + Index(level, va) = va \div Block(level)
  BY <1>1, AtDesc
<1>3. level # MaxLevel /\ level + 1 \in Levels \ {FirstLevel} /\ <<level + 1, va \div Block(level)>> \in Needed
  BY <1>1, PassedNot
<1> DEFINE q == <<level + 1, va \div Block(level)>>
<1>4. \A o \in T : <<o.level, o.at>> # q
  BY <1>1, <1>2, <1>3, NoneBelow DEF Desc
<1>5. q \in Needed /\ Cardinality(Needed) <= Cardinality(Tables)
  BY <1>3 DEF Supported
<1> HIDE DEF q
<1>6. PICK a \in Tables : \A o \in T : o.addr # a
  BY <1>1, <1>4, <1>5, Room
<1>7. a # 0 /\ EmptyIn(free) # {}
  <2>1. Stored(T)
    BY DEF Good
  <2>2. QED
    BY <1>1, <1>2, <1>6, <2>1, EntryIs DEF RootTable
<1>8. BallocAlloc(free, Size(level + 1), PtAlign).addr # None
  BY <1>1, <1>3, <1>6, <1>7, AllocSucceeds
<1>9. QED
  BY <1>2, <1>8

\* What MapGrow does to the tables T: the one at pt gets a new one below it.
Grows(T, U) ==
  \E t \in T, b \in Tables :
    /\ t.addr = pt /\ t.level = level /\ (\A o \in T : o.addr # b) /\ pt' = b
    /\ Grown(mem, mem', b, pt, Index(level, va)) /\ U = T \cup {Child(t, Index(level, va), b)}

\* mmu_map allocates a table: there is room, and its place is free.
LEMMA MapGrowStep ==
  ASSUME Supported, EntryLeft, NEW T, Good(T), MapGrow
  PROVE  \E U : Good(U)' /\ Grows(T, U)
<1> DEFINE new == BallocAlloc(free, Size(level + 1), PtAlign)
           a == new.addr
           x == Index(level, va)
<1>1. /\ busy = "map" /\ ~AtLeaf /\ ~IsTable(Desc)
      /\ free' = new.free
      /\ a # None => LinkTable(a) /\ Descend(a) /\ UNCHANGED busy
      /\ UNCHANGED <<root, todo, req, va, pa, sz, rc>> /\ UNCHANGED busVars /\ UNCHANGED stageVars
  BY DEF MapGrow
<1>0. PICK b, y, v, U : b = a /\ y = x /\ v = [addr |-> b, level |-> level + 1, at |-> va \div Block(level)] /\ U = T \cup {v}
  OBVIOUS
<1>2. /\ root = 0 /\ root \in Tables /\ root # None /\ T \subseteq TableRecs /\ Tree(mem, root, T)
      /\ TablesTyped /\ CallTyped /\ StageTyped /\ StageInv /\ CallInv /\ DownInv(T) /\ Apart(T) /\ Area(free, T)
      /\ \A t \in T : <<t.level, t.at>> \in Needed
  BY <1>1, CallGood DEF Good, Calling
<1>3. a # None
  BY <1>1, GrowFinds
<1>4. PICK t \in T :
        /\ t.addr = pt /\ t.level = level /\ x \in Slots(level) /\ x \in 0 .. (PtAlign - 1)
        /\ t.at * Size(level) + x = va \div Block(level)
  BY <1>1, GrowFinds
<1>5. /\ level # MaxLevel /\ level + 1 \in Levels \ {FirstLevel} /\ <<level + 1, va \div Block(level)>> \in Needed
      /\ va \div Block(level) \in Nat /\ pt \in Tables
  BY <1>1, <1>2, <1>4, PassedNot, IndexIs, CallAt DEF CallTyped, TableRecs
<1>6. a \in Tables /\ (\A u \in T : u.addr # a) /\ Area(new.free, U)
  BY <1>0, <1>2, <1>3, <1>5, AllocExact
<1>7. mem' = [mem EXCEPT ![b] = NoDescs, ![pt][y] = TableDesc(b)] /\ Descend(b) /\ busy' = busy
  BY <1>0, <1>1, <1>3 DEF LinkTable
<1>8. v = Child(t, y, b) /\ U = T \cup {v}
  BY <1>0, <1>4 DEF Child
<1>9. /\ ~IsTable(mem[t.addr][y]) /\ free' = new.free /\ pt # b /\ b \in Tables /\ (\A u \in T : u.addr # b)
      /\ y \in Slots(t.level) /\ y \in 0 .. (PtAlign - 1) /\ Area(free', U)
  BY <1>0, <1>1, <1>4, <1>6 DEF Desc
<1> HIDE DEF new, a, x
<1>10. mem' \in [Tables -> [0 .. (PtAlign - 1) -> Descs \cup {None}]] /\ Grown(mem, mem', b, pt, y)
  <2>1. /\ TablesTyped /\ b \in Tables /\ pt \in Tables /\ b # pt /\ y \in 0 .. (PtAlign - 1)
        /\ mem' = [mem EXCEPT ![b] = NoDescs, ![pt][y] = TableDesc(b)]
    BY <1>2, <1>5, <1>7, <1>9
  <2>2. QED
    BY <2>1, GrowStore
<1>11. Tree(mem', root, U) /\ Apart(U) /\ U \subseteq TableRecs
  <2>1. T \subseteq TableRecs /\ Apart(T) /\ Tree(mem, root, T)
    BY <1>2
  <2>2. t.level # MaxLevel /\ y \in Slots(t.level) /\ ~IsTable(mem[t.addr][y])
    BY <1>4, <1>5, <1>9
  <2>3. b \in Tables /\ \A o \in T : o.addr # b
    BY <1>9
  <2>4. Grown(mem, mem', b, t.addr, y)
    BY <1>4, <1>10
  <2>5. QED
    BY <2>1, <2>2, <2>3, <2>4, <1>8, TreeGrown
<1>12. Stored(U)'
  <2>1. \A u \in U : <<u.level, u.at>> \in Needed
    <3>1. v.level = level + 1 /\ v.at = va \div Block(level)
      BY <1>0
    <3>2. <<v.level, v.at>> \in Needed
      BY <1>5, <3>1
    <3>3. (\A u \in T : <<u.level, u.at>> \in Needed) /\ U = T \cup {v}
      BY <1>2, <1>8
    <3>4. QED
      BY <3>2, <3>3
  <2>2. Area(free', U) /\ root' = root
    BY <1>1, <1>9
  <2>3. root' # None /\ Tree(mem', root', U) /\ Apart(U) /\ U \subseteq TableRecs
    BY <1>2, <1>11, <2>2
  <2>4. QED
    BY <2>1, <2>2, <2>3 DEF Stored
<1>13. TablesTyped'
  BY <1>1, <1>2, <1>9, <1>10 DEF TablesTyped, Area, Shape
<1>14. CallTyped' /\ Calling(U)'
  <2>1. T \subseteq U /\ v \in U
    BY <1>8
  <2>2. [addr |-> b, level |-> level + 1, at |-> va \div Block(level)] \in U
    BY <1>0, <2>1
  <2>3. UNCHANGED <<busy, req, va, pa, sz, rc>>
    BY <1>1, <1>7
  <2>4. TablesTyped /\ CallTyped /\ CallInv /\ T \subseteq TableRecs /\ Tree(mem, root, T) /\ DownInv(T) /\ ~AtLeaf
    BY <1>1, <1>2
  <2>5. busy \in {"map", "unmap"} /\ busy # "unmap"
    BY <1>1
  <2>6. b \in Tables /\ Descend(b)
    BY <1>7, <1>9
  <2>7. QED
    BY <2>1, <2>2, <2>3, <2>4, <2>5, <2>6, Descended
<1>15. StageInv' /\ StageTyped'
  BY <1>1, <1>2, <1>7, StageKept
<1>16. Grows(T, U)
  <2>1. Grown(mem, mem', b, pt, Index(level, va)) /\ U = T \cup {Child(t, Index(level, va), b)}
    BY <1>0, <1>8, <1>10 DEF x
  <2>2. QED
    BY <1>4, <1>7, <1>9, <2>1 DEF Grows, Descend
<1>17. QED
  BY <1>12, <1>13, <1>14, <1>15, <1>16 DEF Good

\* Tables m without the descriptor x of b.
Pruned(m, w, b, x) ==
  \A c \in Tables : \A s \in 0 .. (PtAlign - 1) : w[c][s] = IF c = b /\ s = x THEN None ELSE m[c][s]

\* Quot, for use without instantiation.
LEMMA Quots ==
  \A b \in Nat \ {0} : \A q, p \in Nat : \A s, x \in 0 .. (b - 1) : q * b + s = p * b + x => q = p /\ s = x
<1> SUFFICES ASSUME NEW b \in Nat \ {0}, NEW q \in Nat, NEW p \in Nat, NEW s \in 0 .. (b - 1), NEW x \in 0 .. (b - 1),
                    q * b + s = p * b + x
             PROVE  q = p /\ s = x
  OBVIOUS
<1>1. QED
  BY Quot

\* An empty table that is unlinked is one less of the tree.
LEMMA TreePruned ==
  ASSUME NEW T, T \subseteq TableRecs, Apart(T), NEW m, NEW r, Tree(m, r, T),
         NEW t \in T, NEW p \in T, t.level = p.level + 1, p.level # MaxLevel,
         NEW x \in Slots(p.level), m[p.addr][x] = TableDesc(t.addr),
         \A s \in Slots(t.level) : m[t.addr][s] = None,
         NEW w, Pruned(m, w, p.addr, x), NEW U, U = T \ {t}
  PROVE  Tree(w, r, U)
<1>1. /\ p.level \in Levels /\ t.level # FirstLevel /\ t.level - 1 = p.level /\ p.level \in Nat
  <2>1. p.level \in Levels /\ Levels \subseteq Nat /\ FirstLevel \in Nat /\ FirstLevel <= p.level
    BY PowersAre, TablesAssumption DEF TableRecs, Levels
  <2>2. p.level \in Nat
    BY <2>1, Zenon
  <2> DEFINE l == p.level
             k == t.level
  <2>3. l \in Nat /\ FirstLevel \in Nat /\ FirstLevel <= l /\ k = l + 1
    BY <2>1, <2>2
  <2> HIDE DEF l, k
  <2>4. k # FirstLevel /\ k - 1 = l
    BY <2>3
  <2>5. QED
    BY <2>1, <2>2, <2>4 DEF l, k
<1>2. IsTable(TableDesc(t.addr)) /\ TableDesc(t.addr).addr = t.addr /\ ~IsTable(None)
  BY DescsAre DEF TableRecs
<1>3. Below(m, p, x) = t
  <2>1. Below(m, p, x) \in T
    BY <1>2 DEF Tree
  <2>2. Below(m, p, x).addr = t.addr
    BY <1>2 DEF Below
  <2>3. QED
    BY <2>1, <2>2 DEF Apart
<1>4. ASSUME NEW o \in T, o.level # MaxLevel, NEW s \in Slots(o.level), Below(m, o, s) = t
      PROVE  o = p /\ s = x
  <2>1. o.level = p.level
    <3>1. o.level \in Nat /\ o.level + 1 = p.level + 1
      BY <1>3, <1>4, PowersAre DEF Below, TableRecs
    <3>2. QED
      BY <1>1, <3>1
  <2> DEFINE b == Size(p.level)
             y == o.at
             z == p.at
  <2>2. b \in Nat \ {0} /\ s \in 0 .. (b - 1) /\ x \in 0 .. (b - 1) /\ y \in Nat /\ z \in Nat
    BY <1>1, <2>1, PowersAre DEF Slots, TableRecs
  <2>3. y * b + s = z * b + x
    BY <1>3, <1>4, <2>1 DEF Below
  <2> HIDE DEF b, y, z
  <2>4. y = z /\ s = x
    BY <2>2, <2>3, Quots, Zenon
  <2>5. o = p
    BY <2>1, <2>4 DEF Apart, y, z
  <2>6. QED
    BY <2>4, <2>5
<1>5. ASSUME NEW o \in T, o.level # MaxLevel, NEW s \in Slots(o.level)
      PROVE  /\ o.addr \in Tables /\ s \in 0 .. (PtAlign - 1)
             /\ o = p /\ s = x => w[o.addr][s] = None
             /\ ~(o = p /\ s = x) => w[o.addr][s] = m[o.addr][s] /\ Below(w, o, s) = Below(m, o, s)
  <2>1. o.addr \in Tables /\ s \in 0 .. (PtAlign - 1) /\ p.addr \in Tables
    BY SlotsAre DEF TableRecs
  <2>2. o.addr = p.addr => o = p
    BY DEF Apart
  <2>3. w[o.addr][s] = IF o.addr = p.addr /\ s = x THEN None ELSE m[o.addr][s]
    BY <2>1 DEF Pruned
  <2>4. QED
    BY <2>1, <2>2, <2>3 DEF Below
<1>6. ASSUME NEW o \in U, o.level # MaxLevel, NEW s \in Slots(o.level), IsTable(w[o.addr][s])
      PROVE  Below(w, o, s) \in U
  <2>1. o \in T /\ ~(o = p /\ s = x)
    BY <1>2, <1>5, <1>6
  <2>2. w[o.addr][s] = m[o.addr][s] /\ Below(w, o, s) = Below(m, o, s)
    BY <1>5, <1>6, <2>1
  <2>3. Below(m, o, s) \in T
    BY <1>6, <2>1, <2>2 DEF Tree
  <2>4. QED
    BY <1>4, <1>6, <2>1, <2>2, <2>3
<1>7. ASSUME NEW u \in U, u.level # FirstLevel
      PROVE  \E o \in U : /\ o.level = u.level - 1
                          /\ \E s \in Slots(o.level) : IsTable(w[o.addr][s]) /\ u = Below(w, o, s)
  <2>1. PICK o \in T : /\ o.level = u.level - 1
                       /\ \E s \in Slots(o.level) : IsTable(m[o.addr][s]) /\ u = Below(m, o, s)
    BY <1>7 DEF Tree
  <2>2. PICK s \in Slots(o.level) : IsTable(m[o.addr][s]) /\ u = Below(m, o, s)
    BY <2>1
  <2>3. o # t /\ ~(o = p /\ s = x)
    BY <1>2, <1>3, <2>2
  <2>4. o.level # MaxLevel
    BY <2>1, TablesAssumption DEF TableRecs, Levels
  <2>5. IsTable(w[o.addr][s]) /\ u = Below(w, o, s)
    BY <1>5, <2>2, <2>3, <2>4
  <2>6. QED
    BY <2>1, <2>2, <2>3, <2>5
<1>8. RootTable(r) \in U /\ \A o \in U : o.level = FirstLevel => o = RootTable(r)
  BY <1>1 DEF Tree, RootTable
<1>9. QED
  BY <1>6, <1>7, <1>8 DEF Tree

\* One step back.
LEMMA WalkedBack ==
  ASSUME CallTyped, NEW T, T \subseteq TableRecs, Apart(T), BackInv(T), walk # <<>>,
         NEW t \in T, t.addr = pt, t.level = BackLevel, NEW U, U = T \ {t},
         Pruned(mem, mem', walk[Len(walk)].pt, walk[Len(walk)].index),
         pt' = walk[Len(walk)].pt, walk' = SubSeq(walk, 1, Len(walk) - 1), level' = level
  PROVE  /\ BackInv(U)'
         /\ pt' \in Tables /\ walk' \in Seq([pt : Tables, index : 0 .. (PtAlign - 1)])
<1> DEFINE L == [pt : Tables, index : 0 .. (PtAlign - 1)]
           w == Len(walk)
<1>1. walk \in Seq(L) /\ level \in Levels
  BY DEF CallTyped
<1> HIDE DEF L
<1>2. w \in Nat \ {0} /\ FirstLevel \in Nat /\ level \in Nat
  BY <1>1, PowersAre, TablesAssumption
<1>3. walk' \in Seq(L) /\ Len(walk') = w - 1 /\ \A k \in 1 .. (w - 1) : walk'[k] = walk[k]
  <2>1. walk' = SubSeq(walk, 1, w - 1) /\ w - 1 \in Nat /\ w - 1 <= w
    BY <1>2
  <2>2. \A k \in 1 .. (w - 1) : walk[k] \in L
    BY <1>1, <1>2
  <2> HIDE DEF w
  <2>3. QED
    BY <1>1, <2>1, <2>2
<1>4. \A k \in 1 .. w :
        /\ \E u \in U : u.addr = walk[k].pt /\ u.level = FirstLevel + k - 1
        /\ walk[k].index \in Slots(FirstLevel + k - 1)
        /\ mem[walk[k].pt][walk[k].index] = TableDesc(NextOn(k))
  <2> SUFFICES ASSUME NEW k \in 1 .. w
               PROVE  /\ \E u \in U : u.addr = walk[k].pt /\ u.level = FirstLevel + k - 1
                      /\ walk[k].index \in Slots(FirstLevel + k - 1)
                      /\ mem[walk[k].pt][walk[k].index] = TableDesc(NextOn(k))
    OBVIOUS
  <2>1. PICK u \in T : u.addr = walk[k].pt /\ u.level = FirstLevel + k - 1
    BY DEF BackInv
  <2>2. u.level # t.level
    BY <1>2, <2>1 DEF BackLevel
  <2>3. QED
    BY <2>1, <2>2 DEF BackInv
<1>5. \A k \in 1 .. (w - 1) : mem'[walk[k].pt][walk[k].index] = mem[walk[k].pt][walk[k].index]
  <2> SUFFICES ASSUME NEW k \in 1 .. (w - 1) PROVE mem'[walk[k].pt][walk[k].index] = mem[walk[k].pt][walk[k].index]
    OBVIOUS
  <2>1. k \in 1 .. w /\ k # w /\ w \in 1 .. w
    BY <1>2
  <2>2. walk[k].pt # walk[w].pt /\ walk[k].pt \in Tables /\ walk[k].index \in 0 .. (PtAlign - 1)
    BY <2>1, WalkAbove
  <2>3. QED
    BY <2>2 DEF Pruned
<1>6. \A k \in 1 .. (w - 1) : NextOn(k)' = NextOn(k)
  BY <1>2, <1>3 DEF NextOn
<1>7. BackLevel' = FirstLevel + (w - 1) /\ BackLevel = FirstLevel + w /\ BackLevel <= level
  BY <1>2, <1>3 DEF BackLevel, BackInv
<1>8. BackLevel' <= level'
  BY <1>2, <1>7
<1>9. \E u \in U : u.addr = pt' /\ u.level = BackLevel'
  <2>1. \E u \in U : u.addr = walk[w].pt /\ u.level = FirstLevel + w - 1
    BY <1>2, <1>4
  <2>2. FirstLevel + w - 1 = FirstLevel + (w - 1)
    BY <1>2
  <2>3. QED
    BY <1>7, <2>1, <2>2
<1>10. \A k \in 1 .. (w - 1) :
         /\ \E u \in U : u.addr = walk'[k].pt /\ u.level = FirstLevel + k - 1
         /\ walk'[k].index \in Slots(FirstLevel + k - 1)
         /\ mem'[walk'[k].pt][walk'[k].index] = TableDesc(NextOn(k)')
  <2> SUFFICES ASSUME NEW k \in 1 .. (w - 1)
               PROVE  /\ \E u \in U : u.addr = walk'[k].pt /\ u.level = FirstLevel + k - 1
                      /\ walk'[k].index \in Slots(FirstLevel + k - 1)
                      /\ mem'[walk'[k].pt][walk'[k].index] = TableDesc(NextOn(k)')
    OBVIOUS
  <2>1. k \in 1 .. w /\ walk'[k] = walk[k]
    BY <1>2, <1>3
  <2>2. /\ \E u \in U : u.addr = walk[k].pt /\ u.level = FirstLevel + k - 1
        /\ walk[k].index \in Slots(FirstLevel + k - 1)
        /\ mem[walk[k].pt][walk[k].index] = TableDesc(NextOn(k))
    BY <1>4, <2>1
  <2>3. mem'[walk[k].pt][walk[k].index] = mem[walk[k].pt][walk[k].index] /\ NextOn(k)' = NextOn(k)
    BY <1>5, <1>6
  <2>4. QED
    BY <2>1, <2>2, <2>3
<1>11. BackInv(U)'
  BY <1>3, <1>8, <1>9, <1>10 DEF BackInv
<1>12. walk[w] \in L
  BY <1>1, <1>2
<1>13. pt' \in Tables
  BY <1>12 DEF L
<1>14. QED
  BY <1>3, <1>11, <1>13 DEF L

\* UnmapBack goes on with the next page or block, where the table is the root or is not vacant.
Stays(T, U) ==
  U = T /\ UNCHANGED mem /\ Advance(Block(level)) /\ (walk = <<>> \/ ~Vacant(pt, BackLevel))

\* What UnmapBack does to the tables T when it frees one: the one above loses its descriptor.
Prunes(T, U) ==
  \E t, p \in T, y \in 0 .. (PtAlign - 1) :
    /\ t.addr = pt /\ t.level = BackLevel /\ Vacant(pt, BackLevel) /\ U = T \ {t}
    /\ t.level = p.level + 1 /\ p.level # MaxLevel /\ y \in Slots(p.level) /\ pt' = p.addr /\ busy' = busy
    /\ mem[p.addr][y] = TableDesc(pt) /\ Pruned(mem, mem', p.addr, y)

\* mmu_unmap frees a table that became empty, and goes back, or goes on with the next page.
LEMMA UnmapBackStep ==
  ASSUME Supported, EntryLeft, NEW T, Good(T), UnmapBack
  PROVE  \E U : Good(U)' /\ (Stays(T, U) \/ Prunes(T, U))
<1>1. busy = "back" /\ UNCHANGED <<root, todo, req>> /\ UNCHANGED busVars /\ UNCHANGED stageVars
  BY DEF UnmapBack
<1>2. /\ root = 0 /\ root \in Tables /\ root # None /\ T \subseteq TableRecs /\ Tree(mem, root, T) /\ Apart(T)
      /\ TablesTyped /\ CallTyped /\ StageTyped /\ CallInv /\ Stored(T) /\ StageInv /\ RootTable(root) \in T
      /\ BackInv(T) /\ ClearInv(T) /\ Area(free, T) /\ \A t \in T : <<t.level, t.at>> \in Needed
  BY <1>1, CallGood DEF Good, Calling
<1>3. CASE walk = <<>> \/ ~Vacant(pt, BackLevel)
  <2>1. Advance(Block(level)) /\ UNCHANGED <<free, mem>>
    BY <1>3 DEF UnmapBack, AdvanceFrom
  <2>2. AtLeaf
    BY <1>1, <1>2 DEF CallInv
  <2>3. CallTyped' /\ busy' \in {"idle", "map", "unmap"} /\ Calling(T)'
    BY <1>1, <1>2, <2>1, <2>2, Advanced
  <2>4. StageInv' /\ StageTyped'
    BY <1>1, <1>2, <2>3, StageKept
  <2>5. Stored(T)' /\ TablesTyped'
    BY <1>1, <1>2, <2>1 DEF Stored, TablesTyped
  <2>6. QED
    BY <1>3, <2>1, <2>3, <2>4, <2>5 DEF Good, Stays
<1>4. CASE walk # <<>> /\ Vacant(pt, BackLevel)
  <2> DEFINE w == Len(walk)
             step == walk[w]
             freed == BallocFree(free, pt, Size(BackLevel))
  <2>1. PICK t \in T : t.addr = pt /\ t.level = BackLevel
    BY <1>2 DEF BackInv
  <2>2. freed.rc = 0 /\ Area(freed.free, T \ {t})
    <3>1. \E e \in Entries : free[e] = None
      BY <1>2, <2>1, EntryIs
    <3>2. QED
      BY <1>2, <2>1, <3>1, FreeExact
  <2>3. /\ mem' = [mem EXCEPT ![step.pt][step.index] = None]
        /\ free' = freed.free /\ pt' = step.pt /\ walk' = SubSeq(walk, 1, w - 1)
        /\ busy' = busy /\ va' = va /\ pa' = pa /\ sz' = sz /\ level' = level /\ rc' = rc /\ req' = req /\ root' = root
    BY <1>1, <1>4, <2>2 DEF UnmapBack
  <2>4. PICK U, b, y : U = T \ {t} /\ b = step.pt /\ y = step.index
    OBVIOUS
  <2>5. w \in 1 .. w /\ w \in Nat /\ FirstLevel \in Nat
    BY <1>2, <1>4, TablesAssumption DEF CallTyped
  <2>6. b # pt /\ b \in Tables /\ y \in 0 .. (PtAlign - 1)
    BY <1>2, <2>4, <2>5, WalkAbove
  <2>7. PICK p \in T : p.addr = b /\ p.level = FirstLevel + w - 1
    BY <1>2, <2>4, <2>5 DEF BackInv
  <2>8. y \in Slots(p.level) /\ mem[b][y] = TableDesc(pt)
    BY <1>2, <2>4, <2>5, <2>7 DEF BackInv, NextOn
  <2>9. t.level = p.level + 1 /\ p.level # MaxLevel /\ t.level # FirstLevel
    <3>1. t.level = FirstLevel + w /\ p.level = FirstLevel + w - 1
      BY <2>1, <2>7 DEF BackLevel
    <3>2. t.level \in Levels
      BY <1>2, <2>1 DEF TableRecs
    <3>3. QED
      BY <2>5, <3>1, <3>2, TablesAssumption DEF Levels
  <2> HIDE DEF freed, step
  <2>10. /\ mem' \in [Tables -> [0 .. (PtAlign - 1) -> Descs \cup {None}]]
         /\ Pruned(mem, mem', b, y)
    <3>1. mem' = [mem EXCEPT ![b][y] = None] /\ None \in Descs \cup {None} /\ TablesTyped
      BY <1>2, <2>3, <2>4
    <3>2. QED
      BY <2>6, <3>1, StoreIs DEF Pruned
  <2>11. Tree(mem', root, U)
    <3>1. \A s \in Slots(t.level) : mem[t.addr][s] = None
      BY <1>4, <2>1 DEF Vacant
    <3>2. Pruned(mem, mem', p.addr, y) /\ mem[p.addr][y] = TableDesc(t.addr)
      BY <2>1, <2>7, <2>8, <2>10
    <3>3. T \subseteq TableRecs /\ Apart(T) /\ Tree(mem, root, T)
      BY <1>2
    <3>4. y \in Slots(p.level) /\ t.level = p.level + 1 /\ p.level # MaxLevel /\ U = T \ {t}
      BY <2>4, <2>8, <2>9
    <3>5. QED
      BY <3>1, <3>2, <3>3, <3>4, TreePruned
  <2>12. Stored(U)'
    <3>1. U \subseteq TableRecs /\ Apart(U) /\ \A u \in U : <<u.level, u.at>> \in Needed
      BY <1>2, <2>4 DEF Apart
    <3>2. Area(free', U) /\ root' # None /\ Tree(mem', root', U)
      BY <1>2, <2>2, <2>3, <2>4, <2>11
    <3>3. QED
      BY <3>1, <3>2 DEF Stored
  <2>13. TablesTyped'
    BY <1>1, <1>2, <2>10, <2>12 DEF TablesTyped, Stored, Area, Shape
  <2>14. /\ BackInv(U)'
         /\ pt' \in Tables /\ walk' \in Seq([pt : Tables, index : 0 .. (PtAlign - 1)])
    <3>1. CallTyped /\ T \subseteq TableRecs /\ Apart(T) /\ BackInv(T) /\ walk # <<>> /\ t.addr = pt /\ t.level = BackLevel /\ U = T \ {t}
      BY <1>2, <1>4, <2>1, <2>4
    <3>2. /\ Pruned(mem, mem', walk[Len(walk)].pt, walk[Len(walk)].index)
          /\ pt' = walk[Len(walk)].pt /\ walk' = SubSeq(walk, 1, Len(walk) - 1) /\ level' = level
      BY <2>3, <2>4, <2>10 DEF step
    <3>3. QED
      BY <3>1, <3>2, WalkedBack
  <2>15. CallTyped'
    BY <1>2, <2>3, <2>14 DEF CallTyped
  <2>16. CallInv'
    BY <1>1, <1>2, <2>3 DEF CallInv, AtLeaf, Covers, Fits
  <2>17. Calling(U)'
    <3>1. ClearInv(U)'
      BY <1>2, <2>3, <2>4 DEF ClearInv, Covers
    <3>2. QED
      BY <1>1, <2>3, <2>14, <2>16, <3>1 DEF Calling
  <2>18. StageInv' /\ StageTyped'
    BY <1>1, <1>2, <2>3, StageKept
  <2>19. Prunes(T, U)
    <3>1. pt' = p.addr /\ busy' = busy
      BY <2>3, <2>4, <2>7
    <3>2. Pruned(mem, mem', p.addr, y) /\ mem[p.addr][y] = TableDesc(pt)
      BY <2>7, <2>8, <2>10
    <3>3. QED
      BY <1>4, <2>1, <2>4, <2>6, <2>8, <2>9, <3>1, <3>2 DEF Prunes
  <2>20. QED
    BY <2>12, <2>13, <2>15, <2>17, <2>18, <2>19 DEF Good
<1>5. QED
  BY <1>3, <1>4

\* A call starts at the first page of its region, at the root.
LEMMA Called ==
  ASSUME CallTyped, NEW T, RootTable(root) \in T, root \in Tables, root' = root,
         NEW f \in {"map", "unmap"}, NEW r \in Regions, r \in AllRegions, Call(f, r),
         f = "unmap" => \A t \in T : t.level # FirstLevel => ~Covers(r, t.level - 1, t.at)
  PROVE  CallTyped' /\ Calling(T)' /\ busy' = f
<1>1. /\ busy' = f /\ va' = r.va /\ pa' = r.pa /\ sz' = r.sz
      /\ level' = FirstLevel /\ pt' = root /\ walk' = <<>> /\ rc' = rc
      /\ req' = [call |-> f, va |-> r.va, pa |-> r.pa, sz |-> r.sz]
  BY DEF Call, Locals, Restart
<1>2. r.va \in Pages /\ r.pa \in Nat /\ r.sz \in Nat \ {0} /\ r.va \in Nat /\ PagesOf(r) \subseteq Pages
  BY PagesAre DEF Regions
<1>3. /\ req' \in Calls /\ req'.va = r.va /\ req'.pa = r.pa /\ req'.sz = r.sz /\ req'.call = f
  BY <1>1, <1>2 DEF Calls
<1>4. CallTyped'
  BY <1>1, <1>2, <1>3, PowersAre DEF CallTyped
<1>5. ASSUME NEW l \in Levels, r.va <= (r.va \div Block(l)) * Block(l)
      PROVE  r.va % Block(l) = 0
  <2> DEFINE b == Block(l)
             x == r.va
             q == x \div b
             z == q * b
             o == x % b
  <2>1. b \in Nat \ {0} /\ x \in Nat
    BY <1>2, PowersAre
  <2>2. q \in Nat /\ o \in 0 .. (b - 1) /\ x = z + o
    BY <2>1, DivMod
  <2>3. x <= z
    BY <1>5
  <2>4. z \in Nat
    BY <2>1, <2>2
  <2> HIDE DEF b, x, q, z, o
  <2>5. o = 0
    BY <2>1, <2>2, <2>3, <2>4
  <2>6. QED
    BY <2>5 DEF o, x, b
<1>6. CallInv'
  <2>1. PagesOf(req)' \subseteq Pages
    BY <1>2, <1>3 DEF PagesOf
  <2>2. \A l \in Levels : Covers(req, l, va \div Block(l))' => va' % Block(l) = 0
    BY <1>1, <1>3, <1>5 DEF Covers
  <2>3. \A l \in Levels : ~(l < FirstLevel)
    BY TablesAssumption DEF Levels
  <2>4. \E d \in AllRegions : d.va = r.va /\ d.sz = r.sz
    OBVIOUS
  <2>5. va' + sz' = r.va + r.sz /\ r.va <= va' /\ sz' # 0
    BY <1>1, <1>2
  <2>6. req'.call = IF busy' = "map" THEN "map" ELSE "unmap"
    BY <1>1, <1>3
  <2>7. QED
    BY <1>1, <1>3, <2>1, <2>2, <2>3, <2>4, <2>5, <2>6 DEF CallInv
<1>7. RootTable(root).addr = root /\ RootTable(root).level = FirstLevel
  BY DEF RootTable
<1>8. DownInv(T)'
  BY <1>1, <1>7 DEF DownInv
<1>9. BackLevel' = FirstLevel /\ FirstLevel \in Nat
  BY <1>1, TablesAssumption DEF BackLevel
<1>10. BackInv(T)'
  BY <1>1, <1>7, <1>9 DEF BackInv
<1>11. f = "unmap" => ClearInv(T)'
  BY <1>3 DEF ClearInv, Covers
<1>12. Calling(T)'
  BY <1>1, <1>6, <1>8, <1>9, <1>10, <1>11 DEF Calling
<1>13. QED
  BY <1>1, <1>4, <1>12

\* The regions of the lists and of the requests.
LEMMA RegionsAre ==
  /\ \A r \in Requests : r \in Regions /\ r \in AllRegions
  /\ \A b \in BootLists : Len(b) \in Nat \ {0} /\ \A k \in 1 .. Len(b) : b[k] \in Regions /\ b[k] \in AllRegions /\ k \in DOMAIN b
<1>1. Requests \subseteq Regions /\ BootLists \subseteq Seq(Regions) \ {<<>>}
  BY TablesAssumption
<1>2. ASSUME NEW b \in BootLists
      PROVE  Len(b) \in Nat \ {0} /\ \A k \in 1 .. Len(b) : b[k] \in Regions /\ b[k] \in AllRegions /\ k \in DOMAIN b
  <2>1. b \in Seq(Regions) /\ b # <<>>
    BY <1>1
  <2>2. Len(b) \in Nat \ {0} /\ DOMAIN b = 1 .. Len(b) /\ \A k \in 1 .. Len(b) : b[k] \in Regions
    BY <2>1
  <2>3. \A k \in DOMAIN b : b[k] \in AllRegions
    BY DEF AllRegions
  <2>4. QED
    BY <2>2, <2>3
<1>3. QED
  BY <1>1, <1>2 DEF AllRegions

\* Nothing of the tables and of a call changes.
LEMMA Resting ==
  ASSUME NEW T, Stored(T), TablesTyped, CallTyped, UNCHANGED tableVars,
         UNCHANGED <<req, va, pa, sz, level, pt, walk, rc>>, busy' \in {"idle", "start"}
  PROVE  Stored(T)' /\ TablesTyped' /\ CallTyped' /\ Calling(T)'
<1>1. free' = free /\ mem' = mem /\ root' = root /\ todo' = todo
  BY DEF tableVars
<1>2. Stored(T)' /\ TablesTyped'
  BY <1>1 DEF Stored, TablesTyped
<1>3. CallTyped'
  BY DEF CallTyped
<1>4. Calling(T)'
  BY DEF Calling
<1>5. QED
  BY <1>2, <1>3, <1>4

\* A new context has its root, and nothing else.
LEMMA RtInitStep ==
  ASSUME NEW T, Good(T), RtInit
  PROVE  \E U : Good(U)'
<1> DEFINE new == BallocAlloc(BallocCreate(AreaSize), Size(FirstLevel), PtAlign)
           U == {RootTable(0)}
<1>1. /\ busy = "idle" /\ stage = "down"
      /\ root' = new.addr /\ free' = new.free /\ mem' = [a \in Tables |-> NoDescs] /\ todo' = todo
      /\ enabled' = FALSE /\ smr' = Streams /\ boot' \in BootLists /\ nth' = 1 /\ stage' = "init"
      /\ busy' = "start" /\ UNCHANGED <<req, va, pa, sz, level, pt, walk, rc>>
  BY DEF RtInit, Idle
<1>2. new.addr = 0 /\ RootTable(0) \in TableRecs /\ Area(new.free, U)
  BY RootExact
<1>3. 0 \in Tables /\ 0 # None
  BY TablesAre, BallocAssumption
<1>4. CallTyped' /\ Calling(U)'
  BY <1>1 DEF Good, CallTyped, Calling
<1>5. StageInv' /\ StageTyped'
  <2>1. nth' \in 0 .. Len(boot')
    BY <1>1, RegionsAre
  <2>2. root' = 0 /\ todo' = {}
    BY <1>1, <1>2 DEF Good, StageInv
  <2>3. StageInv'
    BY <1>1, <1>3, <2>2 DEF StageInv
  <2>4. StageTyped'
    BY <1>1, <2>1 DEF StageTyped
  <2>5. QED
    BY <2>3, <2>4
<1> HIDE DEF new
<1>6. mem' \in [Tables -> [0 .. (PtAlign - 1) -> Descs \cup {None}]] /\ \A a \in Tables : \A s \in 0 .. (PtAlign - 1) : mem'[a][s] = None
  BY <1>1 DEF NoDescs
<1>7. TablesTyped'
  BY <1>1, <1>2, <1>3, <1>6 DEF Good, TablesTyped, Area, Shape
<1>8. Tree(mem', 0, U)
  <2>1. RootTable(0).level = FirstLevel /\ RootTable(0).addr = 0
    BY DEF RootTable
  <2>2. \A s \in Slots(FirstLevel) : ~IsTable(mem'[0][s])
    BY <1>3, <1>6, SlotsAre, DescsAre, PowersAre
  <2>3. QED
    BY <2>1, <2>2 DEF Tree
<1>9. \A t \in U : <<t.level, t.at>> \in Needed
  BY DEF RootTable, Needed
<1>10. Stored(U)'
  <2>1. Area(free', U) /\ root' = 0
    BY <1>1, <1>2
  <2>2. QED
    BY <1>2, <1>3, <1>8, <1>9, <2>1 DEF Stored, Apart
<1>11. QED
  BY <1>4, <1>5, <1>7, <1>10 DEF Good

\* A call for a region of the list keeps to what the list is supposed to be.
LEMMA CallBootStep ==
  ASSUME Supported, NEW T, Good(T), CallBoot
  PROVE  Good(T)'
<1> DEFINE f == IF stage = "init" THEN "map" ELSE "unmap"
<1>1. /\ busy = "start" /\ Call(f, boot[nth])
      /\ UNCHANGED tableVars /\ UNCHANGED busVars /\ UNCHANGED stageVars
  BY DEF CallBoot
<1>2. /\ TablesTyped /\ StageTyped /\ CallTyped /\ StageInv /\ Stored(T) /\ root # None /\ root \in Tables /\ nth # 0
  BY <1>1 DEF Good, StageInv, TablesTyped
<1>3. root' = root /\ free' = free /\ mem' = mem /\ todo' = todo
  BY <1>1 DEF tableVars
<1>4. Tree(mem, root, T) /\ RootTable(root) \in T /\ \A t \in T : <<t.level, t.at>> \in Needed
  BY <1>2 DEF Stored, Tree
<1>5. boot \in BootLists /\ nth \in 1 .. Len(boot)
  BY <1>2, RegionsAre DEF StageTyped
<1>6. boot[nth] \in Regions /\ boot[nth] \in AllRegions /\ nth \in DOMAIN boot
  BY <1>5, RegionsAre
<1>7. \A t \in T : t.level # FirstLevel => ~Covers(boot[nth], t.level - 1, t.at)
  BY <1>4, <1>5, <1>6 DEF Supported
<1>8. CallTyped' /\ Calling(T)' /\ busy' = f
  <2>1. f \in {"map", "unmap"}
    OBVIOUS
  <2> HIDE DEF f
  <2>2. QED
    BY <1>1, <1>2, <1>3, <1>4, <1>6, <1>7, <2>1, Called
<1>9. StageInv' /\ StageTyped'
  BY <1>1, <1>2, <1>3, <1>8, StageKept
<1>10. Stored(T)' /\ TablesTyped'
  BY <1>2, <1>3 DEF Stored, TablesTyped
<1>11. QED
  BY <1>8, <1>9, <1>10 DEF Good

\* A call of rt_mmu_map or rt_mmu_unmap, of a client that keeps to what is supported.
LEMMA RtCallStep ==
  ASSUME Supported, NEW T, Good(T), NEW r \in Requests, RtMap(r) \/ RtUnmap(r)
  PROVE  Good(T)'
<1>1. PICK f \in {"map", "unmap"} :
        /\ stage = "up" /\ Call(f, r) /\ (f = "unmap" => ~OverTable(r))
        /\ UNCHANGED tableVars /\ UNCHANGED busVars /\ UNCHANGED stageVars
  BY DEF RtMap, RtUnmap, Supported
<1>2. /\ TablesTyped /\ StageTyped /\ CallTyped /\ StageInv /\ Stored(T) /\ root # None /\ root \in Tables
  BY <1>1 DEF Good, StageInv, TablesTyped
<1>3. root' = root /\ free' = free /\ mem' = mem /\ todo' = todo
  BY <1>1 DEF tableVars
<1>4. Tree(mem, root, T) /\ RootTable(root) \in T /\ T \subseteq TableRecs
  BY <1>2 DEF Stored, Tree
<1>5. InUse = T
  BY <1>2, <1>4, TreeIs DEF InUse
<1>6. r \in Regions /\ r \in AllRegions
  BY RegionsAre
<1>7. f = "unmap" => \A t \in T : t.level # FirstLevel => ~Covers(r, t.level - 1, t.at)
  <2> SUFFICES ASSUME f = "unmap", NEW t \in T, t.level # FirstLevel PROVE ~Covers(r, t.level - 1, t.at)
    OBVIOUS
  <2>1. t.level > FirstLevel
    BY <1>4, TablesAssumption DEF TableRecs, Levels
  <2>2. QED
    BY <1>1, <1>5, <2>1 DEF OverTable
<1>8. CallTyped' /\ Calling(T)' /\ busy' = f
  BY <1>1, <1>2, <1>3, <1>4, <1>6, <1>7, Called
<1>9. StageInv' /\ StageTyped'
  BY <1>1, <1>2, <1>3, <1>8, StageKept
<1>10. Stored(T)' /\ TablesTyped'
  BY <1>2, <1>3 DEF Stored, TablesTyped
<1>11. QED
  BY <1>8, <1>9, <1>10 DEF Good

\* The steps of rt_mmu_init and rt_mmu_deinit between the calls touch no table.
LEMMA StagesStep ==
  ASSUME NEW T, Good(T), InitNext \/ RtDeinit \/ UndoNext \/ Destroy
  PROVE  Good(T)'
<1>1. TablesTyped /\ StageTyped /\ CallTyped /\ StageInv /\ Stored(T)
  BY DEF Good
<1>2. /\ UNCHANGED tableVars /\ UNCHANGED <<req, va, pa, sz, level, pt, walk, rc>> /\ smr' = smr /\ boot' = boot
      /\ busy' \in {"idle", "start"}
  <2>1. CASE InitNext
    BY <2>1 DEF InitNext
  <2>2. CASE RtDeinit
    BY <2>2 DEF RtDeinit
  <2>3. CASE UndoNext
    BY <2>3 DEF UndoNext, busVars
  <2>4. CASE Destroy
    <3>1. busy = "idle"
      BY <1>1, <2>4 DEF Destroy, StageInv
    <3>2. QED
      BY <2>4, <3>1 DEF Destroy, callVars, busVars
  <2>5. QED
    BY <2>1, <2>2, <2>3, <2>4
<1>3. Stored(T)' /\ TablesTyped' /\ CallTyped' /\ Calling(T)'
  BY <1>1, <1>2, Resting
<1>4. root' = root /\ todo' = todo
  BY <1>2 DEF tableVars
<1>5. boot \in BootLists /\ Len(boot) \in Nat \ {0} /\ nth \in 0 .. Len(boot)
  BY <1>1, RegionsAre DEF StageTyped
<1>6. StageInv' /\ StageTyped'
  <2>1. CASE InitNext
    <3>1. /\ stage = "init" /\ nth # 0
          /\ \/ stage' = "undo" /\ nth' = nth - 1 /\ enabled' = enabled
             \/ nth < Len(boot) /\ nth' = nth + 1 /\ stage' = stage /\ enabled' = enabled
             \/ stage' = "up" /\ enabled' = TRUE /\ nth' = nth
          /\ busy' = IF stage' = "up" \/ nth' = 0 THEN "idle" ELSE "start"
      BY <1>1, <2>1 DEF InitNext, StageInv
    <3>2. nth' \in 0 .. Len(boot) /\ (stage' = "init" => nth' # 0)
      BY <1>5, <3>1
    <3>3. StageTyped'
      BY <1>1, <1>2, <3>1, <3>2 DEF StageTyped
    <3>4. StageInv'
      BY <1>1, <1>2, <1>4, <3>1, <3>2 DEF StageInv
    <3>5. QED
      BY <3>3, <3>4
  <2>2. CASE RtDeinit
    <3>1. /\ enabled' = FALSE /\ stage = "up" /\ stage' = "deinit" /\ busy' = "start"
          /\ nth' \in 0 .. Len(boot) /\ nth' # 0
      BY <1>5, <2>2 DEF RtDeinit
    <3>2. StageTyped'
      BY <1>1, <1>2, <3>1 DEF StageTyped
    <3>3. StageInv'
      BY <1>1, <1>2, <1>4, <3>1 DEF StageInv
    <3>4. QED
      BY <3>2, <3>3
  <2>3. CASE UndoNext
    <3>1. nth' \in 0 .. Len(boot) /\ nth' # 0
      BY <1>5, <2>3 DEF UndoNext
    <3>2. QED
      BY <1>1, <1>2, <1>4, <2>3, <3>1 DEF UndoNext, StageInv, StageTyped, busVars
  <2>4. CASE Destroy
    BY <1>1, <1>2, <1>4, <2>4 DEF Destroy, StageInv, StageTyped, busVars, callVars
  <2>5. QED
    BY <2>1, <2>2, <2>3, <2>4
<1>7. QED
  BY <1>3, <1>6 DEF Good

\* mmu_context_destroy has all the tables to free: those it finds are those of the tree.
LEMMA ContextDestroyStep ==
  ASSUME NEW T, Good(T), ContextDestroy
  PROVE  Good(T)'
<1>1. /\ busy = "idle" /\ stage \in {"undo", "deinit"}
      /\ smr' \subseteq smr /\ root' = None /\ todo' = TablesFrom(mem, root)
      /\ stage' = "destroy" /\ nth' = 0 /\ free' = free /\ mem' = mem /\ enabled' = enabled /\ boot' = boot
      /\ UNCHANGED <<busy, req, va, pa, sz, level, pt, walk, rc>>
  BY DEF ContextDestroy, Idle, callVars
<1>2. TablesTyped /\ StageTyped /\ CallTyped /\ StageInv /\ Stored(T) /\ root # None
  BY <1>1 DEF Good, StageInv
<1>3. T \subseteq TableRecs /\ Tree(mem, root, T) /\ Apart(T) /\ Area(free, T)
  BY <1>2 DEF Stored
<1>4. todo' = T
  BY <1>1, <1>3, TreeIs
<1>5. Stored(T)' /\ TablesTyped'
  BY <1>1, <1>2, <1>3, <1>4 DEF Stored, TablesTyped
<1>6. CallTyped' /\ Calling(T)'
  BY <1>1, <1>2 DEF CallTyped, Calling
<1>7. StageInv' /\ StageTyped'
  <2>1. nth' \in 0 .. Len(boot')
    BY <1>1, <1>2, RegionsAre DEF StageTyped
  <2>2. QED
    BY <1>1, <1>2, <2>1 DEF StageInv, StageTyped
<1>8. QED
  BY <1>5, <1>6, <1>7 DEF Good

\* pt_free gives one of them back.
LEMMA FreeTableStep ==
  ASSUME Supported, EntryLeft, NEW T, Good(T), FreeTable
  PROVE  \E U : Good(U)'
<1>1. /\ stage = "destroy" /\ UNCHANGED <<mem, root>> /\ UNCHANGED busVars /\ UNCHANGED stageVars /\ UNCHANGED callVars
      /\ \E t \in todo :
           LET freed == BallocFree(free, t.addr, Size(t.level)) IN
           free' = freed.free /\ todo' = IF freed.rc = 0 THEN todo \ {t} ELSE {}
  BY DEF FreeTable
<1>2. TablesTyped /\ StageTyped /\ CallTyped /\ StageInv /\ Stored(T) /\ Calling(T) /\ root = None /\ busy = "idle"
  BY <1>1 DEF Good, StageInv
<1>3. T = todo /\ T \subseteq TableRecs /\ Apart(T) /\ Area(free, T)
  BY <1>2 DEF Stored
<1>4. PICK t \in T :
        LET freed == BallocFree(free, t.addr, Size(t.level)) IN
        free' = freed.free /\ todo' = IF freed.rc = 0 THEN todo \ {t} ELSE {}
  BY <1>1, <1>3
<1> DEFINE freed == BallocFree(free, t.addr, Size(t.level))
<1>5. freed.rc = 0 /\ Area(freed.free, T \ {t})
  <2>1. \E e \in Entries : free[e] = None
    BY <1>2, EntryIs
  <2>2. QED
    BY <1>3, <2>1, FreeExact
<1>6. PICK U : U = T \ {t}
  OBVIOUS
<1>7. Area(free', U) /\ todo' = U /\ root' = None /\ mem' = mem
  BY <1>1, <1>2, <1>3, <1>4, <1>5, <1>6
<1>8. Stored(U)' /\ TablesTyped'
  BY <1>2, <1>3, <1>6, <1>7 DEF Stored, TablesTyped, Apart, Area, Shape
<1>9. CallTyped' /\ Calling(U)'
  BY <1>1, <1>2 DEF CallTyped, Calling, callVars
<1>10. StageInv' /\ StageTyped'
  BY <1>1, <1>2, <1>7 DEF StageInv, StageTyped, callVars, busVars, stageVars
<1>11. QED
  BY <1>8, <1>9, <1>10 DEF Good

\* At the start no table is in use, and the area is one free block.
LEMMA GoodInit ==
  ASSUME MmuInit
  PROVE  Good({})
<1>1. /\ free = BallocCreate(AreaSize) /\ mem = [a \in Tables |-> NoDescs] /\ root = None /\ todo = {}
      /\ enabled = FALSE /\ smr = {} /\ stage = "down" /\ boot \in BootLists /\ nth = 0
      /\ busy = "idle" /\ req = None /\ va = 0 /\ pa = 0 /\ sz = 0 /\ level = FirstLevel /\ pt = None /\ walk = <<>> /\ rc = 0
  BY DEF MmuInit
<1>2. Area(free, {})
  BY <1>1, CreateExact
<1>3. TablesTyped
  <2>1. mem \in [Tables -> [0 .. (PtAlign - 1) -> Descs \cup {None}]]
    BY <1>1 DEF NoDescs
  <2>2. QED
    BY <1>1, <1>2, <2>1 DEF TablesTyped, Area, Shape
<1>4. StageTyped /\ StageInv
  <2>1. 0 \in 0 .. Len(boot)
    BY <1>1, RegionsAre
  <2>2. StageTyped
    BY <1>1, <2>1 DEF StageTyped
  <2>3. StageInv
    BY <1>1 DEF StageInv
  <2>4. QED
    BY <2>2, <2>3
<1>5. CallTyped /\ Calling({})
  BY <1>1, PowersAre DEF CallTyped, Calling
<1>6. Stored({})
  BY <1>1, <1>2 DEF Stored, Apart
<1>7. QED
  BY <1>3, <1>4, <1>5, <1>6 DEF Good

\* A step that changes no variable.
LEMMA GoodStutters ==
  ASSUME NEW T, Good(T), UNCHANGED mmuVars
  PROVE  Good(T)'
<1>1. /\ free' = free /\ mem' = mem /\ root' = root /\ todo' = todo /\ enabled' = enabled /\ smr' = smr
      /\ busy' = busy /\ req' = req /\ va' = va /\ pa' = pa /\ sz' = sz /\ level' = level /\ pt' = pt /\ walk' = walk /\ rc' = rc
      /\ stage' = stage /\ boot' = boot /\ nth' = nth
  BY DEF mmuVars, tableVars, busVars, callVars, stageVars
<1>2. TablesTyped' /\ StageTyped' /\ CallTyped'
  BY <1>1 DEF Good, TablesTyped, StageTyped, CallTyped
<1>3. StageInv'
  BY <1>1 DEF Good, StageInv
<1>4. Stored(T)'
  BY <1>1 DEF Good, Stored
<1>5. CallInv => CallInv'
  BY <1>1 DEF CallInv, AtLeaf, Fits, Covers
<1>6. DownInv(T) => DownInv(T)'
  BY <1>1 DEF DownInv
<1>7. BackInv(T) => BackInv(T)'
  BY <1>1 DEF BackInv, BackLevel, NextOn
<1>8. ClearInv(T) => ClearInv(T)'
  BY <1>1 DEF ClearInv, Covers
<1>9. BackLevel' = BackLevel
  BY <1>1 DEF BackLevel
<1>10. Calling(T)'
  BY <1>1, <1>5, <1>6, <1>7, <1>8, <1>9 DEF Good, Calling
<1>11. QED
  BY <1>2, <1>3, <1>4, <1>10 DEF Good

\* Each step goes from a tree of tables that is stored exactly to such a tree.
LEMMA GoodStep ==
  ASSUME Supported, EntryLeft, NEW T, Good(T), [MmuNext]_mmuVars
  PROVE  \E U : Good(U)'
<1>1. CASE Run
  BY <1>1, MapDescendStep, MapGrowStep, MapStoreStep, UnmapDescendStep, UnmapClearStep, UnmapBackStep DEF Run
<1>2. CASE Glue
  BY <1>2, CallBootStep, StagesStep, ContextDestroyStep, FreeTableStep DEF Glue
<1>3. CASE RtInit \/ RtDeinit
  BY <1>3, RtInitStep, StagesStep
<1>4. CASE \E r \in Requests : RtMap(r) \/ RtUnmap(r)
  BY <1>4, RtCallStep
<1>5. CASE UNCHANGED mmuVars
  BY <1>5, GoodStutters
<1>6. QED
  BY <1>1, <1>2, <1>3, <1>4, <1>5 DEF MmuNext

\* Blocks and tables that are apart and cover the area cover each descriptor once.
LEMMA AreaCounts ==
  ASSUME NEW T, T \subseteq TableRecs, Apart(T), NEW f, Area(f, T), NEW u \in 0 .. (AreaSize - 1)
  PROVE  Cardinality({k \in Entries : u \in Units(f[k])}) + Cardinality({t \in T : u \in Extent(t)}) = 1
<1> DEFINE E == {k \in Entries : u \in Units(f[k])}
           F == {t \in T : u \in Extent(t)}
<1>1. ASSUME NEW t \in T, NEW o \in T, u \in Extent(t), u \in Extent(o) PROVE t = o
  <2>1. /\ t.addr \in Tables /\ t.addr \in Nat /\ Size(t.level) \in Nat /\ Size(t.level) <= PtAlign
        /\ t.addr <= u /\ u < t.addr + Size(t.level)
    BY <1>1, ExtentIs
  <2>2. /\ o.addr \in Tables /\ o.addr \in Nat /\ Size(o.level) \in Nat /\ Size(o.level) <= PtAlign
        /\ o.addr <= u /\ u < o.addr + Size(o.level)
    BY <1>1, ExtentIs
  <2>3. (t.addr < o.addr => t.addr + PtAlign <= o.addr) /\ (o.addr < t.addr => o.addr + PtAlign <= t.addr)
    BY <2>1, <2>2, TablesAre
  <2>4. t.addr = o.addr
    BY <2>1, <2>2, <2>3, PowersAre
  <2>5. QED
    BY <2>4 DEF Apart
<1>2. Cardinality({}) = 0 /\ \A x : Cardinality({x}) = 1
  BY FS_EmptySet, FS_Singleton
<1>3. CASE E # {}
  <2>1. PICK k \in Entries : u \in Units(f[k])
    BY <1>3
  <2>2. E = {k}
    BY <2>1 DEF Area, Shape
  <2>3. F = {}
    BY <2>1 DEF Area
  <2>4. Cardinality(E) = 1 /\ Cardinality(F) = 0
    BY <1>2, <2>2, <2>3
  <2>5. QED
    BY <2>4
<1>4. CASE E = {}
  <2>1. PICK t \in T : u \in Extent(t)
    BY <1>4 DEF Area
  <2>2. F = {t}
    BY <1>1, <2>1
  <2>3. Cardinality(E) = 0 /\ Cardinality(F) = 1
    BY <1>2, <1>4, <2>2
  <2>4. QED
    BY <2>3
<1>5. QED
  BY <1>3, <1>4

\* So there is such a tree as long as free_blocks[] is not full: the invariant of Mmu.
LEMMA GoodAlways == Supported => (MmuSpec /\ []EntryLeft => [](\E T : Good(T)))
<1> SUFFICES ASSUME Supported PROVE MmuSpec /\ []EntryLeft => [](\E T : Good(T))
  OBVIOUS
<1>1. MmuInit => \E T : Good(T)
  BY GoodInit
<1>2. (\E T : Good(T)) /\ EntryLeft /\ [MmuNext]_mmuVars => (\E T : Good(T))'
  BY GoodStep
<1>3. QED
  BY <1>1, <1>2, PTL DEF MmuSpec

\* What it says of the types, and of the area.
LEMMA GoodIs ==
  ASSUME NEW T, Good(T)
  PROVE  MmuTypeOK /\ AreaExact
<1>1. TablesTyped /\ StageTyped /\ CallTyped /\ StageInv /\ Stored(T)
  BY DEF Good
<1>2. MmuTypeOK
  BY <1>1 DEF MmuTypeOK, TablesTyped, StageTyped, CallTyped
<1>3. T \subseteq TableRecs /\ Apart(T) /\ Area(free, T) /\ InUse = T
  <2>1. T \subseteq TableRecs /\ Apart(T) /\ Area(free, T)
    BY <1>1 DEF Stored
  <2>2. CASE root = None
    BY <1>1, <2>1, <2>2 DEF Stored, InUse
  <2>3. CASE root # None
    BY <1>1, <2>1, <2>3, TreeIs DEF Stored, InUse
  <2>4. QED
    BY <2>1, <2>2, <2>3
<1>4. AreaExact
  BY <1>1, <1>3, AreaCounts DEF AreaExact, StageInv
<1>5. QED
  BY <1>2, <1>4

\* The types of the allocator, the tables, the SMMU and the locals of mmu_map and mmu_unmap
\* (mmu.c, balloc.c), for any sizes of tables, lists of regions and requests that are Supported,
\* up to the moment that free_blocks[] is full.
THEOREM MmuTyped == Supported => (MmuSpec /\ []EntryLeft => []MmuTypeOK)
<1> SUFFICES ASSUME Supported PROVE MmuSpec /\ []EntryLeft => []MmuTypeOK
  OBVIOUS
<1>1. (\E T : Good(T)) => MmuTypeOK
  BY GoodIs
<1>2. MmuSpec /\ []EntryLeft => [](\E T : Good(T))
  BY GoodAlways
<1>3. QED
  BY <1>1, <1>2, PTL

\* For any sizes, lists and requests that are Supported, each descriptor of the page-table area
\* belongs to exactly one free block or exactly one table, whatever mmu_map, mmu_unmap and the
\* cycles of rt_mmu_init and rt_mmu_deinit did, up to the moment that free_blocks[] is full:
\* pt_free and balloc_free lose nothing and free nothing that is used, and pt_alloc never runs
\* out of places.
THEOREM TablesExact == Supported => (MmuSpec /\ []EntryLeft => []AreaExact)
<1> SUFFICES ASSUME Supported PROVE MmuSpec /\ []EntryLeft => []AreaExact
  OBVIOUS
<1>1. (\E T : Good(T)) => AreaExact
  BY GoodIs
<1>2. MmuSpec /\ []EntryLeft => [](\E T : Good(T))
  BY GoodAlways
<1>3. QED
  BY <1>1, <1>2, PTL

\* free_blocks[] is never full while a table is in use (balloc.c:163), however the area is cut
\* into pieces, if it has an entry more than the area has places for tables.
THEOREM EntriesSuffice ==
  Supported /\ Cardinality(Tables) < MaxBlocks => (MmuSpec => []EntryLeft)
<1> SUFFICES ASSUME Supported, Cardinality(Tables) < MaxBlocks PROVE MmuSpec => []EntryLeft
  OBVIOUS
<1>1. ASSUME NEW T, Good(T) PROVE EntryLeft
  <2>1. T \subseteq TableRecs /\ Area(free, T) /\ InUse = T
    BY <1>1, TreeIs DEF Good, Stored, InUse
  <2>2. ASSUME NEW t \in T PROVE \E k \in Entries : free[k] = None
    BY <2>1, SomeEmpty
  <2>3. QED
    BY <2>1, <2>2 DEF EntryLeft, EmptyIn
<1>2. MmuInit => \E T : Good(T)
  BY GoodInit
<1>3. (\E T : Good(T)) /\ [MmuNext]_mmuVars => (\E T : Good(T))'
  BY <1>1, GoodStep
<1>4. (\E T : Good(T)) => EntryLeft
  BY <1>1
<1>5. QED
  BY <1>2, <1>3, <1>4, PTL DEF MmuSpec

-----------------------------------------------------------------------------
(* What a device finds                                                      *)

\* What a walk for page p finds with a descriptor: nothing, or a frame.
LeafAt(l, d, p) == [level |-> l, frame |-> (d.addr - (d.addr % Block(l))) + (p % Block(l))]
FoundAt(m, p, W, l, a) == FoundBy(W, l, m[a][Index(l, p)], p)
Typed(m) == m \in [Tables -> [0 .. (PtAlign - 1) -> Descs \cup {None}]]

\* W is what a walk for page p finds from each table of the levels from lo on.
Finds(m, p, lo, W) == \A l \in Levels : l >= lo => \A a \in Tables : W[l][a] = FoundAt(m, p, W, l, a)

\* One more level.
LEMMA FindsMore ==
  ASSUME NEW m, Typed(m), NEW p \in Pages, NEW k \in Levels, NEW V, k = MaxLevel \/ Finds(m, p, k + 1, V),
         NEW W, W = [l \in Levels |-> [a \in Tables |-> FoundAt(m, p, V, l, a)]]
  PROVE  Finds(m, p, k, W)
<1> SUFFICES ASSUME NEW l \in Levels, l >= k, NEW a \in Tables PROVE W[l][a] = FoundAt(m, p, W, l, a)
  BY DEF Finds
<1> DEFINE d == m[a][Index(l, p)]
<1>1. W[l][a] = FoundAt(m, p, V, l, a)
  OBVIOUS
<1>2. d \in Descs \cup {None}
  BY IndexIs DEF Typed
<1>3. ASSUME IsTable(d), l < MaxLevel PROVE W[l + 1][d.addr] = V[l + 1][d.addr]
  <2>1. d.addr \in Tables
    BY <1>2, <1>3, DescsAre
  <2>2. l + 1 \in Levels /\ l + 1 >= k + 1 /\ k # MaxLevel
    BY <1>3, TablesAssumption DEF Levels
  <2> HIDE DEF d
  <2>3. V[l + 1][d.addr] = FoundAt(m, p, V, l + 1, d.addr)
    BY <2>1, <2>2 DEF Finds
  <2>4. W[l + 1][d.addr] = FoundAt(m, p, V, l + 1, d.addr)
    BY <2>1, <2>2
  <2>5. QED
    BY <2>3, <2>4
<1>4. FoundAt(m, p, W, l, a) = FoundAt(m, p, V, l, a)
  BY <1>3 DEF FoundAt, FoundBy, IsTable
<1>5. QED
  BY <1>1, <1>4

\* Such a W exists, for all levels.
LEMMA FindsAll ==
  ASSUME NEW m, Typed(m), NEW p \in Pages
  PROVE  \E V : LET W == [l \in Levels |-> [a \in Tables |-> FoundAt(m, p, V, l, a)]] IN
                Finds(m, p, FirstLevel, W) /\ Finds(m, p, FirstLevel, V)
<1> DEFINE m1 == MaxLevel - FirstLevel
           S  == {k \in 0 .. m1 : \E V : Finds(m, p, MaxLevel - k, V)}
<1>1. m1 \in Nat /\ \A k \in 0 .. m1 : MaxLevel - k \in Levels
  BY TablesAssumption DEF Levels
<1>2. MaxLevel - 0 = MaxLevel /\ MaxLevel \in Levels /\ \A k \in 0 .. m1 : (MaxLevel - (k + 1)) + 1 = MaxLevel - k
  BY PowersAre, TablesAssumption
<1>3. 0 \in S
  <2>1. Finds(m, p, MaxLevel, [l \in Levels |-> [a \in Tables |-> FoundAt(m, p, {}, l, a)]])
    BY <1>2, FindsMore
  <2>2. QED
    BY <1>1, <1>2, <2>1
<1>4. \A k \in S : k < m1 => k + 1 \in S
  <2> SUFFICES ASSUME NEW k \in S, k < m1 PROVE k + 1 \in S
    OBVIOUS
  <2>1. k + 1 \in 0 .. m1 /\ MaxLevel - (k + 1) \in Levels /\ (MaxLevel - (k + 1)) + 1 = MaxLevel - k
    BY <1>1, <1>2
  <2> DEFINE lo == MaxLevel - (k + 1)
  <2>2. PICK V : Finds(m, p, lo + 1, V)
    BY <2>1
  <2>3. lo \in Levels
    BY <2>1
  <2> HIDE DEF lo
  <2>4. Finds(m, p, lo, [l \in Levels |-> [a \in Tables |-> FoundAt(m, p, V, l, a)]])
    BY <2>2, <2>3, FindsMore
  <2>5. QED
    BY <2>1, <2>4 DEF lo
<1>5. m1 \in S
  <2> HIDE DEF S
  <2>1. S \in SUBSET (0 .. m1)
    BY DEF S
  <2>2. S = 0 .. m1
    BY <1>1, <1>3, <1>4, <2>1, IntervalInduction
  <2>3. QED
    BY <1>1, <2>2
<1>6. PICK V : Finds(m, p, MaxLevel - m1, V)
  BY <1>5
<1>7. MaxLevel - m1 = FirstLevel /\ FirstLevel \in Levels
  BY PowersAre, TablesAssumption
<1>8. Finds(m, p, FirstLevel, V)
  BY <1>6, <1>7
<1>9. FirstLevel = MaxLevel \/ Finds(m, p, FirstLevel + 1, V)
  BY <1>8, TablesAssumption DEF Finds, Levels
<1>10. Finds(m, p, FirstLevel, [l \in Levels |-> [a \in Tables |-> FoundAt(m, p, V, l, a)]])
  BY <1>7, <1>9, FindsMore
<1>11. QED
  BY <1>8, <1>10

\* It is what the SMMU finds from the root.
LEMMA WalkedIs ==
  ASSUME NEW m, Typed(m), NEW p \in Pages, NEW r
  PROVE  \E W : Finds(m, p, FirstLevel, W) /\ Walked(m, r, p) = W[FirstLevel][r]
<1> DEFINE Step(h) == [l \in Levels |-> [a \in Tables |-> FoundAt(m, p, h, l, a)]]
           Found == CHOOSE h : h = Step(h)
<1>1. PICK V : Finds(m, p, FirstLevel, Step(V))
  BY FindsAll
<1> DEFINE W == Step(V)
<1>2. \A l \in Levels, a \in Tables : W[l][a] = FoundAt(m, p, W, l, a)
  BY <1>1, TablesAssumption DEF Finds, Levels
<1>3. W = [l \in Levels |-> [a \in Tables |-> W[l][a]]]
  OBVIOUS
<1> HIDE DEF W
<1>4. W = Step(W)
  BY <1>2, <1>3
<1>5. Found = Step(Found)
  <2> HIDE DEF Step
  <2>1. QED
    BY <1>4
<1>6. Walked(m, r, p) = Found[FirstLevel][r]
  BY DEF Walked, FoundAt
<1> HIDE DEF Found
<1>7. Finds(m, p, FirstLevel, Found)
  BY <1>5 DEF Finds
<1>8. QED
  BY <1>6, <1>7

-----------------------------------------------------------------------------
(* Walks through a tree of tables                                           *)

\* Table t is for a block that page p is in.
On(t, p) == t.level = FirstLevel \/ t.at = p \div Block(t.level - 1)

\* The walk for p is over at table t.
Ends(m, t, p) == ~(IsTable(m[t.addr][Index(t.level, p)]) /\ t.level < MaxLevel)

\* It comes to t through the slot of the table above.
LEMMA ParentOn ==
  ASSUME NEW p \in Pages, NEW u \in TableRecs, NEW t \in TableRecs, u.level + 1 \in Levels, NEW s \in Slots(u.level),
         t.level = u.level + 1, t.at = u.at * Size(u.level) + s, u.level = FirstLevel => u.at = 0
  PROVE  On(t, p) <=> On(u, p) /\ Index(u.level, p) = s
<1> DEFINE l == u.level
           o == u.at
<1>1. l \in Levels /\ o \in Nat /\ l + 1 # FirstLevel /\ (l + 1) - 1 = l /\ s \in 0 .. (Size(l) - 1)
  BY TablesAssumption DEF TableRecs, Levels, Slots
<1>2. On(t, p) <=> o * Size(l) + s = p \div Block(l)
  BY <1>1 DEF On
<1>3. Size(l) \in Nat \ {0} /\ p \div Block(l) \in Nat /\ Block(l) \in Nat \ {0} /\ p \in Nat
  BY <1>1, PowersAre, IndexIs, PagesAre
<1>4. On(u, p) <=> l = FirstLevel \/ o = p \div Block(l - 1)
  BY DEF On
<1>5. ASSUME On(u, p), Index(l, p) = s PROVE On(t, p)
  <2>1. o * Size(l) + Index(l, p) = p \div Block(l)
    BY <1>1, <1>4, <1>5, ChildIs
  <2>2. QED
    BY <1>2, <1>5, <2>1
<1>6. ASSUME On(t, p) PROVE On(u, p) /\ Index(l, p) = s
  <2> DEFINE x == p \div Block(l)
  <2>1. x = o * Size(l) + s /\ x \in Nat
    BY <1>2, <1>3, <1>6
  <2>2. Index(l, p) = x % Size(l)
    BY DEF Index
  <2>3. l # FirstLevel => Block(l - 1) = Size(l) * Block(l) /\ p \div Block(l - 1) = x \div Size(l)
    BY <1>1, <1>3, PowersAssumption, DivDiv
  <2>4. x \div Size(l) = o /\ x % Size(l) = s
    <3> DEFINE b == Size(l)
    <3>1. b \in Nat \ {0} /\ o \in Nat /\ s \in 0 .. (b - 1) /\ x \in Nat /\ x = o * b + s
      BY <1>1, <1>3, <2>1
    <3> HIDE DEF x, o, b
    <3>2. x \div b = o /\ x % b = s
      BY <3>1, QuotIs
    <3>3. QED
      BY <3>2 DEF b
  <2>5. QED
    BY <1>4, <2>2, <2>3, <2>4 DEF l, o
<1>7. QED
  BY <1>5, <1>6

\* The tables for the blocks of a page lead to what the root leads to.
LEMMA WalkReaches ==
  ASSUME NEW m, Typed(m), NEW r, NEW T, T \subseteq TableRecs, Tree(m, r, T), NEW p \in Pages,
         NEW W, Finds(m, p, FirstLevel, W), NEW t \in T, On(t, p)
  PROVE  W[t.level][t.addr] = W[FirstLevel][r]
<1> DEFINE m1 == MaxLevel - FirstLevel
           S  == {k \in 0 .. m1 : \A u \in T : u.level = FirstLevel + k /\ On(u, p) => W[u.level][u.addr] = W[FirstLevel][r]}
<1>1. m1 \in Nat /\ FirstLevel \in Nat /\ \A l \in Levels : l - FirstLevel \in 0 .. m1 /\ l = FirstLevel + (l - FirstLevel)
  BY TablesAssumption DEF Levels
<1>2. 0 \in S
  <2>1. \A u \in T : u.level = FirstLevel + 0 => u.level = FirstLevel /\ u.addr = r
    BY <1>1 DEF Tree, RootTable
  <2>2. QED
    BY <1>1, <2>1
<1>3. \A k \in S : k < m1 => k + 1 \in S
  <2> SUFFICES ASSUME NEW k \in S, k < m1, NEW u \in T, u.level = FirstLevel + (k + 1), On(u, p)
               PROVE  W[u.level][u.addr] = W[FirstLevel][r]
    BY <1>1
  <2>1. u.level # FirstLevel /\ u.level - 1 = FirstLevel + k /\ FirstLevel + k < MaxLevel /\ u.level \in Levels
    BY <1>1, TablesAssumption DEF TableRecs
  <2>2. PICK v \in T, s \in Slots(u.level - 1) : v.level = u.level - 1 /\ IsTable(m[v.addr][s]) /\ u = Below(m, v, s)
    BY <2>1 DEF Tree
  <2>3. v \in TableRecs /\ u \in TableRecs /\ v.level + 1 = u.level /\ u.level = v.level + 1 /\ v.addr \in Tables /\ v.level \in Levels
    BY <2>1, <2>2, <1>1 DEF TableRecs
  <2>4. u.at = v.at * Size(v.level) + s /\ u.addr = m[v.addr][s].addr
    BY <2>2 DEF Below
  <2>5. v.level = FirstLevel => v.at = 0
    BY DEF Tree, RootTable
  <2>6. On(v, p) /\ Index(v.level, p) = s
    BY <2>1, <2>2, <2>3, <2>4, <2>5, ParentOn
  <2>7. W[v.level][v.addr] = W[FirstLevel][r]
    BY <2>1, <2>2, <2>6
  <2>8. W[v.level][v.addr] = FoundBy(W, v.level, m[v.addr][s], p)
    BY <2>3, <2>6, PowersAre, TablesAssumption DEF Finds, FoundAt, Levels
  <2>9. v.level < MaxLevel /\ m[v.addr][s] # None
    BY <2>1, <2>2 DEF IsTable
  <2>10. FoundBy(W, v.level, m[v.addr][s], p) = W[v.level + 1][m[v.addr][s].addr]
    BY <2>2, <2>9 DEF FoundBy
  <2>11. QED
    BY <2>3, <2>4, <2>7, <2>8, <2>10
<1>4. S = 0 .. m1
  <2> HIDE DEF S
  <2>1. S \in SUBSET (0 .. m1)
    BY DEF S
  <2>2. QED
    BY <1>1, <1>2, <1>3, <2>1, IntervalInduction
<1>5. t.level \in Levels
  BY DEF TableRecs
<1>6. t.level - FirstLevel \in S
  BY <1>1, <1>4, <1>5
<1>7. QED
  BY <1>1, <1>5, <1>6

\* Where a walk is over, its result is.
LEMMA WalkAt ==
  ASSUME NEW m, Typed(m), NEW r, NEW T, T \subseteq TableRecs, Tree(m, r, T), NEW p \in Pages,
         NEW t \in T, On(t, p), Ends(m, t, p)
  PROVE  Walked(m, r, p) = IF m[t.addr][Index(t.level, p)] = None THEN None
                           ELSE LeafAt(t.level, m[t.addr][Index(t.level, p)], p)
<1> DEFINE d == m[t.addr][Index(t.level, p)]
<1>1. PICK W : Finds(m, p, FirstLevel, W) /\ Walked(m, r, p) = W[FirstLevel][r]
  BY WalkedIs
<1>2. W[t.level][t.addr] = W[FirstLevel][r]
  BY <1>1, WalkReaches
<1>3. t.level \in Levels /\ t.addr \in Tables /\ t.level >= FirstLevel
  BY TablesAssumption DEF TableRecs, Levels
<1>4. W[t.level][t.addr] = FoundBy(W, t.level, d, p)
  BY <1>1, <1>3 DEF Finds, FoundAt
<1>5. FoundBy(W, t.level, d, p) = IF d = None THEN None ELSE LeafAt(t.level, d, p)
  <2>1. ~(IsTable(d) /\ t.level < MaxLevel)
    BY DEF Ends
  <2> HIDE DEF d
  <2>2. QED
    BY <2>1 DEF FoundBy, LeafAt
<1>6. QED
  BY <1>1, <1>2, <1>4, <1>5

\* Every walk is over at a table.
LEMMA WalkEnds ==
  ASSUME NEW m, NEW r, NEW T, T \subseteq TableRecs, Tree(m, r, T), NEW p \in Pages
  PROVE  \E t \in T : On(t, p) /\ Ends(m, t, p)
<1> SUFFICES ASSUME \A t \in T : On(t, p) => ~Ends(m, t, p) PROVE FALSE
  OBVIOUS
<1> DEFINE m1 == MaxLevel - FirstLevel
           S  == {k \in 0 .. m1 : \E u \in T : u.level = FirstLevel + k /\ On(u, p)}
<1>1. m1 \in Nat /\ FirstLevel \in Nat /\ FirstLevel + m1 = MaxLevel /\ m1 \in 0 .. m1
  BY TablesAssumption
<1>2. 0 \in S
  <2>1. RootTable(r) \in T /\ RootTable(r).level = FirstLevel + 0 /\ On(RootTable(r), p)
    BY <1>1 DEF Tree, RootTable, On
  <2>2. QED
    BY <1>1, <2>1
<1>3. \A k \in S : k < m1 => k + 1 \in S
  <2> SUFFICES ASSUME NEW k \in S, k < m1 PROVE \E u \in T : u.level = FirstLevel + (k + 1) /\ On(u, p)
    BY <1>1
  <2>1. PICK v \in T : v.level = FirstLevel + k /\ On(v, p)
    OBVIOUS
  <2> DEFINE s == Index(v.level, p)
             u == Below(m, v, s)
  <2>2. v.level # MaxLevel /\ v \in TableRecs /\ v.level \in Levels /\ v.level + 1 = FirstLevel + (k + 1)
    BY <1>1, <2>1 DEF TableRecs
  <2>3. s \in Slots(v.level) /\ IsTable(m[v.addr][s])
    BY <2>1, <2>2, IndexIs DEF Ends
  <2>4. u \in T
    BY <2>2, <2>3 DEF Tree
  <2>5. u.level = v.level + 1 /\ u.at = v.at * Size(v.level) + s /\ u \in TableRecs
    BY <2>4 DEF Below
  <2>6. v.level = FirstLevel => v.at = 0
    BY DEF Tree, RootTable
  <2>7. u.level \in Levels
    BY <2>5 DEF TableRecs
  <2> HIDE DEF u
  <2>8. On(u, p)
    BY <2>1, <2>2, <2>3, <2>5, <2>6, <2>7, ParentOn
  <2>9. QED
    BY <2>2, <2>4, <2>5, <2>8
<1>4. S = 0 .. m1
  <2> HIDE DEF S
  <2>1. S \in SUBSET (0 .. m1)
    BY DEF S
  <2>2. QED
    BY <1>1, <1>2, <1>3, <2>1, IntervalInduction
<1>5. PICK u \in T : u.level = MaxLevel /\ On(u, p)
  BY <1>1, <1>4
<1>6. Ends(m, u, p)
  BY <1>5, TablesAssumption DEF Ends
<1>7. QED
  BY <1>5, <1>6

-----------------------------------------------------------------------------
(* What the stores change                                                   *)

\* Two pages take the same slot of a table if they are in the same block.
LEMMA SameSlot ==
  ASSUME NEW t \in TableRecs, t.level = FirstLevel => t.at = 0, NEW v \in Pages, On(t, v), NEW p \in Pages
  PROVE  On(t, p) /\ Index(t.level, p) = Index(t.level, v) <=> p \div Block(t.level) = v \div Block(t.level)
<1> DEFINE l == t.level
<1>1. l \in Levels /\ t.at \in Nat
  BY DEF TableRecs
<1>2. ASSUME NEW q \in Pages, On(t, q) PROVE t.at * Size(l) + Index(l, q) = q \div Block(l)
  BY <1>1, <1>2, ChildIs DEF On
<1>3. ASSUME On(t, p), Index(l, p) = Index(l, v) PROVE p \div Block(l) = v \div Block(l)
  BY <1>2, <1>3
<1>4. ASSUME p \div Block(l) = v \div Block(l) PROVE On(t, p) /\ Index(l, p) = Index(l, v)
  <2>1. Index(l, p) = Index(l, v)
    BY <1>4 DEF Index
  <2>2. l # FirstLevel => /\ Block(l - 1) = Size(l) * Block(l)
                          /\ p \div Block(l - 1) = (p \div Block(l)) \div Size(l)
                          /\ v \div Block(l - 1) = (v \div Block(l)) \div Size(l)
    <3> SUFFICES ASSUME l # FirstLevel PROVE /\ Block(l - 1) = Size(l) * Block(l)
                          /\ p \div Block(l - 1) = (p \div Block(l)) \div Size(l)
                          /\ v \div Block(l - 1) = (v \div Block(l)) \div Size(l)
      OBVIOUS
    <3>1. Block(l - 1) = Size(l) * Block(l) /\ Size(l) \in Nat \ {0} /\ Block(l) \in Nat \ {0} /\ p \in Nat /\ v \in Nat
      BY <1>1, PowersAssumption, PowersAre, PagesAre
    <3> HIDE DEF l
    <3>2. QED
      BY <3>1, DivDiv
  <2>3. l # FirstLevel => p \div Block(l - 1) = v \div Block(l - 1)
    BY <1>4, <2>2
  <2>4. QED
    BY <2>1, <2>3 DEF On
<1>5. QED
  BY <1>3, <1>4

\* A walk leads to none or to a leaf, by the descriptor at its end.
Result(m, t, p) ==
  IF m[t.addr][Index(t.level, p)] = None THEN None ELSE LeafAt(t.level, m[t.addr][Index(t.level, p)], p)

\* One slot is changed, that of page v at the end of its walk: the pages of its block
\* change, no others.
LEMMA StoreSeen ==
  ASSUME NEW m, Typed(m), NEW w, Typed(w), NEW r, NEW T, T \subseteq TableRecs, Apart(T), Tree(m, r, T), Tree(w, r, T),
         NEW t \in T, NEW v \in Pages, On(t, v), Ends(m, t, v), Ends(w, t, v),
         \A a \in Tables : \A s \in 0 .. (PtAlign - 1) : ~(a = t.addr /\ s = Index(t.level, v)) => w[a][s] = m[a][s],
         NEW p \in Pages
  PROVE  IF p \div Block(t.level) = v \div Block(t.level)
         THEN Walked(m, r, p) = Result(m, t, p) /\ Walked(w, r, p) = Result(w, t, p) /\ Index(t.level, p) = Index(t.level, v)
         ELSE Walked(w, r, p) = Walked(m, r, p)
<1>1. t \in TableRecs /\ (t.level = FirstLevel => t.at = 0)
  BY DEF Tree, RootTable
<1>2. On(t, p) /\ Index(t.level, p) = Index(t.level, v) <=> p \div Block(t.level) = v \div Block(t.level)
  BY <1>1, SameSlot
<1>3. ASSUME p \div Block(t.level) = v \div Block(t.level)
      PROVE  Walked(m, r, p) = Result(m, t, p) /\ Walked(w, r, p) = Result(w, t, p)
  <2>1. On(t, p) /\ Ends(m, t, p) /\ Ends(w, t, p)
    BY <1>2, <1>3 DEF Ends
  <2>2. Walked(m, r, p) = Result(m, t, p)
    BY <2>1, WalkAt DEF Result
  <2>3. Walked(w, r, p) = Result(w, t, p)
    BY <2>1, WalkAt DEF Result
  <2>4. QED
    BY <2>2, <2>3
<1>4. ASSUME p \div Block(t.level) # v \div Block(t.level) PROVE Walked(w, r, p) = Walked(m, r, p)
  <2>1. PICK e \in T : On(e, p) /\ Ends(m, e, p)
    BY WalkEnds
  <2>2. ~(e.addr = t.addr /\ Index(e.level, p) = Index(t.level, v))
    BY <1>2, <1>4, <2>1 DEF Apart
  <2>3. e.level \in Levels /\ e.addr \in Tables
    BY DEF TableRecs
  <2>4. w[e.addr][Index(e.level, p)] = m[e.addr][Index(e.level, p)]
    BY <2>2, <2>3, IndexIs
  <2>5. Ends(w, e, p)
    BY <2>1, <2>4 DEF Ends
  <2>6. Walked(m, r, p) = Result(m, e, p)
    BY <2>1, WalkAt DEF Result
  <2>7. Walked(w, r, p) = Result(w, e, p)
    BY <2>1, <2>5, WalkAt DEF Result
  <2>8. QED
    BY <2>4, <2>6, <2>7 DEF Result
<1>5. QED
  BY <1>2, <1>3, <1>4

\* A new table is linked where nothing is mapped: nothing changes.
LEMMA GrowthUnseen ==
  ASSUME NEW m, Typed(m), NEW w, Typed(w), NEW r, NEW T, T \subseteq TableRecs, Apart(T), Tree(m, r, T),
         NEW t \in T, NEW x \in Slots(t.level), NEW b \in Tables, \A o \in T : o.addr # b,
         Grown(m, w, b, t.addr, x), Child(t, x, b) \in TableRecs, Tree(w, r, T \cup {Child(t, x, b)}),
         NEW p \in Pages, On(t, p) /\ Index(t.level, p) = x => Walked(m, r, p) = None
  PROVE  Walked(w, r, p) = Walked(m, r, p)
<1> DEFINE c == Child(t, x, b)
           U == T \cup {c}
<1>1. c.level = t.level + 1 /\ c.at = t.at * Size(t.level) + x /\ c.addr = b /\ c \in U /\ U \subseteq TableRecs /\ c \in TableRecs
  BY DEF Child
<1>2. t.level = FirstLevel => t.at = 0
  BY DEF Tree, RootTable
<1>3. On(c, p) <=> On(t, p) /\ Index(t.level, p) = x
  <2>1. t \in TableRecs /\ t.level + 1 \in Levels
    BY <1>1 DEF TableRecs
  <2> HIDE DEF c
  <2>2. QED
    BY <1>1, <1>2, <2>1, ParentOn
<1>4. Tree(w, r, U)
  OBVIOUS
<1> HIDE DEF c
<1>5. CASE On(c, p)
  <2>1. Index(c.level, p) \in 0 .. (PtAlign - 1)
    BY <1>1, IndexIs DEF TableRecs
  <2>2. w[c.addr][Index(c.level, p)] = None
    BY <1>1, <2>1 DEF Grown
  <2>3. Ends(w, c, p)
    BY <2>2 DEF Ends, IsTable
  <2>4. Walked(w, r, p) = Result(w, c, p)
    BY <1>1, <1>4, <1>5, <2>3, WalkAt DEF Result
  <2>5. QED
    BY <1>3, <1>5, <2>2, <2>4 DEF Result
<1>6. CASE ~On(c, p)
  <2>1. PICK e \in T : On(e, p) /\ Ends(m, e, p)
    BY WalkEnds
  <2>2. ~(e.addr = t.addr /\ Index(e.level, p) = x) /\ e.addr # b
    BY <1>3, <1>6, <2>1 DEF Apart
  <2>3. e.level \in Levels /\ e.addr \in Tables /\ e \in U
    BY DEF TableRecs
  <2>4. w[e.addr][Index(e.level, p)] = m[e.addr][Index(e.level, p)]
    BY <2>2, <2>3, IndexIs DEF Grown
  <2>5. Ends(w, e, p)
    BY <2>1, <2>4 DEF Ends
  <2>6. Walked(m, r, p) = Result(m, e, p)
    BY <2>1, WalkAt DEF Result
  <2>7. Walked(w, r, p) = Result(w, e, p)
    <3> HIDE DEF U
    <3>1. QED
      BY <1>1, <1>4, <2>1, <2>3, <2>5, WalkAt DEF Result
  <2>8. QED
    BY <2>4, <2>6, <2>7 DEF Result
<1>7. QED
  BY <1>5, <1>6

\* A vacant table is unlinked: nothing changes.
LEMMA PruningUnseen ==
  ASSUME NEW m, Typed(m), NEW w, Typed(w), NEW r, NEW T, T \subseteq TableRecs, Apart(T), Tree(m, r, T),
         NEW t \in T, NEW u \in T, t.level = u.level + 1, NEW y \in Slots(u.level), y \in 0 .. (PtAlign - 1),
         m[u.addr][y] = TableDesc(t.addr), \A s \in Slots(t.level) : m[t.addr][s] = None,
         Pruned(m, w, u.addr, y), Tree(w, r, T \ {t}), NEW p \in Pages
  PROVE  Walked(w, r, p) = Walked(m, r, p)
<1> DEFINE U == T \ {t}
<1>1. t \in TableRecs /\ u \in TableRecs /\ u.level + 1 \in Levels /\ u.level # MaxLevel /\ u.level < MaxLevel /\ t.level \in Levels
      /\ t.addr \in Tables /\ u.addr \in Tables
  BY TablesAssumption DEF TableRecs, Levels
<1>2. u.level = FirstLevel => u.at = 0
  BY DEF Tree, RootTable
<1>3. t.at = u.at * Size(u.level) + y
  <2>1. IsTable(m[u.addr][y]) /\ m[u.addr][y].addr = t.addr
    BY <1>1, DescsAre
  <2>2. Below(m, u, y) \in T
    BY <1>1, <2>1 DEF Tree
  <2>3. Below(m, u, y).addr = t.addr /\ Below(m, u, y).at = u.at * Size(u.level) + y
    BY <2>1 DEF Below
  <2>4. QED
    BY <2>2, <2>3 DEF Apart
<1>4. On(t, p) <=> On(u, p) /\ Index(u.level, p) = y
  BY <1>1, <1>2, <1>3, ParentOn
<1>5. u \in U
  BY <1>1 DEF TableRecs, Levels
<1>6. PICK e \in T : On(e, p) /\ Ends(m, e, p)
  BY WalkEnds
<1>7. e.level \in Levels /\ e.addr \in Tables /\ Walked(m, r, p) = Result(m, e, p)
  BY <1>6, WalkAt DEF Result, TableRecs
<1>8. CASE e = t
  <2>1. Index(t.level, p) \in Slots(t.level)
    BY <1>1, IndexIs
  <2>2. Walked(m, r, p) = None
    BY <1>7, <1>8, <2>1 DEF Result
  <2>3. On(u, p) /\ Index(u.level, p) = y
    BY <1>4, <1>6, <1>8
  <2>4. w[u.addr][Index(u.level, p)] = None
    BY <1>1, <2>3 DEF Pruned
  <2>5. Ends(w, u, p)
    BY <2>4 DEF Ends, IsTable
  <2>6. Walked(w, r, p) = Result(w, u, p)
    <3>1. U \subseteq TableRecs /\ Tree(w, r, U)
      OBVIOUS
    <3> HIDE DEF U
    <3>2. QED
      BY <1>5, <2>3, <2>5, <3>1, WalkAt DEF Result
  <2>7. QED
    BY <2>2, <2>4, <2>6 DEF Result
<1>9. CASE e # t
  <2>1. ~(e.addr = u.addr /\ Index(e.level, p) = y)
    <3>1. IsTable(m[u.addr][y])
      BY <1>1, DescsAre
    <3>2. QED
      BY <1>1, <1>6, <3>1 DEF Apart, Ends
  <2>2. w[e.addr][Index(e.level, p)] = m[e.addr][Index(e.level, p)]
    BY <1>7, <2>1, IndexIs DEF Pruned
  <2>3. Ends(w, e, p)
    BY <1>6, <2>2 DEF Ends
  <2>4. Walked(w, r, p) = Result(w, e, p)
    <3>1. U \subseteq TableRecs /\ Tree(w, r, U) /\ e \in U
      BY <1>9
    <3> HIDE DEF U
    <3>2. QED
      BY <1>6, <2>3, <3>1, WalkAt DEF Result
  <2>5. QED
    BY <1>7, <2>2, <2>4 DEF Result
<1>10. QED
  BY <1>8, <1>9

\* Page p is in the block that the call is at.
InBlock(p) == p \div Block(level) = va \div Block(level)

\* Where a descriptor is stored or cleared, the block starts at va and is in the region.
LEMMA BlockInside ==
  ASSUME CallTyped, CallInv, AtLeaf
  PROVE  /\ va % Block(level) = 0 /\ sz >= Block(level) /\ Block(level) \in Nat \ {0} /\ level \in Levels
         /\ Covers(req, level, va \div Block(level))
         /\ \A p \in Pages : InBlock(p) => p \in PagesOf(req) /\ p >= va /\ p < va + Block(level) /\ p % Block(level) = p - va
         /\ \A p \in Pages : p >= va + Block(level) => ~InBlock(p)
<1> DEFINE b == Block(level)
<1>1. level \in Levels /\ b \in Nat \ {0} /\ va \in Nat /\ sz \in Nat \ {0}
  BY PowersAre, CallAt DEF CallTyped
<1>2. va % b = 0 /\ sz >= b
  <2>1. CASE level = MaxLevel
    <3>1. b = 1
      BY <2>1, PowersAssumption
    <3> HIDE DEF b
    <3>2. QED
      BY <1>1, <3>1
  <2>2. CASE level # MaxLevel
    BY <2>2 DEF AtLeaf
  <2>3. QED
    BY <2>1, <2>2
<1>3. Covers(req, level, va \div b)
  BY <1>1, <1>2, FitsIs DEF Fits
<1>4. ASSUME NEW p \in Pages, InBlock(p) PROVE p >= va /\ p < va + b /\ p % b = p - va
  <2>1. p \in Nat /\ p \div b = va \div b
    BY <1>4, PagesAre DEF InBlock
  <2> HIDE DEF b
  <2>2. p = (p \div b) * b + (p % b) /\ p % b \in 0 .. (b - 1) /\ va = (va \div b) * b + (va % b) /\ va \div b \in Nat
    BY <1>1, <2>1, DivMod
  <2> DEFINE q == va \div b
             x == p % b
             y == va % b
             z == q * b
  <2>3. p = z + x /\ x \in 0 .. (b - 1) /\ va = z + y /\ y = 0 /\ z \in Nat
    BY <1>1, <1>2, <2>1, <2>2
  <2> HIDE DEF x, y, z
  <2>4. p >= va /\ p < va + b /\ x = p - va
    BY <1>1, <2>3
  <2>5. QED
    BY <2>4 DEF x
<1>5. ASSUME NEW p \in Pages, InBlock(p) PROVE p \in PagesOf(req)
  <2>1. p \in Nat /\ p >= va /\ p < va + b
    BY <1>4, <1>5, PagesAre
  <2>2. req.va <= va /\ va + sz = req.va + req.sz /\ req.va \in Nat /\ req.sz \in Nat
    BY CallAt
  <2> HIDE DEF b
  <2> DEFINE x == req.va
             y == req.sz
  <2>3. x <= p /\ p <= x + y - 1
    <3>1. x \in Nat /\ y \in Nat /\ x <= va /\ va + sz = x + y
      BY <2>2
    <3> HIDE DEF x, y
    <3>2. QED
      BY <1>1, <1>2, <2>1, <3>1
  <2>4. p \in x .. (x + y - 1)
    <3>1. x \in Nat /\ y \in Nat
      BY <2>2
    <3> HIDE DEF x, y
    <3>2. QED
      BY <2>1, <2>3, <3>1
  <2>5. QED
    BY <2>4 DEF PagesOf
<1>6. ASSUME NEW p \in Pages, p >= va + b, InBlock(p) PROVE FALSE
  <2>1. p \in Nat /\ p < va + b
    BY <1>4, <1>6, PagesAre
  <2> HIDE DEF b
  <2>2. QED
    BY <1>1, <1>6, <2>1
<1>7. QED
  BY <1>1, <1>2, <1>3, <1>4, <1>5, <1>6

\* mmu_map stores a descriptor: the pages of its block are mapped, if they were not.
LEMMA StoreChange ==
  ASSUME NEW T, Good(T), MapStore
  PROVE  \/ Desc # None /\ Return(-1) /\ \A p \in Pages : Leaf(p)' = Leaf(p)
         \/ /\ Desc = None /\ Advance(Block(level)) /\ req' = req
            /\ \A p \in Pages : IF InBlock(p) THEN Leaf(p) = None /\ Leaf(p)' = LeafAt(level, LeafDesc(pa), p)
                                ELSE Leaf(p)' = Leaf(p)
<1>1. /\ busy = "map" /\ AtLeaf /\ UNCHANGED <<free, root, todo, req>>
      /\ IF Desc # None THEN Return(-1) /\ UNCHANGED mem
         ELSE mem' = [mem EXCEPT ![pt][Index(level, va)] = LeafDesc(pa)] /\ Advance(Block(level))
  BY DEF MapStore
<1>2. /\ root # None /\ T \subseteq TableRecs /\ Apart(T) /\ Tree(mem, root, T) /\ TablesTyped /\ CallTyped /\ CallInv /\ DownInv(T)
  BY <1>1, CallGood DEF Good, Calling
<1>3. CASE Desc # None
  BY <1>1, <1>3 DEF Leaf
<1>4. CASE Desc = None
  <2>1. Good(T)'
    BY MapStoreStep
  <2>2. TablesTyped' /\ Tree(mem', root, T)
    BY <1>1, <1>2, <2>1 DEF Good, Stored
  <2>3. Typed(mem) /\ Typed(mem')
    BY <1>2, <2>2 DEF TablesTyped, Typed
  <2>4. PICK t \in T : t.addr = pt /\ t.level = level /\ (t.level # FirstLevel => t.at = va \div Block(level - 1))
    BY <1>2 DEF DownInv
  <2>5. va \in Pages /\ level \in Levels /\ pt \in Tables /\ On(t, va)
    BY <1>2, <2>4, CallAt DEF On, TableRecs
  <2> DEFINE x == Index(level, va)
             d == LeafDesc(pa)
  <2>6. x \in 0 .. (PtAlign - 1) /\ mem[pt][x] = None /\ d \in Descs \cup {None} /\ ~IsTable(d) /\ ~IsTable(None) /\ d # None
    BY <1>2, <1>4, <2>5, IndexIs, DescsAre DEF Desc, CallTyped
  <2>7. mem' = [mem EXCEPT ![pt][x] = d]
    BY <1>1, <1>4
  <2> HIDE DEF x, d
  <2>8. \A b \in Tables, s \in 0 .. (PtAlign - 1) : mem'[b][s] = IF b = pt /\ s = x THEN d ELSE mem[b][s]
    <3>1. TablesTyped /\ pt \in Tables
      BY <1>2, <2>5
    <3>2. QED
      BY <2>6, <2>7, <3>1, StoreIs
  <2>9. mem'[t.addr][Index(t.level, va)] = d /\ mem[t.addr][Index(t.level, va)] = None
    BY <2>4, <2>5, <2>6, <2>8 DEF x
  <2>10. Ends(mem, t, va) /\ Ends(mem', t, va)
    BY <2>6, <2>9 DEF Ends
  <2>11. \A a \in Tables : \A s \in 0 .. (PtAlign - 1) : ~(a = t.addr /\ s = Index(t.level, va)) => mem'[a][s] = mem[a][s]
    BY <2>4, <2>8 DEF x
  <2>12. ASSUME NEW p \in Pages
         PROVE  IF p \div Block(t.level) = va \div Block(t.level)
                THEN Walked(mem, root, p) = Result(mem, t, p) /\ Walked(mem', root, p) = Result(mem', t, p) /\ Index(t.level, p) = Index(t.level, va)
                ELSE Walked(mem', root, p) = Walked(mem, root, p)
    BY <1>2, <2>2, <2>3, <2>5, <2>10, <2>11, StoreSeen
  <2>13. ASSUME NEW p \in Pages
         PROVE  Leaf(p) = Walked(mem, root, p) /\ Leaf(p)' = Walked(mem', root, p)
    BY <1>1, <1>2 DEF Leaf
  <2>14. ASSUME NEW p \in Pages, InBlock(p) PROVE Leaf(p) = None /\ Leaf(p)' = LeafAt(level, d, p)
    <3>1. p \div Block(t.level) = va \div Block(t.level)
      BY <2>4, <2>14 DEF InBlock
    <3>2. Walked(mem, root, p) = Result(mem, t, p) /\ Walked(mem', root, p) = Result(mem', t, p) /\ Index(t.level, p) = Index(t.level, va)
      BY <2>12, <3>1
    <3>3. Result(mem, t, p) = None /\ Result(mem', t, p) = LeafAt(level, d, p)
      BY <2>4, <2>6, <2>9, <3>2 DEF Result
    <3>4. QED
      BY <2>13, <3>2, <3>3
  <2>15. ASSUME NEW p \in Pages, ~InBlock(p) PROVE Leaf(p)' = Leaf(p)
    BY <2>4, <2>12, <2>13, <2>15 DEF InBlock
  <2>16. QED
    BY <1>1, <1>4, <2>14, <2>15 DEF d
<1>5. QED
  BY <1>3, <1>4

\* mmu_unmap clears a descriptor: the pages of its block are not mapped any more.
LEMMA ClearChange ==
  ASSUME NEW T, Good(T), UnmapClear
  PROVE  \/ Desc = None /\ Return(-1) /\ \A p \in Pages : Leaf(p)' = Leaf(p)
         \/ /\ Desc # None /\ busy' = "back" /\ UNCHANGED <<req, va, sz, level>>
            /\ \A p \in Pages : IF InBlock(p) THEN Leaf(p)' = None ELSE Leaf(p)' = Leaf(p)
<1>1. /\ busy = "unmap" /\ AtLeaf /\ UNCHANGED <<free, root, todo, req>>
      /\ IF Desc = None THEN Return(-1) /\ UNCHANGED mem
         ELSE mem' = [mem EXCEPT ![pt][Index(level, va)] = None] /\ busy' = "back" /\ UNCHANGED <<va, sz, level>>
  BY DEF UnmapClear
<1>2. /\ root # None /\ T \subseteq TableRecs /\ Apart(T) /\ Tree(mem, root, T) /\ TablesTyped /\ CallTyped /\ CallInv /\ DownInv(T) /\ ClearInv(T)
  BY <1>1, CallGood DEF Good, Calling
<1>3. CASE Desc = None
  BY <1>1, <1>3 DEF Leaf
<1>4. CASE Desc # None
  <2>1. Good(T)'
    BY UnmapClearStep
  <2>2. TablesTyped' /\ Tree(mem', root, T)
    BY <1>1, <1>2, <2>1 DEF Good, Stored
  <2>3. Typed(mem) /\ Typed(mem')
    BY <1>2, <2>2 DEF TablesTyped, Typed
  <2>4. PICK t \in T : t.addr = pt /\ t.level = level /\ (t.level # FirstLevel => t.at = va \div Block(level - 1))
    BY <1>2 DEF DownInv
  <2>5. va \in Pages /\ level \in Levels /\ pt \in Tables /\ On(t, va) /\ t.at \in Nat
    BY <1>2, <2>4, CallAt DEF On, TableRecs
  <2>20. t.level = FirstLevel => t.at = 0
    BY <1>2 DEF Tree, RootTable
  <2> DEFINE x == Index(level, va)
  <2>6. x \in 0 .. (PtAlign - 1) /\ None \in Descs \cup {None} /\ ~IsTable(None) /\ x \in Slots(level)
    BY <2>5, IndexIs, DescsAre
  <2>21. t.at * Size(level) + Index(level, va) = va \div Block(level)
    BY <2>4, <2>5, <2>20, ChildIs
  <2>22. level # MaxLevel => ~IsTable(Desc)
    BY <1>1, <1>2, <2>4, <2>6, <2>21, ClearIsLeaf
  <2>7. mem' = [mem EXCEPT ![pt][x] = None]
    BY <1>1, <1>4
  <2> HIDE DEF x
  <2>8. \A b \in Tables, s \in 0 .. (PtAlign - 1) : mem'[b][s] = IF b = pt /\ s = x THEN None ELSE mem[b][s]
    <3>1. TablesTyped /\ pt \in Tables
      BY <1>2, <2>5
    <3>2. QED
      BY <2>6, <2>7, <3>1, StoreIs
  <2>9. mem'[t.addr][Index(t.level, va)] = None /\ mem[t.addr][Index(t.level, va)] = Desc
    BY <2>4, <2>5, <2>6, <2>8 DEF x, Desc
  <2>10. Ends(mem, t, va) /\ Ends(mem', t, va)
    <3>1. level < MaxLevel => level # MaxLevel
      BY <2>5, TablesAssumption DEF Levels
    <3>2. QED
      BY <2>4, <2>6, <2>9, <2>22, <3>1 DEF Ends
  <2>11. \A a \in Tables : \A s \in 0 .. (PtAlign - 1) : ~(a = t.addr /\ s = Index(t.level, va)) => mem'[a][s] = mem[a][s]
    BY <2>4, <2>8 DEF x
  <2>12. ASSUME NEW p \in Pages
         PROVE  IF p \div Block(t.level) = va \div Block(t.level)
                THEN Walked(mem, root, p) = Result(mem, t, p) /\ Walked(mem', root, p) = Result(mem', t, p) /\ Index(t.level, p) = Index(t.level, va)
                ELSE Walked(mem', root, p) = Walked(mem, root, p)
    BY <1>2, <2>2, <2>3, <2>5, <2>10, <2>11, StoreSeen
  <2>13. ASSUME NEW p \in Pages
         PROVE  Leaf(p) = Walked(mem, root, p) /\ Leaf(p)' = Walked(mem', root, p)
    BY <1>1, <1>2 DEF Leaf
  <2>14. ASSUME NEW p \in Pages, InBlock(p) PROVE Leaf(p)' = None
    <3>1. p \div Block(t.level) = va \div Block(t.level)
      BY <2>4, <2>14 DEF InBlock
    <3>2. Walked(mem', root, p) = Result(mem', t, p) /\ Index(t.level, p) = Index(t.level, va)
      BY <2>12, <3>1
    <3>3. Result(mem', t, p) = None
      BY <2>9, <3>2 DEF Result
    <3>4. QED
      BY <2>13, <3>2, <3>3
  <2>15. ASSUME NEW p \in Pages, ~InBlock(p) PROVE Leaf(p)' = Leaf(p)
    BY <2>4, <2>12, <2>13, <2>15 DEF InBlock
  <2>16. QED
    BY <1>1, <1>4, <2>14, <2>15
<1>5. QED
  BY <1>3, <1>4

\* What mmu_map has still to map is not mapped with larger blocks than it uses.
MapClear ==
  \A p \in Pages : p \in PagesOf(req) /\ p >= va /\ Leaf(p) # None =>
    \E l \in Levels : l <= Leaf(p).level /\ Covers(req, l, p \div Block(l))

\* A leaf is not none.
LEMMA LeafNotNone ==
  ASSUME NEW l \in Levels, NEW d \in Descs, NEW p \in Pages
  PROVE  LeafAt(l, d, p) # None /\ LeafAt(l, d, p) \in Leaves
<1>1. d.addr \in Nat /\ p \in Nat /\ Block(l) \in Nat \ {0}
  BY TablesAre, PagesAre, PowersAre DEF Descs
<1> DEFINE a == d.addr
           b == Block(l)
           x == a % b
           y == p % b
<1>2. x \in 0 .. (b - 1) /\ y \in 0 .. (b - 1) /\ a = (a \div b) * b + x /\ a \div b \in Nat
  BY <1>1, DivMod
<1>3. x <= a
  <2> DEFINE q == a \div b
             z == q * b
  <2>1. z \in Nat
    <3>1. q \in Nat /\ b \in Nat
      BY <1>1, <1>2
    <3> HIDE DEF q, b
    <3>2. QED
      BY <3>1
  <2>2. a = z + x /\ x \in Nat
    BY <1>1, <1>2
  <2> HIDE DEF z, x
  <2>3. QED
    BY <2>1, <2>2
<1>4. (a - x) + y \in Nat
  <2>1. a \in Nat /\ x \in Nat /\ y \in Nat
    BY <1>1, <1>2
  <2> HIDE DEF a, x, y
  <2>2. QED
    BY <1>3, <2>1
<1>5. LeafAt(l, d, p) = [level |-> l, frame |-> (a - x) + y]
  BY DEF LeafAt
<1> HIDE DEF a, x, y
<1>6. LeafAt(l, d, p) \in Leaves
  BY <1>4, <1>5 DEF Leaves
<1>7. QED
  BY <1>6, TablesAssumption

\* A new table replaces nothing that is mapped.
LEMMA GrowChange ==
  ASSUME Supported, EntryLeft, NEW T, Good(T), MapGrow, MapClear
  PROVE  UNCHANGED <<busy, req, va, pa, sz, rc>> /\ \A p \in Pages : Leaf(p)' = Leaf(p)
<1>1. busy = "map" /\ ~AtLeaf /\ ~IsTable(Desc) /\ UNCHANGED <<root, req, va, pa, sz, rc>>
  BY DEF MapGrow
<1>2. /\ root # None /\ T \subseteq TableRecs /\ Apart(T) /\ Tree(mem, root, T) /\ TablesTyped /\ CallTyped /\ CallInv /\ DownInv(T)
  BY <1>1, CallGood DEF Good, Calling
<1>3. busy' = busy
  <2>1. BallocAlloc(free, Size(level + 1), PtAlign).addr # None
    BY <1>1, GrowFinds
  <2>2. QED
    BY <2>1 DEF MapGrow
<1>4. PICK U : Good(U)' /\ Grows(T, U)
  BY MapGrowStep
<1>5. PICK t \in T, b \in Tables :
        /\ t.addr = pt /\ t.level = level /\ (\A o \in T : o.addr # b) /\ pt' = b
        /\ Grown(mem, mem', b, pt, Index(level, va)) /\ U = T \cup {Child(t, Index(level, va), b)}
  BY <1>4 DEF Grows
<1>6. TablesTyped' /\ Tree(mem', root, U) /\ U \subseteq TableRecs
  BY <1>1, <1>2, <1>4 DEF Good, Stored
<1>7. Typed(mem) /\ Typed(mem')
  BY <1>2, <1>6 DEF TablesTyped, Typed
<1>8. va \in Pages /\ level \in Levels /\ level # MaxLevel /\ pt \in Tables
  BY <1>1, <1>2, <1>5, CallAt, PassedNot DEF TableRecs
<1>9. On(t, va)
  <2>1. PICK u \in T : u.addr = pt /\ u.level = level /\ (u.level # FirstLevel => u.at = va \div Block(level - 1))
    BY <1>2 DEF DownInv
  <2>2. u = t
    BY <1>2, <1>5, <2>1 DEF Apart
  <2>3. QED
    BY <2>1, <2>2 DEF On
<1> DEFINE x == Index(level, va)
<1>10. x \in Slots(t.level) /\ x = Index(t.level, va) /\ Desc = mem[t.addr][x]
  BY <1>5, <1>8, IndexIs DEF Desc
<1>11. Ends(mem, t, va)
  BY <1>1, <1>10 DEF Ends
<1>12. Leaf(va) = None
  <2> SUFFICES ASSUME Leaf(va) # None PROVE FALSE
    OBVIOUS
  <2>1. Leaf(va) = Result(mem, t, va)
    BY <1>2, <1>7, <1>8, <1>9, <1>11, WalkAt DEF Leaf, Result
  <2>2. Leaf(va).level = level
    BY <1>5, <2>1 DEF Result, LeafAt
  <2>3. va \in PagesOf(req) /\ va \in Nat
    BY <1>2, CallAt
  <2>4. PICK l \in Levels : l <= level /\ Covers(req, l, va \div Block(l))
    BY <1>8, <2>2, <2>3 DEF MapClear
  <2>5. Fits(l)
    BY <1>2, <2>4, FitsIs
  <2>6. l < level + 1
    BY <1>8, <2>4, PowersAre
  <2>7. QED
    BY <1>1, <1>2, <2>5, <2>6, PassedNot
<1>13. Desc = None
  <2> SUFFICES ASSUME Desc # None PROVE FALSE
    OBVIOUS
  <2>0. mem[t.addr][x] # None
    BY <1>10
  <2>1. Leaf(va) = Result(mem, t, va)
    BY <1>2, <1>7, <1>8, <1>9, <1>11, WalkAt DEF Leaf, Result
  <2>2. LeafAt(t.level, mem[t.addr][Index(t.level, va)], va) # None
    <3>1. t.level \in Levels /\ Index(t.level, va) \in 0 .. (PtAlign - 1) /\ t.addr \in Tables
      BY <1>5, <1>8, IndexIs
    <3>2. mem[t.addr][Index(t.level, va)] \in Descs
      BY <1>2, <1>10, <2>0, <3>1 DEF TablesTyped
    <3>3. QED
      BY <1>8, <3>1, <3>2, LeafNotNone
  <2>3. QED
    BY <1>10, <1>12, <2>1, <2>2 DEF Result
<1> HIDE DEF x
<1>14. ASSUME NEW p \in Pages PROVE Walked(mem', root, p) = Walked(mem, root, p)
  <2>1. ASSUME On(t, p), Index(t.level, p) = x PROVE Walked(mem, root, p) = None
    <3>1. mem[t.addr][Index(t.level, p)] = None
      BY <1>10, <1>13, <2>1
    <3>2. Ends(mem, t, p)
      BY <3>1 DEF Ends, IsTable
    <3>3. Walked(mem, root, p) = Result(mem, t, p)
      BY <1>2, <1>7, <2>1, <3>2, WalkAt DEF Result
    <3>4. QED
      BY <3>1, <3>3 DEF Result
  <2>2. Child(t, x, b) \in TableRecs /\ Tree(mem', root, T \cup {Child(t, x, b)}) /\ Grown(mem, mem', b, t.addr, x)
    BY <1>5, <1>6 DEF x
  <2>3. T \subseteq TableRecs /\ Apart(T) /\ Tree(mem, root, T) /\ Typed(mem) /\ Typed(mem') /\ x \in Slots(t.level) /\ (\A o \in T : o.addr # b)
    BY <1>2, <1>5, <1>7, <1>10
  <2>4. QED
    BY <2>1, <2>2, <2>3, GrowthUnseen
<1>15. ASSUME NEW p \in Pages PROVE Leaf(p)' = Leaf(p)
  BY <1>1, <1>2, <1>14 DEF Leaf
<1>16. QED
  BY <1>1, <1>3, <1>15

\* Freeing tables on the way back changes nothing.
LEMMA BackChange ==
  ASSUME Supported, EntryLeft, NEW T, Good(T), UnmapBack
  PROVE  req' = req /\ busy' # "map" /\ \A p \in Pages : Leaf(p)' = Leaf(p)
<1>1. busy = "back" /\ UNCHANGED <<root, req>>
  BY DEF UnmapBack
<1>2. /\ root # None /\ T \subseteq TableRecs /\ Apart(T) /\ Tree(mem, root, T) /\ TablesTyped /\ CallTyped /\ CallInv
      /\ req.call = "unmap"
  BY <1>1, CallGood DEF Good, Calling, CallInv
<1>3. PICK U : Good(U)' /\ (Stays(T, U) \/ Prunes(T, U))
  BY UnmapBackStep
<1>4. CASE Stays(T, U)
  BY <1>1, <1>2, <1>4 DEF Stays, Leaf, Advance, Return
<1>5. CASE Prunes(T, U)
  <2>1. PICK t \in T, u \in T, y \in 0 .. (PtAlign - 1) :
          /\ t.addr = pt /\ t.level = BackLevel /\ Vacant(pt, BackLevel) /\ U = T \ {t}
          /\ t.level = u.level + 1 /\ u.level # MaxLevel /\ y \in Slots(u.level) /\ pt' = u.addr /\ busy' = busy
          /\ mem[u.addr][y] = TableDesc(pt) /\ Pruned(mem, mem', u.addr, y)
    BY <1>5 DEF Prunes
  <2>2. TablesTyped' /\ Tree(mem', root, T \ {t})
    BY <1>1, <1>2, <1>3, <2>1 DEF Good, Stored
  <2>3. Typed(mem) /\ Typed(mem')
    BY <1>2, <2>2 DEF TablesTyped, Typed
  <2>4. \A s \in Slots(t.level) : mem[t.addr][s] = None
    BY <2>1 DEF Vacant
  <2>5. mem[u.addr][y] = TableDesc(t.addr)
    BY <2>1
  <2>6. ASSUME NEW p \in Pages PROVE Walked(mem', root, p) = Walked(mem, root, p)
    BY <1>2, <2>1, <2>2, <2>3, <2>4, <2>5, PruningUnseen
  <2>7. QED
    BY <1>1, <1>2, <2>1, <2>6 DEF Leaf
<1>6. QED
  BY <1>3, <1>4, <1>5

-----------------------------------------------------------------------------
(* The invariant about what a device finds                                  *)

\* On the last level a region covers each of its pages; LevelIn is the first such level.
LEMMA LevelInIs ==
  ASSUME NEW r \in Regions, NEW p \in PagesOf(r)
  PROVE  /\ Covers(r, MaxLevel, p \div Block(MaxLevel))
         /\ LevelIn(r, p) \in Levels /\ Covers(r, LevelIn(r, p), p \div Block(LevelIn(r, p)))
<1>1. p \in Nat /\ r.va \in Nat /\ r.sz \in Nat /\ r.va <= p /\ p < r.va + r.sz /\ p \in Pages
  <2>1. r.va \in Pages /\ r.sz \in Nat /\ p \in Pages
    BY DEF Regions
  <2>2. p \in Nat /\ r.va \in Nat
    BY <2>1, PagesAre
  <2>3. QED
    BY <2>1, <2>2 DEF PagesOf
<1>2. p \div Block(MaxLevel) = p /\ p * Block(MaxLevel) = p /\ (p + 1) * Block(MaxLevel) = p + 1
  BY <1>1, PowersAssumption
<1>3. Covers(r, MaxLevel, p \div Block(MaxLevel))
  <2> DEFINE a == r.va
             b == r.sz
  <2>1. a \in Nat /\ b \in Nat /\ a <= p /\ p < a + b
    BY <1>1
  <2> HIDE DEF a, b
  <2>2. a <= p /\ p + 1 <= a + b
    BY <1>1, <2>1
  <2>3. QED
    BY <1>2, <2>2 DEF Covers, a, b
<1> DEFINE S == {l \in Levels : Covers(r, l, p \div Block(l))}
<1>4. S \in SUBSET (0 .. MaxLevel) /\ MaxLevel \in S /\ MaxLevel \in Nat
  BY <1>3, TablesAssumption, PowersAre DEF Levels
<1>5. FirstOf(S) \in S
  <2> HIDE DEF S
  <2>1. QED
    BY <1>4, LeastOf
<1>6. QED
  BY <1>3, <1>5 DEF LevelIn

\* What is found is of some level.
LEMMA LeafLevel ==
  ASSUME NEW T, Good(T), root # None, NEW p \in Pages, Leaf(p) # None
  PROVE  Leaf(p).level \in Levels
<1>1. T \subseteq TableRecs /\ Tree(mem, root, T) /\ Typed(mem)
  BY DEF Good, Stored, TablesTyped, Typed
<1>2. PICK t \in T : On(t, p) /\ Ends(mem, t, p)
  BY <1>1, WalkEnds
<1>3. Leaf(p) = Result(mem, t, p)
  BY <1>1, <1>2, WalkAt DEF Leaf, Result
<1>4. Leaf(p).level = t.level
  BY <1>3 DEF Result, LeafAt
<1>5. QED
  BY <1>1, <1>4 DEF TableRecs

\* While rt_mmu_init maps its list, what is mapped is in blocks of its regions.
BootLeaves ==
  stage = "init" =>
    \A p \in Pages : Leaf(p) # None =>
      \E g \in DOMAIN boot : Covers(boot[g], Leaf(p).level, p \div Block(Leaf(p).level))

\* mmu_map maps a region, and in rt_mmu_init one of the list.
Mapping ==
  /\ pa = req.pa + (va - req.va)
  /\ \E r \in AllRegions : r.va = req.va /\ r.pa = req.pa /\ r.sz = req.sz
  /\ stage = "init" => \E g \in DOMAIN boot : boot[g].va = req.va /\ boot[g].sz = req.sz

\* What holds of what a device finds: it translates for clients only once all is mapped,
\* and mmu_map finds nothing in its way.
Sees ==
  /\ enabled => stage = "up"
  /\ busy = "map" => Mapping /\ MapClear
  /\ BootLeaves

\* A step that changes nothing of what is found, and starts no call.
LEMMA SeesKept ==
  ASSUME Sees, \A p \in Pages : Leaf(p)' = Leaf(p), enabled' => stage' = "up",
         stage' = "init" => stage = "init" /\ boot' = boot,
         busy' = "map" => busy = "map" /\ UNCHANGED <<req, va, pa, stage, boot>>
  PROVE  Sees'
<1>1. BootLeaves'
  <2> SUFFICES ASSUME stage' = "init", NEW p \in Pages, Leaf(p)' # None
               PROVE  \E g \in DOMAIN boot' : Covers(boot'[g], Leaf(p)'.level, p \div Block(Leaf(p)'.level))
    BY DEF BootLeaves
  <2>1. Leaf(p) # None /\ Leaf(p)' = Leaf(p) /\ boot' = boot /\ stage = "init"
    OBVIOUS
  <2>2. PICK g \in DOMAIN boot : Covers(boot[g], Leaf(p).level, p \div Block(Leaf(p).level))
    BY <2>1 DEF Sees, BootLeaves
  <2>3. QED
    BY <2>1, <2>2
<1>2. ASSUME busy' = "map" PROVE Mapping' /\ MapClear'
  <2>1. Mapping /\ MapClear /\ req' = req /\ va' = va /\ pa' = pa /\ stage' = stage /\ boot' = boot
    BY <1>2 DEF Sees
  <2>2. Mapping'
    BY <2>1 DEF Mapping
  <2>3. MapClear'
    <3> SUFFICES ASSUME NEW p \in Pages, p \in PagesOf(req'), p >= va', Leaf(p)' # None
                 PROVE  \E l \in Levels : l <= Leaf(p)'.level /\ Covers(req', l, p \div Block(l))
      BY DEF MapClear
    <3>1. Leaf(p)' = Leaf(p)
      OBVIOUS
    <3>2. PICK l \in Levels : l <= Leaf(p).level /\ Covers(req, l, p \div Block(l))
      BY <2>1, <3>1 DEF MapClear
    <3>3. QED
      BY <2>1, <3>1, <3>2
  <2>4. QED
    BY <2>2, <2>3
<1>3. QED
  BY <1>1, <1>2 DEF Sees

-----------------------------------------------------------------------------
(* Each store shows a device what the call asks for                         *)

\* The changes that a device may see.
Asked ==
  \A p \in Pages : Frame(p)' # Frame(p) =>
    \/ root' = None /\ ~enabled
    \/ /\ req # None /\ p \in PagesOf(req)
       /\ IF req.call = "map" THEN Frame(p) = None /\ Frame(p)' = req.pa + (p - req.va)
          ELSE Frame(p)' = None

\* A step that changes nothing of what is found shows nothing.
LEMMA AskedKept ==
  ASSUME \A p \in Pages : Leaf(p)' = Leaf(p)
  PROVE  Asked
<1>1. \A p \in Pages : Frame(p)' = Frame(p)
  BY DEF Frame
<1>2. QED
  BY <1>1 DEF Asked

\* The frames of a block of the region are those of the region.
LEMMA FramesAre ==
  ASSUME FramesFit, CallTyped, CallInv, AtLeaf, Mapping, NEW p \in Pages, InBlock(p)
  PROVE  LeafAt(level, LeafDesc(pa), p) # None /\ LeafAt(level, LeafDesc(pa), p).frame = req.pa + (p - req.va)
<1> DEFINE b == Block(level)
           g == va \div b
<1>1. /\ va % b = 0 /\ b \in Nat \ {0} /\ level \in Levels /\ Covers(req, level, g) /\ p % b = p - va
      /\ va \in Pages /\ va \in Nat /\ pa \in Nat /\ req.va \in Nat /\ req.pa \in Nat /\ p \in Nat
  BY BlockInside, CallAt, PagesAre DEF CallTyped
<1>2. g \in Pages /\ g \in Nat
  BY <1>1, IndexIs
<1>3. g * b = va
  <2> HIDE DEF b
  <2>1. va = (va \div b) * b + (va % b) /\ va \div b \in Nat
    BY <1>1, DivMod
  <2> DEFINE z == (va \div b) * b
  <2>2. va = z + (va % b) /\ z \in Nat
    BY <1>1, <2>1
  <2> HIDE DEF z
  <2>3. z = va
    BY <1>1, <2>2
  <2>4. QED
    BY <2>3 DEF z
<1>4. PICK r \in AllRegions : r.va = req.va /\ r.pa = req.pa /\ r.sz = req.sz
  BY DEF Mapping
<1>5. pa % b = 0
  <2>1. Covers(r, level, g)
    BY <1>1, <1>4 DEF Covers
  <2>2. (r.pa + (g * b - r.va)) % b = 0
    BY <1>1, <1>2, <2>1 DEF FramesFit
  <2>3. r.pa + (g * b - r.va) = pa
    BY <1>3, <1>4 DEF Mapping
  <2> HIDE DEF b, g
  <2>4. QED
    BY <2>2, <2>3
<1>6. LeafDesc(pa) \in Descs /\ LeafDesc(pa).addr = pa
  BY <1>1, DescsAre DEF LeafDesc
<1>7. LeafAt(level, LeafDesc(pa), p) # None
  BY <1>1, <1>6, LeafNotNone
<1>8. LeafAt(level, LeafDesc(pa), p).frame = (pa - (pa % b)) + (p % b)
  BY <1>6 DEF LeafAt
<1>9. (pa - (pa % b)) + (p % b) = req.pa + (p - req.va)
  <2> DEFINE x == pa % b
             y == p % b
             u == req.va
             w == req.pa
  <2>1. x = 0 /\ y = p - va /\ pa = w + (va - u) /\ u \in Nat /\ w \in Nat
    BY <1>1, <1>5 DEF Mapping
  <2> HIDE DEF x, y, u, w
  <2>2. (pa - x) + y = w + (p - u)
    BY <1>1, <2>1
  <2>3. QED
    BY <2>2 DEF x, y, u, w
<1>10. QED
  BY <1>7, <1>8, <1>9

\* mmu_map stores a descriptor.
LEMMA StoreSees ==
  ASSUME FramesFit, NEW T, Good(T), Sees, MapStore
  PROVE  Sees' /\ Asked
<1>1. busy = "map" /\ AtLeaf /\ req' = req /\ root' = root /\ enabled' = enabled /\ stage' = stage /\ boot' = boot
  BY DEF MapStore, busVars, stageVars
<1>2. CallTyped /\ CallInv /\ req.call = "map" /\ Mapping /\ MapClear /\ BootLeaves /\ (enabled => stage = "up")
  BY <1>1, CallGood DEF Sees, CallInv
<1>3. CASE busy' = "idle" /\ \A p \in Pages : Leaf(p)' = Leaf(p)
  BY <1>1, <1>2, <1>3, SeesKept, AskedKept
<1>4. CASE /\ Advance(Block(level)) /\ req' = req
           /\ \A p \in Pages : IF InBlock(p) THEN Leaf(p) = None /\ Leaf(p)' = LeafAt(level, LeafDesc(pa), p)
                               ELSE Leaf(p)' = Leaf(p)
  <2> DEFINE b == Block(level)
  <2>1. /\ Covers(req, level, va \div b) /\ b \in Nat \ {0} /\ level \in Levels
        /\ va \in Nat /\ pa \in Nat /\ req.va \in Nat /\ req.pa \in Nat
    BY <1>1, <1>2, BlockInside, CallAt DEF CallTyped
  <2>2. ASSUME NEW p \in Pages, InBlock(p)
        PROVE  /\ p \in PagesOf(req) /\ Leaf(p) = None /\ Leaf(p)' # None /\ Leaf(p)'.frame = req.pa + (p - req.va)
               /\ Leaf(p)'.level = level /\ p \div Block(level) = va \div b
    <3>1. Leaf(p) = None /\ Leaf(p)' = LeafAt(level, LeafDesc(pa), p)
      BY <1>4, <2>2
    <3>2. LeafAt(level, LeafDesc(pa), p) # None /\ LeafAt(level, LeafDesc(pa), p).frame = req.pa + (p - req.va)
      BY <1>1, <1>2, <2>2, FramesAre
    <3>3. LeafAt(level, LeafDesc(pa), p).level = level
      BY DEF LeafAt
    <3>4. p \in PagesOf(req)
      BY <1>1, <1>2, <2>2, BlockInside
    <3>5. QED
      BY <2>2, <3>1, <3>2, <3>3, <3>4 DEF InBlock
  <2>3. ASSUME NEW p \in Pages, ~InBlock(p) PROVE Leaf(p)' = Leaf(p)
    BY <1>4, <2>3
  <2>4. Asked
    <3> SUFFICES ASSUME NEW p \in Pages, Frame(p)' # Frame(p)
                 PROVE  /\ req # None /\ p \in PagesOf(req) /\ req.call = "map"
                        /\ Frame(p) = None /\ Frame(p)' = req.pa + (p - req.va)
      BY DEF Asked
    <3>1. InBlock(p)
      BY <2>3 DEF Frame
    <3>2. Frame(p) = None /\ Frame(p)' = req.pa + (p - req.va) /\ p \in PagesOf(req)
      BY <2>2, <3>1 DEF Frame
    <3>3. req # None
      BY <1>2, TablesAssumption DEF CallInv
    <3>4. QED
      BY <1>2, <3>2, <3>3
  <2>5. BootLeaves'
    <3> SUFFICES ASSUME stage = "init", NEW p \in Pages, Leaf(p)' # None
                 PROVE  \E g \in DOMAIN boot : Covers(boot[g], Leaf(p)'.level, p \div Block(Leaf(p)'.level))
      BY <1>1 DEF BootLeaves
    <3>1. CASE InBlock(p)
      <4>1. PICK g \in DOMAIN boot : boot[g].va = req.va /\ boot[g].sz = req.sz
        BY <1>2 DEF Mapping
      <4>2. Covers(boot[g], level, va \div b)
        BY <2>1, <4>1 DEF Covers
      <4>3. QED
        BY <2>2, <3>1, <4>2
    <3>2. CASE ~InBlock(p)
      <4>1. Leaf(p)' = Leaf(p)
        BY <2>3, <3>2
      <4>2. Leaf(p) # None
        BY <4>1
      <4>3. QED
        BY <1>2, <4>1, <4>2 DEF BootLeaves
    <3>3. QED
      BY <3>1, <3>2
  <2>6. ASSUME busy' = "map" PROVE Mapping' /\ MapClear'
    <3>1. va' = va + b /\ pa' = pa + b
      BY <1>4, <2>6 DEF Advance, Return, Locals
    <3>2. Mapping'
      <4> DEFINE u == req.va
                 w == req.pa
      <4>1. u \in Nat /\ w \in Nat /\ pa = w + (va - u) /\ b \in Nat
        BY <1>2, <2>1 DEF Mapping
      <4>2. pa' = w + (va' - u)
        <5> HIDE DEF u, w, b
        <5>1. QED
          BY <2>1, <3>1, <4>1
      <4>3. QED
        BY <1>1, <1>2, <4>2 DEF Mapping
    <3>3. MapClear'
      <4> SUFFICES ASSUME NEW p \in Pages, p \in PagesOf(req), p >= va', Leaf(p)' # None
                   PROVE  \E l \in Levels : l <= Leaf(p)'.level /\ Covers(req, l, p \div Block(l))
        BY <1>1 DEF MapClear
      <4>1. p >= va + b /\ ~InBlock(p)
        BY <1>1, <1>2, <3>1, BlockInside
      <4>2. Leaf(p)' = Leaf(p)
        BY <2>3, <4>1
      <4>3. Leaf(p) # None
        BY <4>2
      <4>4. p >= va
        <5>1. p \in Nat
          BY PagesAre
        <5> HIDE DEF b
        <5>2. QED
          BY <2>1, <4>1, <5>1
      <4>5. QED
        BY <1>2, <4>2, <4>3, <4>4 DEF MapClear
    <3>4. QED
      BY <3>2, <3>3
  <2>7. QED
    BY <1>1, <1>2, <2>4, <2>5, <2>6 DEF Sees
<1>5. QED
  BY <1>3, <1>4, StoreChange DEF Return

\* mmu_unmap clears a descriptor.
LEMMA ClearSees ==
  ASSUME NEW T, Good(T), Sees, UnmapClear
  PROVE  Sees' /\ Asked
<1>1. busy = "unmap" /\ AtLeaf /\ req' = req /\ root' = root /\ enabled' = enabled /\ stage' = stage /\ boot' = boot
  BY DEF UnmapClear, busVars, stageVars
<1>2. CallTyped /\ CallInv /\ req.call = "unmap" /\ BootLeaves /\ (enabled => stage = "up")
  BY <1>1, CallGood DEF Sees, CallInv
<1>3. CASE busy' = "idle" /\ \A p \in Pages : Leaf(p)' = Leaf(p)
  BY <1>1, <1>2, <1>3, SeesKept, AskedKept
<1>4. CASE /\ busy' = "back"
           /\ \A p \in Pages : IF InBlock(p) THEN Leaf(p)' = None ELSE Leaf(p)' = Leaf(p)
  <2>1. Asked
    <3> SUFFICES ASSUME NEW p \in Pages, Frame(p)' # Frame(p)
                 PROVE  req # None /\ p \in PagesOf(req) /\ req.call # "map" /\ Frame(p)' = None
      BY DEF Asked
    <3>1. InBlock(p)
      BY <1>4 DEF Frame
    <3>2. Frame(p)' = None /\ p \in PagesOf(req)
      BY <1>1, <1>2, <1>4, <3>1, BlockInside DEF Frame
    <3>3. req # None
      BY <1>2, TablesAssumption DEF CallInv
    <3>4. QED
      BY <1>2, <3>2, <3>3
  <2>2. BootLeaves'
    <3> SUFFICES ASSUME stage = "init", NEW p \in Pages, Leaf(p)' # None
                 PROVE  \E g \in DOMAIN boot : Covers(boot[g], Leaf(p)'.level, p \div Block(Leaf(p)'.level))
      BY <1>1 DEF BootLeaves
    <3>1. Leaf(p)' = Leaf(p)
      BY <1>4
    <3>2. Leaf(p) # None
      BY <3>1
    <3>3. QED
      BY <1>2, <3>1, <3>2 DEF BootLeaves
  <2>3. QED
    BY <1>1, <1>2, <1>4, <2>1, <2>2 DEF Sees
<1>5. QED
  BY <1>3, <1>4, ClearChange DEF Return

-----------------------------------------------------------------------------
(* The other steps show nothing, and the invariant is kept                  *)

\* mmu_map is called for a region that is not inside a mapped block.
LEMMA MapCalled ==
  ASSUME NEW T, Good(T), root # None, UNCHANGED tableVars, NEW r \in Regions, r \in AllRegions, Call("map", r),
         \A p \in Pages : p \in PagesOf(r) /\ Leaf(p) # None =>
           \E l \in Levels : l <= Leaf(p).level /\ Covers(r, l, p \div Block(l)),
         stage' = "init" => r \in {boot'[g] : g \in DOMAIN boot'}
  PROVE  Mapping' /\ MapClear'
<1>1. /\ req' = [call |-> "map", va |-> r.va, pa |-> r.pa, sz |-> r.sz] /\ va' = r.va /\ pa' = r.pa
      /\ mem' = mem /\ root' = root
  BY DEF Call, Locals, tableVars
<1>2. req'.va = r.va /\ req'.pa = r.pa /\ req'.sz = r.sz
  BY <1>1
<1>3. r.va \in Nat /\ r.pa \in Nat
  <2>1. r.va \in Pages /\ r.pa \in Nat
    BY DEF Regions
  <2>2. QED
    BY <2>1, PagesAre
<1>4. Mapping'
  <2>1. pa' = req'.pa + (va' - req'.va)
    BY <1>1, <1>2, <1>3
  <2>2. \E s \in AllRegions : s.va = req'.va /\ s.pa = req'.pa /\ s.sz = req'.sz
    BY <1>2
  <2>3. stage' = "init" => \E g \in DOMAIN boot' : boot'[g].va = req'.va /\ boot'[g].sz = req'.sz
    BY <1>2
  <2>4. AllRegions' = AllRegions
    BY DEF AllRegions
  <2>5. QED
    BY <2>1, <2>2, <2>3, <2>4 DEF Mapping
<1>5. MapClear'
  <2> SUFFICES ASSUME NEW p \in Pages, p \in PagesOf(req'), Leaf(p)' # None
               PROVE  \E l \in Levels : l <= Leaf(p)'.level /\ Covers(req', l, p \div Block(l))
    BY DEF MapClear
  <2>1. Leaf(p)' = Leaf(p)
    BY <1>1 DEF Leaf
  <2>2. p \in PagesOf(r)
    BY <1>2 DEF PagesOf
  <2>3. Leaf(p) # None
    BY <2>1
  <2>4. PICK l \in Levels : l <= Leaf(p).level /\ Covers(r, l, p \div Block(l))
    BY <2>2, <2>3
  <2>5. Covers(req', l, p \div Block(l))
    BY <1>2, <2>4 DEF Covers
  <2>6. QED
    BY <2>1, <2>4, <2>5
<1>6. QED
  BY <1>4, <1>5

\* What remains to be shown of the call.
LEMMA CalledSees ==
  ASSUME Sees, UNCHANGED tableVars, UNCHANGED busVars, UNCHANGED stageVars, busy' = "map" => Mapping' /\ MapClear'
  PROVE  Sees' /\ Asked
<1>1. mem' = mem /\ root' = root /\ enabled' = enabled /\ stage' = stage /\ boot' = boot
  BY DEF tableVars, busVars, stageVars
<1>2. \A p \in Pages : Leaf(p)' = Leaf(p)
  BY <1>1 DEF Leaf
<1>3. BootLeaves'
  <2> SUFFICES ASSUME stage = "init", NEW p \in Pages, Leaf(p)' # None
               PROVE  \E g \in DOMAIN boot : Covers(boot[g], Leaf(p)'.level, p \div Block(Leaf(p)'.level))
    BY <1>1 DEF BootLeaves
  <2>1. Leaf(p)' = Leaf(p)
    BY <1>2
  <2>2. Leaf(p) # None
    BY <2>1
  <2>3. QED
    BY <2>1, <2>2 DEF Sees, BootLeaves
<1>4. QED
  BY <1>1, <1>2, <1>3, AskedKept DEF Sees

\* rt_mmu_init maps the next region of its list: other regions of the list are not in the
\* way, since they have no block where it needs a table.
LEMMA CallBootSees ==
  ASSUME Supported, NEW T, Good(T), Sees, CallBoot
  PROVE  Sees' /\ Asked
<1>1. /\ busy = "start" /\ Call(IF stage = "init" THEN "map" ELSE "unmap", boot[nth])
      /\ UNCHANGED tableVars /\ UNCHANGED busVars /\ UNCHANGED stageVars
  BY DEF CallBoot
<1>2. StageTyped /\ root # None /\ nth # 0
  BY <1>1 DEF Good, StageInv
<1>3. boot \in BootLists /\ nth \in 1 .. Len(boot)
  BY <1>2, RegionsAre DEF StageTyped
<1>4. boot[nth] \in Regions /\ boot[nth] \in AllRegions /\ nth \in DOMAIN boot
  BY <1>3, RegionsAre
<1>5. ASSUME busy' = "map" PROVE Mapping' /\ MapClear'
  <2> DEFINE r == boot[nth]
  <2>1. stage = "init" /\ Call("map", r)
    BY <1>1, <1>5 DEF Call
  <2>2. r \in Regions /\ r \in AllRegions
    BY <1>4
  <2>3. ASSUME NEW p \in Pages, p \in PagesOf(r), Leaf(p) # None
        PROVE  \E l \in Levels : l <= Leaf(p).level /\ Covers(r, l, p \div Block(l))
    <3> DEFINE k == Leaf(p).level
               o == p \div Block(k)
    <3>1. k \in Levels
      BY <1>2, <2>3, LeafLevel
    <3>2. PICK g \in DOMAIN boot : Covers(boot[g], k, o)
      BY <2>1, <2>3 DEF Sees, BootLeaves
    <3> SUFFICES ASSUME ~Covers(r, k, o) PROVE FALSE
      <4>1. k \in Levels /\ k <= k
        <5>1. k \in Levels /\ k \in Nat
          BY <3>1, PowersAre
        <5> HIDE DEF k
        <5>2. QED
          BY <5>1
      <4>2. QED
        BY <4>1
    <3>3. k # MaxLevel
      BY <2>2, <2>3, LevelInIs
    <3>4. k + 1 \in Levels \ {FirstLevel} /\ (k + 1) - 1 = k
      BY <3>1, <3>3, TablesAssumption DEF Levels
    <3>5. o \in Pages
      BY <3>1, IndexIs
    <3> DEFINE q == <<k + 1, o>>
    <3>6. q \in (Levels \ {FirstLevel}) \X Pages /\ q[1] = k + 1 /\ q[2] = o /\ q[1] - 1 = k
      <4> DEFINE d == k + 1
                 A == Levels \ {FirstLevel}
      <4>1. d \in A /\ d - 1 = k
        BY <3>4
      <4> HIDE DEF d, A, o
      <4>2. <<d, o>> \in A \X Pages /\ <<d, o>>[1] = d /\ <<d, o>>[2] = o
        BY <3>5, <4>1
      <4>3. QED
        BY <4>1, <4>2 DEF d, A
    <3>7. \E s \in PagesOf(r) : q[2] = s \div Block(q[1] - 1)
      BY <2>3, <3>6
    <3>8. ~Covers(r, q[1] - 1, q[2])
      BY <3>6
    <3> HIDE DEF q
    <3>9. q \in Needed
      <4> HIDE DEF r
      <4>1. QED
        BY <2>2, <3>6, <3>7, <3>8 DEF Needed
    <3>10. ~Covers(boot[g], q[1] - 1, q[2])
      BY <1>3, <3>6, <3>9 DEF Supported
    <3>11. QED
      BY <3>2, <3>6, <3>10
  <2>4. stage' = "init" => r \in {boot'[g] : g \in DOMAIN boot'}
    BY <1>1, <1>4 DEF stageVars
  <2>5. QED
    <3> HIDE DEF r
    <3>1. QED
      BY <1>1, <1>2, <2>1, <2>2, <2>3, <2>4, MapCalled
<1>6. QED
  BY <1>1, <1>5, CalledSees

\* A client maps or unmaps.
LEMMA RtCallSees ==
  ASSUME Supported, NEW T, Good(T), Sees, NEW r \in Requests, RtMap(r) \/ RtUnmap(r)
  PROVE  Sees' /\ Asked
<1>1. UNCHANGED tableVars /\ UNCHANGED busVars /\ UNCHANGED stageVars /\ stage = "up"
  BY DEF RtMap, RtUnmap
<1>2. root # None /\ r \in Regions /\ r \in AllRegions
  BY <1>1, RegionsAre DEF Good, StageInv
<1>3. ASSUME busy' = "map" PROVE Mapping' /\ MapClear'
  <2>1. Call("map", r) /\ ~IntoBlock(r)
    BY <1>3 DEF RtMap, RtUnmap, Call, Supported
  <2>2. ASSUME NEW p \in Pages, p \in PagesOf(r), Leaf(p) # None
        PROVE  \E l \in Levels : l <= Leaf(p).level /\ Covers(r, l, p \div Block(l))
    <3> DEFINE l == LevelIn(r, p)
               k == Leaf(p).level
    <3>1. l \in Levels /\ Covers(r, l, p \div Block(l))
      BY <1>2, <2>2, LevelInIs
    <3>2. ~(k < l)
      BY <2>1, <2>2 DEF IntoBlock
    <3>3. k \in Levels
      BY <1>2, <2>2, LeafLevel
    <3>4. l <= k
      <4>1. k \in Nat /\ l \in Nat
        BY <3>1, <3>3, PowersAre
      <4> HIDE DEF k, l
      <4>2. QED
        BY <3>2, <4>1
    <3>5. QED
      BY <3>1, <3>4
  <2>3. stage' # "init"
    BY <1>1 DEF stageVars
  <2>4. QED
    BY <1>1, <1>2, <2>1, <2>2, <2>3, MapCalled
<1>4. QED
  BY <1>1, <1>3, CalledSees

\* The empty tables of a new context.
LEMMA RtInitSees ==
  ASSUME NEW T, Good(T), Sees, RtInit
  PROVE  Sees' /\ Asked
<1>1. /\ stage = "down" /\ mem' = [a \in Tables |-> NoDescs]
      /\ enabled' = FALSE /\ stage' = "init" /\ busy' = "start"
  BY DEF RtInit
<1>2. PICK U : Good(U)'
  BY RtInitStep
<1>3. root = None /\ root' # None /\ root' \in Tables
  BY <1>1, <1>2 DEF Good, StageInv, TablesTyped
<1>4. Tree(mem', root', U) /\ U \subseteq TableRecs /\ Typed(mem')
  BY <1>2, <1>3 DEF Good, Stored, TablesTyped, Typed
<1>5. ASSUME NEW p \in Pages PROVE Leaf(p) = None /\ Leaf(p)' = None
  <2> DEFINE t == RootTable(root')
  <2>1. t \in U /\ t.level = FirstLevel /\ t.addr = root'
    BY <1>4 DEF Tree, RootTable
  <2>2. FirstLevel \in Levels
    BY PowersAre
  <2> HIDE DEF t
  <2>3. mem'[t.addr][Index(t.level, p)] = None
    BY <1>1, <1>3, <2>1, <2>2, IndexIs DEF NoDescs
  <2>4. On(t, p) /\ Ends(mem', t, p)
    BY <2>1, <2>3 DEF On, Ends, IsTable
  <2>5. Walked(mem', root', p) = Result(mem', t, p)
    BY <1>4, <2>1, <2>4, WalkAt DEF Result
  <2>6. Walked(mem', root', p) = None
    BY <2>3, <2>5 DEF Result
  <2>7. QED
    BY <1>3, <2>6 DEF Leaf
<1>6. BootLeaves'
  BY <1>5 DEF BootLeaves
<1>7. Asked
  BY <1>5, AskedKept
<1>8. QED
  BY <1>1, <1>6, <1>7 DEF Sees

\* The context is taken away when the SMMU does not translate.
LEMMA DestroySees ==
  ASSUME Sees, ContextDestroy
  PROVE  Sees' /\ Asked
<1>1. /\ busy = "idle" /\ stage \in {"undo", "deinit"} /\ root' = None /\ stage' = "destroy"
      /\ enabled' = enabled /\ busy' = busy
  BY DEF ContextDestroy, Idle, callVars
<1>2. ~enabled
  BY <1>1 DEF Sees
<1>3. Asked
  BY <1>1, <1>2 DEF Asked
<1>4. QED
  BY <1>1, <1>2, <1>3 DEF Sees, BootLeaves

\* The other steps change nothing of what is found.
LEMMA OthersSee ==
  ASSUME Supported, EntryLeft, NEW T, Good(T), Sees,
         \/ MapDescend \/ UnmapDescend \/ MapGrow \/ UnmapBack
         \/ InitNext \/ RtDeinit \/ UndoNext \/ FreeTable \/ Destroy \/ UNCHANGED mmuVars
  PROVE  Sees' /\ Asked
<1>0. enabled => stage = "up"
  BY DEF Sees
<1>1. CASE MapDescend
  <2>1. UNCHANGED <<mem, root, enabled, stage, boot, busy, req, va, pa>>
    BY <1>1 DEF MapDescend, tableVars, busVars, stageVars
  <2>2. \A p \in Pages : Leaf(p)' = Leaf(p)
    BY <2>1 DEF Leaf
  <2>3. QED
    BY <1>0, <2>1, <2>2, SeesKept, AskedKept
<1>2. CASE UnmapDescend
  <2>1. UNCHANGED <<mem, root, enabled, stage, boot>> /\ busy' # "map"
    BY <1>2 DEF UnmapDescend, tableVars, busVars, stageVars, Return
  <2>2. \A p \in Pages : Leaf(p)' = Leaf(p)
    BY <2>1 DEF Leaf
  <2>3. QED
    BY <1>0, <2>1, <2>2, SeesKept, AskedKept
<1>3. CASE MapGrow
  <2>1. UNCHANGED <<enabled, stage, boot>> /\ busy = "map"
    BY <1>3 DEF MapGrow, busVars, stageVars
  <2>2. UNCHANGED <<busy, req, va, pa>> /\ \A p \in Pages : Leaf(p)' = Leaf(p)
    BY <1>3, <2>1, GrowChange DEF Sees
  <2>3. QED
    BY <1>0, <2>1, <2>2, SeesKept, AskedKept
<1>4. CASE UnmapBack
  <2>1. UNCHANGED <<enabled, stage, boot>>
    BY <1>4 DEF UnmapBack, busVars, stageVars
  <2>2. busy' # "map" /\ \A p \in Pages : Leaf(p)' = Leaf(p)
    BY <1>4, BackChange
  <2>3. QED
    BY <1>0, <2>1, <2>2, SeesKept, AskedKept
<1>5. CASE InitNext
  <2>1. /\ mem' = mem /\ root' = root /\ boot' = boot /\ stage = "init" /\ busy' # "map"
        /\ enabled' => enabled \/ stage' = "up"
    BY <1>5 DEF InitNext, tableVars
  <2>2. \A p \in Pages : Leaf(p)' = Leaf(p)
    BY <2>1 DEF Leaf
  <2>3. QED
    BY <1>0, <2>1, <2>2, SeesKept, AskedKept
<1>6. CASE RtDeinit
  <2>1. mem' = mem /\ root' = root /\ ~enabled' /\ stage' = "deinit" /\ busy' = "start"
    BY <1>6 DEF RtDeinit, tableVars
  <2>2. \A p \in Pages : Leaf(p)' = Leaf(p)
    BY <2>1 DEF Leaf
  <2>3. QED
    BY <2>1, <2>2, SeesKept, AskedKept
<1>7. CASE UndoNext
  <2>1. UNCHANGED <<mem, root, enabled, stage, boot>> /\ busy' = "start"
    BY <1>7 DEF UndoNext, tableVars, busVars
  <2>2. \A p \in Pages : Leaf(p)' = Leaf(p)
    BY <2>1 DEF Leaf
  <2>3. QED
    BY <1>0, <2>1, <2>2, SeesKept, AskedKept
<1>8. CASE FreeTable \/ UNCHANGED mmuVars
  <2>1. UNCHANGED <<mem, root, enabled, stage, boot, busy, req, va, pa>>
    BY <1>8 DEF FreeTable, mmuVars, tableVars, busVars, stageVars, callVars
  <2>2. \A p \in Pages : Leaf(p)' = Leaf(p)
    BY <2>1 DEF Leaf
  <2>3. QED
    BY <1>0, <2>1, <2>2, SeesKept, AskedKept
<1>9. CASE Destroy
  <2>1. stage = "destroy" /\ stage' = "down" /\ UNCHANGED <<mem, root, enabled, boot, busy>>
    BY <1>9 DEF Destroy, tableVars, busVars, callVars
  <2>2. root = None
    BY <2>1 DEF Good, StageInv
  <2>3. busy = "idle"
    BY <2>2 DEF Good, StageInv
  <2>4. \A p \in Pages : Leaf(p)' = Leaf(p)
    BY <2>1 DEF Leaf
  <2>5. QED
    BY <1>0, <2>1, <2>3, <2>4, SeesKept, AskedKept
<1>10. QED
  BY <1>1, <1>2, <1>3, <1>4, <1>5, <1>6, <1>7, <1>8, <1>9

\* At the start nothing is mapped, and nothing is under way.
LEMMA SeesInit ==
  ASSUME MmuInit
  PROVE  Sees
BY DEF MmuInit, Sees, BootLeaves

\* Each step keeps that, and shows only what was asked for.
LEMMA SeesStep ==
  ASSUME Supported, EntryLeft, FramesFit, NEW T, Good(T), Sees, [MmuNext]_mmuVars
  PROVE  Sees' /\ Asked
<1>1. CASE Run
  BY <1>1, StoreSees, ClearSees, OthersSee DEF Run
<1>2. CASE Glue
  BY <1>2, CallBootSees, DestroySees, OthersSee DEF Glue
<1>3. CASE RtInit \/ RtDeinit
  BY <1>3, RtInitSees, OthersSee
<1>4. CASE \E r \in Requests : RtMap(r) \/ RtUnmap(r)
  BY <1>4, RtCallSees
<1>5. CASE UNCHANGED mmuVars
  BY <1>5, OthersSee
<1>6. QED
  BY <1>1, <1>2, <1>3, <1>4, <1>5 DEF MmuNext

\* For any sizes, lists and requests that are Supported and FramesFit, up to the moment that
\* free_blocks[] is full, the SMMU sees a page change only from unmapped to the frame asked for,
\* by mmu_map of a region it is in, or to unmapped, by mmu_unmap of one, whatever store comes
\* next and whatever tables are allocated, linked, unlinked and freed for it.
THEOREM ChangesAsked == Supported /\ FramesFit => (MmuSpec /\ []EntryLeft => OnlyRequested)
<1> SUFFICES ASSUME Supported, FramesFit PROVE MmuSpec /\ []EntryLeft => OnlyRequested
  OBVIOUS
<1>1. MmuInit => (\E T : Good(T)) /\ Sees
  BY GoodInit, SeesInit
<1>2. (\E T : Good(T)) /\ Sees /\ EntryLeft /\ [MmuNext]_mmuVars => (\E T : Good(T))' /\ Sees' /\ Asked
  BY GoodStep, SeesStep
<1>3. Asked => [Asked]_<<mem, root>>
  OBVIOUS
<1>4. QED
  BY <1>1, <1>2, <1>3, PTL DEF MmuSpec, OnlyRequested, Asked

-----------------------------------------------------------------------------
(* What a call has done when it succeeds                                    *)

\* What the call in progress has done: the pages before Past are as it is asked.
Asking(p) == IF req.call = "map" THEN req.pa + (p - req.va) ELSE None
Past == IF busy = "back" THEN va + Block(level) ELSE va
Done ==
  busy \in {"map", "unmap", "back"} =>
    \A p \in Pages : p \in PagesOf(req) /\ p < Past => Frame(p) = Asking(p)

\* The pages from va on, by the size of the block.
LEMMA BlockIs ==
  ASSUME CallTyped, CallInv, AtLeaf, NEW p \in Pages, va <= p, p < va + Block(level)
  PROVE  InBlock(p)
<1> DEFINE b == Block(level)
           q == va \div b
<1>1. va % b = 0 /\ b \in Nat \ {0} /\ va \in Nat /\ p \in Nat /\ va <= p /\ p < va + b
  BY BlockInside, CallAt, PagesAre
<1>2. q \in Nat /\ va = q * b + (va % b)
  <2> HIDE DEF b
  <2>1. QED
    BY <1>1, DivMod
<1> HIDE DEF q, b
<1> DEFINE z == q * b
           x == p - va
<1>3. z \in Nat /\ va = z
  <2>1. z \in Nat
    BY <1>1, <1>2
  <2>2. va = z + (va % b)
    BY <1>2
  <2> HIDE DEF z
  <2>3. QED
    BY <1>1, <2>1, <2>2
<1>4. x \in 0 .. (b - 1) /\ p = z + x
  <2> HIDE DEF z
  <2>1. QED
    BY <1>1, <1>3
<1> HIDE DEF x
<1>5. p \div b = q
  <2>1. p = q * b + x
    BY <1>4
  <2> HIDE DEF z
  <2>2. QED
    BY <1>1, <1>2, <1>4, <2>1, QuotIs
<1>6. QED
  BY <1>5 DEF InBlock, q, b

\* The next page or block, when the one before is done.
LEMMA AdvanceDone ==
  ASSUME CallTyped, CallInv, AtLeaf, Advance(Block(level)), req' = req,
         \A p \in Pages : p \in PagesOf(req) /\ p < va + Block(level) => Frame(p)' = Asking(p)
  PROVE  Done' /\ Completed'
<1> DEFINE b == Block(level)
<1>1. /\ req.call \in {"map", "unmap"} /\ PagesOf(req) \subseteq Pages /\ va + sz = req.va + req.sz
      /\ va \in Nat /\ sz \in Nat /\ req.va \in Nat /\ req.sz \in Nat
  BY CallAt DEF CallInv, Calls
<1>2. CASE sz = b
  <2>1. busy' = "idle"
    BY <1>2 DEF Advance, Return
  <2>2. ASSUME NEW p \in PagesOf(req) PROVE Frame(p)' = Asking(p)
    <3>1. p \in Pages
      BY <1>1, <2>2
    <3>2. p < va + b
      <4> DEFINE u == req.va
                 w == req.sz
      <4>1. p \in u .. (u + w - 1) /\ u \in Nat /\ w \in Nat /\ va + sz = u + w
        BY <1>1, <2>2 DEF PagesOf
      <4> HIDE DEF u, w, b
      <4>2. QED
        BY <1>1, <1>2, <4>1
    <3>3. QED
      BY <2>2, <3>1, <3>2
  <2>3. QED
    BY <2>1, <2>2 DEF Done, Completed, Asking
<1>3. CASE sz # b
  <2>1. busy' = req.call /\ va' = va + b
    BY <1>3 DEF Advance, Locals
  <2>2. Past' = va + b /\ busy' # "idle"
    BY <1>1, <2>1 DEF Past
  <2>3. QED
    BY <2>2 DEF Done, Completed, Idle, Asking
<1>4. QED
  BY <1>2, <1>3

\* mmu_map stores a descriptor.
LEMMA StoreDone ==
  ASSUME FramesFit, NEW T, Good(T), Sees, Done, MapStore
  PROVE  Done' /\ Completed'
<1>1. busy = "map" /\ AtLeaf /\ req' = req
  BY DEF MapStore
<1>2. CallTyped /\ CallInv /\ req.call = "map" /\ Mapping
  BY <1>1, CallGood DEF Sees, CallInv
<1>3. CASE Desc # None
  BY <1>3 DEF MapStore, Return, Done, Completed
<1>4. CASE Desc = None
  <2>1. Advance(Block(level))
    BY <1>4 DEF MapStore
  <2>2. ASSUME NEW p \in Pages, p \in PagesOf(req), p < va + Block(level) PROVE Frame(p)' = Asking(p)
    <3>1. \A q \in Pages : IF InBlock(q) THEN Leaf(q)' = LeafAt(level, LeafDesc(pa), q) ELSE Leaf(q)' = Leaf(q)
      BY <1>4, StoreChange
    <3>2. CASE InBlock(p)
      <4>1. LeafAt(level, LeafDesc(pa), p) # None /\ LeafAt(level, LeafDesc(pa), p).frame = req.pa + (p - req.va)
        BY <1>1, <1>2, <3>2, FramesAre
      <4>2. Leaf(p)' = LeafAt(level, LeafDesc(pa), p)
        BY <3>1, <3>2
      <4>3. QED
        BY <1>2, <4>1, <4>2 DEF Frame, Asking
    <3>3. CASE ~InBlock(p)
      <4>1. Leaf(p)' = Leaf(p)
        BY <3>1, <3>3
      <4>2. p < va
        <5>1. ~(va <= p)
          BY <1>1, <1>2, <2>2, <3>3, BlockIs
        <5>2. p \in Nat /\ va \in Nat
          BY <1>2, PagesAre, CallAt
        <5>3. QED
          BY <5>1, <5>2
      <4>3. Frame(p) = Asking(p)
        BY <1>1, <2>2, <4>2 DEF Done, Past
      <4>4. QED
        BY <4>1, <4>3 DEF Frame
    <3>4. QED
      BY <3>2, <3>3
  <2>3. QED
    BY <1>1, <1>2, <2>1, <2>2, AdvanceDone
<1>5. QED
  BY <1>3, <1>4

\* mmu_unmap clears a descriptor.
LEMMA ClearDone ==
  ASSUME NEW T, Good(T), Done, UnmapClear
  PROVE  Done' /\ Completed'
<1>1. busy = "unmap" /\ AtLeaf /\ req' = req
  BY DEF UnmapClear
<1>2. CallTyped /\ CallInv /\ req.call = "unmap"
  BY <1>1, CallGood DEF CallInv
<1>3. CASE Return(-1)
  BY <1>3 DEF Return, Done, Completed
<1>4. CASE /\ busy' = "back" /\ UNCHANGED <<req, va, sz, level>>
           /\ \A p \in Pages : IF InBlock(p) THEN Leaf(p)' = None ELSE Leaf(p)' = Leaf(p)
  <2>1. Past' = va + Block(level)
    BY <1>4 DEF Past
  <2>2. ASSUME NEW p \in Pages, p \in PagesOf(req), p < va + Block(level) PROVE Frame(p)' = Asking(p)
    <3>1. CASE InBlock(p)
      BY <1>2, <1>4, <3>1 DEF Frame, Asking
    <3>2. CASE ~InBlock(p)
      <4>1. Leaf(p)' = Leaf(p)
        BY <1>4, <3>2
      <4>2. p < va
        <5>1. ~(va <= p)
          BY <1>1, <1>2, <2>2, <3>2, BlockIs
        <5>2. p \in Nat /\ va \in Nat
          BY <1>2, PagesAre, CallAt
        <5>3. QED
          BY <5>1, <5>2
      <4>3. Frame(p) = Asking(p)
        BY <1>1, <2>2, <4>2 DEF Done, Past
      <4>4. QED
        BY <4>1, <4>3 DEF Frame
    <3>3. QED
      BY <3>1, <3>2
  <2>3. QED
    BY <1>4, <2>1, <2>2 DEF Done, Completed, Idle, Asking
<1>5. QED
  BY <1>3, <1>4, ClearChange

\* mmu_unmap is on the way back, or goes on.
LEMMA BackDone ==
  ASSUME Supported, EntryLeft, NEW T, Good(T), Done, UnmapBack
  PROVE  Done' /\ Completed'
<1>1. busy = "back" /\ req' = req
  BY DEF UnmapBack
<1>2. CallTyped /\ CallInv /\ AtLeaf
  BY <1>1, CallGood DEF CallInv
<1>3. \A p \in Pages : Leaf(p)' = Leaf(p)
  BY BackChange
<1>4. Advance(Block(level)) \/ UNCHANGED <<busy, va, level>>
  <2>1. PICK U : Stays(T, U) \/ Prunes(T, U)
    BY UnmapBackStep
  <2>2. CASE Prunes(T, U)
    <3>1. busy' = busy
      BY <2>2 DEF Prunes
    <3>2. QED
      BY <1>1, <3>1 DEF UnmapBack, Return, AdvanceFrom
  <2>3. QED
    BY <2>1, <2>2 DEF Stays
<1>5. CASE Advance(Block(level))
  <2>1. \A p \in Pages : p \in PagesOf(req) /\ p < va + Block(level) => Frame(p)' = Asking(p)
    BY <1>1, <1>3 DEF Done, Past, Frame
  <2>2. QED
    BY <1>1, <1>2, <1>5, <2>1, AdvanceDone
<1>6. CASE UNCHANGED <<busy, va, level>>
  <2>1. Past' = Past
    BY <1>6 DEF Past
  <2>2. \A p \in Pages : Frame(p)' = Frame(p) /\ Asking(p)' = Asking(p)
    BY <1>1, <1>3 DEF Frame, Asking
  <2>3. QED
    BY <1>1, <1>6, <2>1, <2>2 DEF Done, Completed, Idle
<1>7. QED
  BY <1>4, <1>5, <1>6

\* A call starts with its first page.
LEMMA CallDone ==
  ASSUME NEW f \in {"map", "unmap"}, NEW r \in Regions, Call(f, r)
  PROVE  Done' /\ Completed'
<1>1. busy' = f /\ va' = r.va /\ req' = [call |-> f, va |-> r.va, pa |-> r.pa, sz |-> r.sz]
  BY DEF Call, Locals
<1>2. Past' = r.va /\ r.va \in Nat /\ r.sz \in Nat
  <2>1. r.va \in Pages /\ r.sz \in Nat
    BY DEF Regions
  <2>2. Past' = r.va
    BY <1>1 DEF Past
  <2>3. QED
    BY <2>1, <2>2, PagesAre
<1>3. ASSUME NEW p \in PagesOf(req') PROVE ~(p < Past')
  <2>1. req'.va = r.va /\ req'.sz = r.sz
    BY <1>1
  <2>2. p \in r.va .. (r.va + r.sz - 1)
    BY <1>3, <2>1 DEF PagesOf
  <2> DEFINE u == r.va
             w == r.sz
  <2>3. p \in u .. (u + w - 1) /\ u \in Nat /\ w \in Nat
    BY <1>2, <2>2
  <2> HIDE DEF u, w
  <2>4. ~(p < u)
    BY <2>3
  <2>5. QED
    BY <1>2, <2>4 DEF u
<1>4. QED
  BY <1>1, <1>3 DEF Done, Completed, Idle

\* Between the calls, the tables and the result of the last one stay.
LEMMA IdleDone ==
  ASSUME Completed, busy' \in {"idle", "start"},
         busy' = "idle" => busy = "idle" /\ UNCHANGED <<mem, req, rc>> /\ root' \in {root, None}
  PROVE  Done' /\ Completed'
<1>1. Done'
  BY DEF Done
<1>2. CASE busy' = "idle" /\ root' # None
  <2>1. busy = "idle" /\ mem' = mem /\ root' = root /\ req' = req /\ rc' = rc
    BY <1>2
  <2>2. \A p : Frame(p)' = Frame(p)
    BY <2>1 DEF Frame, Leaf
  <2>3. QED
    BY <1>1, <1>2, <2>1, <2>2 DEF Completed, Idle
<1>3. CASE busy' # "idle" \/ root' = None
  BY <1>1, <1>3 DEF Completed, Idle
<1>4. QED
  BY <1>2, <1>3

\* Each step of the calls and around them.
LEMMA DoneStep ==
  ASSUME Supported, EntryLeft, FramesFit, NEW T, Good(T), Sees, Done, Completed, [MmuNext]_mmuVars
  PROVE  Done' /\ Completed'
<1>1. CASE MapDescend
  <2>1. UNCHANGED <<mem, root, busy, req, va>> /\ busy = "map" /\ level' = level + 1
    BY <1>1 DEF MapDescend, tableVars, Descend
  <2>2. \A p : Frame(p)' = Frame(p) /\ Asking(p)' = Asking(p)
    BY <2>1 DEF Frame, Leaf, Asking
  <2>3. Past' = va /\ Past = va
    BY <2>1 DEF Past
  <2>4. QED
    BY <2>1, <2>2, <2>3 DEF Done, Completed, Idle
<1>2. CASE UnmapDescend
  <2>1. CASE Return(-1)
    BY <2>1 DEF Return, Done, Completed
  <2>2. CASE UNCHANGED <<busy, va>>
    <3>1. UNCHANGED <<mem, root, busy, req, va>> /\ busy = "unmap"
      BY <1>2, <2>2 DEF UnmapDescend, tableVars
    <3>2. \A p : Frame(p)' = Frame(p) /\ Asking(p)' = Asking(p)
      BY <3>1 DEF Frame, Leaf, Asking
    <3>3. Past' = va /\ Past = va
      BY <3>1 DEF Past
    <3>4. QED
      BY <3>1, <3>2, <3>3 DEF Done, Completed, Idle
  <2>3. QED
    BY <1>2, <2>1, <2>2 DEF UnmapDescend
<1>3. CASE MapGrow
  <2>1. busy = "map"
    BY <1>3 DEF MapGrow
  <2>2. UNCHANGED <<busy, req, va>> /\ \A p \in Pages : Leaf(p)' = Leaf(p)
    BY <1>3, <2>1, GrowChange DEF Sees
  <2>3. Past' = va /\ Past = va
    BY <2>1, <2>2 DEF Past
  <2>4. \A p \in Pages : Frame(p)' = Frame(p) /\ Asking(p)' = Asking(p)
    BY <2>2 DEF Frame, Asking
  <2>5. QED
    BY <2>1, <2>2, <2>3, <2>4 DEF Done, Completed, Idle
<1>4. CASE MapStore \/ UnmapClear \/ UnmapBack
  BY <1>4, StoreDone, ClearDone, BackDone
<1>5. CASE CallBoot
  <2>1. busy = "start" /\ StageTyped /\ nth # 0 /\ Call(IF stage = "init" THEN "map" ELSE "unmap", boot[nth])
    BY <1>5 DEF CallBoot, Good, StageInv
  <2>2. nth \in 1 .. Len(boot) /\ boot \in BootLists
    BY <2>1, RegionsAre DEF StageTyped
  <2>3. boot[nth] \in Regions
    BY <2>2, RegionsAre
  <2>4. QED
    BY <2>1, <2>3, CallDone
<1>6. CASE \E r \in Requests : RtMap(r) \/ RtUnmap(r)
  <2>1. PICK r \in Requests : RtMap(r) \/ RtUnmap(r)
    BY <1>6
  <2>2. r \in Regions
    BY RegionsAre
  <2>3. QED
    BY <2>1, <2>2, CallDone DEF RtMap, RtUnmap
<1>7. CASE InitNext \/ RtDeinit \/ UndoNext \/ ContextDestroy \/ RtInit
  <2>1. CASE InitNext
    BY <2>1, IdleDone DEF InitNext, Idle, tableVars
  <2>2. CASE RtDeinit
    BY <2>2, IdleDone DEF RtDeinit
  <2>3. CASE UndoNext
    BY <2>3, IdleDone DEF UndoNext
  <2>4. CASE ContextDestroy
    BY <2>4, IdleDone DEF ContextDestroy, Idle, callVars
  <2>5. CASE RtInit
    BY <2>5, IdleDone DEF RtInit
  <2>6. QED
    BY <1>7, <2>1, <2>2, <2>3, <2>4, <2>5
<1>8. CASE FreeTable \/ Destroy
  <2>1. stage = "destroy" /\ UNCHANGED <<mem, root, busy, req, rc>>
    BY <1>8 DEF FreeTable, Destroy, tableVars, callVars
  <2>2. root = None
    BY <2>1 DEF Good, StageInv
  <2>3. busy = "idle"
    BY <2>2 DEF Good, StageInv
  <2>4. QED
    BY <2>1, <2>3, IdleDone
<1>9. CASE UNCHANGED mmuVars
  <2>1. UNCHANGED <<mem, root, busy, req, rc, va, level>>
    BY <1>9 DEF mmuVars, tableVars, callVars
  <2>2. (\A p : Frame(p)' = Frame(p) /\ Asking(p)' = Asking(p)) /\ Past' = Past
    BY <2>1 DEF Frame, Leaf, Asking, Past
  <2>3. QED
    BY <2>1, <2>2 DEF Done, Completed, Idle
<1>10. QED
  BY <1>1, <1>2, <1>3, <1>4, <1>5, <1>6, <1>7, <1>8, <1>9 DEF MmuNext, Run, Glue

-----------------------------------------------------------------------------
(* No table in use is empty                                                 *)

\* Table t has a descriptor.
Filled(m, t) == t.level = FirstLevel \/ \E s \in Slots(t.level) : m[t.addr][s] # None

\* The tables have descriptors, but for the one that mmu_map has just linked, or mmu_unmap
\* is going to free.
UsedTables ==
  root # None => \A t \in InUse : Filled(mem, t) \/ (busy \in {"map", "back"} /\ t.addr = pt)

\* The tables in use are those of T.
LEMMA InUseIs ==
  ASSUME NEW T, Good(T), root # None
  PROVE  InUse = T
<1>1. T \subseteq TableRecs /\ Tree(mem, root, T)
  BY DEF Good, Stored
<1>2. QED
  BY <1>1, TreeIs DEF InUse

\* The same, of the tables after a step.
LEMMA InUseNext ==
  ASSUME NEW U, Good(U)', root' # None
  PROVE  InUse' = U
<1>1. U \subseteq TableRecs /\ Tree(mem', root', U)
  BY DEF Good, Stored
<1>2. TablesFrom(mem', root') = U
  BY <1>1, TreeIs
<1>3. QED
  BY <1>2 DEF InUse

\* No step but those of the calls changes a table.
LEMMA UsedKept ==
  ASSUME UsedTables, root' # None => UNCHANGED <<mem, root>>,
         root # None => busy \notin {"map", "back"} \/ UNCHANGED <<busy, pt>>
  PROVE  UsedTables'
<1> SUFFICES ASSUME root' # None, NEW t \in InUse'
             PROVE  Filled(mem', t) \/ (busy' \in {"map", "back"} /\ t.addr = pt')
  BY DEF UsedTables
<1>1. mem' = mem /\ root' = root
  OBVIOUS
<1>2. t \in InUse
  BY <1>1 DEF InUse
<1>3. Filled(mem, t) \/ (busy \in {"map", "back"} /\ t.addr = pt)
  BY <1>1, <1>2 DEF UsedTables
<1>4. QED
  BY <1>1, <1>3

\* A descriptor that is there makes its table filled.
LEMMA FilledBy ==
  ASSUME CallTyped, NEW T, T \subseteq TableRecs, Apart(T), DownInv(T), CallInv, NEW m, m[pt][Index(level, va)] # None,
         NEW t \in T, t.addr = pt
  PROVE  Filled(m, t)
<1>1. PICK u \in T : u.addr = pt /\ u.level = level
  BY DEF DownInv
<1>2. t.level = level
  BY <1>1 DEF Apart
<1>3. Index(level, va) \in Slots(level)
  BY IndexIs, CallAt DEF CallTyped
<1>4. QED
  BY <1>2, <1>3 DEF Filled

\* mmu_map goes down, or finds a descriptor, or stores one.
LEMMA MapUsed ==
  ASSUME NEW T, Good(T), UsedTables, MapDescend \/ MapStore
  PROVE  UsedTables'
<1>1. busy = "map" /\ root' = root
  BY DEF MapDescend, MapStore, tableVars
<1>2. /\ root # None /\ T \subseteq TableRecs /\ Apart(T) /\ Tree(mem, root, T) /\ TablesTyped /\ CallTyped /\ CallInv /\ DownInv(T)
  BY <1>1, CallGood DEF Good, Calling
<1>3. Good(T)'
  BY MapDescendStep, MapStoreStep
<1>4. InUse = T /\ InUse' = T
  BY <1>1, <1>2, <1>3, InUseIs, InUseNext
<1> SUFFICES ASSUME NEW t \in T PROVE Filled(mem', t)
  BY <1>4 DEF UsedTables
<1>5. Filled(mem, t) \/ t.addr = pt
  BY <1>1, <1>2, <1>4 DEF UsedTables
<1>6. CASE mem' = mem /\ Desc # None
  <2>1. mem[pt][Index(level, va)] # None
    BY <1>6 DEF Desc
  <2>2. t.addr = pt => Filled(mem, t)
    BY <1>2, <2>1, FilledBy
  <2>3. QED
    BY <1>5, <1>6, <2>2
<1>7. CASE mem' = [mem EXCEPT ![pt][Index(level, va)] = LeafDesc(pa)]
  <2> DEFINE x == Index(level, va)
             d == LeafDesc(pa)
  <2>1. x \in 0 .. (PtAlign - 1) /\ pt \in Tables
    BY <1>2, AtDesc
  <2>2. d \in Descs \cup {None} /\ d # None
    BY <1>2, DescsAre DEF CallTyped
  <2> HIDE DEF x, d
  <2>3. \A b \in Tables, s \in 0 .. (PtAlign - 1) : mem'[b][s] = IF b = pt /\ s = x THEN d ELSE mem[b][s]
    <3>1. TablesTyped /\ mem' = [mem EXCEPT ![pt][x] = d]
      BY <1>2, <1>7 DEF x, d
    <3>2. QED
      BY <2>1, <2>2, <3>1, StoreIs
  <2>4. CASE t.addr = pt
    <3>1. mem'[pt][Index(level, va)] # None
      BY <2>1, <2>2, <2>3 DEF x
    <3>2. QED
      BY <1>2, <2>4, <3>1, FilledBy
  <2>5. CASE t.addr # pt
    <3>1. t.addr \in Tables /\ t.level \in Levels
      BY <1>2 DEF TableRecs
    <3>2. \A s \in Slots(t.level) : mem'[t.addr][s] = mem[t.addr][s]
      BY <2>3, <2>5, <3>1, SlotsAre
    <3>3. QED
      BY <1>5, <2>5, <3>2 DEF Filled
  <2>6. QED
    BY <2>4, <2>5
<1>8. QED
  <2>1. MapDescend => mem' = mem /\ Desc # None
    BY DEF MapDescend, tableVars, IsTable
  <2>2. MapStore => (mem' = mem /\ Desc # None) \/ mem' = [mem EXCEPT ![pt][Index(level, va)] = LeafDesc(pa)]
    BY DEF MapStore
  <2>3. QED
    BY <1>6, <1>7, <2>1, <2>2

\* mmu_map links a table.
LEMMA GrowUsed ==
  ASSUME Supported, EntryLeft, NEW T, Good(T), UsedTables, MapGrow
  PROVE  UsedTables'
<1>1. busy = "map" /\ root' = root
  BY DEF MapGrow
<1>2. /\ root # None /\ T \subseteq TableRecs /\ Apart(T) /\ TablesTyped /\ CallTyped /\ CallInv /\ DownInv(T)
  BY <1>1, CallGood DEF Good, Calling
<1>3. PICK U : Good(U)' /\ Grows(T, U)
  BY MapGrowStep
<1>4. PICK t \in T, b \in Tables :
        /\ t.addr = pt /\ t.level = level /\ (\A o \in T : o.addr # b) /\ pt' = b
        /\ Grown(mem, mem', b, pt, Index(level, va)) /\ U = T \cup {Child(t, Index(level, va), b)}
  BY <1>3 DEF Grows
<1>5. InUse = T /\ InUse' = U
  BY <1>1, <1>2, <1>3, InUseIs, InUseNext
<1>6. busy' = "map"
  <2>1. BallocAlloc(free, Size(level + 1), PtAlign).addr # None
    BY <1>1, GrowFinds DEF MapGrow
  <2>2. QED
    BY <1>1, <2>1 DEF MapGrow
<1> SUFFICES ASSUME NEW u \in U PROVE Filled(mem', u) \/ u.addr = pt'
  BY <1>5, <1>6 DEF UsedTables
<1>7. CASE u \notin T
  BY <1>4, <1>7 DEF Child
<1>8. CASE u \in T /\ u.addr = pt
  <2>1. mem'[pt][Index(level, va)] # None
    BY <1>4, DescsAre DEF Grown
  <2>2. QED
    BY <1>2, <1>8, <2>1, FilledBy
<1>9. CASE u \in T /\ u.addr # pt
  <2>1. u.addr \in Tables /\ u.level \in Levels /\ u.addr # b
    BY <1>2, <1>4, <1>9 DEF TableRecs
  <2>2. \A s \in Slots(u.level) : mem'[u.addr][s] = mem[u.addr][s]
    BY <1>4, <1>9, <2>1, SlotsAre DEF Grown
  <2>3. Filled(mem, u)
    BY <1>2, <1>5, <1>9 DEF UsedTables
  <2>4. QED
    BY <2>2, <2>3 DEF Filled
<1>10. QED
  BY <1>7, <1>8, <1>9

\* mmu_unmap goes down, or finds no descriptor, or clears one.
LEMMA UnmapUsed ==
  ASSUME NEW T, Good(T), UsedTables, UnmapDescend \/ UnmapClear
  PROVE  UsedTables'
<1>1. busy = "unmap" /\ root' = root
  BY DEF UnmapDescend, UnmapClear, tableVars
<1>2. /\ root # None /\ T \subseteq TableRecs /\ Tree(mem, root, T) /\ TablesTyped /\ CallTyped /\ CallInv /\ DownInv(T)
  BY <1>1, CallGood DEF Good, Calling
<1>3. CASE mem' = mem
  <2>1. UNCHANGED <<mem, root>>
    BY <1>1, <1>3
  <2>2. QED
    BY <1>1, <2>1, UsedKept
<1>4. CASE UnmapClear /\ Desc # None
  <2>1. mem' = [mem EXCEPT ![pt][Index(level, va)] = None] /\ busy' = "back" /\ pt' = pt
    BY <1>4 DEF UnmapClear
  <2>2. Good(T)'
    BY <1>4, UnmapClearStep
  <2>3. InUse = T /\ InUse' = T
    BY <1>1, <1>2, <2>2, InUseIs, InUseNext
  <2> SUFFICES ASSUME NEW t \in T, t.addr # pt PROVE Filled(mem', t)
    BY <2>1, <2>3 DEF UsedTables
  <2>4. Filled(mem, t)
    BY <1>2, <2>3 DEF UsedTables
  <2> DEFINE x == Index(level, va)
  <2>5. x \in 0 .. (PtAlign - 1) /\ pt \in Tables
    BY <1>2, AtDesc
  <2> HIDE DEF x
  <2>6. \A b \in Tables, s \in 0 .. (PtAlign - 1) : mem'[b][s] = IF b = pt /\ s = x THEN None ELSE mem[b][s]
    <3>1. TablesTyped /\ mem' = [mem EXCEPT ![pt][x] = None] /\ None \in Descs \cup {None}
      BY <1>2, <2>1 DEF x
    <3>2. QED
      BY <2>5, <3>1, StoreIs
  <2>7. t.addr \in Tables /\ t.level \in Levels
    BY <1>2 DEF TableRecs
  <2>8. \A s \in Slots(t.level) : mem'[t.addr][s] = mem[t.addr][s]
    BY <2>6, <2>7, SlotsAre
  <2>9. QED
    BY <2>4, <2>8 DEF Filled
<1>5. QED
  BY <1>3, <1>4 DEF UnmapDescend, UnmapClear, tableVars

\* mmu_unmap finds the table filled, or frees it: then the one above may not be filled.
LEMMA BackUsed ==
  ASSUME Supported, EntryLeft, NEW T, Good(T), UsedTables, UnmapBack
  PROVE  UsedTables'
<1>1. busy = "back" /\ root' = root
  BY DEF UnmapBack
<1>2. /\ root # None /\ T \subseteq TableRecs /\ Apart(T) /\ TablesTyped /\ CallTyped /\ BackInv(T)
  BY <1>1, CallGood DEF Good, Calling
<1>3. PICK U : Good(U)' /\ (Stays(T, U) \/ Prunes(T, U))
  BY UnmapBackStep
<1>4. InUse = T /\ InUse' = U
  BY <1>1, <1>2, <1>3, InUseIs, InUseNext
<1>5. CASE walk = <<>> \/ ~Vacant(pt, BackLevel)
  <2>1. mem' = mem
    BY <1>5 DEF UnmapBack
  <2>2. PICK t \in T : t.addr = pt /\ t.level = BackLevel
    BY <1>2 DEF BackInv
  <2>3. Filled(mem, t)
    <3>1. CASE walk = <<>>
      <4>1. BackLevel = FirstLevel
        BY <3>1, TablesAssumption DEF BackLevel
      <4>2. QED
        BY <2>2, <4>1 DEF Filled
    <3>2. CASE ~Vacant(pt, BackLevel)
      BY <2>2, <3>2 DEF Vacant, Filled
    <3>3. QED
      BY <1>5, <3>1, <3>2
  <2>4. \A u \in T : Filled(mem, u)
    BY <1>2, <1>4, <2>2, <2>3 DEF UsedTables, Apart
  <2>5. InUse' = T
    BY <1>1, <1>2, <1>4, <2>1 DEF InUse
  <2>6. QED
    BY <2>1, <2>4, <2>5 DEF UsedTables
<1>6. CASE ~(walk = <<>> \/ ~Vacant(pt, BackLevel))
  <2>1. PICK t \in T, u \in T, y \in 0 .. (PtAlign - 1) :
          /\ t.addr = pt /\ U = T \ {t} /\ pt' = u.addr /\ busy' = busy /\ Pruned(mem, mem', u.addr, y)
    BY <1>3, <1>6 DEF Prunes, Stays
  <2> SUFFICES ASSUME NEW o \in U, o.addr # u.addr PROVE Filled(mem', o)
    BY <1>1, <1>4, <2>1 DEF UsedTables
  <2>2. o \in T /\ o.addr # pt /\ o.addr \in Tables /\ o.level \in Levels
    BY <1>2, <2>1 DEF Apart, TableRecs
  <2>3. Filled(mem, o)
    BY <1>2, <1>4, <2>2 DEF UsedTables
  <2>4. \A s \in Slots(o.level) : mem'[o.addr][s] = mem[o.addr][s]
    BY <2>1, <2>2, SlotsAre DEF Pruned
  <2>5. QED
    BY <2>3, <2>4 DEF Filled
<1>7. QED
  BY <1>5, <1>6

\* The steps around the calls.
LEMMA AroundUsed ==
  ASSUME Supported, NEW T, Good(T), UsedTables,
         \/ CallBoot \/ InitNext \/ RtDeinit \/ UndoNext \/ ContextDestroy \/ FreeTable \/ Destroy \/ RtInit
         \/ (\E r \in Requests : RtMap(r) \/ RtUnmap(r)) \/ UNCHANGED mmuVars
  PROVE  UsedTables'
<1>1. CASE CallBoot
  BY <1>1, UsedKept DEF CallBoot, tableVars
<1>2. CASE InitNext
  BY <1>2, UsedKept DEF InitNext, Idle, tableVars
<1>3. CASE RtDeinit
  BY <1>3, UsedKept DEF RtDeinit, Idle, tableVars
<1>4. CASE UndoNext
  BY <1>4, UsedKept DEF UndoNext, Idle, tableVars
<1>5. CASE ContextDestroy
  BY <1>5 DEF ContextDestroy, UsedTables
<1>6. CASE FreeTable
  BY <1>6, UsedKept DEF FreeTable, callVars
<1>7. CASE Destroy
  BY <1>7, UsedKept DEF Destroy, tableVars, callVars
<1>8. CASE RtInit
  <2>1. mem' = [a \in Tables |-> NoDescs] /\ stage' = "init"
    BY <1>8 DEF RtInit
  <2>2. PICK U : Good(U)'
    BY <1>8, RtInitStep
  <2>3. root' # None /\ U \subseteq TableRecs /\ Tree(mem', root', U)
    BY <2>1, <2>2 DEF Good, StageInv, Stored
  <2>4. InUse' = U
    BY <2>2, <2>3, InUseNext
  <2>5. ASSUME NEW u \in U PROVE Filled(mem', u)
    <3> SUFFICES ASSUME u.level # FirstLevel PROVE FALSE
      BY DEF Filled
    <3>1. PICK t \in U : t.level = u.level - 1 /\ \E s \in Slots(t.level) : IsTable(mem'[t.addr][s])
      BY <2>3 DEF Tree
    <3>2. PICK s \in Slots(t.level) : IsTable(mem'[t.addr][s])
      BY <3>1
    <3>3. t.addr \in Tables /\ s \in 0 .. (PtAlign - 1)
      BY <2>3, SlotsAre DEF TableRecs
    <3>4. mem'[t.addr][s] = None
      BY <2>1, <3>3 DEF NoDescs
    <3>5. QED
      BY <3>2, <3>4 DEF IsTable
  <2>6. QED
    BY <2>4, <2>5 DEF UsedTables
<1>9. CASE \E r \in Requests : RtMap(r) \/ RtUnmap(r)
  BY <1>9, UsedKept DEF RtMap, RtUnmap, Idle, tableVars
<1>10. CASE UNCHANGED mmuVars
  BY <1>10, UsedKept DEF mmuVars, tableVars, callVars
<1>11. QED
  BY <1>1, <1>2, <1>3, <1>4, <1>5, <1>6, <1>7, <1>8, <1>9, <1>10

\* Every step keeps the tables in use from being empty.
LEMMA UsedStep ==
  ASSUME Supported, EntryLeft, NEW T, Good(T), UsedTables, [MmuNext]_mmuVars
  PROVE  UsedTables'
<1>1. CASE Run
  BY <1>1, MapUsed, GrowUsed, UnmapUsed, BackUsed DEF Run
<1>2. CASE Glue
  BY <1>2, AroundUsed DEF Glue
<1>3. CASE RtInit \/ RtDeinit \/ (\E r \in Requests : RtMap(r) \/ RtUnmap(r)) \/ UNCHANGED mmuVars
  BY <1>3, AroundUsed
<1>4. QED
  BY <1>1, <1>2, <1>3 DEF MmuNext

\* Regions are regions.
LEMMA RegionsIn == AllRegions \subseteq Regions
<1>1. \A b \in BootLists : \A g \in DOMAIN b : b[g] \in Regions
  <2> SUFFICES ASSUME NEW b \in BootLists, NEW g \in DOMAIN b PROVE b[g] \in Regions
    OBVIOUS
  <2>1. b \in Seq(Regions)
    BY TablesAssumption
  <2>2. QED
    BY <2>1
<1>2. QED
  BY <1>1, TablesAssumption DEF AllRegions

\* A slot of a table is for a block of pages.
LEMMA SlotPage ==
  ASSUME NEW t \in TableRecs, <<t.level, t.at>> \in Needed, t.level = FirstLevel => t.at = 0, NEW s \in Slots(t.level)
  PROVE  \E p \in Pages : On(t, p) /\ Index(t.level, p) = s
<1> DEFINE l == t.level
           o == t.at
           b == Block(l)
           g == Size(l)
           z == o * g
           p == (z + s) * b
           F == Size(FirstLevel) * Block(FirstLevel)
<1>1. l \in Levels /\ o \in Nat /\ b \in Nat \ {0} /\ g \in Nat \ {0} /\ s \in 0 .. (g - 1) /\ F \in Nat \ {0}
  BY PowersAre, PagesAre DEF TableRecs, Slots
<1>2. z \in Nat /\ (o + 1) * g = z + g
  <2> HIDE DEF o, g
  <2>1. QED
    BY <1>1
<1>3. p \in Nat /\ p + b <= (z + g) * b
  <2> HIDE DEF b, g, z
  <2>1. (z + s) + 1 <= z + g /\ z + s \in Nat /\ z + g \in Nat /\ b \in Nat
    BY <1>1, <1>2
  <2> DEFINE x == z + s
             y == z + g
  <2> HIDE DEF x, y
  <2>2. (x + 1) * b <= y * b /\ (x + 1) * b = x * b + b /\ x * b \in Nat
    <3>1. x \in Nat /\ y \in Nat /\ x + 1 <= y
      BY <2>1 DEF x, y
    <3>2. QED
      BY <2>1, <3>1
  <2>3. QED
    BY <2>2 DEF x, y
<1>4. (z + g) * b <= F
  <2>1. CASE l = FirstLevel
    <3>1. o = 0 /\ z = 0 /\ (z + g) = g
      <4>1. o = 0
        BY <2>1
      <4> HIDE DEF o, g
      <4>2. QED
        BY <1>1, <4>1
    <3>2. g * b = F
      BY <2>1
    <3> HIDE DEF F, g, b, z
    <3>3. QED
      BY <1>1, <3>1, <3>2
  <2>2. CASE l # FirstLevel
    <3> DEFINE B == Block(l - 1)
    <3>1. B = g * b /\ l - 1 \in Levels
      BY <1>1, <2>2, PowersAssumption, PowersAre
    <3>2. B \in Nat \ {0} /\ Block(FirstLevel) \in Nat \ {0} /\ Block(FirstLevel) % B = 0
      BY <3>1, PowersAre, PowersAssumption, TablesAssumption DEF Levels
    <3>3. PICK v \in Pages : o = v \div B
      <4>1. PICK r \in AllRegions : \E v \in PagesOf(r) : o = v \div B
        BY <2>2 DEF Needed
      <4>2. PICK v \in PagesOf(r) : o = v \div B
        BY <4>1
      <4>3. r \in Regions
        BY RegionsIn
      <4>4. QED
        BY <4>2, <4>3 DEF Regions
    <3>4. v \in Nat /\ v < F
      BY PagesAre
    <3>5. F % B = 0
      <4> DEFINE x == Block(FirstLevel)
                 k == Size(FirstLevel)
      <4>1. x \in Nat /\ k \in Nat /\ x % B = 0 /\ x = (x \div B) * B /\ x \div B \in Nat
        <5>1. x \in Nat \ {0} /\ k \in Nat /\ x % B = 0
          BY <3>2, PowersAre
        <5> HIDE DEF x, B, k
        <5>2. x \div B \in Nat /\ x = (x \div B) * B + (x % B)
          BY <3>2, <5>1, DivMod
        <5> DEFINE e == (x \div B) * B
        <5>3. e \in Nat /\ x = e + (x % B)
          BY <3>2, <5>2
        <5> HIDE DEF e
        <5>4. x = e
          BY <5>1, <5>3
        <5>5. QED
          BY <5>1, <5>2, <5>4 DEF e
      <4>2. PICK c : c = x \div B
        OBVIOUS
      <4> HIDE DEF x, k, B
      <4>3. k * x = (k * c) * B + 0 /\ k * c \in Nat /\ k * x \in Nat
        <5>1. c \in Nat /\ k \in Nat /\ B \in Nat /\ x = c * B
          BY <3>2, <4>1, <4>2
        <5>2. k * (c * B) = (k * c) * B
          BY <5>1
        <5>3. k * c \in Nat /\ (k * c) * B \in Nat
          BY <5>1
        <5>4. QED
          BY <5>1, <5>2, <5>3
      <4>4. (k * x) % B = 0
        <5> DEFINE e == k * x
                   f == k * c
        <5>1. e \in Nat /\ f \in Nat /\ e = f * B + 0 /\ 0 \in 0 .. (B - 1)
          BY <3>2, <4>3
        <5> HIDE DEF e, f
        <5>2. B \in Nat \ {0}
          BY <3>2
        <5>3. e % B = 0
          BY <5>1, <5>2, QuotIs
        <5>4. QED
          BY <5>3 DEF e
      <4>5. F = k * x
        BY DEF k, x
      <4>6. QED
        BY <4>4, <4>5
    <3> HIDE DEF F, B
    <3>6. v = (v \div B) * B + (v % B)
      BY <3>2, <3>4, DivMod
    <3> DEFINE y == o * B
    <3>7. y \in Nat /\ y % B = 0 /\ y <= v
      <4>1. v \div B \in Nat /\ v % B \in 0 .. (B - 1)
        BY <3>2, <3>4, DivMod
      <4> HIDE DEF o
      <4>2. y \in Nat /\ v = y + (v % B)
        BY <1>1, <3>2, <3>3, <3>6
      <4>3. y <= v
        <5> HIDE DEF y
        <5>1. QED
          BY <3>2, <3>4, <4>1, <4>2
      <4>4. y = o * B + 0 /\ 0 \in 0 .. (B - 1)
        BY <3>2, <4>2
      <4>5. y % B = 0
        <5>1. B \in Nat \ {0} /\ o \in Nat /\ y \in Nat
          BY <1>1, <3>2, <4>2
        <5> HIDE DEF y, o
        <5>2. QED
          BY <4>4, <5>1, QuotIs
      <4>6. QED
        BY <4>2, <4>3, <4>5
    <3>8. y + B <= F
      <4>1. y < F
        <5> HIDE DEF y
        <5>1. QED
          BY <1>1, <3>4, <3>7
      <4> HIDE DEF y
      <4>2. QED
        BY <1>1, <3>2, <3>5, <3>7, <4>1, Multiples
    <3>9. (z + g) * b = y + B
      <4>1. (z + g) * b = ((o + 1) * g) * b
        BY <1>2
      <4> HIDE DEF z, o, g, b
      <4>2. ((o + 1) * g) * b = (o + 1) * (g * b)
        BY <1>1
      <4>3. (o + 1) * B = o * B + B
        BY <1>1, <3>2
      <4>4. QED
        BY <3>1, <4>1, <4>2, <4>3 DEF B
    <3>10. QED
      BY <3>8, <3>9
  <2>3. QED
    BY <2>1, <2>2
<1>5. p \in Pages
  <2>1. p < F
    <3> DEFINE y == (z + g) * b
    <3>1. p \in Nat /\ p + b <= y /\ y <= F /\ y \in Nat
      <4>1. y \in Nat
        <5> HIDE DEF z, g, b
        <5>1. QED
          BY <1>1, <1>2
      <4>2. QED
        BY <1>3, <1>4, <4>1
    <3> HIDE DEF p, y, F, b
    <3>2. QED
      BY <1>1, <3>1
  <2>2. Pages = 0 .. (F - 1)
    BY DEF Pages
  <2> HIDE DEF p, F
  <2>3. QED
    BY <1>1, <1>3, <2>1, <2>2
<1>6. p \div b = z + s
  <2>1. z + s \in Nat
    <3> HIDE DEF z, g
    <3>1. QED
      BY <1>1, <1>2
  <2> DEFINE x == z + s
  <2>2. x \in Nat /\ p = x * b + 0 /\ 0 \in 0 .. (b - 1) /\ p \in Nat
    <3>1. p = x * b /\ x \in Nat
      BY <2>1
    <3> HIDE DEF x, b
    <3>2. QED
      BY <1>1, <1>3, <3>1
  <2> HIDE DEF x, p, b
  <2>3. p \div b = x
    BY <1>1, <2>2, QuotIs
  <2>4. QED
    BY <2>3 DEF x
<1>7. (z + s) \div g = o /\ (z + s) % g = s
  <2> HIDE DEF o, g
  <2>1. QED
    BY <1>1, QuotOf
<1>8. Index(l, p) = s
  BY <1>6, <1>7 DEF Index
<1>9. On(t, p)
  <2> SUFFICES ASSUME l # FirstLevel PROVE o = p \div Block(l - 1)
    BY DEF On
  <2>1. Block(l - 1) = g * b
    BY <1>1, PowersAssumption
  <2>2. (p \div b) \div g = p \div (g * b)
    <3> HIDE DEF p, g, b
    <3>1. QED
      BY <1>1, <1>3, DivDiv
  <2>3. QED
    BY <1>6, <1>7, <2>1, <2>2
<1>10. QED
  BY <1>5, <1>8, <1>9

-----------------------------------------------------------------------------
(* mmu_map fails only where something is mapped                             *)

\* A page of a descriptor that is no table.
LEMMA SlotFound ==
  ASSUME NEW m, Typed(m), NEW r, NEW T, T \subseteq TableRecs, Tree(m, r, T), \A t \in T : <<t.level, t.at>> \in Needed,
         NEW c \in T, NEW s \in Slots(c.level), m[c.addr][s] # None, ~IsTable(m[c.addr][s]) \/ c.level = MaxLevel
  PROVE  \E p \in Pages : On(c, p) /\ Walked(m, r, p) \in Leaves
<1>1. c \in TableRecs /\ c.level \in Levels /\ c.addr \in Tables /\ s \in 0 .. (PtAlign - 1) /\ (c.level = FirstLevel => c.at = 0)
  BY SlotsAre DEF TableRecs, Tree, RootTable
<1>2. PICK p \in Pages : On(c, p) /\ Index(c.level, p) = s
  BY <1>1, SlotPage
<1>3. Ends(m, c, p)
  BY <1>1, <1>2, TablesAssumption DEF Ends
<1>4. Walked(m, r, p) = LeafAt(c.level, m[c.addr][s], p)
  BY <1>2, <1>3, WalkAt
<1>5. m[c.addr][s] \in Descs
  BY <1>1 DEF Typed
<1>6. QED
  BY <1>1, <1>2, <1>4, <1>5, LeafNotNone

\* A table with descriptors, as all below it, is for pages that are mapped.
LEMMA Populated ==
  ASSUME NEW m, Typed(m), NEW r, NEW T, T \subseteq TableRecs, Tree(m, r, T), \A t \in T : <<t.level, t.at>> \in Needed,
         NEW k \in Levels, k # FirstLevel, \A u \in T : u.level >= k => Filled(m, u), NEW t \in T, t.level >= k
  PROVE  \E p \in Pages : On(t, p) /\ Walked(m, r, p) \in Leaves
<1> DEFINE m1 == MaxLevel - FirstLevel
           S  == {d \in 0 .. m1 : \A c \in T : c.level = MaxLevel - d /\ c.level >= k =>
                    \E p \in Pages : On(c, p) /\ Walked(m, r, p) \in Leaves}
<1>1. m1 \in Nat /\ FirstLevel \in Nat /\ MaxLevel \in Nat /\ \A l \in Levels : MaxLevel - l \in 0 .. m1 /\ l = MaxLevel - (MaxLevel - l)
  BY TablesAssumption DEF Levels
<1>2. ASSUME NEW c \in T, c.level >= k
      PROVE  /\ c.level \in Levels /\ c.level # FirstLevel
             /\ \E s \in Slots(c.level) : m[c.addr][s] # None
  <2>1. c.level \in Levels /\ c.level # FirstLevel
    BY <1>2, TablesAssumption DEF TableRecs, Levels
  <2>2. QED
    BY <1>2, <2>1 DEF Filled
<1>3. 0 \in S
  <2> SUFFICES ASSUME NEW c \in T, c.level = MaxLevel - 0, c.level >= k
               PROVE  \E p \in Pages : On(c, p) /\ Walked(m, r, p) \in Leaves
    BY <1>1
  <2>1. c.level = MaxLevel
    BY <1>1
  <2>2. PICK s \in Slots(c.level) : m[c.addr][s] # None
    BY <1>2
  <2>3. QED
    BY <2>1, <2>2, SlotFound
<1>4. \A d \in S : d < m1 => d + 1 \in S
  <2> SUFFICES ASSUME NEW d \in S, d < m1, NEW c \in T, c.level = MaxLevel - (d + 1), c.level >= k
               PROVE  \E p \in Pages : On(c, p) /\ Walked(m, r, p) \in Leaves
    BY <1>1
  <2>1. PICK s \in Slots(c.level) : m[c.addr][s] # None
    BY <1>2
  <2>2. CASE ~IsTable(m[c.addr][s])
    BY <2>1, <2>2, SlotFound
  <2>3. CASE IsTable(m[c.addr][s])
    <3> DEFINE u == Below(m, c, s)
    <3>1. c.level # MaxLevel /\ c.level + 1 = MaxLevel - d /\ c.level \in Levels
      BY <1>1, <1>2
    <3>2. u \in T /\ u.level = c.level + 1 /\ u.at = c.at * Size(c.level) + s
      BY <2>3, <3>1 DEF Tree, Below
    <3>3. u \in TableRecs /\ c \in TableRecs /\ u.level \in Levels
      BY <3>2 DEF TableRecs
    <3> HIDE DEF u
    <3>4. u.level = MaxLevel - d /\ u.level >= k
      <4>1. c.level \in Nat /\ k \in Nat
        BY <3>1, PowersAre
      <4>2. QED
        BY <3>1, <3>2, <4>1
    <3>5. PICK p \in Pages : On(u, p) /\ Walked(m, r, p) \in Leaves
      BY <3>2, <3>4
    <3>6. c.level = FirstLevel => c.at = 0
      BY DEF Tree, RootTable
    <3>7. On(c, p)
      BY <3>2, <3>3, <3>5, <3>6, ParentOn
    <3>8. QED
      BY <3>5, <3>7
  <2>4. QED
    BY <2>2, <2>3
<1>5. S = 0 .. m1
  <2> HIDE DEF S
  <2>1. S \in SUBSET (0 .. m1)
    BY DEF S
  <2>2. QED
    BY <1>1, <1>3, <1>4, <2>1, IntervalInduction
<1>6. t.level \in Levels
  BY DEF TableRecs
<1>7. MaxLevel - t.level \in S
  BY <1>1, <1>5, <1>6
<1>8. QED
  BY <1>1, <1>6, <1>7

\* When mmu_map finds a descriptor, a page of the block is mapped.
LEMMA FailsForCause ==
  ASSUME NEW T, Good(T), UsedTables, busy = "map", AtLeaf, Desc # None
  PROVE  \E p \in va .. (va + Block(level) - 1) : Frame(p) # None
<1>1. /\ root # None /\ T \subseteq TableRecs /\ Apart(T) /\ Tree(mem, root, T) /\ TablesTyped /\ CallTyped /\ CallInv /\ DownInv(T)
      /\ \A t \in T : <<t.level, t.at>> \in Needed
  BY CallGood DEF Good, Calling
<1>2. Typed(mem) /\ InUse = T
  BY <1>1, InUseIs DEF TablesTyped, Typed
<1>3. PICK t \in T : t.addr = pt /\ t.level = level /\ (t.level # FirstLevel => t.at = va \div Block(level - 1))
  BY <1>1 DEF DownInv
<1>4. va \in Pages /\ level \in Levels /\ On(t, va) /\ t.at \in Nat /\ pt \in Tables /\ (t.level = FirstLevel => t.at = 0)
  BY <1>1, <1>3, CallAt DEF On, TableRecs, Tree, RootTable
<1>5. ASSUME NEW p \in Pages, InBlock(p), Leaf(p) \in Leaves PROVE \E q \in va .. (va + Block(level) - 1) : Frame(q) # None
  <2> DEFINE b == Block(level)
  <2>1. p >= va /\ p < va + b /\ b \in Nat /\ va \in Nat /\ p \in Nat
    BY <1>1, <1>5, BlockInside, CallAt, PagesAre
  <2> HIDE DEF b
  <2>2. p \in va .. (va + b - 1)
    BY <2>1
  <2>3. Leaf(p) # None /\ Leaf(p).frame \in Nat
    BY <1>5, TablesAssumption DEF Leaves
  <2>4. Frame(p) # None
    BY <2>3, BallocAssumption DEF Frame
  <2>5. QED
    BY <2>2, <2>4 DEF b
<1> DEFINE x == Index(level, va)
<1>6. x \in Slots(level) /\ x \in 0 .. (PtAlign - 1) /\ Desc = mem[t.addr][x] /\ t.at * Size(level) + x = va \div Block(level)
  BY <1>3, <1>4, IndexIs, ChildIs DEF Desc
<1>7. CASE IsTable(Desc) /\ level # MaxLevel
  <2> DEFINE c == Below(mem, t, x)
  <2>1. c \in T /\ c.level = level + 1 /\ c.at = va \div Block(level)
    BY <1>1, <1>3, <1>6, <1>7 DEF Tree, Below
  <2>2. c.level \in Levels /\ c.level # FirstLevel /\ c.level - 1 = level
    BY <1>1, <1>4, <2>1, TablesAssumption DEF TableRecs, Levels
  <2> HIDE DEF c, x
  <2>3. ASSUME NEW u \in T, u.level >= c.level PROVE Filled(mem, u)
    <3>1. u.level # level
      BY <1>4, <2>1, <2>3, PowersAre
    <3>2. u.addr # pt
      BY <1>1, <1>3, <3>1 DEF Apart
    <3>3. QED
      BY <1>1, <1>2, <3>2 DEF UsedTables
  <2>4. c.level >= c.level
    <3>1. \A l \in Levels : l >= l
      BY PowersAre
    <3>2. QED
      BY <2>2, <3>1
  <2>5. PICK p \in Pages : On(c, p) /\ Walked(mem, root, p) \in Leaves
    <3>1. \A u \in T : u.level >= c.level => Filled(mem, u)
      BY <2>3
    <3>2. QED
      BY <1>1, <1>2, <2>1, <2>2, <2>4, <3>1, Populated
  <2>6. InBlock(p)
    BY <2>1, <2>2, <2>5 DEF On, InBlock
  <2>7. QED
    BY <1>1, <1>5, <2>5, <2>6 DEF Leaf
<1>8. CASE ~(IsTable(Desc) /\ level # MaxLevel)
  <2>1. Ends(mem, t, va)
    BY <1>3, <1>6, <1>8, TablesAssumption DEF Ends
  <2>2. Walked(mem, root, va) = LeafAt(level, Desc, va)
    BY <1>1, <1>2, <1>3, <1>4, <1>6, <2>1, WalkAt
  <2>3. Desc \in Descs
    BY <1>1, <1>3, <1>4, <1>6 DEF TablesTyped
  <2>4. Leaf(va) \in Leaves
    BY <1>1, <1>4, <2>2, <2>3, LeafNotNone DEF Leaf
  <2>5. QED
    BY <1>4, <1>5, <2>4 DEF InBlock
<1>9. QED
  BY <1>7, <1>8

\* mmu_map fails only there.
LEMMA MapFails ==
  ASSUME Supported, NEW T, Good(T), UsedTables, [MmuNext]_mmuVars, busy = "map", busy' = "idle", rc' # 0
  PROVE  \E p \in va .. (va + Block(level) - 1) : Frame(p) # None
<1>1. MapStore
  <2>1. ~MapDescend
    BY DEF MapDescend
  <2>2. ~MapGrow
    BY DEF MapGrow
  <2>3. ~UnmapDescend /\ ~UnmapClear /\ ~UnmapBack
    BY DEF UnmapDescend, UnmapClear, UnmapBack
  <2>4. ~CallBoot /\ ~InitNext /\ ~UndoNext /\ ~ContextDestroy /\ ~FreeTable /\ ~Destroy
    BY DEF CallBoot, InitNext, UndoNext, ContextDestroy, FreeTable, Destroy, Idle, callVars
  <2>5. ~RtInit /\ ~RtDeinit /\ \A r \in Requests : ~RtMap(r) /\ ~RtUnmap(r)
    BY DEF RtInit, RtDeinit, RtMap, RtUnmap, Idle
  <2>6. ~(UNCHANGED mmuVars)
    BY DEF mmuVars, callVars
  <2>7. QED
    BY <2>1, <2>2, <2>3, <2>4, <2>5, <2>6 DEF MmuNext, Run, Glue
<1>2. AtLeaf /\ Desc # None
  <2>1. CallInv
    BY CallGood
  <2>2. req.call # "idle"
    BY <2>1 DEF CallInv
  <2>3. AtLeaf /\ (Desc = None => Advance(Block(level)))
    BY <1>1 DEF MapStore
  <2>4. Advance(Block(level)) => rc' = 0 \/ busy' = req.call
    BY DEF Advance, Return
  <2>5. QED
    BY <2>2, <2>3, <2>4
<1>3. QED
  BY <1>2, FailsForCause

\* At the start.
LEMMA DoneInit ==
  ASSUME MmuInit
  PROVE  UsedTables /\ Done /\ Completed
BY DEF MmuInit, UsedTables, Done, Completed

\* What is reported.
Reported ==
  /\ Completed'
  /\ busy = "map" /\ busy' = "idle" /\ rc' # 0 =>
       \E p \in va .. (va + Block(level) - 1) : Frame(p) # None

\* For any sizes, lists and requests that are Supported and FramesFit, up to the moment that
\* free_blocks[] is full, a success of mmu_map or mmu_unmap means that the SMMU finds each
\* page of the region at the frame asked for, or none of them; and mmu_map fails only for a
\* block of which it finds a page: no table that is in the way is empty.
THEOREM ResultsTrue == Supported /\ FramesFit => (MmuSpec /\ []EntryLeft => ReportedTruly)
<1> SUFFICES ASSUME Supported, FramesFit PROVE MmuSpec /\ []EntryLeft => ReportedTruly
  OBVIOUS
<1>1. MmuInit => (\E T : Good(T)) /\ Sees /\ UsedTables /\ Done /\ Completed
  BY GoodInit, SeesInit, DoneInit
<1>2. (\E T : Good(T)) /\ Sees /\ UsedTables /\ Done /\ Completed /\ EntryLeft /\ [MmuNext]_mmuVars
      => (\E T : Good(T))' /\ Sees' /\ UsedTables' /\ Done' /\ Completed'
  BY GoodStep, SeesStep, UsedStep, DoneStep
<1>3. (\E T : Good(T)) /\ Sees /\ UsedTables /\ Done /\ Completed /\ EntryLeft /\ [MmuNext]_mmuVars => [Reported]_mmuVars
  BY DoneStep, MapFails DEF Reported
<1>4. QED
  BY <1>1, <1>2, <1>3, PTL DEF MmuSpec, ReportedTruly, Reported

=============================================================================

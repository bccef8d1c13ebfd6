-------------------------------- MODULE Boot --------------------------------
(***************************************************************************)
(* From reset to running subsystems. The first-stage boot loader           *)
(* (trch-bl0/main-relocated.c) selects a memory, tries the copies of the   *)
(* TRCH image in it and in the backup memory, verifies one, moves it into  *)
(* place and jumps. TRCH reads its configuration (trch/syscfg.c), mounts   *)
(* the file system (lib/sfs.c) and loads the images of each subsystem, at  *)
(* start and whenever it is rebooted (boot_load in trch/boot.c). Memory is *)
(* a function from addresses to cells.                                     *)
(***************************************************************************)
EXTENDS Integers, Sequences

CONSTANTS
  Selects,  \* boot select codes: [spi, rank, mram, offset, failover, parity]
  Flashes,  \* contents of the boot memories, rank -> [blobs, data]
  Cards,    \* what is stored for TRCH: [files, lists, load, sfs, dma]
  Subs,     \* subsystems, 1 the first to be booted
  RamSz,    \* cells of the RAM of TRCH
  DramSz,   \* cells of the memory of the subsystems
  BurstSz,  \* cells of a DMA burst
  MaxBlobs, \* length of a list of images in the configuration
  Empty     \* a cell with no known content

ASSUME BootAssumption ==
  /\ Subs = 1 .. 2 /\ {RamSz, DramSz, BurstSz, MaxBlobs} \subseteq Nat \ {0}

VARIABLES
  sel, flash, card,   \* the environment
  pc,                 \* where BL0, and then TRCH, is
  chip, backup,       \* mem_chip and mem_chip_backup
  ready,              \* ranks that the memory controller is configured for
  i, j,               \* loops over ranks and copies
  blob,               \* config_blob
  ram,                \* RAM of TRCH
  requests,           \* reboot_requests
  sub, n,             \* subsystem being booted, and which of its images
  dram,               \* memory of the subsystems
  up                  \* subsystems that run what was loaded

bl0Vars  == <<sel, flash, chip, backup, ready, i, j, blob, ram>>
trchVars == <<card, requests, sub, n, dram, up>>
vars     == <<bl0Vars, trchVars, pc>>

-----------------------------------------------------------------------------
(* The selection of the memory *)

Nor  == [start |-> 0, count |-> 2]
Mram == [start |-> 2, count |-> 2]
Ranks == 0 .. 3

\* parity_check: the number of bits set is odd.
ParityOk(s) == (s.spi + s.rank + s.mram + s.offset + s.failover + s.parity) % 2 = 1

\* mem_type = BS_MASK(boot_select, 2): the bit where it is, not shifted down.
MemType(s) == 4 * s.mram

Both(s, mem) == {<< mem.start + s.rank, mem.start + ((s.rank + 1) % mem.count) >>}

\* mem_chip and mem_chip_backup: not initialised for SPI, or when no case of the
\* switch over the memory type matches.
Chips(s) == CASE s.spi = 0 /\ MemType(s) = 0 -> Both(s, Nor)
              [] s.spi = 0 /\ MemType(s) = 1 -> Both(s, Mram)
              [] OTHER -> (0 .. 4) \X (0 .. 4)

NoBlob == [load |-> 0, entry |-> 0, size |-> 0, offset |-> 0, sum |-> <<>>]

Init ==
  /\ sel \in Selects /\ flash \in Flashes /\ card \in Cards
  /\ pc = "select" /\ chip = 0 /\ backup = 0 /\ ready = {} /\ i = 0 /\ j = 0 /\ blob = NoBlob
  /\ ram = [a \in 0 .. (RamSz - 1) |-> Empty]
  /\ requests = {} /\ sub = 0 /\ n = 1 /\ up = {}
  /\ dram = [a \in 0 .. (DramSz - 1) |-> Empty]

\* smc_init configures the ranks in chip_mask; it is not called for SPI.
Configured(c) == IF sel.spi = 1 THEN {} ELSE {c[1]} \cup (IF sel.failover = 1 THEN {c[2]} ELSE {})

Select ==
  /\ pc = "select"
  /\ IF ParityOk(sel)
     THEN /\ pc' = "blob"
          /\ \E c \in Chips(sel) : chip' = c[1] /\ backup' = c[2] /\ ready' = Configured(c)
     ELSE pc' = "dead" /\ UNCHANGED <<chip, backup, ready>>
  /\ UNCHANGED <<sel, flash, i, j, blob, ram, trchVars>>

-----------------------------------------------------------------------------
(* The copies of the image *)

Copies == 2

\* BL0 is dead after PANICX. get_smc_sram_rank_addr panics for a rank that does not exist.
LoadBlob ==
  /\ pc = "blob"
  /\ IF chip \in Ranks
     THEN blob' = flash[chip].blobs[j + 1] /\ pc' = "image"
     ELSE pc' = "dead" /\ UNCHANGED blob
  /\ UNCHANGED <<sel, flash, chip, backup, ready, i, j, ram, trchVars>>

\* The image is first loaded where its entry point will be.
Staged == blob.load + blob.entry

LoadImage ==
  /\ pc = "image" /\ pc' = "check"
  /\ ram' = [a \in DOMAIN ram |-> IF a \in Staged .. (Staged + blob.size - 1)
                                  THEN flash[chip].data[blob.offset + a - Staged] ELSE ram[a]]
  /\ UNCHANGED <<sel, flash, chip, backup, ready, i, j, blob, trchVars>>

Cells(m, at, size) == [k \in 1 .. size |-> m[at + k - 1]]

Ranks2Try(s) == IF s.failover = 1 THEN 2 ELSE 1

\* Mutant: the loop over the ranks goes on in the rank that was selected.
NextCopySame ==
  IF j + 1 < Copies THEN j' = j + 1 /\ pc' = "blob" /\ UNCHANGED <<i, chip>>
  ELSE IF i + 1 < Ranks2Try(sel) THEN i' = i + 1 /\ j' = 0 /\ pc' = "blob" /\ UNCHANGED chip
  ELSE pc' = "dead" /\ UNCHANGED <<i, j, chip>>

NextCopy ==
  IF j + 1 < Copies THEN j' = j + 1 /\ pc' = "blob" /\ UNCHANGED <<i, chip>>
  ELSE IF i + 1 < Ranks2Try(sel) THEN i' = i + 1 /\ j' = 0 /\ chip' = backup /\ pc' = "blob"
  ELSE pc' = "dead" /\ UNCHANGED <<i, j, chip>>

Check ==
  /\ pc = "check"
  /\ IF Cells(ram, Staged, blob.size) = blob.sum
     THEN pc' = "move" /\ UNCHANGED <<i, j, chip>>
     ELSE NextCopy
  /\ UNCHANGED <<sel, flash, backup, ready, blob, ram, trchVars>>

\* load_memcpy_ecc within one memory: cell by cell, from the lowest address on.
Moved(m, from, to, size) ==
  LET M[k \in 0 .. size] == IF k = 0 THEN m ELSE [M[k - 1] EXCEPT ![to + k - 1] = M[k - 1][from + k - 1]]
  IN  M[size]

Move ==
  /\ pc = "move" /\ pc' = "start"
  /\ ram' = Moved(ram, Staged, blob.load, blob.size)
  /\ UNCHANGED <<sel, flash, chip, backup, ready, i, j, blob, trchVars>>

-----------------------------------------------------------------------------
(* TRCH: configuration, file system, images of the subsystems *)

\* syscfg_load, sfs_mount and the first boot_request.
Start ==
  /\ pc = "start"
  /\ IF \E s \in Subs : Len(card.lists[s]) > MaxBlobs
     THEN pc' = "panic" /\ UNCHANGED requests
     ELSE pc' = "idle" /\ requests' = Subs
  /\ UNCHANGED <<bl0Vars, card, sub, n, dram, up>>

\* boot_handle takes the lowest subsystem.
Handle ==
  /\ pc = "idle" /\ requests # {}
  /\ sub' = (IF 1 \in requests THEN 1 ELSE 2) /\ n' = 1
  /\ pc' = IF card.load /\ card.sfs THEN "load" ELSE "boot"
  /\ UNCHANGED <<bl0Vars, card, requests, dram, up>>

\* Where sfs_load finds a file: its first valid descriptor.
FilesNamed(name) == {k \in DOMAIN card.files : card.files[k].valid /\ card.files[k].name = name}
First(S) == CHOOSE k \in S : \A l \in S : k <= l
FileOf(name) == card.files[First(FilesNamed(name))]

\* Mutant: a size that is already a multiple grows too.
AlignMore(size) == ((size \div BurstSz) + 1) * BurstSz

Align(size) == ((size + BurstSz - 1) \div BurstSz) * BurstSz

Aligned(a) == a % BurstSz = 0

\* load_dma copies whole bursts, load_memcpy the file. The cell of the file system at
\* address a has content a.
Loaded(f) ==
  LET size == IF card.dma THEN Align(f.size) ELSE f.size
  IN  [a \in DOMAIN dram |-> IF a \in f.load .. (f.load + size - 1) THEN f.at + a - f.load ELSE dram[a]]

\* dma_transfer refuses addresses that are not aligned, and dma_wait follows its NULL. A
\* list of MaxBlobs images ends with a NULL stored where the next list is kept.
LoadNext ==
  /\ pc = "load"
  /\ LET l == card.lists[sub] IN
     IF n > Len(l)
     THEN /\ pc' = IF Len(l) = MaxBlobs /\ sub = 1 /\ card.lists[2] # <<>> THEN "lost" ELSE "boot"
          /\ UNCHANGED <<n, dram>>
     ELSE IF FilesNamed(l[n]) = {} THEN pc' = "panic" /\ UNCHANGED <<n, dram>>
     ELSE LET f == FileOf(l[n]) IN
          IF card.dma /\ ~(Aligned(f.load) /\ Aligned(f.at)) THEN pc' = "lost" /\ UNCHANGED <<n, dram>>
          ELSE dram' = Loaded(f) /\ n' = n + 1 /\ UNCHANGED pc
  /\ UNCHANGED <<bl0Vars, card, requests, sub, up>>

\* boot_reset releases the subsystem, and the request is done.
Release ==
  /\ pc = "boot" /\ pc' = "idle"
  /\ up' = up \cup {sub} /\ requests' = requests \ {sub}
  /\ UNCHANGED <<bl0Vars, card, sub, n, dram>>

Images(s) == {FileOf(card.lists[s][k]) : k \in {k \in DOMAIN card.lists[s] : FilesNamed(card.lists[s][k]) # {}}}

Region(f) == f.load .. (f.load + f.size - 1)

\* A subsystem that hangs may have overwritten its own memory, before its watchdog
\* makes TRCH reboot it; it is kept in reset while TRCH does.
Hang(s) ==
  /\ pc \in {"idle", "load", "boot"} /\ s \in up
  /\ up' = up \ {s} /\ requests' = requests \cup {s}
  /\ dram' = [a \in DOMAIN dram |-> IF \E f \in Images(s) : a \in Region(f) THEN Empty ELSE dram[a]]
  /\ UNCHANGED <<bl0Vars, card, sub, n, pc>>

-----------------------------------------------------------------------------
Bl0  == Select \/ LoadBlob \/ LoadImage \/ Check \/ Move
Next == Bl0 \/ Start \/ Handle \/ LoadNext \/ Release \/ \E s \in Subs : Hang(s)

Spec == Init /\ [][Next]_vars

-----------------------------------------------------------------------------
(* Properties *)

TypeOK ==
  /\ pc \in {"select", "blob", "image", "check", "move", "start", "idle", "load", "boot", "panic", "lost", "dead"}
  /\ chip \in 0 .. 4 /\ backup \in 0 .. 4 /\ ready \subseteq 0 .. 4
  /\ i \in 0 .. 1 /\ j \in 0 .. (Copies - 1)
  /\ DOMAIN ram = 0 .. (RamSz - 1) /\ DOMAIN dram = 0 .. (DramSz - 1)
  /\ requests \subseteq Subs /\ up \subseteq Subs /\ sub \in Subs \cup {0} /\ n \in 1 .. (MaxBlobs + 1)

\* What the boot select code asks for, by the comment on it: two copies in the selected
\* rank of the selected kind of memory, then two in the other rank, with fail-over.
Candidates ==
  LET first == (IF sel.mram = 1 THEN Mram.start ELSE Nor.start) + sel.rank
      other == (IF sel.mram = 1 THEN Mram.start ELSE Nor.start) + 1 - sel.rank
      rank(r) == << [rank |-> r, copy |-> 1], [rank |-> r, copy |-> 2] >>
  IN  IF sel.failover = 1 THEN rank(first) \o rank(other) ELSE rank(first)

BlobOf(c)   == flash[c.rank].blobs[c.copy]
Intact(c)   == Cells(flash[c.rank].data, BlobOf(c).offset, BlobOf(c).size) = BlobOf(c).sum
FirstIntact == First({k \in DOMAIN Candidates : Intact(Candidates[k])})

\* BL0 only reads memories that it configured, and gives up only when the select code is
\* bad or every copy is corrupt; what it starts is the first intact copy, whole and in
\* place, although staging and moving overlap.
StartsFirstIntact ==
  LET some == \E k \in DOMAIN Candidates : Intact(Candidates[k]) IN
  /\ pc = "blob" => chip \in ready
  /\ pc = "dead" => ~ParityOk(sel) \/ ~some
  /\ pc = "start" =>
       /\ some
       /\ LET b == BlobOf(Candidates[FirstIntact])
          IN  Cells(ram, b.load, b.size) = Cells(flash[Candidates[FirstIntact].rank].data, b.offset, b.size)

\* While a subsystem runs, its images are in memory as they are stored, whatever was
\* loaded for another subsystem since, in whole bursts.
ImagesInPlace ==
  card.load /\ card.sfs =>
    \A s \in up : \A f \in Images(s) : \A a \in Region(f) : dram[a] = f.at + a - f.load

\* "bs[2]: 0: NOR; 1: MRAM" (main-relocated.c:36): the memory is of the kind selected.
SelectedMemory == pc = "blob" /\ sel.spi = 0 => chip \in {Candidates[k].rank : k \in DOMAIN Candidates}

\* TRCH follows no pointer that is not there.
NotLost == pc # "lost"

=============================================================================

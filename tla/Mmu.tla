-------------------------------- MODULE Mmu --------------------------------
(***************************************************************************)
(* The page tables of an SMMU context, and how they change: mmu_map,       *)
(* mmu_unmap, and the set-up and tear-down of a context (drivers/mmu.c),   *)
(* as trch/mmus.c calls them. The SMMU walks the tables whenever a device  *)
(* accesses memory: what it would find is observed between any two stores  *)
(* that it can see. Pages, frames and descriptors are counted, not         *)
(* addressed: a region is a number of granule pages.                       *)
(***************************************************************************)
EXTENDS Balloc, Sequences, FiniteSets

CONSTANTS
  FirstLevel, MaxLevel, \* start_level of the granule, MAX_LEVEL
  FirstBits, Bits,      \* bits_in_first_level, bits_per_level
  AreaSize,             \* size of the page-table area, in descriptors
  BootLists,            \* lists of regions rt_mmu_init may have to map
  Requests,             \* regions of rt_mmu_map and rt_mmu_unmap
  Careful               \* whether clients keep to what the code supports

Levels    == FirstLevel .. MaxLevel
Size(l)   == 2 ^ (IF l = FirstLevel THEN FirstBits ELSE Bits)   \* pt_entries
Block(l)  == 2 ^ (Bits * (MaxLevel - l))                       \* block_size
PtAlign   == 2 ^ Bits                                          \* 1 << page_bits
Pages     == 0 .. (Size(FirstLevel) * Block(FirstLevel) - 1)
Index(l, page) == (page \div Block(l)) % Size(l)               \* pt_index
Slots(l)  == 0 .. (Size(l) - 1)
Tables    == {a \in 0 .. (AreaSize - 1) : a % PtAlign = 0}

\* Regions are records: first page, first frame, number of pages. One may cover block
\* n of a level as a whole.
PagesOf(r) == r.va .. (r.va + r.sz - 1)
Covers(r, l, n) == r.va <= n * Block(l) /\ (n + 1) * Block(l) <= r.va + r.sz
Regions    == {r \in [va : Pages, pa : Nat, sz : Nat \ {0}] : PagesOf(r) \subseteq Pages}

\* Calls of mmu_map and mmu_unmap, and valid descriptors.
Calls == [call : {"map", "unmap"}, va : Pages, pa : Nat, sz : Nat \ {0}]
Descs == [type : {"table"}, addr : Tables] \cup [type : {"leaf"}, addr : Nat]

\* What the SMMU may find for a page.
Leaves == [level : Levels, frame : Nat]

ASSUME TablesAssumption ==
  /\ FirstLevel \in Nat /\ MaxLevel \in Nat /\ FirstLevel < MaxLevel
  /\ FirstBits \in Nat /\ Bits \in Nat \ {0} /\ FirstBits <= Bits
  /\ AreaSize \in Nat /\ Size(FirstLevel) <= AreaSize /\ AreaSize % PtAlign = 0
  /\ BootLists \subseteq Seq(Regions) \ {<<>>} /\ Requests \subseteq Regions
  /\ None \notin Descs \cup Calls \cup Leaves

\* What powers of two are like: tables of a level fill a block of the level above.
ASSUME PowersAssumption ==
  /\ Block(MaxLevel) = 1
  /\ \A l \in Levels : Block(l) \in Nat \ {0} /\ Size(l) \in Nat \ {0} /\ Size(l) <= PtAlign
  /\ \A l \in Levels \ {FirstLevel} : Size(l) = PtAlign /\ Block(l - 1) = Size(l) * Block(l)
  /\ \A l, n \in Levels : l <= n => Block(l) % Block(n) = 0

VARIABLES
  free,   \* the allocator's free_blocks[]
  mem,    \* the descriptors in the area, by address of their table
  root,   \* ctx->pt, and TTBR0 of the context: None without a context
  todo,   \* the tables that pt_free still has to free
  enabled,  \* whether the SMMU translates
  busy, req, \* mmu_map or mmu_unmap in progress, with its pages, frames and size
  smr,    \* the SMMU: valid stream registers
  stage,  \* where rt_mmu_init and rt_mmu_deinit are
  boot, nth, \* the list being mapped, and the position in it
  va, pa, sz, level, pt, walk, \* the locals of mmu_map and mmu_unmap
  rc      \* the result of the last call

tableVars == <<free, mem, root, todo>>
busVars   == <<enabled, smr>>
callVars  == <<busy, req, va, pa, sz, level, pt, walk, rc>>
stageVars == <<stage, boot, nth>>
mmuVars   == <<tableVars, busVars, callVars, stageVars>>

\* A descriptor: None (not VALID), or a table or a leaf (block or page) and its address.
TableDesc(a) == [type |-> "table", addr |-> a]
LeafDesc(a)  == [type |-> "leaf", addr |-> a]
IsTable(d)   == d # None /\ d.type = "table"

-----------------------------------------------------------------------------
(* What the SMMU finds: the frame of a page and the level of its descriptor. *)
(* A block descriptor holds no address bits below the size of its block.     *)

\* What descriptor d of level l leads to, where next is what tables lead to.
FoundBy(next, l, d, page) ==
  CASE d = None -> None
    [] IsTable(d) /\ l < MaxLevel -> next[l + 1][d.addr]
    [] OTHER -> [level |-> l, frame |-> (d.addr - (d.addr % Block(l))) + (page % Block(l))]

Walked(m, start, page) ==
  LET Found[l \in Levels] == [a \in Tables |-> FoundBy(Found, l, m[a][Index(l, page)], page)]
  IN  Found[FirstLevel][start]

Leaf(page)  == IF root = None THEN None ELSE Walked(mem, root, page)
Frame(page) == IF Leaf(page) = None THEN None ELSE Leaf(page).frame

\* A table is where it is, of a level, and for one of the blocks of the level above.
TableRecs == [addr : Tables, level : Levels, at : Nat]
RootTable(a) == [addr |-> a, level |-> FirstLevel, at |-> 0]
Below(m, t, i) == [addr |-> m[t.addr][i].addr, level |-> t.level + 1, at |-> t.at * Size(t.level) + i]

\* The tables that pt_free finds from a table on the first level.
TablesFrom(m, start) ==
  LET On[l \in Levels] ==
        IF l = FirstLevel THEN {RootTable(start)}
        ELSE UNION {{Below(m, t, i) : i \in {i \in Slots(l - 1) : IsTable(m[t.addr][i])}} : t \in On[l - 1]}
  IN  UNION {On[l] : l \in Levels}

\* The tables in use: those of the context, or those that are still to be freed.
InUse == IF root = None THEN todo ELSE TablesFrom(mem, root)

\* The descriptors of a table.
Extent(t) == t.addr .. (t.addr + Size(t.level) - 1)

-----------------------------------------------------------------------------
Streams == 1 .. 4 \* TRCH, the two R52 cores, and the A53

NoDescs   == [i \in 0 .. (PtAlign - 1) |-> None]

MmuInit ==
  /\ free = BallocCreate(AreaSize) /\ mem = [a \in Tables |-> NoDescs] /\ root = None /\ todo = {}
  /\ enabled = FALSE /\ smr = {}
  /\ stage = "down" /\ boot \in BootLists /\ nth = 0
  /\ busy = "idle" /\ req = None
  /\ va = 0 /\ pa = 0 /\ sz = 0 /\ level = FirstLevel /\ pt = None /\ walk = <<>> /\ rc = 0

-----------------------------------------------------------------------------
(* mmu_map and mmu_unmap: one page or block after the other, each with a walk *)
(* from the root.                                                             *)

Locals(v, p, s) == va' = v /\ pa' = p /\ sz' = s

\* A walk starts at the root.
Restart == level' = FirstLevel /\ pt' = root /\ walk' = <<>>

Call(f, r) ==
  /\ busy' = f /\ req' = [call |-> f, va |-> r.va, pa |-> r.pa, sz |-> r.sz]
  /\ Locals(r.va, r.pa, r.sz) /\ Restart
  /\ UNCHANGED rc

Return(code) == busy' = "idle" /\ rc' = code /\ Locals(0, 0, 0) /\ Restart

\* The next page or block of the region, if there is one.
Advance(size) ==
  IF sz = size THEN Return(0)
  ELSE busy' = req.call /\ Locals(va + size, pa + size, sz - size) /\ Restart /\ UNCHANGED rc

Desc == mem[pt][Index(level, va)]

\* The walk ends at the last level, or where a block fits.
AtLeaf == level = MaxLevel \/ (va % Block(level) = 0 /\ sz >= Block(level))

Descend(next) ==
  /\ pt' = next /\ level' = level + 1
  /\ walk' = Append(walk, [pt |-> pt, index |-> Index(level, va)])

MapDescend ==
  /\ busy = "map" /\ ~AtLeaf /\ IsTable(Desc)
  /\ Descend(Desc.addr)
  /\ UNCHANGED <<tableVars, busVars, stageVars, busy, req, va, pa, sz, rc>>

\* pt_alloc clears the descriptors of the new table before it is linked.
LinkTable(a) == mem' = [mem EXCEPT ![a] = NoDescs, ![pt][Index(level, va)] = TableDesc(a)]

\* Without a table there, a new one. Its descriptor replaces whatever there is, and
\* a NULL from pt_alloc is not noticed.
MapGrow ==
  /\ busy = "map" /\ ~AtLeaf /\ ~IsTable(Desc)
  /\ LET new == BallocAlloc(free, Size(level + 1), PtAlign) IN
       /\ free' = new.free
       /\ IF new.addr = None
          THEN busy' = "lost" /\ UNCHANGED <<mem, pt, level, walk>>
          ELSE LinkTable(new.addr) /\ Descend(new.addr) /\ UNCHANGED busy
  /\ UNCHANGED <<root, todo, busVars, stageVars, req, va, pa, sz, rc>>

\* The descriptor is stored, unless there is one: then mmu_map fails, and what it
\* mapped stays.
MapStore ==
  /\ busy = "map" /\ AtLeaf
  /\ IF Desc # None
     THEN Return(-1) /\ UNCHANGED mem
     ELSE /\ mem' = [mem EXCEPT ![pt][Index(level, va)] = LeafDesc(pa)]
          /\ Advance(Block(level))
  /\ UNCHANGED <<free, root, todo, busVars, stageVars, req>>

UnmapDescend ==
  /\ busy = "unmap" /\ ~AtLeaf
  /\ IF IsTable(Desc) THEN Descend(Desc.addr) /\ UNCHANGED <<busy, va, pa, sz, rc>> ELSE Return(-1)
  /\ UNCHANGED <<tableVars, busVars, stageVars, req>>

\* The descriptor is cleared; then come the tables on the way back.
UnmapClear ==
  /\ busy = "unmap" /\ AtLeaf
  /\ IF Desc = None THEN Return(-1) /\ UNCHANGED mem
     ELSE /\ mem' = [mem EXCEPT ![pt][Index(level, va)] = None]
          /\ busy' = "back" /\ UNCHANGED <<va, pa, sz, level, pt, walk, rc>>
  /\ UNCHANGED <<free, root, todo, busVars, stageVars, req>>

\* Mutant: only the entries before the one just cleared are looked at.
VacantBefore(a, l) == \A i \in Slots(l) : i < Index(l, va) => mem[a][i] = None

\* Mutant: the entries looked at are those of the table above.
VacantAbove(a, l) == \A i \in Slots(l - 1) : mem[walk[Len(walk)].pt][i] = None

Vacant(a, l) == \A i \in Slots(l) : mem[a][i] = None

\* The level of the table that is looked at next on the way back.
BackLevel == FirstLevel + Len(walk)

\* levp is still that of the descriptor that was cleared.
AdvanceFrom(l) == Advance(Block(l))

\* An empty table is unlinked and freed; the tables above it may be empty now.
UnmapBack ==
  /\ busy = "back"
  /\ IF walk = <<>> \/ ~Vacant(pt, BackLevel)
     THEN AdvanceFrom(level) /\ UNCHANGED <<free, mem>>
     ELSE LET step  == walk[Len(walk)]
              freed == BallocFree(free, pt, Size(BackLevel))
          IN  /\ mem' = [mem EXCEPT ![step.pt][step.index] = None]
              /\ free' = freed.free
              /\ IF freed.rc # 0 THEN Return(freed.rc)
                 ELSE pt' = step.pt /\ walk' = SubSeq(walk, 1, Len(walk) - 1) /\ UNCHANGED <<busy, va, pa, sz, level, rc>>
  /\ UNCHANGED <<root, todo, busVars, stageVars, req>>

-----------------------------------------------------------------------------
(* rt_mmu_init and rt_mmu_deinit                                            *)

Idle == busy = "idle"

\* The SMMU off, the allocator with its area zeroed, a context, the streams; then
\* the first region.
RtInit ==
  /\ Idle /\ stage = "down"
  /\ LET new == BallocAlloc(BallocCreate(AreaSize), Size(FirstLevel), PtAlign) IN
       /\ root' = new.addr /\ free' = new.free
       /\ mem' = [a \in Tables |-> NoDescs] /\ UNCHANGED todo
  /\ enabled' = FALSE /\ smr' = Streams
  /\ boot' \in BootLists /\ nth' = 1 /\ stage' = "init"
  /\ busy' = "start" /\ UNCHANGED <<req, va, pa, sz, level, pt, walk, rc>>

\* mmu_map of boot[nth], or mmu_unmap of it.
CallBoot ==
  /\ busy = "start"
  /\ Call(IF stage = "init" THEN "map" ELSE "unmap", boot[nth])
  /\ UNCHANGED <<tableVars, busVars, stageVars>>

\* rt_mmu_init goes on with the next region, or enables the SMMU, or undoes what it did.
InitNext ==
  /\ Idle /\ stage = "init"
  /\ CASE rc # 0 -> stage' = "undo" /\ nth' = nth - 1 /\ UNCHANGED enabled
       [] rc = 0 /\ nth < Len(boot) -> nth' = nth + 1 /\ UNCHANGED <<stage, enabled>>
       [] OTHER -> stage' = "up" /\ enabled' = TRUE /\ UNCHANGED nth
  /\ busy' = IF stage' = "up" \/ nth' = 0 THEN "idle" ELSE "start"
  /\ UNCHANGED <<tableVars, smr, boot, req, va, pa, sz, level, pt, walk, rc>>

RtDeinit ==
  /\ Idle /\ stage = "up"
  /\ enabled' = FALSE /\ stage' = "deinit" /\ nth' = Len(boot) /\ busy' = "start"
  /\ UNCHANGED <<tableVars, smr, boot, req, va, pa, sz, level, pt, walk, rc>>

\* The regions are unmapped from the last to the first, whatever it returns.
UndoNext ==
  /\ Idle /\ stage \in {"undo", "deinit"} /\ nth > 1
  /\ nth' = nth - 1 /\ busy' = "start"
  /\ UNCHANGED <<tableVars, busVars, stage, boot, req, va, pa, sz, level, pt, walk, rc>>

\* Streams (rt_mmu_deinit knows only that of TRCH) and the registers of the context.
ContextDestroy ==
  /\ Idle /\ stage \in {"undo", "deinit"} /\ nth <= 1
  /\ smr' = IF stage = "undo" THEN {} ELSE smr \ {1}
  /\ root' = None /\ todo' = TablesFrom(mem, root)
  /\ stage' = "destroy" /\ nth' = 0
  /\ UNCHANGED <<free, mem, enabled, boot, callVars>>

\* pt_free frees the tables below a table before the table, and gives up when one
\* cannot be freed.
End(t) == (t.at + 1) * Size(t.level) * Block(t.level)
Before(t, o) == End(t) < End(o) \/ (End(t) = End(o) /\ t.level > o.level)

FreeTable ==
  /\ stage = "destroy"
  /\ \E t \in todo :
       /\ \A o \in todo \ {t} : Before(t, o)
       /\ LET freed == BallocFree(free, t.addr, Size(t.level)) IN
            /\ free' = freed.free
            /\ todo' = IF freed.rc = 0 THEN todo \ {t} ELSE {}
  /\ UNCHANGED <<mem, root, busVars, stageVars, callVars>>

\* balloc_destroy, mmu_destroy
Destroy ==
  /\ stage = "destroy" /\ todo = {} /\ stage' = "down"
  /\ UNCHANGED <<tableVars, busVars, boot, nth, callVars>>

-----------------------------------------------------------------------------
(* rt_mmu_map and rt_mmu_unmap                                              *)

\* The level on which mmu_map puts a page of region r: that of the largest block
\* inside the region that the page is in.
LevelIn(r, page) ==
  FirstOf({l \in Levels : Covers(r, l, page \div Block(l))})

\* A region of smaller pieces inside a block, and a region with a block where there
\* is a table: the code says that it does not support the first (mmu.c:443).
IntoBlock(r) == \E p \in PagesOf(r) : Leaf(p) # None /\ Leaf(p).level < LevelIn(r, p)
OverTable(r) == \E t \in InUse : t.level > FirstLevel /\ Covers(r, t.level - 1, t.at)

RtMap(r) ==
  /\ Idle /\ stage = "up" /\ (Careful => ~IntoBlock(r))
  /\ Call("map", r)
  /\ UNCHANGED <<tableVars, busVars, stageVars>>

RtUnmap(r) ==
  /\ Idle /\ stage = "up" /\ (Careful => ~OverTable(r))
  /\ Call("unmap", r)
  /\ UNCHANGED <<tableVars, busVars, stageVars>>

-----------------------------------------------------------------------------
Run  == MapDescend \/ MapGrow \/ MapStore \/ UnmapDescend \/ UnmapClear \/ UnmapBack
Glue == CallBoot \/ InitNext \/ UndoNext \/ ContextDestroy \/ FreeTable \/ Destroy
MmuNext ==
  \/ Run \/ Glue \/ RtInit \/ RtDeinit
  \/ \E r \in Requests : RtMap(r) \/ RtUnmap(r)

MmuSpec == MmuInit /\ [][MmuNext]_mmuVars

-----------------------------------------------------------------------------
(* Properties *)

MmuTypeOK ==
  /\ free \in [Entries -> [addr : Nat, size : Nat \ {0}] \cup {None}]
  /\ mem \in [Tables -> [0 .. (PtAlign - 1) -> Descs \cup {None}]]
  /\ root \in Tables \cup {None} /\ todo \subseteq TableRecs
  /\ enabled \in BOOLEAN /\ smr \subseteq Streams
  /\ stage \in {"down", "init", "up", "deinit", "undo", "destroy"}
  /\ boot \in BootLists /\ nth \in 0 .. Len(boot)
  /\ busy \in {"idle", "start", "map", "unmap", "back", "lost"}
  /\ req \in Calls \cup {None} /\ va \in Nat /\ pa \in Nat /\ sz \in Nat
  /\ level \in Levels /\ pt \in Tables \cup {None} /\ rc \in {0, -1}
  /\ walk \in Seq([pt : Tables, index : 0 .. (PtAlign - 1)])

\* The tables that some region needs: below a block that it has only a part of.
AllRegions == Requests \cup UNION {{b[n] : n \in DOMAIN b} : b \in BootLists}
Needed ==
  {<<FirstLevel, 0>>} \cup
  {q \in (Levels \ {FirstLevel}) \X Pages : \E r \in AllRegions :
     (\E p \in PagesOf(r) : q[2] = p \div Block(q[1] - 1)) /\ ~Covers(r, q[1] - 1, q[2])}

\* The area has room for them; clients keep to what the code supports, and no region that
\* is mapped at start has a block where another region needs a table.
Supported ==
  /\ Cardinality(Needed) <= Cardinality(Tables)
  /\ Careful
  /\ \A b \in BootLists : \A n \in DOMAIN b : \A q \in Needed :
       q[1] # FirstLevel => ~Covers(b[n], q[1] - 1, q[2])

\* free_blocks[] still has an empty entry, as long as tables are in use: the pieces that the
\* rest of the area is in can become more than MAX_BLOCKS, if it has places for more tables.
EntryLeft == InUse # {} => EmptyIn(free) # {}

\* Where a region is mapped with a block, its frames are aligned like the block: mmu_map
\* does not check it, and the descriptor would lose address bits (mmu.c:449).
FramesFit ==
  \A r \in AllRegions, l \in Levels, n \in Pages :
    Covers(r, l, n) => (r.pa + (n * Block(l) - r.va)) % Block(l) = 0

\* No descriptor of the page-table area is lost, freed while a table uses it, or used
\* by two tables or through two paths, through all maps, failed maps, unmaps, and
\* cycles of init and deinit; so the tables never run out in an area that is just
\* large enough for all regions.
AreaExact ==
  /\ busy # "lost"
  /\ \A u \in 0 .. (AreaSize - 1) :
       Cardinality({i \in Entries : u \in Units(free[i])}) + Cardinality({t \in InUse : u \in Extent(t)}) = 1

\* At no moment does a device see a page change that is not in the region of the call
\* in progress, or one that changes otherwise than from unmapped to its frame (map)
\* or to unmapped (unmap). Only the end of the context takes everything away.
OnlyRequested ==
  [][\A p \in Pages : Frame(p)' # Frame(p) =>
       \/ root' = None /\ ~enabled
       \/ /\ req # None /\ p \in PagesOf(req)
          /\ IF req.call = "map" THEN Frame(p) = None /\ Frame(p)' = req.pa + (p - req.va)
             ELSE Frame(p)' = None]_<<mem, root>>

\* What mmu_map returns success for is there, and what mmu_unmap returns success for
\* is gone.
Completed ==
  Idle /\ root # None /\ req # None /\ rc = 0 =>
    \A p \in PagesOf(req) :
      Frame(p) = IF req.call = "map" THEN req.pa + (p - req.va) ELSE None

\* The result is true: success means that, and mmu_map fails only when a page of the
\* region is mapped: no table that has become empty, or is left by a call that failed,
\* is in the way of a block.
ReportedTruly ==
  [][/\ Completed'
     /\ busy = "map" /\ busy' = "idle" /\ rc' # 0 =>
          \E p \in va .. (va + Block(level) - 1) : Frame(p) # None]_mmuVars

\* "overlapping/overwriting mappings not supported ... simply breaking previously
\* created mappings is confusing semantics" (mmu.c:443-446): mmu_map changes no page
\* that is mapped.
MapKeeps == [][busy = "map" => \A p \in Pages : Frame(p) # None => Frame(p)' = Frame(p)]_mmuVars

=============================================================================

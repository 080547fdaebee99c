--------------------------------- MODULE Ag ----------------------------------
(***************************************************************************)
(* An allocation group being written: struct `Ag` of alloc.rs.             *)
(*                                                                         *)
(* The group's free space, inode chunks and reverse mappings are kept in   *)
(* memory; ordinary operations change only that.  At a flush the group's   *)
(* B+trees are laid out afresh (`rebuild`), and what they say becomes the  *)
(* group's image on disk.  A new session reads the image back (`load`).    *)
(*                                                                         *)
(* The caller (write.rs) is modelled by what it holds: runs of blocks it   *)
(* has allocated and not yet given an owner (`taken`), and the extents     *)
(* that inodes' forks map (`forks`).  The calls are synchronous, so each   *)
(* is one action, except `rebuild`: its three loops are one step per turn, *)
(* with nothing in between, and its local variables are the record `rb`.   *)
(***************************************************************************)
EXTENDS Extents, Rmaps, Btrees

CONSTANTS
    AgLen,          \* blocks in the group
    Headers,        \* the blocks of the superblock copy, AGF, AGI and AGFL
    Agfl,           \* the AGFL's blocks; nothing here changes them
    Inodes,         \* inodes that may own blocks of the group
    HasRmap,        \* the filesystem keeps reverse mappings
    HasFinobt,      \* ... and a free-inode B+tree
    LeafMax,        \* records in a leaf, by tree
    NodeMax,        \* keys in a node, by tree
    InodesPerBlock,
    ChunkBlocks,    \* blocks of an inode chunk (64 inodes in the code)
    InodeAlign,     \* alignment of a chunk, in blocks
    MaxExtent,      \* MAX_EXTENT
    ReserveSlack,   \* 32 in the code
    ReserveShare,   \* 8 in the code: at most 1/8 of the group is reserved
    MaxTries,       \* 32 in the code
    Wants,          \* bound: lengths a caller asks for
    Nears,          \* bound: blocks a caller asks to be near, or not to get
    MaxTaken,       \* bound: runs a caller holds at a time
    MaxForks,       \* bound: extents mapped by inodes
    MaxCalls,       \* bound: calls the caller makes
    Images          \* groups a session may start from, as the kernel left them

Blocks == 0 .. (AgLen - 1)
Trees == {"bno", "cnt", "rmap", "inobt", "finobt"}
ChunkInodes == ChunkBlocks * InodesPerBlock

Chunks == [holes : SUBSET (0 .. (ChunkInodes - 1)), free : SUBSET (0 .. (ChunkInodes - 1))]
Maps == [start : Nat, len : Nat \ {0}, owner : Inodes, off : Nat, fork : {"data", "attr", "bmbt"}]

(* What a group's records are, on disk and in memory. *)
RecordsOK(f, cs, rm) ==
    /\ DOMAIN f \subseteq Blocks /\ \A s \in DOMAIN f : f[s] \in Nat
    /\ DOMAIN cs \subseteq Nat /\ IsFiniteSet(DOMAIN cs) /\ \A s \in DOMAIN cs : cs[s] \in Chunks
    /\ IsFiniteSet(rm)

(* An extent of a fork lies in the group; offsets are bounded by it too. *)
MapOK(e) == e \in Maps /\ e.start + e.len <= AgLen /\ e.off + e.len <= AgLen

ASSUME SizesAssumption ==
    /\ AgLen \in Nat \ {0}
    /\ Headers \subseteq Blocks /\ Agfl \subseteq Blocks
    /\ Inodes \cap SpecialOwners = {}
    /\ HasRmap \in BOOLEAN /\ HasFinobt \in BOOLEAN
    /\ LeafMax \in [Trees -> Nat \ {0}] /\ NodeMax \in [Trees -> Nat \ {0, 1}]
    /\ InodesPerBlock \in Nat \ {0} /\ ChunkBlocks \in Nat \ {0} /\ InodeAlign \in Nat
    /\ MaxExtent \in Nat \ {0} /\ MaxTries \in Nat \ {0}
    /\ ReserveSlack \in Nat /\ ReserveShare \in Nat \ {0}
ASSUME BoundsAssumption ==
    /\ Wants \subseteq Nat \ {0} /\ Nears \subseteq Blocks
    /\ MaxTaken \in Nat /\ MaxForks \in Nat /\ MaxCalls \in Nat

VARIABLES
    free,             \* free extents: start -> length
    free_total,       \* blocks in `free`
    reserve,          \* free blocks ordinary allocations leave alone
    old_tree_blocks,  \* the trees' blocks, free when they are rebuilt
    chunks,           \* inode chunks: first inode -> [holes, free]
    rmap,             \* reverse mappings
    dirty,            \* whether anything changed
    rb,               \* `rebuild`: its locals
    taken,            \* the caller: runs allocated and not yet mapped
    forks,            \* the caller: extents mapped by inodes
    disk,             \* what the last rebuild laid out
    calls,            \* calls made so far, up to the bound
    failed,           \* history: a rebuild has returned an error
    err               \* history: a call has reported corruption

agVars == <<free, free_total, reserve, old_tree_blocks, chunks, rmap, dirty>>
callerVars == <<taken, forks>>
vars == <<agVars, rb, callerVars, disk, calls, failed, err>>

-----------------------------------------------------------------------------
(* Chunks.                                                                 *)

(* `free_count`, as a set: free inodes that are really there. *)
FreeInodes(c) == c.free \ c.holes

ChunkRuns(start, c) ==
    {(start + i) \div InodesPerBlock : i \in (0 .. (ChunkInodes - 1)) \ c.holes}
ChunkBlocksOf(cs) == UNION {ChunkRuns(start, cs[start]) : start \in DOMAIN cs}

(* The lowest chunk with a free inode, the lowest bit in it. *)
ChunksWithFree(cs) == {start \in DOMAIN cs : FreeInodes(cs[start]) # {}}

-----------------------------------------------------------------------------
(* The trees' sizes.                                                       *)

TreeSize(t, recs) == blocks_for(recs, LeafMax[t], NodeMax[t])

ino_need(cs) ==
    TreeSize("inobt", Cardinality(DOMAIN cs))
      + IF HasFinobt THEN TreeSize("finobt", Cardinality(ChunksWithFree(cs))) ELSE 0

ag_need(freeRecs, rmapRecs) ==
    TreeSize("bno", freeRecs) + TreeSize("cnt", freeRecs)
      + IF HasRmap THEN TreeSize("rmap", rmapRecs) ELSE 0

ReserveFor(trees) ==
    Min({2 * Cardinality(trees) + ReserveSlack, AgLen \div ReserveShare})

(* The n lowest blocks of a sorted list; the blocks of a set of runs, and  *)
(* of the extents of a set of forks.                                       *)
Lowest(S, n) == {x \in S : Cardinality({y \in S : y < x}) < n}
RunBlocks(runs) == UNION {Run(r[1], r[2]) : r \in runs}
MappedBlocks(es) == UNION {Run(e.start, e.len) : e \in es}

-----------------------------------------------------------------------------
(* The image.  `freeblks`, `longest` and `btreeblks` are fields of the AGF,*)
(* `icount` and `ifree` of the AGI.                                        *)

(* The sum of the extents' lengths: they have been checked not to overlap, *)
(* so it is how many blocks they cover.                                    *)
FreeCount(f) == Cardinality(Covered(f))

TreeBlocks(d) == UNION {d.trees[t] : t \in Trees}

(* What `rebuild` writes for these records, with the trees in these blocks. *)
Image(f, cs, rm, agList, inoList) ==
    LET nb == TreeSize("bno", Cardinality(DOMAIN f))
        nc == TreeSize("cnt", Cardinality(DOMAIN f))
        ni == TreeSize("inobt", Cardinality(DOMAIN cs))
        trees == [t \in Trees |->
                    CASE t = "bno"    -> Lowest(agList, nb)
                      [] t = "cnt"    -> Lowest(agList, nb + nc) \ Lowest(agList, nb)
                      [] t = "rmap"   -> IF HasRmap THEN agList \ Lowest(agList, nb + nc) ELSE {}
                      [] t = "inobt"  -> Lowest(inoList, ni)
                      [] t = "finobt" -> IF HasFinobt THEN inoList \ Lowest(inoList, ni) ELSE {}]
        lens == {f[s] : s \in DOMAIN f}
    IN  [free |-> f, chunks |-> cs, rmap |-> merged_rmap(rm), trees |-> trees,
         freeblks  |-> FreeCount(f),
         longest   |-> IF lens = {} THEN 0 ELSE Max(lens),
         btreeblks |-> (nb - 1) + (nc - 1)
                         + IF HasRmap THEN Cardinality(trees["rmap"]) - 1 ELSE 0,
         icount    |-> MapThenSumSet(LAMBDA s : ChunkInodes - Cardinality(cs[s].holes), DOMAIN cs),
         ifree     |-> MapThenSumSet(LAMBDA s : Cardinality(FreeInodes(cs[s])), DOMAIN cs)]

(* What `load` refuses: free extents out of order, empty or out of range,  *)
(* or not as many blocks as the AGF says.                                  *)
LoadRefuses(d) ==
    \/ \E s \in DOMAIN d.free : d.free[s] = 0 \/ s + d.free[s] > AgLen
    \/ \E s, t \in DOMAIN d.free : s < t /\ s + d.free[s] > t
    \/ FreeCount(d.free) # d.freeblks

-----------------------------------------------------------------------------
(* Who has each block: the group, by its records and its trees' blocks,    *)
(* and its caller.                                                         *)

Owners(f, trees, cs, es, runs) ==
    [free |-> Covered(f), headers |-> Headers, agfl |-> Agfl, trees |-> trees,
     chunks |-> ChunkBlocksOf(cs), forks |-> MappedBlocks(es), taken |-> RunBlocks(runs)]

Apart(P) == \A p, q \in DOMAIN P : p # q => P[p] \cap P[q] = {}
AllOf(P) == UNION {P[p] : p \in DOMAIN P}

(* What the reverse mappings say when they are exact: for every block that *)
(* is not free, its owner, fork and place.                                 *)
ExactPlaces(es, cs, agTrees, inoTrees) ==
    Places(es)
      \cup SystemPlaces(Headers, FS)
      \cup SystemPlaces(Agfl \cup agTrees, AG)
      \cup SystemPlaces(inoTrees, INOBT)
      \cup SystemPlaces(ChunkBlocksOf(cs), INODES)
InoTrees(d) == d.trees["inobt"] \cup d.trees["finobt"]

(* A session starts from a group that the kernel keeps: its records are    *)
(* well formed, its trees and its files' extents lie inside it, each block *)
(* has one owner, a chunk has at least one inode that is there, and the    *)
(* reverse mappings are exact and merged.                                  *)
KernelKeeps(d, es) ==
    /\ WellFormed(d.free, AgLen)
    /\ RecordsOK(d.free, d.chunks, d.rmap)
    /\ d.trees \in [Trees -> SUBSET Blocks]
    /\ \A e \in es : MapOK(e)
    /\ LET P == Owners(d.free, TreeBlocks(d), d.chunks, es, {}) IN Apart(P) /\ AllOf(P) = Blocks
    /\ ExtentsApart(es)
    /\ \A s \in DOMAIN d.chunks : d.chunks[s].holes # 0 .. (ChunkInodes - 1)
    /\ HasRmap =>
          /\ WellKept(d.rmap, AgLen) /\ merged_rmap(d.rmap) = d.rmap
          /\ Places(d.rmap) = ExactPlaces(es, d.chunks, TreeBlocks(d) \ InoTrees(d), InoTrees(d))

ASSUME ImagesAssumption == \A im \in Images : KernelKeeps(im.disk, im.forks)

-----------------------------------------------------------------------------
Idle == [pc |-> "idle", todo |-> {}, tries |-> 0, left |-> 0, ag_blocks |-> 0,
         ag_run |-> {}, ino_run |-> {},
         base |-> [free |-> [x \in {} |-> 0], total |-> 0, rmap |-> {}]]

Init ==
    /\ \E image \in Images :
          LET d == image.disk IN
          /\ ~ LoadRefuses(d)
          /\ disk = d
          /\ forks = image.forks
          /\ free = d.free
          /\ free_total = FreeCount(d.free)
          /\ old_tree_blocks = TreeBlocks(d)
          /\ reserve = ReserveFor(TreeBlocks(d))
          /\ chunks = d.chunks
          /\ rmap = d.rmap
    /\ dirty = FALSE
    /\ rb = Idle
    /\ taken = {}
    /\ calls = 0
    /\ failed = FALSE
    /\ err = FALSE

(* Between calls; a call counts towards the bound. *)
Call ==
    /\ rb.pc = "idle"
    /\ calls < MaxCalls
    /\ calls' = calls + 1

(* `load`, in a session that opens the image the last flush left. *)
Reload ==
    /\ Call /\ taken = {} /\ ~ dirty
    /\ ~ LoadRefuses(disk)
    /\ free' = disk.free
    /\ free_total' = FreeCount(disk.free)
    /\ old_tree_blocks' = TreeBlocks(disk)
    /\ reserve' = ReserveFor(TreeBlocks(disk))
    /\ chunks' = disk.chunks
    /\ rmap' = disk.rmap
    /\ dirty' = FALSE
    /\ UNCHANGED <<rb, callerVars, disk, failed, err>>

-----------------------------------------------------------------------------
(* Free space.                                                             *)

(* `spare`: blocks an ordinary allocation may still take. *)
spare == IF free_total > reserve THEN free_total - reserve ELSE 0

(* `take`, with the counter it keeps. *)
TakeRun(start, len) ==
    /\ free' = Take(free, start, len)
    /\ free_total' = free_total - len
    /\ dirty' = TRUE

(* A call of this group's `alloc` by `alloc_blocks`. *)
AllocWant(want) == Min({want, MaxExtent, spare})

Alloc(want, near) ==
    LET run == Pick(free, AllocWant(want), near) IN
    /\ Call
    /\ AllocWant(want) > 0 /\ DOMAIN free # {}
    /\ TakeRun(run[1], run[2])
    /\ Cardinality(taken) < MaxTaken
    /\ taken' = taken \cup {run}
    /\ UNCHANGED <<reserve, old_tree_blocks, chunks, rmap, rb, forks, disk, failed, err>>

(* `alloc_block_except`, for a symbolic link's target. *)
AllocBlockExcept(not) ==
    LET b == Min(NotBlock(free, not)) IN
    /\ Call
    /\ spare > 0 /\ NotBlock(free, not) # {}
    /\ TakeRun(b, 1)
    /\ Cardinality(taken) < MaxTaken
    /\ taken' = taken \cup {<<b, 1>>}
    /\ UNCHANGED <<reserve, old_tree_blocks, chunks, rmap, rb, forks, disk, failed, err>>

(* Mutant of GiveBack: the counter is not kept. *)
GiveBackUncounted(start, len) ==
    /\ free' = FreeExtent(free, start, len, AgLen).free
    /\ UNCHANGED free_total
    /\ dirty' = TRUE

(* `free_extent`, with the counter it keeps. *)
GiveBack(start, len) ==
    LET r == FreeExtent(free, start, len, AgLen) IN
    /\ free' = r.free
    /\ free_total' = IF r.ok THEN free_total + len ELSE free_total
    /\ dirty' = (dirty \/ r.ok)

(* The caller gives back a run it took and could not use: `alloc_blocks`   *)
(* and `symlink` when there is no room for the rest.                       *)
Untake(run) ==
    /\ Call
    /\ run \in taken
    /\ GiveBack(run[1], run[2])
    /\ taken' = taken \ {run}
    /\ err' = (err \/ ~ FreeExtent(free, run[1], run[2], AgLen).ok)
    /\ UNCHANGED <<reserve, old_tree_blocks, chunks, rmap, rb, forks, disk, failed>>

-----------------------------------------------------------------------------
(* Reverse mappings.                                                       *)

(* `rmap_add`. *)
rmap_add(records) == IF HasRmap THEN rmap \cup records ELSE rmap

(* Where an inode's data fork ends. *)
DataEnd(ino) ==
    LET ends == {e.off + e.len : e \in {x \in forks : x.owner = ino /\ x.fork = "data"}}
    IN  IF ends = {} THEN 0 ELSE Max(ends)

(* `rmap_extent`: the caller maps a run it took, in a fork or its B+tree. *)
MapRun(run, ino, fork) ==
    LET r == Rmap(run[1], run[2], ino, IF fork = "data" THEN DataEnd(ino) ELSE 0, fork) IN
    /\ Call
    /\ run \in taken
    /\ taken' = taken \ {run}
    /\ Cardinality(forks) < MaxForks
    /\ DataEnd(ino) + run[2] <= AgLen
    /\ forks' = forks \cup {r}
    /\ rmap' = rmap_add({r})
    /\ dirty' = (dirty \/ HasRmap)
    /\ UNCHANGED <<free, free_total, reserve, old_tree_blocks, chunks, rb, disk, failed, err>>

(* `release`: blocks given back, then their owner forgotten. *)
Release(e) ==
    LET ok == FreeExtent(free, e.start, e.len, AgLen).ok
        rm == rmap_remove(rmap, e.start, e.len, e.owner) IN
    /\ Call
    /\ e \in forks
    /\ GiveBack(e.start, e.len)
    /\ forks' = forks \ {e}
    /\ rmap' = IF HasRmap /\ ok THEN rm.rmap ELSE rmap
    /\ err' = (err \/ ~ ok \/ (HasRmap /\ rm.removed # e.len))
    /\ UNCHANGED <<reserve, old_tree_blocks, chunks, rb, taken, disk, failed>>

-----------------------------------------------------------------------------
(* Inodes.                                                                 *)

(* `alloc_inode`. *)
AllocInode ==
    LET start == Min(ChunksWithFree(chunks))
        i     == Min(FreeInodes(chunks[start])) IN
    /\ Call
    /\ ChunksWithFree(chunks) # {}
    /\ chunks' = [chunks EXCEPT ![start].free = @ \ {i}]
    /\ dirty' = TRUE
    /\ UNCHANGED <<free, free_total, reserve, old_tree_blocks, rmap, rb, callerVars, disk, failed, err>>

(* `alloc_chunk`: a new, wholly free chunk. *)
AllocChunk ==
    LET align == Max({InodeAlign, ChunkBlocks, 1})
        fits  == Aligned(free, ChunkBlocks, align)
        agbno == Min(fits)
        chunk == [holes |-> {}, free |-> 0 .. (ChunkInodes - 1)] IN
    /\ Call
    /\ spare >= ChunkBlocks /\ fits # {}
    /\ TakeRun(agbno, ChunkBlocks)
    /\ chunks' = With(chunks, agbno * InodesPerBlock, chunk)
    /\ rmap' = rmap_add({Rmap(agbno, ChunkBlocks, INODES, 0, "bmbt")})
    /\ UNCHANGED <<reserve, old_tree_blocks, rb, callerVars, disk, failed, err>>

(* Mutant of FreeInode: the group is not marked. *)
FreeInodeUnmarked(agino) ==
    LET start == AtOrBefore(chunks, agino) IN
    /\ Call
    /\ (agino - start) \notin chunks[start].free
    /\ chunks' = [chunks EXCEPT ![start].free = @ \cup {agino - start}]
    /\ UNCHANGED <<free, free_total, reserve, old_tree_blocks, rmap, dirty, rb, callerVars,
                   disk, failed, err>>

(* `free_inode`, of an inode the caller has in use. *)
FreeInode(agino) ==
    LET start == AtOrBefore(chunks, agino) IN
    /\ Call
    /\ agino < start + ChunkInodes
    /\ (agino - start) \notin chunks[start].free
    /\ chunks' = [chunks EXCEPT ![start].free = @ \cup {agino - start}]
    /\ dirty' = TRUE
    /\ UNCHANGED <<free, free_total, reserve, old_tree_blocks, rmap, rb, callerVars, disk, failed, err>>

InUse == UNION {{start + i : i \in (0 .. (ChunkInodes - 1)) \ chunks[start].free} :
                start \in DOMAIN chunks}

-----------------------------------------------------------------------------
(* `rebuild`, turn by turn.  Its caller, `flush`, does it to dirty groups. *)

RebuildStart ==
    /\ Call /\ taken = {} /\ dirty
    /\ rb' = [Idle EXCEPT !.pc = "free", !.todo = old_tree_blocks]
    /\ old_tree_blocks' = {}
    /\ UNCHANGED <<free, free_total, reserve, chunks, rmap, dirty, callerVars, disk, failed, err>>

(* The old trees' blocks are freed one by one (in the order they were      *)
(* read; the map they leave is the same in any).                           *)
RebuildFree ==
    LET b  == Min(rb.todo)
        ok == FreeExtent(free, b, 1, AgLen).ok IN
    /\ rb.pc = "free" /\ rb.todo # {}
    /\ GiveBack(b, 1)
    /\ rb' = IF ok THEN [rb EXCEPT !.todo = @ \ {b}] ELSE Idle
    /\ err' = (err \/ ~ ok)
    /\ failed' = (failed \/ ~ ok)
    /\ UNCHANGED <<reserve, old_tree_blocks, chunks, rmap, callerVars, disk, calls>>

(* The mappings of the old trees go, the AGFL's come back, and the size    *)
(* the free-space and reverse-mapping trees need is guessed.               *)
AgflMaps == {Rmap(b, 1, AG, 0, "bmbt") : b \in Agfl}

(* Mutant of RebuildBase: the inode trees' mappings are kept. *)
RebuildBaseKeepsInobt ==
    /\ rb.pc = "free" /\ rb.todo = {}
    /\ rmap' = {r \in rmap : r.owner # AG} \cup (IF HasRmap THEN AgflMaps ELSE {})
    /\ rb' = [rb EXCEPT !.pc = "try",
                        !.base = [free |-> free, total |-> free_total, rmap |-> rmap'],
                        !.ag_blocks = ag_need(Cardinality(DOMAIN free),
                                              Cardinality(merged_rmap(rmap')) + 2)]
    /\ UNCHANGED <<free, free_total, reserve, old_tree_blocks, chunks, dirty,
                   callerVars, disk, calls, failed, err>>

RebuildBase ==
    /\ rb.pc = "free" /\ rb.todo = {}
    /\ rmap' = {r \in rmap : r.owner \notin {AG, INOBT}} \cup (IF HasRmap THEN AgflMaps ELSE {})
    /\ rb' = [rb EXCEPT !.pc = "try",
                        !.base = [free |-> free, total |-> free_total, rmap |-> rmap'],
                        !.ag_blocks = ag_need(Cardinality(DOMAIN free),
                                              Cardinality(merged_rmap(rmap')) + 2)]
    /\ UNCHANGED <<free, free_total, reserve, old_tree_blocks, chunks, dirty,
                   callerVars, disk, calls, failed, err>>

(* Mutants of RebuildTry: the base is not put back; what the last turn     *)
(* carved is not forgotten; the turns are not counted.                     *)
RebuildTryNoBase ==
    /\ rb.pc = "try" /\ rb.tries < MaxTries
    /\ rb' = [rb EXCEPT !.pc = "ino", !.tries = @ + 1, !.left = ino_need(chunks),
                        !.ag_run = {}, !.ino_run = {}]
    /\ UNCHANGED <<agVars, callerVars, disk, calls, failed, err>>
RebuildTryKeepsRuns ==
    /\ rb.pc = "try" /\ rb.tries < MaxTries
    /\ free' = rb.base.free /\ free_total' = rb.base.total /\ rmap' = rb.base.rmap
    /\ rb' = [rb EXCEPT !.pc = "ino", !.tries = @ + 1, !.left = ino_need(chunks)]
    /\ UNCHANGED <<reserve, old_tree_blocks, chunks, dirty, callerVars, disk, calls, failed, err>>
RebuildTryUncounted ==
    /\ rb.pc = "try" /\ rb.tries < MaxTries
    /\ free' = rb.base.free /\ free_total' = rb.base.total /\ rmap' = rb.base.rmap
    /\ rb' = [rb EXCEPT !.pc = "ino", !.left = ino_need(chunks), !.ag_run = {}, !.ino_run = {}]
    /\ UNCHANGED <<reserve, old_tree_blocks, chunks, dirty, callerVars, disk, calls, failed, err>>

(* A turn of the loop starts from the base again. *)
RebuildTry ==
    /\ rb.pc = "try" /\ rb.tries < MaxTries
    /\ free' = rb.base.free
    /\ free_total' = rb.base.total
    /\ rmap' = rb.base.rmap
    /\ rb' = [rb EXCEPT !.pc = "ino", !.tries = @ + 1, !.left = ino_need(chunks),
                        !.ag_run = {}, !.ino_run = {}]
    /\ UNCHANGED <<reserve, old_tree_blocks, chunks, dirty, callerVars, disk, calls, failed, err>>

(* "B+tree sizes do not settle", or "no room for its B+trees": the error   *)
(* leaves the group as the last turn made it.                              *)
RebuildFails ==
    /\ \/ rb.pc = "try" /\ rb.tries = MaxTries
       \/ rb.pc \in {"ino", "ag"} /\ rb.left > 0 /\ DOMAIN free = {}
    /\ rb' = Idle
    /\ failed' = TRUE
    /\ UNCHANGED <<agVars, callerVars, disk, calls, err>>

(* A turn of `carve`'s loop: from the end of the longest extent. *)
Carve ==
    LET s    == Longest(free)
        take == Min({free[s], rb.left})
        at   == s + free[s] - take IN
    /\ rb.pc \in {"ino", "ag"} /\ rb.left > 0 /\ DOMAIN free # {}
    /\ TakeRun(at, take)
    /\ rb' = IF rb.pc = "ino"
             THEN [rb EXCEPT !.left = @ - take, !.ino_run = @ \cup {<<at, take>>}]
             ELSE [rb EXCEPT !.left = @ - take, !.ag_run = @ \cup {<<at, take>>}]
    /\ UNCHANGED <<reserve, old_tree_blocks, chunks, rmap, callerVars, disk, calls, failed, err>>

(* The inode trees' blocks are carved; the others' are next. *)
RebuildInoCarved ==
    /\ rb.pc = "ino" /\ rb.left = 0
    /\ rb' = [rb EXCEPT !.pc = "ag", !.left = rb.ag_blocks]
    /\ UNCHANGED <<agVars, callerVars, disk, calls, failed, err>>

(* Both are: the sizes hold and the trees are laid out, or another turn is *)
(* made with the size now needed.                                          *)
CarvedMaps ==
    {Rmap(r[1], r[2], AG, 0, "bmbt") : r \in rb.ag_run}
      \cup {Rmap(r[1], r[2], INOBT, 0, "bmbt") : r \in rb.ino_run}
NeedNow == ag_need(Cardinality(DOMAIN free), Cardinality(merged_rmap(rmap_add(CarvedMaps))))

RebuildAgain ==
    /\ rb.pc = "ag" /\ rb.left = 0
    /\ NeedNow # rb.ag_blocks
    /\ rmap' = rmap_add(CarvedMaps)
    /\ rb' = [rb EXCEPT !.pc = "try", !.ag_blocks = NeedNow]
    /\ UNCHANGED <<free, free_total, reserve, old_tree_blocks, chunks, dirty,
                   callerVars, disk, calls, failed, err>>

(* Mutant of RebuildFinish: the sizes are not worked out again. *)
RebuildFinishAtOnce ==
    LET agList  == RunBlocks(rb.ag_run)
        inoList == RunBlocks(rb.ino_run) IN
    /\ rb.pc = "ag" /\ rb.left = 0
    /\ rmap' = rmap_add(CarvedMaps)
    /\ disk' = Image(free, chunks, rmap', agList, inoList)
    /\ old_tree_blocks' = agList \cup inoList
    /\ reserve' = ReserveFor(agList \cup inoList)
    /\ dirty' = FALSE
    /\ rb' = Idle
    /\ UNCHANGED <<free, free_total, chunks, callerVars, calls, failed, err>>

RebuildFinish ==
    LET agList  == RunBlocks(rb.ag_run)
        inoList == RunBlocks(rb.ino_run) IN
    /\ rb.pc = "ag" /\ rb.left = 0
    /\ NeedNow = rb.ag_blocks
    /\ rmap' = rmap_add(CarvedMaps)
    /\ disk' = Image(free, chunks, rmap', agList, inoList)
    /\ old_tree_blocks' = agList \cup inoList
    /\ reserve' = ReserveFor(agList \cup inoList)
    /\ dirty' = FALSE
    /\ rb' = Idle
    /\ UNCHANGED <<free, free_total, chunks, callerVars, calls, failed, err>>

Rebuild ==
    \/ RebuildStart \/ RebuildFree \/ RebuildBase \/ RebuildTry \/ RebuildFails
    \/ Carve \/ RebuildInoCarved \/ RebuildAgain \/ RebuildFinish

-----------------------------------------------------------------------------
Next ==
    \/ \E want \in Wants, near \in Nears : Alloc(want, near)
    \/ \E not \in Nears : AllocBlockExcept(not)
    \/ \E run \in taken : Untake(run)
    \/ \E run \in taken, ino \in Inodes, fork \in {"data", "bmbt"} : MapRun(run, ino, fork)
    \/ \E e \in forks : Release(e)
    \/ AllocInode
    \/ AllocChunk
    \/ \E agino \in InUse : FreeInode(agino)
    \/ Rebuild
    \/ Reload

(* A rebuild runs to its end: it is one call that waits for nothing. *)
Fairness == WF_vars(Rebuild /\ rb.pc # "idle")

Spec == Init /\ [][Next]_vars /\ Fairness

-----------------------------------------------------------------------------
(* Properties.                                                             *)

RbPcs == {"idle", "free", "try", "ino", "ag"}
RunsOK(runs) == \A r \in runs : /\ r = <<r[1], r[2]>> /\ r[1] \in Nat /\ r[2] \in Nat \ {0}
                                /\ r[1] + r[2] <= AgLen

(* The shape of the state. *)
RbOK ==
    /\ rb = [pc |-> rb.pc, todo |-> rb.todo, tries |-> rb.tries, left |-> rb.left,
             ag_blocks |-> rb.ag_blocks, ag_run |-> rb.ag_run, ino_run |-> rb.ino_run,
             base |-> rb.base]
    /\ rb.pc \in RbPcs /\ rb.todo \subseteq Blocks
    /\ rb.tries \in 0 .. MaxTries /\ rb.left \in Nat /\ rb.ag_blocks \in Nat
    /\ RunsOK(rb.ag_run) /\ RunsOK(rb.ino_run)
    /\ IsFiniteSet(rb.ag_run) /\ IsFiniteSet(rb.ino_run)
    /\ DOMAIN rb.base.free \subseteq Blocks /\ \A s \in DOMAIN rb.base.free : rb.base.free[s] \in Nat
    /\ rb.base.total \in Int /\ IsFiniteSet(rb.base.rmap)
TypeOK ==
    /\ RecordsOK(free, chunks, rmap)
    /\ free_total \in Int /\ reserve \in Nat
    /\ old_tree_blocks \subseteq Blocks
    /\ dirty \in BOOLEAN /\ failed \in BOOLEAN /\ err \in BOOLEAN
    /\ RbOK
    /\ calls \in 0 .. MaxCalls
    /\ RunsOK(taken)
    /\ \A e \in forks : MapOK(e)
    /\ RecordsOK(disk.free, disk.chunks, disk.rmap)
    /\ disk.trees \in [Trees -> SUBSET Blocks]

(* The free map is always what the kernel would keep: in order, inside the *)
(* group and maximal, through every take, free and rebuild.                *)
FreeMapOK == WellFormed(free, AgLen)

(* `free_total`, kept by additions and subtractions, is the size of the map. *)
TotalExact == free_total = FreeCount(free)

(* Who has each block, as the group and its caller see it. *)
ForkBlocks == MappedBlocks(forks)
CarvedBlocks == RunBlocks(rb.ag_run) \cup RunBlocks(rb.ino_run)
Pieces == Owners(free, old_tree_blocks \cup rb.todo \cup CarvedBlocks, chunks, forks, taken)

(* No block is ever in two places: free and in use, or of two owners.  It  *)
(* survives failed rebuilds, partial frees and every order of calls.       *)
NoSharing ==
    /\ Apart(Pieces)
    /\ ExtentsApart(forks)
    /\ \A e, x \in taken : e # x => Run(e[1], e[2]) \cap Run(x[1], x[2]) = {}
    /\ RunBlocks(rb.ag_run) \cap RunBlocks(rb.ino_run) = {}

(* No block is lost, as long as every rebuild has succeeded. *)
Accounted == AllOf(Pieces) = Blocks
NoLeak == ~ failed => Accounted

(* The group never reports its own books as corrupt: no free of a block    *)
(* that is free already, no reverse mapping that does not cover what is    *)
(* given back, in any order of calls and after any rebuild.                *)
NoCorruption == ~ err

(* Between calls, every block that is not free or on its way to an owner   *)
(* has exactly one reverse mapping, with its owner, fork and place; the    *)
(* others have none.  Splitting and merging records keeps it so.           *)
RmapExact ==
    HasRmap /\ rb.pc = "idle" /\ ~ failed =>
        /\ Places(rmap) = ExactPlaces(forks, chunks, old_tree_blocks \ InoTrees(disk), InoTrees(disk))
        /\ ExtentsApart(rmap)

(* A group that is not dirty is on disk as it is in memory, so a flush may *)
(* leave it out and a session may start from it.                           *)
CleanIsOnDisk ==
    rb.pc = "idle" /\ ~ dirty =>
        /\ disk.free = free /\ disk.chunks = chunks
        /\ HasRmap => disk.rmap = merged_rmap(rmap)
        /\ TreeBlocks(disk) = old_tree_blocks
        /\ ~ LoadRefuses(disk)

(* The trees laid out have exactly the blocks their records need, none of  *)
(* them shared or free by the very records they hold.                      *)
TreesFit ==
    LET recs == [bno |-> Cardinality(DOMAIN disk.free), cnt |-> Cardinality(DOMAIN disk.free),
                 rmap |-> Cardinality(disk.rmap), inobt |-> Cardinality(DOMAIN disk.chunks),
                 finobt |-> Cardinality(ChunksWithFree(disk.chunks))] IN
    /\ \A t \in Trees : Cardinality(disk.trees[t]) =
          IF (t = "rmap" /\ ~ HasRmap) \/ (t = "finobt" /\ ~ HasFinobt) THEN 0
          ELSE TreeSize(t, recs[t])
    /\ \A t, u \in Trees : t # u => disk.trees[t] \cap disk.trees[u] = {}
    /\ TreeBlocks(disk) \cap Covered(disk.free) = {}

(* The group is the pool of blocks its callers take it for: every grant is *)
(* a run nobody had, and neither a rebuild, settled or failed, nor another *)
(* session touches what is granted.                                        *)
Pool == INSTANCE BlockPool WITH
    Size <- AgLen, avail <- Covered(free),
    granted <- RunBlocks(taken) \cup ForkBlocks \cup ChunkBlocksOf(chunks),
    kept <- old_tree_blocks \cup rb.todo \cup CarvedBlocks
PoolSpec == Pool!Spec

(* A rebuild always ends. *)
RebuildEnds == rb.pc # "idle" ~> rb.pc = "idle"

(* What the comment on `rebuild` promises: the sizes are worked out again  *)
(* until they hold.                                                        *)
SizesSettle == ~ (rb.pc = "try" /\ rb.tries = MaxTries)

(* What the README promises of a flush that succeeds: free space and       *)
(* reverse mappings are kept true, every block accounted for, also when an *)
(* earlier flush failed.                                                   *)
FlushedIsAccounted == rb.pc = "idle" /\ ~ dirty => Accounted
=============================================================================

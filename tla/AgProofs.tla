------------------------------ MODULE AgProofs -------------------------------
(***************************************************************************)
(* An allocation group, for groups of any size, trees of any shape and any *)
(* calls: its types and its free map's well-formedness; then that it       *)
(* shares no block, loses none, counts its free blocks exactly and is the  *)
(* pool of blocks its callers take it for.                                 *)
(***************************************************************************)
EXTENDS Ag, ExtentsProofs

-----------------------------------------------------------------------------
(* Counts are natural numbers.                                             *)

(* The leaves of a tree are a natural number.                              *)
LEMMA LeavesNat ==
    ASSUME NEW n \in Nat, NEW k \in Nat \ {0}
    PROVE  Leaves(n, k) \in Nat
<1>1. n + k - 1 \in Nat
  OBVIOUS
<1> QED
  BY <1>1 DEF Leaves, div_ceil

(* A tree takes a natural number of blocks (`AgSpec::blocks`).             *)
LEMMA TreeSizeNat ==
    ASSUME NEW t \in Trees, NEW n \in Nat
    PROVE  TreeSize(t, n) \in Nat
<1>1. LeafMax[t] \in Nat \ {0}
  BY SizesAssumption
<1>2. PICK k \in Nat : k = Leaves(n, LeafMax[t])
  BY <1>1, LeavesNat
<1>3. PICK m \in Nat \ {0, 1} : m = NodeMax[t]
  BY SizesAssumption
<1>4. PICK f : f = CHOOSE g : Adds(g, m)
  OBVIOUS
<1>5. Adds(f, m)
  BY <1>4, AddsExists
<1>6. TreeSize(t, n) = f[k]
  BY <1>2, <1>3, <1>4 DEF TreeSize, blocks_for, div_ceil, Ceil, Adds, Summand
<1> QED
  BY <1>5, <1>6, AddsNat

(* What is left of finitely many reverse mappings when they are merged. *)
LEMMA MergedFinite ==
    ASSUME NEW rm, IsFiniteSet(rm)
    PROVE  IsFiniteSet(merged_rmap(rm)) /\ Cardinality(merged_rmap(rm)) \in Nat
<1> DEFINE heads   == {r \in rm : \A q \in rm : ~ merges_with(q, r)}
           tails   == {r \in rm : \A q \in rm : ~ merges_with(r, q)}
           last(r) == Min({End(q) : q \in {t \in tails : t.start >= r.start}})
           F       == [r \in heads |-> [r EXCEPT !.len = last(r) - r.start]]
           T       == {[r EXCEPT !.len = last(r) - r.start] : r \in heads}
<1>1. heads \in SUBSET rm
  OBVIOUS
<1>2. IsFiniteSet(heads)
  BY <1>1, FS_Subset
<1>3. merged_rmap(rm) = T
  BY DEF merged_rmap
<1> HIDE DEF heads, last
<1>4. F \in Surjection(heads, T)
  BY DEF Surjection
<1>5. IsFiniteSet(T)
  BY <1>2, <1>4, FS_Surjection
<1> QED
  BY <1>3, <1>5, FS_CardinalityType

(* `rmap_remove` leaves finitely many records. *)
LEMMA RemoveFinite ==
    ASSUME NEW rm, IsFiniteSet(rm), NEW start, NEW len, NEW owner
    PROVE  IsFiniteSet(rmap_remove(rm, start, len, owner).rmap)
<1> DEFINE end    == start + len
           before == {r \in rm : r.start < start}
           probed == {r \in before : \A q \in before : q.start <= r.start}
                       \cup {r \in rm : r.start >= start /\ r.start < end}
           hits   == {r \in probed : r.owner = owner /\ End(r) > start}
           cutS(r) == Max({r.start, start})
           cutE(r) == Min({End(r), end})
           H1 == {h \in hits : h.start < cutS(h)}
           H2 == {h \in hits : cutE(h) < End(h)}
           cut1(r) == Rmap(r.start, cutS(r) - r.start, r.owner, r.off, r.fork)
           cut2(r) == Rmap(cutE(r), End(r) - cutE(r), r.owner,
                           IF HasOffset(r) THEN r.off + (cutE(r) - r.start) ELSE r.off, r.fork)
           left  == {cut1(r) : r \in H1}
           right == {cut2(r) : r \in H2}
<1>1. hits \in SUBSET rm /\ H1 \in SUBSET rm /\ H2 \in SUBSET rm /\ (rm \ hits) \in SUBSET rm
  OBVIOUS
<1>2. IsFiniteSet(H1) /\ IsFiniteSet(H2) /\ IsFiniteSet(rm \ hits)
  BY <1>1, FS_Subset
<1>3. rmap_remove(rm, start, len, owner).rmap = (rm \ hits) \cup left \cup right
  BY DEF rmap_remove
<1> HIDE DEF hits, H1, H2, cut1, cut2
<1>4. [r \in H1 |-> cut1(r)] \in Surjection(H1, left)
  BY DEF Surjection
<1>5. [r \in H2 |-> cut2(r)] \in Surjection(H2, right)
  BY DEF Surjection
<1>6. IsFiniteSet(left) /\ IsFiniteSet(right)
  BY <1>2, <1>4, <1>5, FS_Surjection
<1> HIDE DEF left, right
<1>7. IsFiniteSet((rm \ hits) \cup left)
  BY <1>2, <1>6, FS_Union
<1>8. IsFiniteSet((rm \ hits) \cup left \cup right)
  BY <1>6, <1>7, FS_Union
<1> QED
  BY <1>3, <1>8

(* The blocks that the AG's trees and the inode trees need. *)
LEMMA NeedNat ==
    ASSUME NEW n \in Nat, NEW m \in Nat
    PROVE  ag_need(n, m) \in Nat
<1>1. TreeSize("bno", n) \in Nat /\ TreeSize("cnt", n) \in Nat /\ TreeSize("rmap", m) \in Nat
  BY TreeSizeNat DEF Trees
<1> QED
  BY <1>1 DEF ag_need

(* So do the inode trees (`ino_blocks` of `rebuild`).                      *)
LEMMA InoNeedNat ==
    ASSUME NEW cs, IsFiniteSet(DOMAIN cs)
    PROVE  ino_need(cs) \in Nat
<1>1. ChunksWithFree(cs) \in SUBSET DOMAIN cs
  BY DEF ChunksWithFree
<1>2. IsFiniteSet(ChunksWithFree(cs))
  BY <1>1, FS_Subset
<1>3. Cardinality(DOMAIN cs) \in Nat /\ Cardinality(ChunksWithFree(cs)) \in Nat
  BY <1>2, FS_CardinalityType
<1>4. /\ TreeSize("inobt", Cardinality(DOMAIN cs)) \in Nat
      /\ TreeSize("finobt", Cardinality(ChunksWithFree(cs))) \in Nat
  BY <1>3, TreeSizeNat DEF Trees
<1> QED
  BY <1>4 DEF ino_need

(* The lesser of two or three numbers. *)
LEMMA MinOfTwo ==
    ASSUME NEW a \in Nat, NEW b \in Nat
    PROVE  Min({a, b}) \in {a, b} /\ Min({a, b}) <= a /\ Min({a, b}) <= b
BY MinOfNats

(* The least of three naturals is one, at most each of them.               *)
LEMMA MinOfThree ==
    ASSUME NEW a \in Nat, NEW b \in Nat, NEW c \in Nat
    PROVE  LET m == Min({a, b, c}) IN m \in Nat /\ m <= a /\ m <= b /\ m <= c
BY MinOfNats

(* The reserve that `load` and `rebuild` set is a natural number.          *)
LEMMA ReserveNat ==
    ASSUME NEW trees \in SUBSET Blocks
    PROVE  ReserveFor(trees) \in Nat
<1>1. IsFiniteSet(Blocks)
  BY SizesAssumption, FS_Interval DEF Blocks
<1>2. Cardinality(trees) \in Nat
  BY <1>1, FS_Subset, FS_CardinalityType
<1>3. 2 * Cardinality(trees) + ReserveSlack \in Nat /\ AgLen \div ReserveShare \in Nat
  BY <1>2, SizesAssumption
<1> QED
  BY <1>3, MinOfTwo DEF ReserveFor

-----------------------------------------------------------------------------
(* The inductive invariant: the free map in memory, the one a rebuild may  *)
(* go back to and the one on disk are all well formed.                     *)
MapsOK ==
    /\ FreeMapOK
    /\ WellFormed(rb.base.free, AgLen)
    /\ WellFormed(disk.free, AgLen)
Inv == TypeOK /\ MapsOK

(* A map the kernel would keep has the shape that RecordsOK asks for.      *)
LEMMA WellFormedShape ==
    ASSUME NEW f, WellFormed(f, AgLen)
    PROVE  /\ DOMAIN f \subseteq Blocks
           /\ \A s \in DOMAIN f : s \in Nat /\ f[s] \in Nat /\ s + f[s] <= AgLen
           /\ IsFiniteSet(DOMAIN f) /\ Cardinality(DOMAIN f) \in Nat
<1>1. \A s \in DOMAIN f : s \in Nat /\ f[s] \in Nat \ {0} /\ s + f[s] <= AgLen
  BY DEF WellFormed
<1>2. DOMAIN f \subseteq Blocks
  BY <1>1, SizesAssumption DEF Blocks
<1>3. IsFiniteSet(DOMAIN f) /\ Cardinality(DOMAIN f) \in Nat
  BY CoveredFinite, SizesAssumption
<1> QED
  BY <1>1, <1>2, <1>3

(* Init. *)
LEMMA InitInv == Init => Inv
<1>1. SUFFICES ASSUME Init
               PROVE  Inv
  OBVIOUS
<1>2. PICK image \in Images :
         /\ disk = image.disk /\ forks = image.forks
         /\ free = image.disk.free /\ free_total = FreeCount(image.disk.free)
         /\ old_tree_blocks = TreeBlocks(image.disk)
         /\ reserve = ReserveFor(TreeBlocks(image.disk))
         /\ chunks = image.disk.chunks /\ rmap = image.disk.rmap
  BY <1>1 DEF Init
<1>3. /\ WellFormed(disk.free, AgLen)
      /\ RecordsOK(disk.free, disk.chunks, disk.rmap)
      /\ disk.trees \in [Trees -> SUBSET Blocks]
      /\ \A e \in forks : MapOK(e)
  BY <1>2, ImagesAssumption DEF KernelKeeps
<1>4. free_total \in Int
  BY <1>2, <1>3, CoveredFinite, SizesAssumption DEF FreeCount
<1>5. TreeBlocks(disk) \in SUBSET Blocks
  BY <1>3 DEF TreeBlocks
<1>6. old_tree_blocks \subseteq Blocks /\ reserve \in Nat
  BY <1>2, <1>5, ReserveNat
<1>7. RbOK /\ WellFormed(rb.base.free, AgLen)
  <2>1. rb = Idle
    BY <1>1 DEF Init
  <2>2. IsFiniteSet({})
    BY FS_EmptySet
  <2>3. 0 \in 0 .. MaxTries
    BY SizesAssumption
  <2>5. DOMAIN rb.base.free = {}
    BY <2>1 DEF Idle
  <2>7. /\ rb.pc = "idle" /\ rb.todo = {} /\ rb.tries = 0 /\ rb.left = 0 /\ rb.ag_blocks = 0
        /\ rb.ag_run = {} /\ rb.ino_run = {} /\ rb.base.total = 0 /\ rb.base.rmap = {}
    BY <2>1 DEF Idle
  <2>8. rb = [pc |-> rb.pc, todo |-> rb.todo, tries |-> rb.tries, left |-> rb.left,
              ag_blocks |-> rb.ag_blocks, ag_run |-> rb.ag_run, ino_run |-> rb.ino_run,
              base |-> rb.base]
    BY <2>1 DEF Idle
  <2>4. RbOK
    BY <2>2, <2>3, <2>5, <2>7, <2>8 DEF RbOK, RbPcs, RunsOK
  <2>6. WellFormed(rb.base.free, AgLen)
    BY <2>5 DEF WellFormed
  <2> QED
    BY <2>4, <2>6
<1>8. RunsOK(taken)
  BY <1>1 DEF Init, RunsOK
<1>9. calls \in 0 .. MaxCalls
  BY <1>1, BoundsAssumption DEF Init
<1>10. dirty \in BOOLEAN /\ failed \in BOOLEAN /\ err \in BOOLEAN
  BY <1>1 DEF Init
<1> QED
  BY <1>2, <1>3, <1>4, <1>6, <1>7, <1>8, <1>9, <1>10 DEF Inv, TypeOK, MapsOK, FreeMapOK

-----------------------------------------------------------------------------
(* The invariant by what a step may leave alone.                           *)

AgPart ==
    /\ WellFormed(free, AgLen)
    /\ DOMAIN chunks \subseteq Nat /\ IsFiniteSet(DOMAIN chunks)
    /\ \A s \in DOMAIN chunks : chunks[s] \in Chunks
    /\ IsFiniteSet(rmap)
    /\ free_total \in Int /\ reserve \in Nat
    /\ old_tree_blocks \subseteq Blocks
    /\ dirty \in BOOLEAN
RbPart == RbOK /\ WellFormed(rb.base.free, AgLen)
CallerPart == RunsOK(taken) /\ \A e \in forks : MapOK(e)
DiskPart ==
    /\ WellFormed(disk.free, AgLen)
    /\ RecordsOK(disk.free, disk.chunks, disk.rmap)
    /\ disk.trees \in [Trees -> SUBSET Blocks]
HistPart == calls \in 0 .. MaxCalls /\ failed \in BOOLEAN /\ err \in BOOLEAN
Parts == AgPart /\ RbPart /\ CallerPart /\ DiskPart /\ HistPart

(* The invariant, in parts that most actions leave alone.                  *)
LEMMA PartsAreInv == Inv <=> Parts
<1>1. WellFormed(free, AgLen) =>
         DOMAIN free \subseteq Blocks /\ \A s \in DOMAIN free : free[s] \in Nat
  BY WellFormedShape
<1>2. AgPart <=> /\ FreeMapOK /\ RecordsOK(free, chunks, rmap)
                 /\ free_total \in Int /\ reserve \in Nat
                 /\ old_tree_blocks \subseteq Blocks /\ dirty \in BOOLEAN
  BY <1>1 DEF AgPart, FreeMapOK, RecordsOK
<1> QED
  BY <1>2 DEF Inv, Parts, TypeOK, MapsOK, RbPart, CallerPart, DiskPart, HistPart

(* A step that keeps the locals of `rebuild` keeps what is said of them.   *)
LEMMA RbSame == RbPart /\ rb' = rb => RbPart'
BY DEF RbPart, RbOK

(* So does one that keeps what the caller holds ...                        *)
LEMMA CallerSame == CallerPart /\ taken' = taken /\ forks' = forks => CallerPart'
BY DEF CallerPart

(* ... and one that keeps the image.                                       *)
LEMMA DiskSame == DiskPart /\ disk' = disk => DiskPart'
BY DEF DiskPart

(* A call stays within the bound.                                          *)
LEMMA CallCounted == HistPart /\ Call => calls' \in 0 .. MaxCalls
BY BoundsAssumption DEF HistPart, Call

(* A group that gives a run, and one that gets one back. *)
LEMMA TakeKeeps ==
    ASSUME AgPart, NEW start \in Nat, NEW len \in Nat \ {0}, Takeable(free, start, len),
           TakeRun(start, len)
    PROVE  /\ WellFormed(free', AgLen) /\ free_total' \in Int /\ dirty' \in BOOLEAN
           /\ start + len <= AgLen
<1>1. WellFormed(free', AgLen)
  BY TakeTakes, SizesAssumption DEF AgPart, TakeRun
<1>2. start + len <= AgLen
  <2>1. PICK s \in DOMAIN free : start + len <= s + free[s]
    BY DEF Takeable
  <2>2. s \in Nat /\ free[s] \in Nat /\ s + free[s] <= AgLen
    BY DEF AgPart, WellFormed
  <2> QED
    BY <2>1, <2>2, SizesAssumption
<1> QED
  BY <1>1, <1>2 DEF AgPart, TakeRun

(* `free_extent` keeps the free map well formed, whether it accepts the    *)
(* run or not.                                                             *)
LEMMA GiveKeeps ==
    ASSUME AgPart, NEW start \in Nat, NEW len \in Nat, GiveBack(start, len)
    PROVE  /\ WellFormed(free', AgLen) /\ free_total' \in Int /\ dirty' \in BOOLEAN
           /\ FreeExtent(free, start, len, AgLen).ok \in BOOLEAN
<1>1. PICK r : r = FreeExtent(free, start, len, AgLen)
  OBVIOUS
<1>2. WellFormed(r.free, AgLen) /\ r.ok \in BOOLEAN
  BY <1>1, FreeFrees, SizesAssumption DEF AgPart
<1>3. free' = r.free /\ free_total' = (IF r.ok THEN free_total + len ELSE free_total)
      /\ dirty' = (dirty \/ r.ok)
  BY <1>1 DEF GiveBack
<1>4. dirty' \in BOOLEAN
  BY <1>3
<1> QED
  BY <1>1, <1>2, <1>3, <1>4 DEF AgPart

(* Sets of records made from finitely many things. *)
LEMMA AddFinite ==
    ASSUME AgPart, NEW records, IsFiniteSet(records)
    PROVE  IsFiniteSet(rmap_add(records))
BY FS_Union DEF AgPart, rmap_add

-----------------------------------------------------------------------------
(* One lemma per call.                                                     *)

(* `alloc` takes a run that lies in one free extent.                       *)
LEMMA AllocTakes ==
    ASSUME Parts, NEW want \in Wants, NEW near \in Nears, Alloc(want, near)
    PROVE  \E run :
              /\ run = <<run[1], run[2]>> /\ run[1] \in Nat /\ run[2] \in Nat \ {0}
              /\ Takeable(free, run[1], run[2]) /\ TakeRun(run[1], run[2])
              /\ taken' = taken \cup {run} /\ Call
              /\ UNCHANGED <<reserve, old_tree_blocks, chunks, rmap, rb, forks, disk, failed, err>>
<1>1. spare \in Nat
  BY DEF Parts, AgPart, spare
<1>2. want \in Nat \ {0} /\ near \in Nat
  BY BoundsAssumption, SizesAssumption DEF Blocks
<1>3. AllocWant(want) \in Nat \ {0}
  <2>1. AllocWant(want) \in Nat
    BY <1>1, <1>2, SizesAssumption, MinOfThree DEF AllocWant
  <2> QED
    BY <2>1 DEF Alloc
<1>4. PICK run : run = Pick(free, AllocWant(want), near)
  OBVIOUS
<1>5. DOMAIN free # {} /\ TakeRun(run[1], run[2]) /\ taken' = taken \cup {run} /\ Call
      /\ UNCHANGED <<reserve, old_tree_blocks, chunks, rmap, rb, forks, disk, failed, err>>
  BY <1>4 DEF Alloc
<1>6. run[1] \in Nat /\ run[2] \in Nat \ {0} /\ Takeable(free, run[1], run[2]) /\ run = <<run[1], run[2]>>
  BY <1>2, <1>3, <1>4, <1>5, PickTakeable, SizesAssumption DEF Parts, AgPart
<1> QED
  BY <1>5, <1>6

(* So it keeps the invariant.                                              *)
LEMMA AllocInv ==
    ASSUME Parts, NEW want \in Wants, NEW near \in Nears, Alloc(want, near)
    PROVE  Parts'
<1>1. PICK run :
         /\ run = <<run[1], run[2]>> /\ run[1] \in Nat /\ run[2] \in Nat \ {0}
         /\ Takeable(free, run[1], run[2]) /\ TakeRun(run[1], run[2])
         /\ taken' = taken \cup {run} /\ Call
         /\ UNCHANGED <<reserve, old_tree_blocks, chunks, rmap, rb, forks, disk, failed, err>>
  BY AllocTakes
<1>2. WellFormed(free', AgLen) /\ free_total' \in Int /\ dirty' \in BOOLEAN /\ run[1] + run[2] <= AgLen
  BY <1>1, TakeKeeps DEF Parts
<1>3. AgPart'
  BY <1>1, <1>2 DEF Parts, AgPart
<1>4. CallerPart'
  BY <1>1, <1>2 DEF Parts, CallerPart, RunsOK
<1> QED
  BY <1>1, <1>3, <1>4, RbSame, DiskSame, CallCounted DEF Parts, HistPart

(* `alloc_block_except` takes a free block.                                *)
LEMMA AllocBlockExceptTakes ==
    ASSUME Parts, NEW not \in Nears, AllocBlockExcept(not)
    PROVE  \E b \in Nat :
              /\ Takeable(free, b, 1) /\ TakeRun(b, 1)
              /\ taken' = taken \cup {<<b, 1>>} /\ Call
              /\ UNCHANGED <<reserve, old_tree_blocks, chunks, rmap, rb, forks, disk, failed, err>>
<1>1. PICK b : b = Min(NotBlock(free, not))
  OBVIOUS
<1>2. NotBlock(free, not) # {} /\ TakeRun(b, 1) /\ taken' = taken \cup {<<b, 1>>} /\ Call
      /\ UNCHANGED <<reserve, old_tree_blocks, chunks, rmap, rb, forks, disk, failed, err>>
  BY <1>1 DEF AllocBlockExcept
<1>3. b \in Nat /\ Takeable(free, b, 1)
  BY <1>1, <1>2, NotBlockTakeable, SizesAssumption DEF Parts, AgPart
<1> QED
  BY <1>2, <1>3

(* So it keeps the invariant.                                              *)
LEMMA AllocBlockExceptInv ==
    ASSUME Parts, NEW not \in Nears, AllocBlockExcept(not)
    PROVE  Parts'
<1>1. PICK b \in Nat :
         /\ Takeable(free, b, 1) /\ TakeRun(b, 1)
         /\ taken' = taken \cup {<<b, 1>>} /\ Call
         /\ UNCHANGED <<reserve, old_tree_blocks, chunks, rmap, rb, forks, disk, failed, err>>
  BY AllocBlockExceptTakes
<1>2. WellFormed(free', AgLen) /\ free_total' \in Int /\ dirty' \in BOOLEAN /\ b + 1 <= AgLen
  BY <1>1, TakeKeeps DEF Parts
<1>3. AgPart'
  BY <1>1, <1>2 DEF Parts, AgPart
<1>4. CallerPart'
  BY <1>1, <1>2 DEF Parts, CallerPart, RunsOK
<1> QED
  BY <1>1, <1>3, <1>4, RbSame, DiskSame, CallCounted DEF Parts, HistPart

(* Giving back a run that was not used keeps it.                           *)
LEMMA UntakeInv ==
    ASSUME Parts, NEW run \in taken, Untake(run)
    PROVE  Parts'
<1>1. run[1] \in Nat /\ run[2] \in Nat
  BY DEF Parts, CallerPart, RunsOK
<1>2. WellFormed(free', AgLen) /\ free_total' \in Int /\ dirty' \in BOOLEAN
      /\ FreeExtent(free, run[1], run[2], AgLen).ok \in BOOLEAN
  BY <1>1, GiveKeeps DEF Parts, Untake
<1>3. AgPart'
  BY <1>2 DEF Parts, AgPart, Untake
<1>4. CallerPart'
  BY DEF Parts, CallerPart, RunsOK, Untake
<1>5. err' \in BOOLEAN
  BY DEF Untake
<1>6. failed' \in BOOLEAN /\ calls' \in 0 .. MaxCalls
  BY CallCounted DEF Parts, HistPart, Untake
<1> QED
  BY <1>3, <1>4, <1>5, <1>6, RbSame, DiskSame DEF Parts, HistPart, Untake

(* A data fork ends inside the group, by its extents. *)
LEMMA DataEndNat ==
    ASSUME CallerPart, NEW ino
    PROVE  DataEnd(ino) \in Nat
<1> DEFINE mine == {x \in forks : x.owner = ino /\ x.fork = "data"}
           ends == {e.off + e.len : e \in mine}
<1>1. \A e \in mine : e.off + e.len \in Nat /\ e.off + e.len <= AgLen
  <2>1. SUFFICES ASSUME NEW e \in mine
                 PROVE  e.off + e.len \in Nat /\ e.off + e.len <= AgLen
    OBVIOUS
  <2>2. MapOK(e)
    BY DEF CallerPart
  <2>3. e.off \in Nat /\ e.len \in Nat /\ e.off + e.len <= AgLen
    BY <2>2 DEF MapOK, Maps
  <2> QED
    BY <2>3
<1>2. ends \subseteq Nat /\ \A n \in ends : n <= AgLen
  BY <1>1
<1>3. ends # {} => Max(ends) \in Nat
  BY <1>2, MaxOfNats, SizesAssumption
<1>4. DataEnd(ino) = IF ends = {} THEN 0 ELSE Max(ends)
  BY DEF DataEnd
<1> HIDE DEF ends
<1> QED
  BY <1>3, <1>4

(* Mapping a run (`rmap_extent`) keeps it: the extent lies in the group.   *)
LEMMA MapRunInv ==
    ASSUME Parts, NEW run \in taken, NEW ino \in Inodes, NEW fork \in {"data", "bmbt"},
           MapRun(run, ino, fork)
    PROVE  Parts'
<1>1. PICK off : off = IF fork = "data" THEN DataEnd(ino) ELSE 0
  OBVIOUS
<1>2. PICK r : r = Rmap(run[1], run[2], ino, off, fork)
  OBVIOUS
<1>3. /\ taken' = taken \ {run} /\ forks' = forks \cup {r} /\ rmap' = rmap_add({r})
      /\ dirty' = (dirty \/ HasRmap) /\ DataEnd(ino) + run[2] <= AgLen /\ Call
      /\ UNCHANGED <<free, free_total, reserve, old_tree_blocks, chunks, rb, disk, failed, err>>
  BY <1>1, <1>2 DEF MapRun
<1>4. run[1] \in Nat /\ run[2] \in Nat \ {0} /\ run[1] + run[2] <= AgLen
  BY DEF Parts, CallerPart, RunsOK
<1>5. DataEnd(ino) \in Nat
  BY DataEndNat DEF Parts
<1>6. off \in Nat /\ off + run[2] <= AgLen
  BY <1>1, <1>3, <1>4, <1>5, SizesAssumption
<1>7. /\ r.start = run[1] /\ r.len = run[2] /\ r.off = off /\ r \in Maps
  BY <1>2, <1>4, <1>6 DEF Rmap, Maps
<1>8. MapOK(r)
  BY <1>4, <1>6, <1>7 DEF MapOK
<1>9. IsFiniteSet(rmap')
  BY <1>3, AddFinite, FS_Singleton DEF Parts
<1>10. dirty' \in BOOLEAN
  BY <1>3
<1>11. AgPart'
  BY <1>3, <1>9, <1>10 DEF Parts, AgPart
<1>12. CallerPart'
  BY <1>3, <1>8 DEF Parts, CallerPart, RunsOK
<1> QED
  BY <1>3, <1>11, <1>12, RbSame, DiskSame, CallCounted DEF Parts, HistPart

(* `release` keeps it, reverse mappings split or not.                      *)
LEMMA ReleaseInv ==
    ASSUME Parts, NEW e \in forks, Release(e)
    PROVE  Parts'
<1>1. MapOK(e)
  BY DEF Parts, CallerPart
<1>2. e.start \in Nat /\ e.len \in Nat
  BY <1>1 DEF MapOK, Maps
<1>3. /\ GiveBack(e.start, e.len) /\ forks' = forks \ {e} /\ Call
      /\ rmap' = IF HasRmap /\ FreeExtent(free, e.start, e.len, AgLen).ok
                 THEN rmap_remove(rmap, e.start, e.len, e.owner).rmap ELSE rmap
      /\ UNCHANGED <<reserve, old_tree_blocks, chunks, rb, taken, disk, failed>>
  BY DEF Release
<1>4. WellFormed(free', AgLen) /\ free_total' \in Int /\ dirty' \in BOOLEAN
  BY <1>2, <1>3, GiveKeeps DEF Parts
<1>5. IsFiniteSet(rmap')
  BY <1>3, RemoveFinite DEF Parts, AgPart
<1>6. AgPart'
  BY <1>3, <1>4, <1>5 DEF Parts, AgPart
<1>7. CallerPart'
  BY <1>3 DEF Parts, CallerPart
<1>8. err' \in BOOLEAN
  BY DEF Release
<1> QED
  BY <1>3, <1>6, <1>7, <1>8, RbSame, DiskSame, CallCounted DEF Parts, HistPart

(* A chunk with other inodes free is a chunk. *)
LEMMA ChunkChanged ==
    ASSUME AgPart, NEW s \in DOMAIN chunks, NEW S \in SUBSET (0 .. (ChunkInodes - 1)),
           chunks' = [chunks EXCEPT ![s].free = S]
    PROVE  /\ DOMAIN chunks' \subseteq Nat /\ IsFiniteSet(DOMAIN chunks')
           /\ \A x \in DOMAIN chunks' : chunks'[x] \in Chunks
<1>1. DOMAIN chunks' = DOMAIN chunks
  OBVIOUS
<1>2. ASSUME NEW x \in DOMAIN chunks
      PROVE  chunks'[x] \in Chunks
  <2>1. chunks[x] \in Chunks
    BY DEF AgPart
  <2>2. CASE x # s
    BY <2>1, <2>2
  <2>3. CASE x = s
    <3>1. chunks'[s] = [chunks[s] EXCEPT !.free = S]
      OBVIOUS
    <3> QED
      BY <2>1, <2>3, <3>1 DEF Chunks
  <2> QED
    BY <2>2, <2>3
<1> QED
  BY <1>1, <1>2 DEF AgPart

(* `alloc_inode` keeps it.                                                 *)
LEMMA AllocInodeInv ==
    ASSUME Parts, AllocInode
    PROVE  Parts'
<1>1. PICK s : s = Min(ChunksWithFree(chunks))
  OBVIOUS
<1>2. PICK S : S = chunks[s].free \ {Min(FreeInodes(chunks[s]))}
  OBVIOUS
<1>3. /\ ChunksWithFree(chunks) # {} /\ Call /\ dirty' = TRUE
      /\ chunks' = [chunks EXCEPT ![s].free = S]
      /\ UNCHANGED <<free, free_total, reserve, old_tree_blocks, rmap, rb, callerVars, disk, failed, err>>
  BY <1>1, <1>2 DEF AllocInode
<1>4. s \in DOMAIN chunks
  <2>1. ChunksWithFree(chunks) \subseteq DOMAIN chunks /\ DOMAIN chunks \subseteq Nat
    BY DEF ChunksWithFree, Parts, AgPart
  <2> QED
    BY <1>1, <1>3, <2>1, MinOfNats
<1>5. S \in SUBSET (0 .. (ChunkInodes - 1))
  BY <1>2, <1>4 DEF Parts, AgPart, Chunks
<1>6. AgPart'
  BY <1>3, <1>4, <1>5, ChunkChanged DEF Parts, AgPart
<1> QED
  BY <1>3, <1>6, RbSame, CallerSame, DiskSame, CallCounted DEF Parts, HistPart, callerVars

(* What `alloc_chunk` does, of an aligned run it takes.                    *)
ChunkTaken(b, chunk) ==
    /\ b \in Nat /\ Takeable(free, b, ChunkBlocks)
    /\ chunk = [holes |-> {}, free |-> 0 .. (ChunkInodes - 1)]
    /\ Call /\ TakeRun(b, ChunkBlocks)
    /\ chunks' = With(chunks, b * InodesPerBlock, chunk)
    /\ rmap' = rmap_add({Rmap(b, ChunkBlocks, INODES, 0, "bmbt")})
    /\ UNCHANGED <<reserve, old_tree_blocks, rb, callerVars, disk, failed, err>>

(* `alloc_chunk` takes an aligned run that lies in one free extent.        *)
LEMMA AllocChunkTakes ==
    ASSUME Parts, AllocChunk
    PROVE  \E b, chunk : ChunkTaken(b, chunk)
<1>1. PICK align : align = Max({InodeAlign, ChunkBlocks, 1})
  OBVIOUS
<1>2. PICK b : b = Min(Aligned(free, ChunkBlocks, align))
  OBVIOUS
<1>3. PICK chunk : chunk = [holes |-> {}, free |-> 0 .. (ChunkInodes - 1)]
  OBVIOUS
<1>5. /\ Aligned(free, ChunkBlocks, align) # {} /\ Call /\ TakeRun(b, ChunkBlocks)
      /\ chunks' = With(chunks, b * InodesPerBlock, chunk)
      /\ rmap' = rmap_add({Rmap(b, ChunkBlocks, INODES, 0, "bmbt")})
      /\ UNCHANGED <<reserve, old_tree_blocks, rb, callerVars, disk, failed, err>>
  BY <1>1, <1>2, <1>3 DEF AllocChunk
<1>6. align \in Nat \ {0}
  <2>1. {InodeAlign, ChunkBlocks, 1} \subseteq Nat
    BY SizesAssumption
  <2>2. InodeAlign + ChunkBlocks \in Nat /\ \A x \in {InodeAlign, ChunkBlocks, 1} : x <= InodeAlign + ChunkBlocks
    BY SizesAssumption
  <2>3. align \in {InodeAlign, ChunkBlocks, 1} /\ \A y \in {InodeAlign, ChunkBlocks, 1} : y <= align
    BY <1>1, <2>1, <2>2, MaxOfNats
  <2> QED
    BY <2>1, <2>3
<1>7. b \in Nat /\ Takeable(free, b, ChunkBlocks)
  BY <1>2, <1>5, <1>6, AlignedTakeable, SizesAssumption DEF Parts, AgPart
<1> QED
  BY <1>3, <1>5, <1>7 DEF ChunkTaken

(* So it keeps the invariant.                                              *)
LEMMA AllocChunkInv ==
    ASSUME Parts, AllocChunk
    PROVE  Parts'
<1>1. PICK b, chunk : ChunkTaken(b, chunk)
  BY AllocChunkTakes
<1>3. chunk = [holes |-> {}, free |-> 0 .. (ChunkInodes - 1)]
  BY <1>1 DEF ChunkTaken
<1>4. PICK r : r = Rmap(b, ChunkBlocks, INODES, 0, "bmbt")
  OBVIOUS
<1>5. /\ Call /\ TakeRun(b, ChunkBlocks)
      /\ chunks' = With(chunks, b * InodesPerBlock, chunk)
      /\ rmap' = rmap_add({r})
      /\ UNCHANGED <<reserve, old_tree_blocks, rb, callerVars, disk, failed, err>>
  BY <1>1, <1>4 DEF ChunkTaken
<1>7. b \in Nat /\ Takeable(free, b, ChunkBlocks)
  BY <1>1 DEF ChunkTaken
<1>8. WellFormed(free', AgLen) /\ free_total' \in Int /\ dirty' \in BOOLEAN
  BY <1>5, <1>7, TakeKeeps, SizesAssumption DEF Parts
<1>9. IsFiniteSet(rmap')
  BY <1>5, AddFinite, FS_Singleton DEF Parts
<1>10. b * InodesPerBlock \in Nat
  BY <1>7, SizesAssumption
<1>11. chunk \in Chunks
  BY <1>3 DEF Chunks
<1>12. /\ DOMAIN chunks' = DOMAIN chunks \cup {b * InodesPerBlock}
       /\ \A x \in DOMAIN chunks' :
             chunks'[x] = IF x = b * InodesPerBlock THEN chunk ELSE chunks[x]
  BY <1>5 DEF With
<1>13. IsFiniteSet(DOMAIN chunks')
  <2>1. IsFiniteSet(DOMAIN chunks) /\ IsFiniteSet({b * InodesPerBlock})
    BY FS_Singleton DEF Parts, AgPart
  <2>2. IsFiniteSet(DOMAIN chunks \cup {b * InodesPerBlock})
    BY <2>1, FS_Union
  <2> QED
    BY <1>12, <2>2
<1>14. DOMAIN chunks' \subseteq Nat /\ \A x \in DOMAIN chunks' : chunks'[x] \in Chunks
  BY <1>10, <1>11, <1>12 DEF Parts, AgPart
<1>15. AgPart'
  BY <1>5, <1>8, <1>9, <1>13, <1>14 DEF Parts, AgPart
<1> QED
  BY <1>5, <1>15, RbSame, CallerSame, DiskSame, CallCounted DEF Parts, HistPart, callerVars

(* `free_inode` keeps it.                                                  *)
LEMMA FreeInodeInv ==
    ASSUME Parts, NEW agino \in InUse, FreeInode(agino)
    PROVE  Parts'
<1>1. PICK s : s = AtOrBefore(chunks, agino)
  OBVIOUS
<1>2. PICK S : S = chunks[s].free \cup {agino - s}
  OBVIOUS
<1>3. /\ agino < s + ChunkInodes /\ Call /\ dirty' = TRUE
      /\ chunks' = [chunks EXCEPT ![s].free = S]
      /\ UNCHANGED <<free, free_total, reserve, old_tree_blocks, rmap, rb, callerVars, disk, failed, err>>
  BY <1>1, <1>2 DEF FreeInode
<1>4. DOMAIN chunks \subseteq Nat
  BY DEF Parts, AgPart
<1>5. ChunkInodes \in Nat
  BY SizesAssumption DEF ChunkInodes
<1>6. agino \in Nat /\ \E t \in DOMAIN chunks : t <= agino
  <2>1. PICK t \in DOMAIN chunks :
           agino \in {t + i : i \in (0 .. (ChunkInodes - 1)) \ chunks[t].free}
    BY DEF InUse
  <2>2. PICK i \in 0 .. (ChunkInodes - 1) : agino = t + i
    BY <2>1
  <2> QED
    BY <1>4, <1>5, <2>2
<1>7. s \in DOMAIN chunks /\ s <= agino
  <2> DEFINE low == {t \in DOMAIN chunks : t <= agino}
  <2>1. low \subseteq Nat /\ low # {} /\ \A t \in low : t <= agino
    BY <1>4, <1>6
  <2>2. Max(low) \in low /\ \A y \in low : y <= Max(low)
    BY <1>6, <2>1, MaxOfNats
  <2>3. \E t \in DOMAIN chunks : t <= agino /\ \A u \in DOMAIN chunks : u <= agino => u <= t
    BY <2>2
  <2> QED
    BY <1>1, <2>3 DEF AtOrBefore
<1>8. agino - s \in 0 .. (ChunkInodes - 1)
  BY <1>3, <1>4, <1>5, <1>6, <1>7
<1>9. S \in SUBSET (0 .. (ChunkInodes - 1))
  BY <1>2, <1>7, <1>8 DEF Parts, AgPart, Chunks
<1>10. AgPart'
  BY <1>3, <1>7, <1>9, ChunkChanged DEF Parts, AgPart
<1> QED
  BY <1>3, <1>10, RbSame, CallerSame, DiskSame, CallCounted DEF Parts, HistPart, callerVars

(* `load` of the image that the last rebuild laid out keeps it.            *)
LEMMA ReloadInv ==
    ASSUME Parts, Reload
    PROVE  Parts'
<1>1. TreeBlocks(disk) \in SUBSET Blocks
  BY DEF Parts, DiskPart, TreeBlocks
<1>2. FreeCount(disk.free) \in Int
  BY CoveredFinite, SizesAssumption DEF Parts, DiskPart, FreeCount
<1>3. ReserveFor(TreeBlocks(disk)) \in Nat
  BY <1>1, ReserveNat
<1>4. AgPart'
  BY <1>1, <1>2, <1>3 DEF Parts, DiskPart, RecordsOK, AgPart, Reload
<1> QED
  BY <1>4, RbSame, CallerSame, DiskSame, CallCounted DEF Parts, HistPart, callerVars, Reload

-----------------------------------------------------------------------------
(* One lemma per step of `rebuild`.                                        *)

(* The local state of no rebuild. *)
LEMMA IdleOK == rb' = Idle => RbPart'
<1>1. SUFFICES ASSUME rb' = Idle
               PROVE  RbPart'
  OBVIOUS
<1>2. IsFiniteSet({}) /\ 0 \in 0 .. MaxTries
  BY FS_EmptySet, SizesAssumption
<1>3. DOMAIN rb'.base.free = {}
  BY <1>1 DEF Idle
<1>4. /\ rb'.pc = "idle" /\ rb'.todo = {} /\ rb'.tries = 0 /\ rb'.left = 0 /\ rb'.ag_blocks = 0
      /\ rb'.ag_run = {} /\ rb'.ino_run = {} /\ rb'.base.total = 0 /\ rb'.base.rmap = {}
  BY <1>1 DEF Idle
<1>5. rb' = [pc |-> rb'.pc, todo |-> rb'.todo, tries |-> rb'.tries, left |-> rb'.left,
             ag_blocks |-> rb'.ag_blocks, ag_run |-> rb'.ag_run, ino_run |-> rb'.ino_run,
             base |-> rb'.base]
  BY <1>1 DEF Idle
<1>6. RbOK'
  BY <1>2, <1>3, <1>4, <1>5 DEF RbOK, RbPcs, RunsOK
<1>7. WellFormed(rb'.base.free, AgLen)
  BY <1>3 DEF WellFormed
<1> QED
  BY <1>6, <1>7 DEF RbPart

(* `rebuild` starts from the blocks of the old trees.                      *)
LEMMA RebuildStartInv ==
    ASSUME Parts, RebuildStart
    PROVE  Parts'
<1>1. /\ rb'.pc = "free" /\ rb'.todo = old_tree_blocks /\ rb'.tries = 0 /\ rb'.left = 0
      /\ rb'.ag_blocks = 0 /\ rb'.ag_run = {} /\ rb'.ino_run = {}
      /\ rb'.base = [free |-> [x \in {} |-> 0], total |-> 0, rmap |-> {}]
  BY DEF RebuildStart, Idle
<1>2. rb' = [pc |-> rb'.pc, todo |-> rb'.todo, tries |-> rb'.tries, left |-> rb'.left,
             ag_blocks |-> rb'.ag_blocks, ag_run |-> rb'.ag_run, ino_run |-> rb'.ino_run,
             base |-> rb'.base]
  BY DEF RebuildStart, Idle
<1>3. IsFiniteSet({}) /\ 0 \in 0 .. MaxTries
  BY FS_EmptySet, SizesAssumption
<1>4. DOMAIN rb'.base.free = {} /\ rb'.base.total = 0 /\ rb'.base.rmap = {}
  BY <1>1
<1>5. old_tree_blocks \subseteq Blocks
  BY DEF Parts, AgPart
<1>6. RbOK'
  BY <1>1, <1>2, <1>3, <1>4, <1>5 DEF RbOK, RbPcs, RunsOK
<1>7. WellFormed(rb'.base.free, AgLen)
  BY <1>4 DEF WellFormed
<1>8. AgPart'
  BY DEF Parts, AgPart, RebuildStart
<1> QED
  BY <1>6, <1>7, <1>8, CallerSame, DiskSame, CallCounted DEF Parts, HistPart, RbPart, callerVars, RebuildStart

(* The local state of a rebuild, put together from its fields. *)
LEMMA RbMade ==
    ASSUME NEW pc \in RbPcs, NEW todo \in SUBSET Blocks, NEW tries \in 0 .. MaxTries,
           NEW left \in Nat, NEW need \in Nat,
           NEW agRun, RunsOK(agRun), IsFiniteSet(agRun),
           NEW inoRun, RunsOK(inoRun), IsFiniteSet(inoRun),
           NEW base, WellFormed(base.free, AgLen), base.total \in Int, IsFiniteSet(base.rmap),
           rb' = [pc |-> pc, todo |-> todo, tries |-> tries, left |-> left, ag_blocks |-> need,
                  ag_run |-> agRun, ino_run |-> inoRun, base |-> base]
    PROVE  RbPart'
<1>1. /\ rb'.pc = pc /\ rb'.todo = todo /\ rb'.tries = tries /\ rb'.left = left
      /\ rb'.ag_blocks = need /\ rb'.ag_run = agRun /\ rb'.ino_run = inoRun /\ rb'.base = base
  OBVIOUS
<1>2. DOMAIN base.free \subseteq Blocks /\ \A s \in DOMAIN base.free : base.free[s] \in Nat
  BY WellFormedShape
<1>3. rb' = [pc |-> rb'.pc, todo |-> rb'.todo, tries |-> rb'.tries, left |-> rb'.left,
             ag_blocks |-> rb'.ag_blocks, ag_run |-> rb'.ag_run, ino_run |-> rb'.ino_run,
             base |-> rb'.base]
  BY <1>1
<1>4. RbOK'
  BY <1>1, <1>2, <1>3 DEF RbOK
<1> QED
  BY <1>1, <1>4 DEF RbPart

(* ... and taken apart. *)
LEMMA RbFields ==
    ASSUME RbPart
    PROVE  /\ rb.pc \in RbPcs /\ rb.todo \in SUBSET Blocks /\ rb.tries \in 0 .. MaxTries
           /\ rb.left \in Nat /\ rb.ag_blocks \in Nat
           /\ RunsOK(rb.ag_run) /\ IsFiniteSet(rb.ag_run)
           /\ RunsOK(rb.ino_run) /\ IsFiniteSet(rb.ino_run)
           /\ WellFormed(rb.base.free, AgLen) /\ rb.base.total \in Int /\ IsFiniteSet(rb.base.rmap)
           /\ rb = [pc |-> rb.pc, todo |-> rb.todo, tries |-> rb.tries, left |-> rb.left,
                    ag_blocks |-> rb.ag_blocks, ag_run |-> rb.ag_run, ino_run |-> rb.ino_run,
                    base |-> rb.base]
BY DEF RbPart, RbOK

(* Freeing one block of the old trees keeps the invariant, in error too.   *)
LEMMA RebuildFreeInv ==
    ASSUME Parts, RebuildFree
    PROVE  Parts'
<1>1. PICK b : b = Min(rb.todo)
  OBVIOUS
<1>2. PICK ok : ok = FreeExtent(free, b, 1, AgLen).ok
  OBVIOUS
<1>3. /\ rb.pc = "free" /\ rb.todo # {} /\ GiveBack(b, 1)
      /\ rb' = IF ok THEN [rb EXCEPT !.todo = @ \ {b}] ELSE Idle
      /\ err' = (err \/ ~ ok) /\ failed' = (failed \/ ~ ok)
      /\ UNCHANGED <<reserve, old_tree_blocks, chunks, rmap, callerVars, disk, calls>>
  BY <1>1, <1>2 DEF RebuildFree
<1>4. rb.todo \subseteq Nat
  BY RbFields, SizesAssumption DEF Parts, Blocks
<1>5. b \in Nat
  BY <1>1, <1>3, <1>4, MinOfNats
<1>6. WellFormed(free', AgLen) /\ free_total' \in Int /\ dirty' \in BOOLEAN
  BY <1>3, <1>5, GiveKeeps DEF Parts
<1>7. AgPart'
  BY <1>3, <1>6 DEF Parts, AgPart
<1>8. RbPart'
  <2>1. CASE ~ ok
    BY <1>3, <2>1, IdleOK
  <2>2. CASE ok
    <3>1. rb' = [pc |-> rb.pc, todo |-> rb.todo \ {b}, tries |-> rb.tries, left |-> rb.left,
                 ag_blocks |-> rb.ag_blocks, ag_run |-> rb.ag_run, ino_run |-> rb.ino_run,
                 base |-> rb.base]
      BY <1>3, <2>2, RbFields DEF Parts
    <3> QED
      BY <3>1, RbFields, RbMade DEF Parts
  <2> QED
    BY <2>1, <2>2
<1>9. err' \in BOOLEAN /\ failed' \in BOOLEAN
  BY <1>3
<1>10. calls' \in 0 .. MaxCalls
  BY <1>3 DEF Parts, HistPart
<1> QED
  BY <1>3, <1>7, <1>8, <1>9, <1>10, CallerSame, DiskSame DEF Parts, HistPart, callerVars

(* The AGFL has finitely many mappings.                                    *)
LEMMA AgflMapsFinite == IsFiniteSet(AgflMaps)
<1>1. IsFiniteSet(Agfl)
  <2>1. IsFiniteSet(Blocks) /\ Agfl \in SUBSET Blocks
    BY SizesAssumption, FS_Interval DEF Blocks
  <2> QED
    BY <2>1, FS_Subset
<1> DEFINE F == [b \in Agfl |-> Rmap(b, 1, AG, 0, "bmbt")]
           T == {Rmap(b, 1, AG, 0, "bmbt") : b \in Agfl}
<1>2. F \in Surjection(Agfl, T)
  BY DEF Surjection
<1>3. IsFiniteSet(T)
  BY <1>1, <1>2, FS_Surjection
<1> QED
  BY <1>3 DEF AgflMaps

(* The base that the turns start from is a free map the kernel would keep. *)
LEMMA RebuildBaseInv ==
    ASSUME Parts, RebuildBase
    PROVE  Parts'
<1> DEFINE kept == {r \in rmap : r.owner \notin {AG, INOBT}}
           more == IF HasRmap THEN AgflMaps ELSE {}
<1>1. PICK need : need = ag_need(Cardinality(DOMAIN free), Cardinality(merged_rmap(rmap')) + 2)
  OBVIOUS
<1>2. PICK base : base = [free |-> free, total |-> free_total, rmap |-> rmap']
  OBVIOUS
<1>3. /\ rmap' = kept \cup more
      /\ rb' = [rb EXCEPT !.pc = "try", !.base = base, !.ag_blocks = need]
      /\ UNCHANGED <<free, free_total, reserve, old_tree_blocks, chunks, dirty,
                     callerVars, disk, calls, failed, err>>
  BY <1>1, <1>2 DEF RebuildBase
<1>4. IsFiniteSet(kept)
  <2>1. kept \in SUBSET rmap
    OBVIOUS
  <2> QED
    BY <2>1, FS_Subset DEF Parts, AgPart
<1>5. IsFiniteSet(more)
  BY AgflMapsFinite, FS_EmptySet
<1>6. IsFiniteSet(rmap')
  <2> HIDE DEF kept, more
  <2>1. IsFiniteSet(kept \cup more)
    BY <1>4, <1>5, FS_Union
  <2> QED
    BY <1>3, <2>1
<1>7. AgPart'
  BY <1>3, <1>6 DEF Parts, AgPart
<1>8. need \in Nat
  <2>1. Cardinality(DOMAIN free) \in Nat
    BY WellFormedShape DEF Parts, AgPart
  <2>2. Cardinality(merged_rmap(rmap')) + 2 \in Nat
    BY <1>6, MergedFinite
  <2> QED
    BY <1>1, <2>1, <2>2, NeedNat
<1>9. RbPart'
  <2>1. rb' = [pc |-> "try", todo |-> rb.todo, tries |-> rb.tries, left |-> rb.left,
               ag_blocks |-> need, ag_run |-> rb.ag_run, ino_run |-> rb.ino_run, base |-> base]
    BY <1>3, RbFields DEF Parts
  <2>2. WellFormed(base.free, AgLen) /\ base.total \in Int /\ IsFiniteSet(base.rmap)
    BY <1>2, <1>6 DEF Parts, AgPart
  <2>3. "try" \in RbPcs
    BY DEF RbPcs
  <2> QED
    BY <1>8, <2>1, <2>2, <2>3, RbFields, RbMade DEF Parts
<1> QED
  BY <1>3, <1>7, <1>9, CallerSame, DiskSame DEF Parts, HistPart, callerVars

(* A turn that puts the base back keeps the invariant.                     *)
LEMMA RebuildTryInv ==
    ASSUME Parts, RebuildTry
    PROVE  Parts'
<1>1. PICK need : need = ino_need(chunks)
  OBVIOUS
<1>2. /\ rb.tries < MaxTries
      /\ free' = rb.base.free /\ free_total' = rb.base.total /\ rmap' = rb.base.rmap
      /\ rb' = [rb EXCEPT !.pc = "ino", !.tries = @ + 1, !.left = need,
                          !.ag_run = {}, !.ino_run = {}]
      /\ UNCHANGED <<reserve, old_tree_blocks, chunks, dirty, callerVars, disk, calls, failed, err>>
  BY <1>1 DEF RebuildTry
<1>3. AgPart'
  BY <1>2, RbFields DEF Parts, AgPart
<1>4. need \in Nat
  BY <1>1, InoNeedNat DEF Parts, AgPart
<1>5. RbPart'
  <2>1. rb' = [pc |-> "ino", todo |-> rb.todo, tries |-> rb.tries + 1, left |-> need,
               ag_blocks |-> rb.ag_blocks, ag_run |-> {}, ino_run |-> {}, base |-> rb.base]
    BY <1>2, RbFields DEF Parts
  <2>2. rb.tries + 1 \in 0 .. MaxTries
    BY <1>2, RbFields, SizesAssumption DEF Parts
  <2>3. "ino" \in RbPcs /\ RunsOK({}) /\ IsFiniteSet({})
    BY FS_EmptySet DEF RbPcs, RunsOK
  <2> QED
    BY <1>4, <2>1, <2>2, <2>3, RbFields, RbMade DEF Parts
<1> QED
  BY <1>2, <1>3, <1>5, CallerSame, DiskSame DEF Parts, HistPart, callerVars

(* A rebuild that fails leaves a well-formed free map behind.              *)
LEMMA RebuildFailsInv ==
    ASSUME Parts, RebuildFails
    PROVE  Parts'
<1>1. AgPart'
  BY DEF Parts, AgPart, RebuildFails, agVars
<1> QED
  BY <1>1, IdleOK, CallerSame, DiskSame DEF Parts, HistPart, callerVars, RebuildFails

(* Runs that lie in the group, and one more. *)
LEMMA RunAdded ==
    ASSUME NEW runs, RunsOK(runs), IsFiniteSet(runs),
           NEW at \in Nat, NEW len \in Nat \ {0}, at + len <= AgLen
    PROVE  RunsOK(runs \cup {<<at, len>>}) /\ IsFiniteSet(runs \cup {<<at, len>>})
<1>1. IsFiniteSet({<<at, len>>})
  BY FS_Singleton
<1>2. IsFiniteSet(runs \cup {<<at, len>>})
  BY <1>1, FS_Union
<1>3. RunsOK(runs \cup {<<at, len>>})
  BY DEF RunsOK
<1> QED
  BY <1>2, <1>3

(* What a turn of `carve` does, of a run it takes.                         *)
CarveTaken(at, take) ==
    /\ rb.pc \in {"ino", "ag"} /\ at \in Nat /\ take \in Nat \ {0} /\ rb.left - take \in Nat
    /\ Takeable(free, at, take) /\ TakeRun(at, take)
    /\ rb' = IF rb.pc = "ino"
             THEN [rb EXCEPT !.left = @ - take, !.ino_run = @ \cup {<<at, take>>}]
             ELSE [rb EXCEPT !.left = @ - take, !.ag_run = @ \cup {<<at, take>>}]
    /\ UNCHANGED <<reserve, old_tree_blocks, chunks, rmap, callerVars, disk, calls, failed, err>>

(* A turn of `carve` takes a run at the end of one free extent.            *)
LEMMA CarveTakes ==
    ASSUME Parts, Carve
    PROVE  \E at, take : CarveTaken(at, take)
<1>1. PICK s : s = Longest(free)
  OBVIOUS
<1>2. PICK take : take = Min({free[s], rb.left})
  OBVIOUS
<1>3. PICK at : at = s + free[s] - take
  OBVIOUS
<1>4. /\ rb.pc \in {"ino", "ag"} /\ rb.left > 0 /\ DOMAIN free # {} /\ TakeRun(at, take)
      /\ rb' = IF rb.pc = "ino"
               THEN [rb EXCEPT !.left = @ - take, !.ino_run = @ \cup {<<at, take>>}]
               ELSE [rb EXCEPT !.left = @ - take, !.ag_run = @ \cup {<<at, take>>}]
      /\ UNCHANGED <<reserve, old_tree_blocks, chunks, rmap, callerVars, disk, calls, failed, err>>
  BY <1>1, <1>2, <1>3 DEF Carve
<1>5. s \in DOMAIN free
  BY <1>1, <1>4, LongestExists, SizesAssumption DEF Parts, AgPart
<1>6. s \in Nat /\ free[s] \in Nat \ {0}
  BY <1>5 DEF Parts, AgPart, WellFormed
<1>7. rb.left \in Nat
  BY RbFields DEF Parts
<1>8. take \in Nat \ {0} /\ take <= free[s] /\ take <= rb.left
  <2>1. take \in {free[s], rb.left} /\ take <= free[s] /\ take <= rb.left
    BY <1>2, <1>6, <1>7, MinOfTwo
  <2>2. rb.left > 0
    BY <1>4
  <2> QED
    BY <1>6, <1>7, <2>1, <2>2
<1>9. at \in Nat /\ s <= at /\ at + take = s + free[s] /\ rb.left - take \in Nat
  BY <1>3, <1>6, <1>7, <1>8
<1>10. Takeable(free, at, take)
  BY <1>5, <1>6, <1>8, <1>9 DEF Takeable
<1> QED
  BY <1>4, <1>8, <1>9, <1>10 DEF CarveTaken

(* So it keeps the invariant.                                              *)
LEMMA CarveInv ==
    ASSUME Parts, Carve
    PROVE  Parts'
<1>1. PICK at, take : CarveTaken(at, take)
  BY CarveTakes
<1>4. /\ rb.pc \in {"ino", "ag"} /\ TakeRun(at, take)
      /\ rb' = IF rb.pc = "ino"
               THEN [rb EXCEPT !.left = @ - take, !.ino_run = @ \cup {<<at, take>>}]
               ELSE [rb EXCEPT !.left = @ - take, !.ag_run = @ \cup {<<at, take>>}]
      /\ UNCHANGED <<reserve, old_tree_blocks, chunks, rmap, callerVars, disk, calls, failed, err>>
  BY <1>1 DEF CarveTaken
<1>8. take \in Nat \ {0} /\ at \in Nat /\ rb.left - take \in Nat /\ Takeable(free, at, take)
  BY <1>1 DEF CarveTaken
<1>11. WellFormed(free', AgLen) /\ free_total' \in Int /\ dirty' \in BOOLEAN /\ at + take <= AgLen
  BY <1>4, <1>8, TakeKeeps DEF Parts
<1>12. AgPart'
  BY <1>4, <1>11 DEF Parts, AgPart
<1>13. RbPart'
  <2>1. CASE rb.pc = "ino"
    <3>1. rb' = [pc |-> rb.pc, todo |-> rb.todo, tries |-> rb.tries, left |-> rb.left - take,
                 ag_blocks |-> rb.ag_blocks, ag_run |-> rb.ag_run,
                 ino_run |-> rb.ino_run \cup {<<at, take>>}, base |-> rb.base]
      BY <1>4, <2>1, RbFields DEF Parts
    <3>2. RunsOK(rb.ino_run \cup {<<at, take>>}) /\ IsFiniteSet(rb.ino_run \cup {<<at, take>>})
      BY <1>8, <1>11, RunAdded, RbFields DEF Parts
    <3> QED
      BY <1>8, <3>1, <3>2, RbFields, RbMade DEF Parts
  <2>2. CASE rb.pc # "ino"
    <3>1. rb' = [pc |-> rb.pc, todo |-> rb.todo, tries |-> rb.tries, left |-> rb.left - take,
                 ag_blocks |-> rb.ag_blocks, ag_run |-> rb.ag_run \cup {<<at, take>>},
                 ino_run |-> rb.ino_run, base |-> rb.base]
      BY <1>4, <2>2, RbFields DEF Parts
    <3>2. RunsOK(rb.ag_run \cup {<<at, take>>}) /\ IsFiniteSet(rb.ag_run \cup {<<at, take>>})
      BY <1>8, <1>11, RunAdded, RbFields DEF Parts
    <3> QED
      BY <1>8, <3>1, <3>2, RbFields, RbMade DEF Parts
  <2> QED
    BY <2>1, <2>2
<1> QED
  BY <1>4, <1>12, <1>13, CallerSame, DiskSame DEF Parts, HistPart, callerVars

(* Going on to the other trees keeps the invariant.                        *)
LEMMA RebuildInoCarvedInv ==
    ASSUME Parts, RebuildInoCarved
    PROVE  Parts'
<1>1. AgPart'
  BY DEF Parts, AgPart, RebuildInoCarved, agVars
<1>2. RbPart'
  <2>1. rb' = [pc |-> "ag", todo |-> rb.todo, tries |-> rb.tries, left |-> rb.ag_blocks,
               ag_blocks |-> rb.ag_blocks, ag_run |-> rb.ag_run, ino_run |-> rb.ino_run,
               base |-> rb.base]
    BY RbFields DEF Parts, RebuildInoCarved
  <2>2. "ag" \in RbPcs
    BY DEF RbPcs
  <2> QED
    BY <2>1, <2>2, RbFields, RbMade DEF Parts
<1> QED
  BY <1>1, <1>2, CallerSame, DiskSame DEF Parts, HistPart, callerVars, RebuildInoCarved

(* The records of what was carved, and how many blocks the trees need. *)
LEMMA CarvedMapsFinite ==
    ASSUME RbPart
    PROVE  IsFiniteSet(CarvedMaps)
<1> DEFINE T1 == {Rmap(r[1], r[2], AG, 0, "bmbt") : r \in rb.ag_run}
           T2 == {Rmap(r[1], r[2], INOBT, 0, "bmbt") : r \in rb.ino_run}
<1>1. [r \in rb.ag_run |-> Rmap(r[1], r[2], AG, 0, "bmbt")] \in Surjection(rb.ag_run, T1)
  BY DEF Surjection
<1>2. [r \in rb.ino_run |-> Rmap(r[1], r[2], INOBT, 0, "bmbt")] \in Surjection(rb.ino_run, T2)
  BY DEF Surjection
<1>3. IsFiniteSet(rb.ag_run) /\ IsFiniteSet(rb.ino_run)
  BY RbFields
<1>4. IsFiniteSet(T1) /\ IsFiniteSet(T2)
  BY <1>1, <1>2, <1>3, FS_Surjection
<1>5. CarvedMaps = T1 \cup T2
  BY DEF CarvedMaps
<1> HIDE DEF T1, T2
<1>6. IsFiniteSet(T1 \cup T2)
  BY <1>4, FS_Union
<1> QED
  BY <1>5, <1>6

(* The size worked out again is a natural number.                          *)
LEMMA NeedNowNat ==
    ASSUME AgPart, RbPart
    PROVE  IsFiniteSet(rmap_add(CarvedMaps)) /\ NeedNow \in Nat
<1>1. IsFiniteSet(rmap_add(CarvedMaps))
  BY CarvedMapsFinite, AddFinite
<1>2. Cardinality(merged_rmap(rmap_add(CarvedMaps))) \in Nat
  BY <1>1, MergedFinite
<1>3. Cardinality(DOMAIN free) \in Nat
  BY WellFormedShape DEF AgPart
<1> QED
  BY <1>1, <1>2, <1>3, NeedNat DEF NeedNow

(* So another turn keeps the invariant.                                    *)
LEMMA RebuildAgainInv ==
    ASSUME Parts, RebuildAgain
    PROVE  Parts'
<1>1. AgPart'
  BY NeedNowNat DEF Parts, AgPart, RebuildAgain
<1>2. RbPart'
  <2>1. rb' = [pc |-> "try", todo |-> rb.todo, tries |-> rb.tries, left |-> rb.left,
               ag_blocks |-> NeedNow, ag_run |-> rb.ag_run, ino_run |-> rb.ino_run,
               base |-> rb.base]
    BY RbFields DEF Parts, RebuildAgain
  <2>2. "try" \in RbPcs
    BY DEF RbPcs
  <2> QED
    BY <2>1, <2>2, NeedNowNat, RbFields, RbMade DEF Parts
<1> QED
  BY <1>1, <1>2, CallerSame, DiskSame DEF Parts, HistPart, callerVars, RebuildAgain

(* The blocks of runs that lie in the group. *)
LEMMA RunBlocksInside ==
    ASSUME NEW runs, RunsOK(runs)
    PROVE  RunBlocks(runs) \in SUBSET Blocks
<1>1. SUFFICES ASSUME NEW r \in runs
               PROVE  Run(r[1], r[2]) \subseteq Blocks
  BY DEF RunBlocks
<1>2. r[1] \in Nat /\ r[2] \in Nat /\ r[1] + r[2] <= AgLen
  BY DEF RunsOK
<1> QED
  BY <1>2, SizesAssumption DEF Run, Blocks

(* What a rebuild lays out lies in the group. *)
Layable(f, cs, rm, agList, inoList) ==
    /\ agList \in SUBSET Blocks /\ inoList \in SUBSET Blocks
    /\ WellFormed(f, AgLen)
    /\ DOMAIN cs \subseteq Nat /\ IsFiniteSet(DOMAIN cs) /\ \A s \in DOMAIN cs : cs[s] \in Chunks
    /\ IsFiniteSet(rm)

LaidOut(d, f) ==
    /\ d.free = f
    /\ RecordsOK(d.free, d.chunks, d.rmap)
    /\ d.trees \in [Trees -> SUBSET Blocks]

(* The image laid out has records and trees inside the group.              *)
LEMMA ImageOK ==
    ASSUME NEW f, NEW cs, NEW rm, NEW agList, NEW inoList,
           Layable(f, cs, rm, agList, inoList)
    PROVE  LaidOut(Image(f, cs, rm, agList, inoList), f)
<1>0. PICK d : d = Image(f, cs, rm, agList, inoList)
  OBVIOUS
<1> DEFINE nb == TreeSize("bno", Cardinality(DOMAIN f))
           nc == TreeSize("cnt", Cardinality(DOMAIN f))
           ni == TreeSize("inobt", Cardinality(DOMAIN cs))
           trees == [t \in Trees |->
                       CASE t = "bno"    -> Lowest(agList, nb)
                         [] t = "cnt"    -> Lowest(agList, nb + nc) \ Lowest(agList, nb)
                         [] t = "rmap"   -> IF HasRmap THEN agList \ Lowest(agList, nb + nc) ELSE {}
                         [] t = "inobt"  -> Lowest(inoList, ni)
                         [] t = "finobt" -> IF HasFinobt THEN inoList \ Lowest(inoList, ni) ELSE {}]
<1>1. d.free = f /\ d.chunks = cs /\ d.rmap = merged_rmap(rm) /\ d.trees = trees
  BY <1>0 DEF Image
<1>2. RecordsOK(f, cs, merged_rmap(rm))
  BY WellFormedShape, MergedFinite DEF Layable, RecordsOK
<1>3. \A n : Lowest(agList, n) \in SUBSET Blocks /\ Lowest(inoList, n) \in SUBSET Blocks
  BY DEF Lowest, Layable
<1> HIDE DEF nb, nc, ni
<1>4. ASSUME NEW t \in Trees
      PROVE  trees[t] \in SUBSET Blocks
  BY <1>3 DEF Trees, Layable
<1>5. trees \in [Trees -> SUBSET Blocks]
  <2>1. DOMAIN trees = Trees
    OBVIOUS
  <2> QED
    BY <1>4, <2>1
<1> HIDE DEF trees
<1>6. LaidOut(d, f)
  BY <1>1, <1>2, <1>5 DEF LaidOut
<1> QED
  BY <1>0, <1>6

(* A rebuild that settles keeps the invariant, of the image as well.       *)
LEMMA RebuildFinishInv ==
    ASSUME Parts, RebuildFinish
    PROVE  Parts'
<1>1. PICK agList : agList = RunBlocks(rb.ag_run)
  OBVIOUS
<1>2. PICK inoList : inoList = RunBlocks(rb.ino_run)
  OBVIOUS
<1>3. /\ rmap' = rmap_add(CarvedMaps)
      /\ disk' = Image(free, chunks, rmap', agList, inoList)
      /\ old_tree_blocks' = agList \cup inoList
      /\ reserve' = ReserveFor(agList \cup inoList)
      /\ dirty' = FALSE /\ rb' = Idle
      /\ UNCHANGED <<free, free_total, chunks, callerVars, calls, failed, err>>
  BY <1>1, <1>2 DEF RebuildFinish
<1>4. IsFiniteSet(rmap')
  BY <1>3, NeedNowNat DEF Parts
<1>5. agList \in SUBSET Blocks /\ inoList \in SUBSET Blocks /\ (agList \cup inoList) \in SUBSET Blocks
  BY <1>1, <1>2, RunBlocksInside, RbFields DEF Parts
<1>6. reserve' \in Nat /\ old_tree_blocks' \subseteq Blocks
  BY <1>3, <1>5, ReserveNat
<1>7. AgPart'
  BY <1>3, <1>4, <1>6 DEF Parts, AgPart
<1>8. /\ disk'.free = free
      /\ RecordsOK(disk'.free, disk'.chunks, disk'.rmap)
      /\ disk'.trees \in [Trees -> SUBSET Blocks]
  <2>1. PICK rm : rm = rmap'
    OBVIOUS
  <2>2. Layable(free, chunks, rm, agList, inoList)
    BY <1>3, <1>4, <1>5, <2>1 DEF Layable, Parts, AgPart
  <2>3. LaidOut(Image(free, chunks, rm, agList, inoList), free)
    BY <2>2, ImageOK
  <2>4. disk' = Image(free, chunks, rm, agList, inoList)
    BY <1>3, <2>1
  <2>5. LaidOut(disk', free)
    BY <2>3, <2>4
  <2> QED
    BY <2>5 DEF LaidOut
<1>9. DiskPart'
  BY <1>8 DEF DiskPart, Parts, AgPart
<1> QED
  BY <1>3, <1>7, <1>9, IdleOK, CallerSame DEF Parts, HistPart, callerVars

-----------------------------------------------------------------------------
(* Every step keeps the invariant.                                         *)

(* Every step keeps the invariant.                                         *)
LEMMA StepInv == Inv /\ [Next]_vars => Inv'
<1>1. SUFFICES ASSUME Parts, [Next]_vars
               PROVE  Parts'
  <2>1. Inv <=> Parts
    BY PartsAreInv
  <2>2. Inv' <=> Parts'
    BY PartsAreInv, PTL
  <2> QED
    BY <2>1, <2>2
<1>2. CASE \E want \in Wants, near \in Nears : Alloc(want, near)
  BY <1>1, <1>2, AllocInv
<1>3. CASE \E not \in Nears : AllocBlockExcept(not)
  BY <1>1, <1>3, AllocBlockExceptInv
<1>4. CASE \E run \in taken : Untake(run)
  BY <1>1, <1>4, UntakeInv
<1>5. CASE \E run \in taken, ino \in Inodes, fork \in {"data", "bmbt"} : MapRun(run, ino, fork)
  BY <1>1, <1>5, MapRunInv
<1>6. CASE \E e \in forks : Release(e)
  BY <1>1, <1>6, ReleaseInv
<1>7. CASE AllocInode
  BY <1>1, <1>7, AllocInodeInv
<1>8. CASE AllocChunk
  BY <1>1, <1>8, AllocChunkInv
<1>9. CASE \E agino \in InUse : FreeInode(agino)
  BY <1>1, <1>9, FreeInodeInv
<1>10. CASE Rebuild
  BY <1>1, <1>10, RebuildStartInv, RebuildFreeInv, RebuildBaseInv, RebuildTryInv,
     RebuildFailsInv, CarveInv, RebuildInoCarvedInv, RebuildAgainInv, RebuildFinishInv
     DEF Rebuild
<1>11. CASE Reload
  BY <1>1, <1>11, ReloadInv
<1>12. CASE UNCHANGED vars
  <2>1. AgPart' /\ HistPart'
    BY <1>1, <1>12 DEF vars, agVars, Parts, AgPart, HistPart
  <2> QED
    BY <1>1, <1>12, <2>1, RbSame, CallerSame, DiskSame DEF vars, callerVars, Parts
<1> QED
  BY <1>1, <1>2, <1>3, <1>4, <1>5, <1>6, <1>7, <1>8, <1>9, <1>10, <1>11, <1>12 DEF Next

(* The state of a group has its type whatever is asked of it: no run, tree *)
(* or record of it ever leaves the group.                                  *)
THEOREM TypeCorrect == Spec => []TypeOK
<1>1. Inv => TypeOK
  BY DEF Inv
<1> QED
  BY InitInv, StepInv, <1>1, PTL DEF Spec

(* The free map stays as the kernel keeps it, through every order of       *)
(* allocations and frees and every rebuild, settled or failed.             *)
THEOREM FreeMapCorrect == Spec => []FreeMapOK
<1>1. Inv => FreeMapOK
  BY DEF Inv, MapsOK
<1> QED
  BY InitInv, StepInv, <1>1, PTL DEF Spec

-----------------------------------------------------------------------------
(* Blocks that move from one owner to another.                             *)

(* Who has what after the blocks of R went from p to q.                    *)
Moved(P, Q, R, p, q) ==
    /\ DOMAIN Q = DOMAIN P /\ p \in DOMAIN P /\ q \in DOMAIN P /\ p # q
    /\ R \subseteq P[p]
    /\ Q[p] = P[p] \ R /\ Q[q] = P[q] \cup R
    /\ \A x \in DOMAIN P \ {p, q} : Q[x] = P[x]

(* A move shares no block and loses none.                                  *)
LEMMA MoveKeeps ==
    ASSUME NEW P, NEW Q, NEW R, NEW p, NEW q, Apart(P), Moved(P, Q, R, p, q)
    PROVE  Apart(Q) /\ AllOf(Q) = AllOf(P)
<1> USE DEF Moved
<1>1. ASSUME NEW x \in DOMAIN Q, NEW y \in DOMAIN Q, x # y
      PROVE  Q[x] \cap Q[y] = {}
  BY <1>1 DEF Apart
<1>2. AllOf(Q) \subseteq AllOf(P)
  BY DEF AllOf
<1>3. ASSUME NEW b \in AllOf(P)
      PROVE  b \in AllOf(Q)
  <2>1. PICK x \in DOMAIN P : b \in P[x]
    BY DEF AllOf
  <2>2. b \in Q[x] \/ b \in Q[q]
    BY <2>1
  <2> QED
    BY <2>2 DEF AllOf
<1> QED
  BY <1>1, <1>2, <1>3 DEF Apart

(* The fields of the record of owners.                                     *)
LEMMA OwnersFields ==
    ASSUME NEW f, NEW trees, NEW cs, NEW es, NEW runs
    PROVE  LET P == Owners(f, trees, cs, es, runs) IN
           /\ DOMAIN P = {"free", "headers", "agfl", "trees", "chunks", "forks", "taken"}
           /\ P["free"] = Covered(f) /\ P["headers"] = Headers /\ P["agfl"] = Agfl
           /\ P["trees"] = trees /\ P["chunks"] = ChunkBlocksOf(cs)
           /\ P["forks"] = MappedBlocks(es) /\ P["taken"] = RunBlocks(runs)
BY DEF Owners

-----------------------------------------------------------------------------
(* Runs and chunks.                                                        *)

(* A run put into a set of runs, and one taken out of it.                  *)
LEMMA RunPut ==
    ASSUME NEW runs, NEW r
    PROVE  RunBlocks(runs \cup {r}) = RunBlocks(runs) \cup Run(r[1], r[2])
BY DEF RunBlocks

(* Dividing by a factor.                                                   *)
LEMMA Quotient ==
    ASSUME NEW a \in Nat, NEW k \in Nat \ {0}, NEW r \in 0 .. (k - 1)
    PROVE  (a * k + r) \div k = a
<1> DEFINE n == a * k + r
           m == n \div k
<1>1. n \in Nat /\ n < (a + 1) * k
  OBVIOUS
<1>2. m \in Int /\ m * k <= n /\ n < (m + 1) * k
  BY <1>1
<1> HIDE DEF m
<1>3. ~ (m < a)
  BY <1>1, <1>2
<1>4. ~ (m > a)
  BY <1>1, <1>2
<1> QED
  BY <1>2, <1>3, <1>4 DEF m

(* The blocks of a run of inodes (`alloc_chunk`), holes left out: all lie  *)
(* in the run of blocks.                                                   *)
LEMMA InodeBlock ==
    ASSUME NEW b \in Nat, NEW i \in 0 .. (ChunkInodes - 1)
    PROVE  (b * InodesPerBlock + i) \div InodesPerBlock \in Run(b, ChunkBlocks)
<1> DEFINE k == InodesPerBlock
           q == i \div k
           r == i % k
<1>1. k \in Nat \ {0} /\ ChunkBlocks \in Nat \ {0}
  BY SizesAssumption
<1>2. i \in Nat /\ i < ChunkBlocks * k
  BY <1>1 DEF ChunkInodes
<1>3. q \in Nat /\ r \in 0 .. (k - 1) /\ i = q * k + r
  BY <1>1, <1>2
<1>4. q < ChunkBlocks
  <2>1. SUFFICES ASSUME q >= ChunkBlocks
                 PROVE  FALSE
    BY <1>1, <1>3
  <2>2. q * k >= ChunkBlocks * k
    BY <1>1, <1>3, <2>1
  <2> QED
    BY <1>1, <1>2, <1>3, <2>2
<1> HIDE DEF q, r
<1>5. b * k + i = (b + q) * k + r
  BY <1>1, <1>3
<1>6. ((b + q) * k + r) \div k = b + q
  BY <1>1, <1>3, Quotient
<1> QED
  BY <1>1, <1>3, <1>4, <1>5, <1>6 DEF Run

(* A wholly free chunk has every block of its run.                         *)
LEMMA WholeChunk ==
    ASSUME NEW b \in Nat, NEW c, c.holes = {}
    PROVE  ChunkRuns(b * InodesPerBlock, c) = Run(b, ChunkBlocks)
<1>1. InodesPerBlock \in Nat \ {0} /\ ChunkBlocks \in Nat \ {0}
  BY SizesAssumption
<1>2. ASSUME NEW x \in Run(b, ChunkBlocks)
      PROVE  x \in ChunkRuns(b * InodesPerBlock, c)
  <2> DEFINE i == (x - b) * InodesPerBlock
  <2>1. x \in Nat /\ x - b \in Nat /\ x - b <= ChunkBlocks - 1
    BY <1>1 DEF Run
  <2>2. (x - b) * InodesPerBlock <= (ChunkBlocks - 1) * InodesPerBlock
    BY <1>1, <2>1
  <2>3. i \in 0 .. (ChunkInodes - 1)
    BY <1>1, <2>1, <2>2 DEF ChunkInodes
  <2>4. b * InodesPerBlock + i = x * InodesPerBlock + 0
    BY <1>1, <2>1
  <2>5. (x * InodesPerBlock + 0) \div InodesPerBlock = x
    BY <1>1, <2>1, Quotient
  <2> HIDE DEF i
  <2>6. i \in (0 .. (ChunkInodes - 1)) \ c.holes
    BY <2>3
  <2> QED
    BY <2>4, <2>5, <2>6 DEF ChunkRuns
<1>3. ChunkRuns(b * InodesPerBlock, c) \subseteq Run(b, ChunkBlocks)
  BY InodeBlock DEF ChunkRuns
<1> QED
  BY <1>2, <1>3

-----------------------------------------------------------------------------
(* The inductive invariant.  What `rebuild` holds at each of its stages:   *)
(* the base it goes back to has the blocks now free and those carved, and  *)
(* what is carved and what is left to carve add up to what is needed.      *)

RbStages ==
    /\ rb.pc \notin {"try", "ino", "ag"} => rb.ag_run = {} /\ rb.ino_run = {}
    /\ rb.pc # "free" => rb.todo = {}
    /\ rb.pc # "idle" => old_tree_blocks = {} /\ dirty
    /\ rb.pc \in {"try", "ino", "ag"} =>
          /\ Covered(rb.base.free) = Covered(free) \cup CarvedBlocks
          /\ rb.base.total = FreeCount(rb.base.free)
    /\ rb.pc = "ino" =>
          /\ rb.ag_run = {}
          /\ Cardinality(RunBlocks(rb.ino_run)) + rb.left = ino_need(chunks)
    /\ rb.pc = "ag" =>
          /\ Cardinality(RunBlocks(rb.ino_run)) = ino_need(chunks)
          /\ Cardinality(RunBlocks(rb.ag_run)) + rb.left = rb.ag_blocks

(* A group that is not dirty has the blocks that its image says.           *)
CleanBlocks ==
    rb.pc = "idle" /\ ~ dirty =>
        disk.free = free /\ disk.chunks = chunks /\ TreeBlocks(disk) = old_tree_blocks

ChunksThere == \A s \in DOMAIN chunks : chunks[s].holes # 0 .. (ChunkInodes - 1)

(* Blocks that are free or on their way to an owner.                       *)
InHand == Covered(free) \cup RunBlocks(taken)

PoolInv == NoSharing /\ NoLeak /\ TotalExact /\ RbStages /\ CleanBlocks /\ ChunksThere

(* The fields of who has what.                                             *)
LEMMA PiecesFields ==
    /\ DOMAIN Pieces = {"free", "headers", "agfl", "trees", "chunks", "forks", "taken"}
    /\ Pieces["free"] = Covered(free) /\ Pieces["headers"] = Headers /\ Pieces["agfl"] = Agfl
    /\ Pieces["trees"] = old_tree_blocks \cup rb.todo \cup CarvedBlocks
    /\ Pieces["chunks"] = ChunkBlocksOf(chunks)
    /\ Pieces["forks"] = MappedBlocks(forks) /\ Pieces["taken"] = RunBlocks(taken)
BY OwnersFields DEF Pieces

(* And after a step.                                                       *)
LEMMA NewPiecesFields ==
    /\ DOMAIN Pieces' = {"free", "headers", "agfl", "trees", "chunks", "forks", "taken"}
    /\ Pieces'["free"] = Covered(free') /\ Pieces'["headers"] = Headers /\ Pieces'["agfl"] = Agfl
    /\ Pieces'["trees"] = old_tree_blocks' \cup rb'.todo \cup CarvedBlocks'
    /\ Pieces'["chunks"] = ChunkBlocksOf(chunks')
    /\ Pieces'["forks"] = MappedBlocks(forks') /\ Pieces'["taken"] = RunBlocks(taken')
BY OwnersFields DEF Pieces

(* A step that moves blocks shares none and loses none.                    *)
LEMMA MoveInv ==
    ASSUME NoSharing, NoLeak, failed' = failed,
           NEW R, NEW p, NEW q, Moved(Pieces, Pieces', R, p, q)
    PROVE  Apart(Pieces)' /\ NoLeak'
<1>1. PICK P : P = Pieces
  OBVIOUS
<1>2. PICK Q : Q = Pieces'
  OBVIOUS
<1>3. Apart(Q) /\ AllOf(Q) = AllOf(P)
  BY <1>1, <1>2, MoveKeeps DEF NoSharing
<1> QED
  BY <1>1, <1>2, <1>3 DEF NoLeak, Accounted

(* So does one that moves none.                                            *)
LEMMA StayInv ==
    ASSUME NoSharing, NoLeak, failed' = failed, Pieces' = Pieces
    PROVE  Apart(Pieces)' /\ NoLeak'
BY DEF NoSharing, NoLeak, Accounted, Apart, AllOf

(* Taking a run, as the free map and its counter see it.                   *)
LEMMA TakeBlocks ==
    ASSUME AgPart, TotalExact, NEW start \in Nat, NEW len \in Nat \ {0},
           Takeable(free, start, len), TakeRun(start, len)
    PROVE  /\ Run(start, len) \subseteq Covered(free)
           /\ Covered(free') = Covered(free) \ Run(start, len)
           /\ TotalExact' /\ dirty' = TRUE /\ Run(start, len) # {}
<1>1. WellFormed(free, AgLen) /\ AgLen \in Nat
  BY SizesAssumption DEF AgPart
<1>2. free' = Take(free, start, len) /\ free_total' = free_total - len /\ dirty' = TRUE
  BY DEF TakeRun
<1>3. /\ Run(start, len) \subseteq Covered(free)
      /\ Covered(free') = Covered(free) \ Run(start, len)
  BY <1>1, <1>2, TakeTakes
<1>4. Cardinality(Covered(free')) = Cardinality(Covered(free)) - len
  BY <1>1, <1>2, TakeCounts
<1>5. start \in Run(start, len)
  BY DEF Run
<1> QED
  BY <1>2, <1>3, <1>4, <1>5 DEF TotalExact, FreeCount

(* Giving one back: it is accepted, since none of it is free.              *)
LEMMA GiveBlocks ==
    ASSUME AgPart, TotalExact, NEW start \in Nat, NEW len \in Nat \ {0}, start + len <= AgLen,
           Run(start, len) \cap Covered(free) = {}, GiveBack(start, len)
    PROVE  /\ FreeExtent(free, start, len, AgLen).ok
           /\ Covered(free') = Covered(free) \cup Run(start, len)
           /\ TotalExact' /\ dirty' = TRUE
<1>1. WellFormed(free, AgLen) /\ AgLen \in Nat
  BY SizesAssumption DEF AgPart
<1>2. PICK r : r = FreeExtent(free, start, len, AgLen)
  OBVIOUS
<1>3. r.ok /\ Covered(r.free) = Covered(free) \cup Run(start, len)
  BY <1>1, <1>2, FreeFrees
<1>4. Cardinality(Covered(r.free)) = Cardinality(Covered(free)) + len
  BY <1>1, <1>2, <1>3, FreeCounts
<1>5. free' = r.free /\ free_total' = free_total + len /\ dirty' = TRUE
  BY <1>2, <1>3 DEF GiveBack
<1> QED
  BY <1>2, <1>3, <1>4, <1>5 DEF TotalExact, FreeCount

(* A run taken out of runs that share no block.                            *)
LEMMA RunDropped ==
    ASSUME NEW runs, NEW run \in runs,
           \A e, x \in runs : e # x => Run(e[1], e[2]) \cap Run(x[1], x[2]) = {}
    PROVE  /\ RunBlocks(runs \ {run}) = RunBlocks(runs) \ Run(run[1], run[2])
           /\ Run(run[1], run[2]) \subseteq RunBlocks(runs)
<1>1. ASSUME NEW b \in RunBlocks(runs \ {run})
      PROVE  b \in RunBlocks(runs) \ Run(run[1], run[2])
  <2>1. PICK x \in runs \ {run} : b \in Run(x[1], x[2])
    BY DEF RunBlocks
  <2>2. b \notin Run(run[1], run[2])
    BY <2>1
  <2> QED
    BY <2>1, <2>2 DEF RunBlocks
<1>2. ASSUME NEW b \in RunBlocks(runs) \ Run(run[1], run[2])
      PROVE  b \in RunBlocks(runs \ {run})
  <2>1. PICK x \in runs : b \in Run(x[1], x[2])
    BY DEF RunBlocks
  <2> QED
    BY <2>1 DEF RunBlocks
<1>3. Run(run[1], run[2]) \subseteq RunBlocks(runs)
  BY DEF RunBlocks
<1> QED
  BY <1>1, <1>2, <1>3

(* An extent taken out of extents that share no block.                     *)
LEMMA ExtentDropped ==
    ASSUME NEW es, NEW e \in es, ExtentsApart(es)
    PROVE  /\ MappedBlocks(es \ {e}) = MappedBlocks(es) \ Run(e.start, e.len)
           /\ Run(e.start, e.len) \subseteq MappedBlocks(es)
           /\ ExtentsApart(es \ {e})
<1>1. ASSUME NEW b \in MappedBlocks(es \ {e})
      PROVE  b \in MappedBlocks(es) \ Run(e.start, e.len)
  <2>1. PICK x \in es \ {e} : b \in Run(x.start, x.len)
    BY DEF MappedBlocks
  <2>2. b \notin Run(e.start, e.len)
    BY <2>1 DEF ExtentsApart
  <2> QED
    BY <2>1, <2>2 DEF MappedBlocks
<1>2. ASSUME NEW b \in MappedBlocks(es) \ Run(e.start, e.len)
      PROVE  b \in MappedBlocks(es \ {e})
  <2>1. PICK x \in es : b \in Run(x.start, x.len)
    BY DEF MappedBlocks
  <2> QED
    BY <2>1 DEF MappedBlocks
<1>3. Run(e.start, e.len) \subseteq MappedBlocks(es)
  BY DEF MappedBlocks
<1>4. ExtentsApart(es \ {e})
  BY DEF ExtentsApart
<1> QED
  BY <1>1, <1>2, <1>3, <1>4

-----------------------------------------------------------------------------
(* What a move is to the pool of blocks.                                   *)

PoolStep == Pool!Next \/ UNCHANGED Pool!vars

(* Blocks that leave the free map for a caller or a chunk are a grant.     *)
LEMMA GrantMove ==
    ASSUME NEW s \in Nat, NEW n \in Nat \ {0}, s + n <= AgLen, NEW q \in {"taken", "chunks"},
           Moved(Pieces, Pieces', Run(s, n), "free", q)
    PROVE  PoolStep
<1>1. /\ Run(s, n) \subseteq Covered(free)
      /\ Covered(free') = Covered(free) \ Run(s, n)
      /\ old_tree_blocks' \cup rb'.todo \cup CarvedBlocks' = old_tree_blocks \cup rb.todo \cup CarvedBlocks
  BY PiecesFields, NewPiecesFields DEF Moved
<1>2. RunBlocks(taken') \cup MappedBlocks(forks') \cup ChunkBlocksOf(chunks')
        = (RunBlocks(taken) \cup MappedBlocks(forks) \cup ChunkBlocksOf(chunks)) \cup Run(s, n)
  BY PiecesFields, NewPiecesFields DEF Moved
<1>3. s \in 0 .. (AgLen - 1) /\ s + n - 1 \in 0 .. (AgLen - 1) /\ s <= s + n - 1
  BY SizesAssumption
<1>4. Run(s, n) = s .. (s + n - 1)
  BY DEF Run
<1>5. Pool!Grant
  BY <1>1, <1>2, <1>3, <1>4 DEF Pool!Grant, ForkBlocks
<1> QED
  BY <1>5 DEF PoolStep, Pool!Next

(* Blocks that come back to it from a caller are a return.                 *)
LEMMA ReturnMove ==
    ASSUME NEW R, NEW p \in {"taken", "forks"}, Apart(Pieces), Moved(Pieces, Pieces', R, p, "free")
    PROVE  PoolStep
<1>1. /\ Covered(free') = Covered(free) \cup R
      /\ old_tree_blocks' \cup rb'.todo \cup CarvedBlocks' = old_tree_blocks \cup rb.todo \cup CarvedBlocks
  BY PiecesFields, NewPiecesFields DEF Moved
<1>2. /\ R \subseteq Pieces[p]
      /\ \A x \in {"taken", "forks", "chunks"} \ {p} : Pieces[x] \cap R = {}
  BY PiecesFields DEF Moved, Apart
<1>3. \A x \in {"taken", "forks", "chunks"} : Pieces'[x] = Pieces[x] \ R
  BY <1>2, PiecesFields, NewPiecesFields DEF Moved
<1>4. RunBlocks(taken') \cup MappedBlocks(forks') \cup ChunkBlocksOf(chunks')
        = (RunBlocks(taken) \cup MappedBlocks(forks) \cup ChunkBlocksOf(chunks)) \ R
  BY <1>3, PiecesFields, NewPiecesFields
<1>5. R \subseteq RunBlocks(taken) \cup MappedBlocks(forks) \cup ChunkBlocksOf(chunks)
  BY <1>2, PiecesFields
<1>6. Pool!Return
  BY <1>1, <1>4, <1>5 DEF Pool!Return, ForkBlocks
<1> QED
  BY <1>6 DEF PoolStep, Pool!Next

(* Blocks that go between the free map and the trees are a new layout.     *)
LEMMA RelayoutMove ==
    ASSUME NEW R, NEW p \in {"trees", "free"}, NEW q \in {"trees", "free"}, Apart(Pieces),
           Moved(Pieces, Pieces', R, p, q)
    PROVE  PoolStep
<1>1. /\ Pieces'["free"] \cup Pieces'["trees"] = Pieces["free"] \cup Pieces["trees"]
      /\ Pieces'["free"] \cap Pieces'["trees"] = {}
  <2>1. Pieces["free"] \cap Pieces["trees"] = {}
    BY PiecesFields DEF Apart
  <2> QED
    BY <2>1, PiecesFields DEF Moved
<1>2. \A x \in {"taken", "forks", "chunks"} : Pieces'[x] = Pieces[x]
  BY PiecesFields DEF Moved
<1>3. Pool!Relayout
  BY <1>1, <1>2, PiecesFields, NewPiecesFields DEF Pool!Relayout, ForkBlocks
<1> QED
  BY <1>3 DEF PoolStep, Pool!Next

(* A run that is given an owner is the caller's as before.                 *)
LEMMA OwnedMove ==
    ASSUME NEW R, Moved(Pieces, Pieces', R, "taken", "forks")
    PROVE  PoolStep
<1>1. /\ Pieces'["taken"] \cup Pieces'["forks"] = Pieces["taken"] \cup Pieces["forks"]
      /\ \A x \in {"free", "trees", "chunks"} : Pieces'[x] = Pieces[x]
  BY PiecesFields DEF Moved
<1>2. UNCHANGED Pool!vars
  BY <1>1, PiecesFields, NewPiecesFields DEF Pool!vars, ForkBlocks
<1> QED
  BY <1>2 DEF PoolStep

(* Nothing moves.                                                          *)
LEMMA NoMove ==
    ASSUME Pieces' = Pieces
    PROVE  PoolStep
<1>1. UNCHANGED Pool!vars
  BY PiecesFields, NewPiecesFields DEF Pool!vars, ForkBlocks
<1> QED
  BY <1>1 DEF PoolStep

-----------------------------------------------------------------------------
(* One lemma per call.                                                     *)

(* Between calls `rebuild` holds nothing.                                  *)
LEMMA IdleStages ==
    ASSUME RbStages, rb.pc = "idle", rb' = rb
    PROVE  RbStages'
BY DEF RbStages

(* A run that leaves the free map for the caller.                          *)
LEMMA TakenPool ==
    ASSUME Parts, PoolInv, NEW s \in Nat, NEW n \in Nat \ {0}, Takeable(free, s, n),
           TakeRun(s, n), taken' = taken \cup {<<s, n>>}, Call,
           UNCHANGED <<reserve, old_tree_blocks, chunks, rmap, rb, forks, disk, failed, err>>
    PROVE  PoolInv' /\ PoolStep /\ InHand' = InHand
<1>1. /\ Run(s, n) \subseteq Covered(free) /\ Covered(free') = Covered(free) \ Run(s, n)
      /\ TotalExact' /\ dirty' = TRUE
  BY TakeBlocks DEF Parts, PoolInv
<1>2. s + n <= AgLen
  BY TakeKeeps DEF Parts
<1>3. RunBlocks(taken') = RunBlocks(taken) \cup Run(s, n)
  BY RunPut
<1>4. Moved(Pieces, Pieces', Run(s, n), "free", "taken")
  <2>1. CarvedBlocks' = CarvedBlocks
    BY DEF CarvedBlocks
  <2> QED
    BY <1>1, <1>3, <2>1, PiecesFields, NewPiecesFields DEF Moved
<1>5. Apart(Pieces)' /\ NoLeak'
  BY <1>4, MoveInv DEF PoolInv
<1>6. NoSharing'
  <2>1. \A e \in taken : Run(e[1], e[2]) \cap Run(s, n) = {}
    <3>1. RunBlocks(taken) \cap Covered(free) = {}
      BY PiecesFields DEF PoolInv, NoSharing, Apart
    <3> QED
      BY <1>1, <3>1 DEF RunBlocks
  <2>2. \A e, x \in taken' : e # x => Run(e[1], e[2]) \cap Run(x[1], x[2]) = {}
    BY <2>1 DEF PoolInv, NoSharing
  <2> QED
    BY <1>5, <2>2 DEF PoolInv, NoSharing
<1>7. RbStages'
  BY IdleStages DEF PoolInv, Call
<1>8. CleanBlocks' /\ ChunksThere'
  BY <1>1 DEF PoolInv, CleanBlocks, ChunksThere
<1>9. PoolStep
  BY <1>2, <1>4, GrantMove
<1>10. InHand' = InHand
  BY <1>1, <1>3 DEF InHand
<1> QED
  BY <1>1, <1>5, <1>6, <1>7, <1>8, <1>9, <1>10 DEF PoolInv

(* `alloc` grants a run nobody had.                                        *)
LEMMA AllocPool ==
    ASSUME Parts, PoolInv, NEW want \in Wants, NEW near \in Nears, Alloc(want, near)
    PROVE  PoolInv' /\ PoolStep /\ InHand' = InHand
<1>1. PICK run :
         /\ run = <<run[1], run[2]>> /\ run[1] \in Nat /\ run[2] \in Nat \ {0}
         /\ Takeable(free, run[1], run[2]) /\ TakeRun(run[1], run[2])
         /\ taken' = taken \cup {run} /\ Call
         /\ UNCHANGED <<reserve, old_tree_blocks, chunks, rmap, rb, forks, disk, failed, err>>
  BY AllocTakes
<1> QED
  BY <1>1, TakenPool

(* So does `alloc_block_except`.                                           *)
LEMMA AllocBlockExceptPool ==
    ASSUME Parts, PoolInv, NEW not \in Nears, AllocBlockExcept(not)
    PROVE  PoolInv' /\ PoolStep /\ InHand' = InHand
<1>1. PICK b \in Nat :
         /\ Takeable(free, b, 1) /\ TakeRun(b, 1)
         /\ taken' = taken \cup {<<b, 1>>} /\ Call
         /\ UNCHANGED <<reserve, old_tree_blocks, chunks, rmap, rb, forks, disk, failed, err>>
  BY AllocBlockExceptTakes
<1> QED
  BY <1>1, TakenPool

(* A run given back is accepted, and is free again.                        *)
LEMMA UntakePool ==
    ASSUME Parts, PoolInv, NEW run \in taken, Untake(run)
    PROVE  PoolInv' /\ PoolStep /\ err' = err /\ InHand' = InHand /\ dirty' = TRUE
<1>1. /\ GiveBack(run[1], run[2]) /\ taken' = taken \ {run} /\ Call
      /\ err' = (err \/ ~ FreeExtent(free, run[1], run[2], AgLen).ok)
      /\ UNCHANGED <<reserve, old_tree_blocks, chunks, rmap, rb, forks, disk, failed>>
  BY DEF Untake
<1>2. run[1] \in Nat /\ run[2] \in Nat \ {0} /\ run[1] + run[2] <= AgLen
  BY DEF Parts, CallerPart, RunsOK
<1>3. /\ RunBlocks(taken') = RunBlocks(taken) \ Run(run[1], run[2])
      /\ Run(run[1], run[2]) \subseteq RunBlocks(taken)
  BY <1>1, RunDropped DEF PoolInv, NoSharing
<1>4. Run(run[1], run[2]) \cap Covered(free) = {}
  BY <1>3, PiecesFields DEF PoolInv, NoSharing, Apart
<1>5. /\ FreeExtent(free, run[1], run[2], AgLen).ok
      /\ Covered(free') = Covered(free) \cup Run(run[1], run[2])
      /\ TotalExact' /\ dirty' = TRUE
  BY <1>1, <1>2, <1>4, GiveBlocks DEF Parts, PoolInv
<1>6. Moved(Pieces, Pieces', Run(run[1], run[2]), "taken", "free")
  <2>1. CarvedBlocks' = CarvedBlocks
    BY <1>1 DEF CarvedBlocks
  <2> QED
    BY <1>1, <1>3, <1>5, <2>1, PiecesFields, NewPiecesFields DEF Moved
<1>7. Apart(Pieces)' /\ NoLeak'
  BY <1>1, <1>6, MoveInv DEF PoolInv
<1>8. NoSharing'
  BY <1>1, <1>7 DEF PoolInv, NoSharing
<1>9. RbStages'
  BY <1>1, IdleStages DEF PoolInv, Call
<1>10. CleanBlocks' /\ ChunksThere'
  BY <1>1, <1>5 DEF PoolInv, CleanBlocks, ChunksThere
<1>11. PoolStep
  BY <1>6, ReturnMove DEF PoolInv, NoSharing
<1>12. err' = err
  BY <1>1, <1>5 DEF Parts, HistPart
<1>13. InHand' = InHand
  BY <1>3, <1>5 DEF InHand
<1> QED
  BY <1>5, <1>7, <1>8, <1>9, <1>10, <1>11, <1>12, <1>13 DEF PoolInv

(* A run that is mapped goes to the files, whole.                          *)
LEMMA MapRunPool ==
    ASSUME Parts, PoolInv, NEW run \in taken, NEW ino \in Inodes, NEW fork \in {"data", "bmbt"},
           MapRun(run, ino, fork)
    PROVE  PoolInv' /\ PoolStep
<1>1. PICK r : r = Rmap(run[1], run[2], ino, IF fork = "data" THEN DataEnd(ino) ELSE 0, fork)
  OBVIOUS
<1>2. /\ taken' = taken \ {run} /\ forks' = forks \cup {r} /\ dirty' = (dirty \/ HasRmap) /\ Call
      /\ UNCHANGED <<free, free_total, reserve, old_tree_blocks, chunks, rb, disk, failed, err>>
  BY <1>1 DEF MapRun
<1>3. r.start = run[1] /\ r.len = run[2]
  BY <1>1 DEF Rmap
<1>4. /\ RunBlocks(taken') = RunBlocks(taken) \ Run(run[1], run[2])
      /\ Run(run[1], run[2]) \subseteq RunBlocks(taken)
  BY <1>2, RunDropped DEF PoolInv, NoSharing
<1>5. MappedBlocks(forks') = MappedBlocks(forks) \cup Run(run[1], run[2])
  BY <1>2, <1>3 DEF MappedBlocks
<1>6. Moved(Pieces, Pieces', Run(run[1], run[2]), "taken", "forks")
  <2>1. CarvedBlocks' = CarvedBlocks
    BY <1>2 DEF CarvedBlocks
  <2> QED
    BY <1>2, <1>4, <1>5, <2>1, PiecesFields, NewPiecesFields DEF Moved
<1>7. Apart(Pieces)' /\ NoLeak'
  BY <1>2, <1>6, MoveInv DEF PoolInv
<1>8. NoSharing'
  <2>1. \A e \in forks : Run(e.start, e.len) \cap Run(r.start, r.len) = {}
    <3>1. RunBlocks(taken) \cap MappedBlocks(forks) = {}
      BY PiecesFields DEF PoolInv, NoSharing, Apart
    <3> QED
      BY <1>3, <1>4, <3>1 DEF MappedBlocks
  <2>2. ExtentsApart(forks')
    BY <1>2, <2>1 DEF PoolInv, NoSharing, ExtentsApart
  <2> QED
    BY <1>2, <1>7, <2>2 DEF PoolInv, NoSharing
<1>9. TotalExact' /\ RbStages'
  BY <1>2, IdleStages DEF PoolInv, TotalExact, Call
<1>10. CleanBlocks' /\ ChunksThere'
  BY <1>2 DEF PoolInv, CleanBlocks, ChunksThere
<1>11. PoolStep
  BY <1>6, OwnedMove
<1> QED
  BY <1>7, <1>8, <1>9, <1>10, <1>11 DEF PoolInv

(* `release` gives an extent back: it is accepted, and is free again.      *)
LEMMA ReleasePool ==
    ASSUME Parts, PoolInv, NEW e \in forks, Release(e)
    PROVE  /\ PoolInv' /\ PoolStep /\ FreeExtent(free, e.start, e.len, AgLen).ok
           /\ Covered(free') = Covered(free) \cup Run(e.start, e.len) /\ dirty' = TRUE
<1>1. /\ GiveBack(e.start, e.len) /\ forks' = forks \ {e} /\ Call
      /\ UNCHANGED <<reserve, old_tree_blocks, chunks, rb, taken, disk, failed>>
  BY DEF Release
<1>2. e.start \in Nat /\ e.len \in Nat \ {0} /\ e.start + e.len <= AgLen
  <2>1. MapOK(e)
    BY DEF Parts, CallerPart
  <2> QED
    BY <2>1 DEF MapOK, Maps
<1>3. /\ MappedBlocks(forks') = MappedBlocks(forks) \ Run(e.start, e.len)
      /\ Run(e.start, e.len) \subseteq MappedBlocks(forks)
      /\ ExtentsApart(forks')
  BY <1>1, ExtentDropped DEF PoolInv, NoSharing
<1>4. Run(e.start, e.len) \cap Covered(free) = {}
  BY <1>3, PiecesFields DEF PoolInv, NoSharing, Apart
<1>5. /\ FreeExtent(free, e.start, e.len, AgLen).ok
      /\ Covered(free') = Covered(free) \cup Run(e.start, e.len)
      /\ TotalExact' /\ dirty' = TRUE
  BY <1>1, <1>2, <1>4, GiveBlocks DEF Parts, PoolInv
<1>6. Moved(Pieces, Pieces', Run(e.start, e.len), "forks", "free")
  <2>1. CarvedBlocks' = CarvedBlocks
    BY <1>1 DEF CarvedBlocks
  <2> QED
    BY <1>1, <1>3, <1>5, <2>1, PiecesFields, NewPiecesFields DEF Moved
<1>7. Apart(Pieces)' /\ NoLeak'
  BY <1>1, <1>6, MoveInv DEF PoolInv
<1>8. NoSharing'
  BY <1>1, <1>3, <1>7 DEF PoolInv, NoSharing
<1>9. RbStages'
  BY <1>1, IdleStages DEF PoolInv, Call
<1>10. CleanBlocks' /\ ChunksThere'
  BY <1>1, <1>5 DEF PoolInv, CleanBlocks, ChunksThere
<1>11. PoolStep
  BY <1>6, ReturnMove DEF PoolInv, NoSharing
<1> QED
  BY <1>5, <1>7, <1>8, <1>9, <1>10, <1>11 DEF PoolInv

(* Marking inodes free or in use leaves the chunks where they are.         *)
LEMMA InodeMarked ==
    ASSUME Parts, NEW s, NEW S, chunks' = [chunks EXCEPT ![s].free = S]
    PROVE  /\ DOMAIN chunks' = DOMAIN chunks
           /\ \A x \in DOMAIN chunks : chunks'[x].holes = chunks[x].holes
           /\ ChunkBlocksOf(chunks') = ChunkBlocksOf(chunks)
<1>1. \A x \in DOMAIN chunks : chunks[x] \in Chunks
  BY DEF Parts, AgPart
<1>2. DOMAIN chunks' = DOMAIN chunks
  OBVIOUS
<1>3. \A x \in DOMAIN chunks : chunks'[x].holes = chunks[x].holes
  <2>1. ASSUME NEW x \in DOMAIN chunks
        PROVE  chunks'[x].holes = chunks[x].holes
    <3>1. CASE x # s
      BY <3>1
    <3>2. CASE x = s
      <4>1. chunks'[x] = [chunks[x] EXCEPT !.free = S]
        BY <3>2
      <4> QED
        BY <1>1, <4>1 DEF Chunks
    <3> QED
      BY <3>1, <3>2
  <2> QED
    BY <2>1
<1>4. ChunkBlocksOf(chunks') = ChunkBlocksOf(chunks)
  <2>1. \A x \in DOMAIN chunks : ChunkRuns(x, chunks'[x]) = ChunkRuns(x, chunks[x])
    BY <1>3 DEF ChunkRuns
  <2> QED
    BY <1>2, <2>1 DEF ChunkBlocksOf
<1> QED
  BY <1>2, <1>3, <1>4

(* So it moves no block.                                                   *)
LEMMA InodePool ==
    ASSUME Parts, PoolInv, NEW s, NEW S, chunks' = [chunks EXCEPT ![s].free = S],
           dirty' = TRUE, Call,
           UNCHANGED <<free, free_total, reserve, old_tree_blocks, rmap, rb, callerVars, disk, failed, err>>
    PROVE  PoolInv' /\ PoolStep
<1>1. /\ DOMAIN chunks' = DOMAIN chunks
      /\ \A x \in DOMAIN chunks : chunks'[x].holes = chunks[x].holes
      /\ ChunkBlocksOf(chunks') = ChunkBlocksOf(chunks)
  BY InodeMarked
<1>2. Pieces' = Pieces
  <2>1. CarvedBlocks' = CarvedBlocks
    BY DEF CarvedBlocks
  <2> QED
    BY <1>1, <2>1 DEF Pieces, Owners, callerVars
<1>3. Apart(Pieces)' /\ NoLeak'
  BY <1>2, StayInv DEF PoolInv
<1>4. NoSharing'
  BY <1>3 DEF PoolInv, NoSharing, callerVars
<1>5. TotalExact' /\ RbStages' /\ CleanBlocks'
  BY IdleStages DEF PoolInv, TotalExact, CleanBlocks, Call
<1>6. ChunksThere'
  BY <1>1 DEF PoolInv, ChunksThere
<1>7. PoolStep
  BY <1>2, NoMove
<1> QED
  BY <1>3, <1>4, <1>5, <1>6, <1>7 DEF PoolInv

(* `alloc_inode` is such a call ...                                        *)
LEMMA AllocInodePool ==
    ASSUME Parts, PoolInv, AllocInode
    PROVE  PoolInv' /\ PoolStep
<1>1. PICK s : s = Min(ChunksWithFree(chunks))
  OBVIOUS
<1>2. PICK S : S = chunks[s].free \ {Min(FreeInodes(chunks[s]))}
  OBVIOUS
<1>3. /\ chunks' = [chunks EXCEPT ![s].free = S] /\ Call /\ dirty' = TRUE
      /\ UNCHANGED <<free, free_total, reserve, old_tree_blocks, rmap, rb, callerVars, disk, failed, err>>
  BY <1>1, <1>2 DEF AllocInode
<1> QED
  BY <1>3, InodePool

(* ... and `free_inode` is.                                                *)
LEMMA FreeInodePool ==
    ASSUME Parts, PoolInv, NEW agino \in InUse, FreeInode(agino)
    PROVE  PoolInv' /\ PoolStep
<1>1. PICK s : s = AtOrBefore(chunks, agino)
  OBVIOUS
<1>2. PICK S : S = chunks[s].free \cup {agino - s}
  OBVIOUS
<1>3. /\ chunks' = [chunks EXCEPT ![s].free = S] /\ Call /\ dirty' = TRUE
      /\ UNCHANGED <<free, free_total, reserve, old_tree_blocks, rmap, rb, callerVars, disk, failed, err>>
  BY <1>1, <1>2 DEF FreeInode
<1> QED
  BY <1>3, InodePool

(* A new chunk never takes the place of one that is there, holes or not:   *)
(* the run it is put in would hold a block of that one.                    *)
LEMMA ChunkIsNew ==
    ASSUME Parts, PoolInv, NEW b \in Nat, Run(b, ChunkBlocks) \subseteq Covered(free)
    PROVE  b * InodesPerBlock \notin DOMAIN chunks
<1>1. SUFFICES ASSUME b * InodesPerBlock \in DOMAIN chunks
               PROVE  FALSE
  OBVIOUS
<1>2. PICK s : s = b * InodesPerBlock
  OBVIOUS
<1>3. chunks[s] \in Chunks /\ chunks[s].holes # 0 .. (ChunkInodes - 1)
  BY <1>1, <1>2 DEF Parts, AgPart, PoolInv, ChunksThere
<1>4. PICK i \in 0 .. (ChunkInodes - 1) : i \notin chunks[s].holes
  BY <1>3 DEF Chunks
<1>5. PICK x : x = (s + i) \div InodesPerBlock
  OBVIOUS
<1>6. x \in ChunkBlocksOf(chunks)
  BY <1>1, <1>2, <1>4, <1>5 DEF ChunkBlocksOf, ChunkRuns
<1>7. x \in Covered(free)
  BY <1>2, <1>4, <1>5, InodeBlock
<1>8. ChunkBlocksOf(chunks) \cap Covered(free) = {}
  BY PiecesFields DEF PoolInv, NoSharing, Apart
<1> QED
  BY <1>6, <1>7, <1>8

(* What `alloc_chunk` does to the group's blocks: a free run is a chunk.   *)
ChunkGranted(b) ==
    /\ b \in Nat /\ b + ChunkBlocks <= AgLen /\ Call
    /\ Run(b, ChunkBlocks) \subseteq Covered(free)
    /\ Covered(free') = Covered(free) \ Run(b, ChunkBlocks)
    /\ TotalExact' /\ dirty' = TRUE
    /\ ChunkBlocksOf(chunks') = ChunkBlocksOf(chunks) \cup Run(b, ChunkBlocks)
    /\ rmap' = rmap_add({Rmap(b, ChunkBlocks, INODES, 0, "bmbt")})
    /\ UNCHANGED <<reserve, old_tree_blocks, rb, callerVars, disk, failed, err>>

(* It does so, and every chunk still has an inode that is there.           *)
LEMMA ChunkIsGranted ==
    ASSUME Parts, PoolInv, AllocChunk
    PROVE  ChunksThere' /\ \E b : ChunkGranted(b)
<1>1. PICK b, chunk : ChunkTaken(b, chunk)
  BY AllocChunkTakes
<1>2. /\ b \in Nat /\ Takeable(free, b, ChunkBlocks) /\ TakeRun(b, ChunkBlocks) /\ Call
      /\ chunks' = With(chunks, b * InodesPerBlock, chunk)
      /\ chunk = [holes |-> {}, free |-> 0 .. (ChunkInodes - 1)]
      /\ rmap' = rmap_add({Rmap(b, ChunkBlocks, INODES, 0, "bmbt")})
      /\ UNCHANGED <<reserve, old_tree_blocks, rb, callerVars, disk, failed, err>>
  BY <1>1 DEF ChunkTaken
<1>3. /\ Run(b, ChunkBlocks) \subseteq Covered(free)
      /\ Covered(free') = Covered(free) \ Run(b, ChunkBlocks)
      /\ TotalExact' /\ dirty' = TRUE
  BY <1>2, TakeBlocks, SizesAssumption DEF Parts, PoolInv
<1>4. b + ChunkBlocks <= AgLen
  BY <1>2, TakeKeeps, SizesAssumption DEF Parts
<1>5. PICK s : s = b * InodesPerBlock
  OBVIOUS
<1>6. s \notin DOMAIN chunks
  BY <1>2, <1>3, <1>5, ChunkIsNew
<1>7. /\ DOMAIN chunks' = DOMAIN chunks \cup {s} /\ chunks'[s] = chunk
      /\ \A x \in DOMAIN chunks : chunks'[x] = chunks[x]
  BY <1>2, <1>5, <1>6 DEF With
<1>8. ChunkRuns(s, chunk) = Run(b, ChunkBlocks)
  BY <1>2, <1>5, WholeChunk
<1>9. ChunkBlocksOf(chunks') = ChunkBlocksOf(chunks) \cup Run(b, ChunkBlocks)
  BY <1>7, <1>8 DEF ChunkBlocksOf
<1>10. ChunksThere'
  <2>1. ChunkInodes \in Nat \ {0}
    BY SizesAssumption DEF ChunkInodes
  <2>2. chunk.holes # 0 .. (ChunkInodes - 1)
    BY <1>2, <2>1
  <2> QED
    BY <1>7, <2>2 DEF PoolInv, ChunksThere
<1>11. ChunkGranted(b)
  BY <1>2, <1>3, <1>4, <1>9 DEF ChunkGranted
<1> QED
  BY <1>10, <1>11

(* So it grants a run nobody had.                                          *)
LEMMA AllocChunkPool ==
    ASSUME Parts, PoolInv, AllocChunk
    PROVE  PoolInv' /\ PoolStep
<1>1. ChunksThere' /\ \E b : ChunkGranted(b)
  BY ChunkIsGranted
<1>2. PICK b : ChunkGranted(b)
  BY <1>1
<1>3. /\ b \in Nat /\ b + ChunkBlocks <= AgLen /\ Call
      /\ Run(b, ChunkBlocks) \subseteq Covered(free)
      /\ Covered(free') = Covered(free) \ Run(b, ChunkBlocks)
      /\ TotalExact' /\ dirty' = TRUE
      /\ ChunkBlocksOf(chunks') = ChunkBlocksOf(chunks) \cup Run(b, ChunkBlocks)
      /\ UNCHANGED <<reserve, old_tree_blocks, rb, callerVars, disk, failed, err>>
  BY <1>2 DEF ChunkGranted
<1>4. Moved(Pieces, Pieces', Run(b, ChunkBlocks), "free", "chunks")
  <2>1. CarvedBlocks' = CarvedBlocks
    BY <1>3 DEF CarvedBlocks
  <2> QED
    BY <1>3, <2>1, PiecesFields, NewPiecesFields DEF Moved, callerVars
<1>5. Apart(Pieces)' /\ NoLeak'
  BY <1>3, <1>4, MoveInv DEF PoolInv
<1>6. NoSharing'
  BY <1>3, <1>5 DEF PoolInv, NoSharing, callerVars
<1>7. RbStages' /\ CleanBlocks'
  BY <1>3, IdleStages DEF PoolInv, CleanBlocks, Call
<1>8. PoolStep
  BY <1>3, <1>4, GrantMove, SizesAssumption
<1> QED
  BY <1>1, <1>3, <1>5, <1>6, <1>7, <1>8 DEF PoolInv

(* A session that opens the group again finds the blocks as they were.     *)
LEMMA ReloadPool ==
    ASSUME Parts, PoolInv, Reload
    PROVE  PoolInv' /\ PoolStep
<1>1. /\ Call /\ ~ dirty /\ dirty' = FALSE
      /\ free' = disk.free /\ free_total' = FreeCount(disk.free)
      /\ old_tree_blocks' = TreeBlocks(disk) /\ chunks' = disk.chunks
      /\ UNCHANGED <<rb, callerVars, disk, failed, err>>
  BY DEF Reload
<1>2. rb.pc = "idle"
  BY <1>1 DEF Call
<1>3. free' = free /\ chunks' = chunks /\ old_tree_blocks' = old_tree_blocks
  BY <1>1, <1>2 DEF PoolInv, CleanBlocks
<1>4. Pieces' = Pieces
  BY <1>1, <1>3 DEF Pieces, Owners, CarvedBlocks, callerVars
<1>5. Apart(Pieces)' /\ NoLeak'
  BY <1>1, <1>4, StayInv DEF PoolInv
<1>6. NoSharing'
  BY <1>1, <1>5 DEF PoolInv, NoSharing, callerVars
<1>7. TotalExact' /\ CleanBlocks' /\ ChunksThere'
  BY <1>1, <1>3 DEF PoolInv, TotalExact, CleanBlocks, ChunksThere
<1>8. RbStages'
  BY <1>1, <1>2, IdleStages DEF PoolInv
<1>9. PoolStep
  BY <1>4, NoMove
<1> QED
  BY <1>5, <1>6, <1>7, <1>8, <1>9 DEF PoolInv

-----------------------------------------------------------------------------
(* One lemma per step of `rebuild`.                                        *)

(* The blocks of the old trees are next to be freed.                       *)
LEMMA RebuildStartPool ==
    ASSUME Parts, PoolInv, RebuildStart
    PROVE  PoolInv' /\ PoolStep
<1>1. /\ Call /\ dirty /\ rb' = [Idle EXCEPT !.pc = "free", !.todo = old_tree_blocks]
      /\ old_tree_blocks' = {}
      /\ UNCHANGED <<free, free_total, reserve, chunks, rmap, dirty, callerVars, disk, failed, err>>
  BY DEF RebuildStart
<1>2. rb.pc = "idle" /\ rb.todo = {} /\ rb.ag_run = {} /\ rb.ino_run = {}
  BY <1>1 DEF Call, PoolInv, RbStages
<1>3. rb'.pc = "free" /\ rb'.todo = old_tree_blocks /\ rb'.ag_run = {} /\ rb'.ino_run = {}
  BY <1>1 DEF Idle
<1>4. CarvedBlocks = {} /\ CarvedBlocks' = {}
  BY <1>2, <1>3 DEF CarvedBlocks, RunBlocks
<1>5. Pieces' = Pieces
  BY <1>1, <1>2, <1>3, <1>4 DEF Pieces, Owners, callerVars
<1>6. Apart(Pieces)' /\ NoLeak'
  BY <1>1, <1>5, StayInv DEF PoolInv
<1>7. NoSharing'
  BY <1>1, <1>3, <1>6 DEF PoolInv, NoSharing, callerVars, RunBlocks
<1>8. TotalExact' /\ CleanBlocks' /\ ChunksThere' /\ RbStages'
  BY <1>1, <1>3 DEF PoolInv, TotalExact, CleanBlocks, ChunksThere, RbStages
<1>9. PoolStep
  BY <1>5, NoMove
<1> QED
  BY <1>6, <1>7, <1>8, <1>9 DEF PoolInv

(* Each is accepted: a rebuild never fails here, nor reports corruption.   *)
LEMMA RebuildFreePool ==
    ASSUME Parts, PoolInv, RebuildFree
    PROVE  PoolInv' /\ PoolStep /\ err' = err /\ failed' = failed
<1>1. PICK b : b = Min(rb.todo)
  OBVIOUS
<1>2. PICK ok : ok = FreeExtent(free, b, 1, AgLen).ok
  OBVIOUS
<1>3. /\ rb.pc = "free" /\ rb.todo # {} /\ GiveBack(b, 1)
      /\ rb' = IF ok THEN [rb EXCEPT !.todo = @ \ {b}] ELSE Idle
      /\ err' = (err \/ ~ ok) /\ failed' = (failed \/ ~ ok)
      /\ UNCHANGED <<reserve, old_tree_blocks, chunks, rmap, callerVars, disk, calls>>
  BY <1>1, <1>2 DEF RebuildFree
<1>4. rb.todo \subseteq Blocks /\ Blocks \subseteq Nat
  BY RbFields, SizesAssumption DEF Parts, Blocks
<1>5. b \in rb.todo
  BY <1>1, <1>3, <1>4, MinOfNats
<1>6. b \in Nat /\ b + 1 <= AgLen
  BY <1>4, <1>5, SizesAssumption DEF Blocks
<1>7. Run(b, 1) = {b}
  BY <1>6 DEF Run
<1>8. Run(b, 1) \cap Covered(free) = {}
  <2>1. Covered(free) \cap (old_tree_blocks \cup rb.todo \cup CarvedBlocks) = {}
    BY PiecesFields DEF PoolInv, NoSharing, Apart
  <2> QED
    BY <1>5, <1>7, <2>1
<1>9. /\ ok /\ Covered(free') = Covered(free) \cup {b} /\ TotalExact' /\ dirty' = TRUE
  <2>1. AgPart /\ TotalExact /\ 1 \in Nat \ {0}
    BY DEF Parts, PoolInv
  <2>2. GiveBack(b, 1)
    BY <1>3
  <2>3. /\ FreeExtent(free, b, 1, AgLen).ok
        /\ Covered(free') = Covered(free) \cup Run(b, 1)
        /\ TotalExact' /\ dirty' = TRUE
    BY <1>6, <1>8, <2>1, <2>2, GiveBlocks
  <2> QED
    BY <1>2, <1>7, <2>3
<1>10. /\ rb'.pc = "free" /\ rb'.todo = rb.todo \ {b}
       /\ rb'.ag_run = rb.ag_run /\ rb'.ino_run = rb.ino_run
  BY <1>3, <1>9, RbFields DEF Parts
<1>11. err' = err /\ failed' = failed
  BY <1>3, <1>9 DEF Parts, HistPart
<1>12. old_tree_blocks = {} /\ rb.ag_run = {} /\ rb.ino_run = {}
  BY <1>3 DEF PoolInv, RbStages
<1>13. CarvedBlocks = {} /\ CarvedBlocks' = {}
  BY <1>10, <1>12 DEF CarvedBlocks, RunBlocks
<1>14. Moved(Pieces, Pieces', {b}, "trees", "free")
  BY <1>3, <1>5, <1>9, <1>10, <1>12, <1>13, PiecesFields, NewPiecesFields DEF Moved, callerVars
<1>15. Apart(Pieces)' /\ NoLeak'
  BY <1>11, <1>14, MoveInv DEF PoolInv
<1>16. NoSharing'
  BY <1>3, <1>10, <1>15 DEF PoolInv, NoSharing, callerVars
<1>17. CleanBlocks' /\ ChunksThere' /\ RbStages'
  BY <1>3, <1>9, <1>10, <1>12 DEF PoolInv, CleanBlocks, ChunksThere, RbStages
<1>18. PoolStep
  BY <1>14, RelayoutMove DEF PoolInv, NoSharing
<1> QED
  BY <1>9, <1>11, <1>15, <1>16, <1>17, <1>18 DEF PoolInv

(* The base is the free map once the old trees' blocks are all in it.      *)
LEMMA RebuildBasePool ==
    ASSUME Parts, PoolInv, RebuildBase
    PROVE  PoolInv' /\ PoolStep
<1>1. PICK need : need = ag_need(Cardinality(DOMAIN free), Cardinality(merged_rmap(rmap')) + 2)
  OBVIOUS
<1>2. PICK base : base = [free |-> free, total |-> free_total, rmap |-> rmap']
  OBVIOUS
<1>3. /\ rb.pc = "free" /\ rb.todo = {}
      /\ rb' = [rb EXCEPT !.pc = "try", !.base = base, !.ag_blocks = need]
      /\ UNCHANGED <<free, free_total, reserve, old_tree_blocks, chunks, dirty,
                     callerVars, disk, calls, failed, err>>
  BY <1>1, <1>2 DEF RebuildBase
<1>4. /\ rb'.pc = "try" /\ rb'.todo = {} /\ rb'.ag_run = rb.ag_run /\ rb'.ino_run = rb.ino_run
      /\ rb'.base = base
  BY <1>3, RbFields DEF Parts
<1>5. rb.ag_run = {} /\ rb.ino_run = {} /\ old_tree_blocks = {} /\ dirty
  BY <1>3 DEF PoolInv, RbStages
<1>6. CarvedBlocks = {} /\ CarvedBlocks' = {}
  BY <1>4, <1>5 DEF CarvedBlocks, RunBlocks
<1>7. Pieces' = Pieces
  BY <1>3, <1>4, <1>6 DEF Pieces, Owners, callerVars
<1>8. Apart(Pieces)' /\ NoLeak'
  BY <1>3, <1>7, StayInv DEF PoolInv
<1>9. NoSharing'
  BY <1>3, <1>4, <1>8 DEF PoolInv, NoSharing, callerVars
<1>10. TotalExact' /\ CleanBlocks' /\ ChunksThere'
  BY <1>3, <1>4 DEF PoolInv, TotalExact, CleanBlocks, ChunksThere
<1>11. RbStages'
  <2>1. base.free = free /\ base.total = free_total
    BY <1>2
  <2>2. Covered(rb'.base.free) = Covered(free') \cup CarvedBlocks'
    BY <1>3, <1>4, <1>6, <2>1
  <2>3. rb'.base.total = FreeCount(rb'.base.free)
    BY <1>4, <2>1 DEF PoolInv, TotalExact
  <2> QED
    BY <1>3, <1>4, <1>5, <2>2, <2>3 DEF RbStages
<1>12. PoolStep
  BY <1>7, NoMove
<1> QED
  BY <1>8, <1>9, <1>10, <1>11, <1>12 DEF PoolInv

(* A turn gives back what the last one carved, by going back to the base.  *)
LEMMA RebuildTryPool ==
    ASSUME Parts, PoolInv, RebuildTry
    PROVE  PoolInv' /\ PoolStep
<1>1. PICK need : need = ino_need(chunks)
  OBVIOUS
<1>2. /\ rb.pc = "try"
      /\ free' = rb.base.free /\ free_total' = rb.base.total /\ rmap' = rb.base.rmap
      /\ rb' = [rb EXCEPT !.pc = "ino", !.tries = @ + 1, !.left = need,
                          !.ag_run = {}, !.ino_run = {}]
      /\ UNCHANGED <<reserve, old_tree_blocks, chunks, dirty, callerVars, disk, calls, failed, err>>
  BY <1>1 DEF RebuildTry
<1>3. /\ rb'.pc = "ino" /\ rb'.todo = rb.todo /\ rb'.ag_run = {} /\ rb'.ino_run = {}
      /\ rb'.left = need /\ rb'.base = rb.base
  BY <1>2, RbFields DEF Parts
<1>4. /\ Covered(rb.base.free) = Covered(free) \cup CarvedBlocks
      /\ rb.base.total = FreeCount(rb.base.free) /\ rb.todo = {} /\ old_tree_blocks = {} /\ dirty
  BY <1>2 DEF PoolInv, RbStages
<1>5. CarvedBlocks' = {} /\ RunBlocks({}) = {}
  BY <1>3 DEF CarvedBlocks, RunBlocks
<1>6. Moved(Pieces, Pieces', CarvedBlocks, "trees", "free")
  BY <1>2, <1>3, <1>4, <1>5, PiecesFields, NewPiecesFields DEF Moved, callerVars
<1>7. Apart(Pieces)' /\ NoLeak'
  BY <1>2, <1>6, MoveInv DEF PoolInv
<1>8. NoSharing'
  BY <1>2, <1>3, <1>5, <1>7 DEF PoolInv, NoSharing, callerVars
<1>9. TotalExact' /\ CleanBlocks' /\ ChunksThere'
  BY <1>2, <1>3, <1>4 DEF PoolInv, TotalExact, CleanBlocks, ChunksThere
<1>10. RbStages'
  <2>1. Covered(rb'.base.free) = Covered(free') \cup CarvedBlocks'
    BY <1>2, <1>3, <1>5
  <2>2. Cardinality(RunBlocks(rb'.ino_run)) + rb'.left = ino_need(chunks')
    <3>1. need \in Nat
      BY <1>1, InoNeedNat DEF Parts, AgPart
    <3>2. Cardinality(RunBlocks(rb'.ino_run)) = 0
      BY <1>3, <1>5, FS_EmptySet
    <3> QED
      BY <1>1, <1>2, <1>3, <3>1, <3>2
  <2> QED
    BY <1>2, <1>3, <1>4, <2>1, <2>2 DEF RbStages
<1>11. PoolStep
  BY <1>6, RelayoutMove DEF PoolInv, NoSharing
<1> QED
  BY <1>7, <1>8, <1>9, <1>10, <1>11 DEF PoolInv

(* A rebuild that fails forgets what it carved: blocks are lost, which     *)
(* `failed` records, but none is shared.                                   *)
LEMMA RebuildFailsPool ==
    ASSUME Parts, PoolInv, RebuildFails
    PROVE  PoolInv' /\ PoolStep
<1>1. /\ rb.pc \in {"try", "ino", "ag"} /\ rb' = Idle /\ failed' = TRUE
      /\ UNCHANGED <<agVars, callerVars, disk, calls, err>>
  BY DEF RebuildFails
<1>2. rb'.pc = "idle" /\ rb'.todo = {} /\ rb'.ag_run = {} /\ rb'.ino_run = {}
  BY <1>1 DEF Idle
<1>3. rb.todo = {} /\ old_tree_blocks = {} /\ dirty
  BY <1>1 DEF PoolInv, RbStages
<1>4. CarvedBlocks' = {} /\ RunBlocks({}) = {}
  BY <1>2 DEF CarvedBlocks, RunBlocks
<1>5. /\ Pieces'["trees"] = {} /\ DOMAIN Pieces' = DOMAIN Pieces
      /\ \A p \in DOMAIN Pieces \ {"trees"} : Pieces'[p] = Pieces[p]
  BY <1>1, <1>2, <1>3, <1>4, PiecesFields, NewPiecesFields DEF agVars, callerVars
<1>6. Apart(Pieces)'
  <2>1. PICK P : P = Pieces
    OBVIOUS
  <2>2. PICK Q : Q = Pieces'
    OBVIOUS
  <2>3. Apart(P)
    BY <2>1 DEF PoolInv, NoSharing
  <2>4. Apart(Q)
    BY <1>5, <2>1, <2>2, <2>3 DEF Apart
  <2> QED
    BY <2>2, <2>4 DEF Apart
<1>7. NoSharing'
  BY <1>1, <1>2, <1>4, <1>6 DEF PoolInv, NoSharing, callerVars
<1>8. NoLeak' /\ TotalExact' /\ CleanBlocks' /\ ChunksThere'
  BY <1>1, <1>3 DEF PoolInv, NoLeak, TotalExact, CleanBlocks, ChunksThere, agVars
<1>9. RbStages'
  BY <1>2 DEF RbStages
<1>10. PoolStep
  <2>1. Pool!Relayout
    BY <1>5, PiecesFields, NewPiecesFields DEF Pool!Relayout, ForkBlocks
  <2> QED
    BY <2>1 DEF PoolStep, Pool!Next
<1> QED
  BY <1>7, <1>8, <1>9, <1>10 DEF PoolInv

(* The size of a set of runs, and of one with a run more.                  *)
LEMMA RunsCounted ==
    ASSUME NEW runs, RunsOK(runs), NEW s \in Nat, NEW n \in Nat,
           Run(s, n) \cap RunBlocks(runs) = {}
    PROVE  /\ Cardinality(RunBlocks(runs)) \in Nat
           /\ Cardinality(RunBlocks(runs \cup {<<s, n>>})) = Cardinality(RunBlocks(runs)) + n
<1>1. IsFiniteSet(RunBlocks(runs))
  <2>1. IsFiniteSet(Blocks)
    BY SizesAssumption, FS_Interval DEF Blocks
  <2> QED
    BY <2>1, RunBlocksInside, FS_Subset
<1>2. IsFiniteSet(Run(s, n)) /\ Cardinality(Run(s, n)) = n
  BY RunSize
<1>3. RunBlocks(runs \cup {<<s, n>>}) = RunBlocks(runs) \cup Run(s, n)
  BY RunPut
<1>4. PICK A : A = RunBlocks(runs)
  OBVIOUS
<1>5. PICK B : B = Run(s, n)
  OBVIOUS
<1>6. IsFiniteSet(A) /\ IsFiniteSet(B) /\ A \cap B = {}
  BY <1>1, <1>2, <1>4, <1>5
<1>7. Cardinality(A) \in Nat
  BY <1>6, FS_CardinalityType
<1>8. Cardinality(A \cup B) = Cardinality(A) + Cardinality(B) - Cardinality(A \cap B)
  BY <1>6, FS_Union
<1>9. Cardinality(A \cap B) = 0
  BY <1>6, FS_EmptySet
<1>10. Cardinality(B) = n /\ RunBlocks(runs \cup {<<s, n>>}) = A \cup B
  BY <1>2, <1>3, <1>4, <1>5
<1>11. Cardinality(A \cup B) = Cardinality(A) + n
  BY <1>7, <1>8, <1>9, <1>10
<1> QED
  BY <1>4, <1>7, <1>10, <1>11

(* A turn of `carve` moves a free run to the trees, and what is left to    *)
(* carve is what was, without it.                                          *)
LEMMA CarvePool ==
    ASSUME Parts, PoolInv, Carve
    PROVE  PoolInv' /\ PoolStep
<1>1. PICK at, take : CarveTaken(at, take)
  BY CarveTakes
<1>2. /\ rb.pc \in {"ino", "ag"} /\ at \in Nat /\ take \in Nat \ {0} /\ rb.left - take \in Nat
      /\ Takeable(free, at, take) /\ TakeRun(at, take)
      /\ rb' = IF rb.pc = "ino"
               THEN [rb EXCEPT !.left = @ - take, !.ino_run = @ \cup {<<at, take>>}]
               ELSE [rb EXCEPT !.left = @ - take, !.ag_run = @ \cup {<<at, take>>}]
      /\ UNCHANGED <<reserve, old_tree_blocks, chunks, rmap, callerVars, disk, calls, failed, err>>
  BY <1>1 DEF CarveTaken
<1>3. PICK R : R = Run(at, take)
  OBVIOUS
<1>4. /\ R \subseteq Covered(free) /\ Covered(free') = Covered(free) \ R
      /\ TotalExact' /\ dirty' = TRUE
  BY <1>2, <1>3, TakeBlocks DEF Parts, PoolInv
<1>5. /\ rb'.pc = rb.pc /\ rb'.todo = rb.todo /\ rb'.base = rb.base
      /\ rb'.left = rb.left - take /\ rb'.ag_blocks = rb.ag_blocks
      /\ IF rb.pc = "ino" THEN rb'.ino_run = rb.ino_run \cup {<<at, take>>} /\ rb'.ag_run = rb.ag_run
                          ELSE rb'.ag_run = rb.ag_run \cup {<<at, take>>} /\ rb'.ino_run = rb.ino_run
  BY <1>2, RbFields DEF Parts
<1>6. /\ rb.pc = "ino" => /\ RunBlocks(rb'.ino_run) = RunBlocks(rb.ino_run) \cup R
                          /\ RunBlocks(rb'.ag_run) = RunBlocks(rb.ag_run)
      /\ rb.pc # "ino" => /\ RunBlocks(rb'.ag_run) = RunBlocks(rb.ag_run) \cup R
                          /\ RunBlocks(rb'.ino_run) = RunBlocks(rb.ino_run)
  <2>1. \A runs : RunBlocks(runs \cup {<<at, take>>}) = RunBlocks(runs) \cup R
    BY <1>3, RunPut
  <2> QED
    BY <1>5, <2>1
<1>7. CarvedBlocks' = CarvedBlocks \cup R
  BY <1>6 DEF CarvedBlocks
<1>8. Covered(free) \cap CarvedBlocks = {}
  BY PiecesFields DEF PoolInv, NoSharing, Apart
<1>9. Moved(Pieces, Pieces', R, "free", "trees")
  BY <1>2, <1>4, <1>5, <1>7, PiecesFields, NewPiecesFields DEF Moved, callerVars
<1>10. Apart(Pieces)' /\ NoLeak'
  BY <1>2, <1>9, MoveInv DEF PoolInv
<1>11. NoSharing'
  <2>1. R \cap (RunBlocks(rb.ag_run) \cup RunBlocks(rb.ino_run)) = {}
    BY <1>4, <1>8 DEF CarvedBlocks
  <2>2. RunBlocks(rb'.ag_run) \cap RunBlocks(rb'.ino_run) = {}
    BY <1>6, <2>1 DEF PoolInv, NoSharing
  <2> QED
    BY <1>2, <1>10, <2>2 DEF PoolInv, NoSharing, callerVars
<1>12. CleanBlocks' /\ ChunksThere'
  BY <1>2, <1>4 DEF PoolInv, CleanBlocks, ChunksThere
<1>13. RbStages'
  <2>1. /\ Covered(rb.base.free) = Covered(free) \cup CarvedBlocks
        /\ rb.base.total = FreeCount(rb.base.free) /\ rb.todo = {} /\ old_tree_blocks = {}
    BY <1>2 DEF PoolInv, RbStages
  <2>2. Covered(rb'.base.free) = Covered(free') \cup CarvedBlocks'
    BY <1>4, <1>5, <1>7, <2>1
  <2>3. R \cap RunBlocks(rb.ag_run) = {} /\ R \cap RunBlocks(rb.ino_run) = {}
    BY <1>4, <1>8 DEF CarvedBlocks
  <2>4. RunsOK(rb.ag_run) /\ RunsOK(rb.ino_run) /\ rb.left \in Nat
    BY RbFields DEF Parts
  <2>5. /\ Cardinality(RunBlocks(rb.ag_run)) \in Nat /\ Cardinality(RunBlocks(rb.ino_run)) \in Nat
        /\ Cardinality(RunBlocks(rb.ag_run \cup {<<at, take>>}))
             = Cardinality(RunBlocks(rb.ag_run)) + take
        /\ Cardinality(RunBlocks(rb.ino_run \cup {<<at, take>>}))
             = Cardinality(RunBlocks(rb.ino_run)) + take
    BY <1>2, <1>3, <2>3, <2>4, RunsCounted
  <2>6. CASE rb.pc = "ino"
    <3>1. /\ rb.ag_run = {}
          /\ Cardinality(RunBlocks(rb.ino_run)) + rb.left = ino_need(chunks)
      BY <2>6 DEF PoolInv, RbStages
    <3>2. Cardinality(RunBlocks(rb'.ino_run)) + rb'.left = ino_need(chunks')
      BY <1>2, <1>5, <2>4, <2>5, <2>6, <3>1
    <3> QED
      BY <1>2, <1>4, <1>5, <2>1, <2>2, <2>6, <3>1, <3>2 DEF RbStages
  <2>7. CASE rb.pc = "ag"
    <3>1. /\ Cardinality(RunBlocks(rb.ino_run)) = ino_need(chunks)
          /\ Cardinality(RunBlocks(rb.ag_run)) + rb.left = rb.ag_blocks
      BY <2>7 DEF PoolInv, RbStages
    <3>2. Cardinality(RunBlocks(rb'.ag_run)) + rb'.left = rb'.ag_blocks
      BY <1>2, <1>5, <2>4, <2>5, <2>7, <3>1
    <3> QED
      BY <1>2, <1>4, <1>5, <2>1, <2>2, <2>7, <3>1, <3>2 DEF RbStages
  <2> QED
    BY <1>2, <2>6, <2>7
<1>14. PoolStep
  BY <1>9, RelayoutMove DEF PoolInv, NoSharing
<1> QED
  BY <1>4, <1>10, <1>11, <1>12, <1>13, <1>14 DEF PoolInv

(* The inode trees have their blocks; no block moves.                      *)
LEMMA RebuildInoCarvedPool ==
    ASSUME Parts, PoolInv, RebuildInoCarved
    PROVE  PoolInv' /\ PoolStep
<1>1. /\ rb.pc = "ino" /\ rb.left = 0 /\ rb' = [rb EXCEPT !.pc = "ag", !.left = rb.ag_blocks]
      /\ UNCHANGED <<agVars, callerVars, disk, calls, failed, err>>
  BY DEF RebuildInoCarved
<1>2. /\ rb'.pc = "ag" /\ rb'.todo = rb.todo /\ rb'.ag_run = rb.ag_run /\ rb'.ino_run = rb.ino_run
      /\ rb'.left = rb.ag_blocks /\ rb'.ag_blocks = rb.ag_blocks /\ rb'.base = rb.base
  BY <1>1, RbFields DEF Parts
<1>3. CarvedBlocks' = CarvedBlocks /\ RunBlocks({}) = {}
  BY <1>2 DEF CarvedBlocks, RunBlocks
<1>4. Pieces' = Pieces
  BY <1>1, <1>2, <1>3 DEF Pieces, Owners, agVars, callerVars
<1>5. Apart(Pieces)' /\ NoLeak'
  BY <1>1, <1>4, StayInv DEF PoolInv
<1>6. NoSharing'
  BY <1>1, <1>2, <1>5 DEF PoolInv, NoSharing, callerVars
<1>7. TotalExact' /\ CleanBlocks' /\ ChunksThere'
  BY <1>1, <1>2 DEF PoolInv, TotalExact, CleanBlocks, ChunksThere, agVars
<1>8. RbStages'
  <2>1. Cardinality(RunBlocks(rb'.ag_run)) + rb'.left = rb'.ag_blocks
    <3>1. rb.ag_run = {}
      BY <1>1 DEF PoolInv, RbStages
    <3>2. Cardinality(RunBlocks(rb'.ag_run)) = 0
      BY <1>2, <1>3, <3>1, FS_EmptySet
    <3>3. rb.ag_blocks \in Nat
      BY RbFields DEF Parts
    <3> QED
      BY <1>2, <3>2, <3>3
  <2>2. Cardinality(RunBlocks(rb'.ino_run)) = ino_need(chunks')
    <3>1. RunsOK(rb.ino_run) /\ Run(0, 0) \cap RunBlocks(rb.ino_run) = {}
      BY RbFields DEF Parts, Run
    <3>2. Cardinality(RunBlocks(rb.ino_run)) \in Nat
      BY <3>1, RunsCounted
    <3>3. Cardinality(RunBlocks(rb.ino_run)) + rb.left = ino_need(chunks)
      BY <1>1 DEF PoolInv, RbStages
    <3> QED
      BY <1>1, <1>2, <3>2, <3>3 DEF agVars
  <2> QED
    BY <1>1, <1>2, <1>3, <2>1, <2>2 DEF PoolInv, RbStages, agVars
<1>9. PoolStep
  BY <1>4, NoMove
<1> QED
  BY <1>5, <1>6, <1>7, <1>8, <1>9 DEF PoolInv

(* The sizes did not hold; no block moves until the next turn.             *)
LEMMA RebuildAgainPool ==
    ASSUME Parts, PoolInv, RebuildAgain
    PROVE  PoolInv' /\ PoolStep
<1>1. PICK need : need = NeedNow
  OBVIOUS
<1>2. /\ rb.pc = "ag" /\ rb' = [rb EXCEPT !.pc = "try", !.ag_blocks = need]
      /\ UNCHANGED <<free, free_total, reserve, old_tree_blocks, chunks, dirty,
                     callerVars, disk, calls, failed, err>>
  BY <1>1 DEF RebuildAgain
<1>3. /\ rb'.pc = "try" /\ rb'.todo = rb.todo /\ rb'.ag_run = rb.ag_run /\ rb'.ino_run = rb.ino_run
      /\ rb'.base = rb.base
  BY <1>2, RbFields DEF Parts
<1>4. CarvedBlocks' = CarvedBlocks
  BY <1>3 DEF CarvedBlocks
<1>5. Pieces' = Pieces
  BY <1>2, <1>3, <1>4 DEF Pieces, Owners, callerVars
<1>6. Apart(Pieces)' /\ NoLeak'
  BY <1>2, <1>5, StayInv DEF PoolInv
<1>7. NoSharing'
  BY <1>2, <1>3, <1>6 DEF PoolInv, NoSharing, callerVars
<1>8. TotalExact' /\ CleanBlocks' /\ ChunksThere' /\ RbStages'
  BY <1>2, <1>3, <1>4 DEF PoolInv, TotalExact, CleanBlocks, ChunksThere, RbStages
<1>9. PoolStep
  BY <1>5, NoMove
<1> QED
  BY <1>6, <1>7, <1>8, <1>9 DEF PoolInv

-----------------------------------------------------------------------------
(* A rebuild that settles.                                                 *)

(* How many blocks of a list come before one of them.                      *)
Place(S, x) == Cardinality({y \in S : y < x})

(* Each place in a list is one block's.                                    *)
LEMMA PlacesAre ==
    ASSUME NEW S \in SUBSET Nat, IsFiniteSet(S)
    PROVE  /\ Cardinality(S) \in Nat
           /\ \A x \in S : Place(S, x) \in 0 .. (Cardinality(S) - 1)
           /\ \A x, y \in S : x < y => Place(S, x) < Place(S, y)
           /\ \A i \in 0 .. (Cardinality(S) - 1) : \E x \in S : Place(S, x) = i
<1> DEFINE low(x) == {y \in S : y < x}
<1>1. PICK c : c = Cardinality(S)
  OBVIOUS
<1>2. c \in Nat
  BY <1>1, FS_CardinalityType
<1>3. \A x : IsFiniteSet(low(x)) /\ Cardinality(low(x)) \in Nat /\ Place(S, x) = Cardinality(low(x))
  BY FS_Subset, FS_CardinalityType DEF Place
<1>4. ASSUME NEW x \in S
      PROVE  Place(S, x) \in 0 .. (c - 1)
  <2>1. low(x) \in SUBSET S /\ low(x) # S
    OBVIOUS
  <2>2. Cardinality(low(x)) <= c /\ Cardinality(low(x)) # c
    BY <1>1, <2>1, FS_Subset
  <2> QED
    BY <1>2, <1>3, <2>2
<1>5. ASSUME NEW x \in S, NEW y \in S, x < y
      PROVE  Place(S, x) < Place(S, y)
  <2>1. low(x) \in SUBSET low(y)
    <3>1. ASSUME NEW z \in S, z < x
          PROVE  z < y
      <4>1. x \in Nat /\ y \in Nat /\ z \in Nat
        OBVIOUS
      <4> QED
        BY <1>5, <3>1, <4>1
    <3> QED
      BY <3>1
  <2>2. x \in low(y) /\ x \notin low(x)
    BY <1>5
  <2>3. Cardinality(low(x)) <= Cardinality(low(y)) /\ Cardinality(low(x)) # Cardinality(low(y))
    BY <1>3, <2>1, <2>2, FS_Subset
  <2> QED
    BY <1>3, <2>3
<1>6. ASSUME NEW i \in 0 .. (c - 1)
      PROVE  \E x \in S : Place(S, x) = i
  <2> DEFINE F == [x \in S |-> Place(S, x)]
  <2>1. F \in [S -> 0 .. (c - 1)]
    BY <1>4
  <2>2. \A x, y \in S : F[x] = F[y] => x = y
    <3>1. SUFFICES ASSUME NEW x \in S, NEW y \in S, F[x] = F[y], x # y
                   PROVE  FALSE
      OBVIOUS
    <3>2. x < y \/ y < x
      BY <3>1
    <3>3. Place(S, x) \in Int /\ Place(S, y) \in Int
      BY <1>4
    <3> QED
      BY <1>5, <3>1, <3>2, <3>3
  <2> HIDE DEF F
  <2>3. F \in Injection(S, 0 .. (c - 1))
    BY <2>1, <2>2 DEF Injection, IsInjective
  <2>4. IsFiniteSet(0 .. (c - 1)) /\ Cardinality(0 .. (c - 1)) = c
    BY <1>2, FS_Interval
  <2>5. F \in Surjection(S, 0 .. (c - 1))
    BY <1>1, <2>3, <2>4, FS_Injection
  <2>6. PICK x \in S : F[x] = i
    BY <2>5 DEF Surjection
  <2> QED
    BY <2>6 DEF F
<1> QED
  BY <1>1, <1>2, <1>4, <1>5, <1>6

(* The n lowest are n.                                                     *)
LEMMA LowestCount ==
    ASSUME NEW S \in SUBSET Nat, IsFiniteSet(S), NEW n \in Nat, n <= Cardinality(S)
    PROVE  /\ Lowest(S, n) \in SUBSET S /\ IsFiniteSet(Lowest(S, n))
           /\ Cardinality(Lowest(S, n)) = n
<1>1. PICK c : c = Cardinality(S)
  OBVIOUS
<1>2. /\ c \in Nat /\ n <= c
      /\ \A x \in S : Place(S, x) \in 0 .. (c - 1)
      /\ \A x, y \in S : x < y => Place(S, x) < Place(S, y)
      /\ \A i \in 0 .. (c - 1) : \E x \in S : Place(S, x) = i
  BY <1>1, PlacesAre
<1>3. Lowest(S, n) = {x \in S : Place(S, x) < n}
  BY DEF Lowest, Place
<1>4. IsFiniteSet(Lowest(S, n))
  BY <1>3, FS_Subset
<1> DEFINE F == [x \in Lowest(S, n) |-> Place(S, x)]
<1>5. F \in [Lowest(S, n) -> 0 .. (n - 1)]
  <2>1. ASSUME NEW x \in Lowest(S, n)
        PROVE  Place(S, x) \in 0 .. (n - 1)
    <3>1. Place(S, x) \in 0 .. (c - 1) /\ Place(S, x) < n
      BY <1>2, <1>3
    <3> QED
      BY <1>2, <3>1
  <2> QED
    BY <2>1
<1>6. \A x, y \in Lowest(S, n) : F[x] = F[y] => x = y
  <2>1. SUFFICES ASSUME NEW x \in Lowest(S, n), NEW y \in Lowest(S, n), F[x] = F[y], x # y
                 PROVE  FALSE
    OBVIOUS
  <2>2. x \in S /\ y \in S
    BY <1>3
  <2>3. x < y \/ y < x
    BY <2>1, <2>2
  <2>4. Place(S, x) \in Int /\ Place(S, y) \in Int
    BY <1>2, <2>2
  <2> QED
    BY <1>2, <2>1, <2>2, <2>3, <2>4
<1>7. \A i \in 0 .. (n - 1) : \E x \in Lowest(S, n) : F[x] = i
  <2>1. SUFFICES ASSUME NEW i \in 0 .. (n - 1)
                 PROVE  \E x \in Lowest(S, n) : F[x] = i
    OBVIOUS
  <2>2. i \in 0 .. (c - 1) /\ i < n
    BY <1>2
  <2>3. PICK x \in S : Place(S, x) = i
    BY <1>2, <2>2
  <2> QED
    BY <1>3, <2>2, <2>3
<1> HIDE DEF F
<1>8. F \in Bijection(Lowest(S, n), 0 .. (n - 1))
  BY <1>5, <1>6, <1>7 DEF Bijection, Injection, Surjection, IsInjective
<1>9. ExistsBijection(Lowest(S, n), 0 .. (n - 1))
  BY <1>8 DEF ExistsBijection
<1>10. Cardinality(0 .. (n - 1)) = Cardinality(Lowest(S, n))
  BY <1>4, <1>9, FS_Bijection
<1>11. Cardinality(0 .. (n - 1)) = n
  BY FS_Interval
<1> QED
  BY <1>3, <1>4, <1>10, <1>11

(* A list cut in two: the first part, and the rest.                        *)
LEMMA ListCut ==
    ASSUME NEW S \in SUBSET Nat, IsFiniteSet(S), NEW n \in Nat, NEW m \in Nat,
           Cardinality(S) = n + m
    PROVE  /\ Lowest(S, n) \in SUBSET S
           /\ Cardinality(Lowest(S, n)) = n /\ Cardinality(S \ Lowest(S, n)) = m
           /\ m = 0 => Lowest(S, n) = S
<1>1. PICK L : L = Lowest(S, n)
  OBVIOUS
<1>2. L \in SUBSET S /\ IsFiniteSet(L) /\ Cardinality(L) = n
  BY <1>1, LowestCount
<1>3. S \cap L = L
  BY <1>2
<1>4. Cardinality(S \ L) = Cardinality(S) - Cardinality(L)
  <2>1. Cardinality(S \ L) = Cardinality(S) - Cardinality(S \cap L)
    BY FS_Difference
  <2> QED
    BY <1>3, <2>1
<1>5. m = 0 => Cardinality(S) = Cardinality(L)
  BY <1>2
<1>6. m = 0 => S = L
  BY <1>2, <1>5, FS_Subset
<1> QED
  BY <1>1, <1>2, <1>4, <1>6

(* The fields of an image, and its trees one by one.                       *)
Fields(d, f, cs, rm, agList, inoList, nb, nc, ni) ==
    /\ d.free = f /\ d.chunks = cs /\ d.rmap = merged_rmap(rm) /\ d.freeblks = FreeCount(f)
    /\ d.trees["bno"] = Lowest(agList, nb)
    /\ d.trees["cnt"] = Lowest(agList, nb + nc) \ Lowest(agList, nb)
    /\ d.trees["rmap"] = IF HasRmap THEN agList \ Lowest(agList, nb + nc) ELSE {}
    /\ d.trees["inobt"] = Lowest(inoList, ni)
    /\ d.trees["finobt"] = IF HasFinobt THEN inoList \ Lowest(inoList, ni) ELSE {}

(* An image has these.                                                     *)
LEMMA ImageFields ==
    ASSUME NEW f, NEW cs, NEW rm, NEW agList, NEW inoList
    PROVE  Fields(Image(f, cs, rm, agList, inoList), f, cs, rm, agList, inoList,
                  TreeSize("bno", Cardinality(DOMAIN f)), TreeSize("cnt", Cardinality(DOMAIN f)),
                  TreeSize("inobt", Cardinality(DOMAIN cs)))
<1>0. PICK d : d = Image(f, cs, rm, agList, inoList)
  OBVIOUS
<1> DEFINE mb == TreeSize("bno", Cardinality(DOMAIN f))
           mc == TreeSize("cnt", Cardinality(DOMAIN f))
           mi == TreeSize("inobt", Cardinality(DOMAIN cs))
           trees == [t \in Trees |->
                       CASE t = "bno"    -> Lowest(agList, mb)
                         [] t = "cnt"    -> Lowest(agList, mb + mc) \ Lowest(agList, mb)
                         [] t = "rmap"   -> IF HasRmap THEN agList \ Lowest(agList, mb + mc) ELSE {}
                         [] t = "inobt"  -> Lowest(inoList, mi)
                         [] t = "finobt" -> IF HasFinobt THEN inoList \ Lowest(inoList, mi) ELSE {}]
<1>1. d.free = f /\ d.chunks = cs /\ d.rmap = merged_rmap(rm) /\ d.trees = trees
  BY <1>0 DEF Image
<1>2. d.freeblks = FreeCount(f)
  BY <1>0 DEF Image
<1> HIDE DEF mb, mc, mi
<1>3. /\ trees["bno"] = Lowest(agList, mb)
      /\ trees["cnt"] = Lowest(agList, mb + mc) \ Lowest(agList, mb)
      /\ trees["rmap"] = IF HasRmap THEN agList \ Lowest(agList, mb + mc) ELSE {}
      /\ trees["inobt"] = Lowest(inoList, mi)
      /\ trees["finobt"] = IF HasFinobt THEN inoList \ Lowest(inoList, mi) ELSE {}
  BY DEF Trees
<1> HIDE DEF trees
<1>4. Fields(d, f, cs, rm, agList, inoList, mb, mc, mi)
  BY <1>1, <1>2, <1>3 DEF Fields
<1> QED
  BY <1>0, <1>4, Zenon DEF mb, mc, mi

(* The trees laid out in two lists of the sizes needed: each has as many   *)
(* blocks as its records take, no two share one, and every block of the    *)
(* lists is some tree's.                                                   *)
TreesCut(d, f, cs, rm, agList, inoList) ==
    /\ d.free = f /\ d.chunks = cs /\ d.rmap = merged_rmap(rm) /\ d.freeblks = FreeCount(f)
    /\ d.trees["bno"] \cup d.trees["cnt"] \cup d.trees["rmap"] = agList
    /\ d.trees["inobt"] \cup d.trees["finobt"] = inoList
    /\ Cardinality(d.trees["bno"]) = TreeSize("bno", Cardinality(DOMAIN f))
    /\ Cardinality(d.trees["cnt"]) = TreeSize("cnt", Cardinality(DOMAIN f))
    /\ Cardinality(d.trees["rmap"]) =
          IF HasRmap THEN TreeSize("rmap", Cardinality(merged_rmap(rm))) ELSE 0
    /\ Cardinality(d.trees["inobt"]) = TreeSize("inobt", Cardinality(DOMAIN cs))
    /\ Cardinality(d.trees["finobt"]) =
          IF HasFinobt THEN TreeSize("finobt", Cardinality(ChunksWithFree(cs))) ELSE 0
    /\ d.trees["bno"] \cap d.trees["cnt"] = {} /\ d.trees["bno"] \cap d.trees["rmap"] = {}
    /\ d.trees["cnt"] \cap d.trees["rmap"] = {} /\ d.trees["inobt"] \cap d.trees["finobt"] = {}

(* Lists of the sizes needed are cut like that.                            *)
LEMMA ImageCut ==
    ASSUME NEW f, NEW cs, NEW rm, NEW agList, NEW inoList,
           Layable(f, cs, rm, agList, inoList),
           Cardinality(agList) = ag_need(Cardinality(DOMAIN f), Cardinality(merged_rmap(rm))),
           Cardinality(inoList) = ino_need(cs)
    PROVE  TreesCut(Image(f, cs, rm, agList, inoList), f, cs, rm, agList, inoList)
<1>0. PICK d : d = Image(f, cs, rm, agList, inoList)
  OBVIOUS
<1>1. PICK nb : nb = TreeSize("bno", Cardinality(DOMAIN f))
  OBVIOUS
<1>2. PICK nc : nc = TreeSize("cnt", Cardinality(DOMAIN f))
  OBVIOUS
<1>3. PICK nr : nr = IF HasRmap THEN TreeSize("rmap", Cardinality(merged_rmap(rm))) ELSE 0
  OBVIOUS
<1>4. PICK ni : ni = TreeSize("inobt", Cardinality(DOMAIN cs))
  OBVIOUS
<1>5. PICK nf : nf = IF HasFinobt THEN TreeSize("finobt", Cardinality(ChunksWithFree(cs))) ELSE 0
  OBVIOUS
<1>6. /\ d.free = f /\ d.chunks = cs /\ d.rmap = merged_rmap(rm) /\ d.freeblks = FreeCount(f)
      /\ d.trees["bno"] = Lowest(agList, nb)
      /\ d.trees["cnt"] = Lowest(agList, nb + nc) \ Lowest(agList, nb)
      /\ d.trees["rmap"] = IF HasRmap THEN agList \ Lowest(agList, nb + nc) ELSE {}
      /\ d.trees["inobt"] = Lowest(inoList, ni)
      /\ d.trees["finobt"] = IF HasFinobt THEN inoList \ Lowest(inoList, ni) ELSE {}
  <2>1. Fields(d, f, cs, rm, agList, inoList, nb, nc, ni)
    BY <1>0, <1>1, <1>2, <1>4, ImageFields, Zenon
  <2> QED
    BY <2>1 DEF Fields
<1>7. /\ nb \in Nat /\ nc \in Nat /\ nr \in Nat /\ ni \in Nat /\ nf \in Nat
  <2>1. Cardinality(DOMAIN f) \in Nat /\ Cardinality(merged_rmap(rm)) \in Nat
    BY WellFormedShape, MergedFinite DEF Layable
  <2>2. Cardinality(DOMAIN cs) \in Nat /\ Cardinality(ChunksWithFree(cs)) \in Nat
    <3>1. ChunksWithFree(cs) \in SUBSET DOMAIN cs /\ IsFiniteSet(DOMAIN cs)
      BY DEF ChunksWithFree, Layable
    <3> QED
      BY <3>1, FS_Subset, FS_CardinalityType
  <2>3. \A t \in Trees, n \in Nat : TreeSize(t, n) \in Nat
    BY TreeSizeNat
  <2> QED
    BY <1>1, <1>2, <1>3, <1>4, <1>5, <2>1, <2>2, <2>3 DEF Trees
<1>8. Cardinality(agList) = (nb + nc) + nr /\ Cardinality(agList) = nb + (nc + nr)
  BY <1>1, <1>2, <1>3, <1>7 DEF ag_need
<1>9. Cardinality(inoList) = ni + nf
  BY <1>4, <1>5, <1>7 DEF ino_need
<1>10. /\ agList \in SUBSET Nat /\ inoList \in SUBSET Nat
       /\ IsFiniteSet(agList) /\ IsFiniteSet(inoList)
  <2>1. IsFiniteSet(Blocks) /\ Blocks \subseteq Nat
    BY SizesAssumption, FS_Interval DEF Blocks
  <2> QED
    BY <2>1, FS_Subset DEF Layable
<1>11. PICK A : A = Lowest(agList, nb)
  OBVIOUS
<1>12. PICK B : B = Lowest(agList, nb + nc)
  OBVIOUS
<1>13. PICK C : C = Lowest(inoList, ni)
  OBVIOUS
<1>14. A \in SUBSET agList /\ Cardinality(A) = nb
  <2>1. \A n, m \in Nat : Cardinality(agList) = n + m =>
           /\ Lowest(agList, n) \in SUBSET agList
           /\ Cardinality(Lowest(agList, n)) = n /\ Cardinality(agList \ Lowest(agList, n)) = m
           /\ m = 0 => Lowest(agList, n) = agList
    BY <1>10, ListCut
  <2>2. nb \in Nat /\ nc + nr \in Nat
    BY <1>7
  <2> QED
    BY <1>8, <1>11, <2>1, <2>2
<1>15. /\ B \in SUBSET agList /\ Cardinality(B) = nb + nc
       /\ Cardinality(agList \ B) = nr /\ (nr = 0 => B = agList)
  <2>1. \A n, m \in Nat : Cardinality(agList) = n + m =>
           /\ Lowest(agList, n) \in SUBSET agList
           /\ Cardinality(Lowest(agList, n)) = n /\ Cardinality(agList \ Lowest(agList, n)) = m
           /\ m = 0 => Lowest(agList, n) = agList
    BY <1>10, ListCut
  <2>2. nb + nc \in Nat /\ nr \in Nat
    BY <1>7
  <2> QED
    BY <1>8, <1>12, <2>1, <2>2
<1>16. /\ C \in SUBSET inoList /\ Cardinality(C) = ni
       /\ Cardinality(inoList \ C) = nf /\ (nf = 0 => C = inoList)
  <2>1. \A n, m \in Nat : Cardinality(inoList) = n + m =>
           /\ Lowest(inoList, n) \in SUBSET inoList
           /\ Cardinality(Lowest(inoList, n)) = n /\ Cardinality(inoList \ Lowest(inoList, n)) = m
           /\ m = 0 => Lowest(inoList, n) = inoList
    BY <1>10, ListCut
  <2> QED
    BY <1>7, <1>9, <1>13, <2>1
<1>17. A \in SUBSET B
  <2>1. ASSUME NEW x \in agList, Cardinality({y \in agList : y < x}) < nb
        PROVE  Cardinality({y \in agList : y < x}) < nb + nc
    <3>1. PICK k : k = Cardinality({y \in agList : y < x})
      OBVIOUS
    <3>2. k \in Nat
      BY <1>10, <3>1, FS_Subset, FS_CardinalityType
    <3> QED
      BY <1>7, <2>1, <3>1, <3>2
  <2> QED
    BY <1>11, <1>12, <2>1 DEF Lowest
<1>18. Cardinality(B \ A) = nc
  <2>1. IsFiniteSet(B) /\ B \cap A = A
    BY <1>10, <1>15, <1>17, FS_Subset
  <2>2. Cardinality(B \ A) = Cardinality(B) - Cardinality(B \cap A)
    BY <2>1, FS_Difference
  <2>3. Cardinality(B \cap A) = nb
    BY <1>14, <2>1
  <2>4. Cardinality(B \ A) = (nb + nc) - nb
    BY <1>15, <2>2, <2>3
  <2> QED
    BY <1>7, <2>4
<1>19. /\ d.trees["bno"] = A /\ d.trees["cnt"] = B \ A /\ d.trees["inobt"] = C
       /\ d.trees["rmap"] = agList \ B /\ d.trees["finobt"] = inoList \ C
  <2>1. HasRmap \in BOOLEAN /\ HasFinobt \in BOOLEAN
    BY SizesAssumption
  <2>2. ~ HasRmap => agList \ B = {}
    BY <1>3, <1>15
  <2>3. ~ HasFinobt => inoList \ C = {}
    BY <1>5, <1>16
  <2> QED
    BY <1>6, <1>11, <1>12, <1>13, <2>1, <2>2, <2>3
<1>20. /\ Cardinality(d.trees["bno"]) = nb /\ Cardinality(d.trees["cnt"]) = nc
       /\ Cardinality(d.trees["rmap"]) = nr /\ Cardinality(d.trees["inobt"]) = ni
       /\ Cardinality(d.trees["finobt"]) = nf
  BY <1>14, <1>15, <1>16, <1>18, <1>19
<1>21. /\ d.trees["bno"] \cup d.trees["cnt"] \cup d.trees["rmap"] = agList
       /\ d.trees["inobt"] \cup d.trees["finobt"] = inoList
       /\ d.trees["bno"] \cap d.trees["cnt"] = {} /\ d.trees["bno"] \cap d.trees["rmap"] = {}
       /\ d.trees["cnt"] \cap d.trees["rmap"] = {} /\ d.trees["inobt"] \cap d.trees["finobt"] = {}
  BY <1>14, <1>15, <1>16, <1>17, <1>19
<1>22. TreesCut(d, f, cs, rm, agList, inoList)
  BY <1>1, <1>2, <1>3, <1>4, <1>5, <1>6, <1>20, <1>21 DEF TreesCut
<1> QED
  BY <1>0, <1>22

(* What a rebuild that settles lays out: the lists it carved have just the *)
(* sizes that the trees need, so the image's trees are cut from them whole.*)
LEMMA FinishCut ==
    ASSUME Parts, PoolInv, RebuildFinish
    PROVE  /\ TreesCut(disk', free, chunks, rmap_add(CarvedMaps),
                       RunBlocks(rb.ag_run), RunBlocks(rb.ino_run))
           /\ old_tree_blocks' = CarvedBlocks /\ TreeBlocks(disk)' = CarvedBlocks
           /\ rmap' = rmap_add(CarvedMaps) /\ rb.pc = "ag"
           /\ dirty' = FALSE /\ rb' = Idle
           /\ UNCHANGED <<free, free_total, chunks, callerVars, calls, failed, err>>
<1>1. PICK agList : agList = RunBlocks(rb.ag_run)
  OBVIOUS
<1>2. PICK inoList : inoList = RunBlocks(rb.ino_run)
  OBVIOUS
<1>3. PICK rm : rm = rmap_add(CarvedMaps)
  OBVIOUS
<1>4. /\ rb.pc = "ag" /\ rb.left = 0 /\ NeedNow = rb.ag_blocks
      /\ rmap' = rm
      /\ disk' = Image(free, chunks, rmap', agList, inoList)
      /\ old_tree_blocks' = agList \cup inoList
      /\ dirty' = FALSE /\ rb' = Idle
      /\ UNCHANGED <<free, free_total, chunks, callerVars, calls, failed, err>>
  BY <1>1, <1>2, <1>3 DEF RebuildFinish
<1>5. RunsOK(rb.ag_run) /\ RunsOK(rb.ino_run) /\ rb.left \in Nat /\ rb.ag_blocks \in Nat
  BY RbFields DEF Parts
<1>6. IsFiniteSet(rm)
  BY <1>3, NeedNowNat DEF Parts
<1>7. Layable(free, chunks, rm, agList, inoList)
  BY <1>1, <1>2, <1>5, <1>6, RunBlocksInside DEF Layable, Parts, AgPart
<1>8. Cardinality(agList) = ag_need(Cardinality(DOMAIN free), Cardinality(merged_rmap(rm)))
  <2>1. Cardinality(agList) \in Nat
    <3>1. Run(0, 0) \cap RunBlocks(rb.ag_run) = {}
      BY DEF Run
    <3> QED
      BY <1>1, <1>5, <3>1, RunsCounted
  <2>2. Cardinality(agList) + rb.left = rb.ag_blocks
    BY <1>1, <1>4 DEF PoolInv, RbStages
  <2>3. Cardinality(agList) = NeedNow
    BY <1>4, <2>1, <2>2
  <2> QED
    BY <1>3, <2>3 DEF NeedNow
<1>9. Cardinality(inoList) = ino_need(chunks)
  BY <1>2, <1>4 DEF PoolInv, RbStages
<1>10. disk' = Image(free, chunks, rm, agList, inoList)
  BY <1>4
<1>11. TreesCut(disk', free, chunks, rm, agList, inoList)
  BY <1>7, <1>8, <1>9, <1>10, ImageCut
<1>12. TreeBlocks(disk)' = agList \cup inoList
  <2>1. TreeBlocks(disk)' = UNION {disk'.trees[t] : t \in Trees}
    BY DEF TreeBlocks
  <2>2. UNION {disk'.trees[t] : t \in Trees}
          = disk'.trees["bno"] \cup disk'.trees["cnt"] \cup disk'.trees["rmap"]
              \cup disk'.trees["inobt"] \cup disk'.trees["finobt"]
    BY DEF Trees
  <2> QED
    BY <1>11, <2>1, <2>2 DEF TreesCut
<1> QED
  BY <1>1, <1>2, <1>3, <1>4, <1>11, <1>12 DEF CarvedBlocks

(* The carved blocks are the trees'; no block moves.                       *)
LEMMA RebuildFinishPool ==
    ASSUME Parts, PoolInv, RebuildFinish
    PROVE  PoolInv' /\ PoolStep
<1>1. /\ disk'.free = free /\ disk'.chunks = chunks
      /\ old_tree_blocks' = CarvedBlocks /\ TreeBlocks(disk)' = CarvedBlocks /\ rb.pc = "ag"
      /\ dirty' = FALSE /\ rb' = Idle
      /\ UNCHANGED <<free, free_total, chunks, callerVars, calls, failed, err>>
  BY FinishCut DEF TreesCut
<1>2. rb'.pc = "idle" /\ rb'.todo = {} /\ rb'.ag_run = {} /\ rb'.ino_run = {}
  BY <1>1 DEF Idle
<1>3. rb.todo = {} /\ old_tree_blocks = {}
  BY <1>1 DEF PoolInv, RbStages
<1>4. CarvedBlocks' = {} /\ RunBlocks({}) = {}
  BY <1>2 DEF CarvedBlocks, RunBlocks
<1>5. Pieces' = Pieces
  <2>1. old_tree_blocks' \cup rb'.todo \cup CarvedBlocks' = old_tree_blocks \cup rb.todo \cup CarvedBlocks
    BY <1>1, <1>2, <1>3, <1>4
  <2> QED
    BY <1>1, <2>1 DEF Pieces, callerVars
<1>6. Apart(Pieces)' /\ NoLeak'
  BY <1>1, <1>5, StayInv DEF PoolInv
<1>7. NoSharing'
  BY <1>1, <1>2, <1>4, <1>6 DEF PoolInv, NoSharing, callerVars
<1>8. TotalExact' /\ CleanBlocks' /\ ChunksThere'
  <2>1. CleanBlocks'
    BY <1>1 DEF CleanBlocks
  <2> QED
    BY <1>1, <2>1 DEF PoolInv, TotalExact, ChunksThere
<1>9. RbStages'
  BY <1>2 DEF RbStages
<1>10. PoolStep
  BY <1>5, NoMove
<1> QED
  BY <1>6, <1>7, <1>8, <1>9, <1>10 DEF PoolInv

-----------------------------------------------------------------------------
(* The first state, every step, and what follows.                          *)

(* A session starts with every block in one place.                         *)
LEMMA InitPool ==
    ASSUME Init
    PROVE  PoolInv
<1>1. PICK image \in Images :
         /\ disk = image.disk /\ forks = image.forks /\ free = image.disk.free
         /\ free_total = FreeCount(image.disk.free)
         /\ old_tree_blocks = TreeBlocks(image.disk) /\ chunks = image.disk.chunks
  BY DEF Init
<1>2. dirty = FALSE /\ rb = Idle /\ taken = {} /\ failed = FALSE
  BY DEF Init
<1>3. KernelKeeps(disk, forks)
  BY <1>1, ImagesAssumption
<1>4. free = disk.free /\ chunks = disk.chunks /\ old_tree_blocks = TreeBlocks(disk)
  BY <1>1
<1>5. rb.pc = "idle" /\ rb.todo = {} /\ rb.ag_run = {} /\ rb.ino_run = {}
  BY <1>2 DEF Idle
<1>6. CarvedBlocks = {} /\ RunBlocks({}) = {}
  BY <1>5 DEF CarvedBlocks, RunBlocks
<1>7. Pieces = Owners(disk.free, TreeBlocks(disk), disk.chunks, forks, {})
  <2>1. old_tree_blocks \cup rb.todo \cup CarvedBlocks = TreeBlocks(disk)
    BY <1>4, <1>5, <1>6
  <2> QED
    BY <1>2, <1>4, <2>1 DEF Pieces
<1>8. Apart(Pieces) /\ AllOf(Pieces) = Blocks
  BY <1>3, <1>7 DEF KernelKeeps
<1>9. NoSharing
  BY <1>2, <1>3, <1>5, <1>6, <1>8 DEF NoSharing, KernelKeeps
<1>10. NoLeak /\ TotalExact /\ CleanBlocks /\ ChunksThere
  BY <1>1, <1>3, <1>4, <1>8 DEF NoLeak, Accounted, TotalExact, CleanBlocks, ChunksThere, KernelKeeps
<1>11. RbStages
  BY <1>5 DEF RbStages
<1> QED
  BY <1>9, <1>10, <1>11 DEF PoolInv

(* A step that changes nothing.                                            *)
LEMMA StutterPool ==
    ASSUME PoolInv, UNCHANGED vars
    PROVE  PoolInv' /\ PoolStep
<1>1. UNCHANGED <<free, free_total, old_tree_blocks, chunks, dirty, rb, taken, forks, disk, failed>>
  BY DEF vars, agVars, callerVars
<1>2. CarvedBlocks' = CarvedBlocks
  BY <1>1 DEF CarvedBlocks
<1>3. Pieces' = Pieces
  BY <1>1, <1>2 DEF Pieces, Owners
<1>4. Apart(Pieces)' /\ NoLeak'
  BY <1>1, <1>3, StayInv DEF PoolInv
<1>5. NoSharing'
  BY <1>1, <1>4 DEF PoolInv, NoSharing
<1>6. TotalExact' /\ CleanBlocks' /\ ChunksThere'
  BY <1>1 DEF PoolInv, TotalExact, CleanBlocks, ChunksThere
<1>7. RbStages'
  BY <1>1, <1>2 DEF PoolInv, RbStages
<1> QED
  BY <1>3, <1>4, <1>5, <1>6, <1>7, NoMove DEF PoolInv

(* Every step keeps the invariant, and is a step of the pool of blocks.    *)
LEMMA StepPool ==
    ASSUME Parts, PoolInv, [Next]_vars
    PROVE  PoolInv' /\ PoolStep
<1>1. CASE UNCHANGED vars
  BY <1>1, StutterPool
<1>2. CASE \E want \in Wants, near \in Nears : Alloc(want, near)
  BY <1>2, AllocPool
<1>3. CASE \E not \in Nears : AllocBlockExcept(not)
  BY <1>3, AllocBlockExceptPool
<1>4. CASE \E run \in taken : Untake(run)
  BY <1>4, UntakePool
<1>5. CASE \E run \in taken, ino \in Inodes, fork \in {"data", "bmbt"} : MapRun(run, ino, fork)
  BY <1>5, MapRunPool
<1>6. CASE \E e \in forks : Release(e)
  BY <1>6, ReleasePool
<1>7. CASE AllocInode
  BY <1>7, AllocInodePool
<1>8. CASE AllocChunk
  BY <1>8, AllocChunkPool
<1>9. CASE \E agino \in InUse : FreeInode(agino)
  BY <1>9, FreeInodePool
<1>10. CASE Rebuild
  BY <1>10, RebuildStartPool, RebuildFreePool, RebuildBasePool, RebuildTryPool, RebuildFailsPool,
     CarvePool, RebuildInoCarvedPool, RebuildAgainPool, RebuildFinishPool DEF Rebuild
<1>11. CASE Reload
  BY <1>11, ReloadPool
<1> QED
  BY <1>1, <1>2, <1>3, <1>4, <1>5, <1>6, <1>7, <1>8, <1>9, <1>10, <1>11 DEF Next

(* The invariant of the specification.                                     *)
LEMMA PoolCorrect == Spec => [](Inv /\ PoolInv) /\ [][PoolStep]_vars
<1>1. Init => Inv /\ PoolInv
  BY InitInv, InitPool
<1>2. Inv /\ PoolInv /\ [Next]_vars => (Inv /\ PoolInv)' /\ PoolStep
  <2>1. SUFFICES ASSUME Inv, PoolInv, [Next]_vars
                 PROVE  (Inv /\ PoolInv)' /\ PoolStep
    OBVIOUS
  <2>2. Parts
    BY <2>1, PartsAreInv
  <2>3. PoolInv' /\ PoolStep
    BY <2>1, <2>2, StepPool
  <2>4. Inv'
    BY <2>1, StepInv
  <2> QED
    BY <2>3, <2>4
<1> QED
  BY <1>1, <1>2, PTL DEF Spec

(* No block is ever free and in use, or of two owners, whatever the order  *)
(* of allocations, frees, rebuilds that settle and rebuilds that fail.     *)
THEOREM SharesNone == Spec => []NoSharing
<1>1. PoolInv => NoSharing
  BY DEF PoolInv
<1> QED
  BY PoolCorrect, <1>1, PTL

(* As long as no rebuild has failed, every block is somewhere.             *)
THEOREM LosesNone == Spec => []NoLeak
<1>1. PoolInv => NoLeak
  BY DEF PoolInv
<1> QED
  BY PoolCorrect, <1>1, PTL

(* `free_total`, which `alloc` and `statfs` go by, is never off.           *)
THEOREM CountsExactly == Spec => []TotalExact
<1>1. PoolInv => TotalExact
  BY DEF PoolInv
<1> QED
  BY PoolCorrect, <1>1, PTL

(* An allocation group implements the pool of blocks its callers take it   *)
(* for: grants are of blocks nobody had, and rebuilding or reopening the   *)
(* group touches nothing that is granted.                                  *)
THEOREM IsAPool == Spec => PoolSpec
<1>1. Init => Pool!Init
  <2>1. SUFFICES ASSUME Init
                 PROVE  Pool!Init
    OBVIOUS
  <2>2. Apart(Pieces) /\ ~ failed /\ NoLeak
    BY <2>1, InitPool DEF PoolInv, NoSharing, Init
  <2>3. AllOf(Pieces) = Blocks
    BY <2>2 DEF NoLeak, Accounted
  <2>4. /\ Pieces["free"] \subseteq Blocks /\ Pieces["trees"] \subseteq Blocks
        /\ Pieces["taken"] \subseteq Blocks /\ Pieces["forks"] \subseteq Blocks
        /\ Pieces["chunks"] \subseteq Blocks
    BY <2>3, PiecesFields DEF AllOf
  <2>5. Pool!Disjoint(Covered(free),
                      RunBlocks(taken) \cup MappedBlocks(forks) \cup ChunkBlocksOf(chunks),
                      old_tree_blocks \cup rb.todo \cup CarvedBlocks)
    <3>1. /\ Pieces["free"] \cap Pieces["trees"] = {} /\ Pieces["free"] \cap Pieces["taken"] = {}
          /\ Pieces["free"] \cap Pieces["forks"] = {} /\ Pieces["free"] \cap Pieces["chunks"] = {}
          /\ Pieces["trees"] \cap Pieces["taken"] = {}
          /\ Pieces["trees"] \cap Pieces["forks"] = {}
          /\ Pieces["trees"] \cap Pieces["chunks"] = {}
      BY <2>2, PiecesFields DEF Apart
    <3> QED
      BY <3>1, PiecesFields DEF Pool!Disjoint
  <2> QED
    BY <2>4, <2>5, PiecesFields DEF Pool!Init, ForkBlocks, Blocks
<1>2. [PoolStep]_vars => [Pool!Next]_(Pool!vars)
  <2>1. UNCHANGED vars => UNCHANGED Pool!vars
    BY DEF vars, agVars, callerVars, Pool!vars, ForkBlocks, CarvedBlocks
  <2> QED
    BY <2>1 DEF PoolStep
<1> QED
  BY PoolCorrect, <1>1, <1>2, PTL DEF Spec, PoolSpec, Pool!Spec

(* A rebuild that settles lays out trees that have exactly the blocks their*)
(* records need.                                                           *)
LEMMA FinishFits ==
    ASSUME Parts, PoolInv, RebuildFinish
    PROVE  TreesFit'
<1>1. PICK d : d = disk'
  OBVIOUS
<1>2. PICK A : A = RunBlocks(rb.ag_run)
  OBVIOUS
<1>3. PICK B : B = RunBlocks(rb.ino_run)
  OBVIOUS
<1>4. PICK rm : rm = rmap_add(CarvedMaps)
  OBVIOUS
<1>5. TreesCut(d, free, chunks, rm, A, B) /\ TreeBlocks(d) = CarvedBlocks
  BY <1>1, <1>2, <1>3, <1>4, FinishCut
<1>6. A \cap B = {}
  BY <1>2, <1>3 DEF PoolInv, NoSharing
<1>7. d.free = free /\ d.chunks = chunks /\ d.rmap = merged_rmap(rm)
  BY <1>5 DEF TreesCut
<1>8. CarvedBlocks \cap Covered(free) = {}
  BY PiecesFields DEF PoolInv, NoSharing, Apart
<1>9. TreeBlocks(d) \cap Covered(d.free) = {}
  BY <1>5, <1>7, <1>8
<1>10. \A t, u \in Trees : t # u => d.trees[t] \cap d.trees[u] = {}
  BY <1>5, <1>6 DEF TreesCut, Trees
<1>11. /\ Cardinality(d.trees["bno"]) = TreeSize("bno", Cardinality(DOMAIN d.free))
       /\ Cardinality(d.trees["cnt"]) = TreeSize("cnt", Cardinality(DOMAIN d.free))
       /\ Cardinality(d.trees["rmap"]) =
             IF HasRmap THEN TreeSize("rmap", Cardinality(d.rmap)) ELSE 0
       /\ Cardinality(d.trees["inobt"]) = TreeSize("inobt", Cardinality(DOMAIN d.chunks))
       /\ Cardinality(d.trees["finobt"]) =
             IF HasFinobt THEN TreeSize("finobt", Cardinality(ChunksWithFree(d.chunks))) ELSE 0
  BY <1>5, <1>7 DEF TreesCut
<1> DEFINE recs == [bno |-> Cardinality(DOMAIN d.free), cnt |-> Cardinality(DOMAIN d.free),
                    rmap |-> Cardinality(d.rmap), inobt |-> Cardinality(DOMAIN d.chunks),
                    finobt |-> Cardinality(ChunksWithFree(d.chunks))]
<1>12. \A t \in Trees : Cardinality(d.trees[t]) =
          IF (t = "rmap" /\ ~ HasRmap) \/ (t = "finobt" /\ ~ HasFinobt) THEN 0
          ELSE TreeSize(t, recs[t])
  <2>1. HasRmap \in BOOLEAN /\ HasFinobt \in BOOLEAN
    BY SizesAssumption
  <2> QED
    BY <1>11, <2>1 DEF Trees
<1> QED
  BY <1>1, <1>9, <1>10, <1>12 DEF TreesFit

(* From an image whose trees fit - the kernel's may be less full - every   *)
(* image has trees with exactly the blocks their records need, none shared *)
(* and none free.                                                          *)
THEOREM TreesKeepFitting == Spec /\ TreesFit => []TreesFit
<1>1. Inv /\ PoolInv /\ TreesFit /\ [Next]_vars => TreesFit'
  <2>1. SUFFICES ASSUME Inv, PoolInv, TreesFit, [Next]_vars
                 PROVE  TreesFit'
    OBVIOUS
  <2>2. CASE RebuildFinish
    BY <2>1, <2>2, FinishFits, PartsAreInv
  <2>3. CASE ~ RebuildFinish
    <3>1. disk' = disk
      BY <2>1, <2>3 DEF Next, vars, Alloc, AllocBlockExcept, Untake, MapRun, Release, AllocInode,
         AllocChunk, FreeInode, Rebuild, RebuildStart, RebuildFree, RebuildBase, RebuildTry,
         RebuildFails, Carve, RebuildInoCarved, RebuildAgain, Reload
    <3> QED
      BY <2>1, <3>1 DEF TreesFit
  <2> QED
    BY <2>2, <2>3
<1> QED
  BY PoolCorrect, <1>1, PTL DEF Spec
=============================================================================

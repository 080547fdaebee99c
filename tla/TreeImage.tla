------------------------------ MODULE TreeImage ------------------------------
(***************************************************************************)
(* B+trees built whole from sorted records (btree.rs), and the walks that  *)
(* read them back: `walk_tree` of an AG's trees (alloc.rs) and `fork_map`  *)
(* of the tree of a fork's extents, whose root is in the inode             *)
(* (volume.rs, bmap.rs).                                                   *)
(*                                                                         *)
(* A record is [low, high] and what it holds; an entry of a node is        *)
(* [low, high, ptr].  Byte layout, magic numbers and checksums are left    *)
(* out: a block of an image is the block that was written, or one that     *)
(* another writer left in its place.                                       *)
(***************************************************************************)
EXTENDS Btrees, Sequences, FiniteSetsExt, TLC

Null == -1    \* NULL_AGBLOCK, NULL_FSBLOCK

(* The first n of a sequence of numbers, added up. *)
SumTo(s, n) ==
    LET sum[i \in 0..Len(s)] == IF i = 0 THEN 0 ELSE sum[i - 1] + s[i]
    IN  sum[n]

----------------------------------------------------------------------------
(* Building.                                                               *)

(* Mutant: what is left over all goes to the last block. *)
spread_last(n, k) == [i \in 1..k |-> n \div k + IF i = k THEN n % k ELSE 0]

(* `spread`: n records over k blocks, as evenly as they go. *)
spread(n, k) == [i \in 1..k |-> n \div k + IF i <= n % k THEN 1 ELSE 0]

(* The parts of s that spread gives to k blocks, in order. *)
Shares(s, k) ==
    LET takes == spread(Len(s), k)
    IN  [i \in 1..k |-> SubSeq(s, SumTo(takes, i - 1) + 1, SumTo(takes, i))]

(* The blocks of each level, leaves first, up to a level that fits in a    *)
(* root of rootMax: one block for an AG's tree (`level_sizes`), the        *)
(* entries that fit in the inode for a fork's (`bmap_level_sizes`).        *)
LevelSizes(n, leafMax, nodeMax, rootMax) ==
    LET up[k \in Nat] == IF k <= rootMax THEN <<k>> ELSE <<k>> \o up[div_ceil(k, nodeMax)]
    IN  up[Leaves(n, leafMax)]

level_sizes(n, leafMax, nodeMax) == LevelSizes(n, leafMax, nodeMax, 1)
bmap_level_sizes(n, max, rootMax) == LevelSizes(n, max, max, rootMax)
bmap_blocks(n, max, rootMax) ==
    LET sizes == bmap_level_sizes(n, max, rootMax) IN SumTo(sizes, Len(sizes))

(* Mutant: the high key of the last entry is taken for the highest. *)
keys_of_last(ents) ==
    IF ents = <<>> THEN [low |-> 0, high |-> 0]
    ELSE [low |-> ents[1].low, high |-> ents[Len(ents)].high]

(* The low key of the first entry and the highest high key. *)
keys_of(ents) ==
    IF ents = <<>> THEN [low |-> 0, high |-> 0]
    ELSE [low |-> ents[1].low, high |-> Max({ents[i].high : i \in DOMAIN ents})]

(* A level: its items shared out over the blocks at addrs, each linked to  *)
(* its neighbours.                                                         *)
Level(level, items, addrs) ==
    LET shares == Shares(items, Len(addrs))
    IN  [i \in DOMAIN addrs |->
           [addr |-> addrs[i], level |-> level, ents |-> shares[i],
            left |-> IF i = 1 THEN Null ELSE addrs[i - 1],
            right |-> IF i = Len(addrs) THEN Null ELSE addrs[i + 1]]]

(* What the level above says of these blocks. *)
Entries(blocks) ==
    [i \in DOMAIN blocks |->
       LET k == keys_of(blocks[i].ents)
       IN  [low |-> k.low, high |-> k.high, ptr |-> blocks[i].addr]]

(* The levels of a tree over recs in the blocks addrs, leaves first. *)
Levels(recs, sizes, addrs) ==
    LET lvl[l \in 1..Len(sizes)] ==
            Level(l - 1,
                  IF l = 1 THEN recs ELSE Entries(lvl[l - 1]),
                  SubSeq(addrs, SumTo(sizes, l - 1) + 1, SumTo(sizes, l)))
    IN  [l \in 1..Len(sizes) |-> lvl[l]]

(* The blocks by address. *)
ByAddress(levels) ==
    LET all == UNION {{levels[l][i] : i \in DOMAIN levels[l]} : l \in DOMAIN levels}
    IN  [a \in {b.addr : b \in all} |-> CHOOSE b \in all : b.addr = a]

(* An image: its blocks, the entries of the root above the top level and   *)
(* that level.  The root of an AG's tree is a block, and the one entry     *)
(* stands for the pointer to it in the group's header.                     *)
Image(sizes, levels, leafMax, nodeMax) ==
    [blocks |-> ByAddress(levels), root |-> Entries(levels[Len(sizes)]),
     level |-> Len(sizes) - 1, leafMax |-> leafMax, nodeMax |-> nodeMax]

build_ag(recs, leafMax, nodeMax, addrs) ==
    LET sizes == level_sizes(Len(recs), leafMax, nodeMax)
    IN  Image(sizes, Levels(recs, sizes, addrs), leafMax, nodeMax)

build_bmap(recs, max, rootMax, addrs) ==
    LET sizes == bmap_level_sizes(Len(recs), max, rootMax)
    IN  Image(sizes, Levels(recs, sizes, addrs), max, max)

----------------------------------------------------------------------------
(* Walking.  A walk is its stack of blocks to read, each with the level    *)
(* expected of it, the blocks read, the records found, and how it stands.  *)

MaxLevels == 9

(* Children are pushed in reverse, so that the leftmost is read first. *)
Pushed(ents, want) ==
    [i \in DOMAIN ents |-> <<ents[Len(ents) + 1 - i].ptr, want>>]

StartWalk(image, ok) ==
    [stack |-> Pushed(image.root, image.level), blocks |-> <<>>, recs |-> <<>>,
     state |-> IF ok THEN "walking" ELSE "corrupt"]

StartWalkTree(image) == StartWalk(image, image.level < MaxLevels)

(* `btree_root`: the inode has a root of 1..rootMax entries. *)
StartForkMap(image, rootMax) == StartWalk(image, Len(image.root) \in 1..rootMax)

Top(walk) == walk.stack[Len(walk.stack)]
Seen(walk) == {walk.blocks[i] : i \in DOMAIN walk.blocks}
Refused(walk) == [walk EXCEPT !.state = "corrupt"]

(* The block on top of the stack: its records, or its children. *)
Visit(image, walk) ==
    LET b == image.blocks[Top(walk)[1]]
        rest == SubSeq(walk.stack, 1, Len(walk.stack) - 1)
        max == IF b.level = 0 THEN image.leafMax ELSE image.nodeMax
        read == [walk EXCEPT !.blocks = Append(@, b.addr)]
    IN  IF b.level # Top(walk)[2] \/ Len(b.ents) > max THEN Refused(read)
        ELSE IF b.level = 0 THEN [read EXCEPT !.stack = rest, !.recs = @ \o b.ents]
        ELSE [read EXCEPT !.stack = rest \o Pushed(b.ents, b.level - 1)]

(* One turn of `walk_tree`: blocks lie in the group, and are not too many. *)
WalkTree(image, walk, limit) ==
    IF walk.stack = <<>> THEN [walk EXCEPT !.state = "done"]
    ELSE IF Top(walk)[1] \notin DOMAIN image.blocks \/ Len(walk.blocks) > limit
        THEN Refused(walk)
    ELSE Visit(image, walk)

(* `finish`: sorted, those alike as they came; none of the model's extents *)
(* is empty.                                                               *)
finish(recs) ==
    LET before(i) == {j \in DOMAIN recs : \/ recs[j].low < recs[i].low
                                           \/ (recs[j].low = recs[i].low /\ j < i)}
    IN  [k \in DOMAIN recs |-> recs[CHOOSE i \in DOMAIN recs : Cardinality(before(i)) = k - 1]]

Overlap(recs) == \E i \in 1..(Len(recs) - 1) : recs[i].high >= recs[i + 1].low

(* Mutant: the extents are not counted. *)
FinishedUncounted(walk, nextents, attr) ==
    LET recs == finish(walk.recs)
    IN  IF Overlap(recs) THEN Refused(walk)
        ELSE [walk EXCEPT !.recs = recs, !.state = "done"]

(* The end of a fork's walk: as many extents as the inode says, unless it  *)
(* is an attribute fork, and none overlapping.                             *)
Finished(walk, nextents, attr) ==
    LET recs == finish(walk.recs)
    IN  IF (~attr /\ Len(walk.recs) # nextents) \/ Overlap(recs) THEN Refused(walk)
        ELSE [walk EXCEPT !.recs = recs, !.state = "done"]

(* One turn of `fork_map`: no block twice, no more blocks than the inode   *)
(* has.                                                                    *)
ForkMap(image, walk, nblocks, nextents, attr) ==
    IF walk.stack = <<>> THEN Finished(walk, nextents, attr)
    ELSE IF Top(walk)[1] \in Seen(walk) \/ Cardinality(Seen(walk)) > nblocks THEN Refused(walk)
    ELSE Visit(image, walk)

----------------------------------------------------------------------------
(* The AGFL: a ring of block numbers, from first to last.  A list l is     *)
(* [cells, first, last, count].                                            *)

BadList == <<-1>>

(* The blocks of the list, which must be as many as the AGF says. *)
agfl_blocks(l) ==
    LET size == Len(l.cells)
        from[i \in 0..(size - 1)] ==
            <<l.cells[i + 1]>> \o (IF i = l.last THEN <<>> ELSE from[(i + 1) % size])
    IN  IF l.count = 0 THEN <<>>
        ELSE IF l.first >= size \/ l.last >= size THEN BadList
        ELSE IF Len(from[l.first]) # l.count THEN BadList
        ELSE from[l.first]
=============================================================================

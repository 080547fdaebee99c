------------------------------ MODULE DirLayout ------------------------------
(***************************************************************************)
(* A directory's names laid out in the smallest form that holds them       *)
(* (dirwrite.rs), the logical blocks mapped to runs (write.rs), and the    *)
(* names read back (dir.rs, volume.rs).                                    *)
(*                                                                         *)
(* A name is [id, len, hash, ino, ftype]: which bytes it has does not      *)
(* matter, how many does, and its hash may be any number, shared with      *)
(* other names or not.  A geometry g gives the sizes the code takes from   *)
(* the superblock: dbs, the bytes of a directory block, hdr, its header,   *)
(* fsbPer, the filesystem blocks in it, leafFirst and freeFirst, where the *)
(* index and the free-space index start, and fork, the bytes in the inode. *)
(* Magic numbers, owners, UUIDs and checksums are left out.                *)
(***************************************************************************)
EXTENDS TreeImage

MaxShortNames == 255

(* Bytes of a data entry: inode 8, length 1, name, type 1, tag 2, rounded  *)
(* up to 8.                                                                *)
entsize(len) == ((8 + 1 + len + 1 + 2 + 7) \div 8) * 8

Sizes(ents) == [i \in DOMAIN ents |-> entsize(ents[i].len)]

(* Bytes of an inode number in the short form: 8 if any of them needs it.  *)
(* A number is [n, big]: big is `> MAX_SHORT_INUM`.                        *)
InoSize(parent, names) ==
    IF parent.big \/ \E i \in DOMAIN names : names[i].ino.big THEN 8 ELSE 4

(* A number as stored in isz bytes: 4 keep the low half only. *)
StoredIno(ino, isz) == IF isz = 8 THEN ino ELSE [ino EXCEPT !.big = FALSE]

ShortSize(parent, names) ==
    LET isz == InoSize(parent, names)
        each == [i \in DOMAIN names |-> 1 + 2 + names[i].len + 1 + isz]
    IN  2 + isz + SumTo(each, Len(names))

FitsShort(g, parent, names) ==
    Len(names) <= MaxShortNames /\ ShortSize(parent, names) <= g.fork

shortform(parent, names) ==
    LET isz == InoSize(parent, names)
    IN  [form |-> "short", parent |-> StoredIno(parent, isz),
         names |-> [i \in DOMAIN names |-> [names[i] EXCEPT !.ino = StoredIno(@, isz)]]]

----------------------------------------------------------------------------
(* Data blocks.  A block is the entries from its header on, each at a byte *)
(* offset, then a free region, `put_free`: where it starts and its length. *)

(* The entries of one block, end to end from the header on. *)
Placed(g, ents) ==
    LET sizes == Sizes(ents)
    IN  [i \in DOMAIN ents |-> [at |-> g.hdr + SumTo(sizes, i - 1), ent |-> ents[i]]]

EndOf(g, ents) == g.hdr + SumTo(Sizes(ents), Len(ents))

(* A data block whose names end at `end`, where the index of a single      *)
(* block starts, if it has one.                                            *)
DataBlock(g, ents, end) ==
    [ents |-> Placed(g, ents),
     free |-> [at |-> EndOf(g, ents), len |-> end - EndOf(g, ents)],
     end |-> end]

(* The most names, from the first on, that fit in a data block. *)
FirstThatFit(g, ents) ==
    Max({k \in 0..Len(ents) : EndOf(g, SubSeq(ents, 1, k)) <= g.dbs})

(* The names cut into data blocks, in order, each as full as it goes. *)
Packed(g, ents) ==
    LET pack[k \in 0..Len(ents)] ==    \* from the k'th name on
            LET rest == SubSeq(ents, k, Len(ents))
                n == FirstThatFit(g, rest)
            IN  IF k = 0 \/ rest = <<>> THEN <<>>
                ELSE <<SubSeq(rest, 1, n)>>
                     \o (IF n = Len(rest) THEN <<>> ELSE pack[k + n])
    IN  pack[1]

(* An index entry: hash, and the entry's place in units of 8 bytes. *)
IndexOf(g, blocks) ==
    LET places(db) == [i \in DOMAIN blocks[db] |->
                         [hash |-> blocks[db][i].ent.hash,
                          addr |-> ((db - 1) * g.dbs + blocks[db][i].at) \div 8]]
        all[db \in 0..Len(blocks)] == IF db = 0 THEN <<>> ELSE all[db - 1] \o places(db)
    IN  SortSeq(all[Len(blocks)],
                LAMBDA a, b : a.hash < b.hash \/ (a.hash = b.hash /\ a.addr < b.addr))
----------------------------------------------------------------------------
(* Index blocks: leaf entries are [hash, addr], node entries the highest   *)
(* hash below and the child's position.                                    *)

PerBlock(g) == (g.dbs - g.hdr) \div 8     \* per_leaf, per_node
PerFree(g) == (g.dbs - g.hdr) \div 2

HashEntries(blocks) ==
    [i \in DOMAIN blocks |->
       [hash |-> blocks[i].ents[Len(blocks[i].ents)].hash, addr |-> blocks[i].addr]]

(* Mutant: positions in the order the blocks are made, so that the root,   *)
(* made last, comes last.                                                  *)
IndexPositionsInOrder(g, total) == [i \in 1..total |-> g.leafFirst + (i - 1) * g.fsbPer]

(* Where the index blocks go, in the order they are made: the root, made   *)
(* last, gets the first position.                                          *)
IndexPositions(g, total) ==
    [i \in 1..total |-> IF i = total THEN g.leafFirst ELSE g.leafFirst + i * g.fsbPer]

(* The levels of the hash tree, leaves first. *)
HashTree(g, index) ==
    LET sizes == LevelSizes(Len(index), PerBlock(g), PerBlock(g), 1)
        addrs == IndexPositions(g, SumTo(sizes, Len(sizes)))
        lvl[l \in 1..Len(sizes)] ==
            Level(l - 1,
                  IF l = 1 THEN index ELSE HashEntries(lvl[l - 1]),
                  SubSeq(addrs, SumTo(sizes, l - 1) + 1, SumTo(sizes, l)))
        all[l \in 0..Len(sizes)] == IF l = 0 THEN <<>> ELSE all[l - 1] \o lvl[l]
    IN  all[Len(sizes)]

(* Free-index blocks: each data block's best free region, PerFree a block. *)
FreeBlocks(g, bests) ==
    [i \in 1..div_ceil(Len(bests), PerFree(g)) |->
       LET first == (i - 1) * PerFree(g)
       IN  [lblk |-> g.freeFirst + (i - 1) * g.fsbPer, kind |-> "free", first |-> first,
            bests |-> SubSeq(bests, first + 1, Min({first + PerFree(g), Len(bests)}))]]

----------------------------------------------------------------------------
(* The names of the directory itself and its parent. *)
Dots(g, self, parent) ==
    <<[id |-> -1, len |-> 1, hash |-> g.dot, ino |-> self, ftype |-> "dir"],
      [id |-> -2, len |-> 2, hash |-> g.dotdot, ino |-> parent, ftype |-> "dir"]>>

(* `layout`: short form, one block, data blocks and one leaf of index, or  *)
(* data blocks under a hash tree with separate free-index blocks.          *)

FitsBlock(g, all) == EndOf(g, all) + 8 * Len(all) + 8 <= g.dbs

FitsLeaf(g, index, ndata) == g.hdr + 8 * Len(index) + 2 * ndata + 4 <= g.dbs

Blocks(g, form, data, rest) ==
    [form |-> form, size |-> Len(data) * g.dbs,
     blocks |-> [db \in DOMAIN data |->
                   [lblk |-> (db - 1) * g.fsbPer, kind |-> "data", data |-> data[db]]]
                \o rest]

ByPosition(dir) == [dir EXCEPT !.blocks = SortSeq(@, LAMBDA a, b : a.lblk < b.lblk)]

layout(g, self, parent, names) ==
    LET all == Dots(g, self, parent) \o names
        one == DataBlock(g, all, g.dbs - 8 - 8 * Len(all))
        cut == Packed(g, all)
        data == [db \in DOMAIN cut |-> DataBlock(g, cut[db], g.dbs)]
        bests == [db \in DOMAIN data |-> data[db].free.len]
        index == IndexOf(g, [db \in DOMAIN data |-> data[db].ents])
        tree == HashTree(g, index)
    IN  IF FitsShort(g, parent, names) THEN shortform(parent, names)
        ELSE IF FitsBlock(g, all)
            THEN [form |-> "block", size |-> g.dbs,
                  blocks |-> <<[lblk |-> 0, kind |-> "block", data |-> one,
                                index |-> IndexOf(g, <<one.ents>>)]>>]
        ELSE IF FitsLeaf(g, index, Len(data))
            THEN Blocks(g, "leaf", data,
                        <<[lblk |-> g.leafFirst, kind |-> "leaf1", index |-> index,
                           bests |-> bests]>>)
        ELSE ByPosition(Blocks(g, "node", data,
                               [i \in DOMAIN tree |->
                                  [lblk |-> tree[i].addr, kind |-> "index", node |-> tree[i]]]
                               \o FreeBlocks(g, bests)))

----------------------------------------------------------------------------
(* Mapping and reading back.                                               *)

(* `write_dir`: runs of consecutive logical blocks, in order.  Each is     *)
(* allocated in as many pieces as there is room for: here of `piece`       *)
(* blocks at most.                                                         *)
Runs(g, dir) ==
    LET lblks == {dir.blocks[i].lblk : i \in DOMAIN dir.blocks}
        mapped == UNION {l .. (l + g.fsbPer - 1) : l \in lblks}
        starts == {l \in mapped : l - 1 \notin mapped}
        next(l) == Min({m \in l..(l + Cardinality(mapped)) : m \notin mapped})
    IN  {[offset |-> l, count |-> next(l) - l] : l \in starts}

Extents(g, dir, piece) ==
    LET cut(r) == {[offset |-> r.offset + k * piece,
                    count |-> Min({piece, r.count - k * piece})] :
                       k \in 0..(div_ceil(r.count, piece) - 1)}
        all == UNION {cut(r) : r \in Runs(g, dir)}
        before(e) == {d \in all : d.offset < e.offset}
    IN  [i \in 1..Cardinality(all) |-> CHOOSE e \in all : Cardinality(before(e)) = i - 1]

(* Mutant: an extent that starts inside a directory block starts anew. *)
VisitedAnew(g, extents) ==
    LET go[i \in 0..Len(extents)] ==
            IF i = 0 THEN <<>>
            ELSE LET e == extents[i]
                     from == (e.offset \div g.fsbPer) * g.fsbPer
                     to == Min({e.offset + e.count, g.leafFirst})
                 IN  go[i - 1] \o [k \in 1..(IF to > from THEN div_ceil(to - from, g.fsbPer) ELSE 0)
                                     |-> from + (k - 1) * g.fsbPer]
    IN  go[Len(extents)]

(* The directory blocks that `dir_entries` reads: those below leafFirst,   *)
(* each once, though extents need not end where a directory block does.    *)
Visited(g, extents) ==
    LET go[i \in 0..Len(extents)] ==
            IF i = 0 THEN <<>>
            ELSE LET e == extents[i]
                     done == go[i - 1]
                     next == IF done = <<>> THEN 0 ELSE done[Len(done)] + g.fsbPer
                     from == Max({(e.offset \div g.fsbPer) * g.fsbPer, next})
                     to == Min({e.offset + e.count, g.leafFirst})
                 IN  done \o [k \in 1..(IF to > from THEN div_ceil(to - from, g.fsbPer) ELSE 0)
                                |-> from + (k - 1) * g.fsbPer]
    IN  go[Len(extents)]

(* `parse_data_block`: entry after entry from the header to the end, each  *)
(* as long as its name says, with free regions of 8 bytes and multiples.   *)
ParsesWell(g, b, end) ==
    LET p == EndOf(g, [i \in DOMAIN b.ents |-> b.ents[i].ent])
    IN  /\ \A i \in DOMAIN b.ents :
              b.ents[i].at = EndOf(g, [j \in 1..(i - 1) |-> b.ents[j].ent])
        /\ p <= end
        /\ p < end => b.free.at = p /\ b.free.len >= 8 /\ b.free.len % 8 = 0
                      /\ b.free.len = end - p

Corrupted == <<"corrupt">>

parse_data_block(g, block) ==
    LET end == IF block.kind = "block" THEN g.dbs - 8 - 8 * Len(block.index) ELSE g.dbs
    IN  IF block.kind \in {"block", "data"} /\ ParsesWell(g, block.data, end)
        THEN [i \in DOMAIN block.data.ents |-> block.data.ents[i].ent]
        ELSE Corrupted

(* `dir_entries`: the names as read, `.` and `..` first. *)
dir_entries(g, dir, self, extents) ==
    LET at(l) == CHOOSE i \in DOMAIN dir.blocks : dir.blocks[i].lblk = l
        visited == Visited(g, extents)
        read[i \in 0..Len(visited)] ==
            IF i = 0 THEN <<>>
            ELSE read[i - 1] \o parse_data_block(g, dir.blocks[at(visited[i])])
    IN  IF dir.form = "short" THEN Dots(g, self, dir.parent) \o dir.names
        ELSE read[Len(visited)]
=============================================================================

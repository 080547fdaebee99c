------------------------------- MODULE Formats -------------------------------
(***************************************************************************)
(* What is laid out is what is read: each behaviour takes one input, lays  *)
(* it out the way the write side does (or, where this code only reads, the *)
(* way Linux does), perhaps damages a pointer of the image, and reads it   *)
(* back the way the read side does, the walks a block a step.              *)
(***************************************************************************)
EXTENDS DirLayout, FileMap, AttrFork, Superblock, TarStream

CONSTANTS
    Trees,      \* records of AG trees: [kind, recs, leafMax, nodeMax]
    Forks,      \* extents of forks: [kind, recs, max, rootMax, attr]
    Rings,      \* AGFLs: [kind, recs, size, first]
    Dirs,       \* directories: [kind, g, self, parent, names, piece]
    Files,      \* files: [kind, cells, size, piece, bs]
    Links,      \* symbolic links: [kind, target, fork, payload]
    Attrs,      \* attributes: [kind, attrs, perLeaf, deep, local, inline, payload]
    Geometries, \* superblocks and builds: [kind, s, checked]
    Archives,   \* tar archives: [kind, entries]
    WalkLimit,  \* blocks walk_tree reads at most
    Narrow      \* widths of packed numbers: [w, giga, ext, minor]

(* Records have keys of their own, in rising order; extents do not         *)
(* overlap.  A tree is no higher and no larger than walk_tree reads, and   *)
(* nodes have room for two children: in the smallest blocks for many more. *)
Ordered(recs) == \A i, j \in DOMAIN recs : i < j => recs[i].low < recs[j].low
Separate(recs) == \A i, j \in DOMAIN recs : i < j => recs[i].high < recs[j].low
Spans == [low : Int, high : Int]

TreeFits(t) ==
    /\ t.recs \in Seq(Spans) /\ Ordered(t.recs)
    /\ t.leafMax \in Nat \ {0} /\ t.nodeMax \in Nat \ {0, 1}
    /\ Len(level_sizes(Len(t.recs), t.leafMax, t.nodeMax)) <= MaxLevels
    /\ blocks_for(Len(t.recs), t.leafMax, t.nodeMax) <= WalkLimit
ForkFits(f) ==
    /\ f.recs \in Seq(Spans) /\ Ordered(f.recs) /\ Separate(f.recs)
    /\ f.max \in Nat \ {0, 1} /\ f.rootMax \in Nat \ {0} /\ f.attr \in BOOLEAN
RingFits(r) ==
    /\ r.size \in Nat \ {0} /\ r.first \in 0 .. (r.size - 1)
    /\ r.recs \in Seq(Nat) /\ Len(r.recs) <= r.size

ASSUME FormatsAssumption ==
    /\ WalkLimit \in Nat
    /\ \A t \in Trees : t.kind = "ag" /\ TreeFits(t)
    /\ \A f \in Forks : f.kind = "fork" /\ ForkFits(f)
    /\ \A r \in Rings : r.kind = "agfl" /\ RingFits(r)
    /\ \A x \in Dirs \cup Files \cup Links \cup Attrs \cup Geometries \cup Archives :
          x.kind \notin {"ag", "fork", "agfl"}

VARIABLES what, image, damaged, walk

vars == <<what, image, damaged, walk>>

None == <<>>

----------------------------------------------------------------------------
(* Images of what this code does not write, or where it writes it.         *)

(* The blocks given to a tree: any distinct numbers, here in falling order *)
(* so that a block's place in the tree is not its place on the device.     *)
Addrs(n) == [i \in 1..n |-> 100 + n - i]

(* The kernel's free list: count blocks from first on, around the ring. *)
Ring(r) ==
    LET n == Len(r.recs)
        nth(i) == ((i - r.first) % r.size) + 1    \* of cell i
    IN  [cells |-> [i \in 1..r.size |-> IF nth(i - 1) <= n THEN r.recs[nth(i - 1)] ELSE Null],
         first |-> r.first, last |-> (r.first + n - 1) % r.size, count |-> n]

(* The extents of a file whose blocks are data, unwritten or holes: runs   *)
(* of one kind, cut into pieces, the later ones first on the device.       *)
FileExtents(f) ==
    LET n == Len(f.cells)
        starts == {l \in 0..(n - 1) :
                     /\ f.cells[l + 1] # "hole"
                     /\ l = 0 \/ l % f.piece = 0 \/ f.cells[l] # f.cells[l + 1]}
        stop(l) == Min({m \in (l + 1)..n : m = n \/ m \in starts \/ f.cells[m + 1] = "hole"})
        nth(i) == CHOOSE l \in starts : Cardinality({m \in starts : m < l}) = i - 1
    IN  [i \in 1..Cardinality(starts) |->
           [offset |-> nth(i), block |-> 10 * (n - nth(i)), count |-> stop(nth(i)) - nth(i),
            unwritten |-> f.cells[nth(i) + 1] = "unwritten"]]

(* Bytes of a file, numbered, and a device with something else on it. *)
FileBytes(f) == [i \in 1..f.size |-> i]
Old(f) == [b \in 10..(10 * Len(f.cells) + 9) |-> [k \in 1..f.bs |-> -1]]

(* The file: its extents, and the device when those of data are written. *)
FileImage(f) ==
    LET written == SelectSeq(FileExtents(f), LAMBDA e : ~e.unwritten)
    IN  [extents |-> FileExtents(f), dev |-> write_mapped(Old(f), written, FileBytes(f), f.bs)]

(* The kernel's attribute fork: the attributes in leaves of perLeaf, under *)
(* a node or two if there are several leaves, then the remote values.      *)
Flags(ns) ==
    CASE ns = "user" -> {} [] ns = "security" -> {"SECURE"} [] ns \in {"trusted", "system"} -> {"ROOT"}
      [] ns = "parent" -> {"PARENT"} [] ns = "incomplete" -> {"INCOMPLETE"}

AttrImage(a) ==
    LET n == Len(a.attrs)
        far(i) == Len(a.attrs[i].disk) > a.inline /\ ~a.local
        at(i) == 100 * i
        stored(i) == [flags |-> Flags(a.attrs[i].ns), name |-> a.attrs[i].name,
                      value |-> IF far(i) THEN [remote |-> TRUE, blk |-> at(i), len |-> Len(a.attrs[i].disk)]
                                ELSE [remote |-> FALSE, bytes |-> a.attrs[i].disk]]
        all == [i \in 1..n |-> stored(i)]
        k == Leaves(n, a.perLeaf)
        base == IF k = 1 THEN 0 ELSE 1
        leaf(i) == [kind |-> "leaf", forw |-> IF i = k THEN 0 ELSE i + 1,
                    attrs |-> SubSeq(all, (i - 1) * a.perLeaf + 1, Lesser(i * a.perLeaf, n))]
        parts(i) == IF far(i) THEN (at(i)) .. (at(i) + div_up(Len(a.attrs[i].disk), a.payload) - 1) ELSE {}
        part(b) == LET i == b \div 100
                       from == (b % 100) * a.payload
                   IN  [kind |-> "part",
                        bytes |-> SubSeq(a.attrs[i].disk, from + 1,
                                         Lesser(from + a.payload, Len(a.attrs[i].disk)))]
        kids == [i \in 1..k |-> i]
        nodes == IF k = 1 THEN {} ELSE IF a.deep THEN {0, 50} ELSE {0}
        leaves == IF k = 1 THEN {0} ELSE 1..k
    IN  [b \in nodes \cup leaves \cup UNION {parts(i) : i \in 1..n} |->
           IF b \in leaves THEN leaf(IF k = 1 THEN 1 ELSE b)
           ELSE IF b \in nodes
               THEN [kind |-> "node", children |-> IF a.deep /\ b = 0 THEN <<50>> ELSE kids]
           ELSE part(b)]

(* The contents of an archive's files. *)
Contents(entries) ==
    [i \in DOMAIN entries |->
       IF entries[i].kind # "file" THEN <<>>
       ELSE [k \in 1..entries[i].size |-> [c |-> "byte", v |-> 10 * i + k]]]

----------------------------------------------------------------------------
Init ==
    /\ what \in Trees \cup Forks \cup Rings \cup Dirs \cup Files \cup Links \cup Attrs
                 \cup Geometries \cup Archives
    /\ image = None
    /\ damaged = FALSE
    /\ walk = None

Store ==
    /\ image = None
    /\ image' =
         CASE what.kind = "ag" ->
                build_ag(what.recs, what.leafMax, what.nodeMax,
                         Addrs(blocks_for(Len(what.recs), what.leafMax, what.nodeMax)))
           [] what.kind = "fork" ->
                build_bmap(what.recs, what.max, what.rootMax,
                           Addrs(bmap_blocks(Len(what.recs), what.max, what.rootMax)))
           [] what.kind = "agfl" -> Ring(what)
           [] what.kind = "dir" -> layout(what.g, what.self, what.parent, what.names)
           [] what.kind = "file" -> FileImage(what)
           [] what.kind = "link" -> symlink(what.target, what.fork, what.payload)
           [] what.kind = "attr" -> AttrImage(what)
           [] what.kind = "sb" -> what.s
           [] what.kind = "tar" -> Archive(what.entries, Contents(what.entries))
    /\ UNCHANGED <<what, damaged, walk>>

(* Another program's mistake.  One child pointer of a fork's tree is that  *)
(* of another block, two children of one block have changed places, or a   *)
(* block says that it holds one record less than it does.                  *)
DamageFork ==
    /\ what.kind = "fork"
    /\ \E b \in DOMAIN image.blocks :
         LET ents == image.blocks[b].ents IN
         \/ /\ image.blocks[b].level > 0
            /\ \E i \in DOMAIN ents :
                  \E to \in DOMAIN image.blocks \ {ents[i].ptr} :
                     image' = [image EXCEPT !.blocks[b].ents[i].ptr = to]
         \/ /\ image.blocks[b].level > 0
            /\ \E i, j \in DOMAIN ents :
                  /\ i < j
                  /\ image' = [image EXCEPT !.blocks[b].ents[i] = ents[j],
                                            !.blocks[b].ents[j] = ents[i]]
         \/ image' = [image EXCEPT !.blocks[b].ents = SubSeq(ents, 1, Len(ents) - 1)]

(* A pointer between attribute blocks leads to any block, or to none. *)
DamageAttr ==
    /\ what.kind = "attr" /\ ~what.local
    /\ \E b \in DOMAIN image, to \in DOMAIN image \cup {77} :
         \/ /\ image[b].kind = "node"
            /\ image' = [image EXCEPT ![b].children[1] = to]
         \/ /\ image[b].kind = "leaf"
            /\ image' = [image EXCEPT ![b].forw = to]

(* A number of the free list is another. *)
DamageRing ==
    /\ what.kind = "agfl"
    /\ \E v \in 0..(what.size + 1) :
         \/ /\ v # image.first
            /\ image' = [image EXCEPT !.first = v]
         \/ /\ v # image.last
            /\ image' = [image EXCEPT !.last = v]
         \/ /\ v # image.count
            /\ image' = [image EXCEPT !.count = v]

Damage ==
    /\ image # None /\ ~damaged /\ walk = None
    /\ DamageFork \/ DamageAttr \/ DamageRing
    /\ damaged' = TRUE
    /\ UNCHANGED <<what, walk>>

Result(v) == [state |-> "done", recs |-> v]

(* A read that is one call, or the start of a walk. *)
StartRead ==
    /\ image # None /\ walk = None
    /\ \/ /\ what.kind = "ag"
          /\ walk' = StartWalkTree(image)
       \/ /\ what.kind = "fork"
          /\ walk' = StartForkMap(image, what.rootMax)
       \/ /\ what.kind = "agfl"
          /\ walk' = IF agfl_blocks(image) = BadList THEN [state |-> "corrupt"]
                     ELSE Result(agfl_blocks(image))
       \/ /\ what.kind = "dir"
          /\ walk' = Result(dir_entries(what.g, image, what.self,
                                        IF image.form = "short" THEN <<>>
                                        ELSE Extents(what.g, image, what.piece)))
       \/ /\ what.kind = "file"
          /\ \E offset, len \in 0..(what.size + 1) :
               walk' = [state |-> "done", offset |-> offset, len |-> len,
                        recs |-> read_inode_range(image.dev, image.extents, what.size,
                                                  offset, len, what.bs)]
       \/ /\ what.kind = "link"
          /\ walk' = Result(symlink_target(image))
       \/ /\ what.kind = "attr"
          /\ walk' = IF what.local THEN parse_shortform(image[0].attrs) ELSE StartAttrs
       \/ /\ what.kind = "sb"
          /\ walk' = [state |-> parse(image, what.checked)]
       \/ /\ what.kind = "tar"
          /\ walk' = Result(ReadTar(image.out))
    /\ UNCHANGED <<what, image, damaged>>

Walking == walk # None /\ walk.state \in {"walking", "found"}

ReadBlock ==
    /\ Walking
    /\ \/ /\ what.kind = "ag"
          /\ walk' = WalkTree(image, walk, WalkLimit)
       \/ /\ what.kind = "fork"
          /\ walk' = ForkMap(image, walk, Cardinality(DOMAIN image.blocks) + Len(what.recs),
                             Len(what.recs), what.attr)
       \/ /\ what.kind = "attr"
          /\ walk' = IF walk.state = "walking" THEN ReadAttrBlock(image, walk)
                     ELSE ReadValues(image, walk, what.payload)
    /\ UNCHANGED <<what, image, damaged>>

Next == Store \/ Damage \/ StartRead \/ ReadBlock

(* A read that has begun goes on: nothing it waits for is another's turn.  *)
Spec == Init /\ [][Next]_vars /\ WF_vars(ReadBlock)

----------------------------------------------------------------------------
(* Properties.                                                             *)

Done == walk # None /\ walk.state = "done"
Refuses == walk # None /\ walk.state = "corrupt"

(* A tree built whole reads back as the records it was built from, in      *)
(* order, from exactly the blocks it was given, each read once, and is     *)
(* never refused (build_ag and walk_tree, build_bmap and fork_map); and a  *)
(* free list reads back as its blocks wherever in its ring it lies.        *)
TreeReadsBack ==
    (what.kind \in {"ag", "fork", "agfl"} /\ ~damaged) =>
        /\ ~Refuses
        /\ Done => walk.recs = what.recs
        /\ (Done /\ what.kind # "agfl") =>
              /\ Seen(walk) = DOMAIN image.blocks
              /\ Len(walk.blocks) = Cardinality(DOMAIN image.blocks)

(* Whatever one pointer or count of a fork's tree was turned into, a map   *)
(* that fork_map returns is the right one, or part of it for an attribute  *)
(* fork, whose extents are not counted, and names no block of the tree     *)
(* twice: each of them is released once when the file is removed.  And a   *)
(* free list with one number wrong is refused, unless it is taken for an   *)
(* empty one or is an empty one taken for full: first and last do not tell *)
(* these apart.                                                            *)
DamageFoundOut ==
    /\ (damaged /\ Done /\ what.kind = "fork") =>
         /\ \/ walk.recs = what.recs
            \/ what.attr /\ Range(walk.recs) \subseteq Range(what.recs)
         /\ Cardinality(Seen(walk)) = Len(walk.blocks)
    /\ (damaged /\ Done /\ what.kind = "agfl") =>
         \/ walk.recs = what.recs
         \/ image.count = 0
         \/ what.recs = <<>> /\ image.count = what.size

(* A read of a tree or of attributes ends, though the pointers of the      *)
(* image lead around in a circle (the loop checks of fork_map and          *)
(* xattrs_inode, the limit of walk_tree).                                  *)
ReadsEnd == Walking ~> ~Walking

(* The records covering key that a search finds which goes down wherever   *)
(* the range of an entry holds the key, as in a tree of overlapping        *)
(* records.                                                                *)
Search(key) ==
    LET meets(ents) == {ents[i] : i \in {j \in DOMAIN ents : ents[j].low <= key /\ key <= ents[j].high}}
        below[a \in DOMAIN image.blocks] ==
            LET b == image.blocks[a]
            IN  IF b.level = 0 THEN meets(b.ents)
                ELSE UNION {below[e.ptr] : e \in meets(b.ents)}
    IN  UNION {below[e.ptr] : e \in meets(image.root)}

(* A block whose level is not the one just under the inode's root, nor the *)
(* root itself.                                                            *)
Inner(b) == b.level < image.level

(* The keys of the nodes lead to every record that covers a key, though    *)
(* the longest record under a node need not be the last; neighbours on a   *)
(* level are linked both ways; and a block below the topmost level is at   *)
(* least half full, which is what xfs_repair holds a tree against.         *)
TreeFinds ==
    (what.kind \in {"ag", "fork"} /\ image # None /\ ~damaged) =>
        /\ \A i \in DOMAIN what.recs : \A key \in what.recs[i].low .. what.recs[i].high :
               what.recs[i] \in Search(key)
        /\ \A a \in DOMAIN image.blocks :
               LET b == image.blocks[a]
                   max == IF b.level = 0 THEN image.leafMax ELSE image.nodeMax
               IN  /\ Len(b.ents) <= max
                   /\ Inner(b) => 2 * Len(b.ents) >= max - 1
                   /\ b.right # Null => /\ image.blocks[b.right].left = a
                                        /\ image.blocks[b.right].level = b.level
                                        /\ b.ents[Len(b.ents)].low < image.blocks[b.right].ents[1].low

IsDir == what.kind = "dir"
AllNames == Dots(what.g, what.self, what.parent) \o what.names

(* A directory laid out in any of its forms reads back as the names it was *)
(* laid out from, in order, each once, with their inodes and types         *)
(* (layout and dir_entries), however the extents of its blocks are cut.    *)
DirReadsBack == (IsDir /\ Done) => walk.recs = AllNames

(* The blocks of a directory of one kind, and the index block at p. *)
OfKind(k) == {i \in DOMAIN image.blocks : image.blocks[i].kind = k}
Node(p) == image.blocks[CHOOSE i \in OfKind("index") : image.blocks[i].lblk = p].node

(* How another reader finds a name by its hash: in the index of the one    *)
(* block or leaf; or down the hash tree from the first index position, at  *)
(* each node into the first child whose hash is not smaller, then along    *)
(* the leaves as long as they end in this hash.                            *)
Matches(index, hash) == {e.addr : e \in {index[i] : i \in {j \in DOMAIN index : index[j].hash = hash}}}

Descend(hash) ==
    LET down[p \in {image.blocks[i].lblk : i \in OfKind("index")}] ==
            LET b == Node(p)
                above == {i \in DOMAIN b.ents : b.ents[i].hash >= hash}
            IN  IF b.level > 0
                THEN IF above = {} THEN {} ELSE down[b.ents[Min(above)].addr]
                ELSE Matches(b.ents, hash)
                     \cup (IF b.right # Null /\ b.ents[Len(b.ents)].hash = hash
                           THEN down[b.right] ELSE {})
    IN  down[what.g.leafFirst]

Lookup(hash) ==
    CASE image.form = "block" -> Matches(image.blocks[1].index, hash)
      [] image.form = "leaf" -> Matches(image.blocks[CHOOSE i \in OfKind("leaf1") : TRUE].index, hash)
      [] image.form = "node" -> Descend(hash)

(* The name that an index address leads to, if any. *)
NamesAt(addr) ==
    LET dbs == what.g.dbs
        blk == ((8 * addr) \div dbs) * what.g.fsbPer
    IN  UNION {{e.ent : e \in {d \in {image.blocks[i].data.ents[j] :
                                        j \in DOMAIN image.blocks[i].data.ents} :
                                 d.at = (8 * addr) % dbs}} :
               i \in {k \in OfKind("data") \cup OfKind("block") : image.blocks[k].lblk = blk}}

(* Every name is found through the index, whichever form it has and        *)
(* however many names share a hash, and what the index points to is an     *)
(* entry with that hash.                                                   *)
IndexFinds ==
        \A i \in DOMAIN AllNames :
            /\ AllNames[i] \in UNION {NamesAt(a) : a \in Lookup(AllNames[i].hash)}
            /\ \A a \in Lookup(AllNames[i].hash) :
                   \E e \in NamesAt(a) : e.hash = AllNames[i].hash

(* What the free-space index says of data block db. *)
BestOf(db) ==
    IF image.form = "leaf"
    THEN image.blocks[CHOOSE i \in OfKind("leaf1") : TRUE].bests[db]
    ELSE LET n == (db - 1) \div PerFree(what.g)
             b == image.blocks[CHOOSE i \in OfKind("free") :
                                 image.blocks[i].lblk = what.g.freeFirst + n * what.g.fsbPer]
         IN  IF b.first = n * PerFree(what.g) THEN b.bests[db - b.first] ELSE -1

(* No two blocks of a directory have the same place, its data ends where   *)
(* its size says, no block holds more than it can, and the free-space      *)
(* index gives each data block the space that is left in it.               *)
BlocksApart ==
        LET g == what.g
            dataBlocks == {i \in DOMAIN image.blocks : image.blocks[i].lblk < g.leafFirst}
        IN  /\ \A i, j \in DOMAIN image.blocks :
                  i # j => image.blocks[i].lblk # image.blocks[j].lblk
            /\ Cardinality(dataBlocks) * g.dbs = image.size
            /\ \A i \in OfKind("index") : Len(image.blocks[i].node.ents) <= PerBlock(g)
            /\ \A i \in OfKind("free") : Len(image.blocks[i].bests) <= PerFree(g)
            /\ image.form # "block" =>
                 \A i \in dataBlocks :
                     BestOf(image.blocks[i].lblk \div g.fsbPer + 1)
                       = g.dbs - EndOf(g, [j \in DOMAIN image.blocks[i].data.ents |->
                                             image.blocks[i].data.ents[j].ent])

(* The index of a directory finds every name and nothing else, and its     *)
(* blocks, sizes and free-space index are what another reader or writer    *)
(* relies on (`layout`).                                                   *)
DirIndexSound ==
    (IsDir /\ image # None /\ image.form # "short") => IndexFinds /\ BlocksApart

(* A byte of a file: what was written, or zero in a hole and in blocks     *)
(* never written.                                                          *)
ByteOf(f, i) == IF f.cells[((i - 1) \div f.bs) + 1] = "data" THEN i ELSE 0

(* What the user knows of a list of attributes. *)
UserVisible(attrs) ==
    LET kept == SelectSeq(attrs, LAMBDA a : a.ns \notin {"parent", "incomplete"})
    IN  [i \in DOMAIN kept |-> [name |-> <<kept[i].ns, kept[i].name>>, value |-> kept[i].value]]

(* Any range of a file reads as the bytes it was given, zeroes in holes    *)
(* and unwritten blocks, and stops at its size, however its blocks are     *)
(* mapped, and nothing that was on the device is left past its end in a    *)
(* block that was written; a symbolic link reads as its target, though its *)
(* blocks hold a header each; and attributes read as the user set them,    *)
(* the internal and the unfinished ones not shown, wherever their values   *)
(* are.                                                                    *)
ContentsReadBack ==
    /\ (what.kind = "file" /\ Done) =>
         walk.recs = [k \in 1..Greater(0, Lesser(walk.len, what.size - walk.offset)) |->
                        ByteOf(what, walk.offset + k)]
    /\ (what.kind = "file" /\ image # None) =>
         \A l \in 0 .. Len(what.cells) - 1 :
             LET e == find(image.extents, l)
             IN  /\ (e = <<>>) = (what.cells[l + 1] = "hole")
                 /\ (what.cells[l + 1] = "data" /\ l * what.bs < what.size) =>
                      \A k \in 1..what.bs :
                          image.dev[e[1].block + (l - e[1].offset)][k]
                            = IF l * what.bs + k <= what.size THEN l * what.bs + k ELSE 0
    /\ (what.kind = "link" /\ Done) => walk.recs = what.target
    /\ (what.kind = "attr" /\ ~damaged) =>
         /\ ~Refuses
         /\ Done => walk.found = UserVisible(what.attrs)

(* Every entry of an archive reads back with all it had, whatever did not  *)
(* fit its header, and with its contents, from a stream of whole blocks;   *)
(* no assert of the writer fails.                                          *)
TarReadsBack ==
    (what.kind = "tar" /\ Done) =>
        /\ walk.recs = [i \in DOMAIN what.entries |->
                          LET h == what.entries[i]
                          IN  [kind |-> h.kind, path |-> h.path, link |-> h.link, dev |-> h.dev,
                               uid |-> h.uid, gid |-> h.gid, mtime |-> h.mtime, xattrs |-> h.xattrs,
                               size |-> IF h.kind = "file" THEN h.size ELSE 0,
                               bytes |-> Contents(what.entries)[i]]]
        /\ Len(image.out) % Block = 0 /\ ~image.failed

(* The blocks and the inodes of a filesystem: each has one number, its     *)
(* bytes are its own, and any other number is refused.                     *)
BlocksNumbered(s) ==
    LET numbers == 0 .. (s.ag_count + 1) * 2 ^ s.agblk_log
        places == (0 .. s.ag_count - 1) \X (0 .. s.ag_blocks - 1)
        real == {p \in places : p[2] < ag_len(s, p[1])}
        good == {f \in numbers : fsb_to_byte(s, f) # Outside}
        bs == 2 ^ s.block_bits
    IN  /\ \A p \in places : /\ fsb_to_agb(s, agb_to_fsb(s, p[1], p[2])) = p
                              /\ fsb_to_byte(s, agb_to_fsb(s, p[1], p[2])) = agb_to_byte(s, p[1], p[2])
        /\ good = {agb_to_fsb(s, p[1], p[2]) : p \in places}
        /\ \A f, g \in good : f < g => fsb_to_byte(s, f) + bs <= fsb_to_byte(s, g)
        /\ {agb_to_byte(s, p[1], p[2]) : p \in real} = {bs * k : k \in 0 .. s.data_blocks - 1}
        /\ \A p \in places : \A n \in 1 .. s.ag_blocks - p[2] :
              LET f == agb_to_fsb(s, p[1], p[2])
              IN  read_blocks(s, f, n) = <<fsb_to_byte(s, f), fsb_to_byte(s, f + n - 1) + bs>>

InodesNumbered(s) ==
    LET numbers == 0 .. (s.ag_count + 1) * 2 ^ agino_log(s)
        good == {i \in numbers : ino_to_byte(s, i) # Outside}
        slots == (0 .. s.ag_count - 1) \X (0 .. s.ag_blocks - 1) \X (0 .. s.inodes_per_block - 1)
        agino(p) == p[2] * s.inodes_per_block + p[3]
    IN  /\ good = {agino_to_ino(s, p[1], agino(p)) : p \in slots} \ {0}
        /\ \A p \in slots :
              LET i == agino_to_ino(s, p[1], agino(p))
              IN  /\ ino_to_agino(s, i) = <<p[1], agino(p)>>
                  /\ i # 0 => ino_to_byte(s, i) = agb_to_byte(s, p[1], p[2]) + p[3] * 2 ^ s.inode_bits

(* Times, extents and device numbers come back from their packed forms if  *)
(* they can be held, and a time that cannot as the nearest that can.       *)
PackedNumbers(n) ==
    LET half == 2 ^ (n.w - 1)
    IN  /\ \A secs \in -(2 * half) .. (2 * half), nsecs \in 0 .. n.giga - 1, big \in BOOLEAN :
              ts(ts_raw([secs |-> secs, nsecs |-> nsecs], big, n.w, n.giga), big, n.w, n.giga)
                = [secs |-> Clamp(secs, -half, IF big THEN secs ELSE half - 1), nsecs |-> nsecs]
        /\ \A e \in [unwritten : BOOLEAN, offset : 0 .. 2 ^ n.ext.offset - 1,
                     block : 0 .. 2 ^ (n.ext.high + n.ext.low) - 1, count : 0 .. 2 ^ n.ext.count - 1] :
              decode(encode(e, n.ext), n.ext) = e
        /\ \A major \in 0..2, minor \in 0 .. 2 ^ n.minor - 1 :
              device(rdev(major, minor, n.minor), n.minor) = <<major, minor>>

(* The logarithms of a superblock are those of what they are named for. *)
LogsTrue(s) ==
    /\ s.block_log = s.block_bits
    /\ 2 ^ s.inopb_log = s.inodes_per_block
    /\ s.block_bits + s.dirblk_log <= 16

(* They are no larger than the words that are shifted by them. *)
LogsInWidth(s) ==
    s.block_log < 32 /\ s.inopb_log < 32 /\ s.agblk_log < 64 /\ s.block_bits + s.dirblk_log < 64

(* In an accepted superblock, whichever of its fields another program set  *)
(* wrong, block and inode numbers lead to the blocks and inodes they are   *)
(* numbers of and to nothing else; and packed numbers unpack.  (`parse`    *)
(* shifts by the logarithms before it has compared them with anything, so  *)
(* this says nothing of one that is not smaller than its word.)            *)
NumbersExact ==
    what.kind = "sb" =>
        /\ (walk # None /\ walk.state = "ok" /\ LogsInWidth(what.s)) =>
             LogsTrue(what.s) /\ BlocksNumbered(what.s) /\ InodesNumbered(what.s)
        /\ image = None => PackedNumbers(Narrow)
=============================================================================

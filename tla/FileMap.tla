------------------------------- MODULE FileMap -------------------------------
(***************************************************************************)
(* A file's contents through its extents: `write_mapped` (write.rs) and    *)
(* `read_mapped`, `read_inode_range` (volume.rs), `find` (bmap.rs); and a  *)
(* remote symbolic link's target, which has a header in each extent        *)
(* (`symlink`, write.rs; `symlink_target`, volume.rs).                     *)
(*                                                                         *)
(* An extent is [offset, block, count, unwritten].  A byte is a number,    *)
(* and the device gives each block its bytes; bs is the block's size.      *)
(***************************************************************************)
EXTENDS Integers, Sequences, FiniteSetsExt

Zero == 0

div_up(n, k) == (n + k - 1) \div k
Lesser(a, b) == IF a < b THEN a ELSE b
Greater(a, b) == IF a > b THEN a ELSE b
ExtentEnd(e) == e.offset + e.count

(* `write_mapped`: each mapped block up to the last one with data gets its *)
(* part of the data, zero-padded; blocks past it are not written.          *)
write_mapped(dev, extents, data, bs) ==
    [b \in DOMAIN dev |->
       LET es == {extents[i] : i \in {j \in DOMAIN extents :
                     extents[j].block <= b /\ b < extents[j].block + extents[j].count}}
           e == CHOOSE x \in es : TRUE
           lblk == e.offset + (b - e.block)
       IN  IF es = {} \/ lblk >= div_up(Len(data), bs) THEN dev[b]
           ELSE [k \in 1..bs |-> IF lblk * bs + k <= Len(data) THEN data[lblk * bs + k] ELSE Zero]]

(* `partition_point(|e| e.end() <= lblk)`: the first extent that ends      *)
(* after lblk.                                                             *)
FirstAfter(extents, lblk) ==
    Cardinality({i \in DOMAIN extents : ExtentEnd(extents[i]) <= lblk}) + 1

(* `find`: the extent that covers lblk, if any. *)
find(extents, lblk) ==
    LET i == FirstAfter(extents, lblk)
    IN  IF i \in DOMAIN extents /\ extents[i].offset <= lblk THEN <<extents[i]>> ELSE <<>>

(* Mutant: unwritten extents are read from the device. *)
read_mapped_unwritten(dev, extents, lblk, count, bs) ==
    LET byte(k) ==
            LET l == lblk + (k \div bs)
                hits == {i \in FirstAfter(extents, lblk)..Len(extents) :
                           /\ Greater(extents[i].offset, lblk) <= l
                           /\ l < Lesser(ExtentEnd(extents[i]), lblk + count)}
                e == extents[Max(hits)]
            IN  IF hits = {} THEN Zero ELSE dev[e.block + (l - e.offset)][(k % bs) + 1]
    IN  [k \in 1..(count * bs) |-> byte(k - 1)]

(* `read_mapped`: count blocks from lblk on, zeroes but for what written   *)
(* extents, clipped to the range, copy over them.                          *)
read_mapped(dev, extents, lblk, count, bs) ==
    LET byte(k) ==
            LET l == lblk + (k \div bs)
                hits == {i \in FirstAfter(extents, lblk)..Len(extents) :
                           /\ ~extents[i].unwritten
                           /\ Greater(extents[i].offset, lblk) <= l
                           /\ l < Lesser(ExtentEnd(extents[i]), lblk + count)}
                e == extents[Max(hits)]
            IN  IF hits = {} THEN Zero ELSE dev[e.block + (l - e.offset)][(k % bs) + 1]
    IN  [k \in 1..(count * bs) |-> byte(k - 1)]

(* `read_inode_range`: len bytes from offset, clipped to the file's size. *)
read_inode_range(dev, extents, size, offset, len, bs) ==
    LET n == Lesser(len, size - offset)
        first == offset \div bs
        last == (offset + n - 1) \div bs
        buf == read_mapped(dev, extents, first, last - first + 1, bs)
        skip == offset - first * bs
    IN  IF offset >= size \/ len = 0 THEN <<>>
        ELSE SubSeq(buf, skip + 1, skip + n)

----------------------------------------------------------------------------
(* Remote symbolic links: a block of payload bytes after a header, which   *)
(* says where in the target they belong and how many they are.             *)

SymlinkBlocks(target, payload) ==
    [i \in 1..div_up(Len(target), payload) |->
       LET off == (i - 1) * payload
       IN  [offset |-> off, bytes |-> SubSeq(target, off + 1, Lesser(off + payload, Len(target)))]]

(* `symlink`: in the inode if it fits. *)
symlink(target, fork, payload) ==
    IF Len(target) <= fork THEN [local |-> TRUE, size |-> Len(target), blocks |-> <<[offset |-> 0, bytes |-> target]>>]
    ELSE [local |-> FALSE, size |-> Len(target), blocks |-> SymlinkBlocks(target, payload)]

Corrupt == <<-1>>

(* `symlink_target`: extent after extent until there are size bytes, each  *)
(* of which must go on where the last ended.                               *)
symlink_target(link) ==
    LET out[i \in 0..Len(link.blocks)] ==
            IF i = 0 THEN <<>>
            ELSE IF out[i - 1] = Corrupt \/ Len(out[i - 1]) >= link.size THEN out[i - 1]
            ELSE IF link.blocks[i].offset # Len(out[i - 1]) THEN Corrupt
            ELSE out[i - 1] \o link.blocks[i].bytes
        all == out[Len(link.blocks)]
    IN  IF link.local THEN link.blocks[1].bytes
        ELSE IF Len(all) # link.size THEN Corrupt
        ELSE all
=============================================================================

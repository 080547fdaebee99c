-------------------------------- MODULE MCAg ---------------------------------
(* Small allocation groups for TLC: one with room, as mkfs leaves it, one  *)
(* cut into short extents, one whose trees never settle, and one that is   *)
(* nearly full.                                                            *)
EXTENDS Ag

CONSTANTS root, i1

MCLeafMax == [bno |-> 3, cnt |-> 3, rmap |-> 8, inobt |-> 1, finobt |-> 1]
MCNodeMax == [t \in Trees |-> 3]

MCInodes == {root, i1}

(* Header 0, AGFL 1, trees 2..6, a chunk of one block of two inodes at 7,  *)
(* one inode in use; of the root, an extent of its attribute fork at 9 and *)
(* data at 10..13, too long for one extent but one reverse mapping.        *)
MCAttr == Rmap(9, 1, root, 0, "attr")
MCForks == {MCAttr, Rmap(10, 3, root, 0, "data"), Rmap(13, 1, root, 3, "data")}
MCChunks == [s \in {14} |-> [holes |-> {}, free |-> {1}]]
MCSystem ==
    {Rmap(0, 1, FS, 0, "bmbt"), Rmap(1, 3, AG, 0, "bmbt"), Rmap(4, 2, INOBT, 0, "bmbt"),
     Rmap(6, 1, AG, 0, "bmbt"), Rmap(7, 1, INODES, 0, "bmbt")}
MCFree == [s \in {8, 14} |-> IF s = 14 THEN AgLen - 14 ELSE 1]
MCTrees == [bno |-> {2}, cnt |-> {3}, rmap |-> {6}, inobt |-> {4}, finobt |-> {5}]
MCDisk ==
    [free |-> MCFree, chunks |-> MCChunks,
     rmap |-> MCSystem \cup {MCAttr, Rmap(10, 4, root, 0, "data")},
     trees |-> MCTrees, freeblks |-> FreeCount(MCFree), longest |-> AgLen - 14,
     btreeblks |-> 0, icount |-> 2, ifree |-> 1]

(* The same trees in other places, and files that cut the room left into   *)
(* short extents: every size the trees are given changes how many extents  *)
(* are left, and with them the size.                                       *)
CutForks == {Rmap(8, 1, root, 0, "data"), Rmap(11, 1, root, 1, "data"), Rmap(14, 1, i1, 0, "data")}
CutFree == [s \in {4, 12} |-> IF s = 4 THEN 4 ELSE 2]
CutSystem ==
    {Rmap(0, 1, FS, 0, "bmbt"), Rmap(1, 3, AG, 0, "bmbt"), Rmap(9, 2, INOBT, 0, "bmbt"),
     Rmap(15, 1, AG, 0, "bmbt"), Rmap(16, 1, INODES, 0, "bmbt")}
CutDisk ==
    [free |-> CutFree, chunks |-> [s \in {32} |-> [holes |-> {}, free |-> {1}]],
     rmap |-> CutSystem \cup CutForks,
     trees |-> [bno |-> {2}, cnt |-> {3}, rmap |-> {15}, inobt |-> {9}, finobt |-> {10}],
     freeblks |-> 6, longest |-> 4, btreeblks |-> 0, icount |-> 2, ifree |-> 1]

MCImages == {[disk |-> MCDisk, forks |-> MCForks], [disk |-> CutDisk, forks |-> CutForks]}

-----------------------------------------------------------------------------
(* A group whose trees' size depends on itself: no reverse mappings, and,  *)
(* with the old trees freed, extents of 5, 4 and 4 blocks.  Three free     *)
(* records need six blocks, two need two, and carving six leaves two.      *)
SettleLeafMax == [t \in Trees |-> 2]
SettleForks == {Rmap(7, 1, root, 0, "data"), Rmap(12, 1, root, 1, "data")}
SettleFree == [s \in {5, 10, 15} |-> 2]
SettleDisk ==
    [free |-> SettleFree, chunks |-> [s \in {34} |-> [holes |-> {}, free |-> {1}]], rmap |-> {},
     trees |-> [bno |-> {2, 8, 13}, cnt |-> {3, 9, 14}, rmap |-> {}, inobt |-> {4}, finobt |-> {}],
     freeblks |-> 6, longest |-> 2, btreeblks |-> 4, icount |-> 2, ifree |-> 1]
SettleImages == {[disk |-> SettleDisk, forks |-> SettleForks]}

-----------------------------------------------------------------------------
(* A group with little room beside one large file.                         *)
FullLeafMax == [MCLeafMax EXCEPT !["rmap"] = 6]
FullForks == {Rmap(10, 7, root, 0, "data")}
FullFree == [s \in {8} |-> 2]
FullRmap == MCSystem \cup FullForks
FullDisk ==
    [free |-> FullFree, chunks |-> MCChunks, rmap |-> FullRmap, trees |-> MCTrees,
     freeblks |-> 2, longest |-> 2, btreeblks |-> 0, icount |-> 2, ifree |-> 1]
FullImages == {[disk |-> FullDisk, forks |-> FullForks]}
=============================================================================

------------------------------ MODULE MCWriter -------------------------------
(* A small volume for TLC: two groups, each with a chunk of two inodes; in *)
(* the root one file with a block of contents and one of attributes.       *)
EXTENDS Writer

CONSTANTS n1, n2, n3, c1, c2

MCAgBlocks == [g \in 0 .. 1 |-> IF g = 0 THEN 0 .. 5 ELSE 6 .. 8]
MCReserve == [g \in 0 .. 1 |-> 1]
MCSize == [x \in {c1, c2} |-> IF x = c1 THEN 1 ELSE 2]

MCRootDir == [parent |-> Root, names |-> [n \in {n1} |-> [ino |-> 1, kind |-> "file"]]]
MCInode ==
    [i \in {0, 1, 12, 13} |->
        IF i = Root THEN NewInode("dir", 2, {}, {}, MCRootDir)
        ELSE IF i = 1 THEN [NewInode("file", 1, {1}, {}, c1) EXCEPT !.attr = {2}]
        ELSE FreeInode]
MCVolume ==
    [inode |-> MCInode, held |-> [x \in 0 .. 8 |-> IF x = 1 THEN <<1, c1>> ELSE <<-1, c1>>],
     free |-> {3, 4, 5, 7, 8}, chunks |-> {0, 6}]
MCVolumes == {MCVolume}

(* The same, with a second name for the file, so that the root has a block *)
(* of its own, and the first group full.                                   *)
FullRootDir == [parent |-> Root, names |-> [n \in {n1, n2} |-> [ino |-> 1, kind |-> "file"]]]
FullVolume ==
    [inode |-> [MCInode EXCEPT ![Root] = NewInode("dir", 2, {3}, {}, FullRootDir),
                               ![1] = [@ EXCEPT !.nlink = 2, !.data = {1, 4}, !.attr = {2, 5}, !.body = c2]],
     held |-> [x \in 0 .. 8 |-> IF x \in {1, 4} THEN <<1, c2>>
                                ELSE IF x = 3 THEN <<Root, FullRootDir>> ELSE <<-1, c1>>],
     free |-> {7, 8}, chunks |-> {0, 6}]
FullVolumes == {FullVolume}
=============================================================================

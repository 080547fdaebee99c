------------------------------- MODULE Btrees --------------------------------
(***************************************************************************)
(* How many blocks an AG B+tree takes (btree.rs).  Blocks hold `leafMax`   *)
(* records in a leaf and `nodeMax` keys in a node.                         *)
(***************************************************************************)
EXTENDS Integers

div_ceil(n, k) == (n + k - 1) \div k

(* `level_sizes`: there is at least one leaf (an empty tree is a root leaf *)
(* with no records), each level has a block for every nodeMax blocks of    *)
(* the one below, rounded up, and the last level is a single root.         *)
Leaves(n, leafMax) == IF n = 0 THEN 1 ELSE div_ceil(n, leafMax)

(* `blocks_for`: the blocks of all levels, added up from the leaves. *)
blocks_for(n, leafMax, nodeMax) ==
    LET up[k \in Nat] == IF k <= 1 THEN k ELSE k + up[div_ceil(k, nodeMax)]
    IN  up[Leaves(n, leafMax)]
=============================================================================

--------------------------- MODULE MCPathResolve ----------------------------
(***************************************************************************)
(* A root with a directory d, two symbolic links and a file, the second    *)
(* link and the file in d.  The links' targets are every short path, so    *)
(* they lead to each other, to themselves, through files, to nothing and,  *)
(* as "." does, to where they stand.                                       *)
(***************************************************************************)
EXTENDS PathResolve

CONSTANTS r, d, f, l1, l2

MCInodes == {r, d, f, l1, l2}
MCNames == {Up, 1, 2}

MCTargets(n) == {[absolute |-> a, comps |-> p] : a \in BOOLEAN, p \in SeqOf(MCNames, n)}

MCTree(x, y) ==
    [kind   |-> (r :> "dir" @@ d :> "dir" @@ f :> "file" @@ l1 :> "symlink" @@ l2 :> "symlink"),
     names  |-> (r :> (Up :> r @@ 1 :> d @@ 2 :> l1) @@ d :> (Up :> r @@ 1 :> l2 @@ 2 :> f)),
     target |-> (l1 :> x @@ l2 :> y)]
MCTrees == {MCTree(x, y) : x \in MCTargets(2), y \in MCTargets(2)}

MCPaths == SeqOf(MCNames, 3)
=============================================================================

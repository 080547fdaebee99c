------------------------------ MODULE MCExport ------------------------------
(***************************************************************************)
(* Export on trees of two directories besides the root and of two other    *)
(* inodes, one of them a file and the other of any kind.  The names lead   *)
(* anywhere, so the trees include hard links within and across             *)
(* directories, directories named twice and directories below themselves.  *)
(***************************************************************************)
EXTENDS Export

CONSTANTS r, d, e, x, y

MCInodes == {r, d, e, x, y}

(* Functions from a subset of names to inodes. *)
Listings(names, inos) == UNION {[s -> inos] : s \in SUBSET names}

Named(names, dir) == {names[dir][n] : n \in DOMAIN names[dir]}

(* An unreachable directory is empty: it only repeats other trees. *)
MCTrees ==
    {t \in {[kind |-> (r :> "dir" @@ d :> "dir" @@ e :> "dir" @@ x :> k @@ y :> "file"),
             names |-> (r :> lr @@ d :> ld @@ e :> le),
             top |-> top] :
                k \in {"file", "symlink", "device", "socket"},
                lr \in Listings({1, 2}, {d, e, x, y}),
                ld \in Listings({1, 2}, {r, e, x}),
                le \in Listings({3}, {d, x}),
                top \in {r, d, x}} :
        /\ d \notin Named(t.names, r) => t.names[d] = <<>> /\ t.top # d
        /\ (e \notin Named(t.names, r) \union Named(t.names, d)) => t.names[e] = <<>>
        /\ t.top = x => x \in Named(t.names, r)}
=============================================================================

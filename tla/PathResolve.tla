---------------------------- MODULE PathResolve -----------------------------
(***************************************************************************)
(* Paths to inodes: `resolve` of src/src/volume.rs, which every call that  *)
(* takes a path goes through.                                              *)
(*                                                                         *)
(* The code keeps one queue of components: a symbolic link's target is put *)
(* in front of what is left of the path.  A loop of links ends by counting *)
(* them.  A path is a sequence of names, as `split` leaves it: none of "."  *)
(* or "/".  Up is "..", which a directory holds as an entry like any other.*)
(***************************************************************************)
EXTENDS Naturals, Sequences, FiniteSets, SequencesExt

CONSTANTS
    Inodes,
    Root,          \* the root directory's inode    (sb.root_ino)
    Names,         \* the names a path may hold
    Up,            \* the name ".."
    MaxSymlinks,   \* MAX_SYMLINKS, 40 in the code
    Trees,         \* [kind, names, target]; a target is [absolute, comps]
    Paths          \* paths asked for

ASSUME ResolveAssumption ==
    /\ MaxSymlinks \in Nat /\ Root \in Inodes /\ Paths \subseteq Seq(Names)
    /\ \A t \in Trees :
          /\ t.kind \in [Inodes -> {"dir", "file", "symlink"}]
          /\ t.kind[Root] = "dir"
          /\ DOMAIN t.names = {i \in Inodes : t.kind[i] = "dir"}
          /\ DOMAIN t.target = {i \in Inodes : t.kind[i] = "symlink"}
          /\ \A d \in DOMAIN t.names :
                Up \in DOMAIN t.names[d] /\ \A m \in DOMAIN t.names[d] : t.names[d][m] \in Inodes
          /\ \A i \in DOMAIN t.target : t.target[i].comps \in Seq(Names)

VARIABLES
    tree,     \* the tree, which does not change
    path,     \* the path asked for
    follow,   \* whether a final symbolic link is followed
    comps,    \* components left
    cur,      \* where the ones dealt with lead
    links,    \* symbolic links followed
    result    \* how the call ended, and where

vars == <<tree, path, follow, comps, cur, links, result>>

Running == [end |-> "none", at |-> Root]
Error(e) == [end |-> e, at |-> Root]
Ok(i) == [end |-> "ok", at |-> i]

(* Every call that takes a path: some follow a final link, some do not. *)
Init ==
    /\ tree \in Trees /\ path \in Paths /\ follow \in BOOLEAN
    /\ comps = path
    /\ cur = Root
    /\ links = 0
    /\ result = Running

-----------------------------------------------------------------------------
IsDir == tree.kind[cur] = "dir"
dir_lookup == IF Head(comps) \in DOMAIN tree.names[cur] THEN {tree.names[cur][Head(comps)]} ELSE {}
child == CHOOSE i \in dir_lookup : TRUE

More == result.end = "none" /\ comps # <<>>

(* The component is not there. *)
NoSuchName ==
    /\ More
    /\ \/ ~IsDir /\ result' = Error("NotADirectory")
       \/ IsDir /\ dir_lookup = {} /\ result' = Error("NotFound")
    /\ comps' = Tail(comps)
    /\ UNCHANGED <<tree, path, follow, cur, links>>

Here == More /\ IsDir /\ dir_lookup # {}
FinalAsItIs == Len(comps) = 1 /\ ~follow

(* The last component, which is not to be followed whatever it is. *)
FinalName ==
    /\ Here /\ FinalAsItIs
    /\ comps' = Tail(comps)
    /\ result' = Ok(child)
    /\ UNCHANGED <<tree, path, follow, cur, links>>

(* Mutants: a final link is not counted; what is left of the path goes     *)
(* before the target.                                                      *)
FollowLinkUncounted ==
    /\ Here /\ ~FinalAsItIs /\ tree.kind[child] = "symlink"
    /\ links' = IF Len(comps) = 1 THEN links ELSE links + 1
    /\ comps' = IF links' > MaxSymlinks THEN Tail(comps) ELSE tree.target[child].comps \o Tail(comps)
    /\ cur' = IF tree.target[child].absolute /\ links' <= MaxSymlinks THEN Root ELSE cur
    /\ result' = IF links' > MaxSymlinks THEN Error("SymlinkLoop") ELSE result
    /\ UNCHANGED <<tree, path, follow>>
FollowLinkLast ==
    /\ Here /\ ~FinalAsItIs /\ tree.kind[child] = "symlink"
    /\ links' = links + 1
    /\ \/ /\ links' > MaxSymlinks
          /\ comps' = Tail(comps)
          /\ result' = Error("SymlinkLoop")
          /\ UNCHANGED cur
       \/ /\ links' <= MaxSymlinks
          /\ comps' = Tail(comps) \o tree.target[child].comps
          /\ cur' = IF tree.target[child].absolute THEN Root ELSE cur
          /\ UNCHANGED result
    /\ UNCHANGED <<tree, path, follow>>

(* A symbolic link: its target, then the rest. *)
FollowLink ==
    /\ Here /\ ~FinalAsItIs /\ tree.kind[child] = "symlink"
    /\ links' = links + 1
    /\ \/ /\ links' > MaxSymlinks
          /\ comps' = Tail(comps)
          /\ result' = Error("SymlinkLoop")
          /\ UNCHANGED cur
       \/ /\ links' <= MaxSymlinks
          /\ comps' = tree.target[child].comps \o Tail(comps)
          /\ cur' = IF tree.target[child].absolute THEN Root ELSE cur
          /\ UNCHANGED result
    /\ UNCHANGED <<tree, path, follow>>

(* Anything else is where the next component is looked up. *)
Descend ==
    /\ Here /\ ~FinalAsItIs /\ tree.kind[child] # "symlink"
    /\ comps' = Tail(comps)
    /\ cur' = child
    /\ UNCHANGED <<tree, path, follow, links, result>>

AllDone ==
    /\ result.end = "none" /\ comps = <<>>
    /\ result' = Ok(cur)
    /\ UNCHANGED <<tree, path, follow, comps, cur, links>>

resolve == NoSuchName \/ FinalName \/ FollowLink \/ Descend \/ AllDone

(* The call runs to its end. *)
Spec == Init /\ [][resolve]_vars /\ WF_vars(resolve)

-----------------------------------------------------------------------------
(* The meaning of a path, by recursion on its structure: a component is    *)
(* looked up, a link is resolved from where it stands before the rest of   *)
(* the path is.  n links may still be followed.                            *)

Nowhere(e) == [end |-> e, at |-> Root, n |-> 0]

Question == [at : Inodes, path : Seq(Names), last : BOOLEAN, n : Nat]
Asked(d, p, last, n) == [at |-> d, path |-> p, last |-> last, n |-> n]

Meaning[x \in Question] ==
    IF x.path = <<>> THEN [end |-> "ok", at |-> x.at, n |-> x.n]
    ELSE IF tree.kind[x.at] # "dir" THEN Nowhere("NotADirectory")
    ELSE IF Head(x.path) \notin DOMAIN tree.names[x.at] THEN Nowhere("NotFound")
    ELSE LET i == tree.names[x.at][Head(x.path)]
             aside == tree.kind[i] = "symlink" /\ (x.last \/ Len(x.path) > 1)
             t == tree.target[i]
             via == IF ~aside THEN [end |-> "ok", at |-> i, n |-> x.n]
                    ELSE IF x.n = 0 THEN Nowhere("SymlinkLoop")
                    ELSE Meaning[Asked(IF t.absolute THEN Root ELSE x.at, t.comps, TRUE, x.n - 1)]
         IN  IF via.end # "ok" THEN via ELSE Meaning[Asked(via.at, Tail(x.path), x.last, via.n)]

(* `resolve` finds what the path means: the one queue of components, with  *)
(* targets put in front, comes to the same inode or the same error as      *)
(* resolving every link in place, and only links really on the way count.  *)
ResolvesMeaning ==
    result.end # "none" =>
        LET m == Meaning[Asked(Root, path, follow, MaxSymlinks)]
        IN  result = [end |-> m.end, at |-> m.at]

(* A lookup ends, links that lead back to themselves included. *)
LookupEnds == <>(result.end # "none")
=============================================================================

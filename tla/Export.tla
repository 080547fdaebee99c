------------------------------- MODULE Export -------------------------------
(***************************************************************************)
(* Getting a tree out: the walk of src/src/volume.rs (walk_each), and the  *)
(* two exports of src/src/export.rs that go over what it collected, into a *)
(* tar stream (pack_into) or onto the local filesystem (extract).          *)
(*                                                                         *)
(* A tree is what the reader sees of a volume: the kind of every inode and *)
(* the names in every directory.  It may be damaged: a directory may be    *)
(* named twice, or be its own descendant.  A path is a sequence of names,  *)
(* and names are numbers, in the order they sort.  Contents, attributes    *)
(* and times are left out; a directory's final mode is kept, since a mode  *)
(* set too soon shuts its children out.                                    *)
(***************************************************************************)
EXTENDS Naturals, Sequences, FiniteSets, SequencesExt

CONSTANTS
    Inodes,  \* inode numbers
    Trees    \* [kind, names, top]: kinds, names of each directory, the root asked for

Kinds == {"dir", "file", "symlink", "device", "socket"}

ASSUME ExportAssumption ==
    /\ IsFiniteSet(Inodes)
    /\ \A t \in Trees :
          /\ t.kind \in [Inodes -> Kinds]
          /\ DOMAIN t.names = {i \in Inodes : t.kind[i] = "dir"}
          /\ \A d \in DOMAIN t.names :
                /\ DOMAIN t.names[d] \subseteq Nat /\ IsFiniteSet(DOMAIN t.names[d])
                /\ \A n \in DOMAIN t.names[d] : t.names[d][n] \in Inodes
          /\ t.top \in Inodes

VARIABLES
    tree,    \* the tree exported
    job,     \* "pack" or "extract"
    pc,      \* "walk", "copy", "modes", "done" or "failed"
    stack,   \* walk_each: the directories open, with the names left in each
    visited, \* walk_each: the directories met
    walked,  \* what walk collected
    pos,     \* entries of walked dealt with
    seen,    \* the first path of each inode of several names
    out,     \* what was written, in order: [path, ino] or [path, link]
    dirs,    \* extract: directories whose mode is still to be set
    locked   \* extract: directories whose mode has been set

vars == <<tree, job, pc, stack, visited, walked, pos, seen, out, dirs, locked>>

IsDir(i) == tree.kind[i] = "dir"

(* Stat::links of a sound tree: the names the inode has. *)
links(i) ==
    Cardinality({dn \in UNION {{<<d, n>> : n \in DOMAIN tree.names[d]} : d \in DOMAIN tree.names} :
                    tree.names[dn[1]][dn[2]] = i})

Level(prefix, d) == [prefix |-> prefix, dir |-> d, rest |-> DOMAIN tree.names[d]]

(* walk_each up to its loop: the root asked for must be a directory. *)
Init ==
    /\ tree \in Trees
    /\ job \in {"pack", "extract"}
    /\ pc = IF IsDir(tree.top) THEN "walk" ELSE "failed"
    /\ stack = IF IsDir(tree.top) THEN <<Level(<<>>, tree.top)>> ELSE <<>>
    /\ visited = {tree.top}
    /\ walked = <<>>
    /\ pos = 0
    /\ seen = <<>>
    /\ out = <<>>
    /\ dirs = <<>>
    /\ locked = {}

----------------------------------------------------------------------------
(* The walk.                                                               *)

CopyVars == <<tree, job, pos, seen, out, dirs, locked>>

(* Mutant: a directory met before is entered again. *)
WalkNameAgain ==
    /\ pc = "walk" /\ stack # <<>> /\ Last(stack).rest # {}
    /\ LET level == Last(stack)
           n == Min(level.rest)
           ino == tree.names[level.dir][n]
           path == Append(level.prefix, n)
           popped == [stack EXCEPT ![Len(stack)].rest = @ \ {n}]
       IN  /\ walked' = Append(walked, [path |-> path, ino |-> ino])
           /\ stack' = IF IsDir(ino) THEN Append(popped, Level(path, ino)) ELSE popped
    /\ UNCHANGED <<CopyVars, pc, visited>>

WalkName ==
    /\ pc = "walk" /\ stack # <<>> /\ Last(stack).rest # {}
    /\ LET level == Last(stack)
           n == Min(level.rest)
           ino == tree.names[level.dir][n]
           path == Append(level.prefix, n)
           popped == [stack EXCEPT ![Len(stack)].rest = @ \ {n}]
       IN  /\ walked' = Append(walked, [path |-> path, ino |-> ino])
           /\ \/ /\ ~IsDir(ino)
                 /\ stack' = popped
                 /\ UNCHANGED <<pc, visited>>
              \/ /\ IsDir(ino) /\ ino \in visited
                 /\ pc' = "failed"
                 /\ UNCHANGED <<stack, visited>>
              \/ /\ IsDir(ino) /\ ino \notin visited
                 /\ visited' = visited \union {ino}
                 /\ stack' = Append(popped, Level(path, ino))
                 /\ UNCHANGED pc
    /\ UNCHANGED CopyVars

(* Mutant: the level just finished is not taken off the stack. *)
WalkUpForever ==
    /\ pc = "walk" /\ stack # <<>> /\ Last(stack).rest = {}
    /\ UNCHANGED vars

WalkUp ==
    /\ pc = "walk" /\ stack # <<>> /\ Last(stack).rest = {}
    /\ stack' = Front(stack)
    /\ UNCHANGED <<CopyVars, pc, visited, walked>>

WalkDone ==
    /\ pc = "walk" /\ stack = <<>>
    /\ pc' = "copy"
    /\ UNCHANGED <<CopyVars, stack, visited, walked>>

----------------------------------------------------------------------------
(* The copy: one entry of walked a step.                                   *)

Entry == walked[pos + 1]

(* An inode of several names, which is written once and linked after. *)
Shared == ~IsDir(Entry.ino) /\ links(Entry.ino) > 1
Again == Shared /\ Entry.ino \in DOMAIN seen

Remember ==
    seen' = IF Shared
            THEN [i \in DOMAIN seen \union {Entry.ino} |-> IF i \in DOMAIN seen THEN seen[i] ELSE Entry.path]
            ELSE seen

(* The inode written under its path; its names come after it. *)
Write == out' = Append(out, [path |-> Entry.path, ino |-> Entry.ino, link |-> <<>>])
Link == out' = Append(out, [path |-> Entry.path, ino |-> Entry.ino, link |-> seen[Entry.ino]])

Written(path) == \E k \in 1..Len(out) : out[k].path = path

(* Mutant: the first path of an inode is not kept. *)
PackForgets ==
    /\ pc = "copy" /\ job = "pack" /\ pos < Len(walked)
    /\ pos' = pos + 1
    /\ \/ tree.kind[Entry.ino] = "socket" /\ UNCHANGED out
       \/ tree.kind[Entry.ino] # "socket" /\ Write
    /\ UNCHANGED <<tree, job, pc, stack, visited, walked, seen, dirs, locked>>

(* pack_into's loop. *)
Pack ==
    /\ pc = "copy" /\ job = "pack" /\ pos < Len(walked)
    /\ pos' = pos + 1
    /\ \/ /\ Again
          /\ Link
          /\ UNCHANGED seen
       \/ /\ ~Again /\ tree.kind[Entry.ino] = "socket"
          /\ Remember
          /\ UNCHANGED out
       \/ /\ ~Again /\ tree.kind[Entry.ino] # "socket"
          /\ Remember
          /\ Write
    /\ UNCHANGED <<tree, job, pc, stack, visited, walked, dirs, locked>>

(* What extract makes of an entry that is not a further name. *)
Make ==
    /\ Remember
    /\ Write
    /\ dirs' = IF IsDir(Entry.ino) THEN Append(dirs, Entry.path) ELSE dirs

Special(i) == tree.kind[i] \in {"device", "socket"}

(* extract's loop: hard_link fails when the first name was not made. *)
Extract ==
    /\ pc = "copy" /\ job = "extract" /\ pos < Len(walked)
    /\ \/ /\ Again /\ Written(seen[Entry.ino])
          /\ Link
          /\ pos' = pos + 1
          /\ UNCHANGED <<pc, seen, dirs>>
       \/ /\ Again /\ ~Written(seen[Entry.ino])
          /\ pc' = "failed"
          /\ UNCHANGED <<pos, seen, out, dirs>>
       \/ /\ ~Again /\ Special(Entry.ino)
          /\ Remember
          /\ pos' = pos + 1
          /\ UNCHANGED <<pc, out, dirs>>
       \/ /\ ~Again /\ ~Special(Entry.ino)
          /\ Make
          /\ pos' = pos + 1
          /\ UNCHANGED pc
    /\ UNCHANGED <<tree, job, stack, visited, walked, locked>>

CopyDone ==
    /\ pc = "copy" /\ pos = Len(walked)
    /\ pc' = IF job = "pack" THEN "done" ELSE "modes"
    /\ UNCHANGED <<tree, job, stack, visited, walked, pos, seen, out, dirs, locked>>

(* Mutant: the modes are set from the top down. *)
SetModesDown ==
    /\ pc = "modes" /\ dirs # <<>>
    /\ locked' = locked \union {Head(dirs)}
    /\ dirs' = Tail(dirs)
    /\ UNCHANGED <<tree, job, pc, stack, visited, walked, pos, seen, out>>

(* extract's last loop: the directories made, newest first. *)
SetModes ==
    /\ pc = "modes" /\ dirs # <<>>
    /\ locked' = locked \union {Last(dirs)}
    /\ dirs' = Front(dirs)
    /\ UNCHANGED <<tree, job, pc, stack, visited, walked, pos, seen, out>>

ModesDone ==
    /\ pc = "modes" /\ dirs = <<>>
    /\ pc' = "done"
    /\ UNCHANGED <<tree, job, stack, visited, walked, pos, seen, out, dirs, locked>>

Next == WalkName \/ WalkUp \/ WalkDone \/ Pack \/ Extract \/ CopyDone \/ SetModes \/ ModesDone

(* One task runs the export to its end. *)
Spec == Init /\ [][Next]_vars /\ WF_vars(Next)

----------------------------------------------------------------------------
(* Properties.                                                             *)

(* The inode a path leads to, as a set: empty where it leads nowhere.      *)
Lead[path \in Seq(Nat)] ==
    IF path = <<>> THEN {tree.top}
    ELSE LET up == Lead[Front(path)]
         IN  {tree.names[d][Last(path)] :
                d \in {d \in up : IsDir(d) /\ Last(path) \in DOMAIN tree.names[d]}}

(* The paths of a tree whose directories have one path each are no longer  *)
(* than it has directories.                                                *)
Paths ==
    LET names == UNION {DOMAIN tree.names[d] : d \in DOMAIN tree.names}
    IN  {p \in UNION {[1..k -> names] : k \in 1..Cardinality(DOMAIN tree.names)} : Lead[p] # {}}

(* Some directory is reached by two paths (or is below itself). *)
Tangled ==
    \E p, q \in Paths \union {<<>>} : p # q /\ Lead[p] = Lead[q] /\ \A i \in Lead[p] : IsDir(i)

Before(p, q) ==
    \/ IsStrictPrefix(p, q)
    \/ \E k \in 1..Len(p) : /\ k <= Len(q) /\ p[k] < q[k]
                            /\ \A j \in 1..(k - 1) : p[j] = q[j]

(* The walk gives every path below the root once, in sorted order, each    *)
(* directory before what is in it, and goes on to the copy only if no      *)
(* directory was reached twice (walk_each's visited set).  Packing fails   *)
(* for no other reason.                                                    *)
WalkExact ==
    /\ pc \notin {"walk", "failed"} =>
          /\ ~Tangled
          /\ {walked[k].path : k \in 1..Len(walked)} = Paths
          /\ \A j, k \in 1..Len(walked) : j < k => Before(walked[j].path, walked[k].path)
    /\ (pc = "failed" /\ job = "pack" /\ IsDir(tree.top)) => Tangled

(* A finished export holds every path whose inode it does not leave out,   *)
(* and nothing else: what is written is a path of the tree with the inode  *)
(* it leads to, in the order of the walk and so once, a directory before   *)
(* what is in it.  An inode's contents are written once, under its first   *)
(* path, and each of its other paths is a later link to that (the `seen`   *)
(* map).  Of what is left out there are at most links, and in an archive   *)
(* only: LinksHaveTargets is about those.                                  *)
Contents(i, p) == [path |-> p, ino |-> i, link |-> <<>>]
CopyFaithful ==
    LET left_out(i) == IF job = "pack" THEN tree.kind[i] = "socket" ELSE Special(i)
    IN  pc = "done" =>
        /\ \A p \in Paths : Written(p) \/ \A i \in Lead[p] : left_out(i)
        /\ \A k \in 1..Len(out) :
              /\ out[k].path \in Paths /\ Lead[out[k].path] = {out[k].ino}
              /\ \A j \in 1..(k - 1) : /\ Before(out[j].path, out[k].path)
                                       /\ out[j].ino = out[k].ino => out[k].link # <<>>
              /\ IF left_out(out[k].ino) THEN job = "pack" /\ out[k].link # <<>>
                 ELSE out[k].link = <<>> \/ \E j \in 1..(k - 1) : out[j] = Contents(out[k].ino, out[k].link)

(* A directory's final mode, which may bar entry, is set only when nothing *)
(* under it is still to be made or to have its own mode set (extract's     *)
(* dirs, taken from the back).                                             *)
LockedFromInside ==
    \A p \in locked :
        /\ pos = Len(walked)
        /\ \A k \in 1..Len(dirs) : ~IsStrictPrefix(p, dirs[k])

(* Every export ends, whatever the tree, a directory below itself included. *)
Ends == <>(pc \in {"done", "failed"})

(* export.rs says of sockets that they "are left out" of an archive, and   *)
(* of device nodes, FIFOs and sockets that extract counts them in its      *)
(* report: where either makes a hard link, what it links to is there.      *)
LinksHaveTargets ==
    (pc = "copy" /\ pos < Len(walked) /\ Again) => Written(seen[Entry.ino])
=============================================================================

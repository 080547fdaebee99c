------------------------------- MODULE Writer --------------------------------
(***************************************************************************)
(* The write side of a volume: `Writer` and the calls of write.rs.         *)
(*                                                                         *)
(* Inodes and file contents go to the device at once; changed directories  *)
(* are held in memory (`dirs`), and so are the groups' free blocks and     *)
(* free inodes, until `flush` lays all of it out.  A call takes &mut self, *)
(* so it is one action, and a call that meets a device error is another,   *)
(* with what it leaves behind; `flush` is a step per directory, per group  *)
(* rebuilt and per group written, for what it does when one of them fails. *)
(* A device write that fails leaves what was there, unless said otherwise. *)
(*                                                                         *)
(* A group is the pool of blocks that module Ag implements: which blocks   *)
(* it grants is its own affair, and its trees are not seen.  An inode      *)
(* chunk takes one block; inode numbers are chunk * ChunkInodes + place.   *)
(***************************************************************************)
EXTENDS Integers, FiniteSetsExt

CONSTANTS
    NAgs,           \* allocation groups, numbered from 0
    AgBlocks,       \* their blocks
    Reserve,        \* blocks of a group that ordinary calls leave alone
    ChunkInodes,
    MaxInodes,      \* what imax_pct allows
    Root,           \* the root directory
    Names, Contents,
    Size,           \* blocks a file's contents take
    DirShort,       \* names a directory holds in its inode ...
    DirBlock,       \* ... and in one block; more take two runs of blocks
    BmbtSizes,      \* bound: blocks of a fork's own B+tree
    LinkSizes,      \* bound: blocks of a symbolic link's target
    Volumes,        \* volumes a session may start from
    MaxCalls,       \* bound: calls
    Perms,          \* bound: modes and owners
    MaxFaults       \* bound: rebuilds and device reads and writes that fail

Ags == 0 .. (NAgs - 1)
Blocks == UNION {AgBlocks[a] : a \in Ags}
InodesOf(chunk) == {chunk * ChunkInodes + k : k \in 0 .. (ChunkInodes - 1)}
Kinds == {"free", "garbage", "file", "dir", "link", "special"}

ASSUME WriterAssumption ==
    /\ NAgs \in Nat \ {0} /\ AgBlocks \in [Ags -> SUBSET Nat]
    /\ \A a, x \in Ags : a # x => AgBlocks[a] \cap AgBlocks[x] = {}
    /\ \A a \in Ags : IsFiniteSet(AgBlocks[a])
    /\ Reserve \in [Ags -> Nat] /\ ChunkInodes \in Nat \ {0} /\ MaxInodes \in Nat
    /\ Size \in [Contents -> Nat] /\ BmbtSizes \subseteq Nat /\ LinkSizes \subseteq {0, 1, 2}
    /\ DirShort \in Nat /\ DirBlock \in Nat /\ MaxCalls \in Nat /\ MaxFaults \in Nat
    /\ Perms # {}

-----------------------------------------------------------------------------
(* What is on a device: inodes, with the directories' names in their       *)
(* bodies, and who has each block.                                         *)

Forks(r) == r.data \cup r.bmbt \cup r.attr
UsedIn(ino) == {i \in DOMAIN ino : ino[i].kind \notin {"free", "garbage"}}
DirsIn(ino) == {i \in DOMAIN ino : ino[i].kind = "dir"}
ForksIn(ino) == UNION {Forks(ino[i]) : i \in UsedIn(ino)}

ListOK(s, inos) ==
    /\ s = [parent |-> s.parent, names |-> s.names] /\ s.parent \in inos
    /\ DOMAIN s.names \subseteq Names /\ IsFiniteSet(DOMAIN s.names)
    /\ \A n \in DOMAIN s.names : s.names[n].ino \in inos /\ s.names[n].kind \in Kinds
InodeOK(r, inos) ==
    /\ r = [kind |-> r.kind, nlink |-> r.nlink, data |-> r.data, bmbt |-> r.bmbt,
            attr |-> r.attr, body |-> r.body, perms |-> r.perms]
    /\ r.kind \in Kinds /\ r.nlink \in Nat /\ Forks(r) \subseteq Blocks
    /\ r.kind = "dir" => ListOK(r.body, inos)

(* A block has one owner: it is free, or holds inodes, or is in one fork   *)
(* of one inode.                                                           *)
OneOwner(ino, cs, fr) ==
    /\ fr \cap cs = {} /\ (fr \cup cs) \cap ForksIn(ino) = {}
    /\ \A i, j \in UsedIn(ino) : i # j => Forks(ino[i]) \cap Forks(ino[j]) = {}
    /\ \A i \in UsedIn(ino) : /\ ino[i].data \cap ino[i].bmbt = {}
                              /\ (ino[i].data \cup ino[i].bmbt) \cap ino[i].attr = {}

NamesOn(ino) == UNION {{<<d, n>> : n \in DOMAIN ino[d].body.names} : d \in DirsIn(ino)}
At(ino, e) == ino[e[1]].body.names[e[2]]
NamesOf(ino, i) == {e \in NamesOn(ino) : At(ino, e).ino = i}
SubDirNames(s) == {n \in DOMAIN s.names : s.names[n].kind = "dir"}
LinksOf(ino, i) ==
    IF ino[i].kind = "dir" THEN 2 + Cardinality(SubDirNames(ino[i].body))
    ELSE Cardinality(NamesOf(ino, i))

(* A session starts from a volume that the kernel keeps: every block has   *)
(* its owner and what it was written with, every inode in use its names,   *)
(* counted, and no directory is below itself.                              *)
KernelKeeps(v) ==
    LET used == UsedIn(v.inode)
        ds   == DirsIn(v.inode) IN
    /\ v.free \subseteq Blocks /\ v.chunks \subseteq Blocks /\ DOMAIN v.held = Blocks
    /\ DOMAIN v.inode = UNION {InodesOf(b) : b \in v.chunks}
    /\ \A i \in DOMAIN v.inode : InodeOK(v.inode[i], DOMAIN v.inode) /\ v.inode[i].kind # "garbage"
    /\ OneOwner(v.inode, v.chunks, v.free) /\ v.free \cup v.chunks \cup ForksIn(v.inode) = Blocks
    /\ \A i \in used : \A b \in v.inode[i].data : v.held[b] = <<i, v.inode[i].body>>
    /\ Root \in ds
    /\ \A e \in NamesOn(v.inode) :
          LET t == At(v.inode, e) IN
          /\ t.ino \in used \ {Root} /\ v.inode[t.ino].kind = t.kind
          /\ t.kind = "dir" => v.inode[t.ino].body.parent = e[1]
    /\ \A i \in used : v.inode[i].nlink = LinksOf(v.inode, i)
    /\ \A i \in used \ {Root} : NamesOf(v.inode, i) # {}
    /\ \A i \in ds : Cardinality(NamesOf(v.inode, i)) <= 1
    /\ \A S \in SUBSET (ds \ {Root}) : S # {} => \E d \in S : v.inode[d].body.parent \notin S

ASSUME VolumesAssumption == \A v \in Volumes : KernelKeeps(v)

-----------------------------------------------------------------------------
VARIABLES
    inode,      \* the inodes on the device, of every chunk
    held,       \* block -> what was last written to it
    free,       \* the groups in memory: free blocks,
    chunks,     \* ... blocks with inodes,
    ifree,      \* ... free inodes,
    dirty,      \* ... and which groups have changed
    dirs,       \* directories held in memory: inode -> [parent, names]
    icount,     \* sb.icount, as the last flush set it
    new_chunks, \* chunks made since the last flush
    hdr,        \* each group as it was last rebuilt, or loaded
    dag,        \* each group on the device
    sbc,        \* the superblock's counters on the device
    fl,         \* `flush`: its locals
    calls,      \* calls made so far
    faults,     \* faults met so far
    last,       \* history: how the last call ended, if it was a flush
    failed      \* history: what errors have cost: "no"thing, what is lost
                \* but harms no one ("leak"), or more ("yes")

agVars == <<free, chunks, ifree, dirty>>
memVars == <<dirs, icount, new_chunks>>
diskVars == <<hdr, dag, sbc>>
vars == <<inode, held, agVars, memVars, diskVars, fl, calls, faults, last, failed>>

-----------------------------------------------------------------------------
(* Places.                                                                 *)

AgOf(b) == CHOOSE a \in Ags : b \in AgBlocks[a]
AgOfIno(i) == AgOf(i \div ChunkInodes)
AgsOf(bs) == {AgOf(b) : b \in bs}

(* `ag_order`: the groups tried before group a, starting at `pref`. *)
Earlier(pref, a) == {x \in Ags : (x - pref) % NAgs < (a - pref) % NAgs}
FirstOf(pref, S) == CHOOSE a \in S : \A x \in S : (a - pref) % NAgs <= (x - pref) % NAgs

(* One group's part of the state, as its trees and headers hold it. *)
Snapshot(a) ==
    [free |-> free \cap AgBlocks[a], chunks |-> chunks \cap AgBlocks[a],
     ifree |-> {i \in ifree : AgOfIno(i) = a}]

NewInode(kind, nlink, data, bmbt, body) ==
    [kind |-> kind, nlink |-> nlink, data |-> data, bmbt |-> bmbt, attr |-> {}, body |-> body,
     perms |-> CHOOSE p \in Perms : TRUE]
FreeInode == NewInode("free", 0, {}, {}, "none")

(* What the blocks of a fork hold once written. *)
Written(bs, i, body) == [b \in Blocks |-> IF b \in bs THEN <<i, body>> ELSE held[b]]

-----------------------------------------------------------------------------
(* Blocks.                                                                 *)

Spare(fr, a) ==
    LET n == Cardinality(fr \cap AgBlocks[a]) IN IF n > Reserve[a] THEN n - Reserve[a] ELSE 0
Some(S, n) == CHOOSE T \in SUBSET S : Cardinality(T) = n
Before(fr, pref, a) == Cardinality(UNION {{x} \X (1 .. Spare(fr, x)) : x \in Earlier(pref, a)})

(* `alloc_blocks`: from `pref` what it can spare, the rest from the groups *)
(* after it; all or nothing.                                               *)
alloc_blocks(fr, pref, n) ==
    LET part(a)   == Max({0, Min({Spare(fr, a), n - Before(fr, pref, a)})})
        got       == IF n = 0 THEN {} ELSE UNION {Some(fr \cap AgBlocks[a], part(a)) : a \in Ags}
        ok        == Cardinality(got) = n
    IN  [ok |-> ok, blocks |-> got, free |-> IF ok THEN fr \ got ELSE fr]

(* The groups it looks at; and what it has taken, and nobody has, when one *)
(* of them cannot be read (`load_ag`).  `read` are the groups known to be  *)
(* in memory: those with changes, and those this call has looked at.  Any  *)
(* other may have to be read, as in a session that has just begun.         *)
Visited(fr, pref, n) == {a \in Ags : Before(fr, pref, a) < n}
Stranded(fr, read, pref, n) ==
    {UNION {Some(fr \cap AgBlocks[x], Spare(fr, x)) : x \in Earlier(pref, a)} :
        a \in Visited(fr, pref, n) \ read}

(* What `free_fork` has given back, of a fork's blocks and then of its     *)
(* B+tree's, when it comes to a group that cannot be read.                 *)
PartFreed(mapped, tree, read) ==
    {S \in SUBSET (mapped \cup tree) :
        /\ S \cap tree # {} => mapped \subseteq S
        /\ \E a \in AgsOf(IF mapped \subseteq S THEN tree \ S ELSE mapped \ S) \ read : S \cap AgBlocks[a] = {}}

(* Mutant of store_data: the contents' blocks are not given back. *)
store_data_keeps(fr, i, n, nb) ==
    LET d == alloc_blocks(fr, AgOfIno(i), n)
        t == alloc_blocks(d.free, AgOfIno(i), nb)
    IN  [ok |-> d.ok /\ t.ok, data |-> d.blocks, bmbt |-> t.blocks,
         wrote |-> IF d.ok THEN d.blocks ELSE {}, free |-> t.free, touched |-> AgsOf(d.blocks \cup t.blocks)]

(* `store_data` with `map_fork`: the contents' blocks, then those of the   *)
(* fork's B+tree; without room for these the first are given back.         *)
store_data(fr, i, n, nb) ==
    LET d == alloc_blocks(fr, AgOfIno(i), n)
        t == alloc_blocks(d.free, AgOfIno(i), nb)
        ok == d.ok /\ t.ok
    IN  [ok |-> ok, data |-> d.blocks, bmbt |-> t.blocks,
         wrote |-> IF d.ok THEN d.blocks ELSE {},
         free |-> IF ok THEN t.free ELSE fr,
         touched |-> AgsOf(d.blocks \cup (IF d.ok THEN t.blocks ELSE {}))]

(* What may go wrong in it: a group that cannot be read while blocks are   *)
(* taken for the contents; the contents' write; or while blocks are taken  *)
(* for the B+tree; or the B+tree's write.  It gives back the contents'     *)
(* blocks, but not those it was just taking, and not the B+tree's.         *)
store_data_fails(fr, read, i, c, nb) ==
    LET pref == AgOfIno(i)
        n    == Size[c]
        d    == alloc_blocks(fr, pref, n)
        t    == alloc_blocks(d.free, pref, nb)
        torn == {[lost |-> {}, wrote |-> d.blocks, body |-> "torn"]}
        tree == Stranded(d.free, read \cup Visited(fr, pref, n), pref, nb)
                \cup {bs \in {t.blocks} : t.ok /\ nb > 0} IN
    {[lost |-> l, wrote |-> {}, body |-> c] : l \in Stranded(fr, read, pref, n)}
    \cup {f \in torn \cup {[lost |-> l, wrote |-> d.blocks, body |-> c] : l \in tree} : d.ok /\ n > 0}

(* The blocks of a symbolic link's target, one at a time, none just after  *)
(* the one before it (`not`).                                              *)
HasOne(fr, a, not) == Spare(fr, a) > 0 /\ (fr \cap AgBlocks[a]) \ {not} # {}
LinkBlock(fr, pref, not) ==
    LET able == {a \in Ags : HasOne(fr, a, not)}
    IN  IF able = {} THEN {}
        ELSE Some((fr \cap AgBlocks[FirstOf(pref, able)]) \ {not}, 1)
link_blocks(fr, pref, n) ==
    LET one == IF n > 0 THEN LinkBlock(fr, pref, -1) ELSE {}
        two == IF n > 1 /\ one # {} THEN LinkBlock(fr \ one, pref, (CHOOSE b \in one : TRUE) + 1) ELSE {}
        ok  == Cardinality(one \cup two) = n
    IN  [ok |-> ok, blocks |-> one \cup two, free |-> IF ok THEN fr \ (one \cup two) ELSE fr]

(* A group that cannot be read while the first of them, or the second, is  *)
(* looked for.                                                             *)
LinkUnread(fr, read, pref, not) == {a \in Ags \ read : \A x \in Earlier(pref, a) : ~ HasOne(fr, x, not)}
link_blocks_fails(fr, read, pref, n) ==
    LET one    == LinkBlock(fr, pref, -1)
        at     == CHOOSE b \in one : TRUE
        looked == Earlier(pref, AgOf(at)) \cup {AgOf(at)} IN
    {[lost |-> {}, wrote |-> {}, body |-> "none"] : a \in {x \in LinkUnread(fr, read, pref, -1) : n > 0}}
    \cup IF n < 2 \/ one = {} THEN {}
         ELSE {[lost |-> one, wrote |-> {}, body |-> "none"] :
                  a \in LinkUnread(fr \ one, read \cup looked, pref, at + 1)}

-----------------------------------------------------------------------------
(* Inodes.                                                                 *)

(* `alloc_ino`: the first group, in order, where the search ends: it has a *)
(* free inode, or the inodes may take no more space, or it has room for a  *)
(* chunk.  [ok, ino, chunk]                                                *)
TooMany == icount + (new_chunks + 1) * ChunkInodes > MaxInodes
FreeIn(a) == {i \in ifree : AgOfIno(i) = a}
alloc_ino(pref) ==
    LET ends  == {a \in Ags : FreeIn(a) # {} \/ TooMany \/ Spare(free, a) > 0}
        a     == FirstOf(pref, ends)
        chunk == Some(free \cap AgBlocks[a], 1)
    IN  IF ends = {} \/ (FreeIn(a) = {} /\ TooMany)
        THEN [ok |-> FALSE, ino |-> 0, chunk |-> {}]
        ELSE IF FreeIn(a) # {} THEN [ok |-> TRUE, ino |-> Min(FreeIn(a)), chunk |-> {}]
        ELSE [ok |-> TRUE, ino |-> Min(UNION {InodesOf(b) : b \in chunk}), chunk |-> chunk]

(* The inodes once a chunk has been written (`init_chunk`), if one was, or *)
(* when that failed.                                                       *)
WithInodes(chunk, new) ==
    [i \in DOMAIN inode \cup UNION {InodesOf(b) : b \in chunk} |->
        IF i \in DOMAIN inode THEN inode[i] ELSE new]
WithChunk(chunk) == WithInodes(chunk, FreeInode)

(* Mutant of IfreeWith: one inode more than the chunk has. *)
IfreeWithTooMany(chunk) == ifree \cup UNION {{b * ChunkInodes + k : k \in 0 .. ChunkInodes} : b \in chunk}
IfreeWith(chunk) == ifree \cup UNION {InodesOf(b) : b \in chunk}

-----------------------------------------------------------------------------
(* Directories.                                                            *)

(* What a reader sees: the list in memory, else what the device has.  (No  *)
(* reader runs during a flush; the lists it has still to write count.)     *)
DirOf(d) ==
    IF d \in DOMAIN dirs THEN dirs[d]
    ELSE IF d \in DOMAIN fl.todo THEN fl.todo[d] ELSE inode[d].body
View(d) == DirOf(d).names

(* The directories a path can lead to: `resolve` looks at the inode. *)
SubDirs(d) ==
    LET v == View(d) IN
    {i \in {v[n].ino : n \in {x \in DOMAIN v : v[x].kind = "dir"}} : inode[i].kind = "dir"}
LiveDirs ==
    LET all  == DirsIn(inode)
        full == {S \in SUBSET all : Root \in S /\ \A d \in S : SubDirs(d) \subseteq S}
    IN  {d \in all : \A S \in full : d \in S}
Entries == UNION {{<<d, n>> : n \in DOMAIN View(d)} : d \in LiveDirs}

(* `dir_state`, then one name put in or taken out. *)
Cached(ds, d, state) == [x \in DOMAIN ds \cup {d} |-> IF x = d THEN state ELSE ds[x]]
Uncached(ds, d) == [x \in DOMAIN ds \ {d} |-> ds[x]]
AddName(d, n, i, kind) ==
    [DirOf(d) EXCEPT !.names = [x \in DOMAIN @ \cup {n} |-> IF x = n THEN [ino |-> i, kind |-> kind] ELSE @[x]]]
DropName(d, n) == [DirOf(d) EXCEPT !.names = [x \in DOMAIN @ \ {n} |-> @[x]]]

-----------------------------------------------------------------------------
IdleFlush == [pc |-> "idle", todo |-> [x \in {} |-> 0], ags |-> {}, pending |-> {}]

Init ==
    /\ \E v \in Volumes :
          /\ inode = v.inode /\ held = v.held
          /\ free = v.free /\ chunks = v.chunks
          /\ ifree = {i \in DOMAIN v.inode : v.inode[i].kind = "free"}
          /\ icount = Cardinality(DOMAIN v.inode)
    /\ dirty = {} /\ dirs = [x \in {} |-> 0] /\ new_chunks = 0
    /\ hdr = [a \in Ags |-> Snapshot(a)]
    /\ dag = hdr
    /\ sbc = [free |-> Cardinality(free), icount |-> icount, ifree |-> Cardinality(ifree)]
    /\ fl = IdleFlush
    /\ calls = 0 /\ faults = 0 /\ last = "none" /\ failed = "no"

(* A call other than `flush`.  Once an error has cost more than lost space *)
(* only flushes are looked at.                                             *)
MayCall == fl.pc = "idle" /\ failed # "yes" /\ calls < MaxCalls
Call ==
    /\ MayCall
    /\ calls' = calls + 1
    /\ last' = "none"
    /\ UNCHANGED <<diskVars, fl, faults, failed>>

(* Mutant of Replace: the old contents are given back first. *)
ReplaceFreesFirst(d, n, c, nb, p) ==
    LET i  == View(d)[n].ino
        r  == inode[i]
        st == store_data(free \cup r.data \cup r.bmbt, i, Size[c], nb) IN
    /\ Call
    /\ View(d)[n].kind = "file" /\ (nb > 0 => Size[c] > 1)
    /\ held' = Written(st.wrote, i, c)
    /\ free' = st.free
    /\ inode' = IF st.ok
                THEN [inode EXCEPT ![i] = [r EXCEPT !.data = st.data, !.bmbt = st.bmbt, !.body = c, !.perms = p]]
                ELSE inode
    /\ dirty' = dirty \cup st.touched \cup AgsOf(r.data \cup r.bmbt)
    /\ UNCHANGED <<chunks, ifree, memVars>>

(* `write_file` of a name that is a file: the new contents first.  `write` *)
(* keeps the mode and owner, `write_with` sets them.                       *)
Replace(d, n, c, nb, p) ==
    LET i  == View(d)[n].ino
        r  == inode[i]
        st == store_data(free, i, Size[c], nb) IN
    /\ Call
    /\ View(d)[n].kind = "file" /\ (nb > 0 => Size[c] > 1)
    /\ held' = Written(st.wrote, i, c)
    /\ IF st.ok
       THEN /\ free' = st.free \cup r.data \cup r.bmbt
            /\ inode' = [inode EXCEPT ![i] = [r EXCEPT !.data = st.data, !.bmbt = st.bmbt, !.body = c, !.perms = p]]
            /\ dirty' = dirty \cup st.touched \cup AgsOf(r.data \cup r.bmbt)
       ELSE free' = free /\ inode' = inode /\ dirty' = dirty \cup st.touched
    /\ UNCHANGED <<chunks, ifree, memVars>>

(* The inode for a new name in d, and the blocks left free by its chunk.   *)
NewNode(d) == alloc_ino(AgOfIno(d))
FreeBeside(d) == free \ NewNode(d).chunk

(* The groups read once it is allocated. *)
ReadFor(d) == LET a == AgOfIno(NewNode(d).ino) IN dirty \cup Earlier(AgOfIno(d), a) \cup {a}

(* What a call makes: an inode, and the blocks it takes, as `st` says:     *)
(* [ok, data, bmbt, wrote, free, touched]; and how taking them may fail:   *)
(* the blocks lost, and those written and with what.                       *)
Node(d, kind, nlink, body, st, fails) ==
    [at |-> NewNode(d), kind |-> kind, nlink |-> nlink, body |-> body, st |-> st, fails |-> fails]

Nothing(fr) == [ok |-> TRUE, data |-> {}, bmbt |-> {}, wrote |-> {}, free |-> fr, touched |-> {}]

FileBlocks(d, c, nb) == store_data(FreeBeside(d), NewNode(d).ino, Size[c], nb)
CreateFile(d, c) ==
    {Node(d, "file", 1, c, FileBlocks(d, c, nb),
          store_data_fails(FreeBeside(d), ReadFor(d), NewNode(d).ino, c, nb)) :
        nb \in {k \in BmbtSizes : k > 0 => Size[c] > 1}}

EmptyDir(d) == [parent |-> d, names |-> [x \in {} |-> 0]]
mkdir_with(d) == {Node(d, "dir", 2, EmptyDir(d), Nothing(FreeBeside(d)), {})}

TargetBlocks(d, k) ==
    LET l == link_blocks(FreeBeside(d), AgOfIno(NewNode(d).ino), k) IN
    [ok |-> l.ok, data |-> l.blocks, bmbt |-> {}, wrote |-> IF l.ok THEN l.blocks ELSE {},
     free |-> l.free, touched |-> AgsOf(l.blocks)]
symlink(d) ==
    {Node(d, "link", 1, "target", TargetBlocks(d, k),
          link_blocks_fails(FreeBeside(d), ReadFor(d), AgOfIno(NewNode(d).ino), k)) : k \in LinkSizes}

mknod(d) == {Node(d, "special", 1, "device", Nothing(FreeBeside(d)), {})}

(* `create_node` and what follows it, for a new name n of x.  Without room *)
(* for its blocks the inode is given back; a chunk made for it stays.      *)
Create(d, n, x) ==
    LET a == x.at
        st == x.st IN
    /\ Call
    /\ a.ok
    /\ free' = st.free
    /\ held' = Written(st.wrote, a.ino, x.body)
    /\ chunks' = chunks \cup a.chunk
    /\ new_chunks' = new_chunks + Cardinality(a.chunk)
    /\ dirty' = dirty \cup {AgOfIno(a.ino)} \cup st.touched
    /\ IF st.ok
       THEN /\ ifree' = IfreeWith(a.chunk) \ {a.ino}
            /\ inode' = [WithChunk(a.chunk) EXCEPT ![a.ino] = NewInode(x.kind, x.nlink, st.data, st.bmbt, x.body)]
            /\ dirs' = LET ds == Cached(dirs, d, AddName(d, n, a.ino, x.kind))
                       IN  IF x.kind = "dir" THEN Cached(ds, a.ino, x.body) ELSE ds
       ELSE /\ ifree' = IfreeWith(a.chunk)
            /\ inode' = WithChunk(a.chunk)
            /\ dirs' = dirs
    /\ UNCHANGED icount

(* Mutant of link: the new name is not counted. *)
link_uncounted(from, d, n) ==
    LET e == View(from[1])[from[2]] IN
    /\ Call
    /\ e.kind # "dir" /\ n \notin DOMAIN View(d)
    /\ dirs' = Cached(dirs, d, AddName(d, n, e.ino, inode[e.ino].kind))
    /\ UNCHANGED <<inode, held, agVars, icount, new_chunks>>

(* `link`: another name for something that is not a directory. *)
link(from, d, n) ==
    LET e == View(from[1])[from[2]] IN
    /\ Call
    /\ e.kind # "dir" /\ n \notin DOMAIN View(d)
    /\ inode' = [inode EXCEPT ![e.ino].nlink = @ + 1]
    /\ dirs' = Cached(dirs, d, AddName(d, n, e.ino, inode[e.ino].kind))
    /\ UNCHANGED <<held, agVars, icount, new_chunks>>

(* Mutant of destroy: the groups are not marked. *)
destroy_unmarked(i) ==
    /\ free' = free \cup Forks(inode[i])
    /\ inode' = [inode EXCEPT ![i] = FreeInode]
    /\ ifree' = ifree \cup {i}
    /\ dirty' = dirty

(* `destroy`: everything an inode holds, and the inode. *)
destroy(i) ==
    /\ free' = free \cup Forks(inode[i])
    /\ inode' = [inode EXCEPT ![i] = FreeInode]
    /\ ifree' = ifree \cup {i}
    /\ dirty' = dirty \cup AgsOf(Forks(inode[i])) \cup {AgOfIno(i)}

unlink(d, n) ==
    LET e == View(d)[n] IN
    /\ Call
    /\ e.kind # "dir"
    /\ IF inode[e.ino].nlink <= 1 THEN destroy(e.ino)
       ELSE /\ inode' = [inode EXCEPT ![e.ino].nlink = @ - 1]
            /\ UNCHANGED <<free, ifree, dirty>>
    /\ dirs' = Cached(dirs, d, DropName(d, n))
    /\ UNCHANGED <<held, chunks, icount, new_chunks>>

(* Mutant of rmdir: the directory need not be empty. *)
rmdir_any(d, n) ==
    LET e == View(d)[n] IN
    /\ Call
    /\ e.kind = "dir"
    /\ destroy(e.ino)
    /\ dirs' = Cached(Uncached(dirs, e.ino), d, DropName(d, n))
    /\ UNCHANGED <<held, chunks, icount, new_chunks>>

rmdir(d, n) ==
    LET e == View(d)[n] IN
    /\ Call
    /\ e.kind = "dir" /\ DOMAIN View(e.ino) = {}
    /\ destroy(e.ino)
    /\ dirs' = Cached(Uncached(dirs, e.ino), d, DropName(d, n))
    /\ UNCHANGED <<held, chunks, icount, new_chunks>>

(* `chmod` and `chown`, through symbolic links: the inode on the device,   *)
(* also of a directory whose names are in memory.                          *)
chmod(i, p) ==
    /\ Call
    /\ p # inode[i].perms
    /\ inode' = [inode EXCEPT ![i].perms = p]
    /\ UNCHANGED <<held, agVars, memVars>>

-----------------------------------------------------------------------------
(* Calls that meet a device error.                                         *)

CallFails ==
    /\ MayCall
    /\ calls' = calls + 1
    /\ faults < MaxFaults /\ faults' = faults + 1
    /\ last' = "none"
    /\ UNCHANGED <<diskVars, fl, icount>>

(* What a failed call loses: an inode or blocks nobody has (`leak`).       *)
Lost == failed' = "leak"

(* In `create_node` and after it, for a new name.                          *)
(*  - init_chunk: the chunk is there in memory, not on the device;         *)
(*  - store_data: write_file gives the inode back; or the first blocks of  *)
(*    a link: it is lost with those it has;                                *)
(*  - writing a block of a link, or write_raw: the inode and its blocks    *)
(*    are lost;                                                            *)
(*  - dir_state, reading the directory again: the inode has no name.       *)
CreateFails(d, n, x) ==
    LET a == x.at
        st == x.st
        given == IfreeWith(a.chunk)
        old == WithChunk(a.chunk)
        touched == {AgOfIno(a.ino)} \cup st.touched IN
    /\ CallFails
    /\ a.ok
    /\ chunks' = chunks \cup a.chunk
    /\ new_chunks' = new_chunks + Cardinality(a.chunk)
    /\ \/ /\ a.chunk # {}
          /\ free' = free \ a.chunk /\ ifree' = given \ {a.ino}
          /\ inode' = WithInodes(a.chunk, NewInode("garbage", 0, {}, {}, "none"))
          /\ dirty' = dirty \cup {AgOfIno(a.ino)}
          /\ Lost /\ UNCHANGED <<held, dirs>>
       \/ \E f \in x.fails :
          /\ free' = (free \ a.chunk) \ f.lost /\ inode' = old
          /\ ifree' = IF x.kind = "file" THEN given ELSE given \ {a.ino}
          /\ held' = Written(f.wrote, a.ino, f.body)
          /\ dirty' = dirty \cup {AgOfIno(a.ino)} \cup AgsOf(f.lost \cup f.wrote)
          /\ failed' = IF x.kind = "file" /\ f.lost = {} THEN failed ELSE "leak"
          /\ UNCHANGED dirs
       \/ /\ st.ok
          /\ free' = st.free /\ ifree' = given \ {a.ino} /\ inode' = old
          /\ held' = Written(st.wrote, a.ino, x.body)
          /\ dirty' = dirty \cup touched
          /\ Lost /\ UNCHANGED dirs
       \/ /\ st.ok /\ d \notin DOMAIN dirs
          /\ free' = st.free /\ ifree' = given \ {a.ino}
          /\ inode' = [old EXCEPT ![a.ino] = NewInode(x.kind, x.nlink, st.data, st.bmbt, x.body)]
          /\ held' = Written(st.wrote, a.ino, x.body)
          /\ dirty' = dirty \cup touched
          /\ dirs' = IF x.kind = "dir" THEN Cached(dirs, a.ino, x.body) ELSE dirs
          /\ Lost

(* In `write_file` of a file: storing the new contents; reading the old    *)
(* fork's B+tree or, to give its blocks back, their groups; and writing    *)
(* the inode, when the old blocks are already free.                        *)
ReplaceFails(d, n, c, nb) ==
    LET i  == View(d)[n].ino
        r  == inode[i]
        st == store_data(free, i, Size[c], nb) IN
    /\ CallFails
    /\ View(d)[n].kind = "file" /\ (nb > 0 => Size[c] > 1)
    /\ \/ \E f \in store_data_fails(free, dirty, i, c, nb) :
          /\ free' = free \ f.lost
          /\ held' = Written(f.wrote, i, f.body)
          /\ dirty' = dirty \cup AgsOf(f.lost \cup f.wrote)
          /\ failed' = IF f.lost = {} THEN failed ELSE "leak"
       \/ \E S \in PartFreed(r.data, r.bmbt, dirty \cup Visited(free, AgOfIno(i), Size[c] + nb))
                   \cup {bs \in {{}} : r.bmbt # {}} :
          /\ st.ok /\ free' = st.free \cup S
          /\ held' = Written(st.wrote, i, c)
          /\ dirty' = dirty \cup st.touched \cup AgsOf(S)
          /\ failed' = IF S = {} THEN "leak" ELSE "yes"
       \/ /\ st.ok /\ free' = st.free \cup r.data \cup r.bmbt
          /\ held' = Written(st.wrote, i, c)
          /\ dirty' = dirty \cup st.touched \cup AgsOf(r.data \cup r.bmbt)
          /\ failed' = "yes"
    /\ UNCHANGED <<inode, chunks, ifree, dirs, new_chunks>>

(* In `link`: the link is counted, and reading the directory again fails.  *)
LinkFails(from, d, n) ==
    LET e == View(from[1])[from[2]] IN
    /\ CallFails
    /\ e.kind # "dir" /\ n \notin DOMAIN View(d) /\ d \notin DOMAIN dirs
    /\ inode' = [inode EXCEPT ![e.ino].nlink = @ + 1]
    /\ Lost
    /\ UNCHANGED <<held, agVars, dirs, new_chunks>>

(* In `unlink` and `rmdir`.  In `destroy`: with blocks already free in     *)
(* memory, or with the inode free on the device and not in its group.      *)
(* After it, reading the directory again: the name has no inode any more,  *)
(* or one of several names is no longer counted.                           *)
RemoveFails(d, n) ==
    LET e      == View(d)[n]
        r      == inode[e.ino]
        gone   == e.kind = "dir" \/ r.nlink <= 1
        mapped == r.data \cup r.bmbt
        freed  == PartFreed(r.data, r.bmbt, dirty) \cup {mapped, Forks(r)}
                  \cup {mapped \cup S : S \in PartFreed(r.attr, {}, dirty \cup AgsOf(mapped))} IN
    /\ CallFails
    /\ e.kind = "dir" => DOMAIN View(e.ino) = {}
    /\ \/ /\ gone
          /\ \E bs \in freed \ {{}} : free' = free \cup bs /\ dirty' = dirty \cup AgsOf(bs)
          /\ UNCHANGED <<inode, ifree, dirs>>
       \/ /\ gone /\ AgOfIno(e.ino) \notin dirty \cup AgsOf(Forks(r))
          /\ free' = free \cup Forks(r) /\ dirty' = dirty \cup AgsOf(Forks(r))
          /\ inode' = [inode EXCEPT ![e.ino] = FreeInode]
          /\ UNCHANGED <<ifree, dirs>>
       \/ /\ gone /\ destroy(e.ino) /\ d \notin DOMAIN dirs
          /\ dirs' = Uncached(dirs, e.ino)
       \/ /\ ~ gone /\ d \notin DOMAIN dirs
          /\ inode' = [inode EXCEPT ![e.ino].nlink = @ - 1]
          /\ UNCHANGED <<free, ifree, dirty, dirs>>
    /\ failed' = "yes"
    /\ UNCHANGED <<held, chunks, new_chunks>>

-----------------------------------------------------------------------------
(* `flush`.                                                                *)

(* Mutant of FlushStart: the lists are dropped. *)
FlushStartForgets ==
    /\ fl.pc = "idle" /\ calls < MaxCalls
    /\ fl' = [IdleFlush EXCEPT !.pc = "dirs"]
    /\ dirs' = [x \in {} |-> 0]
    /\ calls' = calls + 1 /\ last' = "none"
    /\ UNCHANGED <<inode, held, agVars, icount, new_chunks, diskVars, faults, failed>>

FlushStart ==
    /\ fl.pc = "idle" /\ calls < MaxCalls
    /\ fl' = [IdleFlush EXCEPT !.pc = "dirs", !.todo = dirs]
    /\ dirs' = [x \in {} |-> 0]
    /\ calls' = calls + 1 /\ last' = "none"
    /\ UNCHANGED <<inode, held, agVars, icount, new_chunks, diskVars, faults, failed>>

(* The call returns an error: what it had in hand is dropped. *)
FlushError ==
    /\ fl' = IdleFlush
    /\ failed' = "yes" /\ last' = "err"

(* `write_dir`: the old blocks are freed, then the new ones are allocated, *)
(* run by run, and then those of the fork's B+tree.                        *)
DirRun(names, k) ==
    IF (k = 1 /\ Cardinality(names) > DirShort) \/ (k = 2 /\ Cardinality(names) > DirBlock) THEN 1 ELSE 0

write_dir(nb) ==
    LET d    == Min(DOMAIN fl.todo)
        st   == fl.todo[d]
        r    == inode[d]
        pref == AgOfIno(d)
        f0   == free \cup r.data \cup r.bmbt
        r1   == alloc_blocks(f0, pref, DirRun(DOMAIN st.names, 1))
        r2   == alloc_blocks(r1.free, pref, DirRun(DOMAIN st.names, 2))
        t    == alloc_blocks(r2.free, pref, nb)
        data == r1.blocks \cup r2.blocks
        subs == SubDirNames(st) IN
    /\ fl.pc = "dirs" /\ DOMAIN fl.todo # {}
    /\ nb > 0 => Cardinality(DOMAIN st.names) > DirBlock
    /\ dirty' = IF r.kind = "dir"
                THEN dirty \cup AgsOf(r.data \cup r.bmbt \cup data \cup (IF r1.ok /\ r2.ok THEN t.blocks ELSE {}))
                ELSE dirty
    /\ IF r.kind = "dir" /\ r1.ok /\ r2.ok /\ t.ok
       THEN /\ free' = t.free
            /\ held' = Written(data, d, st)
            /\ inode' = [inode EXCEPT ![d] = [r EXCEPT !.data = data, !.bmbt = t.blocks, !.body = st,
                                                       !.nlink = 2 + Cardinality(subs)]]
            /\ fl' = [fl EXCEPT !.todo = Uncached(@, d)]
            /\ UNCHANGED <<last, failed>>
       ELSE /\ free' = IF r.kind # "dir" THEN free ELSE IF ~ r1.ok THEN f0 ELSE IF ~ r2.ok THEN r1.free ELSE r2.free
            /\ held' = IF r.kind = "dir" /\ r1.ok /\ r2.ok THEN Written(data, d, st) ELSE held
            /\ inode' = inode
            /\ FlushError
    /\ UNCHANGED <<chunks, ifree, memVars, diskVars, calls, faults>>

(* The device fails in `write_dir`: when it reads the fork to free it, or  *)
(* a group of its blocks; when it reads the inode, or a group to take new  *)
(* blocks from; when it writes the directory's blocks, takes or writes     *)
(* those of its B+tree, or writes the inode.                               *)
write_dir_fails(nb) ==
    LET d    == Min(DOMAIN fl.todo)
        st   == fl.todo[d]
        r    == inode[d]
        pref == AgOfIno(d)
        old  == r.data \cup r.bmbt
        f0   == free \cup r.data \cup r.bmbt
        k1   == DirRun(DOMAIN st.names, 1)
        k2   == DirRun(DOMAIN st.names, 2)
        r1   == alloc_blocks(f0, pref, k1)
        r2   == alloc_blocks(r1.free, pref, k2)
        t    == alloc_blocks(r2.free, pref, nb)
        data == r1.blocks \cup r2.blocks
        read(x) == dirty \cup AgsOf(old) \cup Visited(f0, pref, x) IN
    /\ fl.pc = "dirs" /\ DOMAIN fl.todo # {}
    /\ nb > 0 => Cardinality(DOMAIN st.names) > DirBlock
    /\ faults < MaxFaults /\ faults' = faults + 1
    /\ \/ free' = free /\ dirty' = dirty /\ held' = held
       \/ /\ r.kind = "dir" /\ held' = held
          /\ \/ \E S \in PartFreed(r.data, r.bmbt, dirty) : free' = free \cup S /\ dirty' = dirty \cup AgsOf(S)
             \/ \E l \in {{}} \cup Stranded(f0, read(0), pref, k1) :
                   free' = f0 \ l /\ dirty' = dirty \cup AgsOf(old \cup l)
             \/ /\ r1.ok
                /\ \E l \in Stranded(r1.free, read(k1), pref, k2) :
                      free' = r1.free \ l /\ dirty' = dirty \cup AgsOf(old \cup r1.blocks \cup l)
       \/ /\ r.kind = "dir" /\ r1.ok /\ r2.ok /\ data # {}
          /\ free' = r2.free /\ dirty' = dirty \cup AgsOf(r.data \cup r.bmbt \cup data)
          /\ held' = Written(data, -1, "torn")
       \/ /\ r.kind = "dir" /\ r1.ok /\ r2.ok
          /\ \E l \in Stranded(r2.free, read(k1 + k2), pref, nb) :
                free' = r2.free \ l /\ dirty' = dirty \cup AgsOf(old \cup data \cup l)
          /\ held' = Written(data, d, st)
       \/ /\ r.kind = "dir" /\ r1.ok /\ r2.ok /\ t.ok
          /\ free' = t.free /\ dirty' = dirty \cup AgsOf(r.data \cup r.bmbt \cup data \cup t.blocks)
          /\ held' = Written(data, d, st)
    /\ FlushError
    /\ UNCHANGED <<inode, chunks, ifree, memVars, diskVars, calls>>

FlushDirsDone ==
    /\ fl.pc = "dirs" /\ DOMAIN fl.todo = {}
    /\ fl' = [fl EXCEPT !.pc = "ags", !.ags = dirty]
    /\ UNCHANGED <<inode, held, agVars, memVars, diskVars, calls, faults, last, failed>>

(* Dirty groups are rebuilt in order, and their images gathered. *)
FlushRebuild ==
    LET a == Min(fl.ags) IN
    /\ fl.pc = "ags" /\ fl.ags # {}
    /\ hdr' = [hdr EXCEPT ![a] = Snapshot(a)]
    /\ dirty' = dirty \ {a}
    /\ fl' = [fl EXCEPT !.ags = @ \ {a}, !.pending = @ \cup {a}]
    /\ UNCHANGED <<inode, held, free, chunks, ifree, memVars, dag, sbc, calls, faults, last, failed>>

(* A rebuild finds no room, or sizes that do not settle (module Ag). *)
FlushRebuildFails ==
    /\ fl.pc = "ags" /\ fl.ags # {}
    /\ faults < MaxFaults /\ faults' = faults + 1
    /\ FlushError
    /\ UNCHANGED <<inode, held, agVars, memVars, diskVars, calls>>

FlushRebuilt ==
    /\ fl.pc = "ags" /\ fl.ags = {}
    /\ fl' = [fl EXCEPT !.pc = "write"]
    /\ UNCHANGED <<inode, held, agVars, memVars, diskVars, calls, faults, last, failed>>

(* The images are written. *)
FlushWrite ==
    LET a == Min(fl.pending) IN
    /\ fl.pc = "write" /\ fl.pending # {}
    /\ dag' = [dag EXCEPT ![a] = hdr[a]]
    /\ fl' = [fl EXCEPT !.pending = @ \ {a}]
    /\ UNCHANGED <<inode, held, agVars, memVars, hdr, sbc, calls, faults, last, failed>>

(* The superblock's counters, summed over the groups' headers: as many as  *)
(* there are pairs of a group and a member of its set.                     *)
SumOver(sets) == Cardinality(UNION {{a} \X sets[a] : a \in Ags})
SetCounters ==
    /\ fl.pc = "write" /\ fl.pending = {}
    /\ icount' = SumOver([a \in Ags |-> hdr[a].chunks]) * ChunkInodes
    /\ sbc' = [free |-> SumOver([a \in Ags |-> hdr[a].free]), icount |-> icount',
               ifree |-> SumOver([a \in Ags |-> hdr[a].ifree])]
    /\ new_chunks' = 0

FlushSuper ==
    /\ SetCounters
    /\ fl' = IdleFlush
    /\ last' = "ok"
    /\ UNCHANGED <<inode, held, agVars, dirs, hdr, dag, calls, faults, failed>>

(* The device fails before that, or when it is flushed after it. *)
FlushWriteFails ==
    /\ fl.pc = "write"
    /\ faults < MaxFaults /\ faults' = faults + 1
    /\ SetCounters \/ UNCHANGED <<icount, sbc, new_chunks>>
    /\ FlushError
    /\ UNCHANGED <<inode, held, agVars, dirs, hdr, dag, calls>>

flush ==
    \/ FlushStart \/ (\E nb \in BmbtSizes : write_dir(nb) \/ write_dir_fails(nb)) \/ FlushDirsDone
    \/ FlushRebuild \/ FlushRebuildFails \/ FlushRebuilt
    \/ FlushWrite \/ FlushWriteFails \/ FlushSuper

-----------------------------------------------------------------------------
(* The calls that put a name n, not there yet, into directory d, and those *)
(* on a name e.                                                            *)
NewName(d, n) ==
    /\ n \notin DOMAIN View(d)
    /\ \/ \E c \in Contents : \E x \in CreateFile(d, c) : Create(d, n, x) \/ CreateFails(d, n, x)
       \/ \E x \in mkdir_with(d) : Create(d, n, x) \/ CreateFails(d, n, x)
       \/ \E x \in symlink(d) : Create(d, n, x) \/ CreateFails(d, n, x)
       \/ \E x \in mknod(d) : Create(d, n, x) \/ CreateFails(d, n, x)

OnName(e) ==
    \/ \E c \in Contents, nb \in BmbtSizes :
          \/ \E p \in Perms : Replace(e[1], e[2], c, nb, p)
          \/ ReplaceFails(e[1], e[2], c, nb)
    \/ unlink(e[1], e[2])
    \/ rmdir(e[1], e[2])
    \/ RemoveFails(e[1], e[2])
    \/ \E p \in Perms : View(e[1])[e[2]].kind # "link" /\ chmod(View(e[1])[e[2]].ino, p)

Next ==
    \/ MayCall /\ \E d \in LiveDirs, n \in Names : NewName(d, n)
    \/ MayCall /\ \E e \in Entries : OnName(e)
    \/ MayCall /\ \E e \in Entries, d \in LiveDirs, n \in Names : link(e, d, n) \/ LinkFails(e, d, n)
    \/ MayCall /\ \E p \in Perms : chmod(Root, p)
    \/ flush

(* A flush runs to its end: it is one call that waits for nothing. *)
Fairness == WF_vars(flush /\ fl.pc # "idle")

Spec == Init /\ [][Next]_vars /\ Fairness

-----------------------------------------------------------------------------
(* Properties.                                                             *)

InUse == UsedIn(inode)
AllForks == ForksIn(inode)
Entry(e) == View(e[1])[e[2]]
NamesIn(es, i) == {e \in es : Entry(e).ino = i}

AgImageOK(g) == g.free \subseteq Blocks /\ g.chunks \subseteq Blocks /\ g.ifree \subseteq DOMAIN inode

(* The shape of the state. *)
TypeOK ==
    /\ free \subseteq Blocks /\ chunks \subseteq Blocks /\ dirty \subseteq Ags
    /\ DOMAIN inode = UNION {InodesOf(b) : b \in chunks} /\ ifree \subseteq DOMAIN inode
    /\ \A i \in DOMAIN inode : InodeOK(inode[i], DOMAIN inode)
    /\ DOMAIN held = Blocks
    /\ DOMAIN dirs \subseteq DOMAIN inode /\ \A d \in DOMAIN dirs : ListOK(dirs[d], DOMAIN inode)
    /\ fl = [pc |-> fl.pc, todo |-> fl.todo, ags |-> fl.ags, pending |-> fl.pending]
    /\ DOMAIN fl.todo \subseteq DOMAIN inode /\ \A d \in DOMAIN fl.todo : ListOK(fl.todo[d], DOMAIN inode)
    /\ icount \in Nat /\ new_chunks \in Nat
    /\ DOMAIN hdr = Ags /\ DOMAIN dag = Ags
    /\ \A a \in Ags : AgImageOK(hdr[a]) /\ AgImageOK(dag[a])
    /\ fl.pc \in {"idle", "dirs", "ags", "write"} /\ fl.ags \subseteq Ags /\ fl.pending \subseteq Ags
    /\ calls \in 0 .. MaxCalls /\ faults \in 0 .. MaxFaults
    /\ last \in {"none", "ok", "err"} /\ failed \in {"no", "leak", "yes"}

(* Every block has one owner.  Calls that run out of space half way give   *)
(* back exactly what they took, and an error while something is made may   *)
(* lose blocks but never gives one away twice.                             *)
BlocksOwned ==
    /\ failed # "yes" => OneOwner(inode, chunks, free)
    /\ failed = "no" => free \cup chunks \cup AllForks = Blocks

(* The names a reader sees and the inodes agree: an inode is in use        *)
(* exactly when it has a name, with the name's kind, and a file's link     *)
(* count is its number of names, also when an inode number is used again   *)
(* for something else; lists are held for live directories only.  After an *)
(* error while something was made an inode may be without a name or a link *)
(* counted too many, never a name without its inode or uncounted.          *)
NamesRight ==
    LET es     == Entries
        most   == [i \in InUse |-> IF inode[i].kind = "dir" THEN 1 ELSE inode[i].nlink]
        lists  == DOMAIN dirs \cup DOMAIN fl.todo IN
    /\ failed # "yes" =>
          /\ ifree \cap InUse = {}
          /\ \A e \in es : inode[Entry(e).ino].kind = Entry(e).kind
          /\ \A i \in InUse \ {Root} : Cardinality(NamesIn(es, i)) <= most[i]
          /\ \A e \in es : Entry(e).kind = "dir" => DirOf(Entry(e).ino).parent = e[1]
    /\ failed = "no" =>
          /\ ifree = DOMAIN inode \ InUse
          /\ \A i \in InUse \ {Root} : Cardinality(NamesIn(es, i)) = most[i]
          /\ lists \ {Root} \subseteq {Entry(e).ino : e \in es}

(* What an inode in use says is stored in its blocks is there: a write     *)
(* without room, or one that the device fails before the old contents are  *)
(* given up, leaves those; no call writes over another's.                  *)
DataIntact == failed # "yes" => \A i \in InUse : \A b \in inode[i].data : held[b] = <<i, inode[i].body>>

(* A flush changes nothing that a reader sees, unless it fails. *)
Tree == [e \in Entries |-> [at |-> Entry(e).ino, kind |-> Entry(e).kind]]
Bodies ==
    [i \in InUse \cap ({Root} \cup {Entry(e).ino : e \in Entries}) |->
        [perms |-> inode[i].perms, body |-> IF inode[i].kind = "dir" THEN "dir" ELSE inode[i].body]]
InFlush == fl.pc # "idle" \/ fl'.pc # "idle"
FlushUnseen == [][InFlush /\ failed' # "yes" => Tree' = Tree /\ Bodies' = Bodies]_vars

(* After a flush that succeeds the device holds a consistent filesystem:   *)
(* the groups say free what no inode uses, the directories name every      *)
(* inode in use, link counts are right and the superblock has the totals.  *)
(* What an earlier error lost is in use and has no name, and that is all.  *)
FlushedIsConsistent ==
    last = "ok" /\ failed # "yes" =>
        LET dfree  == UNION {dag[a].free : a \in Ags}
            difree == UNION {dag[a].ifree : a \in Ags} IN
        /\ OneOwner(inode, chunks, dfree)
        /\ UNION {dag[a].chunks : a \in Ags} = chunks
        /\ difree \cap InUse = {}
        /\ \A e \in NamesOn(inode) : inode[At(inode, e).ino].kind = At(inode, e).kind
        /\ \A i \in InUse : inode[i].nlink >= LinksOf(inode, i)
        /\ sbc = [free |-> Cardinality(dfree), icount |-> Cardinality(DOMAIN inode),
                  ifree |-> Cardinality(difree)]
        /\ failed = "no" =>
              /\ dfree \cup chunks \cup AllForks = Blocks
              /\ difree = DOMAIN inode \ InUse
              /\ \A i \in InUse : inode[i].nlink = LinksOf(inode, i)
              /\ \A i \in InUse \ {Root} : NamesOf(inode, i) # {}

(* What a reader sees is the abstract tree of files: each call changes one *)
(* name or one file's contents or, when it fails, nothing.                 *)
Files == INSTANCE FileTree WITH tree <- Tree, body <- Bodies, broken <- (failed = "yes")
FilesSpec == Files!Spec

(* What the README promises: reads between writes see the writes, in a     *)
(* flush that fails as well.                                               *)
ReadsSeeWrites == [][InFlush => Tree' = Tree]_vars

(* What the comment on `flush` promises when it succeeds: everything on    *)
(* disk is up to date, the trees of every group touched included.          *)
FlushedIsUpToDate == last = "ok" => \A a \in Ags : dag[a] = Snapshot(a)

(* What the README promises of the free space on disk: it is kept true.    *)
FlushedFreeIsUnused == last = "ok" => \A a \in Ags : dag[a].free \cap AllForks = {}
=============================================================================

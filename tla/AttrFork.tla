------------------------------- MODULE AttrFork -------------------------------
(***************************************************************************)
(* Extended attributes as they are read (attr.rs; `xattrs_inode`,          *)
(* volume.rs): in the inode, or from the leftmost leaf of the fork on,     *)
(* leaf after leaf, with large values in blocks of their own.              *)
(*                                                                         *)
(* An attribute is [flags, name, value]: flags as a set; a value is its    *)
(* bytes, or [blk, len] where it is remote.  The blocks of a fork are a    *)
(* function of their logical numbers, each a node, a leaf or a part of a   *)
(* value, whose bytes it knows.                                            *)
(***************************************************************************)
EXTENDS Integers, Sequences

(* Whether `full_name` gives an attribute a name at all. *)
shown(flags) == flags \cap {"INCOMPLETE", "PARENT"} = {}

(* `full_name`: the namespace, and POSIX names for XFS's own ACLs. *)
full_name(flags, name) ==
    IF "SECURE" \in flags THEN <<"security", name>>
    ELSE IF "ROOT" \in flags
        THEN IF name \in {"SGI_ACL_FILE", "SGI_ACL_DEFAULT"} THEN <<"system", name>>
             ELSE <<"trusted", name>>
    ELSE <<"user", name>>

Found(attrs) ==
    LET kept == SelectSeq(attrs, LAMBDA a : shown(a.flags))
    IN  [i \in DOMAIN kept |-> [name |-> full_name(kept[i].flags, kept[i].name),
                                value |-> kept[i].value]]

----------------------------------------------------------------------------
(* The walk over the blocks: the next, those seen, what was found, and how *)
(* it stands.                                                              *)

StartAttrs == [blk |-> 0, seen |-> {}, found |-> <<>>, state |-> "walking"]

NoBlock == [kind |-> "zeroes"]    \* what a hole reads as
BlockAt(fork, blk) == IF blk \in DOMAIN fork THEN fork[blk] ELSE NoBlock

AttrRefused(walk) == [walk EXCEPT !.state = "corrupt"]

(* `parse_block`, and where it leads: a node to its first child, a leaf to *)
(* the next.                                                               *)
parse_block(fork, walk) ==
    LET b == BlockAt(fork, walk.blk)
        read == [walk EXCEPT !.seen = @ \cup {walk.blk}]
    IN  CASE b.kind = "node" ->
               IF b.children = <<>> THEN AttrRefused(read) ELSE [read EXCEPT !.blk = b.children[1]]
          [] b.kind = "leaf" ->
               [read EXCEPT !.found = @ \o Found(b.attrs), !.blk = b.forw,
                            !.state = IF b.forw = 0 THEN "found" ELSE "walking"]
          [] OTHER -> AttrRefused(read)

(* Mutant: only leaves are kept from being read again. *)
ReadAttrBlockLeaf(fork, walk) ==
    IF walk.blk \in walk.seen /\ BlockAt(fork, walk.blk).kind = "leaf" THEN AttrRefused(walk)
    ELSE parse_block(fork, walk)

(* One turn of the loop: no block twice. *)
ReadAttrBlock(fork, walk) ==
    IF walk.blk \in walk.seen THEN AttrRefused(walk) ELSE parse_block(fork, walk)

----------------------------------------------------------------------------
(* Values.                                                                 *)

(* Blocks of a value of len bytes: each holds payload of them, after a     *)
(* header.                                                                 *)
remote_blocks(len, payload) == (len + payload - 1) \div payload

BadValue == <<-1>>

AclVersion == 2
AclUser == 2
AclGroup == 8
NoId == -2    \* u32::MAX

(* The parts of a remote value, end to end: as long as it should be, or    *)
(* the value is refused.                                                   *)
ReadRemote(fork, v, payload) ==
    LET parts[i \in 0..remote_blocks(v.len, payload)] ==
            IF i = 0 THEN <<>>
            ELSE LET b == BlockAt(fork, v.blk + i - 1)
                 IN  IF parts[i - 1] = BadValue \/ b.kind # "part" THEN BadValue
                     ELSE parts[i - 1] \o b.bytes
        all == parts[remote_blocks(v.len, payload)]
    IN  IF Len(all) # v.len THEN BadValue ELSE all

(* `posix_acl`: a count and [tag, id, perm] entries, as a version and      *)
(* [tag, perm, id] entries.  Only named users and groups keep their ID.    *)
posix_acl(v) ==
    IF Len(v) < 1 THEN BadValue
    ELSE IF Len(v) < 1 + 3 * v[1] THEN BadValue
    ELSE <<AclVersion>> \o
         [k \in 1..(3 * v[1]) |->
            LET e == 1 + 3 * ((k - 1) \div 3)
            IN  CASE k % 3 = 1 -> v[e + 1]
                  [] k % 3 = 2 -> v[e + 3]
                  [] k % 3 = 0 -> IF v[e + 1] \in {AclUser, AclGroup} THEN v[e + 2] ELSE NoId]

(* The end of `xattrs_inode`: every value fetched, or an error. *)
ReadValues(fork, walk, payload) ==
    LET bytes(f) == IF f.value.remote THEN ReadRemote(fork, f.value, payload) ELSE f.value.bytes
        value(f) == IF bytes(f) # BadValue /\ f.name[1] = "system" THEN posix_acl(bytes(f)) ELSE bytes(f)
        out == [i \in DOMAIN walk.found |-> [name |-> walk.found[i].name, value |-> value(walk.found[i])]]
    IN  IF \E i \in DOMAIN out : out[i].value = BadValue THEN AttrRefused(walk)
        ELSE [walk EXCEPT !.found = out, !.state = "done"]

(* `xattrs_inode` of attributes in the inode: none are remote. *)
parse_shortform(attrs) == [StartAttrs EXCEPT !.found = Found(attrs), !.state = "found"]
=============================================================================

-------------------------------- MODULE Rmaps --------------------------------
(***************************************************************************)
(* The reverse mappings of an allocation group: `Rmap` and the methods of  *)
(* `Ag` in alloc.rs that touch only `rmap`.                                *)
(*                                                                         *)
(* A record says that `len` blocks from `start` belong to `owner`.  `fork` *)
(* stands for the flags in the offset word: "data" or "attr" for blocks    *)
(* mapped by that fork of an inode at `off`, "bmbt" for a fork's B+tree    *)
(* blocks and for the owners that are not inodes, where `off` is 0.  The   *)
(* unwritten flag is left out: it is one more flag that must be equal.     *)
(***************************************************************************)
EXTENDS Integers, FiniteSetsExt, Extents

(* The owners that are not inodes (bit 63 set). *)
FS == "fs"
AG == "ag"
INOBT == "inobt"
INODES == "inodes"
SpecialOwners == {FS, AG, INOBT, INODES}

End(r) == r.start + r.len
inode_owned(r) == r.owner \notin SpecialOwners

(* A record whose `off` moves with its start when it is cut. *)
HasOffset(r) == inode_owned(r) /\ r.fork # "bmbt"

Rmap(start, len, owner, off, fork) ==
    [start |-> start, len |-> len, owner |-> owner, off |-> off, fork |-> fork]

(* Whether `next` continues `r`, so that the kernel keeps them as one. *)
merges_with(r, next) ==
    /\ r.owner = next.owner
    /\ End(r) = next.start
    /\ inode_owned(r) =>
          /\ r.fork = next.fork
          /\ r.fork = "bmbt" \/ r.off + r.len = next.off

(* The records merged wherever the kernel would keep them as one: each     *)
(* record that continues none, up to the end of the chain it starts.  The  *)
(* records do not overlap, so the one that continues r is the next one.    *)
merged_rmap(rmap) ==
    LET heads   == {r \in rmap : \A q \in rmap : ~ merges_with(q, r)}
        tails   == {r \in rmap : \A q \in rmap : ~ merges_with(r, q)}
        last(r) == Min({End(q) : q \in {t \in tails : t.start >= r.start}})
    IN  {[r EXCEPT !.len = last(r) - r.start] : r \in heads}

(* Mutant of rmap_remove: only records inside the run are looked at. *)
rmap_remove_inside(rmap, start, len, owner) ==
    LET hits == {r \in rmap : r.owner = owner /\ r.start >= start /\ End(r) <= start + len}
    IN  [removed |-> MapThenSumSet(LAMBDA r : r.len, hits), rmap |-> rmap \ hits]

(* `rmap_remove`: [removed, rmap].  Only one record that starts before the *)
(* run is looked at, and every one that starts inside it; `removed` counts *)
(* the blocks that are cut out of each.                                    *)
rmap_remove(rmap, start, len, owner) ==
    LET end    == start + len
        before == {r \in rmap : r.start < start}
        probed == {r \in before : \A q \in before : q.start <= r.start}
                    \cup {r \in rmap : r.start >= start /\ r.start < end}
        hits   == {r \in probed : r.owner = owner /\ End(r) > start}
        cutS(r) == Max({r.start, start})
        cutE(r) == Min({End(r), end})
        left   == {Rmap(r.start, cutS(r) - r.start, r.owner, r.off, r.fork) :
                      r \in {h \in hits : h.start < cutS(h)}}
        right  == {Rmap(cutE(r), End(r) - cutE(r), r.owner,
                        IF HasOffset(r) THEN r.off + (cutE(r) - r.start) ELSE r.off, r.fork) :
                      r \in {h \in hits : cutE(h) < End(h)}}
    IN  [removed |-> Cardinality(UNION {{r} \X (cutS(r) .. (cutE(r) - 1)) : r \in hits}),
         rmap    |-> (rmap \ hits) \cup left \cup right]

-----------------------------------------------------------------------------
(* What records say: of each of their blocks, its owner, fork and place.   *)

PlaceOf(r, b) == <<b, r.owner, r.fork, IF HasOffset(r) THEN r.off + (b - r.start) ELSE 0>>
Places(maps) == UNION {{PlaceOf(r, b) : b \in Run(r.start, r.len)} : r \in maps}
SystemPlaces(bs, owner) == {<<b, owner, "bmbt", 0>> : b \in bs}

(* Records as the kernel keeps them: inside the group, no block in two.    *)
RecordOK(r, agLen) ==
    /\ r = Rmap(r.start, r.len, r.owner, r.off, r.fork)
    /\ r.start \in Nat /\ r.len \in Nat \ {0} /\ r.off \in Nat /\ End(r) <= agLen
    /\ ~ inode_owned(r) => r.fork = "bmbt"
ExtentsApart(es) == \A e, x \in es : e # x => Run(e.start, e.len) \cap Run(x.start, x.len) = {}
WellKept(rm, agLen) == (\A r \in rm : RecordOK(r, agLen)) /\ ExtentsApart(rm)
=============================================================================

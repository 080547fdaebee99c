------------------------------ MODULE LogHead ------------------------------
(***************************************************************************)
(* The log check of src/src/log.rs: find the head of the log by the cycle  *)
(* numbers its basic blocks are stamped with, and tell from the record     *)
(* before the head whether the filesystem was cleanly unmounted.           *)
(*                                                                         *)
(* The search is a pure function of the ring of basic blocks on disk.  The *)
(* ring is written by the kernel, which is outside the repository: the     *)
(* actions below write it the way log.rs reads it (module comment, the     *)
(* in-flight bound MAX_ICLOGS, the wrapping record of the unit tests).     *)
(* Several records are in flight at once and their blocks reach the disk   *)
(* in any order, so every reachable ring is one a power cut can leave: the *)
(* invariants hold of the ring in every state, not only at rest.           *)
(*                                                                         *)
(* Log positions are absolute: position p is basic block p % bbs, written  *)
(* in cycle 1 + p \div bbs.                                                *)
(***************************************************************************)
EXTENDS Integers, Sequences, FiniteSetsExt

CONSTANTS
    Sizes,        \* basic blocks a log may have
    RecBbs,       \* blocks of the largest record       (rec_bbs)
    MaxIclogs,    \* records in flight at once          (MAX_ICLOGS)
    HeaderBlocks, \* header blocks a record may have    (hblks)
    Starts,       \* by size, positions a log may have come to before the model starts
    MaxRecords    \* bound: records written from there

ASSUME LogAssumption ==
    /\ {RecBbs, MaxIclogs, MaxRecords} \subseteq Nat \ {0} /\ RecBbs > 1
    /\ Sizes \subseteq {n \in Nat : n > RecBbs}
    /\ \A n \in Sizes : Starts[n] \subseteq {p \in Nat : p > n \/ (p > 0 /\ p % 2 = 0)}
    /\ HeaderBlocks \subseteq 1..(RecBbs - 1)

VARIABLES
    bbs,     \* basic blocks in the log, which do not change
    ring,    \* the blocks on disk
    next,    \* where the next record goes
    tail,    \* the oldest record whose changes may not be in place
    last,    \* the newest record that is wholly on disk, with all before it
    flight,  \* the records being written, oldest first
    mount,   \* "mounted", "unmounting" or "unmounted"
    records  \* records launched so far

vars == <<bbs, ring, next, tail, last, flight, mount, records>>

----------------------------------------------------------------------------
(* Basic blocks.  A header says how many blocks its record has, whether it *)
(* holds a single operation (h_num_logops = 1) and where the tail was; a   *)
(* data block only says whether its first operation is an unmount.         *)

None == -1      \* Ok(None), Ok(false)
Corrupt == -2   \* Err(Corrupt)

CycleAt(p) == 1 + p \div bbs
NoHeader == [hblks |-> 0, len |-> 0, single |-> FALSE, tail |-> 0]
Block(c, h, u) == [cycle |-> c, header |-> h, unmount |-> u]
Zeroes == Block(0, NoHeader, FALSE)
HasMagic(b) == b.header # NoHeader
Total(h) == h.hblks + h.len

(* What block i of a record at p is stamped with: the blocks past the end  *)
(* of the log carry the next cycle.                                        *)
Stamped(p, r, i) ==
    Block(CycleAt(p + i),
          IF i = 0 THEN r.header ELSE NoHeader,
          r.unmount /\ i = r.header.hblks)

----------------------------------------------------------------------------
(* The search of log.rs.                                                   *)

total_rec_bbs == MaxIclogs * RecBbs

Least(a, b) == IF a < b THEN a ELSE b

(* Binary search in first..end for the first block of a cycle. *)
find_cycle_start(first, end, cycle) ==
    LET search[x \in (0..bbs) \X (0..bbs)] ==
            LET mid == (x[1] + x[2]) \div 2
            IN  IF mid \in {x[1], x[2]} THEN x[2]
                ELSE IF ring[mid].cycle = cycle THEN search[<<x[1], mid>>]
                ELSE search[<<mid, x[2]>>]
    IN  search[<<first, end>>]

(* The first block of start..start + n - 1 stamped cycle, or None. *)
find_cycle(start, n, cycle) ==
    LET hits == {b \in start..(start + n - 1) : ring[b].cycle = cycle}
    IN  IF hits = {} THEN None ELSE Min(hits)

(* Where find_cycle found a block, else where the search stood. *)
Found(b, otherwise) == IF b = None THEN otherwise ELSE b

(* Mutant: the part of the record past the end of the log is not counted. *)
back_up_to_record_no_extra(start, to, extra) ==
    LET headers == {b \in start..(to - 1) : HasMagic(ring[b])}
        i == Max(headers)
    IN  IF headers = {} THEN IF start = 0 THEN None ELSE Corrupt
        ELSE IF to - i # Total(ring[i].header) THEN i
        ELSE to

(* to, or the header of the record that to is in the middle of. *)
back_up_to_record(start, to, extra) ==
    LET headers == {b \in start..(to - 1) : HasMagic(ring[b])}
        i == Max(headers)
    IN  IF headers = {} THEN IF start = 0 THEN None ELSE Corrupt
        ELSE IF to - i + extra # Total(ring[i].header) THEN i
        ELSE to

(* The part written in the first cycle ends where the zeroes start. *)
FindZeroed ==
    LET guess == find_cycle_start(0, bbs - 1, 0)
        n == Least(total_rec_bbs, guess)
        start == guess - n
        to == back_up_to_record(start, Found(find_cycle(start, n, 0), guess), 0)
    IN  IF to = None THEN Corrupt ELSE to

(* Mutant: blocks skipped before the end of the log are not looked for. *)
SkippedBlockNoWrap(head, stop) ==
    LET n == Least(total_rec_bbs, bbs)
    IN  IF head >= n THEN Found(find_cycle(head - n, n, stop), head)
        ELSE Found(find_cycle(0, head, stop), head)

(* Records are written out of order: the first block, of those that could  *)
(* have been in flight, that the search skipped.                           *)
SkippedBlock(head, stop) ==
    LET n == Least(total_rec_bbs, bbs)
        hole == find_cycle(bbs - (n - head), n - head, stop - 1)
    IN  IF head >= n THEN Found(find_cycle(head - n, n, stop), head)
        ELSE IF hole # None THEN hole
        ELSE Found(find_cycle(0, head, stop), head)

(* The head must not be in the middle of a record, which may wrap. *)
NotInsideRecord(head) ==
    LET back == back_up_to_record(IF head >= RecBbs THEN head - RecBbs ELSE 0, head, 0)
        wrapped == back_up_to_record(bbs - (RecBbs - head), bbs, head)
    IN  IF back # None THEN back
        ELSE IF head >= RecBbs \/ wrapped = None THEN Corrupt
        ELSE IF wrapped = bbs THEN head
        ELSE wrapped

find_head ==
    LET first_cycle == ring[0].cycle
        last_cycle == ring[bbs - 1].cycle
        one == first_cycle = last_cycle
        guess == IF one THEN bbs ELSE find_cycle_start(0, bbs - 1, last_cycle)
        stop == IF one THEN last_cycle - 1 ELSE last_cycle
        head == NotInsideRecord(SkippedBlock(guess, stop))
    IN  IF first_cycle = 0 THEN None
        ELSE IF last_cycle = 0 THEN FindZeroed
        ELSE IF head = bbs THEN 0
        ELSE head

(* The last header before head, searching back round the whole ring. *)
header_before(head) ==
    LET before == {b \in 0..(head - 1) : HasMagic(ring[b])}
        after == {b \in head..(bbs - 1) : HasMagic(ring[b])}
    IN  IF before # {} THEN Max(before)
        ELSE IF after # {} THEN Max(after)
        ELSE None

Clean == [clean |-> TRUE, head |-> None, tail |-> None]
Dirty(h, t) == [clean |-> FALSE, head |-> h, tail |-> t]
Unreadable == [clean |-> FALSE, head |-> Corrupt, tail |-> Corrupt]

(* Mutant: the operation's flags are not looked at. *)
UnmountsAnySingle(rblk, head) ==
    /\ (rblk + Total(ring[rblk].header)) % bbs = head
    /\ ring[rblk].header.single

(* Mutant: a record is taken to have one header block. *)
UnmountsOneHeader(rblk, head) ==
    /\ (rblk + Total(ring[rblk].header)) % bbs = head
    /\ ring[rblk].header.single
    /\ ring[(rblk + 1) % bbs].unmount

(* The record at rblk ends at the head and is an unmount record. *)
Unmounts(rblk, head) ==
    LET h == ring[rblk].header IN
    /\ (rblk + Total(h)) % bbs = head
    /\ h.single
    /\ ring[(rblk + h.hblks) % bbs].unmount

(* Mutant: the tail reported is the newest record. *)
state_from_record ==
    LET head == find_head
        rblk == header_before(head)
    IN  IF head = None THEN Clean
        ELSE IF head = Corrupt \/ rblk = None THEN Unreadable
        ELSE IF Unmounts(rblk, head) THEN Clean
        ELSE Dirty(head, rblk)

(* Log::state: clean, or dirty from where to where. *)
state ==
    LET head == find_head
        rblk == header_before(head)
    IN  IF head = None THEN Clean
        ELSE IF head = Corrupt THEN Unreadable
        ELSE IF head = 0 /\ ring[0].cycle = 0 THEN Clean
        ELSE IF rblk = None THEN Unreadable
        ELSE IF Unmounts(rblk, head) THEN Clean
        ELSE Dirty(head, ring[rblk].header.tail)

----------------------------------------------------------------------------
(* The kernel's side: records put in flight, written block by block in any *)
(* order, finished in order; the tail moved up; unmount and mount.         *)

Record(hb, len, one, u) ==
    [header |-> [hblks |-> hb, len |-> len, single |-> one, tail |-> tail % bbs],
     unmount |-> u]

(* A log cleanly unmounted at position p: records of two blocks all the    *)
(* way, the last one the unmount record; mkfs leaves p = 2.                *)
UnmountedAt(p) ==
    LET filler(q) == [header |-> [hblks |-> 1, len |-> 1, single |-> TRUE, tail |-> q % bbs],
                      unmount |-> q = p - 2]
        block(q) == IF q < 0 THEN Zeroes
                    ELSE IF (p - q) % 2 = 0 THEN Stamped(q, filler(q), 0)
                    ELSE Stamped(q - 1, filler(q - 1), 1)
    IN  [b \in 0..(bbs - 1) |-> block(p - 1 - ((p - 1 - b) % bbs))]

Init ==
    /\ bbs \in Sizes
    /\ next \in Starts[bbs]
    /\ ring = UnmountedAt(next)
    /\ tail = next - 2
    /\ last = next - 2
    /\ flight = <<>>
    /\ mount = "unmounted"
    /\ records = 0

Launch(r) ==
    /\ records < MaxRecords
    /\ records' = records + 1
    /\ next + Total(r.header) - tail < bbs   \* the head never reaches the tail
    /\ flight' = Append(flight, [at |-> next, rec |-> r, left |-> 0..(Total(r.header) - 1)])
    /\ next' = next + Total(r.header)
    /\ UNCHANGED <<bbs, ring, tail, last>>

(* Mutant: any number of records in flight. *)
LogUnlimited(hb, len, one) ==
    /\ mount = "mounted"
    /\ Launch(Record(hb, len, one, FALSE))
    /\ UNCHANGED mount

Log(hb, len, one) ==
    /\ mount = "mounted"
    /\ Len(flight) < MaxIclogs
    /\ Launch(Record(hb, len, one, FALSE))
    /\ UNCHANGED mount

WriteBlock(k, i) ==
    LET f == flight[k] IN
    /\ ring' = [ring EXCEPT ![(f.at + i) % bbs] = Stamped(f.at, f.rec, i)]
    /\ flight' = [flight EXCEPT ![k].left = @ \ {i}]
    /\ UNCHANGED <<bbs, next, tail, last, mount, records>>

Finish ==
    /\ flight # <<>>
    /\ Head(flight).left = {}
    /\ last' = Head(flight).at
    /\ flight' = Tail(flight)
    /\ mount' = IF mount = "unmounting" THEN "unmounted" ELSE mount
    /\ UNCHANGED <<bbs, ring, next, tail, records>>

(* The changes logged before the newest finished record are in place. *)
MoveTail ==
    /\ mount = "mounted"
    /\ tail # last
    /\ tail' = last
    /\ UNCHANGED <<bbs, ring, next, last, flight, mount, records>>

(* The unmount record is written when nothing else is in flight. *)
Unmount ==
    /\ mount = "mounted"
    /\ flight = <<>>
    /\ \E hb \in HeaderBlocks : Launch(Record(hb, 1, TRUE, TRUE))
    /\ mount' = "unmounting"

Mount ==
    /\ mount = "unmounted"
    /\ mount' = "mounted"
    /\ tail' = last
    /\ UNCHANGED <<bbs, ring, next, last, flight, records>>

Next ==
    \/ \E hb \in HeaderBlocks, one \in BOOLEAN :
           \E len \in 1..(RecBbs - hb) : Log(hb, len, one)
    \/ \E k \in 1..Len(flight) : \E i \in flight[k].left : WriteBlock(k, i)
    \/ Finish
    \/ MoveTail
    \/ Unmount
    \/ Mount

Spec == Init /\ [][Next]_vars

----------------------------------------------------------------------------
(* Properties.                                                             *)

Header == [hblks : 0..RecBbs, len : 0..RecBbs, single : BOOLEAN, tail : 0..(bbs - 1)]

(* Every variable has its type: the ring of stamped blocks, and positions  *)
(* no further apart than the ring is long.                                 *)
TypeOK ==
    /\ ring \in [0..(bbs - 1) ->
                   [cycle : 0..CycleAt(next), header : Header, unmount : BOOLEAN]]
    /\ {tail, last, next} \subseteq Nat
    /\ records \in 0..MaxRecords
    /\ tail <= last /\ last < next /\ next - tail < bbs
    /\ Len(flight) <= MaxIclogs
    /\ mount \in {"mounted", "unmounting", "unmounted"}

Torn == {k \in 1..Len(flight) : flight[k].left # {}}

(* Where the log on disk ends: at the oldest record with a block missing.  *)
EndOnDisk == IF Torn = {} THEN next ELSE flight[Min(Torn)].at

(* The newest record before that end. *)
NewestOnDisk ==
    LET k == IF Torn = {} THEN Len(flight) ELSE Min(Torn) - 1
    IN  IF k = 0 THEN last ELSE flight[k].at

(* The head found (find_head, "where the next log write would go") is the  *)
(* end of the log on disk, however far round the ring it is, whatever      *)
(* subset of the blocks of the records in flight reached the disk, and     *)
(* whether or not a record wraps.  It is so in a log of twice the blocks   *)
(* that the search looks back over (total_rec_bbs), if the newest finished *)
(* record and all that follow it fit in so many.                           *)
HeadExact ==
    (bbs >= 2 * total_rec_bbs /\ next - last <= total_rec_bbs) => find_head = EndOnDisk % bbs

(* When they do not, the search may miss the header it needs, and says so: *)
(* a head is the right one or none at all.  In a shorter log a block not   *)
(* yet written may send the binary search to the wrong side.               *)
HeadOrRefusal == bbs >= 2 * total_rec_bbs => find_head \in {EndOnDisk % bbs, Corrupt}

(* It is an unmount record. *)
EndsInUnmount ==
    ring[(NewestOnDisk + ring[NewestOnDisk % bbs].header.hblks) % bbs].unmount

(* A log that ends in a record of changes is never called clean            *)
(* (Log::state), however short: Volume::open refuses the filesystem.       *)
DirtyNeverClean == ~EndsInUnmount => ~state.clean

(* A log that ends in an unmount record is called clean: once the unmount  *)
(* is over, and on while the first records of the next mount are torn.     *)
UnmountedIsClean == (EndsInUnmount /\ next - last <= total_rec_bbs) => state.clean

(* What is reported of a dirty log, tail to head, covers every record      *)
(* whose changes may not be in place (Dirty { head, tail }).               *)
DirtyRangeCovers ==
    LET s == state
    IN  (~s.clean /\ s # Unreadable) => (s.head - s.tail) % bbs >= EndOnDisk - tail
=============================================================================

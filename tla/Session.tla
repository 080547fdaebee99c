------------------------------- MODULE Session -------------------------------
(***************************************************************************)
(* Opening a volume and its first write (`open`, `open_norecovery`,        *)
(* volume.rs; `writer`, `flush`, write.rs), on a device the kernel leaves  *)
(* cleanly unmounted or cut off at any point of LogHead.                   *)
(***************************************************************************)
EXTENDS LogHead, Superblock

CONSTANTS
    Superblocks,   \* those a filesystem may have
    SessionRecords \* bound: records written from the start when a session opens

VARIABLES
    vol,     \* Closed, or the volume: [sb, log, w, writable]
    cut,     \* the kernel lost its power, and does not come back
    written  \* something of this filesystem's was written in the session

svars == <<vol, cut, written>>

Closed == [log |-> "closed"]

SessionInit == Init /\ vol = Closed /\ cut = FALSE /\ written = FALSE

(* The kernel goes on while nobody has the device open. *)
Kernel ==
    /\ vol = Closed /\ ~cut
    /\ Next
    /\ UNCHANGED svars

(* How `log::state` and `open_norecovery` find the log: a log of no        *)
(* blocks, or with its first or last block outside the filesystem, cannot  *)
(* be read. *)
LogInside(s) ==
    s.log_blocks > 0 /\ fsb_to_byte(s, s.log_start) # Outside
    /\ fsb_to_byte(s, s.log_start + s.log_blocks - 1) # Outside
LogState(s) ==
    IF has_external_log(s) THEN "external"
    ELSE IF ~LogInside(s) THEN "unreadable"
    ELSE IF state.clean THEN "clean"
    ELSE IF state = Unreadable THEN "unreadable"
    ELSE "dirty"

(* `open_norecovery`, and `open`, which gives the volume up again if its   *)
(* log has changes or cannot be read.  The device may be too short for the *)
(* filesystem, or read-only.                                               *)
Open(s, norecovery, long, writable) ==
    /\ vol = Closed /\ records <= SessionRecords
    /\ parse(s, TRUE) = "ok" /\ long
    /\ norecovery \/ LogState(s) \in {"clean", "external"}
    /\ vol' = [sb |-> s, log |-> LogState(s), w |-> FALSE, writable |-> writable]
    /\ cut' = (mount # "unmounted" \/ flight # <<>>)
    /\ UNCHANGED <<vars, written>>

(* Mutant: the log is trusted once the volume is open. *)
writer_any_log(v) == v.w \/ check_writable(v.sb)

(* Whether `writer` lets a write go on: the first one checks. *)
writer(v) == v.w \/ (check_writable(v.sb) /\ v.log \in {"clean", "external"})

(* A call that changes something: it may fail after `writer` for reasons   *)
(* of its own, and a read-only device takes no writes.                     *)
WriteCall ==
    /\ vol # Closed
    /\ writer(vol)
    /\ vol' = [vol EXCEPT !.w = TRUE]
    /\ written' \in {written, written \/ vol.writable}
    /\ UNCHANGED <<vars, cut>>

(* `flush`: nothing but the device's own if nothing was to be written. *)
Flush ==
    /\ vol # Closed
    /\ written' = (written \/ (vol.w /\ vol.writable))
    /\ UNCHANGED <<vars, vol, cut>>

Close ==
    /\ vol # Closed
    /\ vol' = Closed
    /\ written' = FALSE
    /\ UNCHANGED <<vars, cut>>

SessionNext ==
    \/ Kernel
    \/ \E s \in Superblocks, norecovery, long, writable \in BOOLEAN :
           Open(s, norecovery, long, writable)
    \/ WriteCall \/ Flush \/ Close

SessionSpec == SessionInit /\ [][SessionNext]_<<vars, svars>>

----------------------------------------------------------------------------
(* Nothing is ever written to a filesystem whose own log ends in changes,  *)
(* though `open_norecovery` opens it, nor to one with features the writer  *)
(* knows nothing of: the kernel would replay old changes over the new, or  *)
(* misread them.                                                           *)
NeverWrittenUnready ==
    (vol # Closed /\ written) =>
        /\ has_external_log(vol.sb) \/ EndsInUnmount
        /\ vol.sb.version = 5 /\ "FTYPE" \in vol.sb.incompat
        /\ vol.sb.incompat \cap {"PARENT", "METADIR", "ZONED"} = {}
=============================================================================

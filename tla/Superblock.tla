------------------------------ MODULE Superblock ------------------------------
(***************************************************************************)
(* The superblock (sb.rs): which ones are accepted, which can be written   *)
(* to, and the numbers everything else is found by.                        *)
(*                                                                         *)
(* A superblock s is a record of its fields; features are sets of their    *)
(* names.  Sizes are powers of two in range, or not: what is left of a     *)
(* field's bytes is what the checks look at.                               *)
(***************************************************************************)
EXTENDS Integers, FiniteSets

----------------------------------------------------------------------------
(* Which superblocks are accepted.                                         *)

Known ==   \* incompat::KNOWN
    {"FTYPE", "SPINODES", "META_UUID", "BIGTIME", "NREXT64", "EXCHRANGE",
     "PARENT", "METADIR", "ZONED"}
RoKnown == {"FINOBT", "RMAPBT", "REFLINK", "INOBTCOUNT"}   \* ro_compat::KNOWN
Handled ==  \* by the writer
    {"FTYPE", "SPINODES", "META_UUID", "BIGTIME", "NREXT64", "EXCHRANGE"}

(* The version's own checks: "ok", or the error.  The checksum of a v5     *)
(* superblock cannot hold if its sector could not be read whole.           *)
CheckVersion(s) ==
    CASE s.version = 4 ->
           IF "DIRV2" \notin s.versionnum THEN "Unsupported"
           ELSE IF "MOREBITS" \in s.versionnum /\ "CRC" \in s.features2 THEN "Corrupt"
           ELSE "ok"
      [] s.version = 5 ->
           IF ~s.checksum THEN "Corrupt"
           ELSE IF ~(s.incompat \subseteq Known) THEN "Unsupported"
           ELSE IF "NEEDSREPAIR" \in s.incompat THEN "Unsupported"
           ELSE "ok"
      [] OTHER -> "Unsupported"

(* A shift by k in a word of w bits: a build with overflow checks stops if *)
(* k is not smaller than w, another shifts by k modulo w; bits shifted out *)
(* are lost in both.  Log2Shl is where the one bit of 2^b goes, Lost if    *)
(* nowhere.                                                                *)
Lost == -1
Stops(checked, k, w) == checked /\ k >= w
Log2Shl(b, k, w) == IF b + (k % w) < w THEN b + (k % w) ELSE Lost

(* The check of the geometry, in the order it is made: "ok", "Corrupt", or *)
(* "panic" where the build checks shifts.                                  *)
CheckGeometry(s, checked) ==
    IF ~(s.block_bits \in 9..16) THEN "Corrupt"          \* not a power of two from 512 to 65536
    ELSE IF Stops(checked, s.block_log, 32) THEN "panic"
    ELSE IF Log2Shl(0, s.block_log, 32) # s.block_bits THEN "Corrupt"
    ELSE IF ~(s.inode_bits \in 8..11) THEN "Corrupt"
    ELSE IF s.inodes_per_block * 2 ^ s.inode_bits # 2 ^ s.block_bits THEN "Corrupt"
    ELSE IF Stops(checked, s.inopb_log, 32) THEN "panic"
    ELSE IF Log2Shl(0, s.inopb_log, 32) # s.block_bits - s.inode_bits THEN "Corrupt"
    ELSE IF s.ag_count = 0 \/ s.ag_blocks = 0 THEN "Corrupt"
    ELSE IF Stops(checked, s.agblk_log, 64) THEN "panic"
    ELSE IF Log2Shl(0, s.agblk_log, 64) < 31 /\ s.ag_blocks > 2 ^ Log2Shl(0, s.agblk_log, 64)
        THEN "Corrupt"
    ELSE IF s.agblk_log > 31 THEN "Corrupt"
    ELSE IF Stops(checked, s.dirblk_log, 64) THEN "panic"
    ELSE IF Log2Shl(s.block_bits, s.dirblk_log, 64) > 16 THEN "Corrupt"
    ELSE "ok"

parse(s, checked) ==
    IF ~s.magic THEN "NotXfs"
    ELSE IF CheckVersion(s) # "ok" THEN CheckVersion(s)
    ELSE CheckGeometry(s, checked)

check_writable(s) ==
    /\ s.version = 5
    /\ "BORGBIT" \notin s.versionnum
    /\ s.ro_compat \subseteq RoKnown
    /\ s.incompat \subseteq Handled
    /\ "FTYPE" \in s.incompat
    /\ s.log_incompat = {}
    /\ s.inodes_per_block <= 64

has_external_log(s) == s.log_start = 0

----------------------------------------------------------------------------
(* Numbers.  A block of the filesystem is numbered by its group, above bit *)
(* agblk_log, and its place in it; an inode by its block and its place in  *)
(* that.  Groups are ag_blocks long, and 2^agblk_log numbers apart.        *)

Outside == -1    \* Err(Corrupt)

agb_to_fsb(s, agno, agbno) == agno * 2 ^ s.agblk_log + agbno
fsb_to_agb(s, fsbno) == <<fsbno \div 2 ^ s.agblk_log, fsbno % 2 ^ s.agblk_log>>
agb_to_byte(s, agno, agbno) == (agno * s.ag_blocks + agbno) * 2 ^ s.block_log

(* Blocks of a group: the last may be short. *)
ag_len(s, agno) ==
    LET left == s.data_blocks - agno * s.ag_blocks
    IN  IF left < s.ag_blocks THEN left ELSE s.ag_blocks

agino_log(s) == s.agblk_log + s.inopb_log
agino_to_ino(s, agno, agino) == agno * 2 ^ agino_log(s) + agino
ino_to_agino(s, ino) == <<ino \div 2 ^ agino_log(s), ino % 2 ^ agino_log(s)>>
dir_block_size(s) == 2 ^ (s.block_log + s.dirblk_log)

(* Mutant: groups are as long as their numbers are apart. *)
fsb_to_byte_linear(s, fsbno) ==
    LET agno == fsbno \div 2 ^ s.agblk_log
        agbno == fsbno % 2 ^ s.agblk_log
    IN  IF agno >= s.ag_count \/ agbno >= s.ag_blocks THEN Outside
        ELSE fsbno * 2 ^ s.block_log

fsb_to_byte(s, fsbno) ==
    LET agno == fsbno \div 2 ^ s.agblk_log
        agbno == fsbno % 2 ^ s.agblk_log
    IN  IF agno >= s.ag_count \/ agbno >= s.ag_blocks THEN Outside
        ELSE (agno * s.ag_blocks + agbno) * 2 ^ s.block_log

ino_to_byte(s, ino) ==
    LET agno == ino \div 2 ^ agino_log(s)
        agino == ino % 2 ^ agino_log(s)
        agbno == agino \div 2 ^ s.inopb_log
        index == agino % 2 ^ s.inopb_log
    IN  IF ino = 0 \/ agno >= s.ag_count \/ agbno >= s.ag_blocks THEN Outside
        ELSE (agno * s.ag_blocks + agbno) * 2 ^ s.block_log + index * 2 ^ s.inode_bits

(* The bytes `read_blocks` reads, from and up to: a run that starts and    *)
(* ends inside the filesystem.                                             *)
read_blocks(s, fsb, count) ==
    IF fsb_to_byte(s, fsb) = Outside \/ fsb_to_byte(s, fsb + count - 1) = Outside THEN <<>>
    ELSE <<fsb_to_byte(s, fsb), fsb_to_byte(s, fsb) + count * 2 ^ s.block_log>>

----------------------------------------------------------------------------
(* Numbers in fewer bits.  The widths are parameters: w is 32 for times;   *)
(* for extents [offset, high, low, count] are 54, 9, 43 and 21.            *)

Clamp(v, lo, hi) == IF v < lo THEN lo ELSE IF v > hi THEN hi ELSE v

(* `ts_raw`: a time in an inode, of either format. *)
ts_raw(t, bigtime, w, giga) ==
    IF bigtime THEN (IF t.secs < -(2 ^ (w - 1)) THEN 0 ELSE t.secs + 2 ^ (w - 1)) * giga + t.nsecs
    ELSE (Clamp(t.secs, -(2 ^ (w - 1)), 2 ^ (w - 1) - 1) % 2 ^ w) * 2 ^ w + t.nsecs

(* `ts` of Inode::parse. *)
ts(raw, bigtime, w, giga) ==
    IF bigtime THEN [secs |-> (raw \div giga) - 2 ^ (w - 1), nsecs |-> raw % giga]
    ELSE LET u == raw \div 2 ^ w
         IN  [secs |-> IF u >= 2 ^ (w - 1) THEN u - 2 ^ w ELSE u, nsecs |-> raw % 2 ^ w]

(* An extent in two words: a flag, the offset and the top of the block     *)
(* number; the rest of it and the count.                                   *)
encode(e, b) ==
    <<(IF e.unwritten THEN 2 ^ (b.offset + b.high) ELSE 0)
        + (e.offset % 2 ^ b.offset) * 2 ^ b.high + (e.block \div 2 ^ b.low),
      (e.block % 2 ^ b.low) * 2 ^ b.count + (e.count % 2 ^ b.count)>>

decode(rec, b) ==
    [unwritten |-> rec[1] \div 2 ^ (b.offset + b.high) # 0,
     offset |-> (rec[1] % 2 ^ (b.offset + b.high)) \div 2 ^ b.high,
     block |-> (rec[1] % 2 ^ b.high) * 2 ^ b.low + (rec[2] \div 2 ^ b.count),
     count |-> rec[2] % 2 ^ b.count]

(* A device node's number: `mknod` and `device`. *)
rdev(major, minor, w) == major * 2 ^ w + minor
device(rdevNo, w) == <<rdevNo \div 2 ^ w, rdevNo % 2 ^ w>>
=============================================================================

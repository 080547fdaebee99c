------------------------------ MODULE MCLogHead ------------------------------
(***************************************************************************)
(* LogHead on small rings: records of two or three blocks, two in flight   *)
(* at a time, three of them written from a clean unmount anywhere in the   *)
(* first two passes, so that the zeroed, the wrapped and the one-cycle     *)
(* case of the search occur with every subset of the blocks in flight      *)
(* missing.  A ring of 13 blocks is twice the search's window and one      *)
(* more, a ring of 7 hardly more than the window.                          *)
(***************************************************************************)
EXTENDS Session

MCStarts ==
    [n \in Sizes |-> IF n = 7 THEN {2, 4, 6} \cup 8 .. 15
                     ELSE {2, 8, 10, 12, 18} \cup 21 .. 27]

(* A filesystem that can be written to, ones that can only be read, one    *)
(* that is refused, one with its log elsewhere, and ones whose log has no  *)
(* blocks or ends outside the filesystem.                                  *)
Writable ==
    [magic |-> TRUE, version |-> 5, versionnum |-> {}, features2 |-> {}, checksum |-> TRUE,
     incompat |-> {"FTYPE", "BIGTIME"}, ro_compat |-> {"FINOBT", "RMAPBT"}, log_incompat |-> {},
     block_bits |-> 12, block_log |-> 12, inode_bits |-> 9, inodes_per_block |-> 8, inopb_log |-> 3,
     ag_count |-> 4, ag_blocks |-> 100, agblk_log |-> 7, dirblk_log |-> 0, data_blocks |-> 400,
     log_start |-> 1, log_blocks |-> 7]

MCSuperblocks ==
    {Writable, [Writable EXCEPT !.log_start = 0], [Writable EXCEPT !.version = 4, !.versionnum = {"DIRV2"}],
     [Writable EXCEPT !.incompat = @ \cup {"PARENT"}], [Writable EXCEPT !.incompat = {"NEEDSREPAIR"}],
     [Writable EXCEPT !.log_incompat = {"XATTRS"}], [Writable EXCEPT !.log_blocks = 0],
     [Writable EXCEPT !.log_blocks = 120]}
=============================================================================

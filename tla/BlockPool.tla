------------------------------ MODULE BlockPool ------------------------------
(***************************************************************************)
(* What an allocation group promises those who use it: a pool of blocks.   *)
(*                                                                         *)
(* A caller is granted a run of blocks that nobody had, keeps it untouched *)
(* until it gives it back, and may give back part of what it has.  The     *)
(* pool keeps some blocks for its own trees and may lay those out again at *)
(* any time, within what is not granted.                                   *)
(***************************************************************************)
EXTENDS Integers

CONSTANT Size       \* blocks of the pool

VARIABLES
    avail,          \* blocks nobody has
    granted,        \* blocks callers have
    kept            \* blocks of the pool's own trees

vars == <<avail, granted, kept>>

Disjoint(a, g, k) == a \cap g = {} /\ a \cap k = {} /\ g \cap k = {}

Init ==
    /\ avail \cup granted \cup kept \subseteq 0 .. (Size - 1)
    /\ Disjoint(avail, granted, kept)

(* A run, never an empty one, and only of blocks nobody had. *)
Grant ==
    \E s \in 0 .. (Size - 1), e \in 0 .. (Size - 1) :
        /\ s <= e
        /\ s .. e \subseteq avail
        /\ avail' = avail \ (s .. e)
        /\ granted' = granted \cup (s .. e)
        /\ kept' = kept

Return ==
    /\ granted' \subseteq granted
    /\ avail' = avail \cup (granted \ granted')
    /\ kept' = kept

(* The trees move.  A layout that fails may lose blocks; it takes none     *)
(* that are granted.                                                       *)
Relayout ==
    /\ granted' = granted
    /\ avail' \cup kept' \subseteq avail \cup kept
    /\ avail' \cap kept' = {}

Next == Grant \/ Return \/ Relayout

Spec == Init /\ [][Next]_vars
=============================================================================

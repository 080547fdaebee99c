------------------------------- MODULE Extents -------------------------------
(***************************************************************************)
(* The free map of an allocation group and the ways blocks leave it and    *)
(* come back: the methods of `Ag` in alloc.rs that touch only `free`.      *)
(*                                                                         *)
(* The map (a BTreeMap<u32, u32>) is a function from the first block of a  *)
(* free extent to its length.  Every operator here is a pure function of   *)
(* the map; the counters kept beside it belong to module Ag.               *)
(***************************************************************************)
EXTENDS Integers, FiniteSetsExt

(* The blocks of an extent, and of every extent of a map. *)
Run(s, n) == s .. (s + n - 1)
Covered(f) == UNION {Run(s, f[s]) : s \in DOMAIN f}

(* BTreeMap::remove and BTreeMap::insert. *)
Without(f, s) == [x \in DOMAIN f \ {s} |-> f[x]]
With(f, s, n) == [x \in DOMAIN f \cup {s} |-> IF x = s THEN n ELSE f[x]]

(* A map as the kernel keeps it: extents not empty, inside the group, in   *)
(* order, and maximal: two free extents never touch.                       *)
WellFormed(f, agLen) ==
    /\ DOMAIN f \subseteq Nat
    /\ \A s \in DOMAIN f : f[s] \in Nat \ {0} /\ s + f[s] <= agLen
    /\ \A s, t \in DOMAIN f : s < t => s + f[s] < t

-----------------------------------------------------------------------------
(* Taking blocks out.                                                      *)

(* The last extent that starts at or before b: `range(..=b).next_back()`.  *)
AtOrBefore(f, b) ==
    CHOOSE s \in DOMAIN f : s <= b /\ \A t \in DOMAIN f : t <= b => t <= s

(* What `take` asserts: one extent of the map holds the whole run. *)
Takeable(f, start, len) ==
    \E s \in DOMAIN f : s <= start /\ start + len <= s + f[s]

(* Mutants of Take: an empty right piece is kept; the right piece is lost. *)
TakeKeepsEmpty(f, start, len) ==
    LET fs   == AtOrBefore(f, start)
        rest == Without(f, fs)
        left == IF fs < start THEN With(rest, fs, start - fs) ELSE rest
    IN  With(left, start + len, fs + f[fs] - start - len)
TakeLosesRight(f, start, len) ==
    LET fs == AtOrBefore(f, start) IN
    IF fs < start THEN With(Without(f, fs), fs, start - fs) ELSE Without(f, fs)

(* `take`: the extent that holds the run, less the run. *)
Take(f, start, len) ==
    LET fs   == AtOrBefore(f, start)
        end  == fs + f[fs]
        rest == Without(f, fs)
        left == IF fs < start THEN With(rest, fs, start - fs) ELSE rest
    IN  IF start + len < end THEN With(left, start + len, end - start - len) ELSE left

(* The extents `alloc` may pick for `want` blocks: the first long enough   *)
(* at or after `near`, else the first long enough before it, else the      *)
(* longest (the last of them: `max_by_key`), whole.                        *)
Pick(f, want, near) ==
    LET fits  == {s \in DOMAIN f : f[s] >= want}
        after == {s \in fits : s >= near}
    IN  IF after # {} THEN <<Min(after), want>>
        ELSE IF fits # {} THEN <<Min(fits), want>>
        ELSE LET s == Max({x \in DOMAIN f : \A t \in DOMAIN f : f[t] <= f[x]})
             IN  <<s, f[s]>>

(* The blocks `alloc_block_except` looks at: the first of each extent, or  *)
(* the second where the first is the one to avoid.                         *)
NotBlock(f, not) ==
    {s \in DOMAIN f : s # not} \cup {s + 1 : s \in {x \in DOMAIN f : x = not /\ f[x] > 1}}

(* The places where `alloc_aligned` can put `len` blocks, one per extent. *)
Aligned(f, len, align) ==
    LET up(s) == ((s + align - 1) \div align) * align
    IN  {up(s) : s \in {x \in DOMAIN f : up(x) + len <= x + f[x]}}

(* The extent `carve` takes from: the longest, the last of those. *)
Longest(f) ==
    CHOOSE s \in DOMAIN f :
        \A t \in DOMAIN f : f[t] < f[s] \/ (f[t] = f[s] /\ t <= s)

-----------------------------------------------------------------------------
(* Giving blocks back.                                                     *)

(* Mutant of FreeExtent: it is put in as it is. *)
FreeExtentUnjoined(f, start, len, agLen) == [ok |-> TRUE, free |-> With(f, start, len)]

(* `free_extent`: [ok, free].  The extent joins the one that ends where it *)
(* starts and the one that starts where it ends.  A run that is empty,     *)
(* outside the group or partly free is an error; the check against the     *)
(* following extent comes after the preceding one has been taken out, and  *)
(* the error leaves it out.                                                *)
FreeExtent(f, start, len, agLen) ==
    LET end     == start + len
        before  == {s \in DOMAIN f : s < start}
        ps      == Max(before)
        overlap == before # {} /\ ps + f[ps] > start
        joinsP  == before # {} /\ ps + f[ps] = start
        f1      == IF joinsP THEN Without(f, ps) ELSE f
        s1      == IF joinsP THEN ps ELSE start
        n1      == IF joinsP THEN len + f[ps] ELSE len
        after   == {s \in DOMAIN f : s >= start}
        ns      == Min(after)
        joinsN  == after # {} /\ ns = end
    IN  IF len = 0 \/ end > agLen \/ overlap THEN [ok |-> FALSE, free |-> f]
        ELSE IF after # {} /\ ns < end THEN [ok |-> FALSE, free |-> f1]
        ELSE IF joinsN THEN [ok |-> TRUE, free |-> With(Without(f1, ns), s1, n1 + f[ns])]
        ELSE [ok |-> TRUE, free |-> With(f1, s1, n1)]
=============================================================================

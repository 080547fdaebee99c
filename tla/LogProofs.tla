------------------------------ MODULE LogProofs ------------------------------
(***************************************************************************)
(* The search for the head of the log is right in every log of at least    *)
(* twice the blocks it looks back over, whatever the sizes of records and  *)
(* however many are in flight, and whichever of their blocks are on disk:  *)
(* so a log that ends in changes is never called clean, and nothing is     *)
(* written to a filesystem with such a log.                                *)
(***************************************************************************)
EXTENDS Session, ExtentsProofs, SequenceTheorems

-----------------------------------------------------------------------------
(* Positions and blocks.  A position is a block by its remainder; near a   *)
(* multiple of the size, remainders are differences.                       *)

Turn(B, q, n) == B = q * n   \* B is where turn q of a ring of n starts

Near(p, B, q, n) ==
    /\ B <= p /\ p < B + n => p % n = p - B /\ p \div n = q
    /\ B - n <= p /\ p < B => p % n = p - B + n /\ p \div n = q - 1
    /\ B + n <= p /\ p < B + 2 * n => p % n = p - B - n /\ p \div n = q + 1

(* In the n numbers from a multiple of n, remainders are differences.      *)
LEMMA ModFrom ==
    ASSUME NEW n \in Nat \ {0}, NEW p \in Int, NEW q \in Int, NEW B \in Int, Turn(B, q, n),
           B <= p, p < B + n
    PROVE  p % n = p - B /\ p \div n = q
<1>1. p - B \in 0 .. (n - 1) /\ p = q * n + (p - B)
  BY DEF Turn
<1> QED
  BY <1>1, ModIs

(* And in the n before it, and the n after those.                          *)
LEMMA ModNear ==
    ASSUME NEW n \in Nat \ {0}, NEW p \in Int, NEW q \in Int, NEW B \in Int, Turn(B, q, n)
    PROVE  Near(p, B, q, n)
<1>1. B <= p /\ p < B + n => p % n = p - B /\ p \div n = q
  BY ModFrom
<1>2. B - n <= p /\ p < B => p % n = p - B + n /\ p \div n = q - 1
  <2>1. PICK A \in Int, k \in Int : A = B - n /\ k = q - 1
    OBVIOUS
  <2>2. Turn(A, k, n)
    BY <2>1 DEF Turn
  <2>3. A <= p /\ p < A + n => p % n = p - A /\ p \div n = k
    BY <2>2, ModFrom
  <2> QED
    BY <2>1, <2>3
<1>3. B + n <= p /\ p < B + 2 * n => p % n = p - B - n /\ p \div n = q + 1
  <2>1. PICK A \in Int, k \in Int : A = B + n /\ k = q + 1
    OBVIOUS
  <2>2. Turn(A, k, n)
    BY <2>1 DEF Turn
  <2>3. A <= p /\ p < A + n => p % n = p - A /\ p \div n = k
    BY <2>2, ModFrom
  <2> QED
    BY <2>1, <2>3
<1> QED
  BY <1>1, <1>2, <1>3 DEF Near

(* Two positions less than the ring apart are different blocks.            *)
LEMMA ModApart ==
    ASSUME NEW n \in Nat \ {0}, NEW p \in Int, NEW x \in Int, p < x, x < p + n
    PROVE  p % n # x % n
<1> PICK q \in Int : q = p \div n
  BY ModSplit
<1> PICK B \in Int : Turn(B, q, n)
  BY DEF Turn
<1>1. p = B + (p % n) /\ p % n \in 0 .. (n - 1)
  BY ModSplit DEF Turn
<1>2. B <= p /\ p < B + n
  BY <1>1
<1>3. Near(p, B, q, n) /\ Near(x, B, q, n)
  BY ModNear
<1> QED
  BY <1>2, <1>3 DEF Near

(* A turn of the ring further is the same block, in the next cycle.        *)
LEMMA ModTurn ==
    ASSUME NEW n \in Nat \ {0}, NEW p \in Int
    PROVE  (p - n) % n = p % n /\ (p - n) \div n = (p \div n) - 1
<1> PICK q \in Int : q = p \div n
  BY ModSplit
<1> PICK B \in Int : Turn(B, q, n)
  BY DEF Turn
<1>1. p = B + (p % n) /\ p % n \in 0 .. (n - 1)
  BY ModSplit DEF Turn
<1>2. B - n <= p - n /\ p - n < B /\ p - n \in Int
  BY <1>1
<1>3. PICK x \in Int : x = p - n
  OBVIOUS
<1>4. Near(x, B, q, n)
  BY <1>2, <1>3, ModNear
<1> QED
  BY <1>1, <1>2, <1>3, <1>4 DEF Near

(* A later position is in no earlier cycle.                                *)
LEMMA DivGrows ==
    ASSUME NEW n \in Nat \ {0}, NEW p \in Int, NEW x \in Int, p <= x
    PROVE  p \div n <= x \div n
<1>1. PICK q \in Int, r \in Int : q = p \div n /\ r = x \div n
  BY ModSplit
<1>2. q * n <= p /\ x < (r + 1) * n
  BY <1>1, ModSplit
<1>3. CASE r < q
  <2>1. (r + 1) * n <= q * n
    BY <1>1, <1>3
  <2> QED
    BY <1>1, <1>2, <2>1
<1> QED
  BY <1>1, <1>3

-----------------------------------------------------------------------------
(* The binary search.                                                      *)

(* The middle is one of the ends, or between them.                         *)
LEMMA Middle ==
    ASSUME NEW f \in Nat, NEW e \in Nat
    PROVE  LET mid == (f + e) \div 2 IN
           /\ mid \in Nat /\ (mid = f \/ mid = e \/ (f < mid /\ mid < e) \/ (e < mid /\ mid < f))
           /\ f < e => f <= mid /\ mid < e
OBVIOUS

(* A turn of the loop of `find_cycle_start`: `s` is what is found from the *)
(* halves.                                                                 *)
Halve(s, f, e, c) ==
    LET mid == (f + e) \div 2
    IN  IF mid \in {f, e} THEN e
        ELSE IF ring[mid].cycle = c THEN s[<<f, mid>>]
        ELSE s[<<mid, e>>]
Pairs == (0..bbs) \X (0..bbs)
Searches(s, c) == s = [x \in Pairs |-> Halve(s, x[1], x[2], c)]
Within(f, e, d) == f - e <= d /\ e - f <= d

(* A turn goes by what is found in shorter stretches.                      *)
LEMMA HalveShorter ==
    ASSUME NEW s, NEW t, NEW c, NEW f \in Nat, NEW e \in Nat, f <= bbs, e <= bbs, bbs \in Nat,
           NEW d \in Nat, Within(f, e, d + 1),
           \A x, y \in 0..bbs : Within(x, y, d) => s[<<x, y>>] = t[<<x, y>>]
    PROVE  Halve(s, f, e, c) = Halve(t, f, e, c)
<1>1. PICK mid : mid = (f + e) \div 2
  OBVIOUS
<1>2. mid \in Nat /\ (mid = f \/ mid = e \/ (f < mid /\ mid < e) \/ (e < mid /\ mid < f))
  BY <1>1, Middle
<1>3. CASE mid \in {f, e}
  BY <1>1, <1>3 DEF Halve
<1>4. CASE mid \notin {f, e}
  <2>1. mid \in 0..bbs /\ Within(f, mid, d) /\ Within(mid, e, d)
    BY <1>2, <1>4 DEF Within
  <2>2. s[<<f, mid>>] = t[<<f, mid>>] /\ s[<<mid, e>>] = t[<<mid, e>>]
    BY <2>1
  <2> QED
    BY <1>1, <1>4, <2>2 DEF Halve
<1> QED
  BY <1>3, <1>4

(* There is such a function: it is built up from the shortest stretches.   *)
LEMMA SearchExists ==
    ASSUME bbs \in Nat, NEW c
    PROVE  \E s : Searches(s, c)
<1> DEFINE Upto(s, d) == \A f, e \in 0..bbs : Within(f, e, d) => s[<<f, e>>] = Halve(s, f, e, c)
           S == {d \in Nat : \E s : Upto(s, d)}
<1>1. 0 \in S
  <2>1. PICK s : s = [x \in Pairs |-> x[2]]
    OBVIOUS
  <2>2. ASSUME NEW f \in 0..bbs, NEW e \in 0..bbs, Within(f, e, 0)
        PROVE  s[<<f, e>>] = Halve(s, f, e, c)
    <3>1. f = e /\ (f + e) \div 2 = f
      BY <2>2 DEF Within
    <3> QED
      BY <2>1, <3>1 DEF Halve, Pairs
  <2> QED
    BY <2>2
<1>2. ASSUME NEW d \in Nat, d \in S
      PROVE  d + 1 \in S
  <2>1. PICK s : Upto(s, d)
    BY <1>2
  <2>2. PICK t : t = [x \in Pairs |->
                        IF Within(x[1], x[2], d) THEN s[x] ELSE Halve(s, x[1], x[2], c)]
    OBVIOUS
  <2>3. \A x, y \in 0..bbs : t[<<x, y>>] = IF Within(x, y, d) THEN s[<<x, y>>] ELSE Halve(s, x, y, c)
    BY <2>2 DEF Pairs
  <2>4. ASSUME NEW f \in 0..bbs, NEW e \in 0..bbs, Within(f, e, d + 1)
        PROVE  t[<<f, e>>] = Halve(t, f, e, c)
    <3>1. t[<<f, e>>] = Halve(s, f, e, c)
      BY <2>1, <2>3
    <3>2. Halve(s, f, e, c) = Halve(t, f, e, c)
      BY <2>3, <2>4, HalveShorter
    <3> QED
      BY <3>1, <3>2
  <2>5. Upto(t, d + 1)
    BY <2>4
  <2> HIDE DEF Upto
  <2> QED
    BY <2>5
<1>3. bbs \in S
  <2> HIDE DEF S
  <2> QED
    BY <1>1, <1>2, SetInduction
<1>4. PICK s : Upto(s, bbs)
  BY <1>3
<1>5. PICK t : t = [x \in Pairs |-> s[x]]
  OBVIOUS
<1>6. ASSUME NEW f \in 0..bbs, NEW e \in 0..bbs
      PROVE  s[<<f, e>>] = Halve(t, f, e, c)
  <2>1. Within(f, e, bbs) /\ Within(f, e, bbs + 1)
    BY DEF Within
  <2>2. \A x, y \in 0..bbs : s[<<x, y>>] = t[<<x, y>>]
    BY <1>5 DEF Pairs
  <2>3. Halve(s, f, e, c) = Halve(t, f, e, c)
    BY <2>1, <2>2, HalveShorter
  <2> QED
    BY <1>4, <2>1, <2>3
<1>7. Searches(t, c)
  BY <1>5, <1>6 DEF Searches, Pairs
<1> QED
  BY <1>7

(* What `find_cycle_start` does is one of them, turn by turn.              *)
LEMMA SearchTurn ==
    ASSUME bbs \in Nat, NEW c
    PROVE  \E s : /\ \A f, e \in 0..bbs : find_cycle_start(f, e, c) = s[<<f, e>>]
                  /\ \A f, e \in 0..bbs : s[<<f, e>>] = Halve(s, f, e, c)
<1>1. PICK s : s = CHOOSE x : Searches(x, c)
  OBVIOUS
<1>2. Searches(s, c)
  BY <1>1, SearchExists
<1>3. \A f, e : find_cycle_start(f, e, c) = s[<<f, e>>]
  BY <1>1 DEF find_cycle_start, Searches, Halve, Pairs
<1>4. \A f, e \in 0..bbs : s[<<f, e>>] = Halve(s, f, e, c)
  BY <1>2 DEF Searches, Pairs
<1> QED
  BY <1>3, <1>4

(* From a block that is not of the cycle to one that is, the search ends   *)
(* where the cycle starts: at some place where it does.                    *)
LEMMA SearchFinds ==
    ASSUME bbs \in Nat, NEW c, NEW first \in 0..bbs, NEW end \in 0..bbs, first < end,
           ring[first].cycle # c, ring[end].cycle = c
    PROVE  LET g == find_cycle_start(first, end, c) IN
           /\ g \in (first + 1)..end
           /\ ring[g].cycle = c /\ ring[g - 1].cycle # c
<1>1. PICK s : /\ \A f, e \in 0..bbs : find_cycle_start(f, e, c) = s[<<f, e>>]
               /\ \A f, e \in 0..bbs : s[<<f, e>>] = Halve(s, f, e, c)
  BY SearchTurn
<1> DEFINE Good(g, f, e) == g \in (f + 1)..e /\ ring[g].cycle = c /\ ring[g - 1].cycle # c
           S == {d \in Nat : \A f, e \in 0..bbs :
                    f < e /\ e - f <= d /\ ring[f].cycle # c /\ ring[e].cycle = c => Good(s[<<f, e>>], f, e)}
<1>2. 0 \in S
  OBVIOUS
<1>3. ASSUME NEW d \in Nat, d \in S
      PROVE  d + 1 \in S
  <2>1. SUFFICES ASSUME NEW f \in 0..bbs, NEW e \in 0..bbs, f < e, e - f <= d + 1,
                        ring[f].cycle # c, ring[e].cycle = c
                 PROVE  Good(s[<<f, e>>], f, e)
    OBVIOUS
  <2>2. PICK mid : mid = (f + e) \div 2
    OBVIOUS
  <2>3. mid \in Nat /\ f <= mid /\ mid < e
    BY <2>1, <2>2, Middle
  <2>4. s[<<f, e>>] = Halve(s, f, e, c)
    BY <1>1
  <2>5. CASE mid = f
    <3>1. e = f + 1
      BY <2>1, <2>2, <2>5
    <3>2. s[<<f, e>>] = e
      BY <2>2, <2>5, <2>4 DEF Halve
    <3>3. e \in (f + 1)..e /\ e - 1 = f
      BY <3>1
    <3>4. Good(e, f, e)
      <4>1. ring[e - 1].cycle # c
        BY <2>1, <3>3, Zenon
      <4> QED
        BY <2>1, <3>3, <4>1, Zenon
    <3> QED
      BY <3>2, <3>4, Zenon
  <2>6. CASE mid # f /\ ring[mid].cycle = c
    <3>1. s[<<f, e>>] = s[<<f, mid>>]
      BY <2>2, <2>3, <2>6, <2>4 DEF Halve
    <3>2. Good(s[<<f, mid>>], f, mid)
      BY <1>3, <2>1, <2>3, <2>6
    <3> QED
      BY <2>3, <3>1, <3>2
  <2>7. CASE mid # f /\ ring[mid].cycle # c
    <3>1. s[<<f, e>>] = s[<<mid, e>>]
      BY <2>2, <2>3, <2>7, <2>4 DEF Halve
    <3>2. Good(s[<<mid, e>>], mid, e)
      BY <1>3, <2>1, <2>3, <2>7
    <3> QED
      BY <2>3, <3>1, <3>2
  <2> QED
    BY <2>5, <2>6, <2>7
<1>4. bbs \in S
  <2> HIDE DEF S
  <2> QED
    BY <1>2, <1>3, SetInduction
<1>5. Good(s[<<first, end>>], first, end)
  BY <1>4
<1> QED
  BY <1>1, <1>5

(* The first turn goes to the left half if the middle is of the cycle.     *)
LEMMA SearchLeft ==
    ASSUME bbs \in Nat, NEW c, NEW end \in 0..bbs, end > 1, ring[end \div 2].cycle = c
    PROVE  find_cycle_start(0, end, c) = find_cycle_start(0, end \div 2, c)
<1>1. PICK s : /\ \A f, e \in 0..bbs : find_cycle_start(f, e, c) = s[<<f, e>>]
               /\ \A f, e \in 0..bbs : s[<<f, e>>] = Halve(s, f, e, c)
  BY SearchTurn
<1>2. PICK mid : mid = end \div 2
  OBVIOUS
<1>3. mid \in 0..bbs /\ mid # 0 /\ mid # end /\ (0 + end) \div 2 = mid
  BY <1>2
<1>4. s[<<0, end>>] = s[<<0, mid>>]
  <2>1. s[<<0, end>>] = Halve(s, 0, end, c)
    BY <1>1
  <2> QED
    BY <1>2, <1>3, <2>1 DEF Halve
<1> QED
  BY <1>1, <1>2, <1>3, <1>4

-----------------------------------------------------------------------------
(* The cycles on the ring, and what is found by them.                      *)

(* A log of at least twice the blocks that the search looks back over.     *)
LongLog ==
    /\ bbs \in Nat /\ RecBbs \in Nat /\ RecBbs > 1 /\ RecBbs < bbs
    /\ total_rec_bbs \in Nat /\ RecBbs <= total_rec_bbs /\ 2 * total_rec_bbs <= bbs

(* The records in flight take h to N - 1, counted on past the end of the   *)
(* ring; U are the blocks of theirs that are not on disk, the rest of the  *)
(* ring is of cycle C before h, of the one before from N on.               *)
CyclesAre(h, N, C, U) ==
    /\ h \in 1..bbs /\ N \in Nat /\ h <= N /\ N - h <= total_rec_bbs
    /\ C \in Nat \ {0} /\ U \subseteq h..(N - 1)
    /\ \A b \in 0..(bbs - 1) :
          /\ b < N - bbs /\ b + bbs \in U => ring[b].cycle = C
          /\ b < N - bbs /\ b + bbs \notin U => ring[b].cycle = C + 1
          /\ b >= N - bbs /\ b < h => ring[b].cycle = C
          /\ b >= h /\ b < N /\ b \notin U => ring[b].cycle = C
          /\ b >= h /\ (b >= N \/ b \in U) => ring[b].cycle = C - 1

(* The first block not on disk, or where the next record goes.             *)
FirstOut(X, N, U) == X \in U \cup {N} /\ \A u \in U : X <= u

(* `find_cycle` finds the first block of the cycle ...                     *)
LEMMA FoundFirst ==
    ASSUME NEW start \in Nat, NEW n \in Int, NEW c, NEW x \in start..(start + n - 1),
           ring[x].cycle = c, \A b \in start..(x - 1) : ring[b].cycle # c
    PROVE  find_cycle(start, n, c) = x
<1> DEFINE hits == {b \in start..(start + n - 1) : ring[b].cycle = c}
<1>1. x \in hits /\ hits \subseteq Nat
  OBVIOUS
<1>2. \A y \in hits : x <= y
  OBVIOUS
<1>3. Min(hits) = x
  <2> HIDE DEF hits
  <2>1. PICK m : m = Min(hits)
    OBVIOUS
  <2>2. m \in hits /\ \A y \in hits : m <= y
    BY <1>1, <2>1, MinOfNats
  <2>3. m \in Nat /\ m <= x /\ x <= m
    BY <1>1, <1>2, <2>2
  <2> QED
    BY <2>1, <2>3
<1> QED
  BY <1>1, <1>3 DEF find_cycle

(* ... or nothing if there is none.                                        *)
LEMMA FoundNone ==
    ASSUME NEW start \in Int, NEW n \in Int, NEW c,
           \A b \in start..(start + n - 1) : ring[b].cycle # c
    PROVE  find_cycle(start, n, c) = None
BY DEF find_cycle

(* Looking back from g, at or after the first block that is not on disk,   *)
(* finds that block.                                                       *)
LEMMA LookBack ==
    ASSUME LongLog, NEW h, NEW N, NEW C, NEW U, CyclesAre(h, N, C, U), NEW X, FirstOut(X, N, U),
           NEW g \in 1..bbs, X <= g, g <= N, NEW n \in Nat, n <= g, n = g \/ n = total_rec_bbs
    PROVE  Found(find_cycle(g - n, n, C - 1), g) = X
<1>1. /\ h \in 1..bbs /\ N \in Nat /\ h <= N /\ N - h <= total_rec_bbs /\ X \in Nat /\ h <= X
      /\ C \in Nat /\ bbs \in Nat /\ total_rec_bbs \in Nat /\ 2 * total_rec_bbs <= bbs
  BY DEF CyclesAre, FirstOut, LongLog
<1>2. g - n \in Nat /\ g - n <= h
  BY <1>1
<1>3. ASSUME NEW b \in 0..(bbs - 1), b < X
      PROVE  ring[b].cycle # C - 1
  <2>1. b \notin U /\ b < N
    BY <1>1, <1>3 DEF FirstOut
  <2> QED
    BY <1>1, <2>1 DEF CyclesAre
<1>4. CASE X < g
  <2>1. X \in U /\ X \in 0..(bbs - 1)
    BY <1>1, <1>4 DEF FirstOut
  <2>2. ring[X].cycle = C - 1
    BY <1>1, <2>1 DEF CyclesAre
  <2>3. X \in (g - n)..((g - n) + n - 1) /\ \A b \in (g - n)..(X - 1) : ring[b].cycle # C - 1
    BY <1>1, <1>2, <1>3, <1>4
  <2>4. find_cycle(g - n, n, C - 1) = X
    BY <1>2, <2>2, <2>3, FoundFirst
  <2> QED
    BY <1>1, <2>4 DEF Found, None
<1>5. CASE X = g
  <2>1. \A b \in (g - n)..((g - n) + n - 1) : ring[b].cycle # C - 1
    BY <1>1, <1>2, <1>3, <1>5
  <2>2. find_cycle(g - n, n, C - 1) = None
    BY <1>2, <2>1, FoundNone
  <2> QED
    BY <1>5, <2>2 DEF Found
<1> QED
  BY <1>1, <1>4, <1>5

(* So does the code's search, round the end of the ring, ...               *)
LEMMA SkippedInCycle ==
    ASSUME LongLog, NEW h, NEW N, NEW C, NEW U, CyclesAre(h, N, C, U), NEW X, FirstOut(X, N, U),
           NEW g \in 1..bbs, X <= g, g <= N
    PROVE  SkippedBlock(g, C - 1) = X
<1>1. /\ h \in 1..bbs /\ N \in Nat /\ h <= N /\ C \in Nat
      /\ bbs \in Nat /\ total_rec_bbs \in Nat /\ 2 * total_rec_bbs <= bbs
  BY DEF CyclesAre, LongLog
<1>2. Least(total_rec_bbs, bbs) = total_rec_bbs
  BY <1>1 DEF Least
<1>3. CASE g >= total_rec_bbs
  <2>1. Found(find_cycle(g - total_rec_bbs, total_rec_bbs, C - 1), g) = X
    BY <1>1, <1>3, LookBack
  <2> QED
    BY <1>2, <1>3, <2>1 DEF SkippedBlock
<1>4. CASE g < total_rec_bbs
  <2>1. Found(find_cycle(g - g, g, C - 1), g) = X
    BY <1>1, LookBack
  <2>2. \A b \in 0..(bbs - 1) : ring[b].cycle # (C - 1) - 1
    BY <1>1 DEF CyclesAre
  <2>3. PICK m \in Int : m = total_rec_bbs - g
    BY <1>1
  <2>4. find_cycle(bbs - m, m, (C - 1) - 1) = None
    <3>1. \A b \in (bbs - m)..((bbs - m) + m - 1) : ring[b].cycle # (C - 1) - 1
      BY <1>1, <1>4, <2>2, <2>3
    <3> QED
      BY <1>1, <3>1, FoundNone
  <2>5. g - g = 0 /\ ~ (g >= total_rec_bbs)
    BY <1>1, <1>4
  <2> QED
    BY <1>2, <2>1, <2>3, <2>4, <2>5 DEF SkippedBlock
<1> QED
  BY <1>1, <1>3, <1>4

(* ... also when it has come to the next cycle at the start of the ring.   *)
LEMMA SkippedPast ==
    ASSUME LongLog, NEW h, NEW N, NEW C, NEW U, CyclesAre(h, N, C, U), NEW X, FirstOut(X, N, U),
           NEW g \in 1..bbs, X <= g + bbs, g <= N - bbs, X # bbs
    PROVE  SkippedBlock(g, C) = IF X < bbs THEN X ELSE X - bbs
<1>1. /\ h \in 1..bbs /\ N \in Nat /\ h <= N /\ N - h <= total_rec_bbs /\ X \in Nat /\ h <= X
      /\ C \in Nat /\ bbs \in Nat /\ total_rec_bbs \in Nat /\ 2 * total_rec_bbs <= bbs
  BY DEF CyclesAre, FirstOut, LongLog
<1>2. Least(total_rec_bbs, bbs) = total_rec_bbs
  BY <1>1 DEF Least
<1>3. g <= total_rec_bbs
  BY <1>1
<1>4. X > bbs => Found(find_cycle(0, g, C), g) = X - bbs
  <2>1. SUFFICES ASSUME X > bbs PROVE Found(find_cycle(0, g, C), g) = X - bbs
    OBVIOUS
  <2>2. ASSUME NEW b \in 0..(bbs - 1), b < X - bbs
        PROVE  ring[b].cycle # C
    <3>1. b + bbs \notin U /\ b < N - bbs
      BY <1>1, <2>2 DEF FirstOut
    <3> QED
      BY <1>1, <3>1 DEF CyclesAre
  <2>3. CASE X < g + bbs
    <3>1. X \in U /\ X - bbs \in 0..(bbs - 1)
      BY <1>1, <2>1, <2>3 DEF FirstOut
    <3>2. PICK b \in 0..(bbs - 1) : b = X - bbs
      BY <3>1
    <3>3. b < N - bbs /\ b + bbs \in U
      BY <1>1, <2>3, <3>1, <3>2
    <3>4. ring[b].cycle = C
      BY <1>1, <3>3 DEF CyclesAre
    <3>5. PICK z \in Nat : z = 0
      OBVIOUS
    <3>6. b \in z..(z + g - 1) /\ \A x \in z..(b - 1) : ring[x].cycle # C
      BY <1>1, <2>2, <2>3, <3>2, <3>5
    <3>7. find_cycle(z, g, C) = b
      BY <1>1, <3>4, <3>6, FoundFirst
    <3> QED
      BY <1>1, <3>2, <3>5, <3>7 DEF Found, None
  <2>4. CASE X = g + bbs
    <3>1. \A b \in 0..(0 + g - 1) : ring[b].cycle # C
      BY <1>1, <2>2, <2>4
    <3>2. find_cycle(0, g, C) = None
      BY <3>1, FoundNone
    <3> QED
      BY <1>1, <2>4, <3>2 DEF Found
  <2> QED
    BY <1>1, <2>3, <2>4
<1>5. CASE g = total_rec_bbs
  <2>1. X > bbs
    BY <1>1, <1>5
  <2>2. g >= total_rec_bbs /\ g - total_rec_bbs = 0
    BY <1>1, <1>5
  <2> QED
    BY <1>1, <1>2, <1>4, <1>5, <2>1, <2>2 DEF SkippedBlock
<1>6. CASE g < total_rec_bbs
  <2>1. PICK m \in Int : m = total_rec_bbs - g
    BY <1>1
  <2>2. bbs - m \in Nat /\ bbs - m <= h /\ (bbs - m) + m - 1 = bbs - 1 /\ bbs - m >= N - bbs
    BY <1>1, <2>1
  <2>3. ASSUME NEW b \in (bbs - m)..(bbs - 1), b < X
        PROVE  ring[b].cycle # C - 1
    <3>1. b \notin U /\ b < N /\ b \in 0..(bbs - 1)
      BY <1>1, <2>2, <2>3 DEF FirstOut
    <3> QED
      BY <1>1, <2>2, <3>1 DEF CyclesAre
  <2>4. ~ (g >= total_rec_bbs)
    BY <1>1, <1>6
  <2>5. CASE X < bbs
    <3>1. X \in U /\ X \in 0..(bbs - 1)
      BY <1>1, <2>5 DEF FirstOut
    <3>2. ring[X].cycle = C - 1
      BY <1>1, <3>1 DEF CyclesAre
    <3>3. PICK s \in Nat : s = bbs - m
      BY <2>2
    <3>4. X \in s..(s + m - 1) /\ \A b \in s..(X - 1) : ring[b].cycle # C - 1
      BY <1>1, <2>2, <2>3, <2>5, <3>3
    <3>5. find_cycle(bbs - m, m, C - 1) = X
      <4>1. PICK c : c = C - 1
        OBVIOUS
      <4>2. ring[X].cycle = c /\ \A b \in s..(X - 1) : ring[b].cycle # c
        BY <3>2, <3>4, <4>1, Zenon
      <4>3. find_cycle(s, m, c) = X
        BY <3>4, <4>2, FoundFirst
      <4> QED
        BY <3>3, <4>1, <4>3, Zenon
    <3>6. X # None
      BY <1>1 DEF None
    <3> QED
      BY <1>2, <2>1, <2>4, <2>5, <3>5, <3>6 DEF SkippedBlock
  <2>6. CASE X > bbs
    <3>1. \A b \in (bbs - m)..((bbs - m) + m - 1) : ring[b].cycle # C - 1
      BY <1>1, <2>2, <2>3, <2>6
    <3>2. find_cycle(bbs - m, m, C - 1) = None
      BY <1>1, <3>1, FoundNone
    <3>3. ~ (X < bbs)
      BY <1>1, <2>6
    <3> QED
      BY <1>2, <1>4, <2>1, <2>4, <2>6, <3>2, <3>3 DEF SkippedBlock
  <2> QED
    BY <1>1, <2>5, <2>6
<1> QED
  BY <1>1, <1>3, <1>5, <1>6

(* The first block is in the cycle of the blocks before h, or the next.    *)
LEMMA FirstCycle ==
    ASSUME LongLog, NEW h, NEW N, NEW C, NEW U, CyclesAre(h, N, C, U)
    PROVE  /\ ring[0].cycle \in {C, C + 1} /\ C \in Nat \ {0}
           /\ ring[0].cycle = C + 1 => N > bbs /\ bbs \notin U
           /\ ring[0].cycle = C => N <= bbs \/ bbs \in U
<1>1. /\ h \in 1..bbs /\ N \in Nat /\ C \in Nat \ {0} /\ bbs \in Nat /\ bbs > 1
  BY DEF CyclesAre, LongLog
<1>2. 0 \in 0..(bbs - 1) /\ 0 < h /\ (0 < N - bbs <=> N > bbs) /\ 0 + bbs = bbs
      /\ (0 >= N - bbs <=> N <= bbs)
  BY <1>1
<1>3. /\ 0 < N - bbs /\ 0 + bbs \in U => ring[0].cycle = C
      /\ 0 < N - bbs /\ 0 + bbs \notin U => ring[0].cycle = C + 1
      /\ 0 >= N - bbs /\ 0 < h => ring[0].cycle = C
  BY <1>2 DEF CyclesAre
<1> QED
  BY <1>1, <1>2, <1>3

(* The last is in that cycle if all before it are on disk, and else in the *)
(* one before.                                                             *)
LEMMA LastCycle ==
    ASSUME LongLog, NEW h, NEW N, NEW C, NEW U, CyclesAre(h, N, C, U)
    PROVE  /\ ring[bbs - 1].cycle \in {C, C - 1}
           /\ ring[bbs - 1].cycle = C => N >= bbs
<1>1. /\ h \in 1..bbs /\ N \in Nat /\ h <= N /\ N - h <= total_rec_bbs /\ C \in Nat \ {0}
      /\ bbs \in Nat /\ total_rec_bbs \in Nat /\ total_rec_bbs > 1 /\ 2 * total_rec_bbs <= bbs
  BY DEF CyclesAre, LongLog
<1>2. PICK b \in 0..(bbs - 1) : b = bbs - 1
  BY <1>1
<1>3. b >= N - bbs
  BY <1>1, <1>2
<1>4. /\ b >= N - bbs /\ b < h => ring[b].cycle = C
      /\ b >= h /\ b < N /\ b \notin U => ring[b].cycle = C
      /\ b >= h /\ (b >= N \/ b \in U) => ring[b].cycle = C - 1
  BY DEF CyclesAre
<1> QED
  BY <1>1, <1>2, <1>3, <1>4

(* Where the binary search ends, if the last block is in the cycle before. *)
LEMMA GuessInCycle ==
    ASSUME LongLog, NEW h, NEW N, NEW C, NEW U, CyclesAre(h, N, C, U), NEW X, FirstOut(X, N, U),
           ring[bbs - 1].cycle = C - 1
    PROVE  LET g == find_cycle_start(0, bbs - 1, C - 1) IN g \in 1..(bbs - 1) /\ X <= g /\ g <= N
<1>1. /\ h \in 1..bbs /\ N \in Nat /\ h <= N /\ C \in Nat \ {0} /\ bbs \in Nat /\ bbs > 1
      /\ U \subseteq Nat /\ X \in Nat /\ X <= N
  BY DEF CyclesAre, LongLog, FirstOut
<1>2. ring[0].cycle # C - 1
  BY <1>1, FirstCycle
<1>3. PICK g : g = find_cycle_start(0, bbs - 1, C - 1)
  OBVIOUS
<1>4. PICK z \in 0..bbs, e \in 0..bbs : z = 0 /\ e = bbs - 1
  BY <1>1
<1>5. /\ g \in (z + 1)..e /\ ring[g].cycle = C - 1 /\ ring[g - 1].cycle # C - 1
  BY <1>1, <1>2, <1>3, <1>4, SearchFinds
<1>6. g \in 1..(bbs - 1) /\ g \in 0..(bbs - 1) /\ g - 1 \in 0..(bbs - 1)
  BY <1>1, <1>4, <1>5
<1>7. g >= h /\ (g >= N \/ g \in U)
  BY <1>1, <1>5, <1>6 DEF CyclesAre
<1>8. X <= g
  BY <1>1, <1>6, <1>7 DEF FirstOut
<1>9. g <= N
  <2>1. PICK y \in 0..(bbs - 1) : y = g - 1
    BY <1>6
  <2>2. ~ (y >= h /\ y >= N)
    BY <1>5, <2>1 DEF CyclesAre
  <2> QED
    BY <1>1, <1>6, <2>1, <2>2
<1> QED
  BY <1>3, <1>6, <1>8, <1>9

(* And where it ends if the first is in the next cycle.                    *)
LEMMA GuessPast ==
    ASSUME LongLog, NEW h, NEW N, NEW C, NEW U, CyclesAre(h, N, C, U), NEW X, FirstOut(X, N, U),
           ring[bbs - 1].cycle = C, ring[0].cycle # C
    PROVE  LET g == find_cycle_start(0, bbs - 1, C) IN
           g \in 1..bbs /\ X <= g + bbs /\ g <= N - bbs /\ X # bbs
<1>1. /\ h \in 1..bbs /\ N \in Nat /\ h <= N /\ N - h <= total_rec_bbs /\ C \in Nat \ {0}
      /\ bbs \in Nat /\ total_rec_bbs \in Nat /\ total_rec_bbs > 1 /\ 2 * total_rec_bbs <= bbs
      /\ U \subseteq Nat /\ X \in Nat /\ X <= N
  BY DEF CyclesAre, LongLog, FirstOut
<1>2. N > bbs /\ bbs \notin U
  BY FirstCycle
<1>3. X # bbs
  BY <1>1, <1>2 DEF FirstOut
<1>4. PICK z \in 0..bbs, e \in 0..bbs, mid \in 0..bbs : z = 0 /\ e = bbs - 1 /\ mid = e \div 2
  BY <1>1
<1>5. 0 < mid /\ mid < e /\ 2 * mid <= e /\ e <= 2 * mid + 1
  BY <1>1, <1>4
<1>6. PICK g : g = find_cycle_start(z, e, C)
  OBVIOUS
<1>7. g \in 1..(bbs - 1) /\ g < h /\ ring[g].cycle = C /\ ring[g - 1].cycle # C
  <2>1. CASE h = bbs
    <3>1. g \in (z + 1)..e /\ ring[g].cycle = C /\ ring[g - 1].cycle # C
      BY <1>1, <1>4, <1>5, <1>6, SearchFinds
    <3> QED
      BY <1>1, <1>4, <2>1, <3>1
  <2>2. CASE h < bbs
    <3>1. mid >= N - bbs /\ mid < h /\ mid \in 0..(bbs - 1)
      BY <1>1, <1>2, <1>4, <1>5, <2>2
    <3>2. ring[mid].cycle = C
      BY <3>1 DEF CyclesAre
    <3>3. g = find_cycle_start(z, mid, C)
      BY <1>1, <1>4, <1>5, <1>6, <3>2, SearchLeft
    <3>4. g \in (z + 1)..mid /\ ring[g].cycle = C /\ ring[g - 1].cycle # C
      BY <1>1, <1>4, <1>5, <3>2, <3>3, SearchFinds
    <3> QED
      BY <1>1, <1>4, <3>1, <3>4
  <2> QED
    BY <1>1, <2>1, <2>2
<1>8. PICK y \in 0..(bbs - 1) : y = g - 1
  BY <1>1, <1>7
<1>9. y < h /\ y < N - bbs
  BY <1>1, <1>7, <1>8 DEF CyclesAre
<1>10. X <= g + bbs
  <2>1. CASE g < N - bbs
    <3>1. g + bbs \in U
      BY <1>1, <1>7, <2>1 DEF CyclesAre
    <3> QED
      BY <3>1 DEF FirstOut
  <2> QED
    BY <1>1, <1>7, <2>1
<1> QED
  BY <1>1, <1>3, <1>4, <1>6, <1>7, <1>8, <1>9, <1>10

(* Where the head is by the cycles alone.                                  *)
HeadByCycles ==
    LET one   == ring[0].cycle = ring[bbs - 1].cycle
        guess == IF one THEN bbs ELSE find_cycle_start(0, bbs - 1, ring[bbs - 1].cycle)
        stop  == IF one THEN ring[bbs - 1].cycle - 1 ELSE ring[bbs - 1].cycle
    IN  SkippedBlock(guess, stop)

(* `find_head` backs up from there to a record, if the log has been round. *)
LEMMA FindHeadIs ==
    find_head = IF ring[0].cycle = 0 THEN None
                ELSE IF ring[bbs - 1].cycle = 0 THEN FindZeroed
                ELSE IF NotInsideRecord(HeadByCycles) = bbs THEN 0
                ELSE NotInsideRecord(HeadByCycles)
BY DEF find_head, HeadByCycles

(* The cycles lead to the first block not on disk, in all three cases.     *)
LEMMA HeadOut ==
    ASSUME LongLog, NEW h, NEW N, NEW C, NEW U, CyclesAre(h, N, C, U), NEW X, FirstOut(X, N, U)
    PROVE  HeadByCycles = IF X <= bbs THEN X ELSE X - bbs
<1>1. ring[0].cycle \in {C, C + 1} /\ ring[bbs - 1].cycle \in {C, C - 1} /\ C \in Nat \ {0}
  BY FirstCycle, LastCycle
<1>2. X \in Nat /\ X <= N /\ N \in Nat /\ bbs \in Nat /\ bbs > 1
  BY DEF CyclesAre, FirstOut, LongLog
<1>3. CASE ring[bbs - 1].cycle = C - 1
  <2>1. ring[0].cycle # ring[bbs - 1].cycle
    BY <1>1, <1>3
  <2>2. PICK g : g = find_cycle_start(0, bbs - 1, C - 1)
    OBVIOUS
  <2>3. g \in 1..(bbs - 1) /\ X <= g /\ g <= N
    BY <1>3, <2>2, GuessInCycle
  <2>4. g \in 1..bbs
    BY <1>2, <2>3
  <2>5. SkippedBlock(g, C - 1) = X
    BY <2>3, <2>4, SkippedInCycle
  <2>6. X <= bbs
    BY <1>2, <2>3
  <2> QED
    BY <1>3, <2>1, <2>2, <2>5, <2>6 DEF HeadByCycles
<1>4. CASE ring[bbs - 1].cycle = C /\ ring[0].cycle = C
  <2>1. X <= bbs /\ bbs <= N /\ bbs \in 1..bbs
    BY <1>2, <1>4, FirstCycle, LastCycle DEF FirstOut
  <2>2. SkippedBlock(bbs, C - 1) = X
    BY <2>1, SkippedInCycle
  <2> QED
    BY <1>4, <2>1, <2>2 DEF HeadByCycles
<1>5. CASE ring[bbs - 1].cycle = C /\ ring[0].cycle # C
  <2>1. PICK g : g = find_cycle_start(0, bbs - 1, C)
    OBVIOUS
  <2>2. g \in 1..bbs /\ X <= g + bbs /\ g <= N - bbs /\ X # bbs
    BY <1>5, <2>1, GuessPast
  <2>3. SkippedBlock(g, C) = IF X < bbs THEN X ELSE X - bbs
    BY <2>2, SkippedPast
  <2>4. HeadByCycles = SkippedBlock(g, C)
    BY <1>5, <2>1 DEF HeadByCycles
  <2>5. X < bbs <=> X <= bbs
    BY <1>2, <2>2
  <2> QED
    BY <2>3, <2>4, <2>5
<1> QED
  BY <1>1, <1>3, <1>4, <1>5

-----------------------------------------------------------------------------
(* Backing up to a record.                                                 *)

(* The last header, m, starts a record that ends at `to` or does not.      *)
LEMMA BackUp ==
    ASSUME NEW start \in Nat, NEW to \in Nat, NEW extra, NEW m \in start..(to - 1),
           HasMagic(ring[m]), \A b \in (m + 1)..(to - 1) : ~ HasMagic(ring[b])
    PROVE  back_up_to_record(start, to, extra)
             = IF to - m + extra # Total(ring[m].header) THEN m ELSE to
<1> DEFINE headers == {b \in start..(to - 1) : HasMagic(ring[b])}
<1>1. m \in headers /\ headers \subseteq Nat /\ \A b \in headers : b <= m
  OBVIOUS
<1>2. Max(headers) = m
  <2> HIDE DEF headers
  <2>1. PICK x : x = Max(headers)
    OBVIOUS
  <2>2. m \in Nat /\ x \in headers /\ \A y \in headers : y <= x
    BY <1>1, <2>1, MaxOfNats
  <2>3. x \in Nat /\ m <= x /\ x <= m
    BY <1>1, <2>2
  <2> QED
    BY <2>1, <2>2, <2>3
<1> QED
  BY <1>1, <1>2 DEF back_up_to_record

(* Without a header there is nothing to back up to.                        *)
LEMMA BackUpNone ==
    ASSUME NEW start, NEW to, NEW extra, \A b \in start..(to - 1) : ~ HasMagic(ring[b])
    PROVE  back_up_to_record(start, to, extra) = IF start = 0 THEN None ELSE Corrupt
BY DEF back_up_to_record

(* The last header before block Y, round the end of the ring, is d blocks  *)
(* before it, in block m.                                                  *)
HeaderAt(Y, d, m) ==
    /\ Y \in 1..bbs /\ d \in 1..RecBbs
    /\ d <= Y => m = Y - d /\ \A b \in (m + 1)..(Y - 1) : ~ HasMagic(ring[b])
    /\ d > Y => m = bbs + Y - d /\ \A b \in 0..(Y - 1) \cup (m + 1)..(bbs - 1) : ~ HasMagic(ring[b])
    /\ HasMagic(ring[m])

(* The head is moved there, unless that record ends where it was.          *)
LEMMA NotInside ==
    ASSUME LongLog, NEW Y, NEW d, NEW m, HeaderAt(Y, d, m)
    PROVE  NotInsideRecord(Y) = IF d # Total(ring[m].header) THEN m ELSE Y
<1>1. /\ Y \in 1..bbs /\ d \in 1..RecBbs /\ bbs \in Nat /\ RecBbs \in Nat /\ RecBbs < bbs
      /\ HasMagic(ring[m])
  BY DEF LongLog, HeaderAt
<1>2. PICK t : t = Total(ring[m].header)
  OBVIOUS
<1>3. CASE d <= Y
  <2>1. m = Y - d /\ m \in Nat /\ \A b \in (m + 1)..(Y - 1) : ~ HasMagic(ring[b])
    BY <1>1, <1>3 DEF HeaderAt
  <2>2. PICK s \in Nat : s = IF Y >= RecBbs THEN Y - RecBbs ELSE 0
    BY <1>1
  <2>3. m \in s..(Y - 1) /\ Y - m + 0 = d
    BY <1>1, <2>1, <2>2
  <2>4. back_up_to_record(s, Y, 0) = IF Y - m + 0 # t THEN m ELSE Y
    BY <1>1, <1>2, <2>1, <2>3, BackUp
  <2>5. m # None /\ Y # None
    BY <1>1, <2>1 DEF None
  <2> QED
    BY <1>2, <2>2, <2>3, <2>4, <2>5 DEF NotInsideRecord
<1>4. CASE d > Y
  <2>1. m = bbs + Y - d /\ m \in Nat
        /\ \A b \in 0..(Y - 1) \cup (m + 1)..(bbs - 1) : ~ HasMagic(ring[b])
    BY <1>1, <1>4 DEF HeaderAt
  <2>2. back_up_to_record(0, Y, 0) = None
    BY <2>1, BackUpNone
  <2>3. PICK s \in Nat : s = bbs - (RecBbs - Y)
    BY <1>1
  <2>4. m \in s..(bbs - 1) /\ bbs - m + Y = d
    BY <1>1, <1>4, <2>1, <2>3
  <2>5. back_up_to_record(s, bbs, Y) = IF bbs - m + Y # t THEN m ELSE bbs
    BY <1>1, <1>2, <2>1, <2>4, BackUp
  <2>6. m # None /\ bbs # None /\ m # bbs /\ ~ (Y >= RecBbs)
    BY <1>1, <1>4, <2>1, <2>4 DEF None
  <2> QED
    BY <1>2, <2>2, <2>3, <2>4, <2>5, <2>6 DEF NotInsideRecord
<1> QED
  BY <1>1, <1>3, <1>4

(* The zeroes: backing up may find no header among the blocks looked at.   *)
LEMMA ZeroedHead ==
    ASSUME LongLog, NEW h, NEW N, NEW C, NEW U, CyclesAre(h, N, C, U), NEW X, FirstOut(X, N, U),
           ring[bbs - 1].cycle = 0, NEW d, NEW m, HeaderAt(X, d, m), d <= X
    PROVE  /\ FindZeroed \in {Corrupt, IF d # Total(ring[m].header) THEN m ELSE X} /\ X < bbs
           /\ N - m <= total_rec_bbs => FindZeroed # Corrupt
<1>1. ring[bbs - 1].cycle \in {C, C - 1} /\ C \in Nat \ {0}
  BY FirstCycle, LastCycle
<1>2. C - 1 = 0
  BY <1>1
<1>3. PICK g : g = find_cycle_start(0, bbs - 1, C - 1)
  OBVIOUS
<1>4. g \in 1..(bbs - 1) /\ X <= g /\ g <= N
  BY <1>2, <1>3, GuessInCycle
<1>5. /\ N \in Nat /\ X \in Nat /\ bbs \in Nat /\ total_rec_bbs \in Nat /\ d \in 1..RecBbs /\ RecBbs \in Nat
      /\ m = X - d /\ HasMagic(ring[m]) /\ \A b \in (m + 1)..(X - 1) : ~ HasMagic(ring[b])
  BY DEF CyclesAre, FirstOut, LongLog, HeaderAt
<1>6. PICK n \in Nat : n = Least(total_rec_bbs, g)
  BY <1>4, <1>5 DEF Least
<1>7. n <= g /\ (n = g \/ n = total_rec_bbs) /\ g \in 1..bbs
  BY <1>4, <1>5, <1>6 DEF Least
<1>8. Found(find_cycle(g - n, n, C - 1), g) = X
  BY <1>4, <1>7, LookBack
<1>9. PICK s \in Nat : s = g - n
  BY <1>4, <1>7
<1>10. PICK to : to = back_up_to_record(s, X, 0)
  OBVIOUS
<1>11. FindZeroed = IF to = None THEN Corrupt ELSE to
  BY <1>2, <1>3, <1>6, <1>8, <1>9, <1>10 DEF FindZeroed
<1>12. CASE m >= s
  <2>1. m \in s..(X - 1) /\ X - m + 0 = d
    BY <1>5, <1>9, <1>12
  <2>2. to = IF X - m + 0 # Total(ring[m].header) THEN m ELSE X
    BY <1>5, <1>10, <2>1, BackUp
  <2>3. m # None /\ X # None /\ m # Corrupt /\ X # Corrupt
    BY <1>5, <1>9, <1>12 DEF None, Corrupt
  <2> QED
    BY <1>4, <1>5, <1>11, <2>1, <2>2, <2>3
<1>13. CASE m < s
  <2>1. \A b \in s..(X - 1) : ~ HasMagic(ring[b])
    BY <1>5, <1>9, <1>13
  <2>2. to \in {None, Corrupt}
    BY <1>10, <2>1, BackUpNone
  <2>3. FindZeroed = Corrupt
    BY <1>11, <2>2
  <2>4. ~ (N - m <= total_rec_bbs)
    BY <1>4, <1>5, <1>7, <1>9, <1>13
  <2> QED
    BY <1>4, <1>5, <2>3, <2>4
<1> QED
  BY <1>5, <1>9, <1>12, <1>13

(* The cycles and the headers together: the head is the last header before *)
(* the first block not on disk, or that block if its record is whole.      *)
LEMMA HeadFound ==
    ASSUME LongLog, NEW h, NEW N, NEW C, NEW U, CyclesAre(h, N, C, U), NEW X, FirstOut(X, N, U),
           NEW Y, Y = (IF X <= bbs THEN X ELSE X - bbs),
           NEW d, NEW m, HeaderAt(Y, d, m), C = 1 /\ X <= bbs => d <= Y,
           NEW r, r = IF d # Total(ring[m].header) THEN m ELSE IF Y = bbs THEN 0 ELSE Y
    PROVE  /\ find_head \in {r, Corrupt}
           /\ (C = 1 /\ X <= bbs => N - m <= total_rec_bbs) => find_head = r
<1>1. ring[0].cycle \in {C, C + 1} /\ ring[bbs - 1].cycle \in {C, C - 1} /\ C \in Nat \ {0}
  BY FirstCycle, LastCycle
<1>2. ring[0].cycle # 0
  BY <1>1
<1>3. /\ Y \in 1..bbs /\ d \in 1..RecBbs /\ bbs \in Nat /\ RecBbs \in Nat /\ RecBbs < bbs /\ m # bbs
  BY DEF LongLog, HeaderAt
<1>4. CASE ring[bbs - 1].cycle = 0
  <2>1. C = 1
    BY <1>1, <1>4
  <2>2. X <= bbs
    <3>1. X <= find_cycle_start(0, bbs - 1, C - 1) /\ find_cycle_start(0, bbs - 1, C - 1) \in 1..(bbs - 1)
      BY <1>4, <2>1, GuessInCycle
    <3>2. h \in 1..bbs /\ N \in Nat /\ U \subseteq h..(N - 1) /\ X \in U \cup {N}
      BY DEF CyclesAre, FirstOut
    <3>3. X \in Nat
      BY <1>3, <3>2
    <3> QED
      BY <1>3, <3>1, <3>3
  <2>3. Y = X
    BY <2>2
  <2>4. /\ FindZeroed \in {Corrupt, IF d # Total(ring[m].header) THEN m ELSE X} /\ X < bbs
        /\ N - m <= total_rec_bbs => FindZeroed # Corrupt
    BY <1>4, <2>1, <2>2, <2>3, ZeroedHead
  <2>5. X # bbs
    BY <1>3, <2>3, <2>4
  <2>6. find_head = FindZeroed
    BY <1>2, <1>4, FindHeadIs
  <2> QED
    BY <2>1, <2>2, <2>3, <2>4, <2>5, <2>6
<1>5. CASE ring[bbs - 1].cycle # 0
  <2>1. HeadByCycles = Y
    BY HeadOut
  <2>2. NotInsideRecord(Y) = IF d # Total(ring[m].header) THEN m ELSE Y
    BY NotInside
  <2> QED
    BY <1>2, <1>3, <1>5, <2>1, <2>2, FindHeadIs
<1> QED
  BY <1>4, <1>5

-----------------------------------------------------------------------------
(* The log as it is written: the inductive invariant.                      *)

(* The oldest position of the records in flight, where a record ends, and  *)
(* the positions that are not on disk.                                     *)
Oldest == IF flight = <<>> THEN next ELSE flight[1].at
EndOf(f) == f.at + Total(f.rec.header)
Flight == 1..Len(flight)
OutOf(f) == {f.at + i : i \in f.left}
Out == UNION {OutOf(flight[k]) : k \in Flight}

(* Records have a header and something in it, and a tail that was reached. *)
HeaderOK(h) == h \in Header /\ h.hblks >= 1 /\ h.len >= 1 /\ Total(h) <= RecBbs
TailOK(h, end) == \E t \in Nat : t <= tail /\ h.tail = t % bbs /\ end - t < bbs
FlightRecs == [at : Nat, rec : [header : Header, unmount : BOOLEAN], left : SUBSET Nat]

LogNumbers ==
    /\ bbs \in Sizes /\ tail \in Nat /\ last \in Nat /\ next \in Nat
    /\ tail <= last /\ last < Oldest /\ Oldest <= next /\ next - tail < bbs
    /\ records \in 0..MaxRecords /\ mount \in {"mounted", "unmounting", "unmounted"}

(* The records in flight follow one another up to `next`.                  *)
FlightOK(k) ==
    LET f == flight[k] IN
    /\ HeaderOK(f.rec.header) /\ f.left \subseteq 0..(Total(f.rec.header) - 1)
    /\ f.rec.unmount => f.rec.header.single
    /\ TailOK(f.rec.header, EndOf(f))
    /\ EndOf(f) = (IF k = Len(flight) THEN next ELSE flight[k + 1].at)
    /\ EndOf(f) <= next
    /\ next - f.at <= (Len(flight) - k + 1) * RecBbs
FlightInv ==
    /\ flight \in Seq(FlightRecs) /\ Len(flight) <= MaxIclogs
    /\ \A k \in Flight : FlightOK(k)
    /\ \A j, k \in Flight : j < k => EndOf(flight[j]) <= flight[k].at

(* Every block is of the cycle of its newest position, or of the one       *)
(* before if that is not on disk, ...                                      *)
RingType ==
    ring \in [0..(bbs - 1) -> [cycle : 0..CycleAt(next), header : Header, unmount : BOOLEAN]]
Cycles ==
    \A p \in (next - bbs)..(next - 1) :
        ring[p % bbs].cycle = IF p \in Out THEN CycleAt(p) - 1 ELSE CycleAt(p)

(* ... what is on disk of a record in flight is what it was stamped with,  *)
(* and the record before them is whole.                                    *)
Stamps ==
    \A k \in Flight : \A i \in 0..(Total(flight[k].rec.header) - 1) :
        i \notin flight[k].left => ring[(flight[k].at + i) % bbs] = Stamped(flight[k].at, flight[k].rec, i)
LastInv ==
    LET h == ring[last % bbs].header IN
    /\ HeaderOK(h) /\ last + Total(h) = Oldest /\ TailOK(h, Oldest)
    /\ \A p \in (last + 1)..(Oldest - 1) : ~ HasMagic(ring[p % bbs])
    /\ ring[(last + h.hblks) % bbs].unmount => h.single

LogInv == LogNumbers /\ FlightInv /\ RingType /\ Cycles /\ Stamps /\ LastInv

-----------------------------------------------------------------------------
(* What the invariant says of the sizes and of the records in flight.      *)

(* A log has more blocks than a record.                                    *)
LEMMA Sized ==
    ASSUME bbs \in Sizes
    PROVE  /\ bbs \in Nat \ {0} /\ RecBbs \in Nat /\ RecBbs > 1 /\ RecBbs < bbs
           /\ MaxIclogs \in Nat \ {0} /\ MaxRecords \in Nat
BY LogAssumption

(* A header is of a number of blocks, at least two.                        *)
LEMMA HeaderFields ==
    ASSUME bbs \in Sizes, NEW h, HeaderOK(h)
    PROVE  /\ h.hblks \in Nat /\ h.len \in Nat /\ h.hblks >= 1 /\ h.len >= 1
           /\ Total(h) \in Nat /\ Total(h) = h.hblks + h.len /\ Total(h) <= RecBbs /\ h.hblks < Total(h)
           /\ h.single \in BOOLEAN /\ h.tail \in 0..(bbs - 1) /\ h # NoHeader
<1>1. RecBbs \in Nat
  BY Sized
<1>2. h \in Header /\ h.hblks >= 1 /\ h.len >= 1 /\ Total(h) <= RecBbs
  BY DEF HeaderOK
<1>3. h.hblks \in 0..RecBbs /\ h.len \in 0..RecBbs /\ h.single \in BOOLEAN /\ h.tail \in 0..(bbs - 1)
  BY <1>2 DEF Header
<1>4. NoHeader.hblks = 0
  BY DEF NoHeader
<1> QED
  BY <1>1, <1>2, <1>3, <1>4 DEF Total

(* A record in flight lies between the oldest and `next`.                  *)
LEMMA FlightFields ==
    ASSUME LogNumbers, FlightInv, NEW k \in Flight
    PROVE  LET f == flight[k] IN
           /\ f \in FlightRecs /\ f.at \in Nat /\ Total(f.rec.header) \in Nat
           /\ EndOf(f) = f.at + Total(f.rec.header) /\ EndOf(f) \in Nat /\ f.at + 2 <= EndOf(f)
           /\ Oldest <= f.at /\ EndOf(f) <= next /\ f.left \subseteq 0..(Total(f.rec.header) - 1)
           /\ HeaderOK(f.rec.header)
<1>1. bbs \in Sizes /\ FlightOK(k) /\ flight[k] \in FlightRecs
  BY DEF LogNumbers, FlightInv, Flight
<1>2. PICK f, h : f = flight[k] /\ h = f.rec.header
  OBVIOUS
<1>3. /\ HeaderOK(h) /\ f.left \subseteq 0..(Total(h) - 1) /\ EndOf(f) <= next
  BY <1>1, <1>2 DEF FlightOK
<1>4. Total(h) \in Nat /\ h.hblks >= 1 /\ h.len >= 1 /\ Total(h) >= 2
  BY <1>1, <1>3, HeaderFields
<1>5. f.at \in Nat
  BY <1>1, <1>2 DEF FlightRecs
<1>6. EndOf(f) = f.at + Total(h) /\ EndOf(f) \in Nat /\ f.at + 2 <= EndOf(f)
  BY <1>2, <1>4, <1>5 DEF EndOf
<1>7. Oldest <= f.at
  <2>1. CASE k = 1
    BY <1>2, <1>5, <2>1 DEF Oldest, FlightInv, Flight
  <2>2. CASE k # 1
    <3>1. 1 \in Flight /\ 1 < k /\ flight # <<>>
      BY <2>2 DEF FlightInv, Flight
    <3>2. EndOf(flight[1]) <= f.at /\ Oldest = flight[1].at
      BY <1>2, <3>1 DEF FlightInv, Oldest
    <3>3. HeaderOK(flight[1].rec.header) /\ flight[1] \in FlightRecs
      BY <3>1 DEF FlightInv, FlightOK, Flight
    <3>4. Total(flight[1].rec.header) \in Nat /\ flight[1].at \in Nat
      BY <1>1, <3>3, HeaderFields DEF FlightRecs
    <3> QED
      BY <1>5, <3>2, <3>4 DEF EndOf
  <2> QED
    BY <2>1, <2>2
<1> QED
  BY <1>1, <1>2, <1>3, <1>4, <1>5, <1>6, <1>7

(* The oldest is a position.                                               *)
LEMMA OldestNat ==
    ASSUME LogNumbers, FlightInv
    PROVE  Oldest \in Nat
<1>1. next \in Nat
  BY DEF LogNumbers
<1>2. flight # <<>> => 1 \in Flight
  BY DEF FlightInv, Flight
<1>3. flight # <<>> => flight[1].at \in Nat
  BY <1>2, FlightFields
<1> QED
  BY <1>1, <1>3 DEF Oldest

(* What is not on disk is in flight.                                       *)
LEMMA OutInFlight ==
    ASSUME LogNumbers, FlightInv
    PROVE  Out \subseteq Oldest..(next - 1)
<1>1. SUFFICES ASSUME NEW k \in Flight, NEW i \in flight[k].left
               PROVE  flight[k].at + i \in Oldest..(next - 1)
  BY DEF Out, OutOf
<1>2. PICK f, t : f = flight[k] /\ t = Total(f.rec.header)
  OBVIOUS
<1>3. /\ f.at \in Nat /\ t \in Nat /\ f.at + t <= next /\ Oldest <= f.at /\ i \in 0..(t - 1)
  BY <1>1, <1>2, FlightFields
<1>4. Oldest \in Int /\ next \in Nat
  BY OldestNat DEF LogNumbers
<1> QED
  BY <1>2, <1>3, <1>4

(* Cycles are natural numbers, and none is earlier than one before it.     *)
LEMMA CycleGrows ==
    ASSUME bbs \in Nat \ {0}, NEW p \in Int, NEW x \in Int, p <= x
    PROVE  CycleAt(p) \in Int /\ CycleAt(p) <= CycleAt(x) /\ (p >= 0 => CycleAt(p) >= 1)
<1>1. p \div bbs <= x \div bbs /\ p \div bbs \in Int /\ x \div bbs \in Int
  BY DivGrows, ModSplit
<1>2. p >= 0 => p \div bbs >= 0
  OBVIOUS
<1> QED
  BY <1>1, <1>2 DEF CycleAt

-----------------------------------------------------------------------------
(* The kernel's steps keep the invariant.                                  *)

(* A record f of n blocks is put in flight.                                *)
Added(f, n) ==
    /\ n \in Nat /\ n >= 2 /\ n <= RecBbs /\ n = Total(f.rec.header)
    /\ f \in FlightRecs /\ f.at = next /\ f.left = 0..(n - 1) /\ HeaderOK(f.rec.header)
    /\ f.rec.unmount => f.rec.header.single
    /\ TailOK(f.rec.header, next + n)
    /\ next + n - tail < bbs /\ Len(flight) < MaxIclogs
    /\ flight' = Append(flight, f) /\ next' = next + n
    /\ UNCHANGED <<bbs, ring, tail, last>>

(* The records in flight before it stay where they are.                    *)
LEMMA AddedFlight ==
    ASSUME LogInv, NEW f, NEW n, Added(f, n)
    PROVE  /\ flight' \in Seq(FlightRecs) /\ Len(flight) \in Nat
           /\ Len(flight') = Len(flight) + 1 /\ flight'[Len(flight) + 1] = f /\ Len(flight') <= MaxIclogs
           /\ \A k \in Flight : flight'[k] = flight[k]
           /\ Flight' = Flight \cup {Len(flight) + 1} /\ Oldest' = Oldest
<1>1. flight \in Seq(FlightRecs) /\ f \in FlightRecs /\ flight' = Append(flight, f) /\ f.at = next
  BY DEF LogInv, FlightInv, Added
<1>2. /\ flight' \in Seq(FlightRecs) /\ Len(flight) \in Nat
      /\ Len(flight') = Len(flight) + 1 /\ flight'[Len(flight) + 1] = f
      /\ \A k \in 1..Len(flight) : flight'[k] = flight[k]
      /\ flight' # <<>> /\ (flight = <<>> <=> Len(flight) = 0)
  BY <1>1
<1>3. Flight' = Flight \cup {Len(flight) + 1}
  BY <1>2 DEF Flight
<1>4. Len(flight') <= MaxIclogs
  <2>1. Len(flight) < MaxIclogs /\ bbs \in Sizes
    BY DEF Added, LogInv, LogNumbers
  <2>2. MaxIclogs \in Nat
    BY <2>1, Sized
  <2> QED
    BY <1>2, <2>1, <2>2
<1>5. Oldest' = Oldest
  <2>1. CASE Len(flight) = 0
    <3>1. flight = <<>> /\ flight'[1] = f /\ flight' # <<>>
      BY <1>2, <2>1
    <3> QED
      BY <1>1, <3>1 DEF Oldest
  <2>2. CASE Len(flight) # 0
    <3>1. 1 \in 1..Len(flight)
      BY <1>2, <2>2
    <3> QED
      BY <1>2, <2>2, <3>1 DEF Oldest
  <2> QED
    BY <2>1, <2>2
<1> QED
  BY <1>2, <1>3, <1>4, <1>5 DEF Flight

(* The sizes and positions.                                                *)
LEMMA AddedNumbers ==
    ASSUME LogInv, NEW f, NEW n, Added(f, n)
    PROVE  /\ bbs \in Nat \ {0} /\ RecBbs \in Nat /\ bbs \in Sizes
           /\ next \in Nat /\ tail \in Nat /\ last \in Nat /\ tail <= last /\ last < Oldest /\ Oldest <= next
           /\ Oldest \in Nat /\ n \in Nat /\ n >= 2 /\ n <= RecBbs /\ next' = next + n
           /\ next + n - tail < bbs /\ bbs' = bbs /\ tail' = tail /\ last' = last /\ ring' = ring
<1>1. LogNumbers /\ FlightInv
  BY DEF LogInv
<1>2. /\ bbs \in Sizes /\ next \in Nat /\ tail \in Nat /\ last \in Nat
      /\ tail <= last /\ last < Oldest /\ Oldest <= next
  BY <1>1 DEF LogNumbers
<1>3. bbs \in Nat \ {0} /\ RecBbs \in Nat
  BY <1>2, Sized
<1>4. Oldest \in Nat
  BY <1>1, OldestNat
<1>5. /\ n \in Nat /\ n >= 2 /\ n <= RecBbs /\ next' = next + n
      /\ next + n - tail < bbs /\ bbs' = bbs /\ tail' = tail /\ last' = last /\ ring' = ring
  BY DEF Added
<1> QED
  BY <1>2, <1>3, <1>4, <1>5

(* A record is as right after a step that leaves the log's size alone and  *)
(* does not take the tail back.                                            *)
LEMMA HeaderStays ==
    ASSUME NEW h, NEW e, bbs' = bbs, tail \in Nat, tail' \in Nat, tail <= tail'
    PROVE  /\ HeaderOK(h) <=> HeaderOK(h)'
           /\ TailOK(h, e) => TailOK(h, e)'
<1>1. HeaderOK(h) <=> HeaderOK(h)'
  BY DEF HeaderOK, Header
<1>2. ASSUME TailOK(h, e)
      PROVE  TailOK(h, e)'
  <2>1. PICK t \in Nat : t <= tail /\ h.tail = t % bbs /\ e - t < bbs
    BY <1>2 DEF TailOK
  <2>2. t <= tail'
    BY <2>1
  <2> QED
    BY <2>1, <2>2 DEF TailOK
<1> QED
  BY <1>1, <1>2

(* The records that were in flight are as they were.                       *)
LEMMA AddedKeeps ==
    ASSUME LogInv, NEW f, NEW n, Added(f, n), NEW k \in Flight
    PROVE  FlightOK(k)'
<1>1. PICK e : e = flight[k]
  OBVIOUS
<1>2. FlightOK(k) /\ k \in 1..Len(flight)
  BY DEF LogInv, FlightInv, Flight
<1>3. LogNumbers /\ FlightInv
  BY DEF LogInv
<1>4. e.at \in Nat /\ EndOf(e) \in Nat /\ EndOf(e) <= next
  BY <1>1, <1>3, FlightFields
<1>5. /\ flight'[k] = e /\ Len(flight) \in Nat /\ Len(flight') = Len(flight) + 1
      /\ flight'[Len(flight) + 1] = f /\ \A j \in 1..Len(flight) : flight'[j] = flight[j]
  BY <1>1, AddedFlight DEF Flight
<1>6. f.at = next
  BY DEF Added
<1>7. EndOf(e) = IF k = Len(flight') THEN next' ELSE flight'[k + 1].at
  <2>1. EndOf(e) = IF k = Len(flight) THEN next ELSE flight[k + 1].at
    BY <1>1, <1>2 DEF FlightOK
  <2>2. k # Len(flight) => k + 1 \in 1..Len(flight)
    BY <1>2, <1>5
  <2>3. k # Len(flight) => flight'[k + 1] = flight[k + 1]
    BY <1>5, <2>2
  <2>4. k # Len(flight')
    BY <1>2, <1>5
  <2> QED
    BY <1>5, <1>6, <2>1, <2>3, <2>4
<1>8. next' - e.at <= (Len(flight') - k + 1) * RecBbs
  <2>1. next - e.at <= (Len(flight) - k + 1) * RecBbs
    BY <1>1, <1>2 DEF FlightOK
  <2>2. n \in Nat /\ n <= RecBbs /\ next' = next + n /\ next \in Nat /\ RecBbs \in Nat
    BY AddedNumbers
  <2>3. PICK m \in Int : m = Len(flight) - k + 1
    BY <1>2, <1>5
  <2>4. Len(flight') - k + 1 = m + 1
    BY <1>2, <1>5, <2>3
  <2>5. PICK v \in Int : v = m * RecBbs
    BY <2>2
  <2>6. (m + 1) * RecBbs = v + RecBbs
    BY <2>2, <2>5
  <2>7. next - e.at <= v
    BY <2>1, <2>3, <2>5
  <2>8. next' - e.at <= v + RecBbs
    BY <1>4, <2>2, <2>7
  <2> QED
    BY <2>4, <2>6, <2>8
<1>9. /\ HeaderOK(e.rec.header) /\ e.left \subseteq 0..(Total(e.rec.header) - 1)
      /\ e.rec.unmount => e.rec.header.single
      /\ TailOK(e.rec.header, EndOf(e))
  BY <1>1, <1>2 DEF FlightOK
<1>10. HeaderOK(e.rec.header)' /\ TailOK(e.rec.header, EndOf(e))'
  <2>1. bbs' = bbs /\ tail \in Nat /\ tail' \in Nat /\ tail <= tail'
    BY AddedNumbers
  <2> QED
    BY <1>9, <2>1, HeaderStays
<1>11. EndOf(e) <= next'
  <2>1. n \in Nat /\ next' = next + n /\ next \in Nat
    BY AddedNumbers
  <2> QED
    BY <1>4, <2>1
<1> QED
  BY <1>5, <1>7, <1>8, <1>9, <1>10, <1>11 DEF FlightOK, EndOf

(* The new one is the last.                                                *)
LEMMA AddedNew ==
    ASSUME LogInv, NEW f, NEW n, Added(f, n), NEW k, k = Len(flight) + 1
    PROVE  FlightOK(k)'
<1>1. /\ k \in Nat /\ Len(flight') = k /\ flight'[k] = f
  BY AddedFlight
<1>2. /\ n \in Nat /\ n <= RecBbs /\ next \in Nat /\ RecBbs \in Nat /\ next' = next + n
      /\ bbs' = bbs /\ tail \in Nat /\ tail' = tail
  BY AddedNumbers
<1>3. /\ n = Total(f.rec.header) /\ f.at = next /\ f.left = 0..(n - 1) /\ HeaderOK(f.rec.header)
      /\ f.rec.unmount => f.rec.header.single
      /\ TailOK(f.rec.header, next + n)
  BY DEF Added
<1>4. EndOf(f) = next + n
  BY <1>3 DEF EndOf
<1>5. HeaderOK(f.rec.header)' /\ TailOK(f.rec.header, EndOf(f))'
  <2>1. tail' \in Nat /\ tail <= tail'
    BY <1>2
  <2> QED
    BY <1>2, <1>3, <1>4, <2>1, HeaderStays
<1>6. EndOf(f) <= next' /\ EndOf(f) = next'
  BY <1>2, <1>4
<1>7. next' - f.at <= (Len(flight') - k + 1) * RecBbs
  <2>1. Len(flight') - k + 1 = 1
    BY <1>1
  <2> QED
    BY <1>2, <1>3, <2>1
<1>8. f.left \subseteq 0..(Total(f.rec.header) - 1)
  BY <1>3
<1> QED
  BY <1>1, <1>3, <1>5, <1>6, <1>7, <1>8 DEF FlightOK, EndOf

(* The records in flight follow one another still.                         *)
LEMMA AddedFlightInv ==
    ASSUME LogInv, NEW f, NEW n, Added(f, n)
    PROVE  FlightInv'
<1>1. /\ flight' \in Seq(FlightRecs) /\ Len(flight) \in Nat
      /\ Len(flight') = Len(flight) + 1 /\ flight'[Len(flight) + 1] = f /\ Len(flight') <= MaxIclogs
      /\ \A k \in Flight : flight'[k] = flight[k]
      /\ Flight' = Flight \cup {Len(flight) + 1}
  BY AddedFlight
<1>2. \A k \in Flight' : FlightOK(k)'
  <2>1. \A k \in Flight : FlightOK(k)'
    BY AddedKeeps
  <2>2. \A k : k = Len(flight) + 1 => FlightOK(k)'
    BY AddedNew
  <2> QED
    BY <1>1, <2>1, <2>2
<1>3. ASSUME NEW j \in Flight', NEW k \in Flight', j < k
      PROVE  EndOf(flight'[j]) <= flight'[k].at
  <2>1. j \in Flight
    BY <1>1, <1>3 DEF Flight
  <2>2. LogNumbers /\ FlightInv
    BY DEF LogInv
  <2>3. CASE k \in Flight
    BY <1>1, <1>3, <2>1, <2>2, <2>3 DEF FlightInv
  <2>4. CASE k = Len(flight) + 1
    <3>1. flight'[k] = f /\ f.at = next
      BY <1>1, <2>4 DEF Added
    <3>2. EndOf(flight[j]) <= next
      BY <2>1, <2>2, FlightFields
    <3> QED
      BY <1>1, <2>1, <3>1, <3>2
  <2> QED
    BY <1>1, <2>3, <2>4
<1>4. FlightRecs' = FlightRecs
  <2>1. bbs' = bbs
    BY AddedNumbers
  <2> QED
    BY <2>1 DEF FlightRecs, Header
<1> QED
  BY <1>1, <1>2, <1>3, <1>4 DEF FlightInv, EndOf

(* None of its blocks is on disk.                                          *)
LEMMA AddedOut ==
    ASSUME LogInv, NEW f, NEW n, Added(f, n)
    PROVE  Out' = Out \cup next..(next' - 1)
<1>1. /\ \A k \in Flight : flight'[k] = flight[k]
      /\ Flight' = Flight \cup {Len(flight) + 1} /\ flight'[Len(flight) + 1] = f
  BY AddedFlight
<1>2. /\ next \in Nat /\ n \in Nat /\ next' = next + n
  BY AddedNumbers
<1>3. f.at = next /\ f.left = 0..(n - 1)
  BY DEF Added
<1>4. OutOf(f) = next..(next' - 1)
  <2>1. ASSUME NEW x \in next..(next' - 1)
        PROVE  x \in {next + i : i \in 0..(n - 1)}
    <3>1. x - next \in 0..(n - 1) /\ x = next + (x - next)
      BY <1>2
    <3> QED
      BY <3>1
  <2>2. ASSUME NEW i \in 0..(n - 1)
        PROVE  next + i \in next..(next' - 1)
    BY <1>2
  <2> QED
    BY <1>3, <2>1, <2>2 DEF OutOf
<1>5. Out' = UNION {OutOf(flight'[k]) : k \in Flight'}
  BY DEF Out, OutOf
<1>6. \A k \in Flight : OutOf(flight'[k]) = OutOf(flight[k])
  BY <1>1
<1> QED
  BY <1>1, <1>4, <1>5, <1>6 DEF Out

(* The blocks it goes to are of the cycle before.                          *)
LEMMA AddedCycles ==
    ASSUME LogInv, NEW f, NEW n, Added(f, n)
    PROVE  Cycles'
<1>1. /\ bbs \in Nat \ {0} /\ RecBbs \in Nat
      /\ next \in Nat /\ tail \in Nat /\ last \in Nat /\ tail <= last /\ last < Oldest /\ Oldest <= next
      /\ Oldest \in Nat /\ n \in Nat /\ next' = next + n
      /\ next + n - tail < bbs
  BY AddedNumbers
<1>2. bbs' = bbs /\ ring' = ring
  BY AddedNumbers
<1>3. Out' = Out \cup next..(next' - 1)
  BY AddedOut
<1>4. Cycles
  BY DEF LogInv
<1>5. SUFFICES ASSUME NEW p \in (next' - bbs)..(next' - 1)
               PROVE  ring[p % bbs].cycle = IF p \in Out' THEN CycleAt(p) - 1 ELSE CycleAt(p)
  BY <1>2 DEF Cycles, CycleAt
<1>6. CASE p < next
  <2>1. p \in (next - bbs)..(next - 1) /\ p \notin next..(next' - 1)
    BY <1>1, <1>6
  <2> QED
    BY <1>3, <1>4, <2>1 DEF Cycles
<1>7. CASE p >= next
  <2>1. p \in Out' /\ p \in Int
    BY <1>1, <1>3, <1>7
  <2>2. PICK x \in Int : x = p - bbs
    BY <1>1, <2>1
  <2>3. x \in (next - bbs)..(next - 1) /\ x < Oldest
    BY <1>1, <1>7, <2>2
  <2>4. x \notin Out
    <3>1. Out \subseteq Oldest..(next - 1)
      BY OutInFlight DEF LogInv
    <3> QED
      BY <1>1, <2>3, <3>1
  <2>5. x % bbs = p % bbs /\ CycleAt(x) = CycleAt(p) - 1
    <3>1. x % bbs = p % bbs /\ x \div bbs = (p \div bbs) - 1 /\ p \div bbs \in Int
      BY <1>1, <2>1, <2>2, ModTurn, ModSplit
    <3> QED
      BY <3>1 DEF CycleAt
  <2>6. ring[x % bbs].cycle = CycleAt(x)
    BY <1>4, <2>3, <2>4 DEF Cycles
  <2> QED
    BY <2>1, <2>5, <2>6
<1> QED
  BY <1>1, <1>6, <1>7

(* What is on disk is left alone.                                          *)
LEMMA AddedDisk ==
    ASSUME LogInv, NEW f, NEW n, Added(f, n)
    PROVE  RingType' /\ Stamps' /\ LastInv'
<1>1. bbs' = bbs /\ ring' = ring /\ tail' = tail /\ last' = last /\ tail \in Nat
  BY AddedNumbers
<1>2. Header' = Header
  BY <1>1 DEF Header
<1>3. RingType'
  <2>1. next \in Int /\ next' \in Int /\ next <= next' /\ bbs \in Nat \ {0}
    BY AddedNumbers
  <2>2. CycleAt(next) \in Int /\ CycleAt(next') \in Int /\ CycleAt(next) <= CycleAt(next')
    BY <2>1, CycleGrows
  <2>3. 0..CycleAt(next) \subseteq 0..CycleAt(next')
    BY <2>2
  <2>4. CycleAt(next)' = CycleAt(next')
    BY <1>1 DEF CycleAt
  <2>5. ring \in [0..(bbs - 1) -> [cycle : 0..CycleAt(next), header : Header, unmount : BOOLEAN]]
    BY DEF LogInv, RingType
  <2>6. ring \in [0..(bbs - 1) -> [cycle : 0..CycleAt(next'), header : Header, unmount : BOOLEAN]]
    BY <2>3, <2>5
  <2> QED
    BY <1>1, <1>2, <2>4, <2>6 DEF RingType
<1>4. Stamps'
  <2>1. /\ \A k \in Flight : flight'[k] = flight[k]
        /\ Flight' = Flight \cup {Len(flight) + 1} /\ flight'[Len(flight) + 1] = f
    BY AddedFlight
  <2>2. f.left = 0..(n - 1) /\ n = Total(f.rec.header) /\ Stamps
    BY DEF Added, LogInv
  <2>3. ASSUME NEW k \in Flight', NEW i \in 0..(Total(flight'[k].rec.header) - 1),
               i \notin flight'[k].left
        PROVE  ring[(flight'[k].at + i) % bbs] = Stamped(flight'[k].at, flight'[k].rec, i)
    <3>1. k # Len(flight) + 1
      BY <2>1, <2>2, <2>3
    <3>2. k \in Flight /\ flight'[k] = flight[k]
      BY <2>1, <3>1
    <3> QED
      BY <2>2, <2>3, <3>2 DEF Stamps
  <2>4. \A p, r, i : Stamped(p, r, i)' = Stamped(p, r, i)
    BY <1>1 DEF Stamped, CycleAt
  <2> QED
    BY <1>1, <2>3, <2>4 DEF Stamps, Stamped, CycleAt, Total
<1>5. LastInv'
  <2>1. Oldest' = Oldest
    BY AddedFlight
  <2>2. PICK h : h = ring[last % bbs].header
    OBVIOUS
  <2>3. /\ HeaderOK(h) /\ last + Total(h) = Oldest /\ TailOK(h, Oldest)
        /\ \A p \in (last + 1)..(Oldest - 1) : ~ HasMagic(ring[p % bbs])
        /\ ring[(last + h.hblks) % bbs].unmount => h.single
    BY <2>2 DEF LogInv, LastInv
  <2>4. PICK o : o = Oldest
    OBVIOUS
  <2>5. HeaderOK(h)' /\ TailOK(h, o)'
    <3>1. tail' \in Nat /\ tail <= tail'
      BY <1>1
    <3> QED
      BY <1>1, <2>3, <2>4, <3>1, HeaderStays
  <2> QED
    BY <1>1, <2>1, <2>2, <2>3, <2>4, <2>5 DEF LastInv
<1> QED
  BY <1>3, <1>4, <1>5

(* So the invariant is kept by a record put in flight.                     *)
LEMMA LaunchLog ==
    ASSUME LogInv, NEW r, r \in [header : Header, unmount : BOOLEAN], HeaderOK(r.header),
           r.unmount => r.header.single, TailOK(r.header, next + Total(r.header)),
           Len(flight) < MaxIclogs, Launch(r), mount' \in {"mounted", "unmounting", "unmounted"}
    PROVE  LogInv'
<1>1. bbs \in Sizes /\ next \in Nat /\ records \in 0..MaxRecords
  BY DEF LogInv, LogNumbers
<1>2. PICK n : n = Total(r.header)
  OBVIOUS
<1>3. n \in Nat /\ n >= 2 /\ n <= RecBbs
  BY <1>1, <1>2, HeaderFields
<1>4. PICK f : f = [at |-> next, rec |-> r, left |-> 0..(n - 1)]
  OBVIOUS
<1>5. f \in FlightRecs /\ f.at = next /\ f.rec = r /\ f.left = 0..(n - 1)
  <2>1. 0..(n - 1) \in SUBSET Nat
    BY <1>3
  <2> QED
    BY <1>1, <1>4, <2>1 DEF FlightRecs
<1>6. /\ records < MaxRecords /\ records' = records + 1 /\ next + n - tail < bbs
      /\ flight' = Append(flight, f) /\ next' = next + n /\ UNCHANGED <<bbs, ring, tail, last>>
  BY <1>2, <1>4 DEF Launch
<1>7. Added(f, n)
  BY <1>2, <1>3, <1>5, <1>6 DEF Added
<1>8. LogNumbers'
  <2>1. /\ bbs \in Sizes /\ next \in Nat /\ tail \in Nat /\ last \in Nat /\ tail <= last /\ last < Oldest
        /\ Oldest <= next /\ Oldest \in Nat /\ n \in Nat /\ next' = next + n
        /\ next + n - tail < bbs /\ bbs' = bbs /\ tail' = tail /\ last' = last
    BY <1>7, AddedNumbers
  <2>2. Oldest' = Oldest
    BY <1>7, AddedFlight
  <2>3. records' \in 0..MaxRecords
    <3>1. MaxRecords \in Nat
      BY <1>1, Sized
    <3> QED
      BY <1>1, <1>6, <3>1
  <2>4. next' \in Nat /\ Oldest <= next' /\ next' - tail < bbs
    BY <2>1
  <2> QED
    BY <2>1, <2>2, <2>3, <2>4 DEF LogNumbers
<1> QED
  BY <1>7, <1>8, AddedFlightInv, AddedCycles, AddedDisk DEF LogInv

(* The records the kernel makes carry the tail it has come to.             *)
LEMMA RecordLog ==
    ASSUME LogInv, NEW hb \in HeaderBlocks, NEW len \in 1..(RecBbs - hb), NEW one \in BOOLEAN,
           NEW u \in BOOLEAN, u => one, Launch(Record(hb, len, one, u)),
           Len(flight) < MaxIclogs, mount' \in {"mounted", "unmounting", "unmounted"}
    PROVE  LogInv'
<1>1. bbs \in Sizes /\ next \in Nat /\ tail \in Nat
  BY DEF LogInv, LogNumbers
<1>2. bbs \in Nat \ {0} /\ RecBbs \in Nat /\ hb \in 1..(RecBbs - 1)
  BY <1>1, LogAssumption
<1>3. tail % bbs \in 0..(bbs - 1)
  <2>1. \A p \in Int : p % bbs \in 0..(bbs - 1)
    BY <1>2, ModSplit
  <2> QED
    BY <1>1, <2>1
<1>4. PICK r : r = Record(hb, len, one, u)
  OBVIOUS
<1>5. /\ r.header = [hblks |-> hb, len |-> len, single |-> one, tail |-> tail % bbs]
      /\ r.unmount = u /\ r = [header |-> r.header, unmount |-> u]
  BY <1>4 DEF Record
<1>6. PICK h : h = r.header
  OBVIOUS
<1>7. h.hblks = hb /\ h.len = len /\ h.single = one /\ h.tail = tail % bbs
  BY <1>5, <1>6
<1>8. h \in Header
  <2>1. hb \in 0..RecBbs /\ len \in 0..RecBbs
    BY <1>2
  <2> QED
    BY <1>3, <1>5, <1>6, <2>1 DEF Header
<1>9. HeaderOK(h)
  <2>1. Total(h) = hb + len /\ hb >= 1 /\ len >= 1 /\ hb + len <= RecBbs
    BY <1>2, <1>7 DEF Total
  <2> QED
    BY <1>7, <1>8, <2>1 DEF HeaderOK
<1>10. r \in [header : Header, unmount : BOOLEAN] /\ (r.unmount => r.header.single)
  BY <1>5, <1>6, <1>7, <1>8
<1>11. TailOK(h, next + Total(h))
  <2>1. Total(h) \in Nat
    BY <1>1, <1>9, HeaderFields
  <2>2. PICK e \in Nat : e = next + Total(h)
    BY <1>1, <2>1
  <2>3. Launch(r) /\ r.header = h
    BY <1>4, <1>6
  <2>4. next + Total(h) - tail < bbs
    BY <2>3 DEF Launch
  <2>5. e - tail < bbs /\ tail <= tail
    BY <1>1, <1>2, <2>1, <2>2, <2>4
  <2>6. TailOK(h, e)
    BY <1>1, <1>7, <2>5 DEF TailOK
  <2> QED
    BY <2>2, <2>6
<1> QED
  BY <1>4, <1>6, <1>9, <1>10, <1>11, LaunchLog

(* A record is logged.                                                     *)
LEMMA LogLog ==
    ASSUME LogInv, NEW hb \in HeaderBlocks, NEW one \in BOOLEAN, NEW len \in 1..(RecBbs - hb),
           Log(hb, len, one)
    PROVE  LogInv'
<1>1. /\ Len(flight) < MaxIclogs /\ Launch(Record(hb, len, one, FALSE))
      /\ mount' = "mounted"
  BY DEF Log
<1> QED
  BY <1>1, RecordLog

(* The unmount record is one more.                                         *)
LEMMA UnmountLog ==
    ASSUME LogInv, Unmount
    PROVE  LogInv'
<1>1. PICK hb \in HeaderBlocks : Launch(Record(hb, 1, TRUE, TRUE))
  BY DEF Unmount
<1>2. flight = <<>> /\ mount' = "unmounting"
  BY DEF Unmount
<1>3. bbs \in Sizes
  BY DEF LogInv, LogNumbers
<1>4. RecBbs \in Nat /\ hb \in 1..(RecBbs - 1) /\ MaxIclogs \in Nat \ {0}
  BY <1>3, LogAssumption
<1>5. 1 \in 1..(RecBbs - hb) /\ Len(flight) < MaxIclogs
  BY <1>2, <1>4
<1> QED
  BY <1>1, <1>2, <1>5, RecordLog

(* The tail moves up to the newest record that is whole, and the log is    *)
(* mounted: nothing on disk or in flight changes.                          *)
LEMMA TailLog ==
    ASSUME LogInv, MoveTail \/ Mount
    PROVE  LogInv'
<1>1. /\ UNCHANGED <<bbs, ring, next, last, flight, records>> /\ tail' = last /\ mount' = "mounted"
  BY DEF MoveTail, Mount
<1>2. /\ bbs \in Sizes /\ tail \in Nat /\ last \in Nat /\ next \in Nat
      /\ tail <= last /\ last < Oldest /\ Oldest <= next /\ next - tail < bbs
      /\ records \in 0..MaxRecords
  BY DEF LogInv, LogNumbers
<1>3. bbs \in Nat
  BY <1>2, Sized
<1>4. tail' \in Nat /\ tail <= tail' /\ bbs' = bbs
  BY <1>1, <1>2
<1>5. /\ Oldest' = Oldest /\ Flight' = Flight /\ Out' = Out /\ Header' = Header
      /\ RingType' = RingType /\ Cycles' = Cycles /\ Stamps' = Stamps
  <2>1. Oldest' = Oldest /\ Flight' = Flight /\ Header' = Header
    BY <1>1 DEF Oldest, Flight, Header
  <2>2. Out' = Out
    BY <1>1, <2>1 DEF Out, OutOf
  <2>3. RingType' = RingType
    BY <1>1, <2>1 DEF RingType, CycleAt
  <2>4. Cycles' = Cycles
    BY <1>1, <2>2 DEF Cycles, CycleAt
  <2>5. Stamps' = Stamps
    BY <1>1, <2>1 DEF Stamps, Stamped, CycleAt, Total
  <2> QED
    BY <2>1, <2>2, <2>3, <2>4, <2>5
<1>6. LogNumbers'
  <2>1. next - last < bbs
    BY <1>2, <1>3
  <2> QED
    BY <1>1, <1>2, <1>5, <2>1 DEF LogNumbers
<1>7. FlightInv'
  <2>1. /\ flight \in Seq(FlightRecs) /\ Len(flight) <= MaxIclogs
        /\ \A k \in Flight : FlightOK(k)
        /\ \A j, k \in Flight : j < k => EndOf(flight[j]) <= flight[k].at
    BY DEF LogInv, FlightInv
  <2>2. FlightRecs' = FlightRecs
    BY <1>5 DEF FlightRecs
  <2>3. ASSUME NEW k \in Flight
        PROVE  FlightOK(k)'
    <3>1. PICK f, e : f = flight[k] /\ e = EndOf(f)
      OBVIOUS
    <3>2. FlightOK(k)
      BY <2>1
    <3>3. HeaderOK(f.rec.header) /\ TailOK(f.rec.header, e)
      BY <3>1, <3>2 DEF FlightOK
    <3>4. HeaderOK(f.rec.header)' /\ TailOK(f.rec.header, e)'
      BY <1>2, <1>4, <3>3, HeaderStays
    <3> QED
      BY <1>1, <3>1, <3>2, <3>4 DEF FlightOK, EndOf
  <2> QED
    BY <1>1, <1>5, <2>1, <2>2, <2>3 DEF FlightInv, EndOf
<1>8. LastInv'
  <2>1. PICK h : h = ring[last % bbs].header
    OBVIOUS
  <2>2. PICK o : o = Oldest
    OBVIOUS
  <2>3. /\ HeaderOK(h) /\ last + Total(h) = Oldest /\ TailOK(h, Oldest)
        /\ \A p \in (last + 1)..(Oldest - 1) : ~ HasMagic(ring[p % bbs])
        /\ ring[(last + h.hblks) % bbs].unmount => h.single
    BY <2>1 DEF LogInv, LastInv
  <2>4. HeaderOK(h)' /\ TailOK(h, o)'
    BY <1>2, <1>4, <2>2, <2>3, HeaderStays
  <2> QED
    BY <1>1, <1>5, <2>1, <2>2, <2>3, <2>4 DEF LastInv
<1> QED
  BY <1>5, <1>6, <1>7, <1>8 DEF LogInv

(* Block i of record k in flight, f, is written.                           *)
Wrote(f, k, i) ==
    /\ k \in Flight /\ f = flight[k] /\ i \in f.left
    /\ flight' \in Seq(FlightRecs) /\ Len(flight') = Len(flight)
    /\ \A j \in Flight : j # k => flight'[j] = flight[j]
    /\ flight'[k].at = f.at /\ flight'[k].rec = f.rec /\ flight'[k].left = f.left \ {i}
    /\ ring' = [ring EXCEPT ![(f.at + i) % bbs] = Stamped(f.at, f.rec, i)]
    /\ UNCHANGED <<bbs, next, tail, last, mount, records>>

(* The records in flight when block i of record k has been written.        *)
OneLess(G, k, i) == G = [flight EXCEPT ![k].left = @ \ {i}]

(* One record in flight has one block less to write.                       *)
LEMMA WroteFlight ==
    ASSUME LogInv, NEW k \in Flight, NEW i \in flight[k].left, NEW G, OneLess(G, k, i)
    PROVE  /\ G \in Seq(FlightRecs) /\ Len(G) = Len(flight)
           /\ \A j \in Flight : j # k => G[j] = flight[j]
           /\ G[k].at = flight[k].at /\ G[k].rec = flight[k].rec /\ G[k].left = flight[k].left \ {i}
<1>1. flight \in Seq(FlightRecs) /\ k \in 1..Len(flight)
  BY DEF LogInv, FlightInv, Flight
<1>2. PICK e : e = [flight[k] EXCEPT !.left = flight[k].left \ {i}]
  OBVIOUS
<1>3. flight[k] \in FlightRecs
  BY <1>1
<1>4. e \in FlightRecs /\ e.at = flight[k].at /\ e.rec = flight[k].rec /\ e.left = flight[k].left \ {i}
  BY <1>2, <1>3 DEF FlightRecs
<1>5. G = [flight EXCEPT ![k] = e]
  BY <1>2 DEF OneLess
<1>6. G \in Seq(FlightRecs) /\ Len(G) = Len(flight) /\ G[k] = e
  <2>1. /\ [flight EXCEPT ![k] = e] \in Seq(FlightRecs)
        /\ Len([flight EXCEPT ![k] = e]) = Len(flight)
        /\ \A j \in 1..Len(flight) : [flight EXCEPT ![k] = e][j] = IF j = k THEN e ELSE flight[j]
    <3>1. /\ flight \in Seq(FlightRecs) /\ k \in 1..Len(flight) /\ e \in FlightRecs
      BY <1>1, <1>4
    <3> QED
      BY <3>1, ExceptSeq
  <2> QED
    BY <1>1, <1>5, <2>1, Zenon
<1>7. \A j \in 1..Len(flight) : j # k => G[j] = flight[j]
  BY <1>1, <1>5
<1> QED
  BY <1>4, <1>6, <1>7 DEF Flight

(* The position written is one of the record's.                            *)
LEMMA WroteNumbers ==
    ASSUME LogInv, NEW f, NEW k, NEW i, Wrote(f, k, i)
    PROVE  /\ bbs \in Nat \ {0} /\ bbs \in Sizes /\ bbs' = bbs /\ next' = next /\ tail' = tail /\ last' = last
           /\ next \in Nat /\ tail \in Nat /\ last \in Nat /\ Oldest \in Nat
           /\ tail <= last /\ last < Oldest /\ Oldest <= next /\ next - tail < bbs
           /\ f.at \in Nat /\ i \in Nat /\ Total(f.rec.header) \in Nat /\ i < Total(f.rec.header)
           /\ Oldest <= f.at /\ f.at + Total(f.rec.header) <= next
           /\ f = flight[k] /\ k \in Flight /\ HeaderOK(f.rec.header)
<1>1. LogNumbers /\ FlightInv
  BY DEF LogInv
<1>2. /\ bbs \in Sizes /\ next \in Nat /\ tail \in Nat /\ last \in Nat
      /\ tail <= last /\ last < Oldest /\ Oldest <= next /\ next - tail < bbs
  BY <1>1 DEF LogNumbers
<1>3. bbs \in Nat \ {0} /\ Oldest \in Nat
  BY <1>1, <1>2, Sized, OldestNat
<1>4. /\ k \in Flight /\ f = flight[k] /\ i \in f.left
      /\ bbs' = bbs /\ next' = next /\ tail' = tail /\ last' = last
  BY DEF Wrote
<1>5. PICK n : n = Total(f.rec.header)
  OBVIOUS
<1>6. /\ f.at \in Nat /\ n \in Nat /\ EndOf(f) = f.at + n
      /\ Oldest <= f.at /\ EndOf(f) <= next /\ f.left \subseteq 0..(n - 1)
      /\ HeaderOK(f.rec.header)
  BY <1>1, <1>4, <1>5, FlightFields
<1>7. i \in Nat /\ i < n
  BY <1>4, <1>6
<1> QED
  BY <1>2, <1>3, <1>4, <1>5, <1>6, <1>7

(* Another position of the ring is another block, which keeps what it had. *)
LEMMA WroteElsewhere ==
    ASSUME LogInv, NEW f, NEW k, NEW i, Wrote(f, k, i),
           NEW x \in Int, x # f.at + i, next - bbs <= x, x < next
    PROVE  ring'[x % bbs] = ring[x % bbs]
<1>1. /\ bbs \in Nat \ {0} /\ next \in Nat /\ tail \in Nat /\ last \in Nat /\ Oldest \in Nat
      /\ tail <= last /\ last < Oldest /\ next - tail < bbs
      /\ f.at \in Nat /\ i \in Nat /\ Total(f.rec.header) \in Nat /\ i < Total(f.rec.header)
      /\ Oldest <= f.at /\ f.at + Total(f.rec.header) <= next
  BY WroteNumbers
<1>2. PICK p \in Nat : p = f.at + i
  BY <1>1
<1>3. p < next /\ next - bbs < p
  BY <1>1, <1>2
<1>4. x % bbs # p % bbs
  <2>1. \A y, z \in Int : y < z /\ z < y + bbs => y % bbs # z % bbs
    BY <1>1, ModApart
  <2>2. x < p \/ p < x
    BY <1>2
  <2>3. p < x + bbs /\ x < p + bbs
    BY <1>1, <1>3
  <2> QED
    BY <2>1, <2>2, <2>3
<1>5. ring' = [ring EXCEPT ![p % bbs] = Stamped(f.at, f.rec, i)]
  BY <1>2 DEF Wrote
<1>6. x % bbs \in 0..(bbs - 1)
  BY <1>1, ModSplit
<1>7. DOMAIN ring = 0..(bbs - 1)
  BY DEF LogInv, RingType
<1> QED
  BY <1>4, <1>5, <1>6, <1>7

(* The block written is what it is stamped with, and has its type.         *)
LEMMA WroteBlock ==
    ASSUME LogInv, NEW f, NEW k, NEW i, Wrote(f, k, i)
    PROVE  /\ ring'[(f.at + i) % bbs] = Stamped(f.at, f.rec, i)
           /\ ring'[(f.at + i) % bbs].cycle = CycleAt(f.at + i)
           /\ RingType'
<1>1. /\ bbs \in Nat \ {0} /\ next \in Nat /\ f.at \in Nat /\ i \in Nat
      /\ Total(f.rec.header) \in Nat /\ i < Total(f.rec.header) /\ f.at + Total(f.rec.header) <= next
  BY WroteNumbers
<1>2. bbs' = bbs /\ next' = next /\ HeaderOK(f.rec.header)
  BY WroteNumbers
<1>3. PICK p \in Nat : p = f.at + i
  BY <1>1
<1>4. CycleAt(p) \in 0..CycleAt(next)
  <2>1. p <= next
    BY <1>1, <1>3
  <2>2. CycleAt(p) \in Int /\ CycleAt(p) <= CycleAt(next) /\ CycleAt(p) >= 1 /\ CycleAt(next) \in Int
    BY <1>1, <2>1, CycleGrows
  <2> QED
    BY <2>2
<1>5. f.rec.header \in Header /\ NoHeader \in Header
  <2>1. bbs \in Sizes
    BY WroteNumbers
  <2>2. RecBbs \in Nat
    BY <2>1, Sized
  <2>3. 0 \in 0..RecBbs /\ 0 \in 0..(bbs - 1)
    BY <1>1, <2>2
  <2> QED
    BY <1>2, <2>3 DEF HeaderOK, Header, NoHeader
<1>6. PICK s : s = Stamped(f.at, f.rec, i)
  OBVIOUS
<1>7. s \in [cycle : 0..CycleAt(next), header : Header, unmount : BOOLEAN] /\ s.cycle = CycleAt(p)
  BY <1>3, <1>4, <1>5, <1>6 DEF Stamped, Block
<1>8. ring' = [ring EXCEPT ![p % bbs] = s]
  BY <1>3, <1>6 DEF Wrote
<1>9. p % bbs \in 0..(bbs - 1)
  <2>1. \A y \in Int : y % bbs \in 0..(bbs - 1)
    BY <1>1, ModSplit
  <2> QED
    BY <2>1
<1>10. ring \in [0..(bbs - 1) -> [cycle : 0..CycleAt(next), header : Header, unmount : BOOLEAN]]
  BY DEF LogInv, RingType
<1>11. ring' \in [0..(bbs - 1) -> [cycle : 0..CycleAt(next), header : Header, unmount : BOOLEAN]]
  BY <1>7, <1>8, <1>10
<1>12. ring'[p % bbs] = s
  BY <1>8, <1>9, <1>10
<1>13. RingType'
  BY <1>2, <1>11 DEF RingType, Header, CycleAt
<1> QED
  BY <1>3, <1>6, <1>7, <1>12, <1>13

(* Nothing else is on disk that was not.                                   *)
LEMMA WroteOut ==
    ASSUME LogInv, NEW f, NEW k, NEW i, Wrote(f, k, i)
    PROVE  Out' = Out \ {f.at + i}
<1>1. /\ f.at \in Nat /\ i \in Nat /\ f = flight[k] /\ k \in Flight
      /\ Total(f.rec.header) \in Nat /\ i < Total(f.rec.header)
  BY WroteNumbers
<1>2. /\ Len(flight') = Len(flight) /\ flight'[k].at = f.at /\ flight'[k].left = f.left \ {i}
      /\ \A j \in Flight : j # k => flight'[j] = flight[j]
  BY DEF Wrote
<1>3. Flight' = Flight
  BY <1>2 DEF Flight
<1>4. Out' = UNION {OutOf(flight'[j]) : j \in Flight}
  BY <1>3 DEF Out, OutOf
<1>5. LogNumbers /\ FlightInv
  BY DEF LogInv
<1>6. f.left \subseteq Nat
  BY <1>1, <1>5, FlightFields
<1>7. OutOf(flight'[k]) = OutOf(f) \ {f.at + i}
  <2>1. \A j \in f.left : f.at + j = f.at + i => j = i
    BY <1>1, <1>6
  <2> QED
    BY <1>2, <2>1 DEF OutOf
<1>8. ASSUME NEW j \in Flight, j # k
      PROVE  OutOf(flight'[j]) = OutOf(flight[j]) /\ f.at + i \notin OutOf(flight[j])
  <2>1. OutOf(flight'[j]) = OutOf(flight[j])
    BY <1>2, <1>8
  <2>2. PICK e, n : e = flight[j] /\ n = Total(e.rec.header)
    OBVIOUS
  <2>3. e.at \in Nat /\ n \in Nat /\ EndOf(e) = e.at + n /\ e.left \subseteq 0..(n - 1)
    BY <1>5, <2>2, FlightFields
  <2>4. EndOf(f) = f.at + Total(f.rec.header)
    BY DEF EndOf
  <2>5. EndOf(e) <= f.at \/ EndOf(f) <= e.at
    <3>1. j < k \/ k < j
      BY <1>1, <1>5, <1>8 DEF FlightInv, Flight
    <3> QED
      BY <1>1, <1>5, <2>2, <3>1 DEF FlightInv
  <2>6. ASSUME NEW y \in e.left
        PROVE  e.at + y # f.at + i
    <3>1. y \in Nat /\ y < n
      BY <2>3
    <3> QED
      BY <1>1, <2>3, <2>4, <2>5, <3>1
  <2> QED
    BY <2>1, <2>2, <2>6 DEF OutOf
<1> QED
  BY <1>1, <1>4, <1>7, <1>8 DEF Out

(* The records in flight follow one another as before.                     *)
LEMMA WroteFlightInv ==
    ASSUME LogInv, NEW f, NEW k, NEW i, Wrote(f, k, i)
    PROVE  FlightInv' /\ Oldest' = Oldest /\ Flight' = Flight
<1>1. /\ f = flight[k] /\ k \in Flight /\ bbs' = bbs /\ next' = next /\ tail' = tail /\ tail \in Nat
  BY WroteNumbers
<1>2. /\ flight' \in Seq(FlightRecs) /\ Len(flight') = Len(flight)
      /\ flight'[k].at = f.at /\ flight'[k].rec = f.rec /\ flight'[k].left = f.left \ {i}
      /\ \A j \in Flight : j # k => flight'[j] = flight[j]
  BY DEF Wrote
<1>3. Flight' = Flight
  BY <1>2 DEF Flight
<1>4. /\ flight \in Seq(FlightRecs) /\ Len(flight) <= MaxIclogs
      /\ \A j \in Flight : FlightOK(j)
      /\ \A j, m \in Flight : j < m => EndOf(flight[j]) <= flight[m].at
  BY DEF LogInv, FlightInv
<1>5. \A j \in Flight : /\ flight'[j].at = flight[j].at /\ flight'[j].rec = flight[j].rec
                        /\ flight'[j].left \subseteq flight[j].left
  BY <1>1, <1>2
<1>6. \A j \in Flight : EndOf(flight'[j]) = EndOf(flight[j])
  BY <1>5 DEF EndOf
<1>7. ASSUME NEW j \in Flight
      PROVE  FlightOK(j)'
  <2>1. PICK e, g, z : e = flight[j] /\ g = flight'[j] /\ z = EndOf(e)
    OBVIOUS
  <2>2. g.at = e.at /\ g.rec = e.rec /\ g.left \subseteq e.left /\ EndOf(g) = z
    BY <1>5, <1>6, <2>1
  <2>3. /\ HeaderOK(e.rec.header) /\ e.left \subseteq 0..(Total(e.rec.header) - 1)
        /\ e.rec.unmount => e.rec.header.single
        /\ TailOK(e.rec.header, z)
        /\ z = (IF j = Len(flight) THEN next ELSE flight[j + 1].at)
        /\ z <= next
        /\ next - e.at <= (Len(flight) - j + 1) * RecBbs
    BY <1>4, <2>1 DEF FlightOK
  <2>4. HeaderOK(e.rec.header)' /\ TailOK(e.rec.header, z)'
    <3>1. tail' \in Nat /\ tail <= tail'
      BY <1>1
    <3> QED
      BY <1>1, <2>3, <3>1, HeaderStays
  <2>5. z = IF j = Len(flight') THEN next' ELSE flight'[j + 1].at
    <3>1. j # Len(flight) => j + 1 \in Flight
      BY <1>4 DEF Flight
    <3> QED
      BY <1>1, <1>2, <1>5, <2>3, <3>1
  <2>6. z <= next' /\ next' - g.at <= (Len(flight') - j + 1) * RecBbs
    BY <1>1, <1>2, <2>2, <2>3
  <2>7. HeaderOK(g.rec.header)' /\ TailOK(g.rec.header, EndOf(g))' /\ EndOf(g)' = EndOf(g)
    BY <2>2, <2>4 DEF EndOf
  <2>8. g.left \subseteq 0..(Total(g.rec.header) - 1) /\ (g.rec.unmount => g.rec.header.single)
    BY <2>2, <2>3
  <2>9. EndOf(g) = IF j = Len(flight') THEN next' ELSE flight'[j + 1].at
    BY <2>2, <2>5
  <2>10. EndOf(g) <= next' /\ next' - g.at <= (Len(flight') - j + 1) * RecBbs
    BY <2>2, <2>6
  <2> QED
    BY <2>1, <2>7, <2>8, <2>9, <2>10 DEF FlightOK, EndOf, Total
<1>8. \A j, m \in Flight : j < m => EndOf(flight'[j]) <= flight'[m].at
  BY <1>4, <1>5, <1>6
<1>9. FlightRecs' = FlightRecs
  BY <1>1 DEF FlightRecs, Header
<1>10. Oldest' = Oldest
  <2>1. flight' = <<>> <=> flight = <<>>
    BY <1>2, <1>4
  <2>2. flight # <<>> => 1 \in Flight
    BY <1>4 DEF Flight
  <2> QED
    BY <1>1, <1>5, <2>1, <2>2 DEF Oldest
<1>11. FlightInv'
  BY <1>2, <1>3, <1>4, <1>7, <1>8, <1>9 DEF FlightInv, EndOf, Total
<1> QED
  BY <1>3, <1>10, <1>11

(* The position written is of its own cycle, the others as they were.      *)
LEMMA WroteCycles ==
    ASSUME LogInv, NEW f, NEW k, NEW i, Wrote(f, k, i)
    PROVE  Cycles'
<1>1. bbs' = bbs /\ next' = next /\ bbs \in Nat \ {0} /\ next \in Nat /\ f.at \in Nat /\ i \in Nat
  BY WroteNumbers
<1>2. Out' = Out \ {f.at + i} /\ Cycles
  BY WroteOut DEF LogInv
<1>3. ring'[(f.at + i) % bbs].cycle = CycleAt(f.at + i)
  BY WroteBlock
<1>4. ASSUME NEW x \in (next - bbs)..(next - 1)
      PROVE  ring'[x % bbs].cycle = IF x \in Out' THEN CycleAt(x) - 1 ELSE CycleAt(x)
  <2>1. CASE x = f.at + i
    BY <1>2, <1>3, <2>1
  <2>2. CASE x # f.at + i
    <3>1. x \in Int /\ next - bbs <= x /\ x < next
      BY <1>1
    <3>2. ring'[x % bbs] = ring[x % bbs]
      BY <2>2, <3>1, WroteElsewhere
    <3> QED
      BY <1>2, <2>2, <3>2 DEF Cycles
  <2> QED
    BY <2>1, <2>2
<1> QED
  BY <1>1, <1>4 DEF Cycles, CycleAt

(* What is on disk of the records in flight is what they are stamped with. *)
LEMMA WroteStamps ==
    ASSUME LogInv, NEW f, NEW k, NEW i, Wrote(f, k, i)
    PROVE  Stamps'
<1>1. /\ bbs' = bbs /\ f = flight[k] /\ k \in Flight /\ f.at \in Nat /\ i \in Nat
      /\ bbs \in Nat /\ next \in Nat /\ tail \in Nat /\ last \in Nat /\ Oldest \in Nat
      /\ tail <= last /\ last < Oldest /\ next - tail < bbs
  BY WroteNumbers
<1>2. /\ \A j \in Flight : j # k => flight'[j] = flight[j]
      /\ flight'[k].at = f.at /\ flight'[k].rec = f.rec /\ flight'[k].left = f.left \ {i}
  BY DEF Wrote
<1>3. Flight' = Flight
  BY WroteFlightInv
<1>4. LogNumbers /\ FlightInv /\ Stamps
  BY DEF LogInv
<1>5. ASSUME NEW j \in Flight, NEW y \in 0..(Total(flight[j].rec.header) - 1),
             y \notin flight'[j].left
      PROVE  ring'[(flight[j].at + y) % bbs] = Stamped(flight[j].at, flight[j].rec, y)
  <2>1. PICK e, n : e = flight[j] /\ n = Total(e.rec.header)
    OBVIOUS
  <2>2. e.at \in Nat /\ n \in Nat /\ EndOf(e) = e.at + n /\ EndOf(e) <= next /\ Oldest <= e.at
    BY <1>4, <2>1, FlightFields
  <2>3. y \in Nat /\ y < n
    BY <1>5, <2>1, <2>2
  <2>4. CASE j = k /\ y = i
    BY <1>1, <2>4, WroteBlock
  <2>5. CASE ~ (j = k /\ y = i)
    <3>1. y \notin e.left
      BY <1>1, <1>2, <1>5, <2>1, <2>5
    <3>2. ring[(e.at + y) % bbs] = Stamped(e.at, e.rec, y)
      BY <1>4, <1>5, <2>1, <3>1 DEF Stamps
    <3>3. e.at + y # f.at + i
      <4>1. CASE j = k
        BY <1>1, <2>1, <2>3, <2>5, <4>1
      <4>2. CASE j # k
        <5>1. e.at + y \notin OutOf(f)
          <6>1. PICK m : m = Total(f.rec.header)
            OBVIOUS
          <6>2. m \in Nat /\ EndOf(f) = f.at + m /\ f.left \subseteq 0..(m - 1)
            BY <1>1, <1>4, <6>1, FlightFields
          <6>3. j < k \/ k < j
            BY <1>1, <1>4, <4>2 DEF FlightInv, Flight
          <6>4. EndOf(e) <= f.at \/ EndOf(f) <= e.at
            BY <1>1, <1>4, <2>1, <6>3 DEF FlightInv
          <6>5. ASSUME NEW z \in f.left
                PROVE  e.at + y # f.at + z
            <7>1. z \in Nat /\ z < m
              BY <6>2
            <7> QED
              BY <1>1, <2>2, <2>3, <6>2, <6>4, <7>1
          <6> QED
            BY <6>5 DEF OutOf
        <5>2. i \in f.left
          BY DEF Wrote
        <5> QED
          BY <5>1, <5>2 DEF OutOf
      <4> QED
        BY <4>1, <4>2
    <3>4. e.at + y \in Int /\ next - bbs <= e.at + y /\ e.at + y < next
      BY <1>1, <2>2, <2>3
    <3>5. ring'[(e.at + y) % bbs] = ring[(e.at + y) % bbs]
      BY <3>3, <3>4, WroteElsewhere
    <3> QED
      BY <2>1, <3>2, <3>5
  <2> QED
    BY <2>4, <2>5
<1>6. \A j \in Flight : flight'[j].at = flight[j].at /\ flight'[j].rec = flight[j].rec
  BY <1>1, <1>2
<1>7. \A p, r, y : Stamped(p, r, y)' = Stamped(p, r, y)
  BY <1>1 DEF Stamped, CycleAt
<1>8. ASSUME NEW j \in Flight, NEW y \in 0..(Total(flight'[j].rec.header) - 1),
             y \notin flight'[j].left
      PROVE  ring'[(flight'[j].at + y) % bbs] = Stamped(flight'[j].at, flight'[j].rec, y)
  BY <1>5, <1>6, <1>8
<1> QED
  BY <1>1, <1>3, <1>7, <1>8 DEF Stamps, Stamped, CycleAt, Total

(* The last whole record is before them.                                   *)
LEMMA WroteLast ==
    ASSUME LogInv, NEW f, NEW k, NEW i, Wrote(f, k, i)
    PROVE  LastInv'
<1>1. /\ bbs' = bbs /\ tail' = tail /\ last' = last /\ f.at \in Nat /\ i \in Nat /\ Oldest <= f.at
      /\ bbs \in Nat /\ next \in Nat /\ tail \in Nat /\ last \in Nat /\ Oldest \in Nat
      /\ tail <= last /\ last < Oldest /\ next - tail < bbs /\ Oldest <= next
  BY WroteNumbers
<1>2. PICK o : o = Oldest
  OBVIOUS
<1>3. Oldest' = o
  BY <1>2, WroteFlightInv
<1>4. ASSUME NEW p \in last..(o - 1)
      PROVE  ring'[p % bbs] = ring[p % bbs]
  <2>1. p \in Int /\ p # f.at + i /\ next - bbs <= p /\ p < next
    BY <1>1, <1>2
  <2> QED
    BY <2>1, WroteElsewhere
<1>5. PICK h : h = ring[last % bbs].header
  OBVIOUS
<1>6. /\ HeaderOK(h) /\ last + Total(h) = o /\ TailOK(h, o)
      /\ \A p \in (last + 1)..(o - 1) : ~ HasMagic(ring[p % bbs])
      /\ ring[(last + h.hblks) % bbs].unmount => h.single
  BY <1>2, <1>5 DEF LogInv, LastInv
<1>7. last \in last..(o - 1) /\ last + h.hblks \in last..(o - 1)
  <2>1. bbs \in Sizes
    BY WroteNumbers
  <2>2. h.hblks \in Nat /\ Total(h) \in Nat /\ h.hblks < Total(h)
    BY <1>6, <2>1, HeaderFields
  <2> QED
    BY <1>1, <1>2, <1>6, <2>2
<1>8. ring'[last % bbs].header = h /\ ring'[(last + h.hblks) % bbs] = ring[(last + h.hblks) % bbs]
  BY <1>4, <1>5, <1>7
<1>9. \A p \in (last + 1)..(o - 1) : ~ HasMagic(ring'[p % bbs])
  <2>1. (last + 1)..(o - 1) \subseteq last..(o - 1)
    BY <1>1, <1>2
  <2> QED
    BY <1>4, <1>6, <2>1
<1>10. HeaderOK(h)' /\ TailOK(h, o)'
  <2>1. tail' \in Nat /\ tail <= tail'
    BY <1>1
  <2> QED
    BY <1>1, <1>6, <2>1, HeaderStays
<1> QED
  BY <1>1, <1>3, <1>6, <1>8, <1>9, <1>10 DEF LastInv, HasMagic, NoHeader

(* A block is written.                                                     *)
LEMMA WriteBlockLog ==
    ASSUME LogInv, NEW k \in 1..Len(flight), NEW i \in flight[k].left, WriteBlock(k, i)
    PROVE  LogInv'
<1>1. PICK f : f = flight[k]
  OBVIOUS
<1>2. k \in Flight
  BY DEF Flight
<1>3. /\ ring' = [ring EXCEPT ![(f.at + i) % bbs] = Stamped(f.at, f.rec, i)]
      /\ UNCHANGED <<bbs, next, tail, last, mount, records>>
  BY <1>1 DEF WriteBlock
<1>4. OneLess(flight', k, i)
  BY DEF WriteBlock, OneLess
<1>5. /\ flight' \in Seq(FlightRecs) /\ Len(flight') = Len(flight)
      /\ \A j \in Flight : j # k => flight'[j] = flight[j]
      /\ flight'[k].at = flight[k].at /\ flight'[k].rec = flight[k].rec
      /\ flight'[k].left = flight[k].left \ {i}
  BY <1>2, <1>4, WroteFlight
<1>6. Wrote(f, k, i)
  BY <1>1, <1>2, <1>3, <1>5 DEF Wrote
<1>7. LogNumbers'
  <2>1. Oldest' = Oldest
    BY <1>6, WroteFlightInv
  <2> QED
    BY <1>3, <2>1 DEF LogInv, LogNumbers
<1> QED
  BY <1>6, <1>7, WroteFlightInv, WroteBlock, WroteCycles, WroteStamps, WroteLast DEF LogInv

(* The oldest record in flight, f, is whole and finished.                  *)
Finished(f) ==
    /\ f = flight[1] /\ f.left = {} /\ Len(flight) \in Nat \ {0}
    /\ last' = f.at /\ flight' \in Seq(FlightRecs) /\ Len(flight') = Len(flight) - 1
    /\ \A j \in 1..(Len(flight) - 1) : flight'[j] = flight[j + 1]
    /\ UNCHANGED <<bbs, ring, next, tail, records>>

(* It is the step that finishes one.                                       *)
LEMMA FinishIs ==
    ASSUME LogInv, Finish
    PROVE  /\ Finished(flight[1]) /\ mount' \in {"mounted", "unmounting", "unmounted"}
<1>1. flight \in Seq(FlightRecs) /\ mount \in {"mounted", "unmounting", "unmounted"}
  BY DEF LogInv, FlightInv, LogNumbers
<1>2. /\ flight # <<>> /\ Head(flight).left = {} /\ last' = Head(flight).at
      /\ flight' = Tail(flight) /\ UNCHANGED <<bbs, ring, next, tail, records>>
  BY DEF Finish
<1>3. mount' \in {"mounted", "unmounting", "unmounted"}
  BY <1>1 DEF Finish
<1>4. Head(flight) = flight[1] /\ Len(flight) \in Nat \ {0}
  BY <1>1, <1>2
<1>5. /\ Tail(flight) \in Seq(FlightRecs) /\ Len(Tail(flight)) = Len(flight) - 1
      /\ \A j \in 1..(Len(flight) - 1) : Tail(flight)[j] = flight[j + 1]
  BY <1>1, <1>2
<1> QED
  BY <1>2, <1>3, <1>4, <1>5 DEF Finished

(* The positions: the next record in flight starts where f ends.           *)
LEMMA FinishedNumbers ==
    ASSUME LogInv, NEW f, Finished(f)
    PROVE  /\ bbs \in Nat \ {0} /\ bbs \in Sizes /\ bbs' = bbs /\ next' = next /\ tail' = tail
           /\ ring' = ring /\ records' = records /\ last' = f.at /\ f = flight[1] /\ 1 \in Flight
           /\ next \in Nat /\ tail \in Nat /\ last \in Nat /\ f.at \in Nat /\ Oldest = f.at
           /\ tail <= last /\ last < f.at /\ EndOf(f) <= next /\ next - tail < bbs
           /\ EndOf(f) \in Nat /\ f.at < EndOf(f) /\ Oldest' = EndOf(f)
<1>1. LogNumbers /\ FlightInv
  BY DEF LogInv
<1>2. /\ bbs \in Sizes /\ next \in Nat /\ tail \in Nat /\ last \in Nat
      /\ tail <= last /\ last < Oldest /\ Oldest <= next /\ next - tail < bbs
  BY <1>1 DEF LogNumbers
<1>3. bbs \in Nat \ {0}
  BY <1>2, Sized
<1>4. /\ f = flight[1] /\ Len(flight) \in Nat \ {0} /\ last' = f.at /\ flight' \in Seq(FlightRecs)
      /\ Len(flight') = Len(flight) - 1 /\ \A j \in 1..(Len(flight) - 1) : flight'[j] = flight[j + 1]
      /\ bbs' = bbs /\ next' = next /\ tail' = tail /\ ring' = ring /\ records' = records
  BY DEF Finished
<1>5. 1 \in Flight /\ Oldest = f.at
  BY <1>4 DEF Flight, Oldest
<1>6. f.at \in Nat /\ EndOf(f) \in Nat /\ f.at + 2 <= EndOf(f) /\ EndOf(f) <= next
  BY <1>1, <1>4, <1>5, FlightFields
<1>7. f.at < EndOf(f)
  BY <1>6
<1>8. Oldest' = EndOf(f)
  <2>1. FlightOK(1)
    BY <1>1, <1>5 DEF FlightInv
  <2>2. EndOf(f) = IF 1 = Len(flight) THEN next ELSE flight[2].at
    BY <1>4, <2>1 DEF FlightOK
  <2>3. CASE Len(flight) = 1
    <3>1. flight' = <<>>
      BY <1>4, <2>3
    <3> QED
      BY <1>4, <2>2, <2>3, <3>1 DEF Oldest
  <2>4. CASE Len(flight) # 1
    <3>1. 1 \in 1..(Len(flight) - 1) /\ flight' # <<>>
      BY <1>4, <2>4
    <3>2. flight'[1] = flight[2]
      BY <1>4, <3>1
    <3> QED
      BY <2>2, <2>4, <3>1, <3>2 DEF Oldest
  <2> QED
    BY <2>3, <2>4
<1> QED
  BY <1>2, <1>3, <1>4, <1>5, <1>6, <1>7, <1>8

(* The others are in flight still.                                         *)
LEMMA FinishedFlight ==
    ASSUME LogInv, NEW f, Finished(f)
    PROVE  /\ FlightInv' /\ Out' = Out
           /\ \A j \in Flight' : j + 1 \in Flight /\ flight'[j] = flight[j + 1]
<1>1. /\ bbs' = bbs /\ next' = next /\ tail' = tail /\ tail \in Nat /\ next \in Nat
      /\ f = flight[1] /\ 1 \in Flight /\ bbs \in Sizes
  BY FinishedNumbers
<1>2. /\ Len(flight) \in Nat \ {0} /\ flight' \in Seq(FlightRecs) /\ f.left = {}
      /\ Len(flight') = Len(flight) - 1 /\ \A j \in 1..(Len(flight) - 1) : flight'[j] = flight[j + 1]
  BY DEF Finished
<1>3. Flight' = 1..(Len(flight) - 1) /\ Flight = 1..Len(flight)
  BY <1>2 DEF Flight
<1>4. \A j \in Flight' : j + 1 \in Flight /\ flight'[j] = flight[j + 1]
  BY <1>2, <1>3
<1>5. /\ Len(flight) <= MaxIclogs
      /\ \A j \in Flight : FlightOK(j)
      /\ \A j, m \in Flight : j < m => EndOf(flight[j]) <= flight[m].at
  BY DEF LogInv, FlightInv
<1>6. ASSUME NEW j \in Flight'
      PROVE  FlightOK(j)'
  <2>1. PICK e, z : e = flight'[j] /\ z = EndOf(e)
    OBVIOUS
  <2>2. PICK m \in Nat : m = j + 1
    BY <1>2, <1>3
  <2>3. m \in Flight /\ e = flight[m]
    BY <1>4, <2>1, <2>2
  <2>4. /\ HeaderOK(e.rec.header) /\ e.left \subseteq 0..(Total(e.rec.header) - 1)
        /\ e.rec.unmount => e.rec.header.single
        /\ TailOK(e.rec.header, z)
        /\ z = (IF m = Len(flight) THEN next ELSE flight[m + 1].at)
        /\ z <= next
        /\ next - e.at <= (Len(flight) - m + 1) * RecBbs
    BY <1>5, <2>1, <2>3 DEF FlightOK
  <2>5. HeaderOK(e.rec.header)' /\ TailOK(e.rec.header, z)'
    <3>1. tail' \in Nat /\ tail <= tail'
      BY <1>1
    <3> QED
      BY <1>1, <2>4, <3>1, HeaderStays
  <2>6. z = IF j = Len(flight') THEN next' ELSE flight'[j + 1].at
    <3>1. j = Len(flight') <=> m = Len(flight)
      BY <1>2, <1>3, <2>2
    <3>2. j # Len(flight') => j + 1 \in Flight'
      BY <1>2, <1>3
    <3>3. j # Len(flight') => flight'[j + 1] = flight[m + 1]
      BY <1>4, <2>2, <3>2
    <3> QED
      BY <1>1, <2>4, <3>1, <3>3
  <2>7. Len(flight') - j + 1 = Len(flight) - m + 1
    BY <1>2, <1>3, <2>2
  <2>8. z <= next' /\ next' - e.at <= (Len(flight') - j + 1) * RecBbs
    BY <1>1, <2>4, <2>7
  <2> QED
    BY <2>1, <2>4, <2>5, <2>6, <2>8 DEF FlightOK, EndOf, Total
<1>7. ASSUME NEW j \in Flight', NEW m \in Flight', j < m
      PROVE  EndOf(flight'[j]) <= flight'[m].at
  <2>1. PICK x \in Nat, y \in Nat : x = j + 1 /\ y = m + 1
    BY <1>2, <1>3
  <2>2. x < y /\ x \in Flight /\ y \in Flight
    BY <1>2, <1>3, <1>7, <2>1
  <2>3. flight'[j] = flight[x] /\ flight'[m] = flight[y]
    BY <1>4, <2>1
  <2> QED
    BY <1>5, <2>2, <2>3
<1>8. FlightRecs' = FlightRecs
  BY <1>1 DEF FlightRecs, Header
<1>9. Len(flight') <= MaxIclogs
  <2>1. MaxIclogs \in Nat
    BY <1>1, Sized
  <2> QED
    BY <1>2, <1>5, <2>1
<1>10. FlightInv'
  BY <1>2, <1>6, <1>7, <1>8, <1>9 DEF FlightInv, EndOf, Total
<1>11. Out' = Out
  <2>1. Out' = UNION {OutOf(flight'[j]) : j \in Flight'}
    BY DEF Out, OutOf
  <2>2. OutOf(flight[1]) = {}
    BY <1>1, <1>2 DEF OutOf
  <2>3. ASSUME NEW m \in Flight, m # 1
        PROVE  \E j \in Flight' : flight'[j] = flight[m]
    <3>1. m - 1 \in Flight' /\ (m - 1) + 1 = m
      BY <1>2, <1>3, <2>3
    <3> QED
      BY <1>4, <3>1
  <2> QED
    BY <1>4, <2>1, <2>2, <2>3 DEF Out
<1> QED
  BY <1>4, <1>10, <1>11

(* The record that is finished is the last whole one.                      *)
LEMMA FinishedLast ==
    ASSUME LogInv, NEW f, Finished(f)
    PROVE  LastInv'
<1>1. /\ bbs' = bbs /\ ring' = ring /\ last' = f.at /\ f = flight[1] /\ 1 \in Flight /\ bbs \in Sizes
      /\ tail' = tail /\ tail \in Nat /\ f.at \in Nat /\ f.at < EndOf(f) /\ Oldest' = EndOf(f)
      /\ EndOf(f) \in Nat
  BY FinishedNumbers
<1>2. PICK h, n, z : h = f.rec.header /\ n = Total(h) /\ z = EndOf(f)
  OBVIOUS
<1>3. /\ HeaderOK(h) /\ (f.rec.unmount => h.single) /\ TailOK(h, z)
  <2>1. FlightOK(1)
    BY <1>1 DEF LogInv, FlightInv
  <2> QED
    BY <1>1, <1>2, <2>1 DEF FlightOK
<1>4. z = f.at + n /\ n \in Nat /\ h.hblks \in Nat /\ h.hblks < n /\ h.hblks >= 1
  BY <1>1, <1>2, <1>3, HeaderFields DEF EndOf
<1>5. \A i \in 0..(n - 1) : ring[(f.at + i) % bbs] = Stamped(f.at, f.rec, i)
  <2>1. Stamps /\ f.left = {}
    BY DEF LogInv, Finished
  <2> QED
    BY <1>1, <1>2, <2>1 DEF Stamps
<1>6. ring[f.at % bbs].header = h
  <2>1. 0 \in 0..(n - 1) /\ f.at + 0 = f.at
    BY <1>1, <1>4
  <2>2. ring[f.at % bbs] = Stamped(f.at, f.rec, 0)
    BY <1>5, <2>1
  <2> QED
    BY <1>2, <2>2 DEF Stamped, Block
<1>7. ASSUME NEW p \in (f.at + 1)..(z - 1)
      PROVE  ~ HasMagic(ring[p % bbs])
  <2>1. PICK i \in 0..(n - 1) : p = f.at + i /\ i # 0
    <3>1. p - f.at \in 0..(n - 1) /\ p = f.at + (p - f.at) /\ p - f.at # 0
      BY <1>1, <1>4
    <3> QED
      BY <3>1
  <2>2. ring[p % bbs] = Stamped(f.at, f.rec, i)
    BY <1>5, <2>1
  <2>3. Stamped(f.at, f.rec, i).header = NoHeader
    BY <2>1 DEF Stamped, Block
  <2> QED
    BY <2>2, <2>3 DEF HasMagic
<1>8. ring[(f.at + h.hblks) % bbs].unmount => h.single
  <2>1. h.hblks \in 0..(n - 1)
    BY <1>4
  <2>2. ring[(f.at + h.hblks) % bbs] = Stamped(f.at, f.rec, h.hblks)
    BY <1>5, <2>1
  <2>3. Stamped(f.at, f.rec, h.hblks).unmount = (f.rec.unmount /\ h.hblks = f.rec.header.hblks)
    BY DEF Stamped, Block
  <2> QED
    BY <1>3, <2>2, <2>3
<1>9. HeaderOK(h)' /\ TailOK(h, z)'
  <2>1. tail' \in Nat /\ tail <= tail'
    BY <1>1
  <2> QED
    BY <1>1, <1>3, <2>1, HeaderStays
<1>10. f.at + Total(h) = z /\ Oldest' = z
  BY <1>1, <1>2, <1>4
<1> QED
  BY <1>1, <1>6, <1>7, <1>8, <1>9, <1>10 DEF LastInv, HasMagic, NoHeader, Total

(* A record is finished.                                                   *)
LEMMA FinishLog ==
    ASSUME LogInv, Finish
    PROVE  LogInv'
<1>1. PICK f : f = flight[1]
  OBVIOUS
<1>2. Finished(f) /\ mount' \in {"mounted", "unmounting", "unmounted"}
  BY <1>1, FinishIs
<1>3. /\ bbs \in Nat \ {0} /\ bbs \in Sizes /\ bbs' = bbs /\ next' = next /\ tail' = tail
      /\ ring' = ring /\ records' = records /\ last' = f.at
      /\ next \in Nat /\ tail \in Nat /\ last \in Nat /\ f.at \in Nat
      /\ tail <= last /\ last < f.at /\ EndOf(f) <= next /\ next - tail < bbs
      /\ EndOf(f) \in Nat /\ f.at < EndOf(f) /\ Oldest' = EndOf(f)
  BY <1>2, FinishedNumbers
<1>4. LogNumbers'
  <2>1. records \in 0..MaxRecords
    BY DEF LogInv, LogNumbers
  <2>2. tail <= f.at
    BY <1>3
  <2> QED
    BY <1>2, <1>3, <2>1, <2>2 DEF LogNumbers
<1>5. FlightInv' /\ Out' = Out /\ \A j \in Flight' : j + 1 \in Flight /\ flight'[j] = flight[j + 1]
  BY <1>2, FinishedFlight
<1>6. RingType'
  BY <1>3 DEF LogInv, RingType, CycleAt, Header
<1>7. Cycles'
  BY <1>3, <1>5 DEF LogInv, Cycles, CycleAt
<1>8. Stamps'
  <2>1. Stamps
    BY DEF LogInv
  <2>2. \A j \in Flight' : \A i \in 0..(Total(flight'[j].rec.header) - 1) :
            i \notin flight'[j].left =>
                ring[(flight'[j].at + i) % bbs] = Stamped(flight'[j].at, flight'[j].rec, i)
    BY <1>5, <2>1 DEF Stamps
  <2> QED
    BY <1>3, <2>2 DEF Stamps, Stamped, CycleAt, Total
<1> QED
  BY <1>2, <1>4, <1>5, <1>6, <1>7, <1>8, FinishedLast DEF LogInv

-----------------------------------------------------------------------------
(* The log a cleanly unmounted filesystem has.                             *)

(* The records it is full of, and the block of position q.                 *)
Filler(p, q) == [header |-> [hblks |-> 1, len |-> 1, single |-> TRUE, tail |-> q % bbs],
                 unmount |-> q = p - 2]
FillerBlock(p, q) == IF q < 0 THEN Zeroes
                     ELSE IF (p - q) % 2 = 0 THEN Stamped(q, Filler(p, q), 0)
                     ELSE Stamped(q - 1, Filler(p, q - 1), 1)

(* A block holds its newest position.                                      *)
LEMMA NewestPosition ==
    ASSUME NEW n \in Nat \ {0}, NEW p \in Int, NEW q \in (p - n)..(p - 1)
    PROVE  p - 1 - ((p - 1 - (q % n)) % n) = q
<1>1. PICK k \in Int : k = q \div n
  BY ModSplit
<1>2. PICK B \in Int : B = k * n
  OBVIOUS
<1>3. PICK r \in Int : r = q % n /\ q = B + r
  <2>1. \A y \in Int : y = (y \div n) * n + (y % n) /\ y % n \in Int
    BY ModSplit
  <2>2. q = k * n + (q % n) /\ q % n \in Int
    BY <1>1, <2>1
  <2> QED
    BY <1>2, <2>2
<1>4. PICK s \in 0..(n - 1) : s = p - 1 - q
  OBVIOUS
<1>5. p - 1 - r = B + s
  BY <1>3, <1>4
<1>6. (k * n + s) % n = s
  BY ModIs
<1>7. (p - 1 - r) % n = s
  BY <1>2, <1>5, <1>6
<1> QED
  BY <1>3, <1>4, <1>7

(* The log, by positions.                                                  *)
LEMMA UnmountedBlocks ==
    ASSUME bbs \in Nat \ {0}, NEW p \in Int
    PROVE  /\ UnmountedAt(p) = [b \in 0..(bbs - 1) |-> FillerBlock(p, p - 1 - ((p - 1 - b) % bbs))]
           /\ \A q \in (p - bbs)..(p - 1) : UnmountedAt(p)[q % bbs] = FillerBlock(p, q)
<1>1. UnmountedAt(p) = [b \in 0..(bbs - 1) |-> FillerBlock(p, p - 1 - ((p - 1 - b) % bbs))]
  BY DEF UnmountedAt, FillerBlock, Filler
<1>2. ASSUME NEW q \in (p - bbs)..(p - 1)
      PROVE  UnmountedAt(p)[q % bbs] = FillerBlock(p, q)
  <2>1. q % bbs \in 0..(bbs - 1)
    <3>1. \A y \in Int : y % bbs \in 0..(bbs - 1)
      BY ModSplit
    <3> QED
      BY <3>1
  <2>2. p - 1 - ((p - 1 - (q % bbs)) % bbs) = q
    BY NewestPosition
  <2>3. UnmountedAt(p)[q % bbs] = FillerBlock(p, p - 1 - ((p - 1 - (q % bbs)) % bbs))
    BY <1>1, <2>1
  <2> QED
    BY <2>2, <2>3
<1> QED
  BY <1>1, <1>2

(* Each block is of the cycle of its position and of its type.             *)
LEMMA FillerIs ==
    ASSUME bbs \in Sizes, NEW p \in Nat, NEW q \in Int, p - bbs <= q, q < p, p > 0
    PROVE  /\ FillerBlock(p, q).cycle = CycleAt(q)
           /\ FillerBlock(p, q) \in [cycle : 0..CycleAt(p), header : Header, unmount : BOOLEAN]
<1>1. bbs \in Nat \ {0} /\ RecBbs \in Nat /\ RecBbs > 1
  BY Sized
<1>2. NoHeader \in Header
  BY <1>1 DEF NoHeader, Header
<1>3. CycleAt(p) \in Int /\ CycleAt(p) >= 1 /\ CycleAt(q) \in Int /\ CycleAt(q) <= CycleAt(p)
      /\ (q >= 0 => CycleAt(q) >= 1)
  BY <1>1, CycleGrows
<1>4. CASE q < 0
  <2>1. CycleAt(q) = 0
    <3>1. Turn(0, 0, bbs)
      BY <1>1 DEF Turn
    <3>2. Near(q, 0, 0, bbs)
      <4>1. \A n \in Nat \ {0} : \A x, k, B \in Int : Turn(B, k, n) => Near(x, B, k, n)
        BY ModNear
      <4>2. 0 \in Int
        OBVIOUS
      <4> QED
        BY <1>1, <3>1, <4>1, <4>2, Zenon
    <3>3. 0 - bbs <= q
      BY <1>1
    <3>4. q \div bbs = 0 - 1
      BY <1>1, <1>4, <3>2, <3>3 DEF Near
    <3> QED
      BY <3>4 DEF CycleAt
  <2>2. FillerBlock(p, q) = [cycle |-> 0, header |-> NoHeader, unmount |-> FALSE]
    BY <1>4 DEF FillerBlock, Zeroes, Block
  <2>3. 0 \in 0..CycleAt(p)
    BY <1>3
  <2> QED
    BY <1>2, <2>1, <2>2, <2>3
<1>5. CASE q >= 0 /\ (p - q) % 2 = 0
  <2>1. PICK h : h = [hblks |-> 1, len |-> 1, single |-> TRUE, tail |-> q % bbs]
    OBVIOUS
  <2>2. h \in Header
    <3>1. \A y \in Int : y % bbs \in 0..(bbs - 1)
      BY <1>1, ModSplit
    <3>2. 1 \in 0..RecBbs /\ q % bbs \in 0..(bbs - 1)
      BY <1>1, <3>1
    <3> QED
      BY <2>1, <3>2 DEF Header
  <2>3. Filler(p, q) = [header |-> h, unmount |-> q = p - 2]
    BY <2>1 DEF Filler
  <2>4. FillerBlock(p, q) = Stamped(q, Filler(p, q), 0)
    BY <1>5 DEF FillerBlock
  <2>5. PICK u \in BOOLEAN : u = (Filler(p, q).unmount /\ 0 = Filler(p, q).header.hblks)
    OBVIOUS
  <2>6. FillerBlock(p, q) = [cycle |-> CycleAt(q), header |-> h, unmount |-> u]
    <3>1. Filler(p, q).header = h /\ q + 0 = q
      BY <2>3
    <3> QED
      BY <2>4, <2>5, <3>1 DEF Stamped, Block
  <2>7. CycleAt(q) \in 0..CycleAt(p)
    BY <1>3, <1>5
  <2> QED
    BY <2>2, <2>6, <2>7
<1>6. CASE q >= 0 /\ (p - q) % 2 # 0
  <2>1. FillerBlock(p, q) = Stamped(q - 1, Filler(p, q - 1), 1)
    BY <1>6 DEF FillerBlock
  <2>2. PICK u \in BOOLEAN : u = (Filler(p, q - 1).unmount /\ 1 = Filler(p, q - 1).header.hblks)
    OBVIOUS
  <2>3. FillerBlock(p, q) = [cycle |-> CycleAt(q), header |-> NoHeader, unmount |-> u]
    <3>1. q - 1 + 1 = q
      OBVIOUS
    <3> QED
      BY <2>1, <2>2, <3>1 DEF Stamped, Block
  <2>4. CycleAt(q) \in 0..CycleAt(p)
    BY <1>3, <1>6
  <2> QED
    BY <1>2, <2>3, <2>4
<1> QED
  BY <1>4, <1>5, <1>6

(* The invariant holds of it.                                              *)
LEMMA InitLog ==
    ASSUME Init
    PROVE  LogInv
<1>1. /\ bbs \in Sizes /\ next \in Starts[bbs] /\ ring = UnmountedAt(next) /\ tail = next - 2
      /\ last = next - 2 /\ flight = <<>> /\ mount = "unmounted" /\ records = 0
  BY DEF Init
<1>2. bbs \in Nat \ {0} /\ RecBbs \in Nat /\ RecBbs > 1 /\ RecBbs < bbs /\ MaxRecords \in Nat
      /\ MaxIclogs \in Nat
  BY <1>1, Sized
<1>3. next \in Nat /\ next >= 2
  <2>1. next \in Nat /\ (next > bbs \/ (next > 0 /\ next % 2 = 0))
    BY <1>1, LogAssumption
  <2>2. next # 1
    BY <1>2, <2>1
  <2> QED
    BY <1>2, <2>1, <2>2
<1>4. Flight = {} /\ Out = {} /\ Oldest = next
  BY <1>1 DEF Flight, Out, Oldest
<1>5. LogNumbers
  BY <1>1, <1>2, <1>3, <1>4 DEF LogNumbers
<1>6. FlightInv
  <2>1. flight \in Seq(FlightRecs) /\ Len(flight) = 0
    BY <1>1
  <2> QED
    BY <1>2, <1>4, <2>1 DEF FlightInv
<1>7. \A q \in (next - bbs)..(next - 1) : ring[q % bbs] = FillerBlock(next, q)
  <2>1. \A p \in Int : \A q \in (p - bbs)..(p - 1) : UnmountedAt(p)[q % bbs] = FillerBlock(p, q)
    BY <1>2, UnmountedBlocks
  <2> QED
    BY <1>1, <1>3, <2>1
<1>8. RingType
  <2>1. ring = [b \in 0..(bbs - 1) |-> FillerBlock(next, next - 1 - ((next - 1 - b) % bbs))]
    BY <1>1, <1>2, <1>3, UnmountedBlocks
  <2>2. ASSUME NEW b \in 0..(bbs - 1)
        PROVE  FillerBlock(next, next - 1 - ((next - 1 - b) % bbs))
                   \in [cycle : 0..CycleAt(next), header : Header, unmount : BOOLEAN]
    <3>1. \A y \in Int : y % bbs \in 0..(bbs - 1)
      BY <1>2, ModSplit
    <3>2. PICK m \in 0..(bbs - 1) : m = (next - 1 - b) % bbs
      <4>1. next - 1 - b \in Int
        BY <1>2, <1>3
      <4> QED
        BY <3>1, <4>1
    <3>3. PICK q \in Int : q = next - 1 - m
      BY <1>2, <1>3
    <3>4. next - bbs <= q /\ q < next /\ next > 0
      BY <1>2, <1>3, <3>3
    <3> QED
      BY <1>1, <1>3, <3>2, <3>3, <3>4, FillerIs
  <2> QED
    BY <2>1, <2>2 DEF RingType
<1>9. Cycles
  <2>1. ASSUME NEW q \in (next - bbs)..(next - 1)
        PROVE  ring[q % bbs].cycle = CycleAt(q)
    <3>1. q \in Int /\ next - bbs <= q /\ q < next /\ next > 0
      BY <1>2, <1>3
    <3> QED
      BY <1>1, <1>3, <1>7, <3>1, FillerIs
  <2> QED
    BY <1>4, <2>1 DEF Cycles
<1>10. Stamps
  BY <1>4 DEF Stamps
<1>11. LastInv
  <2>1. PICK q \in Nat : q = next - 2
    BY <1>3
  <2>2. PICK h : h = [hblks |-> 1, len |-> 1, single |-> TRUE, tail |-> q % bbs]
    OBVIOUS
  <2>3. ring[q % bbs] = FillerBlock(next, q) /\ ring[(q + 1) % bbs] = FillerBlock(next, q + 1)
    <3>1. q \in (next - bbs)..(next - 1) /\ q + 1 \in (next - bbs)..(next - 1)
      BY <1>2, <1>3, <2>1
    <3> QED
      BY <1>7, <3>1
  <2>4. ring[q % bbs].header = h
    <3>1. (next - q) % 2 = 0
      BY <1>3, <2>1
    <3>2. FillerBlock(next, q) = Stamped(q, Filler(next, q), 0)
      BY <2>1, <3>1 DEF FillerBlock
    <3>3. Filler(next, q).header = h
      BY <2>2 DEF Filler
    <3>4. Stamped(q, Filler(next, q), 0).header = h
      BY <3>3 DEF Stamped, Block
    <3> QED
      BY <2>3, <3>2, <3>4
  <2>5. ~ HasMagic(ring[(q + 1) % bbs])
    <3>1. (next - (q + 1)) % 2 = 1 /\ ~ (q + 1 < 0)
      BY <1>3, <2>1
    <3>2. FillerBlock(next, q + 1) = Stamped(q + 1 - 1, Filler(next, q + 1 - 1), 1)
      BY <3>1 DEF FillerBlock
    <3>3. Stamped(q + 1 - 1, Filler(next, q + 1 - 1), 1).header = NoHeader
      BY DEF Stamped, Block
    <3> QED
      BY <2>3, <3>2, <3>3 DEF HasMagic
  <2>6. h.hblks = 1 /\ h.len = 1 /\ h.single = TRUE /\ h.tail = q % bbs
    BY <2>2
  <2>7. h \in Header
    <3>1. \A y \in Int : y % bbs \in 0..(bbs - 1)
      BY <1>2, ModSplit
    <3>2. 1 \in 0..RecBbs /\ q % bbs \in 0..(bbs - 1)
      BY <1>2, <3>1
    <3> QED
      BY <2>2, <3>2 DEF Header
  <2>8. Total(h) = 2
    BY <2>6 DEF Total
  <2>9. HeaderOK(h)
    BY <1>2, <2>6, <2>7, <2>8 DEF HeaderOK
  <2>10. TailOK(h, next)
    <3>1. q <= tail /\ next - q < bbs
      BY <1>1, <1>2, <1>3, <2>1
    <3> QED
      BY <2>6, <3>1 DEF TailOK
  <2>11. (last + 1)..(Oldest - 1) = {q + 1}
    BY <1>1, <1>3, <1>4, <2>1
  <2>12. last = q /\ q + 2 = Oldest
    BY <1>1, <1>3, <1>4, <2>1
  <2> QED
    BY <1>4, <2>4, <2>5, <2>6, <2>8, <2>9, <2>10, <2>11, <2>12 DEF LastInv
<1> QED
  BY <1>5, <1>6, <1>8, <1>9, <1>10, <1>11 DEF LogInv

-----------------------------------------------------------------------------
(* The invariant of the log.                                               *)

(* Nothing happens.                                                        *)
LEMMA StutterLog ==
    ASSUME LogInv, UNCHANGED vars
    PROVE  LogInv'
<1>1. /\ bbs' = bbs /\ ring' = ring /\ next' = next /\ tail' = tail /\ last' = last
      /\ flight' = flight /\ mount' = mount /\ records' = records
  BY DEF vars
<1>2. Oldest' = Oldest /\ Flight' = Flight /\ Header' = Header
  BY <1>1 DEF Oldest, Flight, Header
<1>3. Out' = Out /\ FlightRecs' = FlightRecs
  BY <1>1, <1>2 DEF Out, OutOf, FlightRecs
<1>4. \A h, e : HeaderOK(h)' = HeaderOK(h) /\ TailOK(h, e)' = TailOK(h, e)
  BY <1>1, <1>2 DEF HeaderOK, TailOK, Total
<1>5. LogNumbers'
  BY <1>1, <1>2 DEF LogInv, LogNumbers
<1>6. FlightInv'
  BY <1>1, <1>2, <1>3, <1>4 DEF LogInv, FlightInv, FlightOK, EndOf, HeaderOK, TailOK
<1>7. RingType' /\ Cycles' /\ Stamps'
  BY <1>1, <1>2, <1>3 DEF LogInv, RingType, Cycles, Stamps, Stamped, CycleAt
<1>8. LastInv'
  BY <1>1, <1>2, <1>4 DEF LogInv, LastInv, HeaderOK, TailOK
<1> QED
  BY <1>5, <1>6, <1>7, <1>8 DEF LogInv

(* Every step keeps the invariant.                                         *)
LEMMA StepLog ==
    ASSUME LogInv, [Next]_vars
    PROVE  LogInv'
<1>1. ASSUME NEW hb \in HeaderBlocks, NEW one \in BOOLEAN, NEW len \in 1..(RecBbs - hb), Log(hb, len, one)
      PROVE  LogInv'
  BY <1>1, LogLog
<1>2. ASSUME NEW k \in 1..Len(flight), NEW i \in flight[k].left, WriteBlock(k, i)
      PROVE  LogInv'
  BY <1>2, WriteBlockLog
<1>3. CASE Finish
  BY <1>3, FinishLog
<1>4. CASE MoveTail \/ Mount
  BY <1>4, TailLog
<1>5. CASE Unmount
  BY <1>5, UnmountLog
<1>6. CASE UNCHANGED vars
  BY <1>6, StutterLog
<1> QED
  BY <1>1, <1>2, <1>3, <1>4, <1>5, <1>6 DEF Next

(* The log is as the invariant says at every moment: its records follow    *)
(* one another, what is not in flight is on disk, and each block is of the *)
(* cycle of its newest position that is on disk.                           *)
THEOREM LogCorrect == Spec => []LogInv
<1>1. Init => LogInv
  BY InitLog
<1>2. LogInv /\ [Next]_vars => LogInv'
  BY StepLog
<1> QED
  BY <1>1, <1>2, PTL DEF Spec

(* Every variable has its type in every log: in particular no position is  *)
(* a turn of the ring from another.                                        *)
THEOREM LogTyped == Spec => []TypeOK
<1>1. LogInv => TypeOK
  <2>1. SUFFICES ASSUME LogInv
                 PROVE  TypeOK
    OBVIOUS
  <2>2. LogNumbers /\ FlightInv /\ RingType
    BY <2>1 DEF LogInv
  <2>3. Oldest \in Nat
    BY <2>2, OldestNat
  <2>4. /\ tail \in Nat /\ last \in Nat /\ next \in Nat /\ tail <= last /\ last < next /\ next - tail < bbs
        /\ records \in 0..MaxRecords /\ mount \in {"mounted", "unmounting", "unmounted"}
    BY <2>2, <2>3 DEF LogNumbers
  <2>5. Len(flight) <= MaxIclogs
    BY <2>2 DEF FlightInv
  <2> QED
    BY <2>2, <2>4, <2>5 DEF TypeOK, RingType
<1> QED
  BY <1>1, LogCorrect, PTL

-----------------------------------------------------------------------------
(* The head that is found.                                                 *)

(* The records in flight take no more than the search looks back over.     *)
LEMMA FlightFits ==
    ASSUME LogInv
    PROVE  next - Oldest <= total_rec_bbs /\ total_rec_bbs \in Nat /\ RecBbs <= total_rec_bbs
<1>1. LogNumbers /\ FlightInv
  BY DEF LogInv
<1>2. bbs \in Sizes /\ next \in Nat
  BY <1>1 DEF LogNumbers
<1>3. RecBbs \in Nat /\ MaxIclogs \in Nat \ {0}
  BY <1>2, Sized
<1>4. total_rec_bbs = MaxIclogs * RecBbs
  BY DEF total_rec_bbs
<1>5. total_rec_bbs \in Nat /\ RecBbs <= total_rec_bbs
  BY <1>3, <1>4
<1>6. CASE flight = <<>>
  <2>1. Oldest = next
    BY <1>6 DEF Oldest
  <2> QED
    BY <1>2, <1>5, <2>1
<1>7. CASE flight # <<>>
  <2>1. 1 \in Flight /\ Oldest = flight[1].at /\ Len(flight) \in Nat /\ Len(flight) <= MaxIclogs
    BY <1>1, <1>7 DEF FlightInv, Flight, Oldest
  <2>2. FlightOK(1)
    BY <1>1, <2>1 DEF FlightInv
  <2>3. next - flight[1].at <= (Len(flight) - 1 + 1) * RecBbs
    BY <2>2 DEF FlightOK
  <2>4. (Len(flight) - 1 + 1) * RecBbs <= MaxIclogs * RecBbs
    <3>1. PICK n \in Nat : n = Len(flight) - 1 + 1 /\ n <= MaxIclogs
      BY <2>1
    <3>2. n * RecBbs <= MaxIclogs * RecBbs
      BY <1>3, <3>1
    <3> QED
      BY <3>1, <3>2
  <2>5. flight[1].at \in Nat
    BY <1>1, <2>1, FlightFields
  <2>6. PICK v \in Int : v = (Len(flight) - 1 + 1) * RecBbs
    BY <1>3, <2>1
  <2> QED
    BY <1>2, <1>4, <1>5, <2>1, <2>3, <2>4, <2>5, <2>6
<1> QED
  BY <1>5, <1>6, <1>7

(* A log of twice that is a long one.                                      *)
LEMMA LogLong ==
    ASSUME LogInv, bbs >= 2 * total_rec_bbs
    PROVE  LongLog
<1>1. bbs \in Sizes
  BY DEF LogInv, LogNumbers
<1>2. bbs \in Nat /\ RecBbs \in Nat /\ RecBbs > 1 /\ RecBbs < bbs
  BY <1>1, Sized
<1>3. total_rec_bbs \in Nat /\ RecBbs <= total_rec_bbs
  BY FlightFits
<1> QED
  BY <1>2, <1>3 DEF LongLog

(* The cycle of a block, by any of its positions in the last turn.         *)
LEMMA CycleIs ==
    ASSUME LogInv, NEW B \in Int, NEW q \in Int, Turn(B, q, bbs), NEW b \in 0..(bbs - 1),
           NEW p \in Int, next - bbs <= p, p < next
    PROVE  /\ p = B + b => ring[b].cycle = IF p \in Out THEN q ELSE q + 1
           /\ p = B + b + bbs => ring[b].cycle = IF p \in Out THEN q + 1 ELSE q + 2
           /\ p = B + b - bbs => ring[b].cycle = IF p \in Out THEN q - 1 ELSE q
<1>1. bbs \in Sizes /\ next \in Nat
  BY DEF LogInv, LogNumbers
<1>2. bbs \in Nat \ {0}
  BY <1>1, Sized
<1>3. Near(p, B, q, bbs)
  <2>1. \A n \in Nat \ {0} : \A x, k, A \in Int : Turn(A, k, n) => Near(x, A, k, n)
    BY ModNear
  <2> QED
    BY <1>2, <2>1, Zenon
<1>4. p \in (next - bbs)..(next - 1)
  BY <1>1, <1>2
<1>5. ring[p % bbs].cycle = IF p \in Out THEN CycleAt(p) - 1 ELSE CycleAt(p)
  <2>1. Cycles
    BY DEF LogInv
  <2> QED
    BY <1>4, <2>1 DEF Cycles
<1>6. ASSUME p = B + b
      PROVE  ring[b].cycle = IF p \in Out THEN q ELSE q + 1
  <2>1. p % bbs = b /\ p \div bbs = q
    BY <1>2, <1>3, <1>6 DEF Near
  <2> QED
    BY <1>5, <2>1 DEF CycleAt
<1>7. ASSUME p = B + b + bbs
      PROVE  ring[b].cycle = IF p \in Out THEN q + 1 ELSE q + 2
  <2>1. p % bbs = b /\ p \div bbs = q + 1
    BY <1>2, <1>3, <1>7 DEF Near
  <2> QED
    BY <1>5, <2>1 DEF CycleAt
<1>8. ASSUME p = B + b - bbs
      PROVE  ring[b].cycle = IF p \in Out THEN q - 1 ELSE q
  <2>1. p % bbs = b /\ p \div bbs = q - 1
    BY <1>2, <1>3, <1>8 DEF Near
  <2> QED
    BY <1>5, <2>1 DEF CycleAt
<1> QED
  BY <1>6, <1>7, <1>8

(* The ring as the search sees it, from the turn that the newest position  *)
(* before the records in flight is in.                                     *)
LEMMA LogCycles ==
    ASSUME LogInv, LongLog, NEW B \in Int, NEW q \in Nat, Turn(B, q, bbs), B < Oldest, Oldest <= B + bbs
    PROVE  CyclesAre(Oldest - B, next - B, q + 1, {p - B : p \in Out})
<1>1. LogNumbers /\ FlightInv
  BY DEF LogInv
<1>2. /\ bbs \in Nat \ {0} /\ next \in Nat /\ Oldest \in Nat /\ Oldest <= next
      /\ next - Oldest <= total_rec_bbs /\ total_rec_bbs \in Nat /\ 2 * total_rec_bbs <= bbs
  <2>1. bbs \in Sizes /\ next \in Nat /\ Oldest <= next
    BY <1>1 DEF LogNumbers
  <2> QED
    BY <1>1, <2>1, Sized, OldestNat, FlightFits DEF LongLog
<1>3. Out \subseteq Oldest..(next - 1)
  BY <1>1, OutInFlight
<1>4. PICK h \in Int, N \in Int, U \in SUBSET Int : h = Oldest - B /\ N = next - B /\ U = {p - B : p \in Out}
  <2>1. PICK h \in Int, N \in Int : h = Oldest - B /\ N = next - B
    BY <1>2
  <2>2. {p - B : p \in Out} \in SUBSET Int
    BY <1>2, <1>3
  <2> QED
    BY <2>1, <2>2
<1>5. U \subseteq h..(N - 1)
  <2>1. \A p \in Oldest..(next - 1) : p - B \in h..(N - 1)
    BY <1>2, <1>4
  <2> QED
    BY <1>3, <1>4, <2>1
<1>6. \A x \in Int : x \in U <=> B + x \in Out
  <2>1. ASSUME NEW x \in Int, B + x \in Out
        PROVE  x \in U
    <3>1. x = (B + x) - B
      OBVIOUS
    <3> QED
      BY <1>4, <2>1, <3>1
  <2>2. ASSUME NEW x \in Int, x \in U
        PROVE  B + x \in Out
    <3>1. PICK p \in Out : x = p - B
      BY <1>4, <2>2
    <3>2. p \in Int
      BY <1>2, <1>3
    <3>3. B + x = p
      BY <3>1, <3>2
    <3> QED
      BY <3>3
  <2> QED
    BY <2>1, <2>2
<1>7. h \in 1..bbs /\ N \in Nat /\ h <= N /\ N - h <= total_rec_bbs /\ N <= 2 * bbs
  BY <1>2, <1>4
<1>8. ASSUME NEW b \in 0..(bbs - 1)
      PROVE  /\ b < N - bbs /\ b + bbs \in U => ring[b].cycle = q + 1
             /\ b < N - bbs /\ b + bbs \notin U => ring[b].cycle = q + 2
             /\ b >= N - bbs /\ b < h => ring[b].cycle = q + 1
             /\ b >= h /\ b < N /\ b \notin U => ring[b].cycle = q + 1
             /\ b >= h /\ (b >= N \/ b \in U) => ring[b].cycle = q
  <2>1. b \in Int
    BY <1>2
  <2>2. PICK x \in Int, y \in Int, z \in Int : x = B + b /\ y = B + b + bbs /\ z = B + b - bbs
    BY <1>2, <2>1
  <2>3. next - bbs <= x /\ x < next => ring[b].cycle = IF x \in Out THEN q ELSE q + 1
    <3>1. q \in Int
      OBVIOUS
    <3> QED
      BY <2>2, <3>1, CycleIs
  <2>4. next - bbs <= y /\ y < next => ring[b].cycle = IF y \in Out THEN q + 1 ELSE q + 2
    BY <1>2, <2>2, CycleIs
  <2>5. next - bbs <= z /\ z < next => ring[b].cycle = IF z \in Out THEN q - 1 ELSE q
    BY <1>2, <2>2, CycleIs
  <2>6. b + bbs \in U <=> y \in Out
    <3>1. b + bbs \in Int /\ B + (b + bbs) = y
      BY <1>2, <2>1, <2>2
    <3> QED
      BY <1>6, <3>1
  <2>7. b \in U <=> x \in Out
    BY <1>6, <2>1, <2>2
  <2>8. \A p \in Int : p < Oldest => p \notin Out
    BY <1>2, <1>3
  <2>9. b < N - bbs => next - bbs <= y /\ y < next
    BY <1>2, <1>4, <1>7, <2>1, <2>2
  <2>10. b >= N - bbs /\ b < h => next - bbs <= x /\ x < next /\ x \notin Out
    BY <1>2, <1>4, <1>7, <2>1, <2>2, <2>8
  <2>11. b >= h /\ b < N => next - bbs <= x /\ x < next
    BY <1>2, <1>4, <1>7, <2>1, <2>2
  <2>12. b >= h /\ b >= N => next - bbs <= z /\ z < next /\ z \notin Out
    BY <1>2, <1>4, <1>7, <2>1, <2>2, <2>8
  <2>13. b \in U => b < N
    BY <1>5, <1>7
  <2>14. CASE b < N - bbs
    BY <1>2, <1>7, <2>1, <2>4, <2>6, <2>9, <2>14
  <2>15. CASE b >= N - bbs /\ b < h
    BY <1>2, <1>7, <2>1, <2>3, <2>10, <2>15
  <2>16. CASE b >= N - bbs /\ b >= h /\ b < N
    BY <1>2, <1>7, <2>1, <2>3, <2>7, <2>11, <2>16
  <2>17. CASE b >= N - bbs /\ b >= h /\ b >= N
    BY <1>2, <1>7, <2>1, <2>5, <2>12, <2>13, <2>17
  <2> QED
    BY <1>2, <1>7, <2>1, <2>14, <2>15, <2>16, <2>17
<1>9. PICK C \in Nat \ {0} : C = q + 1
  OBVIOUS
<1>10. C + 1 = q + 2 /\ C - 1 = q
  BY <1>9
<1>11. CyclesAre(h, N, C, U)
  BY <1>5, <1>7, <1>8, <1>9, <1>10 DEF CyclesAre
<1> QED
  BY <1>4, <1>9, <1>11

(* A record with header h is on disk whole from w to e, which is not past  *)
(* what the kernel has written.                                            *)
Whole(w, h, e) ==
    /\ w \in Nat /\ e \in Nat /\ last <= w /\ e <= next /\ w + Total(h) = e
    /\ HeaderOK(h) /\ h = ring[w % bbs].header
    /\ TailOK(h, e)
    /\ \A p \in (w + 1)..(e - 1) : ~ HasMagic(ring[p % bbs])
    /\ ring[(w + h.hblks) % bbs].unmount => h.single

(* The last finished one is.                                               *)
LEMMA LastWhole ==
    ASSUME LogInv
    PROVE  Whole(last, ring[last % bbs].header, Oldest)
<1>1. LogNumbers /\ FlightInv /\ LastInv
  BY DEF LogInv
<1>2. last \in Nat /\ last <= last /\ Oldest <= next /\ Oldest \in Nat
  BY <1>1, OldestNat DEF LogNumbers
<1> QED
  BY <1>1, <1>2 DEF LastInv, Whole

(* What is on disk of a record in flight: its header, if the first block   *)
(* is there, and no other.                                                 *)
LEMMA FlightOnDisk ==
    ASSUME LogInv, NEW k \in Flight, NEW m \in Nat, m <= Total(flight[k].rec.header),
           \A i \in flight[k].left : m <= i
    PROVE  /\ m > 0 => ring[flight[k].at % bbs].header = flight[k].rec.header
           /\ \A p \in (flight[k].at + 1)..(flight[k].at + m - 1) : ~ HasMagic(ring[p % bbs])
           /\ \A i \in 0..(m - 1) :
                  ring[(flight[k].at + i) % bbs] = Stamped(flight[k].at, flight[k].rec, i)
<1>1. LogNumbers /\ FlightInv /\ Stamps
  BY DEF LogInv
<1>2. PICK f, h, n : f = flight[k] /\ h = f.rec.header /\ n = Total(h)
  OBVIOUS
<1>3. f.at \in Nat /\ n \in Nat /\ f.left \subseteq 0..(n - 1) /\ m <= n
  BY <1>1, <1>2, FlightFields
<1>4. \A i \in 0..(m - 1) : ring[(f.at + i) % bbs] = Stamped(f.at, f.rec, i)
  <2>1. ASSUME NEW i \in 0..(m - 1)
        PROVE  i \in 0..(n - 1) /\ i \notin f.left
    BY <1>2, <1>3
  <2> QED
    BY <1>1, <1>2, <2>1 DEF Stamps
<1>5. m > 0 => ring[f.at % bbs].header = h
  <2>1. m > 0 => 0 \in 0..(m - 1) /\ f.at + 0 = f.at
    BY <1>3
  <2>2. m > 0 => ring[f.at % bbs] = Stamped(f.at, f.rec, 0)
    BY <1>4, <2>1
  <2>3. Stamped(f.at, f.rec, 0).header = h
    BY <1>2 DEF Stamped, Block
  <2> QED
    BY <2>2, <2>3
<1>6. ASSUME NEW p \in (f.at + 1)..(f.at + m - 1)
      PROVE  ~ HasMagic(ring[p % bbs])
  <2>1. PICK i \in Int : i = p - f.at
    BY <1>3
  <2>2. i \in 0..(m - 1) /\ i # 0 /\ p = f.at + i
    BY <1>3, <2>1
  <2>3. ring[p % bbs] = Stamped(f.at, f.rec, i)
    BY <1>4, <2>2
  <2>4. Stamped(f.at, f.rec, i).header = NoHeader
    BY <2>2 DEF Stamped, Block
  <2> QED
    BY <2>3, <2>4 DEF HasMagic
<1> QED
  BY <1>2, <1>4, <1>5, <1>6

(* One in flight is, when none of its blocks is missing.                   *)
LEMMA FlightWhole ==
    ASSUME LogInv, NEW k \in Flight, flight[k].left = {}
    PROVE  Whole(flight[k].at, ring[flight[k].at % bbs].header, EndOf(flight[k]))
<1>1. LogNumbers /\ FlightInv
  BY DEF LogInv
<1>2. PICK f, h, n : f = flight[k] /\ h = f.rec.header /\ n = Total(h)
  OBVIOUS
<1>3. /\ f.at \in Nat /\ n \in Nat /\ EndOf(f) = f.at + n /\ EndOf(f) \in Nat /\ EndOf(f) <= next
      /\ Oldest <= f.at /\ HeaderOK(h)
  BY <1>1, <1>2, FlightFields
<1>4. last <= f.at
  <2>1. last \in Nat /\ last < Oldest /\ Oldest \in Nat
    BY <1>1, OldestNat DEF LogNumbers
  <2> QED
    BY <1>3, <2>1
<1>5. FlightOK(k)
  BY <1>1 DEF FlightInv
<1>6. TailOK(h, EndOf(f)) /\ (f.rec.unmount => h.single)
  BY <1>2, <1>5 DEF FlightOK
<1>7. h.hblks \in Nat /\ h.hblks < n /\ n > 0
  <2>1. bbs \in Sizes
    BY <1>1 DEF LogNumbers
  <2> QED
    BY <1>2, <1>3, <2>1, HeaderFields
<1>8. /\ ring[f.at % bbs].header = h
      /\ \A p \in (f.at + 1)..(f.at + n - 1) : ~ HasMagic(ring[p % bbs])
      /\ \A i \in 0..(n - 1) : ring[(f.at + i) % bbs] = Stamped(f.at, f.rec, i)
  <2>1. n <= Total(flight[k].rec.header) /\ \A i \in flight[k].left : n <= i
    BY <1>2, <1>3
  <2> QED
    BY <1>2, <1>3, <1>7, <2>1, FlightOnDisk
<1>9. ring[(f.at + h.hblks) % bbs].unmount => h.single
  <2>1. h.hblks \in 0..(n - 1)
    BY <1>3, <1>7
  <2>2. ring[(f.at + h.hblks) % bbs] = Stamped(f.at, f.rec, h.hblks)
    BY <1>8, <2>1
  <2>3. Stamped(f.at, f.rec, h.hblks).unmount = (f.rec.unmount /\ h.hblks = f.rec.header.hblks)
    BY DEF Stamped, Block
  <2> QED
    BY <1>6, <2>2, <2>3
<1> QED
  BY <1>2, <1>3, <1>4, <1>6, <1>8, <1>9 DEF Whole

(* So is the newest before the end of the log on disk.                     *)
LEMMA NewestWhole ==
    ASSUME LogInv
    PROVE  Whole(NewestOnDisk, ring[NewestOnDisk % bbs].header, EndOnDisk)
<1>1. LogNumbers /\ FlightInv
  BY DEF LogInv
<1>2. /\ flight \in Seq(FlightRecs) /\ Len(flight) \in Nat /\ Flight = 1..Len(flight)
      /\ \A k \in Flight : FlightOK(k)
  BY <1>1 DEF FlightInv, Flight
<1>3. Torn = {k \in Flight : flight[k].left # {}}
  BY DEF Torn, Flight
<1>4. CASE Torn = {}
  <2>1. EndOnDisk = next /\ NewestOnDisk = IF Len(flight) = 0 THEN last ELSE flight[Len(flight)].at
    BY <1>4 DEF EndOnDisk, NewestOnDisk
  <2>2. CASE Len(flight) = 0
    <3>1. Oldest = next
      BY <1>2, <2>2 DEF Oldest
    <3> QED
      BY <2>1, <2>2, <3>1, LastWhole
  <2>3. CASE Len(flight) # 0
    <3>1. PICK k \in Flight : k = Len(flight)
      BY <1>2, <2>3
    <3>2. flight[k].left = {}
      BY <1>3, <1>4
    <3>3. EndOf(flight[k]) = next
      BY <1>2, <3>1 DEF FlightOK
    <3>4. Whole(flight[k].at, ring[flight[k].at % bbs].header, EndOf(flight[k]))
      BY <3>2, FlightWhole
    <3> QED
      BY <2>1, <2>3, <3>1, <3>3, <3>4
  <2> QED
    BY <2>2, <2>3
<1>5. CASE Torn # {}
  <2>1. PICK k : k = Min(Torn)
    OBVIOUS
  <2>2. k \in Torn /\ \A y \in Torn : k <= y
    <3>1. Torn \subseteq Nat
      BY <1>2, <1>3
    <3> QED
      BY <1>5, <2>1, <3>1, MinOfNats
  <2>3. EndOnDisk = flight[k].at /\ NewestOnDisk = IF k - 1 = 0 THEN last ELSE flight[k - 1].at
    BY <1>5, <2>1 DEF EndOnDisk, NewestOnDisk
  <2>4. k \in Flight
    BY <1>3, <2>2
  <2>5. CASE k = 1
    <3>1. Oldest = flight[k].at
      BY <1>2, <2>4, <2>5 DEF Oldest
    <3> QED
      BY <2>3, <2>5, <3>1, LastWhole
  <2>6. CASE k # 1
    <3>1. PICK j \in Flight : j = k - 1 /\ j + 1 = k /\ j # Len(flight) /\ j < k
      BY <1>2, <2>4, <2>6
    <3>2. flight[j].left = {}
      <4>1. j \notin Torn
        BY <1>2, <2>2, <2>4, <3>1
      <4> QED
        BY <1>3, <4>1
    <3>3. EndOf(flight[j]) = flight[k].at
      BY <1>2, <3>1 DEF FlightOK
    <3>4. Whole(flight[j].at, ring[flight[j].at % bbs].header, EndOf(flight[j]))
      BY <3>2, FlightWhole
    <3>5. NewestOnDisk = flight[j].at
      BY <1>2, <2>3, <2>4, <2>6, <3>1
    <3> QED
      BY <2>3, <3>3, <3>4, <3>5
  <2> QED
    BY <2>5, <2>6
<1> QED
  BY <1>4, <1>5

(* The last header before position x is at w, and the log on disk ends     *)
(* where that record does if it ends at x, else where it starts.           *)
Behind(x, w) ==
    /\ x \in Nat /\ w \in Nat /\ last <= w /\ x - w \in 1..RecBbs /\ HasMagic(ring[w % bbs])
    /\ \A p \in (w + 1)..(x - 1) : ~ HasMagic(ring[p % bbs])
    /\ EndOnDisk = IF x - w # Total(ring[w % bbs].header) THEN w ELSE x

(* A whole record is the last header before its end.                       *)
LEMMA WholeBehind ==
    ASSUME LogInv, NEW w, NEW h, Whole(w, h, EndOnDisk)
    PROVE  Behind(EndOnDisk, w)
<1>1. PICK e : e = EndOnDisk
  OBVIOUS
<1>2. /\ w \in Nat /\ e \in Nat /\ last <= w /\ w + Total(h) = e
      /\ HeaderOK(h) /\ h = ring[w % bbs].header
      /\ \A p \in (w + 1)..(e - 1) : ~ HasMagic(ring[p % bbs])
  BY <1>1 DEF Whole
<1>3. bbs \in Sizes
  BY DEF LogInv, LogNumbers
<1>4. h # NoHeader /\ Total(h) \in Nat /\ h.hblks \in Nat /\ h.hblks < Total(h) /\ Total(h) <= RecBbs
  BY <1>2, <1>3, HeaderFields
<1>5. RecBbs \in Nat
  BY <1>3, Sized
<1>6. e - w \in 1..RecBbs /\ e - w = Total(h)
  BY <1>2, <1>4, <1>5
<1>7. HasMagic(ring[w % bbs])
  BY <1>2, <1>4 DEF HasMagic
<1> QED
  BY <1>1, <1>2, <1>6, <1>7 DEF Behind

(* The first block that is not on disk.                                    *)
LEMMA FirstMissing ==
    ASSUME LogInv
    PROVE  \E x, w \in Nat : Behind(x, w) /\ x \in Out \cup {next} /\ \A u \in Out : x <= u
<1>1. LogNumbers /\ FlightInv
  BY DEF LogInv
<1>2. PICK e, v : e = EndOnDisk /\ v = NewestOnDisk
  OBVIOUS
<1>3. Behind(e, v) /\ e \in Nat /\ v \in Nat
  <2>1. Whole(v, ring[v % bbs].header, EndOnDisk)
    BY <1>2, NewestWhole
  <2>2. Behind(EndOnDisk, v)
    BY <2>1, WholeBehind
  <2> QED
    BY <1>2, <2>2 DEF Behind
<1>4. Torn = {k \in Flight : flight[k].left # {}} /\ Flight \subseteq Nat
  BY <1>1 DEF Torn, Flight, FlightInv
<1>5. CASE Torn = {}
  <2>1. e = next
    BY <1>2, <1>5 DEF EndOnDisk
  <2>2. Out = {}
    BY <1>4, <1>5 DEF Out, OutOf
  <2> QED
    BY <1>3, <2>1, <2>2
<1>6. CASE Torn # {}
  <2>1. PICK k : k = Min(Torn)
    OBVIOUS
  <2>2. k \in Torn /\ \A y \in Torn : k <= y
    BY <1>4, <1>6, <2>1, MinOfNats
  <2>3. EndOnDisk = flight[k].at /\ k \in Flight /\ flight[k].left # {}
    BY <1>4, <1>6, <2>1, <2>2 DEF EndOnDisk
  <2>4. PICK f, n : f = flight[k] /\ n = Total(f.rec.header)
    OBVIOUS
  <2>5. /\ f.at \in Nat /\ n \in Nat /\ f.left \subseteq 0..(n - 1) /\ HeaderOK(f.rec.header)
        /\ Oldest <= f.at /\ EndOf(f) = f.at + n
    BY <1>1, <2>3, <2>4, FlightFields
  <2>6. PICK i : i = Min(f.left)
    OBVIOUS
  <2>7. i \in f.left /\ \A y \in f.left : i <= y
    <3>1. f.left \subseteq Nat /\ f.left # {}
      BY <2>3, <2>4, <2>5
    <3> QED
      BY <2>6, <3>1, MinOfNats
  <2>8. i \in Nat /\ i < n
    BY <2>5, <2>7
  <2>9. PICK x \in Nat : x = f.at + i
    BY <2>5, <2>8
  <2>10. x \in Out
    BY <2>3, <2>4, <2>7, <2>9 DEF Out, OutOf
  <2>11. ASSUME NEW u \in Out
         PROVE  x <= u
    <3>1. PICK j \in Flight : u \in OutOf(flight[j])
      BY DEF Out
    <3>2. PICK y \in flight[j].left : u = flight[j].at + y
      BY <3>1 DEF OutOf
    <3>3. CASE j = k
      <4>1. y \in Nat /\ i <= y
        BY <2>4, <2>5, <2>7, <3>2, <3>3
      <4> QED
        BY <2>4, <2>5, <2>8, <2>9, <3>2, <3>3, <4>1
    <3>4. CASE j # k
      <4>1. j \in Torn /\ j \in Nat /\ k \in Nat
        BY <1>4, <2>3, <3>1, <3>2
      <4>2. k < j
        BY <2>2, <3>4, <4>1
      <4>3. EndOf(f) <= flight[j].at
        BY <1>1, <2>3, <2>4, <4>2 DEF FlightInv
      <4>4. PICK g, m : g = flight[j] /\ m = Total(g.rec.header)
        OBVIOUS
      <4>5. g.at \in Nat /\ m \in Nat /\ g.left \subseteq 0..(m - 1)
        BY <1>1, <4>4, FlightFields
      <4>6. y \in Nat
        BY <3>2, <4>4, <4>5
      <4> QED
        BY <2>5, <2>8, <2>9, <3>2, <4>3, <4>4, <4>5, <4>6
    <3> QED
      BY <3>3, <3>4
  <2>12. CASE i = 0
    <3>1. x = e
      BY <1>2, <2>3, <2>4, <2>5, <2>9, <2>12
    <3> QED
      BY <1>3, <2>10, <2>11, <3>1
  <2>13. CASE i # 0
    <3>1. bbs \in Sizes /\ last \in Nat /\ last < Oldest /\ Oldest \in Nat
      BY <1>1, OldestNat DEF LogNumbers
    <3>2. RecBbs \in Nat /\ n <= RecBbs /\ f.rec.header # NoHeader
      BY <2>4, <2>5, <3>1, Sized, HeaderFields
    <3>3. last <= f.at /\ x - f.at \in 1..RecBbs /\ x - f.at # n /\ x - 1 = f.at + i - 1 /\ i > 0
      BY <2>5, <2>8, <2>9, <2>13, <3>1, <3>2
    <3>4. /\ ring[f.at % bbs].header = f.rec.header
          /\ \A p \in (f.at + 1)..(f.at + i - 1) : ~ HasMagic(ring[p % bbs])
      <4>1. i <= Total(flight[k].rec.header) /\ \A y \in flight[k].left : i <= y
        BY <2>4, <2>5, <2>7, <2>8
      <4> QED
        BY <2>3, <2>4, <2>8, <3>3, <4>1, FlightOnDisk
    <3>5. HasMagic(ring[f.at % bbs])
      BY <3>2, <3>4 DEF HasMagic
    <3>6. Behind(x, f.at)
      BY <2>3, <2>4, <2>5, <3>3, <3>4, <3>5 DEF Behind
    <3> QED
      BY <2>5, <2>10, <2>11, <3>6
  <2> QED
    BY <2>12, <2>13
<1> QED
  BY <1>5, <1>6

(* The last header before a position, by blocks.                           *)
LEMMA HeaderThere ==
    ASSUME LogInv, NEW x, NEW w, Behind(x, w), NEW A \in Int, NEW k \in Int, Turn(A, k, bbs),
           NEW Y \in 1..bbs, x = A + Y
    PROVE  HeaderAt(Y, x - w, w % bbs) /\ (x - w <= Y => w % bbs = Y - (x - w))
<1>1. bbs \in Sizes
  BY DEF LogInv, LogNumbers
<1>2. bbs \in Nat \ {0} /\ RecBbs \in Nat /\ RecBbs < bbs /\ Y \in Int
  BY <1>1, Sized
<1>3. /\ x \in Nat /\ w \in Nat /\ x - w \in 1..RecBbs /\ HasMagic(ring[w % bbs])
      /\ \A p \in (w + 1)..(x - 1) : ~ HasMagic(ring[p % bbs])
  BY DEF Behind
<1>4. PICK d \in Int : d = x - w
  BY <1>3
<1>5. \A p \in Int : Near(p, A, k, bbs)
  BY <1>2, ModNear
<1>6. PICK m : m = w % bbs
  OBVIOUS
<1>7. d <= Y => m = Y - d
  <2>1. Near(w, A, k, bbs)
    BY <1>3, <1>5
  <2> QED
    BY <1>2, <1>3, <1>4, <1>6, <2>1 DEF Near
<1>8. d > Y => m = bbs + Y - d
  <2>1. Near(w, A, k, bbs)
    BY <1>3, <1>5
  <2> QED
    BY <1>2, <1>3, <1>4, <1>6, <2>1 DEF Near
<1>9. ASSUME NEW b \in Int, 0 <= b, b < bbs, w < A + b, A + b < x
      PROVE  ~ HasMagic(ring[b])
  <2>1. PICK p \in Int : p = A + b
    BY <1>9
  <2>2. p \in (w + 1)..(x - 1)
    BY <1>3, <1>9, <2>1
  <2>3. p % bbs = b
    BY <1>2, <1>5, <1>9, <2>1 DEF Near
  <2> QED
    BY <1>3, <2>2, <2>3
<1>10. ASSUME NEW b \in Int, 0 <= b, b < bbs, w < A + b - bbs, A + b - bbs < x
       PROVE  ~ HasMagic(ring[b])
  <2>1. PICK p \in Int : p = A + b - bbs
    BY <1>2, <1>10
  <2>2. p \in (w + 1)..(x - 1)
    BY <1>3, <1>10, <2>1
  <2>3. p % bbs = b
    BY <1>2, <1>5, <1>10, <2>1 DEF Near
  <2> QED
    BY <1>3, <2>2, <2>3
<1>11. ASSUME d <= Y, NEW b \in (m + 1)..(Y - 1)
       PROVE  ~ HasMagic(ring[b])
  <2>1. b \in Int /\ 0 <= b /\ b < bbs /\ w < A + b /\ A + b < x
    BY <1>2, <1>3, <1>4, <1>7, <1>11
  <2> QED
    BY <1>9, <2>1
<1>12. ASSUME d > Y, NEW b \in 0..(Y - 1) \cup (m + 1)..(bbs - 1)
       PROVE  ~ HasMagic(ring[b])
  <2>1. CASE b \in 0..(Y - 1)
    <3>1. b \in Int /\ 0 <= b /\ b < bbs /\ w < A + b /\ A + b < x
      BY <1>2, <1>3, <1>4, <1>12, <2>1
    <3> QED
      BY <1>9, <3>1
  <2>2. CASE b \in (m + 1)..(bbs - 1)
    <3>1. b \in Int /\ 0 <= b /\ b < bbs /\ w < A + b - bbs /\ A + b - bbs < x
      BY <1>2, <1>3, <1>4, <1>8, <1>12, <2>2
    <3> QED
      BY <1>10, <3>1
  <2> QED
    BY <1>12, <2>1, <2>2
<1>13. d \in 1..RecBbs
  BY <1>3, <1>4
<1>14. HeaderAt(Y, d, m)
  BY <1>3, <1>6, <1>7, <1>8, <1>11, <1>12, <1>13 DEF HeaderAt
<1> QED
  BY <1>4, <1>6, <1>7, <1>14

(* What the search sees and where it puts the head.                        *)
SearchSees(h, N, C, U, X, Y, d, m) ==
    /\ CyclesAre(h, N, C, U) /\ FirstOut(X, N, U) /\ Y = (IF X <= bbs THEN X ELSE X - bbs)
    /\ HeaderAt(Y, d, m) /\ (C = 1 /\ X <= bbs => d <= Y)
HeadFrom(Y, d, m) == IF d # Total(ring[m].header) THEN m ELSE IF Y = bbs THEN 0 ELSE Y

(* It puts it there.                                                       *)
LEMMA SearchFindsHead ==
    ASSUME LongLog, NEW h, NEW N, NEW C, NEW U, NEW X, NEW Y, NEW d, NEW m,
           SearchSees(h, N, C, U, X, Y, d, m)
    PROVE  /\ find_head \in {HeadFrom(Y, d, m), Corrupt}
           /\ (C = 1 /\ X <= bbs => N - m <= total_rec_bbs) => find_head = HeadFrom(Y, d, m)
<1>1. /\ CyclesAre(h, N, C, U) /\ FirstOut(X, N, U) /\ Y = (IF X <= bbs THEN X ELSE X - bbs)
      /\ HeaderAt(Y, d, m) /\ (C = 1 /\ X <= bbs => d <= Y)
  BY DEF SearchSees
<1>2. PICK r : r = HeadFrom(Y, d, m)
  OBVIOUS
<1>3. r = IF d # Total(ring[m].header) THEN m ELSE IF Y = bbs THEN 0 ELSE Y
  BY <1>2 DEF HeadFrom
<1>4. /\ find_head \in {r, Corrupt}
      /\ (C = 1 /\ X <= bbs => N - m <= total_rec_bbs) => find_head = r
  BY <1>1, <1>3, HeadFound
<1> QED
  BY <1>2, <1>4

(* A block before the records in flight starts its turn.                   *)
LEMMA TurnBefore ==
    ASSUME LogInv
    PROVE  \E q \in Int, B \in Int : Turn(B, q, bbs) /\ B < Oldest /\ Oldest <= B + bbs /\ q >= 0
<1>1. LogNumbers /\ FlightInv
  BY DEF LogInv
<1>2. bbs \in Sizes /\ last \in Nat /\ last < Oldest
  BY <1>1 DEF LogNumbers
<1>3. bbs \in Nat \ {0} /\ Oldest \in Nat
  BY <1>1, <1>2, Sized, OldestNat
<1>4. PICK o \in Nat : o = Oldest - 1
  BY <1>2, <1>3
<1>5. o = (o \div bbs) * bbs + (o % bbs) /\ o % bbs \in 0..(bbs - 1) /\ o \div bbs \in Int /\ o \div bbs >= 0
  <2>1. \A y \in Int : y = (y \div bbs) * bbs + (y % bbs) /\ y % bbs \in 0..(bbs - 1) /\ y \div bbs \in Int
    BY <1>3, ModSplit
  <2>2. o \div bbs >= 0
    BY <1>3, <1>4
  <2> QED
    BY <2>1, <2>2
<1>6. PICK q \in Int : q = o \div bbs /\ q >= 0
  BY <1>5
<1>7. PICK B \in Int : Turn(B, q, bbs) /\ B = (o \div bbs) * bbs
  BY <1>3, <1>6 DEF Turn
<1>8. B < Oldest /\ Oldest <= B + bbs
  BY <1>3, <1>4, <1>5, <1>7
<1> QED
  BY <1>6, <1>7, <1>8

(* The first block of a long log is not a zero block.                      *)
LEMMA FirstCycleThere ==
    ASSUME LogInv, bbs >= 2 * total_rec_bbs
    PROVE  ring[0].cycle # 0
<1>1. LongLog
  BY LogLong
<1>2. PICK q \in Int, B \in Int : Turn(B, q, bbs) /\ B < Oldest /\ Oldest <= B + bbs /\ q >= 0
  BY TurnBefore
<1>3. PICK C \in Nat \ {0} : C = q + 1
  BY <1>2
<1>4. q \in Nat
  BY <1>2
<1>5. CyclesAre(Oldest - B, next - B, C, {p - B : p \in Out})
  BY <1>1, <1>2, <1>3, <1>4, LogCycles
<1>6. ring[0].cycle \in {C, C + 1}
  BY <1>1, <1>5, FirstCycle
<1> QED
  BY <1>3, <1>6

(* The head found in a long log is where the log on disk ends, or the      *)
(* search gives up.                                                        *)
LEMMA HeadIs ==
    ASSUME LogInv, bbs >= 2 * total_rec_bbs
    PROVE  /\ find_head \in {EndOnDisk % bbs, Corrupt}
           /\ next - last <= total_rec_bbs => find_head = EndOnDisk % bbs
<1>1. LongLog /\ LogNumbers /\ FlightInv
  BY LogLong DEF LogInv
<1>2. /\ bbs \in Nat \ {0} /\ next \in Nat /\ last \in Nat /\ last < Oldest /\ Oldest \in Nat /\ Oldest <= next
      /\ next - Oldest <= total_rec_bbs /\ total_rec_bbs \in Nat /\ 2 * total_rec_bbs <= bbs
  <2>1. bbs \in Sizes /\ next \in Nat /\ last \in Nat /\ last < Oldest /\ Oldest <= next
    BY <1>1 DEF LogNumbers
  <2> QED
    BY <1>1, <2>1, Sized, OldestNat, FlightFits DEF LongLog
<1>3. PICK q \in Int, B \in Int : Turn(B, q, bbs) /\ B < Oldest /\ Oldest <= B + bbs /\ q >= 0
  BY TurnBefore
<1>4. PICK h, N, C, U : /\ h = Oldest - B /\ N = next - B /\ C = q + 1 /\ U = {p - B : p \in Out}
                        /\ CyclesAre(h, N, C, U)
  <2>1. q \in Nat
    BY <1>3
  <2> QED
    BY <1>1, <1>3, <2>1, LogCycles
<1>5. PICK x \in Nat, w \in Nat : Behind(x, w) /\ x \in Out \cup {next} /\ \A u \in Out : x <= u
  BY FirstMissing
<1>6. Out \subseteq Oldest..(next - 1)
  BY <1>1, OutInFlight
<1>7. x >= Oldest /\ x <= next
  BY <1>2, <1>5, <1>6
<1>8. PICK X \in Int : X = x - B
  BY <1>3, <1>5
<1>9. FirstOut(X, N, U)
  <2>1. X \in U \cup {N}
    BY <1>4, <1>5, <1>8
  <2>2. ASSUME NEW u \in U
        PROVE  X <= u
    <3>1. PICK p \in Out : u = p - B
      BY <1>4
    <3>2. p \in Int /\ x <= p
      BY <1>2, <1>5, <1>6
    <3> QED
      BY <1>3, <1>5, <1>8, <3>1, <3>2
  <2> QED
    BY <2>1, <2>2 DEF FirstOut
<1>10. PICK Y \in 1..bbs : Y = IF X <= bbs THEN X ELSE X - bbs
  <2>1. X >= 1 /\ X <= 2 * bbs
    BY <1>2, <1>3, <1>5, <1>7, <1>8
  <2>2. CASE X <= bbs
    BY <1>2, <2>1, <2>2
  <2>3. CASE ~ (X <= bbs)
    <3>1. X - bbs \in 1..bbs
      BY <1>2, <2>1, <2>3
    <3> QED
      BY <2>3, <3>1
  <2> QED
    BY <2>2, <2>3
<1>11. PICK A \in Int, k \in Int : Turn(A, k, bbs) /\ x = A + Y /\ (X <= bbs => A = B)
  <2>1. CASE X <= bbs
    <3>1. x = B + Y
      BY <1>3, <1>5, <1>8, <1>10, <2>1
    <3> QED
      BY <1>3, <2>1, <3>1
  <2>2. CASE ~ (X <= bbs)
    <3>1. PICK A \in Int, k \in Int : A = B + bbs /\ k = q + 1
      BY <1>2, <1>3
    <3>2. Turn(A, k, bbs)
      <4>1. B = q * bbs
        BY <1>3 DEF Turn
      <4>2. (q + 1) * bbs = q * bbs + bbs
        BY <1>2, <1>3
      <4> QED
        BY <3>1, <4>1, <4>2 DEF Turn
    <3>3. x = A + Y
      BY <1>2, <1>3, <1>5, <1>8, <1>10, <2>2, <3>1
    <3> QED
      BY <2>2, <3>2, <3>3
  <2> QED
    BY <2>1, <2>2
<1>12. PICK d \in Int, m \in Int : d = x - w /\ m = w % bbs
  <2>1. x - w \in Int /\ w \in Int
    BY <1>5
  <2>2. w % bbs \in Int
    BY <1>2, <2>1, ModSplit
  <2> QED
    BY <2>1, <2>2
<1>13. HeaderAt(Y, d, m) /\ (d <= Y => m = Y - d)
  BY <1>5, <1>11, <1>12, HeaderThere
<1>14. C = 1 => B = 0
  <2>1. C = 1 => q = 0
    BY <1>3, <1>4
  <2>2. q = 0 => B = 0
    BY <1>2, <1>3 DEF Turn
  <2> QED
    BY <2>1, <2>2
<1>15. C = 1 /\ X <= bbs => d <= Y
  BY <1>5, <1>8, <1>10, <1>12, <1>14
<1>16. PICK r : r = IF d # Total(ring[m].header) THEN m ELSE IF Y = bbs THEN 0 ELSE Y
  OBVIOUS
<1>17. /\ find_head \in {r, Corrupt}
       /\ (C = 1 /\ X <= bbs => N - m <= total_rec_bbs) => find_head = r
  <2>1. SearchSees(h, N, C, U, X, Y, d, m)
    BY <1>4, <1>9, <1>10, <1>13, <1>15 DEF SearchSees
  <2>2. r = HeadFrom(Y, d, m)
    BY <1>16 DEF HeadFrom
  <2> QED
    BY <1>1, <2>1, <2>2, SearchFindsHead
<1>18. r = EndOnDisk % bbs
  <2>1. EndOnDisk = IF d # Total(ring[m].header) THEN w ELSE x
    BY <1>5, <1>12 DEF Behind
  <2>2. x % bbs = IF Y = bbs THEN 0 ELSE Y
    <3>1. Near(x, A, k, bbs)
      <4>1. \A n \in Nat \ {0} : \A y, j, D \in Int : Turn(D, j, n) => Near(y, D, j, n)
        BY ModNear
      <4>2. x \in Int
        BY <1>5
      <4> QED
        BY <1>2, <1>11, <4>1, <4>2, Zenon
    <3> QED
      BY <1>2, <1>5, <1>10, <1>11, <3>1 DEF Near
  <2> QED
    BY <1>12, <1>16, <2>1, <2>2
<1>19. ASSUME next - last <= total_rec_bbs, C = 1, X <= bbs
       PROVE  N - m <= total_rec_bbs
  <2>1. m = w
    BY <1>5, <1>8, <1>10, <1>12, <1>13, <1>14, <1>15, <1>19
  <2>2. N = next /\ last <= w
    BY <1>2, <1>4, <1>5, <1>14, <1>19 DEF Behind
  <2> QED
    BY <1>2, <1>5, <1>19, <2>1, <2>2
<1> QED
  BY <1>17, <1>18, <1>19

(* The head found is the end of the log on disk in every log of twice the  *)
(* blocks the search looks back over, whatever the constants, the ring and *)
(* the blocks missing (find_head).                                         *)
THEOREM HeadRight == Spec => []HeadExact
<1>1. LogInv => HeadExact
  BY HeadIs DEF HeadExact
<1> QED
  BY <1>1, LogCorrect, PTL

(* And there is no other: if the search does not find it, it says so.      *)
THEOREM HeadNeverWrong == Spec => []HeadOrRefusal
<1>1. LogInv => HeadOrRefusal
  BY HeadIs DEF HeadOrRefusal
<1> QED
  BY <1>1, LogCorrect, PTL

-----------------------------------------------------------------------------
(* What is said of the log.                                                *)

(* Remainders may be taken before adding and subtracting.                  *)
LEMMA ModPlus ==
    ASSUME NEW n \in Nat \ {0}, NEW p \in Int, NEW x \in Int
    PROVE  ((p % n) + x) % n = (p + x) % n /\ (x - (p % n)) % n = (x - p) % n
<1>1. PICK k \in Int, B \in Int, r \in Int : B = k * n /\ r = p % n /\ p = B + r
  <2>1. p = (p \div n) * n + (p % n) /\ p % n \in Int /\ p \div n \in Int
    BY ModSplit
  <2>2. (p \div n) * n \in Int
    BY <2>1
  <2> QED
    BY <2>1, <2>2
<1>2. \A y \in Int : (B + y) % n = y % n
  <2>1. SUFFICES ASSUME NEW y \in Int
                 PROVE  (B + y) % n = y % n
    OBVIOUS
  <2>2. PICK j \in Int, D \in Int, s \in 0..(n - 1) : D = j * n /\ s = y % n /\ y = D + s
    <3>1. y = (y \div n) * n + (y % n) /\ y % n \in 0..(n - 1) /\ y \div n \in Int
      BY ModSplit
    <3>2. (y \div n) * n \in Int
      BY <3>1
    <3> QED
      BY <3>1, <3>2
  <2>3. ((k + j) * n + s) % n = s
    BY ModIs
  <2>4. (k + j) * n = B + D
    BY <1>1, <2>2
  <2>5. PICK v \in Int : v = (k + j) * n /\ v = B + D
    BY <2>4
  <2>6. (v + s) % n = s
    BY <2>3, <2>5
  <2>7. B + y = v + s
    <3>1. y = D + s /\ v = B + D
      BY <2>2, <2>5
    <3> QED
      BY <3>1
  <2> QED
    BY <2>2, <2>6, <2>7
<1>3. (p + x) % n = (r + x) % n
  <2>1. p + x = B + (r + x) /\ r + x \in Int
    BY <1>1
  <2> QED
    BY <1>2, <2>1
<1>4. (x - p) % n = (x - r) % n
  <2>1. x - r = B + (x - p) /\ x - p \in Int
    BY <1>1
  <2> QED
    BY <1>2, <2>1
<1> QED
  BY <1>1, <1>3, <1>4

(* The header searched back for from the head is the last one before it.   *)
LEMMA HeaderBefore ==
    ASSUME LogInv, NEW Y, NEW d, NEW m, HeaderAt(Y, d, m), NEW e, e = IF Y = bbs THEN 0 ELSE Y
    PROVE  header_before(e) = m /\ m \in Nat /\ m < bbs
<1>1. bbs \in Sizes
  BY DEF LogInv, LogNumbers
<1>2. bbs \in Nat \ {0} /\ RecBbs \in Nat /\ RecBbs < bbs
  BY <1>1, Sized
<1>3. /\ Y \in 1..bbs /\ d \in 1..RecBbs /\ HasMagic(ring[m])
      /\ d <= Y => m = Y - d /\ \A b \in (m + 1)..(Y - 1) : ~ HasMagic(ring[b])
      /\ d > Y => m = bbs + Y - d /\ \A b \in 0..(Y - 1) \cup (m + 1)..(bbs - 1) : ~ HasMagic(ring[b])
  BY DEF HeaderAt
<1>4. m \in Nat /\ m < bbs /\ e \in 0..(bbs - 1)
  BY <1>2, <1>3
<1> DEFINE before == {b \in 0..(e - 1) : HasMagic(ring[b])}
           after == {b \in e..(bbs - 1) : HasMagic(ring[b])}
<1>5. header_before(e) = IF before # {} THEN Max(before) ELSE IF after # {} THEN Max(after) ELSE None
  BY DEF header_before
<1>6. ASSUME NEW S, S \subseteq Nat, m \in S, \A x \in S : x <= m
      PROVE  Max(S) = m
  <2>1. Max(S) \in S /\ \A y \in S : y <= Max(S)
    BY <1>4, <1>6, MaxOfNats
  <2>2. PICK v \in Nat : v = Max(S)
    BY <1>6, <2>1
  <2>3. m <= v /\ v <= m
    BY <1>6, <2>1, <2>2
  <2> QED
    BY <1>4, <2>2, <2>3
<1>7. CASE d <= Y /\ Y # bbs
  <2>1. m = Y - d /\ e = Y /\ Y \in Nat /\ d \in Nat /\ d >= 1
    BY <1>2, <1>3, <1>7
  <2>2. m \in before /\ before \subseteq Nat
    BY <1>2, <1>3, <1>4, <2>1
  <2>3. ASSUME NEW x \in before
        PROVE  x <= m
    <3>1. x \in 0..(e - 1) /\ HasMagic(ring[x])
      OBVIOUS
    <3>2. x \notin (m + 1)..(Y - 1)
      BY <1>3, <1>7, <3>1
    <3> QED
      BY <1>4, <2>1, <3>1, <3>2
  <2>4. Max(before) = m
    <3> HIDE DEF before
    <3> QED
      BY <1>6, <2>2, <2>3
  <2> QED
    BY <1>4, <1>5, <2>2, <2>4
<1>8. CASE d > Y
  <2>1. m = bbs + Y - d /\ e = Y /\ Y \in Nat /\ d \in Nat /\ d <= RecBbs
    BY <1>2, <1>3, <1>8
  <2>2. before = {}
    BY <1>3, <1>8, <2>1
  <2>3. m \in after /\ after \subseteq Nat
    BY <1>2, <1>3, <1>4, <2>1
  <2>4. ASSUME NEW x \in after
        PROVE  x <= m
    <3>1. x \in e..(bbs - 1) /\ HasMagic(ring[x])
      OBVIOUS
    <3>2. x \notin (m + 1)..(bbs - 1)
      BY <1>3, <1>8, <3>1
    <3> QED
      BY <1>2, <1>4, <2>1, <3>1, <3>2
  <2>5. Max(after) = m
    <3> HIDE DEF after
    <3> QED
      BY <1>6, <2>3, <2>4
  <2> QED
    BY <1>4, <1>5, <2>2, <2>3, <2>5
<1>9. CASE Y = bbs
  <2>1. m = bbs - d /\ e = 0 /\ d \in Nat /\ d <= Y
    BY <1>2, <1>3, <1>9
  <2>2. before = {}
    BY <2>1
  <2>3. m \in after /\ after \subseteq Nat
    BY <1>2, <1>3, <1>4, <2>1
  <2>4. ASSUME NEW x \in after
        PROVE  x <= m
    <3>1. x \in e..(bbs - 1) /\ HasMagic(ring[x])
      OBVIOUS
    <3>2. x \notin (m + 1)..(bbs - 1)
      BY <1>3, <1>9, <2>1, <3>1
    <3> QED
      BY <1>2, <1>4, <2>1, <3>1, <3>2
  <2>5. Max(after) = m
    <3> HIDE DEF after
    <3> QED
      BY <1>6, <2>3, <2>4
  <2> QED
    BY <1>4, <1>5, <2>2, <2>3, <2>5
<1> QED
  BY <1>2, <1>3, <1>7, <1>8, <1>9

(* What Log::state says of a long log: it cannot be read, or it is clean   *)
(* if the newest record on disk is an unmount record, or dirty from the    *)
(* tail in that record to the end of the log.                              *)
LEMMA StateIs ==
    ASSUME LogInv, bbs >= 2 * total_rec_bbs
    PROVE  LET w == NewestOnDisk % bbs
               s == IF EndsInUnmount THEN Clean ELSE Dirty(EndOnDisk % bbs, ring[w].header.tail)
           IN  /\ state \in {s, Unreadable}
               /\ next - last <= total_rec_bbs => state = s
<1>1. PICK E, W, w, H : /\ E = EndOnDisk /\ W = NewestOnDisk /\ w = W % bbs /\ H = ring[w].header
  OBVIOUS
<1>2. PICK n : n = Total(H)
  OBVIOUS
<1>3. Whole(W, H, E) /\ Behind(E, W)
  BY <1>1, NewestWhole, WholeBehind
<1>4. /\ W \in Nat /\ E \in Nat /\ W + n = E /\ HeaderOK(H)
      /\ ring[(W + H.hblks) % bbs].unmount => H.single
  BY <1>2, <1>3 DEF Whole
<1>5. bbs \in Sizes
  BY DEF LogInv, LogNumbers
<1>6. bbs \in Nat \ {0} /\ H.hblks \in Nat /\ n \in Nat
  BY <1>2, <1>4, <1>5, Sized, HeaderFields
<1>7. PICK e \in 0..(bbs - 1) : e = E % bbs
  <2>1. \A y \in Int : y % bbs \in 0..(bbs - 1)
    BY <1>6, ModSplit
  <2> QED
    BY <1>4, <2>1
<1>8. header_before(e) = w /\ w \in Nat
  <2>1. PICK k \in Int, B \in Int : Turn(B, k, bbs) /\ E = B + e
    <3>1. \A y \in Int : y = (y \div bbs) * bbs + (y % bbs) /\ y \div bbs \in Int
      BY <1>6, ModSplit
    <3>2. E = (E \div bbs) * bbs + e /\ E \div bbs \in Int
      BY <1>4, <1>7, <3>1
    <3>3. PICK k \in Int, B \in Int : k = E \div bbs /\ B = k * bbs
      BY <1>6, <3>2
    <3> QED
      BY <3>2, <3>3 DEF Turn
  <2>2. PICK Y \in 1..bbs, A \in Int, j \in Int :
            Turn(A, j, bbs) /\ E = A + Y /\ e = IF Y = bbs THEN 0 ELSE Y
    <3>1. CASE e # 0
      <4>1. e \in 1..bbs /\ e # bbs
        BY <1>6, <1>7, <3>1
      <4> QED
        BY <2>1, <4>1
    <3>2. CASE e = 0
      <4>1. PICK A \in Int, j \in Int : A = B - bbs /\ j = k - 1
        BY <1>6, <2>1
      <4>2. Turn(A, j, bbs)
        <5>1. B = k * bbs
          BY <2>1 DEF Turn
        <5>2. (k - 1) * bbs = k * bbs - bbs
          BY <1>6, <2>1
        <5> QED
          BY <4>1, <5>1, <5>2 DEF Turn
      <4>3. E = A + bbs /\ bbs \in 1..bbs
        BY <1>6, <2>1, <3>2, <4>1
      <4> QED
        BY <3>2, <4>2, <4>3
    <3> QED
      BY <3>1, <3>2
  <2>3. HeaderAt(Y, E - W, w)
    BY <1>1, <1>3, <2>2, HeaderThere
  <2> QED
    BY <2>2, <2>3, HeaderBefore
<1>9. (w + n) % bbs = e /\ (w + H.hblks) % bbs = (W + H.hblks) % bbs
  <2>1. \A m \in Nat \ {0} : \A p, x \in Int : ((p % m) + x) % m = (p + x) % m
    BY ModPlus
  <2>2. W \in Int /\ n \in Int /\ H.hblks \in Int
    BY <1>4, <1>6
  <2>3. /\ ((W % bbs) + n) % bbs = (W + n) % bbs
        /\ ((W % bbs) + H.hblks) % bbs = (W + H.hblks) % bbs
    BY <1>6, <2>1, <2>2, Zenon
  <2>4. (w + n) % bbs = (W + n) % bbs /\ (w + H.hblks) % bbs = (W + H.hblks) % bbs
    BY <1>1, <2>3
  <2> QED
    BY <1>4, <1>7, <2>4
<1>10. Unmounts(w, e) <=> EndsInUnmount
  <2>1. EndsInUnmount <=> ring[(W + H.hblks) % bbs].unmount
    BY <1>1 DEF EndsInUnmount
  <2>2. Unmounts(w, e) <=> H.single /\ ring[(W + H.hblks) % bbs].unmount
    BY <1>1, <1>2, <1>9 DEF Unmounts
  <2> QED
    BY <1>4, <2>1, <2>2
<1>11. ring[0].cycle # 0
  BY FirstCycleThere
<1>12. PICK f : f = find_head
  OBVIOUS
<1>13. f \in {e, Corrupt} /\ (next - last <= total_rec_bbs => f = e) /\ e # None /\ e # Corrupt
  <2>1. e # None /\ e # Corrupt
    BY <1>6, <1>7 DEF None, Corrupt
  <2> QED
    BY <1>1, <1>7, <1>12, <2>1, HeadIs
<1>14. f = Corrupt => state = Unreadable
  BY <1>12 DEF state, None, Corrupt
<1>15. f = e => state = IF EndsInUnmount THEN Clean ELSE Dirty(e, H.tail)
  <2>1. w # None
    BY <1>8 DEF None
  <2> QED
    BY <1>1, <1>8, <1>10, <1>11, <1>12, <1>13, <2>1 DEF state
<1> QED
  BY <1>1, <1>7, <1>13, <1>14, <1>15

(* A log that ends in changes is never called clean, in a log of at least  *)
(* twice the blocks the search looks back over (Log::state): Volume::open  *)
(* refuses the filesystem.                                                 *)
THEOREM ChangesSeen == Spec => [](bbs >= 2 * total_rec_bbs => DirtyNeverClean)
<1>1. ASSUME LogInv, bbs >= 2 * total_rec_bbs, ~ EndsInUnmount
      PROVE  ~ state.clean
  <2>1. PICK h, t : state \in {Dirty(h, t), Unreadable}
    BY <1>1, StateIs
  <2> QED
    BY <2>1 DEF Dirty, Unreadable
<1>2. LogInv => (bbs >= 2 * total_rec_bbs => DirtyNeverClean)
  BY <1>1 DEF DirtyNeverClean
<1> QED
  BY <1>2, LogCorrect, PTL

(* One that ends in an unmount record is called clean there.               *)
THEOREM UnmountSeen == Spec => [](bbs >= 2 * total_rec_bbs => UnmountedIsClean)
<1>1. ASSUME LogInv, bbs >= 2 * total_rec_bbs, EndsInUnmount, next - last <= total_rec_bbs
      PROVE  state.clean
  <2>1. state = Clean
    BY <1>1, StateIs
  <2> QED
    BY <2>1 DEF Clean
<1>2. LogInv => (bbs >= 2 * total_rec_bbs => UnmountedIsClean)
  BY <1>1 DEF UnmountedIsClean
<1> QED
  BY <1>2, LogCorrect, PTL

(* What is reported of a dirty log there, tail to head, covers every       *)
(* record whose changes may not be in place.                               *)
THEOREM RangeCovers == Spec => [](bbs >= 2 * total_rec_bbs => DirtyRangeCovers)
<1>1. ASSUME LogInv, bbs >= 2 * total_rec_bbs, ~ state.clean, state # Unreadable
      PROVE  (state.head - state.tail) % bbs >= EndOnDisk - tail
  <2>1. PICK E, W, H : E = EndOnDisk /\ W = NewestOnDisk /\ H = ring[W % bbs].header
    OBVIOUS
  <2>2. state = Dirty(E % bbs, H.tail)
    <3>1. state \in {IF EndsInUnmount THEN Clean ELSE Dirty(E % bbs, H.tail), Unreadable}
      BY <1>1, <2>1, StateIs
    <3>2. Clean.clean
      BY DEF Clean
    <3> QED
      BY <1>1, <3>1, <3>2
  <2>3. state.head = E % bbs /\ state.tail = H.tail
    BY <2>2 DEF Dirty
  <2>4. Whole(W, H, E)
    BY <1>1, <2>1, NewestWhole
  <2>5. PICK t \in Nat : t <= tail /\ H.tail = t % bbs /\ E - t < bbs
    BY <2>4 DEF Whole, TailOK
  <2>6. W \in Nat /\ E \in Nat /\ last <= W /\ W + Total(H) = E /\ HeaderOK(H)
    BY <2>4 DEF Whole
  <2>7. bbs \in Sizes /\ tail \in Nat /\ last \in Nat /\ tail <= last
    BY <1>1 DEF LogInv, LogNumbers
  <2>8. bbs \in Nat \ {0} /\ Total(H) \in Nat
    BY <2>6, <2>7, Sized, HeaderFields
  <2>9. PICK D \in Nat : D = E - t /\ D < bbs /\ D >= E - tail
    BY <2>5, <2>6, <2>7, <2>8
  <2>10. ((E % bbs) - (t % bbs)) % bbs = D
    <3>1. \A m \in Nat \ {0} : \A p, x \in Int :
              ((p % m) + x) % m = (p + x) % m /\ (x - (p % m)) % m = (x - p) % m
      BY ModPlus
    <3>2. E \in Int /\ t \in Int
      BY <2>5, <2>6
    <3>3. PICK e \in Int, s \in Int, u \in Int : e = E % bbs /\ s = t % bbs /\ u = 0 - t
      <4>1. \A y \in Int : y % bbs \in Int
        BY <2>8, ModSplit
      <4> QED
        BY <3>2, <4>1
    <3>4. (e - s) % bbs = (e - t) % bbs
      BY <2>8, <3>1, <3>2, <3>3, Zenon
    <3>5. (e + u) % bbs = (E + u) % bbs
      BY <2>8, <3>1, <3>2, <3>3, Zenon
    <3>6. e + u = e - t /\ E + u = D
      BY <2>9, <3>2, <3>3
    <3>7. D % bbs = D
      <4>1. (0 * bbs + D) % bbs = D
        <5>1. D \in 0..(bbs - 1) /\ 0 \in Int
          BY <2>8, <2>9
        <5>2. \A n \in Nat \ {0} : \A k \in Int : \A r \in 0..(n - 1) : (k * n + r) % n = r
          BY ModIs
        <5> QED
          BY <2>8, <5>1, <5>2, Zenon
      <4> QED
        BY <2>8, <4>1
    <3> QED
      BY <3>3, <3>4, <3>5, <3>6, <3>7
  <2> QED
    BY <2>1, <2>3, <2>5, <2>9, <2>10
<1>2. LogInv => (bbs >= 2 * total_rec_bbs => DirtyRangeCovers)
  BY <1>1 DEF DirtyRangeCovers
<1> QED
  BY <1>2, LogCorrect, PTL

-----------------------------------------------------------------------------
(* Sessions.  A volume stays open on a log that does not change: what      *)
(* `log::state` said of it when it was opened is true of it until it is    *)
(* closed.                                                                 *)

Volumes ==
    [sb : Superblocks, log : {"external", "clean", "unreadable", "dirty"},
     w : BOOLEAN, writable : BOOLEAN]

(* What the log of an open volume was found to be, it is.                  *)
Judged(v) ==
    /\ v.log = "external" => has_external_log(v.sb)
    /\ (v.log = "clean" /\ bbs >= 2 * total_rec_bbs) => EndsInUnmount

(* What `writer` asks of a volume before the first write.                  *)
Ready(v) == check_writable(v.sb) /\ v.log \in {"clean", "external"}

(* A volume is written to only once it was found ready, and nothing is     *)
(* left written when it is closed.                                         *)
OpenInv ==
    /\ vol = Closed => ~ written
    /\ vol # Closed => vol \in Volumes /\ Judged(vol)
    /\ vol # Closed /\ (written \/ vol.w) => Ready(vol)

(* A log found clean ends in an unmount record (Log::state).               *)
LEMMA CleanMeansUnmounted ==
    ASSUME LogInv, bbs >= 2 * total_rec_bbs, state.clean
    PROVE  EndsInUnmount
<1>1. SUFFICES ASSUME ~ EndsInUnmount
               PROVE  FALSE
  OBVIOUS
<1>2. PICK h, t : state \in {Dirty(h, t), Unreadable}
  BY <1>1, StateIs
<1> QED
  BY <1>2 DEF Dirty, Unreadable

(* An open volume is not a closed one.                                     *)
LEMMA VolumeIsOpen == Closed \notin Volumes
<1>1. \A v \in Volumes : v.log \in {"external", "clean", "unreadable", "dirty"}
  BY DEF Volumes
<1>2. Closed.log = "closed"
  BY DEF Closed
<1> QED
  BY <1>1, <1>2

(* The log stays as it was found while it does not change.                 *)
LEMMA JudgedStays ==
    ASSUME NEW v, NEW u, Judged(v), u.log = v.log, u.sb = v.sb, UNCHANGED vars
    PROVE  (vol' = u) => Judged(vol)'
<1>1. bbs' = bbs /\ EndsInUnmount' = EndsInUnmount
  BY DEF vars, EndsInUnmount, NewestOnDisk, Torn
<1> QED
  BY <1>1 DEF Judged, has_external_log

(* Opening a volume finds its log as it is.                                *)
LEMMA OpenKeeps ==
    ASSUME NEW s \in Superblocks, NEW n \in BOOLEAN, NEW l \in BOOLEAN, NEW w \in BOOLEAN,
           LogInv, OpenInv, Open(s, n, l, w)
    PROVE  OpenInv'
<1> DEFINE v == [sb |-> s, log |-> LogState(s), w |-> FALSE, writable |-> w]
<1>1. vol' = v /\ UNCHANGED vars /\ vol = Closed /\ written' = written
  BY DEF Open
<1>2. /\ LogState(s) \in {"external", "clean", "unreadable", "dirty"}
      /\ LogState(s) = "external" => has_external_log(s)
      /\ LogState(s) = "clean" => state.clean
  BY DEF LogState
<1>3. v \in Volumes
  BY <1>2 DEF Volumes
<1>4. v.log = LogState(s) /\ v.sb = s /\ v.w = FALSE
  OBVIOUS
<1> HIDE DEF v
<1>5. Judged(v)
  BY <1>2, <1>4, CleanMeansUnmounted DEF Judged
<1>6. Judged(vol)'
  BY <1>1, <1>5, JudgedStays
<1>7. ~ written'
  BY <1>1 DEF OpenInv
<1>8. vol' # Closed /\ vol' \in Volumes /\ ~ vol'.w
  BY <1>1, <1>3, <1>4, VolumeIsOpen
<1>9. Closed' = Closed /\ Volumes' = Volumes
  BY DEF Closed, Volumes
<1> QED
  BY <1>6, <1>7, <1>8, <1>9 DEF OpenInv

(* A call that changes something goes on only on a volume that is ready.   *)
LEMMA WriteCallKeeps ==
    ASSUME OpenInv, WriteCall
    PROVE  OpenInv'
<1>1. vol # Closed /\ writer(vol) /\ UNCHANGED vars /\ vol' = [vol EXCEPT !.w = TRUE]
  BY DEF WriteCall
<1>2. vol \in Volumes /\ Judged(vol)
  BY <1>1 DEF OpenInv
<1>3. Ready(vol)
  BY <1>1 DEF OpenInv, Ready, writer
<1>4. vol' \in Volumes /\ vol'.sb = vol.sb /\ vol'.log = vol.log
  BY <1>1, <1>2 DEF Volumes
<1>5. Judged(vol)'
  BY <1>1, <1>2, <1>4, JudgedStays
<1>6. Ready(vol)'
  BY <1>3, <1>4 DEF Ready, check_writable
<1>7. vol' # Closed
  BY <1>4, VolumeIsOpen
<1>8. Closed' = Closed /\ Volumes' = Volumes
  BY DEF Closed, Volumes
<1> QED
  BY <1>4, <1>5, <1>6, <1>7, <1>8 DEF OpenInv

(* A flush writes what such calls left.                                    *)
LEMMA FlushKeeps ==
    ASSUME OpenInv, Flush
    PROVE  OpenInv'
<1>1. /\ vol # Closed /\ vol' = vol /\ UNCHANGED vars
      /\ written' = (written \/ (vol.w /\ vol.writable))
  BY DEF Flush
<1>2. vol \in Volumes /\ Judged(vol)
  BY <1>1 DEF OpenInv
<1>3. Judged(vol)'
  BY <1>1, <1>2, JudgedStays
<1>4. (written' \/ vol'.w) => Ready(vol)
  BY <1>1 DEF OpenInv
<1>5. Ready(vol)' = Ready(vol)
  BY <1>1 DEF Ready, check_writable
<1>6. Closed' = Closed /\ Volumes' = Volumes
  BY DEF Closed, Volumes
<1> QED
  BY <1>1, <1>2, <1>3, <1>4, <1>5, <1>6 DEF OpenInv

(* Nothing of a session happens to the log but what the kernel does to it: *)
(* what is proved of the log holds in every session.                       *)
LEMMA KernelOnly == SessionSpec => Spec
<1>1. SessionInit => Init
  BY DEF SessionInit
<1>2. [SessionNext]_<<vars, svars>> => [Next]_vars
  BY DEF SessionNext, Kernel, Open, WriteCall, Flush, Close, vars
<1> QED
  BY <1>1, <1>2, PTL DEF SessionSpec, Spec

(* Nothing is ever written to a filesystem whose own log ends in changes,  *)
(* nor to one with features the writer knows nothing of, if its log is of  *)
(* at least twice the blocks the search looks back over: `open_norecovery` *)
(* opens the first, and `writer` refuses both.                             *)
THEOREM NothingUnready ==
    SessionSpec => [](bbs >= 2 * total_rec_bbs => NeverWrittenUnready)
<1>1. SessionInit => OpenInv
  BY DEF SessionInit, OpenInv
<1>2. LogInv /\ OpenInv /\ [SessionNext]_<<vars, svars>> => OpenInv'
  <2>1. SUFFICES ASSUME LogInv, OpenInv, [SessionNext]_<<vars, svars>>
                 PROVE  OpenInv'
    OBVIOUS
  <2>2. Closed' = Closed /\ Volumes' = Volumes
    BY DEF Closed, Volumes
  <2>3. CASE Kernel
    <3>1. vol' = vol /\ written' = written /\ vol = Closed
      BY <2>3 DEF Kernel, svars
    <3> QED
      BY <2>1, <2>2, <3>1 DEF OpenInv
  <2>4. CASE \E s \in Superblocks, n, l, w \in BOOLEAN : Open(s, n, l, w)
    BY <2>1, <2>4, OpenKeeps
  <2>5. CASE WriteCall
    BY <2>1, <2>5, WriteCallKeeps
  <2>6. CASE Flush
    BY <2>1, <2>6, FlushKeeps
  <2>7. CASE Close
    <3>1. vol' = Closed /\ ~ written'
      BY <2>7 DEF Close
    <3> QED
      BY <2>2, <3>1 DEF OpenInv
  <2>8. CASE UNCHANGED <<vars, svars>>
    <3>1. UNCHANGED vars /\ vol' = vol /\ written' = written
      BY <2>8 DEF svars
    <3>2. vol # Closed => Judged(vol)'
      BY <2>1, <3>1, JudgedStays DEF OpenInv
    <3>3. Ready(vol)' = Ready(vol)
      BY <3>1 DEF Ready, check_writable
    <3> QED
      BY <2>1, <2>2, <3>1, <3>2, <3>3 DEF OpenInv
  <2> QED
    BY <2>1, <2>3, <2>4, <2>5, <2>6, <2>7, <2>8 DEF SessionNext
<1>3. OpenInv => (bbs >= 2 * total_rec_bbs => NeverWrittenUnready)
  <2>1. SUFFICES ASSUME OpenInv, bbs >= 2 * total_rec_bbs, vol # Closed, written
                 PROVE  /\ has_external_log(vol.sb) \/ EndsInUnmount
                        /\ vol.sb.version = 5 /\ "FTYPE" \in vol.sb.incompat
                        /\ vol.sb.incompat \cap {"PARENT", "METADIR", "ZONED"} = {}
    BY DEF NeverWrittenUnready
  <2>2. Ready(vol) /\ Judged(vol)
    BY <2>1 DEF OpenInv
  <2>3. has_external_log(vol.sb) \/ EndsInUnmount
    BY <2>1, <2>2 DEF Ready, Judged
  <2>4. /\ vol.sb.version = 5 /\ "FTYPE" \in vol.sb.incompat
        /\ vol.sb.incompat \subseteq Handled
    BY <2>2 DEF Ready, check_writable
  <2>5. Handled \cap {"PARENT", "METADIR", "ZONED"} = {}
    BY DEF Handled
  <2> QED
    BY <2>3, <2>4, <2>5
<1>4. SessionSpec => []LogInv
  BY KernelOnly, LogCorrect, PTL
<1> QED
  BY <1>1, <1>2, <1>3, <1>4, PTL DEF SessionSpec
=============================================================================

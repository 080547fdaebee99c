---------------------------- MODULE AgRmapProofs -----------------------------
(***************************************************************************)
(* Reverse mappings.  Merging records changes nothing of what they say,    *)
(* and doing it twice nothing more; removing a run of an owner takes out   *)
(* just that run.  And so a group's mappings are exact, it never finds its *)
(* own books corrupt, and a group that is not dirty is on disk as it is in *)
(* memory: for every group, every order of calls, and rebuilds that        *)
(* settle, retry or fail.                                                  *)
(***************************************************************************)
EXTENDS AgProofs

-----------------------------------------------------------------------------
(* Records and what they say.                                              *)

(* The fields of a record the kernel keeps.                                *)
LEMMA RecordFields ==
    ASSUME NEW r, NEW n \in Nat, RecordOK(r, n)
    PROVE  /\ r.start \in Nat /\ r.len \in Nat \ {0} /\ r.off \in Nat
           /\ End(r) = r.start + r.len /\ End(r) \in Nat /\ End(r) <= n
           /\ \A b : b \in Run(r.start, r.len) <=> b \in Nat /\ r.start <= b /\ b < End(r)
           /\ r.start \in Run(r.start, r.len)
BY DEF RecordOK, End, Run

(* A place is said by some record, of one of its blocks.                   *)
LEMMA PlaceSaid ==
    ASSUME NEW rm, NEW p
    PROVE  p \in Places(rm) <=> \E r \in rm : \E b \in Run(r.start, r.len) : p = PlaceOf(r, b)
BY DEF Places

(* Records that say the same of one block would say the same of any.       *)
LEMMA PlaceTracks ==
    ASSUME NEW n \in Nat, NEW r, RecordOK(r, n), NEW q, RecordOK(q, n),
           NEW b \in Int, PlaceOf(r, b) = PlaceOf(q, b), NEW c \in Int
    PROVE  PlaceOf(r, c) = PlaceOf(q, c)
<1>1. r.start \in Nat /\ r.off \in Nat /\ q.start \in Nat /\ q.off \in Nat
  BY RecordFields
<1>2. /\ r.owner = q.owner /\ r.fork = q.fork
      /\ (IF HasOffset(r) THEN r.off + (b - r.start) ELSE 0)
           = (IF HasOffset(q) THEN q.off + (b - q.start) ELSE 0)
  BY DEF PlaceOf
<1>3. HasOffset(r) <=> HasOffset(q)
  BY <1>2 DEF HasOffset, inode_owned
<1>4. CASE HasOffset(r)
  <2>1. r.off + (b - r.start) = q.off + (b - q.start)
    BY <1>2, <1>3, <1>4
  <2>2. r.off + (c - r.start) = q.off + (c - q.start)
    BY <1>1, <2>1
  <2> QED
    BY <1>2, <1>3, <1>4, <2>2 DEF PlaceOf
<1>5. CASE ~ HasOffset(r)
  BY <1>2, <1>3, <1>5 DEF PlaceOf
<1> QED
  BY <1>4, <1>5

(* A record and the one that continues it would say the same.              *)
LEMMA MergeTracks ==
    ASSUME NEW n \in Nat, NEW r, RecordOK(r, n), NEW q, RecordOK(q, n), merges_with(r, q),
           NEW c \in Int
    PROVE  PlaceOf(r, c) = PlaceOf(q, c)
<1>1. /\ r.start \in Nat /\ r.off \in Nat /\ q.start \in Nat /\ q.off \in Nat /\ r.len \in Nat
      /\ End(r) = r.start + r.len
  BY RecordFields
<1>2. r.owner = q.owner /\ q.start = r.start + r.len
  BY <1>1 DEF merges_with
<1>3. r.fork = q.fork
  BY <1>2 DEF merges_with, RecordOK, inode_owned
<1>4. HasOffset(r) <=> HasOffset(q)
  BY <1>2, <1>3 DEF HasOffset, inode_owned
<1>5. CASE HasOffset(r)
  <2>1. r.off + r.len = q.off
    BY <1>5 DEF HasOffset, merges_with
  <2>2. r.off + (c - r.start) = q.off + (c - q.start)
    BY <1>1, <1>2, <2>1
  <2> QED
    BY <1>2, <1>3, <1>4, <1>5, <2>2 DEF PlaceOf
<1>6. CASE ~ HasOffset(r)
  BY <1>2, <1>3, <1>4, <1>6 DEF PlaceOf
<1> QED
  BY <1>5, <1>6

(* And the other way around.                                               *)
LEMMA TracksMerge ==
    ASSUME NEW n \in Nat, NEW r, RecordOK(r, n), NEW q, RecordOK(q, n), q.start = End(r),
           NEW b \in Int, PlaceOf(r, b) = PlaceOf(q, b)
    PROVE  merges_with(r, q)
<1>1. /\ r.start \in Nat /\ r.off \in Nat /\ q.start \in Nat /\ q.off \in Nat /\ r.len \in Nat
      /\ End(r) = r.start + r.len
  BY RecordFields
<1>2. /\ r.owner = q.owner /\ r.fork = q.fork
      /\ (IF HasOffset(r) THEN r.off + (b - r.start) ELSE 0)
           = (IF HasOffset(q) THEN q.off + (b - q.start) ELSE 0)
  BY DEF PlaceOf
<1>3. HasOffset(r) <=> HasOffset(q)
  BY <1>2 DEF HasOffset, inode_owned
<1>4. ASSUME inode_owned(r), r.fork # "bmbt"
      PROVE  r.off + r.len = q.off
  <2>1. HasOffset(r)
    BY <1>4 DEF HasOffset
  <2>2. r.off + (b - r.start) = q.off + (b - q.start)
    BY <1>2, <1>3, <2>1
  <2>3. PICK k \in Int : k = r.off
    BY <1>1
  <2>4. PICK s \in Int : s = r.start
    BY <1>1
  <2>5. PICK l \in Int : l = r.len
    BY <1>1
  <2>6. PICK m \in Int : m = q.off
    BY <1>1
  <2>7. k + (b - s) = m + (b - (s + l))
    BY <1>1, <2>2, <2>3, <2>4, <2>5, <2>6
  <2>8. k + l = m
    BY <2>7
  <2> QED
    BY <2>3, <2>5, <2>6, <2>8
<1> QED
  BY <1>2, <1>4 DEF merges_with

(* Two records that both have a block are one.                             *)
LEMMA OneRecord ==
    ASSUME NEW rm, ExtentsApart(rm), NEW r \in rm, NEW q \in rm, NEW b,
           b \in Run(r.start, r.len), b \in Run(q.start, q.len)
    PROVE  r = q
BY DEF ExtentsApart

(* Where the records say of a block and of the next one what r would say,  *)
(* they say it in one record or in two that continue each other.           *)
LEMMA Onward ==
    ASSUME NEW rm, NEW n \in Nat, WellKept(rm, n), NEW r, RecordOK(r, n), NEW b \in Nat,
           NEW u \in rm, b \in Run(u.start, u.len), PlaceOf(u, b) = PlaceOf(r, b),
           NEW v \in rm, b + 1 \in Run(v.start, v.len), PlaceOf(v, b + 1) = PlaceOf(r, b + 1)
    PROVE  u = v \/ (End(u) = b + 1 /\ v.start = b + 1 /\ merges_with(u, v))
<1>1. RecordOK(u, n) /\ RecordOK(v, n) /\ ExtentsApart(rm)
  BY DEF WellKept
<1>2. SUFFICES ASSUME u # v
               PROVE  End(u) = b + 1 /\ v.start = b + 1 /\ merges_with(u, v)
  OBVIOUS
<1>3. b + 1 \notin Run(u.start, u.len) /\ b \notin Run(v.start, v.len)
  BY <1>1, <1>2, OneRecord
<1>4. End(u) = b + 1 /\ v.start = b + 1
  <2>1. /\ End(u) \in Nat /\ u.start \in Nat /\ v.start \in Nat /\ End(v) \in Nat
        /\ u.start <= b /\ b < End(u) /\ v.start <= b + 1 /\ b + 1 < End(v)
        /\ ~ (u.start <= b + 1 /\ b + 1 < End(u)) /\ ~ (v.start <= b /\ b < End(v))
    BY <1>1, <1>3, RecordFields
  <2> QED
    BY <2>1
<1>5. PlaceOf(u, b) = PlaceOf(v, b)
  <2>1. PlaceOf(v, b) = PlaceOf(r, b)
    BY <1>1, PlaceTracks
  <2> QED
    BY <2>1
<1> QED
  BY <1>1, <1>4, <1>5, TracksMerge

-----------------------------------------------------------------------------
(* `merged_rmap`.                                                          *)

Heads(rm) == {r \in rm : \A q \in rm : ~ merges_with(q, r)}
Tails(rm) == {r \in rm : \A q \in rm : ~ merges_with(r, q)}
LastEnd(rm, r) == Min({End(q) : q \in {t \in Tails(rm) : t.start >= r.start}})
Chain(rm, r) == [r EXCEPT !.len = LastEnd(rm, r) - r.start]

(* It makes one record of each chain.                                      *)
LEMMA MergedChains ==
    ASSUME NEW rm
    PROVE  merged_rmap(rm) = {Chain(rm, r) : r \in Heads(rm)}
BY DEF merged_rmap, Heads, Chain, LastEnd, Tails

(* Of the records that start no earlier than r, the last one is a tail.    *)
LEMMA TailExists ==
    ASSUME NEW rm, NEW n \in Nat, WellKept(rm, n), NEW r \in rm
    PROVE  \E t \in Tails(rm) : t.start >= r.start
<1> DEFINE later == {q \in rm : q.start >= r.start}
           ends  == {End(q) : q \in later}
<1>1. \A q \in rm : RecordOK(q, n)
  BY DEF WellKept
<1>2. \A q \in rm : q.start \in Nat /\ q.len \in Nat \ {0} /\ End(q) \in Nat /\ End(q) <= n
                    /\ End(q) = q.start + q.len
  BY <1>1, RecordFields
<1>3. r \in later
  BY <1>2
<1>4. ends \subseteq Nat /\ ends # {} /\ \A x \in ends : x <= n
  BY <1>2, <1>3
<1>5. PICK m : m = Max(ends)
  OBVIOUS
<1>6. m \in ends /\ \A y \in ends : y <= m
  BY <1>4, <1>5, MaxOfNats
<1>7. PICK t \in later : End(t) = m
  BY <1>6
<1>8. ASSUME NEW q \in rm, merges_with(t, q)
      PROVE  FALSE
  <2>1. q.start = End(t)
    BY <1>8 DEF merges_with
  <2>2. t \in rm /\ t.start >= r.start
    BY <1>7
  <2>3. q \in later
    BY <1>2, <2>1, <2>2
  <2>4. End(q) <= m
    BY <1>6, <2>3
  <2> QED
    BY <1>2, <1>7, <2>1, <2>2, <2>4
<1>9. t \in Tails(rm)
  BY <1>7, <1>8 DEF Tails
<1> QED
  BY <1>7, <1>9

(* Where a chain ends: at the end of a tail, the first that r may reach.   *)
LEMMA ChainEnds ==
    ASSUME NEW rm, NEW n \in Nat, WellKept(rm, n), NEW r \in rm
    PROVE  /\ LastEnd(rm, r) \in Nat /\ LastEnd(rm, r) <= n
           /\ LastEnd(rm, r) >= End(r)
           /\ \E t \in Tails(rm) : t.start >= r.start /\ End(t) = LastEnd(rm, r)
           /\ \A t \in Tails(rm) : t.start >= r.start => LastEnd(rm, r) <= End(t)
<1> DEFINE ends == {End(q) : q \in {t \in Tails(rm) : t.start >= r.start}}
<1>1. \A q \in rm : RecordOK(q, n)
  BY DEF WellKept
<1>2. \A q \in rm : q.start \in Nat /\ q.len \in Nat \ {0} /\ End(q) \in Nat /\ End(q) <= n
                    /\ End(q) = q.start + q.len
  BY <1>1, RecordFields
<1>3. Tails(rm) \subseteq rm
  BY DEF Tails
<1>4. ends \subseteq Nat /\ ends # {}
  BY <1>2, <1>3, TailExists
<1>5. LastEnd(rm, r) = Min(ends)
  BY DEF LastEnd
<1>6. LastEnd(rm, r) \in ends /\ \A y \in ends : LastEnd(rm, r) <= y
  BY <1>4, <1>5, MinOfNats
<1>7. PICK t \in Tails(rm) : t.start >= r.start /\ End(t) = LastEnd(rm, r)
  BY <1>6
<1>8. End(t) >= End(r)
  <2>1. CASE t = r
    BY <1>2, <2>1
  <2>2. CASE t # r
    <3>1. t.start \notin Run(r.start, r.len)
      <4>1. t.start \in Run(t.start, t.len) /\ t \in rm /\ ExtentsApart(rm)
        BY <1>1, <1>3, <1>7, RecordFields DEF WellKept
      <4> QED
        BY <2>2, <4>1, OneRecord
    <3>2. t.start >= End(r)
      BY <1>1, <1>2, <1>3, <1>7, <3>1, RecordFields
    <3> QED
      BY <1>2, <1>3, <3>2
  <2> QED
    BY <2>1, <2>2
<1> QED
  BY <1>2, <1>3, <1>6, <1>7, <1>8

(* All along a chain the records say what its first one would.             *)
LEMMA ChainSays ==
    ASSUME NEW rm, NEW n \in Nat, WellKept(rm, n), NEW r \in rm,
           NEW x \in Nat, r.start <= x, x < LastEnd(rm, r)
    PROVE  \E q \in rm : x \in Run(q.start, q.len) /\ PlaceOf(q, x) = PlaceOf(r, x)
<1> DEFINE Said(y) == \E q \in rm : y \in Run(q.start, q.len) /\ PlaceOf(q, y) = PlaceOf(r, y)
           bad == {y \in Nat : r.start <= y /\ y < LastEnd(rm, r) /\ ~ Said(y)}
<1>1. \A q \in rm : RecordOK(q, n)
  BY DEF WellKept
<1>2. \A q \in rm : /\ q.start \in Nat /\ q.len \in Nat \ {0} /\ End(q) \in Nat
                    /\ \A b : b \in Run(q.start, q.len) <=> b \in Nat /\ q.start <= b /\ b < End(q)
  BY <1>1, RecordFields
<1>3. LastEnd(rm, r) \in Nat
  BY ChainEnds
<1>4. SUFFICES ASSUME bad # {}
               PROVE  FALSE
  OBVIOUS
<1>5. PICK y : y = Min(bad)
  OBVIOUS
<1>6. y \in bad /\ \A z \in bad : y <= z
  BY <1>4, <1>5, MinOfNats
<1>7. y \in Nat /\ r.start <= y /\ y < LastEnd(rm, r) /\ ~ Said(y)
  BY <1>6
<1>8. Said(r.start)
  <2>1. r.start \in Run(r.start, r.len)
    BY <1>1, RecordFields
  <2> QED
    BY <2>1
<1>9. y # r.start
  BY <1>7, <1>8
<1>10. y - 1 \in Nat /\ r.start <= y - 1 /\ y - 1 < LastEnd(rm, r) /\ y - 1 < y
  BY <1>2, <1>3, <1>7, <1>9
<1>11. Said(y - 1)
  BY <1>6, <1>10
<1>12. PICK u \in rm : y - 1 \in Run(u.start, u.len) /\ PlaceOf(u, y - 1) = PlaceOf(r, y - 1)
  BY <1>11
<1>13. PlaceOf(u, y) = PlaceOf(r, y)
  <2>1. y \in Int /\ y - 1 \in Int /\ RecordOK(u, n) /\ RecordOK(r, n)
    BY <1>1, <1>7
  <2> QED
    BY <1>12, <2>1, PlaceTracks
<1>14. End(u) = y
  <2>1. y \notin Run(u.start, u.len)
    BY <1>7, <1>12, <1>13
  <2>2. u.start <= y - 1 /\ y - 1 < End(u) /\ End(u) \in Nat /\ u.start \in Nat
    BY <1>2, <1>12
  <2>3. ~ (u.start <= y /\ y < End(u))
    BY <1>2, <1>7, <2>1
  <2> QED
    BY <1>7, <2>2, <2>3
<1>15. u.start >= r.start
  <2>1. SUFFICES ASSUME u.start < r.start
                 PROVE  FALSE
    BY <1>2
  <2>2. r.start \in Run(u.start, u.len)
    BY <1>2, <1>7, <1>9, <1>14, <2>1
  <2>3. r.start \in Run(r.start, r.len)
    BY <1>1, RecordFields
  <2>4. u = r
    BY <2>2, <2>3, OneRecord DEF WellKept
  <2> QED
    BY <1>2, <2>1, <2>4
<1>16. u \notin Tails(rm)
  <2>1. SUFFICES ASSUME u \in Tails(rm)
                 PROVE  FALSE
    OBVIOUS
  <2>2. LastEnd(rm, r) <= End(u)
    BY <1>15, <2>1, ChainEnds
  <2> QED
    BY <1>3, <1>7, <1>14, <2>2
<1>17. PICK v \in rm : merges_with(u, v)
  BY <1>12, <1>16 DEF Tails
<1>18. v.start = y
  BY <1>14, <1>17 DEF merges_with
<1>19. PlaceOf(u, y) = PlaceOf(v, y)
  BY <1>1, <1>7, <1>17, MergeTracks
<1>20. y \in Run(v.start, v.len)
  BY <1>1, <1>18, RecordFields
<1> QED
  BY <1>7, <1>13, <1>19, <1>20

(* The record made of a chain: the first one's, up to the chain's end.     *)
LEMMA ChainRecord ==
    ASSUME NEW rm, NEW n \in Nat, WellKept(rm, n), NEW r \in rm,
           NEW m, m = Chain(rm, r)
    PROVE  /\ RecordOK(m, n)
           /\ m.start = r.start /\ m.owner = r.owner /\ m.off = r.off /\ m.fork = r.fork
           /\ End(m) = LastEnd(rm, r) /\ m.len = LastEnd(rm, r) - r.start
           /\ \A x : PlaceOf(m, x) = PlaceOf(r, x)
<1>1. RecordOK(r, n)
  BY DEF WellKept
<1>2. PICK L : L = LastEnd(rm, r)
  OBVIOUS
<1>3. L \in Nat /\ L <= n /\ L >= End(r)
  BY <1>2, ChainEnds
<1>4. r.start \in Nat /\ r.len \in Nat \ {0} /\ r.off \in Nat /\ End(r) = r.start + r.len
  BY <1>1, RecordFields
<1>5. r = Rmap(r.start, r.len, r.owner, r.off, r.fork)
  BY <1>1 DEF RecordOK
<1>6. m = [r EXCEPT !.len = L - r.start]
  BY <1>2 DEF Chain
<1>7. m = Rmap(r.start, L - r.start, r.owner, r.off, r.fork)
  BY <1>5, <1>6 DEF Rmap
<1>8. m.start = r.start /\ m.len = L - r.start /\ m.owner = r.owner /\ m.off = r.off /\ m.fork = r.fork
  BY <1>7 DEF Rmap
<1>9. End(m) = L /\ m.len \in Nat \ {0}
  <2>1. L - r.start \in Nat \ {0} /\ r.start + (L - r.start) = L
    BY <1>3, <1>4
  <2> QED
    BY <1>8, <2>1 DEF End
<1>10. (inode_owned(m) <=> inode_owned(r)) /\ (HasOffset(m) <=> HasOffset(r))
  BY <1>8 DEF HasOffset, inode_owned
<1>11. m = Rmap(m.start, m.len, m.owner, m.off, m.fork)
  BY <1>7, <1>8
<1>12. RecordOK(m, n)
  BY <1>1, <1>3, <1>4, <1>8, <1>9, <1>10, <1>11 DEF RecordOK
<1>13. \A x : PlaceOf(m, x) = PlaceOf(r, x)
  BY <1>8, <1>10 DEF PlaceOf
<1> QED
  BY <1>2, <1>8, <1>9, <1>12, <1>13

(* Every record lies in a chain, which says of its blocks what it says.    *)
LEMMA InAChain ==
    ASSUME NEW rm, NEW n \in Nat, WellKept(rm, n), NEW q \in rm
    PROVE  \E r \in Heads(rm) : /\ r.start <= q.start /\ End(q) <= LastEnd(rm, r)
                                /\ \A x \in Int : PlaceOf(r, x) = PlaceOf(q, x)
<1> DEFINE Said(r, x) == \E u \in rm : x \in Run(u.start, u.len) /\ PlaceOf(u, x) = PlaceOf(r, x)
           Leads(r) == /\ r.start <= q.start
                       /\ \A x \in Int : PlaceOf(r, x) = PlaceOf(q, x)
                       /\ \A x \in Nat : r.start <= x /\ x < End(q) => Said(r, x)
           lead == {r \in rm : Leads(r)}
           starts == {r.start : r \in lead}
<1>1. \A r \in rm : RecordOK(r, n)
  BY DEF WellKept
<1>2. \A r \in rm : /\ r.start \in Nat /\ r.len \in Nat \ {0} /\ End(r) \in Nat
                    /\ End(r) = r.start + r.len
                    /\ \A b : b \in Run(r.start, r.len) <=> b \in Nat /\ r.start <= b /\ b < End(r)
  BY <1>1, RecordFields
<1>3. q \in lead
  BY <1>2
<1>4. starts \subseteq Nat /\ starts # {}
  BY <1>2, <1>3
<1>5. PICK s : s = Min(starts)
  OBVIOUS
<1>6. s \in starts /\ \A y \in starts : s <= y
  BY <1>4, <1>5, MinOfNats
<1>7. PICK r \in lead : r.start = s
  BY <1>6
<1>8. r \in rm /\ Leads(r)
  BY <1>7
<1>9. ASSUME NEW p \in rm, merges_with(p, r)
      PROVE  FALSE
  <2>1. End(p) = r.start /\ p.start < r.start
    <3>1. End(p) = r.start
      BY <1>9 DEF merges_with
    <3> QED
      BY <1>2, <1>8, <3>1
  <2>2. \A x \in Int : PlaceOf(p, x) = PlaceOf(r, x)
    BY <1>1, <1>8, <1>9, MergeTracks
  <2>3. ASSUME NEW x \in Nat, p.start <= x, x < End(q)
        PROVE  Said(p, x)
    <3>1. CASE x < r.start
      <4>1. x \in Run(p.start, p.len)
        BY <1>2, <2>1, <2>3, <3>1
      <4> QED
        BY <4>1
    <3>2. CASE r.start <= x
      <4>1. Said(r, x)
        BY <1>8, <2>3, <3>2
      <4>2. PlaceOf(p, x) = PlaceOf(r, x)
        BY <2>2
      <4> QED
        BY <4>1, <4>2
    <3> QED
      BY <1>2, <1>8, <3>1, <3>2
  <2>4. Leads(p)
    <3>1. p.start <= q.start
      BY <1>2, <1>8, <2>1
    <3>2. \A x \in Int : PlaceOf(p, x) = PlaceOf(q, x)
      BY <1>8, <2>2
    <3> QED
      BY <2>3, <3>1, <3>2
  <2>5. p.start \in starts
    BY <2>4
  <2>6. s <= p.start
    BY <1>6, <2>5
  <2> QED
    BY <1>2, <1>7, <1>8, <2>1, <2>6
<1>10. r \in Heads(rm)
  BY <1>8, <1>9 DEF Heads
<1>11. ASSUME NEW t \in Tails(rm), t.start >= r.start, End(t) < End(q)
       PROVE  FALSE
  <2>1. t \in rm /\ \A v \in rm : ~ merges_with(t, v)
    BY DEF Tails
  <2>2. PICK b : b = End(t) - 1
    OBVIOUS
  <2>3. b \in Nat /\ b + 1 = End(t) /\ r.start <= b /\ b < End(q) /\ b + 1 < End(q) /\ r.start <= b + 1
        /\ b \in Run(t.start, t.len)
    <3>1. /\ t.start \in Nat /\ End(t) \in Nat /\ t.start < End(t) /\ r.start \in Nat
          /\ End(q) \in Nat /\ t.start >= r.start /\ End(t) < End(q)
      BY <1>2, <1>8, <1>11, <2>1
    <3>2. b \in Nat /\ b + 1 = End(t) /\ t.start <= b /\ b < End(t)
      BY <2>2, <3>1
    <3>3. b \in Run(t.start, t.len)
      BY <1>2, <2>1, <3>2
    <3> QED
      BY <3>1, <3>2, <3>3
  <2>4. PICK u \in rm : b \in Run(u.start, u.len) /\ PlaceOf(u, b) = PlaceOf(r, b)
    BY <1>8, <2>3
  <2>5. u = t
    BY <2>1, <2>3, <2>4, OneRecord DEF WellKept
  <2>6. b + 1 \in Nat
    BY <2>3
  <2>7. PICK v \in rm : b + 1 \in Run(v.start, v.len) /\ PlaceOf(v, b + 1) = PlaceOf(r, b + 1)
    BY <1>8, <2>3, <2>6
  <2>8. u = v \/ merges_with(u, v)
    BY <1>1, <1>8, <2>3, <2>4, <2>7, Onward
  <2>9. b + 1 \notin Run(t.start, t.len)
    BY <1>2, <2>1, <2>3
  <2> QED
    BY <2>1, <2>5, <2>7, <2>8, <2>9
<1>12. End(q) <= LastEnd(rm, r)
  <2>1. PICK t \in Tails(rm) : t.start >= r.start /\ End(t) = LastEnd(rm, r)
    BY <1>8, ChainEnds
  <2>2. ~ (End(t) < End(q)) /\ t \in rm
    BY <1>11, <2>1 DEF Tails
  <2> QED
    BY <1>2, <2>1, <2>2
<1> QED
  BY <1>8, <1>10, <1>12

(* `merged_rmap` changes nothing of what the records say.                  *)
THEOREM MergeSaysTheSame ==
    ASSUME NEW rm, NEW n \in Nat, WellKept(rm, n)
    PROVE  Places(merged_rmap(rm)) = Places(rm)
<1>1. \A r \in rm : RecordOK(r, n)
  BY DEF WellKept
<1>2. Heads(rm) \subseteq rm
  BY DEF Heads
<1>3. ASSUME NEW p \in Places(merged_rmap(rm))
      PROVE  p \in Places(rm)
  <2>1. PICK m \in merged_rmap(rm) : \E b \in Run(m.start, m.len) : p = PlaceOf(m, b)
    BY PlaceSaid
  <2>2. PICK b \in Run(m.start, m.len) : p = PlaceOf(m, b)
    BY <2>1
  <2>3. PICK r \in Heads(rm) : m = Chain(rm, r)
    BY MergedChains
  <2>4. /\ r \in rm /\ RecordOK(m, n) /\ m.start = r.start /\ End(m) = LastEnd(rm, r)
        /\ PlaceOf(m, b) = PlaceOf(r, b)
    BY <1>2, <2>3, ChainRecord
  <2>5. b \in Nat /\ r.start <= b /\ b < LastEnd(rm, r)
    BY <2>4, RecordFields
  <2>6. PICK q \in rm : b \in Run(q.start, q.len) /\ PlaceOf(q, b) = PlaceOf(r, b)
    BY <2>4, <2>5, ChainSays
  <2> QED
    BY <2>2, <2>4, <2>6, PlaceSaid
<1>4. ASSUME NEW p \in Places(rm)
      PROVE  p \in Places(merged_rmap(rm))
  <2>1. PICK q \in rm : \E b \in Run(q.start, q.len) : p = PlaceOf(q, b)
    BY PlaceSaid
  <2>2. PICK b \in Run(q.start, q.len) : p = PlaceOf(q, b)
    BY <2>1
  <2>3. b \in Nat /\ q.start <= b /\ b < End(q) /\ q.start \in Nat /\ End(q) \in Nat
    BY <1>1, RecordFields
  <2>4. PICK r \in Heads(rm) : /\ r.start <= q.start /\ End(q) <= LastEnd(rm, r)
                               /\ \A x \in Int : PlaceOf(r, x) = PlaceOf(q, x)
    BY InAChain
  <2>5. PICK m : m = Chain(rm, r)
    OBVIOUS
  <2>6. /\ r \in rm /\ RecordOK(m, n) /\ m.start = r.start /\ End(m) = LastEnd(rm, r)
        /\ PlaceOf(m, b) = PlaceOf(r, b)
    BY <1>2, <2>5, ChainRecord
  <2>7. r.start \in Nat /\ LastEnd(rm, r) \in Nat
    BY <1>1, <2>6, RecordFields
  <2>8. m.start <= b /\ b < End(m)
    BY <2>3, <2>4, <2>6, <2>7
  <2>9. b \in Run(m.start, m.len)
    BY <2>3, <2>6, <2>8, RecordFields
  <2>10. m \in merged_rmap(rm)
    BY <2>5, MergedChains
  <2>11. p = PlaceOf(m, b)
    BY <2>2, <2>3, <2>4, <2>6
  <2> QED
    BY <2>9, <2>10, <2>11, PlaceSaid
<1> QED
  BY <1>3, <1>4

(* The records it makes are apart, as the kernel keeps them.               *)
LEMMA MergedKept ==
    ASSUME NEW rm, NEW n \in Nat, WellKept(rm, n)
    PROVE  WellKept(merged_rmap(rm), n)
<1>1. \A r \in rm : RecordOK(r, n)
  BY DEF WellKept
<1>2. Heads(rm) \subseteq rm
  BY DEF Heads
<1>3. ASSUME NEW r \in Heads(rm), NEW q \in Heads(rm), r.start < q.start
      PROVE  LastEnd(rm, r) <= q.start
  <2>1. SUFFICES ASSUME q.start < LastEnd(rm, r)
                 PROVE  FALSE
    BY <1>1, <1>2, RecordFields, ChainEnds
  <2>2. r \in rm /\ q \in rm /\ RecordOK(r, n) /\ RecordOK(q, n)
    BY <1>1, <1>2
  <2>3. r.start \in Nat /\ q.start \in Nat /\ q.start \in Run(q.start, q.len) /\ LastEnd(rm, r) \in Nat
    BY <2>2, RecordFields, ChainEnds
  <2>4. PICK b : b = q.start - 1
    OBVIOUS
  <2>5. b \in Nat /\ b + 1 = q.start /\ r.start <= b /\ b < LastEnd(rm, r) /\ r.start <= q.start
    BY <1>3, <2>1, <2>3, <2>4
  <2>6. PICK u \in rm : b \in Run(u.start, u.len) /\ PlaceOf(u, b) = PlaceOf(r, b)
    BY <2>2, <2>5, ChainSays
  <2>7. PICK v \in rm : q.start \in Run(v.start, v.len) /\ PlaceOf(v, q.start) = PlaceOf(r, q.start)
    BY <2>1, <2>2, <2>3, <2>5, ChainSays
  <2>8. v = q
    BY <2>2, <2>3, <2>7, OneRecord DEF WellKept
  <2>9. u = q \/ merges_with(u, q)
    <3>1. b + 1 \in Run(q.start, q.len) /\ PlaceOf(q, b + 1) = PlaceOf(r, b + 1)
      BY <2>3, <2>5, <2>7, <2>8
    <3> QED
      BY <2>2, <2>5, <2>6, <3>1, Onward
  <2>10. b \notin Run(q.start, q.len)
    BY <2>2, <2>3, <2>5, RecordFields
  <2> QED
    BY <1>3, <2>6, <2>9, <2>10 DEF Heads
<1>4. \A m \in merged_rmap(rm) : RecordOK(m, n)
  <2>1. SUFFICES ASSUME NEW m \in merged_rmap(rm)
                 PROVE  RecordOK(m, n)
    OBVIOUS
  <2>2. PICK r \in Heads(rm) : m = Chain(rm, r)
    BY MergedChains
  <2> QED
    BY <1>2, <2>2, ChainRecord
<1>5. ASSUME NEW m \in merged_rmap(rm), NEW k \in merged_rmap(rm), m # k, NEW b,
             b \in Run(m.start, m.len), b \in Run(k.start, k.len)
      PROVE  FALSE
  <2>1. PICK r \in Heads(rm) : m = Chain(rm, r)
    BY MergedChains
  <2>2. PICK q \in Heads(rm) : k = Chain(rm, q)
    BY MergedChains
  <2>3. r \in rm /\ q \in rm /\ r # q /\ RecordOK(r, n) /\ RecordOK(q, n)
    BY <1>1, <1>2, <1>5, <2>1, <2>2
  <2>4. r.start \in Nat /\ q.start \in Nat /\ LastEnd(rm, r) \in Nat /\ LastEnd(rm, q) \in Nat
    BY <2>3, RecordFields, ChainEnds
  <2>5. r.start # q.start
    BY <2>3, RecordFields, OneRecord DEF WellKept
  <2>6. /\ b \in Nat /\ r.start <= b /\ b < LastEnd(rm, r)
        /\ q.start <= b /\ b < LastEnd(rm, q)
    <3>1. m.start = r.start /\ End(m) = LastEnd(rm, r) /\ RecordOK(m, n)
      BY <2>1, <2>3, ChainRecord
    <3>2. k.start = q.start /\ End(k) = LastEnd(rm, q) /\ RecordOK(k, n)
      BY <2>2, <2>3, ChainRecord
    <3> QED
      BY <1>5, <3>1, <3>2, RecordFields
  <2>7. CASE r.start < q.start
    <3>1. LastEnd(rm, r) <= q.start
      BY <1>3, <2>7
    <3> QED
      BY <2>4, <2>6, <3>1
  <2>8. CASE q.start < r.start
    <3>1. LastEnd(rm, q) <= r.start
      BY <1>3, <2>8
    <3> QED
      BY <2>4, <2>6, <3>1
  <2> QED
    BY <2>4, <2>5, <2>7, <2>8
<1> QED
  BY <1>4, <1>5 DEF WellKept, ExtentsApart

(* Records of which none continues another are merged already.             *)
LEMMA AlreadyMerged ==
    ASSUME NEW rm, NEW n \in Nat, WellKept(rm, n), \A r, q \in rm : ~ merges_with(r, q)
    PROVE  merged_rmap(rm) = rm
<1>1. \A r \in rm : RecordOK(r, n)
  BY DEF WellKept
<1>2. Heads(rm) = rm /\ Tails(rm) = rm
  BY DEF Heads, Tails
<1>3. ASSUME NEW r \in rm
      PROVE  Chain(rm, r) = r
  <2>1. r.start \in Nat /\ r.len \in Nat /\ End(r) \in Nat /\ End(r) = r.start + r.len
    BY <1>1, RecordFields
  <2>2. LastEnd(rm, r) <= End(r) /\ LastEnd(rm, r) >= End(r) /\ LastEnd(rm, r) \in Nat
    <3>1. r.start >= r.start
      BY <2>1
    <3> QED
      BY <1>2, <3>1, ChainEnds
  <2>3. LastEnd(rm, r) - r.start = r.len
    BY <2>1, <2>2
  <2>4. r = Rmap(r.start, r.len, r.owner, r.off, r.fork)
    BY <1>1 DEF RecordOK
  <2>5. Chain(rm, r) = [r EXCEPT !.len = r.len]
    BY <2>3 DEF Chain
  <2> QED
    BY <2>4, <2>5 DEF Rmap
<1> QED
  BY <1>2, <1>3, MergedChains

(* Merging twice is merging once: what a session reads back from disk is   *)
(* what it would write.                                                    *)
THEOREM MergeTwice ==
    ASSUME NEW rm, NEW n \in Nat, WellKept(rm, n)
    PROVE  merged_rmap(merged_rmap(rm)) = merged_rmap(rm)
<1>1. \A r \in rm : RecordOK(r, n)
  BY DEF WellKept
<1>2. Heads(rm) \subseteq rm /\ Tails(rm) \subseteq rm
  BY DEF Heads, Tails
<1>3. ASSUME NEW m \in merged_rmap(rm), NEW k \in merged_rmap(rm), merges_with(m, k)
      PROVE  FALSE
  <2>1. PICK r \in Heads(rm) : m = Chain(rm, r)
    BY MergedChains
  <2>2. PICK q \in Heads(rm) : k = Chain(rm, q)
    BY MergedChains
  <2>3. r \in rm /\ q \in rm /\ RecordOK(r, n) /\ RecordOK(q, n)
    BY <1>1, <1>2
  <2>4. /\ m.start = r.start /\ End(m) = LastEnd(rm, r) /\ RecordOK(m, n)
        /\ \A x : PlaceOf(m, x) = PlaceOf(r, x)
    BY <2>1, <2>3, ChainRecord
  <2>5. k.start = q.start /\ RecordOK(k, n) /\ \A x : PlaceOf(k, x) = PlaceOf(q, x)
    BY <2>2, <2>3, ChainRecord
  <2>6. PICK t \in Tails(rm) : t.start >= r.start /\ End(t) = LastEnd(rm, r)
    BY <2>3, ChainEnds
  <2>7. t \in rm /\ RecordOK(t, n)
    BY <1>1, <1>2, <2>6
  <2>8. PICK b : b = End(t) - 1
    OBVIOUS
  <2>9. b \in Nat /\ b + 1 = End(t) /\ t.start <= b /\ b < End(t) /\ r.start <= b
    <3>1. t.start \in Nat /\ End(t) \in Nat /\ t.start < End(t) /\ r.start \in Nat
      BY <2>3, <2>7, RecordFields
    <3> QED
      BY <2>6, <2>8, <3>1
  <2>10. b \in Run(t.start, t.len)
    BY <2>7, <2>9, RecordFields
  <2>11. PICK u \in rm : b \in Run(u.start, u.len) /\ PlaceOf(u, b) = PlaceOf(r, b)
    BY <2>3, <2>6, <2>9, ChainSays
  <2>12. PlaceOf(t, b) = PlaceOf(r, b)
    BY <2>7, <2>10, <2>11, OneRecord DEF WellKept
  <2>13. PlaceOf(m, b) = PlaceOf(k, b)
    BY <1>3, <2>4, <2>5, <2>9, MergeTracks
  <2>14. PlaceOf(t, b) = PlaceOf(q, b)
    BY <2>4, <2>5, <2>12, <2>13
  <2>15. q.start = End(t)
    BY <1>3, <2>4, <2>5, <2>6 DEF merges_with
  <2>16. merges_with(t, q)
    BY <2>3, <2>7, <2>9, <2>14, <2>15, TracksMerge
  <2> QED
    BY <2>3, <2>6, <2>16 DEF Tails
<1> QED
  BY <1>3, MergedKept, AlreadyMerged

-----------------------------------------------------------------------------
(* `rmap_remove`.                                                          *)

(* The records that have blocks of a run, and what is left of one.         *)
Hits(rm, start, len) == {r \in rm : Run(r.start, r.len) \cap Run(start, len) # {}}
LeftOf(r, start) == Rmap(r.start, start - r.start, r.owner, r.off, r.fork)
RightOf(r, end) ==
    Rmap(end, End(r) - end, r.owner,
         IF HasOffset(r) THEN r.off + (end - r.start) ELSE r.off, r.fork)

(* The greater and the lesser of two naturals.                             *)
LEMMA TwoNats ==
    ASSUME NEW a \in Nat, NEW b \in Nat
    PROVE  /\ Max({a, b}) = IF a < b THEN b ELSE a
           /\ Min({a, b}) = IF a < b THEN a ELSE b
<1>1. Min({a, b}) \in {a, b} /\ Min({a, b}) <= a /\ Min({a, b}) <= b
  BY MinOfNats
<1>2. Max({a, b}) \in {a, b} /\ Max({a, b}) >= a /\ Max({a, b}) >= b
  <2>1. {a, b} \subseteq Nat /\ {a, b} # {} /\ a + b \in Nat /\ \A x \in {a, b} : x <= a + b
    OBVIOUS
  <2> QED
    BY <2>1, MaxOfNats
<1> QED
  BY <1>1, <1>2

(* The records it probes and does not skip are those that have blocks of   *)
(* the run, when the run is the owner's.                                   *)
LEMMA HitsFound ==
    ASSUME NEW rm, NEW n \in Nat, WellKept(rm, n), NEW start \in Nat, NEW len \in Nat \ {0},
           NEW owner,
           \A b \in Run(start, len) : \E r \in rm : b \in Run(r.start, r.len) /\ r.owner = owner
    PROVE  LET end    == start + len
               before == {r \in rm : r.start < start}
               probed == {r \in before : \A q \in before : q.start <= r.start}
                           \cup {r \in rm : r.start >= start /\ r.start < end}
           IN  {r \in probed : r.owner = owner /\ End(r) > start} = Hits(rm, start, len)
<1> DEFINE end    == start + len
           before == {r \in rm : r.start < start}
           probed == {r \in before : \A q \in before : q.start <= r.start}
                       \cup {r \in rm : r.start >= start /\ r.start < end}
           hits   == {r \in probed : r.owner = owner /\ End(r) > start}
<1>1. \A r \in rm : RecordOK(r, n)
  BY DEF WellKept
<1>2. \A r \in rm : /\ r.start \in Nat /\ End(r) \in Nat /\ r.start < End(r)
                    /\ \A b : b \in Run(r.start, r.len) <=> b \in Nat /\ r.start <= b /\ b < End(r)
  BY <1>1, RecordFields
<1>3. \A b : b \in Run(start, len) <=> b \in Nat /\ start <= b /\ b < end
  BY DEF Run
<1>4. ASSUME NEW r \in hits
      PROVE  r \in Hits(rm, start, len)
  <2>1. r \in rm /\ End(r) > start /\ r.start < end
    BY <1>2
  <2>2. CASE r.start < start
    <3>1. start \in Run(r.start, r.len) /\ start \in Run(start, len)
      BY <1>2, <1>3, <2>1, <2>2
    <3> QED
      BY <2>1, <3>1 DEF Hits
  <2>3. CASE r.start >= start
    <3>1. r.start \in Run(r.start, r.len) /\ r.start \in Run(start, len)
      BY <1>2, <1>3, <2>1, <2>3
    <3> QED
      BY <2>1, <3>1 DEF Hits
  <2> QED
    BY <1>2, <2>1, <2>2, <2>3
<1>5. ASSUME NEW r \in Hits(rm, start, len)
      PROVE  r \in hits
  <2>1. PICK b : r \in rm /\ b \in Run(r.start, r.len) /\ b \in Run(start, len)
    BY DEF Hits
  <2>2. PICK q \in rm : b \in Run(q.start, q.len) /\ q.owner = owner
    BY <2>1
  <2>3. r.owner = owner
    BY <2>1, <2>2, OneRecord DEF WellKept
  <2>4. b \in Nat /\ r.start <= b /\ b < End(r) /\ start <= b /\ b < end
    BY <1>2, <1>3, <2>1
  <2>5. End(r) > start /\ r.start < end
    BY <1>2, <2>1, <2>4
  <2>6. CASE r.start < start
    <3>1. ASSUME NEW x \in before, ~ (x.start <= r.start)
          PROVE  FALSE
      <4>1. x \in rm /\ x.start < start /\ r.start < x.start
        BY <1>2, <2>1, <3>1
      <4>2. x.start \in Run(r.start, r.len) /\ x.start \in Run(x.start, x.len)
        BY <1>2, <2>1, <2>5, <4>1
      <4>3. x = r
        BY <2>1, <4>1, <4>2, OneRecord DEF WellKept
      <4> QED
        BY <1>2, <2>1, <4>1, <4>3
    <3> QED
      BY <2>1, <2>3, <2>5, <2>6, <3>1
  <2>7. CASE r.start >= start
    BY <2>1, <2>3, <2>5, <2>7
  <2> QED
    BY <1>2, <2>1, <2>6, <2>7
<1> QED
  BY <1>4, <1>5

(* A record that is cut.                                                   *)
LEMMA CutRecord ==
    ASSUME NEW n \in Nat, NEW r, RecordOK(r, n), NEW start \in Nat, NEW len \in Nat \ {0},
           Run(r.start, r.len) \cap Run(start, len) # {},
           NEW end, end = start + len
    PROVE  /\ r.start < start => /\ RecordOK(LeftOf(r, start), n)
                                 /\ \A b : b \in Run(LeftOf(r, start).start, LeftOf(r, start).len)
                                             <=> b \in Run(r.start, r.len) /\ b < start
                                 /\ \A x : PlaceOf(LeftOf(r, start), x) = PlaceOf(r, x)
           /\ end < End(r) => /\ RecordOK(RightOf(r, end), n)
                              /\ \A b : b \in Run(RightOf(r, end).start, RightOf(r, end).len)
                                          <=> b \in Run(r.start, r.len) /\ end <= b
                              /\ \A x \in Int : PlaceOf(RightOf(r, end), x) = PlaceOf(r, x)
<1>1. /\ r.start \in Nat /\ r.len \in Nat \ {0} /\ r.off \in Nat /\ End(r) \in Nat /\ End(r) <= n
      /\ End(r) = r.start + r.len
      /\ \A b : b \in Run(r.start, r.len) <=> b \in Nat /\ r.start <= b /\ b < End(r)
  BY RecordFields
<1>2. r = Rmap(r.start, r.len, r.owner, r.off, r.fork) /\ (~ inode_owned(r) => r.fork = "bmbt")
  BY DEF RecordOK
<1>3. end \in Nat /\ r.start < end /\ start < End(r) /\ start < end
  <2>1. PICK b : b \in Run(r.start, r.len) /\ b \in Run(start, len)
    OBVIOUS
  <2>2. b \in Nat /\ start <= b /\ b < start + len /\ r.start <= b /\ b < End(r)
    BY <1>1, <2>1 DEF Run
  <2> QED
    BY <1>1, <2>2
<1>4. PICK off : off = IF HasOffset(r) THEN r.off + (end - r.start) ELSE r.off
  OBVIOUS
<1>5. ASSUME r.start < start
      PROVE  /\ RecordOK(LeftOf(r, start), n)
             /\ \A b : b \in Run(LeftOf(r, start).start, LeftOf(r, start).len)
                         <=> b \in Run(r.start, r.len) /\ b < start
             /\ \A x : PlaceOf(LeftOf(r, start), x) = PlaceOf(r, x)
  <2>1. PICK k : k = LeftOf(r, start)
    OBVIOUS
  <2>2. /\ k.start = r.start /\ k.len = start - r.start /\ k.owner = r.owner
        /\ k.off = r.off /\ k.fork = r.fork /\ k = Rmap(k.start, k.len, k.owner, k.off, k.fork)
    BY <2>1 DEF LeftOf, Rmap
  <2>3. k.len \in Nat \ {0} /\ End(k) = start
    <3>1. start - r.start \in Nat \ {0} /\ r.start + (start - r.start) = start
      BY <1>1, <1>5
    <3> QED
      BY <2>2, <3>1 DEF End
  <2>4. (inode_owned(k) <=> inode_owned(r)) /\ (HasOffset(k) <=> HasOffset(r))
    BY <2>2 DEF HasOffset, inode_owned
  <2>5. RecordOK(k, n)
    BY <1>1, <1>2, <1>3, <2>2, <2>3, <2>4 DEF RecordOK
  <2>6. \A b : b \in Run(k.start, k.len) <=> b \in Nat /\ r.start <= b /\ b < start
    BY <2>2, <2>3, <2>5, RecordFields
  <2>7. \A b : b \in Run(k.start, k.len) <=> b \in Run(r.start, r.len) /\ b < start
    BY <1>1, <1>3, <2>6
  <2>8. \A x : PlaceOf(k, x) = PlaceOf(r, x)
    BY <2>2, <2>4 DEF PlaceOf
  <2> QED
    BY <2>1, <2>5, <2>7, <2>8
<1>6. ASSUME end < End(r)
       PROVE  /\ RecordOK(RightOf(r, end), n)
              /\ \A b : b \in Run(RightOf(r, end).start, RightOf(r, end).len)
                          <=> b \in Run(r.start, r.len) /\ end <= b
              /\ \A x \in Int : PlaceOf(RightOf(r, end), x) = PlaceOf(r, x)
  <2>1. PICK k : k = RightOf(r, end)
    OBVIOUS
  <2>2. /\ k.start = end /\ k.len = End(r) - end /\ k.owner = r.owner
        /\ k.off = off /\ k.fork = r.fork /\ k = Rmap(k.start, k.len, k.owner, k.off, k.fork)
    BY <1>4, <2>1 DEF RightOf, Rmap
  <2>3. k.len \in Nat \ {0} /\ End(k) = End(r)
    <3>1. End(r) - end \in Nat \ {0} /\ end + (End(r) - end) = End(r)
      BY <1>1, <1>3, <1>6
    <3>2. End(k) = k.start + k.len
      BY DEF End
    <3> QED
      BY <2>2, <3>1, <3>2
  <2>4. (inode_owned(k) <=> inode_owned(r)) /\ (HasOffset(k) <=> HasOffset(r))
    BY <2>2 DEF HasOffset, inode_owned
  <2>5. off \in Nat
    BY <1>1, <1>3, <1>4
  <2>6. RecordOK(k, n)
    BY <1>1, <1>2, <1>3, <2>2, <2>3, <2>4, <2>5 DEF RecordOK
  <2>7. \A b : b \in Run(k.start, k.len) <=> b \in Nat /\ end <= b /\ b < End(r)
    BY <2>2, <2>3, <2>6, RecordFields
  <2>8. \A b : b \in Run(k.start, k.len) <=> b \in Run(r.start, r.len) /\ end <= b
    BY <1>1, <1>3, <2>7
  <2>9. ASSUME NEW x \in Int
        PROVE  PlaceOf(k, x) = PlaceOf(r, x)
    <3>1. CASE HasOffset(r)
      <4>1. off + (x - end) = r.off + (x - r.start)
        BY <1>1, <1>3, <1>4, <3>1
      <4> QED
        BY <2>2, <2>4, <3>1, <4>1 DEF PlaceOf
    <3>2. CASE ~ HasOffset(r)
      BY <2>2, <2>4, <3>2 DEF PlaceOf
    <3> QED
      BY <3>1, <3>2
  <2> QED
    BY <2>1, <2>6, <2>8, <2>9
<1> QED
  BY <1>5, <1>6

(* Mappings of a run, each with every block of the run that it maps.       *)
Pairs(rm, start, len) ==
    {p \in rm \X Run(start, len) : p[2] \in Run(p[1].start, p[1].len)}

(* What rmap_remove leaves and what it counts, without the search and the  *)
(* clipping.                                                               *)
LEMMA RemovePieces ==
    ASSUME NEW rm, NEW n \in Nat, WellKept(rm, n), NEW start \in Nat, NEW len \in Nat \ {0},
           NEW owner,
           \A b \in Run(start, len) : \E r \in rm : b \in Run(r.start, r.len) /\ r.owner = owner,
           NEW end, end = start + len
    PROVE  LET res == rmap_remove(rm, start, len, owner)
               H   == Hits(rm, start, len)
           IN  /\ res.removed = Cardinality(Pairs(rm, start, len))
               /\ res.rmap = (rm \ H) \cup {LeftOf(r, start) : r \in {h \in H : h.start < start}}
                                     \cup {RightOf(r, end) : r \in {h \in H : end < End(h)}}
<1> DEFINE before == {r \in rm : r.start < start}
           probed == {r \in before : \A q \in before : q.start <= r.start}
                       \cup {r \in rm : r.start >= start /\ r.start < end}
           hits   == {r \in probed : r.owner = owner /\ End(r) > start}
           cutS(r) == Max({r.start, start})
           cutE(r) == Min({End(r), end})
           left   == {Rmap(r.start, cutS(r) - r.start, r.owner, r.off, r.fork) :
                         r \in {h \in hits : h.start < cutS(h)}}
           right  == {Rmap(cutE(r), End(r) - cutE(r), r.owner,
                           IF HasOffset(r) THEN r.off + (cutE(r) - r.start) ELSE r.off, r.fork) :
                         r \in {h \in hits : cutE(h) < End(h)}}
           cut    == UNION {{r} \X (cutS(r) .. (cutE(r) - 1)) : r \in hits}
           res    == rmap_remove(rm, start, len, owner)
           H      == Hits(rm, start, len)
<1>1. res.removed = Cardinality(cut) /\ res.rmap = (rm \ hits) \cup left \cup right
  BY DEF rmap_remove
<1>2. hits = H
  BY HitsFound
<1>3. \A r \in H : RecordOK(r, n) /\ Run(r.start, r.len) \cap Run(start, len) # {}
  BY DEF Hits, WellKept
<1>4. \A r \in H : /\ r.start \in Nat /\ End(r) \in Nat /\ r.start < End(r)
                   /\ \A b : b \in Run(r.start, r.len) <=> b \in Nat /\ r.start <= b /\ b < End(r)
  BY <1>3, RecordFields
<1>5. start \in Nat /\ end \in Nat
  OBVIOUS
<1>6. ASSUME NEW r \in H
      PROVE  /\ cutS(r) = IF r.start < start THEN start ELSE r.start
             /\ cutE(r) = IF End(r) < end THEN End(r) ELSE end
  <2>1. r.start \in Nat /\ End(r) \in Nat
    BY <1>4
  <2>2. Max({r.start, start}) = IF r.start < start THEN start ELSE r.start
    BY <2>1, TwoNats
  <2>3. Min({End(r), end}) = IF End(r) < end THEN End(r) ELSE end
    BY <1>5, <2>1, TwoNats
  <2> QED
    BY <2>2, <2>3
<1> HIDE DEF hits, H, cutS, cutE
<1>7. left = {LeftOf(r, start) : r \in {h \in H : h.start < start}}
  <2>1. \A h \in H : h.start < cutS(h) <=> h.start < start
    BY <1>4, <1>5, <1>6
  <2>2. \A h \in H : h.start < start => 
              Rmap(h.start, cutS(h) - h.start, h.owner, h.off, h.fork) = LeftOf(h, start)
    BY <1>6 DEF LeftOf
  <2>3. {h \in hits : h.start < cutS(h)} = {h \in H : h.start < start}
    BY <1>2, <2>1
  <2> QED
    BY <2>2, <2>3
<1>8. right = {RightOf(r, end) : r \in {h \in H : end < End(h)}}
  <2>1. \A h \in H : cutE(h) < End(h) <=> end < End(h)
    BY <1>4, <1>5, <1>6
  <2>2. ASSUME NEW h \in H, end < End(h)
        PROVE  Rmap(cutE(h), End(h) - cutE(h), h.owner,
                    IF HasOffset(h) THEN h.off + (cutE(h) - h.start) ELSE h.off, h.fork)
                 = RightOf(h, end)
    <3>1. cutE(h) = end
      BY <1>4, <1>5, <1>6, <2>2
    <3> QED
      BY <3>1 DEF RightOf
  <2>3. {h \in hits : cutE(h) < End(h)} = {h \in H : end < End(h)}
    BY <1>2, <2>1
  <2> QED
    BY <2>2, <2>3
<1>9. cut = Pairs(rm, start, len)
  <2>1. \A b : b \in Run(start, len) <=> b \in Nat /\ start <= b /\ b < end
    BY DEF Run
  <2>2. ASSUME NEW r \in H, NEW b
        PROVE  b \in (cutS(r) .. (cutE(r) - 1)) <=> b \in Run(r.start, r.len) /\ b \in Run(start, len)
    <3>1. cutS(r) \in Nat /\ cutE(r) \in Nat
      BY <1>4, <1>5, <1>6
    <3>2. b \in (cutS(r) .. (cutE(r) - 1)) <=> b \in Nat /\ cutS(r) <= b /\ b < cutE(r)
      BY <3>1
    <3> QED
      BY <1>4, <1>5, <1>6, <2>1, <3>2
  <2>3. \A r : r \in H <=> r \in rm /\ \E b : b \in Run(r.start, r.len) /\ b \in Run(start, len)
    BY DEF H, Hits
  <2>4. \A p : p \in cut <=> \E r \in H : \E b : b \in (cutS(r) .. (cutE(r) - 1)) /\ p = <<r, b>>
    BY <1>2
  <2>5. \A p : p \in Pairs(rm, start, len)
                <=> \E r \in rm : \E b \in Run(start, len) : b \in Run(r.start, r.len) /\ p = <<r, b>>
    BY DEF Pairs
  <2> QED
    BY <2>2, <2>3, <2>4, <2>5
<1> QED
  BY <1>1, <1>2, <1>7, <1>8, <1>9 DEF H

(* Each record it leaves is of blocks of one that was there, outside the   *)
(* run, and says of them what that one said.                               *)
Kept(rm, start, len) == rm \ Hits(rm, start, len)
Lefts(rm, start, len) ==
    {LeftOf(r, start) : r \in {h \in Hits(rm, start, len) : h.start < start}}
Rights(rm, start, len) ==
    {RightOf(r, start + len) : r \in {h \in Hits(rm, start, len) : start + len < End(h)}}

(* A record it leaves alone.                                               *)
LEMMA KeptPiece ==
    ASSUME NEW rm, NEW n \in Nat, WellKept(rm, n), NEW start \in Nat, NEW len \in Nat \ {0},
           NEW q \in Kept(rm, start, len)
    PROVE  /\ q \in rm /\ RecordOK(q, n)
           /\ \A b \in Run(q.start, q.len) : b \notin Run(start, len)
BY DEF Kept, Hits, WellKept

(* What is left of one before the run.                                     *)
LEMMA LeftPiece ==
    ASSUME NEW rm, NEW n \in Nat, WellKept(rm, n), NEW start \in Nat, NEW len \in Nat \ {0},
           NEW q \in Lefts(rm, start, len)
    PROVE  /\ RecordOK(q, n)
           /\ \E r \in Hits(rm, start, len) :
                /\ q = LeftOf(r, start)
                /\ \A b \in Run(q.start, q.len) : /\ b \in Run(r.start, r.len) /\ b \in Nat /\ b < start
                                                 /\ PlaceOf(q, b) = PlaceOf(r, b)
<1>1. PICK r \in Hits(rm, start, len) : q = LeftOf(r, start) /\ r.start < start
  BY DEF Lefts
<1>2. RecordOK(r, n) /\ Run(r.start, r.len) \cap Run(start, len) # {}
  BY DEF Hits, WellKept
<1>3. /\ RecordOK(q, n)
      /\ \A b : b \in Run(q.start, q.len) <=> b \in Run(r.start, r.len) /\ b < start
      /\ \A x : PlaceOf(q, x) = PlaceOf(r, x)
  BY <1>1, <1>2, CutRecord
<1>4. \A b \in Run(r.start, r.len) : b \in Nat
  BY <1>2, RecordFields
<1> QED
  BY <1>1, <1>3, <1>4

(* And after it.                                                           *)
LEMMA RightPiece ==
    ASSUME NEW rm, NEW n \in Nat, WellKept(rm, n), NEW start \in Nat, NEW len \in Nat \ {0},
           NEW q \in Rights(rm, start, len)
    PROVE  /\ RecordOK(q, n)
           /\ \E r \in Hits(rm, start, len) :
                /\ q = RightOf(r, start + len)
                /\ \A b \in Run(q.start, q.len) : /\ b \in Run(r.start, r.len) /\ b \in Nat
                                                 /\ start + len <= b
                                                 /\ PlaceOf(q, b) = PlaceOf(r, b)
<1>1. PICK r \in Hits(rm, start, len) : q = RightOf(r, start + len) /\ start + len < End(r)
  BY DEF Rights
<1>2. RecordOK(r, n) /\ Run(r.start, r.len) \cap Run(start, len) # {}
  BY DEF Hits, WellKept
<1>3. /\ RecordOK(q, n)
      /\ \A b : b \in Run(q.start, q.len) <=> b \in Run(r.start, r.len) /\ start + len <= b
      /\ \A x \in Int : PlaceOf(q, x) = PlaceOf(r, x)
  <2>1. PICK end : end = start + len
    OBVIOUS
  <2>2. q = RightOf(r, end) /\ end < End(r)
    BY <1>1, <2>1
  <2>3. /\ RecordOK(q, n)
        /\ \A b : b \in Run(q.start, q.len) <=> b \in Run(r.start, r.len) /\ end <= b
        /\ \A x \in Int : PlaceOf(q, x) = PlaceOf(r, x)
    BY <1>2, <2>1, <2>2, CutRecord
  <2> QED
    BY <2>1, <2>3
<1>4. \A b \in Run(r.start, r.len) : b \in Nat
  BY <1>2, RecordFields
<1> QED
  BY <1>1, <1>3, <1>4

(* The run is counted once: each of its blocks is in one record.           *)
LEMMA RemoveCounts ==
    ASSUME NEW rm, ExtentsApart(rm), NEW start \in Nat, NEW len \in Nat,
           \A b \in Run(start, len) : \E r \in rm : b \in Run(r.start, r.len)
    PROVE  Cardinality(Pairs(rm, start, len)) = len
<1> DEFINE B == Run(start, len)
           P == Pairs(rm, start, len)
           rec(b) == CHOOSE r \in rm : b \in Run(r.start, r.len)
           f == [b \in B |-> <<rec(b), b>>]
<1>1. \A b \in B : rec(b) \in rm /\ b \in Run(rec(b).start, rec(b).len)
  OBVIOUS
<1> HIDE DEF rec
<1>2. \A b \in B : f[b] = <<rec(b), b>> /\ f[b] \in P
  BY <1>1 DEF Pairs
<1>3. \A p \in P : \E b \in B : f[b] = p
  <2>1. SUFFICES ASSUME NEW p \in P
                 PROVE  \E b \in B : f[b] = p
    OBVIOUS
  <2>2. PICK r \in rm, b \in B : p = <<r, b>>
    BY DEF Pairs
  <2>3. b \in Run(r.start, r.len)
    BY <2>2 DEF Pairs
  <2>4. rec(b) = r
    BY <1>1, <2>3, OneRecord
  <2> QED
    BY <2>2, <2>4
<1>4. \A b, c \in B : f[b] = f[c] => b = c
  BY <1>2
<1>5. f \in Bijection(B, P)
  BY <1>2, <1>3, <1>4 DEF Bijection, Injection, Surjection, IsInjective
<1>6. IsFiniteSet(B) /\ Cardinality(B) = len
  BY RunSize
<1>7. ExistsBijection(B, P)
  BY <1>5 DEF ExistsBijection
<1> QED
  BY <1>6, <1>7, FS_Bijection

(* `rmap_remove`, of a run that is the owner's: it counts the whole run,   *)
(* and leaves records the kernel would keep that say of the other blocks   *)
(* what was said before, and of these nothing.  The caller compares the    *)
(* count with the run to find its books corrupt.                           *)
THEOREM RemoveTakesOut ==
    ASSUME NEW rm, NEW n \in Nat, WellKept(rm, n), NEW start \in Nat, NEW len \in Nat \ {0},
           NEW owner,
           \A b \in Run(start, len) : \E r \in rm : b \in Run(r.start, r.len) /\ r.owner = owner
    PROVE  LET res == rmap_remove(rm, start, len, owner)
           IN  /\ res.removed = len
               /\ WellKept(res.rmap, n)
               /\ Places(res.rmap) = {p \in Places(rm) : p[1] \notin Run(start, len)}
<1> DEFINE res == rmap_remove(rm, start, len, owner)
<1>1. PICK end : end = start + len
  OBVIOUS
<1>2. PICK H : H = Hits(rm, start, len)
  OBVIOUS
<1>3. PICK kept : kept = Kept(rm, start, len)
  OBVIOUS
<1>4. PICK left : left = Lefts(rm, start, len)
  OBVIOUS
<1>5. PICK right : right = Rights(rm, start, len)
  OBVIOUS
<1>6. res.removed = Cardinality(Pairs(rm, start, len)) /\ res.rmap = kept \cup left \cup right
  BY <1>3, <1>4, <1>5, RemovePieces DEF Kept, Lefts, Rights
<1>7. res.removed = len
  <2>1. \A b \in Run(start, len) : \E r \in rm : b \in Run(r.start, r.len)
    OBVIOUS
  <2> QED
    BY <1>6, <2>1, RemoveCounts DEF WellKept
<1> HIDE DEF res
<1>8. ExtentsApart(rm) /\ H \subseteq rm /\ kept = rm \ H
  BY <1>2, <1>3 DEF WellKept, Hits, Kept
<1>9. \A q \in kept : /\ q \in rm /\ RecordOK(q, n)
                      /\ \A b \in Run(q.start, q.len) : b \notin Run(start, len)
  BY <1>3, KeptPiece
<1>10. \A q \in left : /\ RecordOK(q, n)
                       /\ \E r \in H : /\ q = LeftOf(r, start)
                             /\ \A b \in Run(q.start, q.len) :
                                  /\ b \in Run(r.start, r.len) /\ b \in Nat /\ b < start
                                  /\ PlaceOf(q, b) = PlaceOf(r, b)
  BY <1>2, <1>4, LeftPiece
<1>11. \A q \in right : /\ RecordOK(q, n)
                        /\ \E r \in H : /\ q = RightOf(r, end)
                             /\ \A b \in Run(q.start, q.len) :
                                  /\ b \in Run(r.start, r.len) /\ b \in Nat /\ end <= b
                                  /\ PlaceOf(q, b) = PlaceOf(r, b)
  BY <1>1, <1>2, <1>5, RightPiece
<1>12. \A b : b \in Run(start, len) <=> b \in Nat /\ start <= b /\ b < end
  BY <1>1 DEF Run
<1>13. ExtentsApart(res.rmap)
  <2>1. SUFFICES ASSUME NEW q \in kept \cup left \cup right, NEW u \in kept \cup left \cup right,
                        NEW b, b \in Run(q.start, q.len), b \in Run(u.start, u.len)
                 PROVE  q = u
    BY <1>6 DEF ExtentsApart
  <2>2. q \in kept => u \in kept
    <3>1. SUFFICES ASSUME q \in kept, u \notin kept
                   PROVE  FALSE
      OBVIOUS
    <3>2. PICK r \in H : b \in Run(r.start, r.len)
      BY <1>10, <1>11, <2>1, <3>1
    <3> QED
      BY <1>8, <1>9, <2>1, <3>1, <3>2, OneRecord
  <2>3. u \in kept => q \in kept
    <3>1. SUFFICES ASSUME u \in kept, q \notin kept
                   PROVE  FALSE
      OBVIOUS
    <3>2. PICK r \in H : b \in Run(r.start, r.len)
      BY <1>10, <1>11, <2>1, <3>1
    <3> QED
      BY <1>8, <1>9, <2>1, <3>1, <3>2, OneRecord
  <2>4. CASE q \in kept /\ u \in kept
    BY <1>8, <2>1, <2>4, OneRecord
  <2>5. CASE q \in left /\ u \in left
    <3>1. PICK r \in H : q = LeftOf(r, start) /\ b \in Run(r.start, r.len)
      BY <1>10, <2>1, <2>5
    <3>2. PICK x \in H : u = LeftOf(x, start) /\ b \in Run(x.start, x.len)
      BY <1>10, <2>1, <2>5
    <3> QED
      BY <1>8, <3>1, <3>2, OneRecord
  <2>6. CASE q \in right /\ u \in right
    <3>1. PICK r \in H : q = RightOf(r, end) /\ b \in Run(r.start, r.len)
      BY <1>11, <2>1, <2>6
    <3>2. PICK x \in H : u = RightOf(x, end) /\ b \in Run(x.start, x.len)
      BY <1>11, <2>1, <2>6
    <3> QED
      BY <1>8, <3>1, <3>2, OneRecord
  <2>7. ~ (q \in left /\ u \in right) /\ ~ (q \in right /\ u \in left)
    <3>1. ASSUME NEW x \in left, NEW y \in right, b \in Run(x.start, x.len), b \in Run(y.start, y.len)
          PROVE  FALSE
      <4>1. b \in Nat /\ b < start /\ end <= b
        BY <1>10, <1>11, <3>1
      <4> QED
        BY <1>1, <4>1
    <3> QED
      BY <2>1, <3>1
  <2> QED
    BY <2>1, <2>2, <2>3, <2>4, <2>5, <2>6, <2>7
<1>14. WellKept(res.rmap, n)
  BY <1>6, <1>9, <1>10, <1>11, <1>13 DEF WellKept
<1>15. ASSUME NEW p \in Places(res.rmap)
       PROVE  p \in Places(rm) /\ p[1] \notin Run(start, len)
  <2>1. PICK q \in kept \cup left \cup right : \E b \in Run(q.start, q.len) : p = PlaceOf(q, b)
    BY <1>6, PlaceSaid
  <2>2. PICK b \in Run(q.start, q.len) : p = PlaceOf(q, b)
    BY <2>1
  <2>3. p[1] = b
    BY <2>2 DEF PlaceOf
  <2>4. CASE q \in kept
    BY <1>9, <2>2, <2>3, <2>4, PlaceSaid
  <2>5. CASE q \in left
    <3>1. PICK r \in H : b \in Run(r.start, r.len) /\ b \in Nat /\ b < start /\ p = PlaceOf(r, b)
      BY <1>10, <2>2, <2>5
    <3>2. b \notin Run(start, len)
      BY <1>12, <3>1
    <3> QED
      BY <1>8, <2>3, <3>1, <3>2, PlaceSaid
  <2>6. CASE q \in right
    <3>1. PICK r \in H : b \in Run(r.start, r.len) /\ b \in Nat /\ end <= b /\ p = PlaceOf(r, b)
      BY <1>11, <2>2, <2>6
    <3>2. b \notin Run(start, len)
      BY <1>1, <1>12, <3>1
    <3> QED
      BY <1>8, <2>3, <3>1, <3>2, PlaceSaid
  <2> QED
    BY <2>1, <2>4, <2>5, <2>6
<1>16. ASSUME NEW p \in Places(rm), p[1] \notin Run(start, len)
       PROVE  p \in Places(res.rmap)
  <2>1. PICK r \in rm : \E b \in Run(r.start, r.len) : p = PlaceOf(r, b)
    BY PlaceSaid
  <2>2. PICK b \in Run(r.start, r.len) : p = PlaceOf(r, b)
    BY <2>1
  <2>3. p[1] = b
    BY <2>2 DEF PlaceOf
  <2>4. CASE r \notin H
    BY <1>6, <1>8, <2>2, <2>4, PlaceSaid
  <2>5. CASE r \in H
    <3>1. RecordOK(r, n) /\ Run(r.start, r.len) \cap Run(start, len) # {}
      BY <1>2, <2>5 DEF Hits, WellKept
    <3>2. /\ r.start \in Nat /\ End(r) \in Nat /\ b \in Nat /\ r.start <= b /\ b < End(r)
          /\ start \in Nat /\ end \in Nat
      BY <1>1, <3>1, RecordFields
    <3>3. b < start \/ end <= b
      BY <1>12, <1>16, <2>3, <3>2
    <3>4. CASE b < start
      <4>1. r.start < start
        BY <3>2, <3>4
      <4>2. LeftOf(r, start) \in left
        BY <1>2, <1>4, <2>5, <4>1 DEF Lefts
      <4>3. /\ b \in Run(LeftOf(r, start).start, LeftOf(r, start).len)
            /\ PlaceOf(LeftOf(r, start), b) = PlaceOf(r, b)
        BY <1>1, <3>1, <3>4, <4>1, CutRecord
      <4> QED
        BY <1>6, <2>2, <4>2, <4>3, PlaceSaid
    <3>5. CASE end <= b
      <4>1. end < End(r)
        BY <3>2, <3>5
      <4>2. RightOf(r, end) \in right
        BY <1>1, <1>2, <1>5, <2>5, <4>1 DEF Rights
      <4>3. /\ b \in Run(RightOf(r, end).start, RightOf(r, end).len)
            /\ PlaceOf(RightOf(r, end), b) = PlaceOf(r, b)
        <5>1. b \in Int
          BY <3>2
        <5>2. /\ b \in Run(RightOf(r, end).start, RightOf(r, end).len)
                   <=> b \in Run(r.start, r.len) /\ end <= b
              /\ \A x \in Int : PlaceOf(RightOf(r, end), x) = PlaceOf(r, x)
          BY <1>1, <3>1, <4>1, CutRecord
        <5> QED
          BY <3>5, <5>1, <5>2
      <4> QED
        BY <1>6, <2>2, <4>2, <4>3, PlaceSaid
    <3> QED
      BY <3>3, <3>4, <3>5
  <2> QED
    BY <2>4, <2>5
<1> QED
  BY <1>7, <1>14, <1>15, <1>16 DEF res

-----------------------------------------------------------------------------
(* Records put together.                                                   *)

(* Of a block, well-kept records say one thing.                            *)
LEMMA PlaceOnce ==
    ASSUME NEW rm, ExtentsApart(rm), NEW p \in Places(rm), NEW q \in Places(rm), p[1] = q[1]
    PROVE  p = q
<1>1. PICK r, b : r \in rm /\ b \in Run(r.start, r.len) /\ p = PlaceOf(r, b)
  BY PlaceSaid
<1>2. PICK x, c : x \in rm /\ c \in Run(x.start, x.len) /\ q = PlaceOf(x, c)
  BY PlaceSaid
<1>3. b = p[1] /\ c = q[1]
  BY <1>1, <1>2 DEF PlaceOf
<1>4. r = x
  BY <1>1, <1>2, <1>3, OneRecord
<1> QED
  BY <1>1, <1>2, <1>3, <1>4

(* Two sets of records say what each of them does ...                      *)
LEMMA PlacesUnion ==
    ASSUME NEW A, NEW B
    PROVE  Places(A \cup B) = Places(A) \cup Places(B)
BY DEF Places

(* ... and are well kept together when they say nothing of the same block. *)
LEMMA KeptUnion ==
    ASSUME NEW A, NEW B, NEW n \in Nat, WellKept(A, n), WellKept(B, n),
           \A p \in Places(A), q \in Places(B) : p[1] # q[1]
    PROVE  WellKept(A \cup B, n)
<1>1. ASSUME NEW r \in A, NEW q \in B
      PROVE  Run(r.start, r.len) \cap Run(q.start, q.len) = {}
  <2>1. SUFFICES ASSUME NEW b, b \in Run(r.start, r.len), b \in Run(q.start, q.len)
                 PROVE  FALSE
    OBVIOUS
  <2>2. PlaceOf(r, b) \in Places(A) /\ PlaceOf(q, b) \in Places(B)
    BY <2>1, PlaceSaid
  <2>3. PlaceOf(r, b)[1] = b /\ PlaceOf(q, b)[1] = b
    BY DEF PlaceOf
  <2> QED
    BY <2>2, <2>3
<1> QED
  BY <1>1 DEF WellKept, ExtentsApart

(* The records of some owners say what all say of those owners.            *)
LEMMA PlacesOf ==
    ASSUME NEW rm, NEW S
    PROVE  Places({r \in rm : r.owner \in S}) = {p \in Places(rm) : p[2] \in S}
<1>1. \A r, b : PlaceOf(r, b)[2] = r.owner
  BY DEF PlaceOf
<1>2. ASSUME NEW p
      PROVE  p \in Places({r \in rm : r.owner \in S}) <=> p \in Places(rm) /\ p[2] \in S
  BY <1>1, PlaceSaid
<1> QED
  BY <1>2

(* Well-kept records are, whichever are left out.                          *)
LEMMA KeptSubset ==
    ASSUME NEW rm, NEW A \in SUBSET rm, NEW n, WellKept(rm, n)
    PROVE  WellKept(A, n)
BY DEF WellKept, ExtentsApart

(* A record of an owner that is not an inode.                              *)
LEMMA SystemRecord ==
    ASSUME NEW s \in Nat, NEW l \in Nat \ {0}, NEW n \in Nat, s + l <= n,
           NEW owner \in SpecialOwners, NEW r, r = Rmap(s, l, owner, 0, "bmbt")
    PROVE  /\ RecordOK(r, n) /\ r.start = s /\ r.len = l /\ r.owner = owner
           /\ \A b : PlaceOf(r, b) = <<b, owner, "bmbt", 0>>
<1>1. r.start = s /\ r.len = l /\ r.owner = owner /\ r.off = 0 /\ r.fork = "bmbt"
  BY DEF Rmap
<1>2. ~ inode_owned(r) /\ ~ HasOffset(r)
  BY <1>1 DEF inode_owned, HasOffset
<1>3. End(r) = s + l
  BY <1>1 DEF End
<1>4. RecordOK(r, n)
  BY <1>1, <1>2, <1>3 DEF RecordOK
<1>5. \A b : PlaceOf(r, b) = <<b, owner, "bmbt", 0>>
  BY <1>1, <1>2 DEF PlaceOf
<1> QED
  BY <1>1, <1>4, <1>5

-----------------------------------------------------------------------------
(* The inductive invariant.  A rebuild takes out the mappings of the old   *)
(* trees and puts in those of the new ones, and one that fails stops in    *)
(* between; the others are exact all along.  So the two are told apart.    *)

TreeOwners == {AG, INOBT}
TreePlaces(rm) == {p \in Places(rm) : p[2] \in TreeOwners}
OtherPlaces(rm) == {p \in Places(rm) : p[2] \notin TreeOwners}
OwnedPlaces(es, cs) ==
    Places(es) \cup SystemPlaces(Headers, FS) \cup SystemPlaces(ChunkBlocksOf(cs), INODES)
RunsApart(runs) == \A r, x \in runs : r # x => Run(r[1], r[2]) \cap Run(x[1], x[2]) = {}

(* Files, chunks and headers are mapped exactly.                           *)
Mapped(rm) == WellKept(rm, AgLen) /\ OtherPlaces(rm) = OwnedPlaces(forks, chunks)

(* A mapping of a tree's block, also of one a failed rebuild has lost, is  *)
(* never of a block that may still get another owner.                      *)
TreesOut == rb.pc # "free" => \A p \in TreePlaces(rmap) : p[1] \notin InHand

(* Between calls, the trees are mapped exactly, until a rebuild fails.     *)
TreesMapped ==
    rb.pc = "idle" /\ ~ failed =>
        TreePlaces(rmap) = SystemPlaces(Agfl \cup (old_tree_blocks \ InoTrees(disk)), AG)
                             \cup SystemPlaces(InoTrees(disk), INOBT)

(* What a turn of the loop starts from maps no tree.                       *)
BaseMapped ==
    rb.pc \in {"try", "ino", "ag"} =>
        /\ Mapped(rb.base.rmap)
        /\ TreePlaces(rb.base.rmap) = SystemPlaces(Agfl, AG)
        /\ rb.pc # "try" => rmap = rb.base.rmap

(* A group that is not dirty has its mappings on disk, merged.             *)
CleanMaps == rb.pc = "idle" /\ ~ dirty => disk.rmap = merged_rmap(rmap)

RmapPart == Mapped(rmap) /\ TreesOut /\ TreesMapped /\ BaseMapped /\ CleanMaps
RmapInv ==
    /\ HasRmap => RmapPart
    /\ RunsApart(rb.ag_run) /\ RunsApart(rb.ino_run)
    /\ ~ LoadRefuses(disk) /\ ~ err

-----------------------------------------------------------------------------
(* Places and blocks.                                                      *)

(* The mappings of a set of an owner's blocks.                             *)
LEMMA SystemPlace ==
    ASSUME NEW B, NEW o
    PROVE  /\ \A p \in SystemPlaces(B, o) : p[1] \in B /\ p[2] = o
           /\ \A b \in B : <<b, o, "bmbt", 0>> \in SystemPlaces(B, o)
           /\ \A A : SystemPlaces(A \cup B, o) = SystemPlaces(A, o) \cup SystemPlaces(B, o)
BY DEF SystemPlaces

(* The mappings of files' extents are of their blocks.                     *)
LEMMA MappedPlace ==
    ASSUME NEW es
    PROVE  /\ \A p \in Places(es) : \E e \in es : p[1] \in Run(e.start, e.len) /\ p[2] = e.owner
           /\ \A p \in Places(es) : p[1] \in MappedBlocks(es)
<1>1. ASSUME NEW p \in Places(es)
      PROVE  \E e \in es : p[1] \in Run(e.start, e.len) /\ p[2] = e.owner
  <2>1. PICK e, b : e \in es /\ b \in Run(e.start, e.len) /\ p = PlaceOf(e, b)
    BY PlaceSaid
  <2>2. p[1] = b /\ p[2] = e.owner
    BY <2>1 DEF PlaceOf
  <2> QED
    BY <2>1, <2>2
<1> QED
  BY <1>1 DEF MappedBlocks

(* What is owned is not a tree's, and is of a file, a header or a chunk.   *)
LEMMA OwnedPlace ==
    ASSUME NEW es, \A e \in es : e.owner \in Inodes, NEW cs
    PROVE  \A p \in OwnedPlaces(es, cs) :
              /\ p[2] \notin TreeOwners
              /\ p[1] \in MappedBlocks(es) \/ p[1] \in Headers \/ p[1] \in ChunkBlocksOf(cs)
<1>1. SUFFICES ASSUME NEW p \in OwnedPlaces(es, cs)
               PROVE  /\ p[2] \notin TreeOwners
                      /\ p[1] \in MappedBlocks(es) \/ p[1] \in Headers \/ p[1] \in ChunkBlocksOf(cs)
  OBVIOUS
<1>2. CASE p \in Places(es)
  <2>1. p[1] \in MappedBlocks(es) /\ p[2] \in Inodes
    BY <1>2, MappedPlace
  <2> QED
    BY <2>1, SizesAssumption DEF TreeOwners, SpecialOwners
<1>3. CASE p \in SystemPlaces(Headers, FS)
  <2>1. p[1] \in Headers /\ p[2] = FS
    BY <1>3, SystemPlace
  <2> QED
    BY <2>1 DEF TreeOwners, FS, AG, INOBT
<1>4. CASE p \in SystemPlaces(ChunkBlocksOf(cs), INODES)
  <2>1. p[1] \in ChunkBlocksOf(cs) /\ p[2] = INODES
    BY <1>4, SystemPlace
  <2> QED
    BY <2>1 DEF TreeOwners, INODES, AG, INOBT
<1> QED
  BY <1>1, <1>2, <1>3, <1>4 DEF OwnedPlaces

(* The caller's extents have inodes for owners.                            *)
LEMMA ForkOwners ==
    ASSUME CallerPart
    PROVE  \A e \in forks : e.owner \in Inodes /\ RecordOK(e, AgLen) /\ inode_owned(e)
<1>1. SUFFICES ASSUME NEW e \in forks
               PROVE  e.owner \in Inodes /\ RecordOK(e, AgLen) /\ inode_owned(e)
  OBVIOUS
<1>2. MapOK(e)
  BY DEF CallerPart
<1>3. /\ e \in Maps /\ e.start + e.len <= AgLen
  BY <1>2 DEF MapOK
<1>4. /\ e.start \in Nat /\ e.len \in Nat \ {0} /\ e.off \in Nat /\ e.owner \in Inodes
      /\ e = [start |-> e.start, len |-> e.len, owner |-> e.owner, off |-> e.off, fork |-> e.fork]
  BY <1>3 DEF Maps
<1>5. inode_owned(e)
  BY <1>4, SizesAssumption DEF inode_owned
<1> QED
  BY <1>3, <1>4, <1>5 DEF RecordOK, End, Rmap

(* What is mapped, with what is owned, keeps out of everything else.       *)
LEMMA MappedApart ==
    ASSUME Parts, PoolInv, NEW rm, Mapped(rm)
    PROVE  \A p \in OtherPlaces(rm) : /\ p[1] \notin InHand /\ p[1] \notin Agfl
                                      /\ p[1] \notin old_tree_blocks /\ p[1] \notin CarvedBlocks
<1>1. \A e \in forks : e.owner \in Inodes
  BY ForkOwners DEF Parts
<1>2. SUFFICES ASSUME NEW b, b \in MappedBlocks(forks) \/ b \in Headers \/ b \in ChunkBlocksOf(chunks)
               PROVE  b \notin InHand /\ b \notin Agfl /\ b \notin old_tree_blocks /\ b \notin CarvedBlocks
  BY <1>1, OwnedPlace DEF Mapped
<1>3. Apart(Pieces)
  BY DEF PoolInv, NoSharing
<1> QED
  BY <1>2, <1>3, PiecesFields DEF Apart, InHand

(* All places are a tree's or another's.                                   *)
LEMMA AllPlaces ==
    ASSUME NEW rm
    PROVE  /\ Places(rm) = OtherPlaces(rm) \cup TreePlaces(rm)
           /\ TreePlaces(rm) \subseteq Places(rm) /\ OtherPlaces(rm) \subseteq Places(rm)
BY DEF OtherPlaces, TreePlaces

-----------------------------------------------------------------------------
(* One lemma per call.                                                     *)

(* A call that leaves the mappings and what is owned alone, and gives no   *)
(* block of a tree to anyone.                                              *)
LEMMA StayRmap ==
    ASSUME RmapInv, rb.pc = "idle", dirty' = TRUE, InHand' = InHand,
           ChunkBlocksOf(chunks') = ChunkBlocksOf(chunks),
           UNCHANGED <<old_tree_blocks, rmap, rb, forks, disk, failed, err>>
    PROVE  RmapInv'
<1>1. ASSUME HasRmap, RmapPart
      PROVE  RmapPart'
  <2>1. Mapped(rmap)'
    BY <1>1 DEF RmapPart, Mapped, OwnedPlaces
  <2>2. TreesOut' /\ TreesMapped' /\ BaseMapped' /\ CleanMaps'
    BY <1>1 DEF RmapPart, TreesOut, TreesMapped, BaseMapped, CleanMaps
  <2> QED
    BY <2>1, <2>2 DEF RmapPart
<1> QED
  BY <1>1 DEF RmapInv

(* `alloc` ...                                                             *)
LEMMA AllocRmap ==
    ASSUME Parts, PoolInv, RmapInv, NEW want \in Wants, NEW near \in Nears, Alloc(want, near)
    PROVE  RmapInv'
<1>1. InHand' = InHand
  BY AllocPool
<1>2. /\ Call /\ dirty' = TRUE
      /\ UNCHANGED <<reserve, old_tree_blocks, chunks, rmap, rb, forks, disk, failed, err>>
  BY DEF Alloc, TakeRun
<1> QED
  BY <1>1, <1>2, StayRmap DEF Call

(* ... `alloc_block_except` ...                                            *)
LEMMA AllocBlockExceptRmap ==
    ASSUME Parts, PoolInv, RmapInv, NEW not \in Nears, AllocBlockExcept(not)
    PROVE  RmapInv'
<1>1. InHand' = InHand
  BY AllocBlockExceptPool
<1>2. /\ Call /\ dirty' = TRUE
      /\ UNCHANGED <<reserve, old_tree_blocks, chunks, rmap, rb, forks, disk, failed, err>>
  BY DEF AllocBlockExcept, TakeRun
<1> QED
  BY <1>1, <1>2, StayRmap DEF Call

(* ... the way back ...                                                    *)
LEMMA UntakeRmap ==
    ASSUME Parts, PoolInv, RmapInv, NEW run \in taken, Untake(run)
    PROVE  RmapInv'
<1>1. InHand' = InHand /\ err' = err /\ dirty' = TRUE
  BY UntakePool
<1>2. Call /\ UNCHANGED <<reserve, old_tree_blocks, chunks, rmap, rb, forks, disk, failed>>
  BY DEF Untake
<1> QED
  BY <1>1, <1>2, StayRmap DEF Call

(* ... and marking inodes are such calls.                                  *)
LEMMA InodeRmap ==
    ASSUME Parts, PoolInv, RmapInv, NEW s, NEW S, chunks' = [chunks EXCEPT ![s].free = S],
           dirty' = TRUE, Call,
           UNCHANGED <<free, free_total, reserve, old_tree_blocks, rmap, rb, callerVars, disk, failed, err>>
    PROVE  RmapInv'
<1>1. ChunkBlocksOf(chunks') = ChunkBlocksOf(chunks)
  BY InodeMarked
<1>2. InHand' = InHand
  BY DEF InHand, callerVars
<1> QED
  BY <1>1, <1>2, StayRmap DEF Call, callerVars

(* `alloc_inode` marks one ...                                             *)
LEMMA AllocInodeRmap ==
    ASSUME Parts, PoolInv, RmapInv, AllocInode
    PROVE  RmapInv'
<1>1. PICK s : s = Min(ChunksWithFree(chunks))
  OBVIOUS
<1>2. PICK S : S = chunks[s].free \ {Min(FreeInodes(chunks[s]))}
  OBVIOUS
<1>3. /\ chunks' = [chunks EXCEPT ![s].free = S] /\ Call /\ dirty' = TRUE
      /\ UNCHANGED <<free, free_total, reserve, old_tree_blocks, rmap, rb, callerVars, disk, failed, err>>
  BY <1>1, <1>2 DEF AllocInode
<1> QED
  BY <1>3, InodeRmap

(* ... and `free_inode`.                                                   *)
LEMMA FreeInodeRmap ==
    ASSUME Parts, PoolInv, RmapInv, NEW agino, FreeInode(agino)
    PROVE  RmapInv'
<1>1. PICK s : s = AtOrBefore(chunks, agino)
  OBVIOUS
<1>2. PICK S : S = chunks[s].free \cup {agino - s}
  OBVIOUS
<1>3. /\ chunks' = [chunks EXCEPT ![s].free = S] /\ Call /\ dirty' = TRUE
      /\ UNCHANGED <<free, free_total, reserve, old_tree_blocks, rmap, rb, callerVars, disk, failed, err>>
  BY <1>1, <1>2 DEF FreeInode
<1> QED
  BY <1>3, InodeRmap

(* A mapping put in for a run that was in hand: the call of an inode's     *)
(* extent or of a chunk.                                                   *)
LEMMA AddedRmap ==
    ASSUME Parts, PoolInv, RmapInv, rb.pc = "idle", HasRmap => dirty' = TRUE,
           NEW r, RecordOK(r, AgLen), r.owner \notin TreeOwners,
           Run(r.start, r.len) \subseteq InHand, InHand' \subseteq InHand,
           rmap' = rmap_add({r}),
           OwnedPlaces(forks', chunks') = OwnedPlaces(forks, chunks) \cup Places({r}),
           UNCHANGED <<old_tree_blocks, rb, disk, failed, err>>
    PROVE  RmapInv'
<1>1. ASSUME HasRmap, RmapPart
      PROVE  RmapPart'
  <2>1. rmap' = rmap \cup {r} /\ dirty' = TRUE
    BY <1>1 DEF rmap_add
  <2>2. WellKept(rmap, AgLen) /\ AgLen \in Nat
    BY <1>1, SizesAssumption DEF RmapPart, Mapped
  <2>3. WellKept({r}, AgLen)
    BY DEF WellKept, ExtentsApart
  <2>4. \A p \in Places(rmap) : p[1] \notin InHand
    <3>1. \A p \in OtherPlaces(rmap) : p[1] \notin InHand
      BY <1>1, MappedApart DEF RmapPart
    <3>2. \A p \in TreePlaces(rmap) : p[1] \notin InHand
      BY <1>1 DEF RmapPart, TreesOut
    <3> QED
      BY <3>1, <3>2, AllPlaces
  <2>5. \A p \in Places({r}) : p[1] \in InHand /\ p[2] \notin TreeOwners
    BY MappedPlace
  <2>6. WellKept(rmap', AgLen)
    <3>1. \A p \in Places(rmap), q \in Places({r}) : p[1] # q[1]
      BY <2>4, <2>5
    <3>2. WellKept(rmap \cup {r}, AgLen)
      BY <2>2, <2>3, <3>1, KeptUnion
    <3> QED
      BY <2>1, <3>2
  <2>7. Places(rmap') = Places(rmap) \cup Places({r})
    BY <2>1, PlacesUnion
  <2>8. TreePlaces(rmap') = TreePlaces(rmap) /\ OtherPlaces(rmap') = OtherPlaces(rmap) \cup Places({r})
    BY <2>5, <2>7 DEF TreePlaces, OtherPlaces
  <2>9. Mapped(rmap)'
    BY <1>1, <2>6, <2>8 DEF RmapPart, Mapped
  <2>10. TreesOut'
    BY <1>1, <2>8 DEF RmapPart, TreesOut
  <2>11. TreesMapped' /\ BaseMapped' /\ CleanMaps'
    BY <1>1, <2>1, <2>8 DEF RmapPart, TreesMapped, BaseMapped, CleanMaps
  <2> QED
    BY <2>9, <2>10, <2>11 DEF RmapPart
<1> QED
  BY <1>1 DEF RmapInv

(* `rmap_extent` of a run the caller took.                                 *)
LEMMA MapRunRmap ==
    ASSUME Parts, PoolInv, RmapInv,
           NEW run \in taken, NEW ino \in Inodes, NEW fork \in {"data", "bmbt"}, MapRun(run, ino, fork)
    PROVE  RmapInv'
<1>1. PICK r : r = Rmap(run[1], run[2], ino, IF fork = "data" THEN DataEnd(ino) ELSE 0, fork)
  OBVIOUS
<1>2. /\ taken' = taken \ {run} /\ forks' = forks \cup {r} /\ dirty' = (dirty \/ HasRmap) /\ Call
      /\ rmap' = rmap_add({r})
      /\ UNCHANGED <<free, free_total, reserve, old_tree_blocks, chunks, rb, disk, failed, err>>
  BY <1>1 DEF MapRun
<1>3. r.start = run[1] /\ r.len = run[2] /\ r.owner = ino
  BY <1>1 DEF Rmap
<1>4. CallerPart'
  BY MapRunInv DEF Parts
<1>5. RecordOK(r, AgLen)
  <2>1. \A e \in forks' : MapOK(e)
    BY <1>4 DEF CallerPart
  <2>2. MapOK(r)
    BY <1>2, <2>1
  <2>3. r \in Maps /\ r.start + r.len <= AgLen
    BY <2>2 DEF MapOK
  <2>4. r.start \in Nat /\ r.len \in Nat \ {0} /\ r.off \in Nat
    BY <2>3 DEF Maps
  <2>5. r = Rmap(r.start, r.len, r.owner, r.off, r.fork)
    BY <1>1 DEF Rmap
  <2>6. inode_owned(r)
    BY <1>3, SizesAssumption DEF inode_owned
  <2> QED
    BY <2>3, <2>4, <2>5, <2>6 DEF RecordOK, End
<1>6. r.owner \notin TreeOwners
  BY <1>3, SizesAssumption DEF TreeOwners, SpecialOwners
<1>7. Run(r.start, r.len) \subseteq InHand /\ InHand' \subseteq InHand
  BY <1>2, <1>3 DEF InHand, RunBlocks
<1>8. OwnedPlaces(forks', chunks') = OwnedPlaces(forks, chunks) \cup Places({r})
  BY <1>2, PlacesUnion DEF OwnedPlaces
<1>9. rb.pc = "idle" /\ (HasRmap => dirty' = TRUE)
  BY <1>2 DEF Call
<1> QED
  BY <1>2, <1>5, <1>6, <1>7, <1>8, <1>9, AddedRmap

(* `alloc_chunk`.                                                          *)
LEMMA AllocChunkRmap ==
    ASSUME Parts, PoolInv, RmapInv, AllocChunk
    PROVE  RmapInv'
<1>1. PICK b : ChunkGranted(b)
  BY ChunkIsGranted
<1>2. /\ b \in Nat /\ b + ChunkBlocks <= AgLen /\ Call
      /\ Run(b, ChunkBlocks) \subseteq Covered(free)
      /\ Covered(free') = Covered(free) \ Run(b, ChunkBlocks)
      /\ dirty' = TRUE
      /\ ChunkBlocksOf(chunks') = ChunkBlocksOf(chunks) \cup Run(b, ChunkBlocks)
      /\ rmap' = rmap_add({Rmap(b, ChunkBlocks, INODES, 0, "bmbt")})
      /\ UNCHANGED <<reserve, old_tree_blocks, rb, callerVars, disk, failed, err>>
  BY <1>1 DEF ChunkGranted
<1>3. PICK r : r = Rmap(b, ChunkBlocks, INODES, 0, "bmbt")
  OBVIOUS
<1>4. /\ RecordOK(r, AgLen) /\ r.start = b /\ r.len = ChunkBlocks /\ r.owner = INODES
      /\ \A x : PlaceOf(r, x) = <<x, INODES, "bmbt", 0>>
  <2>1. INODES \in SpecialOwners
    BY DEF SpecialOwners
  <2>2. ChunkBlocks \in Nat \ {0} /\ AgLen \in Nat /\ b \in Nat /\ b + ChunkBlocks <= AgLen
    BY <1>2, SizesAssumption
  <2> QED
    BY <1>3, <2>1, <2>2, SystemRecord
<1>5. r.owner \notin TreeOwners
  BY <1>4 DEF TreeOwners, INODES, AG, INOBT
<1>6. Places({r}) = SystemPlaces(Run(b, ChunkBlocks), INODES)
  BY <1>4 DEF Places, SystemPlaces
<1>7. OwnedPlaces(forks', chunks') = OwnedPlaces(forks, chunks) \cup Places({r})
  <2>1. SystemPlaces(ChunkBlocksOf(chunks'), INODES)
          = SystemPlaces(ChunkBlocksOf(chunks), INODES) \cup Places({r})
    BY <1>2, <1>6, SystemPlace
  <2> QED
    BY <1>2, <2>1 DEF OwnedPlaces, callerVars
<1>8. Run(r.start, r.len) \subseteq InHand /\ InHand' \subseteq InHand
  BY <1>2, <1>4 DEF InHand, callerVars
<1> QED
  BY <1>2, <1>3, <1>4, <1>5, <1>7, <1>8, AddedRmap DEF Call

(* What the mappings say once an extent is taken out of the files.         *)
LEMMA ExtentForgotten ==
    ASSUME NEW es, ExtentsApart(es), NEW e \in es
    PROVE  Places(es \ {e}) = {p \in Places(es) : p[1] \notin Run(e.start, e.len)}
<1>1. ASSUME NEW p \in Places(es \ {e})
      PROVE  p \in Places(es) /\ p[1] \notin Run(e.start, e.len)
  <2>1. PICK x, b : x \in es \ {e} /\ b \in Run(x.start, x.len) /\ p = PlaceOf(x, b)
    BY PlaceSaid
  <2>2. p[1] = b
    BY <2>1 DEF PlaceOf
  <2>3. b \notin Run(e.start, e.len)
    BY <2>1, OneRecord
  <2>4. p \in Places(es)
    BY <2>1, PlaceSaid
  <2> QED
    BY <2>2, <2>3, <2>4
<1>2. ASSUME NEW p \in Places(es), p[1] \notin Run(e.start, e.len)
      PROVE  p \in Places(es \ {e})
  <2>1. PICK x, b : x \in es /\ b \in Run(x.start, x.len) /\ p = PlaceOf(x, b)
    BY PlaceSaid
  <2>2. p[1] = b
    BY <2>1 DEF PlaceOf
  <2>3. x # e
    BY <1>2, <2>1, <2>2
  <2> QED
    BY <2>1, <2>3, PlaceSaid
<1> QED
  BY <1>1, <1>2

(* The mappings of an extent that is given back: they cover all of it, and *)
(* the owner is its own.                                                   *)
LEMMA ExtentCovered ==
    ASSUME Parts, NEW rm, Mapped(rm), NEW e \in forks
    PROVE  \A b \in Run(e.start, e.len) :
              /\ PlaceOf(e, b) \in OtherPlaces(rm)
              /\ \E r \in rm : b \in Run(r.start, r.len) /\ r.owner = e.owner
<1>1. SUFFICES ASSUME NEW b \in Run(e.start, e.len)
               PROVE  /\ PlaceOf(e, b) \in OtherPlaces(rm)
                      /\ \E r \in rm : b \in Run(r.start, r.len) /\ r.owner = e.owner
  OBVIOUS
<1>2. PlaceOf(e, b) \in Places(forks)
  BY PlaceSaid
<1>3. PlaceOf(e, b) \in OtherPlaces(rm)
  BY <1>2 DEF Mapped, OwnedPlaces
<1>4. PlaceOf(e, b) \in Places(rm)
  BY <1>3, AllPlaces
<1>5. PICK r, c : r \in rm /\ c \in Run(r.start, r.len) /\ PlaceOf(e, b) = PlaceOf(r, c)
  BY <1>4, PlaceSaid
<1>6. b = c /\ e.owner = r.owner
  BY <1>5 DEF PlaceOf
<1> QED
  BY <1>3, <1>5, <1>6

(* `release`: the count is right, and just the extent's mappings go.       *)
LEMMA ReleaseRmap ==
    ASSUME Parts, PoolInv, RmapInv, NEW e \in forks, Release(e)
    PROVE  RmapInv'
<1>1. PICK rm : rm = rmap_remove(rmap, e.start, e.len, e.owner)
  OBVIOUS
<1>2. PICK ok : ok = FreeExtent(free, e.start, e.len, AgLen).ok
  OBVIOUS
<1>3. /\ Call /\ forks' = forks \ {e}
      /\ rmap' = IF HasRmap /\ ok THEN rm.rmap ELSE rmap
      /\ err' = (err \/ ~ ok \/ (HasRmap /\ rm.removed # e.len))
      /\ UNCHANGED <<reserve, old_tree_blocks, chunks, rb, taken, disk, failed>>
  BY <1>1, <1>2 DEF Release
<1>4. ok /\ Covered(free') = Covered(free) \cup Run(e.start, e.len) /\ dirty' = TRUE
  BY <1>2, ReleasePool
<1>5. rb.pc = "idle" /\ rb' = rb
  BY <1>3 DEF Call
<1>6. PICK R : R = Run(e.start, e.len)
  OBVIOUS
<1>7. ASSUME HasRmap, RmapPart
      PROVE  RmapPart' /\ rm.removed = e.len
  <2>1. WellKept(rmap, AgLen) /\ Mapped(rmap) /\ AgLen \in Nat
    BY <1>7, SizesAssumption DEF RmapPart, Mapped
  <2>2. e.start \in Nat /\ e.len \in Nat \ {0} /\ inode_owned(e)
    BY ForkOwners DEF Parts, RecordOK
  <2>3. \A b \in R : /\ PlaceOf(e, b) \in OtherPlaces(rmap)
                     /\ \E r \in rmap : b \in Run(r.start, r.len) /\ r.owner = e.owner
    BY <1>6, <2>1, ExtentCovered
  <2>4. /\ rm.removed = e.len /\ WellKept(rm.rmap, AgLen)
        /\ Places(rm.rmap) = {p \in Places(rmap) : p[1] \notin R}
    BY <1>1, <1>6, <2>1, <2>2, <2>3, RemoveTakesOut
  <2>5. rmap' = rm.rmap
    BY <1>3, <1>4, <1>7
  <2>6. \A p \in TreePlaces(rmap) : p[1] \notin R
    <3>1. SUFFICES ASSUME NEW p \in TreePlaces(rmap), p[1] \in R
                   PROVE  FALSE
      OBVIOUS
    <3>2. PICK q : q = PlaceOf(e, p[1])
      OBVIOUS
    <3>3. q \in OtherPlaces(rmap) /\ q[1] = p[1]
      BY <2>3, <3>1, <3>2 DEF PlaceOf
    <3>4. p = q
      BY <2>1, <3>1, <3>3, PlaceOnce, AllPlaces DEF WellKept
    <3> QED
      BY <3>1, <3>3, <3>4 DEF TreePlaces, OtherPlaces
  <2>7. /\ TreePlaces(rmap') = TreePlaces(rmap)
        /\ OtherPlaces(rmap') = {p \in OtherPlaces(rmap) : p[1] \notin R}
    BY <2>4, <2>5, <2>6 DEF TreePlaces, OtherPlaces
  <2>8. Places(forks') = {p \in Places(forks) : p[1] \notin R}
    BY <1>3, <1>6, ExtentForgotten DEF PoolInv, NoSharing
  <2>9. R \cap Headers = {} /\ R \cap ChunkBlocksOf(chunks) = {}
    <3>1. R \subseteq MappedBlocks(forks)
      BY <1>6 DEF MappedBlocks
    <3>2. MappedBlocks(forks) \cap Headers = {} /\ MappedBlocks(forks) \cap ChunkBlocksOf(chunks) = {}
      BY PiecesFields DEF PoolInv, NoSharing, Apart
    <3> QED
      BY <3>1, <3>2
  <2>10. \A p \in SystemPlaces(Headers, FS) \cup SystemPlaces(ChunkBlocksOf(chunks), INODES) : p[1] \notin R
    BY <2>9, SystemPlace
  <2>11. OwnedPlaces(forks', chunks') = {p \in OwnedPlaces(forks, chunks) : p[1] \notin R}
    BY <1>3, <2>8, <2>10 DEF OwnedPlaces
  <2>12. Mapped(rmap)'
    BY <2>1, <2>4, <2>5, <2>7, <2>11 DEF Mapped
  <2>13. TreesOut'
    <3>1. InHand' = InHand \cup R
      BY <1>3, <1>4, <1>6 DEF InHand
    <3> QED
      BY <1>5, <1>7, <2>6, <2>7, <3>1 DEF RmapPart, TreesOut
  <2>14. TreesMapped' /\ BaseMapped' /\ CleanMaps'
    BY <1>3, <1>4, <1>5, <1>7, <2>7 DEF RmapPart, TreesMapped, BaseMapped, CleanMaps
  <2> QED
    BY <2>4, <2>12, <2>13, <2>14 DEF RmapPart
<1>8. ~ err'
  BY <1>3, <1>4, <1>7 DEF RmapInv
<1> QED
  BY <1>3, <1>5, <1>7, <1>8 DEF RmapInv

(* A session that opens the group again has the mappings merged: they say  *)
(* what they said.                                                         *)
LEMMA ReloadRmap ==
    ASSUME Parts, PoolInv, RmapInv, Reload
    PROVE  RmapInv'
<1>1. /\ Call /\ ~ dirty /\ dirty' = FALSE
      /\ free' = disk.free /\ old_tree_blocks' = TreeBlocks(disk) /\ chunks' = disk.chunks
      /\ rmap' = disk.rmap
      /\ UNCHANGED <<rb, callerVars, disk, failed, err>>
  BY DEF Reload
<1>2. rb.pc = "idle" /\ rb' = rb
  BY <1>1 DEF Call
<1>3. free' = free /\ chunks' = chunks /\ old_tree_blocks' = old_tree_blocks /\ forks' = forks
      /\ taken' = taken
  BY <1>1, <1>2 DEF PoolInv, CleanBlocks, callerVars
<1>4. ASSUME HasRmap, RmapPart
      PROVE  RmapPart'
  <2>1. WellKept(rmap, AgLen) /\ AgLen \in Nat
    BY <1>4, SizesAssumption DEF RmapPart, Mapped
  <2>2. rmap' = merged_rmap(rmap)
    BY <1>1, <1>2, <1>4 DEF RmapPart, CleanMaps
  <2>3. WellKept(rmap', AgLen) /\ Places(rmap') = Places(rmap)
    BY <2>1, <2>2, MergedKept, MergeSaysTheSame
  <2>4. merged_rmap(rmap') = rmap'
    BY <2>1, <2>2, MergeTwice
  <2>5. TreePlaces(rmap') = TreePlaces(rmap) /\ OtherPlaces(rmap') = OtherPlaces(rmap)
    BY <2>3 DEF TreePlaces, OtherPlaces
  <2>6. Mapped(rmap)'
    BY <1>3, <1>4, <2>3, <2>5 DEF RmapPart, Mapped
  <2>7. TreesOut'
    BY <1>2, <1>3, <1>4, <2>5 DEF RmapPart, TreesOut, InHand
  <2>8. TreesMapped' /\ BaseMapped' /\ CleanMaps'
    BY <1>1, <1>2, <1>3, <1>4, <2>4, <2>5 DEF RmapPart, TreesMapped, BaseMapped, CleanMaps
  <2> QED
    BY <2>6, <2>7, <2>8 DEF RmapPart
<1> QED
  BY <1>1, <1>2, <1>4 DEF RmapInv

-----------------------------------------------------------------------------
(* One lemma per step of `rebuild`.                                        *)

(* The mappings stay while the old trees' blocks are freed.                *)
LEMMA RebuildStartRmap ==
    ASSUME Parts, PoolInv, RmapInv, RebuildStart
    PROVE  RmapInv'
<1>1. /\ rb' = [Idle EXCEPT !.pc = "free", !.todo = old_tree_blocks]
      /\ UNCHANGED <<free, free_total, reserve, chunks, rmap, dirty, callerVars, disk, failed, err>>
  BY DEF RebuildStart
<1>2. rb'.pc = "free" /\ rb'.ag_run = {} /\ rb'.ino_run = {}
  BY <1>1 DEF Idle
<1>3. ASSUME HasRmap, RmapPart
      PROVE  RmapPart'
  <2>1. Mapped(rmap)'
    BY <1>1, <1>3 DEF RmapPart, Mapped, callerVars
  <2>2. TreesOut' /\ TreesMapped' /\ BaseMapped' /\ CleanMaps'
    BY <1>2 DEF TreesOut, TreesMapped, BaseMapped, CleanMaps
  <2> QED
    BY <2>1, <2>2 DEF RmapPart
<1> QED
  BY <1>1, <1>2, <1>3 DEF RmapInv, RunsApart

(* None of them is refused.                                                *)
LEMMA RebuildFreeRmap ==
    ASSUME Parts, PoolInv, RmapInv, RebuildFree
    PROVE  RmapInv'
<1>1. PICK ok : ok = FreeExtent(free, Min(rb.todo), 1, AgLen).ok
  OBVIOUS
<1>2. /\ rb.pc = "free"
      /\ rb' = IF ok THEN [rb EXCEPT !.todo = @ \ {Min(rb.todo)}] ELSE Idle
      /\ err' = (err \/ ~ ok)
      /\ UNCHANGED <<reserve, old_tree_blocks, chunks, rmap, callerVars, disk, calls>>
  BY <1>1 DEF RebuildFree
<1>3. err' = err /\ failed' = failed
  BY RebuildFreePool
<1>4. ok
  <2>1. ~ err
    BY DEF RmapInv
  <2>2. err = (err \/ ~ ok)
    BY <1>2, <1>3
  <2> QED
    BY <2>1, <2>2
<1>5. rb'.pc = "free" /\ rb'.ag_run = rb.ag_run /\ rb'.ino_run = rb.ino_run
  <2>1. PICK todo : todo = rb.todo \ {Min(rb.todo)}
    OBVIOUS
  <2>2. rb' = [rb EXCEPT !.todo = todo]
    BY <1>2, <1>4, <2>1
  <2> QED
    BY <1>2, <2>2, RbFields DEF Parts
<1>6. ASSUME HasRmap, RmapPart
      PROVE  RmapPart'
  <2>1. Mapped(rmap)'
    BY <1>2, <1>6 DEF RmapPart, Mapped, callerVars
  <2>2. TreesOut' /\ TreesMapped' /\ BaseMapped' /\ CleanMaps'
    BY <1>5 DEF TreesOut, TreesMapped, BaseMapped, CleanMaps
  <2> QED
    BY <2>1, <2>2 DEF RmapPart
<1> QED
  BY <1>2, <1>3, <1>5, <1>6 DEF RmapInv

(* The mappings of the AGFL's blocks, one each.                            *)
LEMMA AgflMapped == WellKept(AgflMaps, AgLen) /\ Places(AgflMaps) = SystemPlaces(Agfl, AG)
<1>1. AG \in SpecialOwners /\ AgLen \in Nat /\ 1 \in Nat \ {0}
  BY SizesAssumption DEF SpecialOwners
<1>2. ASSUME NEW b \in Agfl, NEW r, r = Rmap(b, 1, AG, 0, "bmbt")
      PROVE  /\ RecordOK(r, AgLen) /\ Run(r.start, r.len) = {b}
             /\ PlaceOf(r, b) = <<b, AG, "bmbt", 0>>
  <2>1. b \in Nat /\ b + 1 <= AgLen
    BY SizesAssumption DEF Blocks
  <2>2. /\ RecordOK(r, AgLen) /\ r.start = b /\ r.len = 1
        /\ \A x : PlaceOf(r, x) = <<x, AG, "bmbt", 0>>
    BY <1>1, <1>2, <2>1, SystemRecord
  <2>3. Run(b, 1) = {b}
    BY <2>1 DEF Run
  <2> QED
    BY <2>2, <2>3
<1>3. \A r \in AgflMaps : \E b \in Agfl : /\ r = Rmap(b, 1, AG, 0, "bmbt")
                                          /\ RecordOK(r, AgLen) /\ Run(r.start, r.len) = {b}
                                          /\ PlaceOf(r, b) = <<b, AG, "bmbt", 0>>
  BY <1>2 DEF AgflMaps
<1>4. WellKept(AgflMaps, AgLen)
  <2>1. ASSUME NEW r \in AgflMaps, NEW q \in AgflMaps, r # q
        PROVE  Run(r.start, r.len) \cap Run(q.start, q.len) = {}
    <3>1. PICK b \in Agfl : r = Rmap(b, 1, AG, 0, "bmbt") /\ Run(r.start, r.len) = {b}
      BY <1>3
    <3>2. PICK c \in Agfl : q = Rmap(c, 1, AG, 0, "bmbt") /\ Run(q.start, q.len) = {c}
      BY <1>3
    <3> QED
      BY <2>1, <3>1, <3>2
  <2> QED
    BY <1>3, <2>1 DEF WellKept, ExtentsApart
<1>5. ASSUME NEW p \in Places(AgflMaps)
      PROVE  p \in SystemPlaces(Agfl, AG)
  <2>1. PICK r, c : r \in AgflMaps /\ c \in Run(r.start, r.len) /\ p = PlaceOf(r, c)
    BY PlaceSaid
  <2>2. PICK b \in Agfl : Run(r.start, r.len) = {b} /\ PlaceOf(r, b) = <<b, AG, "bmbt", 0>>
    BY <1>3, <2>1
  <2> QED
    BY <2>1, <2>2, SystemPlace
<1>6. ASSUME NEW p \in SystemPlaces(Agfl, AG)
      PROVE  p \in Places(AgflMaps)
  <2>1. PICK b \in Agfl : p = <<b, AG, "bmbt", 0>>
    BY DEF SystemPlaces
  <2>2. PICK r : r = Rmap(b, 1, AG, 0, "bmbt")
    OBVIOUS
  <2>3. r \in AgflMaps /\ b \in Run(r.start, r.len) /\ p = PlaceOf(r, b)
    BY <1>2, <2>1, <2>2 DEF AgflMaps
  <2> QED
    BY <2>3, PlaceSaid
<1> QED
  BY <1>4, <1>5, <1>6

(* The base: the trees' mappings out, those of the AGFL in.                *)
LEMMA RebuildBaseRmap ==
    ASSUME Parts, PoolInv, RmapInv, RebuildBase
    PROVE  RmapInv'
<1>1. PICK need : need = ag_need(Cardinality(DOMAIN free), Cardinality(merged_rmap(rmap')) + 2)
  OBVIOUS
<1>2. PICK base : base = [free |-> free, total |-> free_total, rmap |-> rmap']
  OBVIOUS
<1>3. /\ rb.pc = "free"
      /\ rmap' = {r \in rmap : r.owner \notin {AG, INOBT}} \cup (IF HasRmap THEN AgflMaps ELSE {})
      /\ rb' = [rb EXCEPT !.pc = "try", !.base = base, !.ag_blocks = need]
      /\ UNCHANGED <<free, free_total, reserve, old_tree_blocks, chunks, dirty,
                     callerVars, disk, calls, failed, err>>
  BY <1>1, <1>2 DEF RebuildBase
<1>4. rb'.pc = "try" /\ rb'.ag_run = rb.ag_run /\ rb'.ino_run = rb.ino_run /\ rb'.base.rmap = rmap'
  BY <1>2, <1>3, RbFields DEF Parts
<1>5. ASSUME HasRmap, RmapPart
      PROVE  RmapPart'
  <2>1. PICK kept : kept = {r \in rmap : r.owner \notin TreeOwners}
    OBVIOUS
  <2>2. rmap' = kept \cup AgflMaps
    BY <1>3, <1>5, <2>1 DEF TreeOwners
  <2>3. Mapped(rmap) /\ WellKept(rmap, AgLen) /\ AgLen \in Nat
    BY <1>5, SizesAssumption DEF RmapPart, Mapped
  <2>4. WellKept(kept, AgLen)
    <3>1. kept \in SUBSET rmap
      BY <2>1
    <3> QED
      BY <2>3, <3>1, KeptSubset
  <2>5. Places(kept) = OtherPlaces(rmap)
    <3>1. PICK S : S = {r.owner : r \in rmap} \ TreeOwners
      OBVIOUS
    <3>2. kept = {r \in rmap : r.owner \in S}
      BY <2>1, <3>1
    <3>3. Places(kept) = {p \in Places(rmap) : p[2] \in S}
      BY <3>2, PlacesOf
    <3>4. \A p \in Places(rmap) : p[2] \in {r.owner : r \in rmap}
      BY MappedPlace
    <3> QED
      BY <3>1, <3>3, <3>4 DEF OtherPlaces
  <2>6. \A p \in Places(kept), q \in Places(AgflMaps) : p[1] # q[1]
    BY <2>3, <2>5, MappedApart, AgflMapped, SystemPlace
  <2>7. WellKept(rmap', AgLen)
    <3>1. WellKept(kept \cup AgflMaps, AgLen)
      BY <2>3, <2>4, <2>6, AgflMapped, KeptUnion
    <3> QED
      BY <2>2, <3>1
  <2>8. Places(rmap') = OtherPlaces(rmap) \cup SystemPlaces(Agfl, AG)
    BY <2>2, <2>5, PlacesUnion, AgflMapped
  <2>9. \A p \in SystemPlaces(Agfl, AG) : p[1] \in Agfl /\ p[2] \in TreeOwners
    BY SystemPlace DEF TreeOwners
  <2>10. \A p \in OtherPlaces(rmap) : p[2] \notin TreeOwners
    BY DEF OtherPlaces
  <2>11. OtherPlaces(rmap') = OtherPlaces(rmap) /\ TreePlaces(rmap') = SystemPlaces(Agfl, AG)
    <3>1. OtherPlaces(rmap') = {p \in Places(rmap') : p[2] \notin TreeOwners}
      BY DEF OtherPlaces
    <3>2. TreePlaces(rmap') = {p \in Places(rmap') : p[2] \in TreeOwners}
      BY DEF TreePlaces
    <3> QED
      BY <2>8, <2>9, <2>10, <3>1, <3>2
  <2>12. Mapped(rmap)'
    BY <1>3, <2>3, <2>7, <2>11 DEF Mapped, callerVars
  <2>13. TreesOut'
    <3>1. InHand' = InHand
      BY <1>3 DEF InHand, callerVars
    <3>2. Agfl \cap InHand = {}
      BY PiecesFields DEF PoolInv, NoSharing, Apart, InHand
    <3> QED
      BY <2>9, <2>11, <3>1, <3>2 DEF TreesOut
  <2>14. BaseMapped'
    BY <1>4, <2>11, <2>12 DEF BaseMapped, Mapped
  <2>15. TreesMapped' /\ CleanMaps'
    BY <1>4 DEF TreesMapped, CleanMaps
  <2> QED
    BY <2>12, <2>13, <2>14, <2>15 DEF RmapPart
<1> QED
  BY <1>3, <1>4, <1>5 DEF RmapInv

(* A turn starts with the base's mappings.                                 *)
LEMMA RebuildTryRmap ==
    ASSUME Parts, PoolInv, RmapInv, RebuildTry
    PROVE  RmapInv'
<1>1. PICK need : need = ino_need(chunks)
  OBVIOUS
<1>2. /\ rb.pc = "try" /\ free' = rb.base.free /\ rmap' = rb.base.rmap
      /\ rb' = [rb EXCEPT !.pc = "ino", !.tries = @ + 1, !.left = need,
                          !.ag_run = {}, !.ino_run = {}]
      /\ UNCHANGED <<reserve, old_tree_blocks, chunks, dirty, callerVars, disk, calls, failed, err>>
  BY <1>1 DEF RebuildTry
<1>3. rb'.pc = "ino" /\ rb'.ag_run = {} /\ rb'.ino_run = {} /\ rb'.base = rb.base
  BY <1>2, RbFields DEF Parts
<1>4. ASSUME HasRmap, RmapPart
      PROVE  RmapPart'
  <2>1. Mapped(rb.base.rmap) /\ TreePlaces(rb.base.rmap) = SystemPlaces(Agfl, AG)
    BY <1>2, <1>4 DEF RmapPart, BaseMapped
  <2>2. Mapped(rmap)' /\ Mapped(rb.base.rmap)'
    BY <1>2, <1>3, <2>1 DEF Mapped, callerVars
  <2>3. TreesOut'
    <3>1. NoSharing'
      BY RebuildTryPool DEF PoolInv
    <3>2. Agfl \cap InHand' = {}
      BY <3>1, NewPiecesFields DEF NoSharing, Apart, InHand
    <3>3. \A p \in TreePlaces(rmap') : p[1] \in Agfl
      BY <1>2, <2>1, SystemPlace
    <3> QED
      BY <3>2, <3>3 DEF TreesOut
  <2>4. BaseMapped'
    BY <1>2, <1>3, <2>1, <2>2 DEF BaseMapped
  <2>5. TreesMapped' /\ CleanMaps'
    BY <1>3 DEF TreesMapped, CleanMaps
  <2> QED
    BY <2>2, <2>3, <2>4, <2>5 DEF RmapPart
<1> QED
  BY <1>2, <1>3, <1>4 DEF RmapInv, RunsApart

(* A rebuild that fails leaves mappings of blocks it has lost, but of none *)
(* that may get another owner.                                             *)
LEMMA RebuildFailsRmap ==
    ASSUME Parts, PoolInv, RmapInv, RebuildFails
    PROVE  RmapInv'
<1>1. /\ rb.pc \in {"try", "ino", "ag"} /\ rb' = Idle /\ failed' = TRUE
      /\ UNCHANGED <<agVars, callerVars, disk, calls, err>>
  BY DEF RebuildFails
<1>2. rb'.pc = "idle" /\ rb'.ag_run = {} /\ rb'.ino_run = {}
  BY <1>1 DEF Idle
<1>3. dirty /\ rb.pc # "free"
  BY <1>1 DEF PoolInv, RbStages
<1>4. ASSUME HasRmap, RmapPart
      PROVE  RmapPart'
  <2>1. Mapped(rmap)'
    BY <1>1, <1>4 DEF RmapPart, Mapped, callerVars, agVars
  <2>2. TreesOut'
    BY <1>1, <1>3, <1>4 DEF RmapPart, TreesOut, InHand, callerVars, agVars
  <2>3. TreesMapped' /\ BaseMapped' /\ CleanMaps'
    BY <1>1, <1>2, <1>3 DEF TreesMapped, BaseMapped, CleanMaps, agVars
  <2> QED
    BY <2>1, <2>2, <2>3 DEF RmapPart
<1> QED
  BY <1>1, <1>2, <1>4 DEF RmapInv, RunsApart

(* A turn of `carve` takes a run that shares no block with the others.     *)
LEMMA CarveRmap ==
    ASSUME Parts, PoolInv, RmapInv, Carve
    PROVE  RmapInv'
<1>1. PICK at, take : CarveTaken(at, take)
  BY CarveTakes
<1>2. /\ rb.pc \in {"ino", "ag"} /\ at \in Nat /\ take \in Nat \ {0}
      /\ Takeable(free, at, take) /\ TakeRun(at, take)
      /\ rb' = IF rb.pc = "ino"
               THEN [rb EXCEPT !.left = @ - take, !.ino_run = @ \cup {<<at, take>>}]
               ELSE [rb EXCEPT !.left = @ - take, !.ag_run = @ \cup {<<at, take>>}]
      /\ UNCHANGED <<reserve, old_tree_blocks, chunks, rmap, callerVars, disk, calls, failed, err>>
  BY <1>1 DEF CarveTaken
<1>3. PICK R : R = Run(at, take)
  OBVIOUS
<1>4. R \subseteq Covered(free) /\ Covered(free') = Covered(free) \ R
  BY <1>2, <1>3, TakeBlocks DEF Parts, PoolInv
<1>5. /\ rb'.pc = rb.pc /\ rb'.base = rb.base
      /\ rb'.ino_run = rb.ino_run \/ rb'.ino_run = rb.ino_run \cup {<<at, take>>}
      /\ rb'.ag_run = rb.ag_run \/ rb'.ag_run = rb.ag_run \cup {<<at, take>>}
  BY <1>2, RbFields DEF Parts
<1>6. ASSUME NEW runs, RunsApart(runs), RunBlocks(runs) \subseteq CarvedBlocks
      PROVE  RunsApart(runs \cup {<<at, take>>})
  <2>1. R \cap RunBlocks(runs) = {}
    BY <1>4, <1>6, PiecesFields DEF PoolInv, NoSharing, Apart
  <2>2. \A r \in runs : Run(r[1], r[2]) \cap R = {}
    BY <2>1 DEF RunBlocks
  <2> QED
    BY <1>3, <1>6, <2>2 DEF RunsApart
<1>7. RunsApart(rb'.ag_run) /\ RunsApart(rb'.ino_run)
  <2>1. RunsApart(rb.ag_run) /\ RunsApart(rb.ino_run)
    BY DEF RmapInv
  <2>2. RunBlocks(rb.ag_run) \subseteq CarvedBlocks /\ RunBlocks(rb.ino_run) \subseteq CarvedBlocks
    BY DEF CarvedBlocks
  <2> QED
    BY <1>5, <1>6, <2>1, <2>2
<1>8. ASSUME HasRmap, RmapPart
      PROVE  RmapPart'
  <2>1. Mapped(rmap)' /\ BaseMapped'
    BY <1>2, <1>5, <1>8 DEF RmapPart, Mapped, BaseMapped, callerVars
  <2>2. InHand' \subseteq InHand
    BY <1>2, <1>4 DEF InHand, callerVars
  <2>3. TreesOut' /\ TreesMapped' /\ CleanMaps'
    BY <1>2, <1>5, <1>8, <2>2 DEF RmapPart, TreesOut, TreesMapped, CleanMaps
  <2> QED
    BY <2>1, <2>3 DEF RmapPart
<1> QED
  BY <1>2, <1>7, <1>8 DEF RmapInv

(* Between the two kinds of trees.                                         *)
LEMMA RebuildInoCarvedRmap ==
    ASSUME Parts, PoolInv, RmapInv, RebuildInoCarved
    PROVE  RmapInv'
<1>1. /\ rb.pc = "ino" /\ rb' = [rb EXCEPT !.pc = "ag", !.left = rb.ag_blocks]
      /\ UNCHANGED <<agVars, callerVars, disk, calls, failed, err>>
  BY DEF RebuildInoCarved
<1>2. /\ rb'.pc = "ag" /\ rb'.ag_run = rb.ag_run /\ rb'.ino_run = rb.ino_run /\ rb'.base = rb.base
  BY <1>1, RbFields DEF Parts
<1>3. ASSUME HasRmap, RmapPart
      PROVE  RmapPart'
  <2>1. Mapped(rmap)' /\ BaseMapped'
    BY <1>1, <1>2, <1>3 DEF RmapPart, Mapped, BaseMapped, callerVars, agVars
  <2>2. TreesOut' /\ TreesMapped' /\ CleanMaps'
    BY <1>1, <1>2, <1>3 DEF RmapPart, TreesOut, TreesMapped, CleanMaps, InHand, callerVars, agVars
  <2> QED
    BY <2>1, <2>2 DEF RmapPart
<1> QED
  BY <1>1, <1>2, <1>3 DEF RmapInv

(* The mappings of runs of one owner that share no block.                  *)
LEMMA RunsMapped ==
    ASSUME NEW runs, RunsOK(runs), RunsApart(runs), NEW owner \in SpecialOwners,
           NEW maps, maps = {Rmap(r[1], r[2], owner, 0, "bmbt") : r \in runs}
    PROVE  WellKept(maps, AgLen) /\ Places(maps) = SystemPlaces(RunBlocks(runs), owner)
<1>1. ASSUME NEW r \in runs, NEW m, m = Rmap(r[1], r[2], owner, 0, "bmbt")
      PROVE  /\ RecordOK(m, AgLen) /\ Run(m.start, m.len) = Run(r[1], r[2])
             /\ \A b : PlaceOf(m, b) = <<b, owner, "bmbt", 0>>
  <2>1. r[1] \in Nat /\ r[2] \in Nat \ {0} /\ r[1] + r[2] <= AgLen /\ AgLen \in Nat
    BY SizesAssumption DEF RunsOK
  <2>2. /\ RecordOK(m, AgLen) /\ m.start = r[1] /\ m.len = r[2]
        /\ \A b : PlaceOf(m, b) = <<b, owner, "bmbt", 0>>
    BY <1>1, <2>1, SystemRecord
  <2> QED
    BY <2>2
<1>2. \A m \in maps : \E r \in runs : /\ m = Rmap(r[1], r[2], owner, 0, "bmbt")
                                      /\ RecordOK(m, AgLen) /\ Run(m.start, m.len) = Run(r[1], r[2])
                                      /\ \A b : PlaceOf(m, b) = <<b, owner, "bmbt", 0>>
  BY <1>1
<1>3. WellKept(maps, AgLen)
  <2>1. ASSUME NEW m \in maps, NEW k \in maps, m # k
        PROVE  Run(m.start, m.len) \cap Run(k.start, k.len) = {}
    <3>1. PICK r \in runs : /\ m = Rmap(r[1], r[2], owner, 0, "bmbt")
                            /\ Run(m.start, m.len) = Run(r[1], r[2])
      BY <1>2
    <3>2. PICK x \in runs : /\ k = Rmap(x[1], x[2], owner, 0, "bmbt")
                            /\ Run(k.start, k.len) = Run(x[1], x[2])
      BY <1>2
    <3>3. r # x
      BY <2>1, <3>1, <3>2
    <3> QED
      BY <3>1, <3>2, <3>3 DEF RunsApart
  <2> QED
    BY <1>2, <2>1 DEF WellKept, ExtentsApart
<1>4. ASSUME NEW p \in Places(maps)
      PROVE  p \in SystemPlaces(RunBlocks(runs), owner)
  <2>1. PICK m, b : m \in maps /\ b \in Run(m.start, m.len) /\ p = PlaceOf(m, b)
    BY PlaceSaid
  <2>2. PICK r \in runs : Run(m.start, m.len) = Run(r[1], r[2]) /\ PlaceOf(m, b) = <<b, owner, "bmbt", 0>>
    BY <1>2, <2>1
  <2>3. b \in RunBlocks(runs)
    BY <2>1, <2>2 DEF RunBlocks
  <2> QED
    BY <2>1, <2>2, <2>3, SystemPlace
<1>5. ASSUME NEW p \in SystemPlaces(RunBlocks(runs), owner)
      PROVE  p \in Places(maps)
  <2>1. PICK b \in RunBlocks(runs) : p = <<b, owner, "bmbt", 0>>
    BY DEF SystemPlaces
  <2>2. PICK r \in runs : b \in Run(r[1], r[2])
    BY DEF RunBlocks
  <2>3. PICK m : m = Rmap(r[1], r[2], owner, 0, "bmbt")
    OBVIOUS
  <2>4. m \in maps /\ b \in Run(m.start, m.len) /\ p = PlaceOf(m, b)
    BY <1>1, <2>1, <2>2, <2>3
  <2> QED
    BY <2>4, PlaceSaid
<1> QED
  BY <1>3, <1>4, <1>5

(* The mappings a turn ends with: the new trees' are in.                   *)
LEMMA CarvedMapped ==
    ASSUME Parts, PoolInv, RmapInv, HasRmap, rb.pc = "ag"
    PROVE  /\ rmap_add(CarvedMaps) = rmap \cup CarvedMaps
           /\ Mapped(rmap_add(CarvedMaps))
           /\ TreePlaces(rmap_add(CarvedMaps))
                = SystemPlaces(Agfl \cup RunBlocks(rb.ag_run), AG)
                    \cup SystemPlaces(RunBlocks(rb.ino_run), INOBT)
<1>1. PICK A : A = {Rmap(r[1], r[2], AG, 0, "bmbt") : r \in rb.ag_run}
  OBVIOUS
<1>2. PICK B : B = {Rmap(r[1], r[2], INOBT, 0, "bmbt") : r \in rb.ino_run}
  OBVIOUS
<1>3. rmap_add(CarvedMaps) = rmap \cup CarvedMaps /\ CarvedMaps = A \cup B
  BY <1>1, <1>2 DEF rmap_add, CarvedMaps
<1>4. AG \in SpecialOwners /\ INOBT \in SpecialOwners /\ AgLen \in Nat
  BY SizesAssumption DEF SpecialOwners
<1>5. RunsOK(rb.ag_run) /\ RunsOK(rb.ino_run) /\ RunsApart(rb.ag_run) /\ RunsApart(rb.ino_run)
  BY RbFields DEF Parts, RmapInv
<1>6. WellKept(A, AgLen) /\ Places(A) = SystemPlaces(RunBlocks(rb.ag_run), AG)
  BY <1>1, <1>4, <1>5, RunsMapped
<1>7. WellKept(B, AgLen) /\ Places(B) = SystemPlaces(RunBlocks(rb.ino_run), INOBT)
  BY <1>2, <1>4, <1>5, RunsMapped
<1>8. /\ Mapped(rmap) /\ WellKept(rmap, AgLen) /\ TreePlaces(rmap) = SystemPlaces(Agfl, AG)
  BY DEF RmapInv, RmapPart, BaseMapped, Mapped
<1>9. \A p \in Places(A) : p[1] \in RunBlocks(rb.ag_run) /\ p[2] \in TreeOwners
  BY <1>6, SystemPlace DEF TreeOwners
<1>10. \A p \in Places(B) : p[1] \in RunBlocks(rb.ino_run) /\ p[2] \in TreeOwners
  BY <1>7, SystemPlace DEF TreeOwners
<1>11. WellKept(A \cup B, AgLen)
  <2>1. RunBlocks(rb.ag_run) \cap RunBlocks(rb.ino_run) = {}
    BY DEF PoolInv, NoSharing
  <2>2. \A p \in Places(A), q \in Places(B) : p[1] # q[1]
    BY <1>9, <1>10, <2>1
  <2> QED
    BY <1>4, <1>6, <1>7, <2>2, KeptUnion
<1>12. Places(A \cup B) = Places(A) \cup Places(B)
  BY PlacesUnion
<1>13. \A p \in Places(A \cup B) : p[1] \in CarvedBlocks /\ p[2] \in TreeOwners
  BY <1>9, <1>10, <1>12 DEF CarvedBlocks
<1>14. \A p \in Places(rmap) : p[1] \notin CarvedBlocks
  <2>1. \A p \in OtherPlaces(rmap) : p[1] \notin CarvedBlocks
    BY <1>8, MappedApart
  <2>2. \A p \in TreePlaces(rmap) : p[1] \in Agfl
    BY <1>8, SystemPlace
  <2>3. Agfl \cap CarvedBlocks = {}
    BY PiecesFields DEF PoolInv, NoSharing, Apart
  <2> QED
    BY <2>1, <2>2, <2>3, AllPlaces
<1>15. PICK new : new = rmap \cup (A \cup B)
  OBVIOUS
<1>16. WellKept(new, AgLen)
  <2>1. \A p \in Places(rmap), q \in Places(A \cup B) : p[1] # q[1]
    BY <1>13, <1>14
  <2>2. WellKept(rmap \cup (A \cup B), AgLen)
    BY <1>4, <1>8, <1>11, <2>1, KeptUnion
  <2> QED
    BY <1>15, <2>2
<1>17. Places(new) = Places(rmap) \cup Places(A) \cup Places(B)
  <2>1. Places(new) = Places(rmap) \cup Places(A \cup B)
    BY <1>15, PlacesUnion
  <2> QED
    BY <1>12, <2>1
<1>18. OtherPlaces(new) = OtherPlaces(rmap)
  BY <1>9, <1>10, <1>17 DEF OtherPlaces
<1>19. TreePlaces(new) = TreePlaces(rmap) \cup Places(A) \cup Places(B)
  BY <1>9, <1>10, <1>17 DEF TreePlaces
<1>20. TreePlaces(new) = SystemPlaces(Agfl \cup RunBlocks(rb.ag_run), AG)
                           \cup SystemPlaces(RunBlocks(rb.ino_run), INOBT)
  BY <1>6, <1>7, <1>8, <1>19, SystemPlace
<1>21. Mapped(new)
  BY <1>8, <1>16, <1>18 DEF Mapped
<1>22. rmap_add(CarvedMaps) = new
  BY <1>3, <1>15
<1> QED
  BY <1>3, <1>20, <1>21, <1>22

(* A turn that has to be made again: the new trees' blocks are not free.   *)
LEMMA RebuildAgainRmap ==
    ASSUME Parts, PoolInv, RmapInv, RebuildAgain
    PROVE  RmapInv'
<1>1. PICK need : need = NeedNow
  OBVIOUS
<1>2. /\ rb.pc = "ag" /\ rb' = [rb EXCEPT !.pc = "try", !.ag_blocks = need]
      /\ rmap' = rmap_add(CarvedMaps)
      /\ UNCHANGED <<free, free_total, reserve, old_tree_blocks, chunks, dirty,
                     callerVars, disk, calls, failed, err>>
  BY <1>1 DEF RebuildAgain
<1>3. /\ rb'.pc = "try" /\ rb'.ag_run = rb.ag_run /\ rb'.ino_run = rb.ino_run /\ rb'.base = rb.base
  BY <1>2, RbFields DEF Parts
<1>4. ASSUME HasRmap, RmapPart
      PROVE  RmapPart'
  <2>1. /\ Mapped(rmap_add(CarvedMaps))
        /\ TreePlaces(rmap_add(CarvedMaps))
             = SystemPlaces(Agfl \cup RunBlocks(rb.ag_run), AG)
                 \cup SystemPlaces(RunBlocks(rb.ino_run), INOBT)
    BY <1>2, <1>4, CarvedMapped
  <2>2. Mapped(rmap)'
    BY <1>2, <2>1 DEF Mapped, callerVars
  <2>3. TreesOut'
    <3>1. \A p \in TreePlaces(rmap') : p[1] \in Agfl \/ p[1] \in CarvedBlocks
      BY <1>2, <2>1, SystemPlace DEF CarvedBlocks
    <3>2. InHand' = InHand
      BY <1>2 DEF InHand, callerVars
    <3>3. Agfl \cap InHand = {} /\ CarvedBlocks \cap InHand = {}
      BY PiecesFields DEF PoolInv, NoSharing, Apart, InHand
    <3> QED
      BY <3>1, <3>2, <3>3 DEF TreesOut
  <2>4. BaseMapped'
    BY <1>2, <1>3, <1>4 DEF RmapPart, BaseMapped, Mapped, callerVars
  <2>5. TreesMapped' /\ CleanMaps'
    BY <1>3 DEF TreesMapped, CleanMaps
  <2> QED
    BY <2>2, <2>3, <2>4, <2>5 DEF RmapPart
<1> QED
  BY <1>2, <1>3, <1>4 DEF RmapInv

(* `load` accepts an image with a well-formed map and the right count.     *)
LEMMA Loads ==
    ASSUME NEW d, WellFormed(d.free, AgLen), d.freeblks = FreeCount(d.free)
    PROVE  ~ LoadRefuses(d)
<1>1. AgLen \in Nat
  BY SizesAssumption
<1>2. \A s \in DOMAIN d.free : s \in Nat /\ d.free[s] \in Nat \ {0} /\ s + d.free[s] <= AgLen
  BY DEF WellFormed
<1>3. ~ \E s \in DOMAIN d.free : d.free[s] = 0 \/ s + d.free[s] > AgLen
  BY <1>1, <1>2
<1>4. ~ \E s, t \in DOMAIN d.free : s < t /\ s + d.free[s] > t
  <2>1. ASSUME NEW s \in DOMAIN d.free, NEW t \in DOMAIN d.free, s < t
        PROVE  ~ (s + d.free[s] > t)
    <3>1. s + d.free[s] < t
      BY <2>1 DEF WellFormed
    <3> QED
      BY <1>2, <3>1
  <2> QED
    BY <2>1
<1> QED
  BY <1>3, <1>4 DEF LoadRefuses

(* One that settles: the trees are mapped exactly, and what is laid out    *)
(* can be loaded.                                                          *)
LEMMA RebuildFinishRmap ==
    ASSUME Parts, PoolInv, RmapInv, RebuildFinish
    PROVE  RmapInv'
<1>1. /\ TreesCut(disk', free, chunks, rmap_add(CarvedMaps),
                  RunBlocks(rb.ag_run), RunBlocks(rb.ino_run))
      /\ old_tree_blocks' = CarvedBlocks
      /\ rmap' = rmap_add(CarvedMaps) /\ rb.pc = "ag"
      /\ dirty' = FALSE /\ rb' = Idle
      /\ UNCHANGED <<free, free_total, chunks, callerVars, calls, failed, err>>
  BY FinishCut
<1>2. rb'.pc = "idle" /\ rb'.ag_run = {} /\ rb'.ino_run = {}
  BY <1>1 DEF Idle
<1>3. /\ disk'.free = free /\ disk'.rmap = merged_rmap(rmap') /\ disk'.freeblks = FreeCount(disk'.free)
      /\ disk'.trees["inobt"] \cup disk'.trees["finobt"] = RunBlocks(rb.ino_run)
  BY <1>1 DEF TreesCut
<1>4. InoTrees(disk') = RunBlocks(rb.ino_run)
  BY <1>3 DEF InoTrees
<1>5. ~ LoadRefuses(disk')
  BY <1>3, Loads DEF Parts, AgPart
<1>6. ASSUME HasRmap, RmapPart
      PROVE  RmapPart'
  <2>1. /\ Mapped(rmap_add(CarvedMaps))
        /\ TreePlaces(rmap_add(CarvedMaps))
             = SystemPlaces(Agfl \cup RunBlocks(rb.ag_run), AG)
                 \cup SystemPlaces(RunBlocks(rb.ino_run), INOBT)
    BY <1>1, <1>6, CarvedMapped
  <2>2. Mapped(rmap)'
    BY <1>1, <2>1 DEF Mapped, callerVars
  <2>3. TreesOut'
    <3>1. \A p \in TreePlaces(rmap') : p[1] \in Agfl \/ p[1] \in CarvedBlocks
      BY <1>1, <2>1, SystemPlace DEF CarvedBlocks
    <3>2. InHand' = InHand
      BY <1>1 DEF InHand, callerVars
    <3>3. Agfl \cap InHand = {} /\ CarvedBlocks \cap InHand = {}
      BY PiecesFields DEF PoolInv, NoSharing, Apart, InHand
    <3> QED
      BY <3>1, <3>2, <3>3 DEF TreesOut
  <2>4. TreesMapped'
    <3>1. old_tree_blocks' \ InoTrees(disk') = RunBlocks(rb.ag_run)
      BY <1>1, <1>4 DEF CarvedBlocks, PoolInv, NoSharing
    <3> QED
      BY <1>1, <1>4, <2>1, <3>1 DEF TreesMapped
  <2>5. BaseMapped' /\ CleanMaps'
    BY <1>2, <1>3 DEF BaseMapped, CleanMaps
  <2> QED
    BY <2>2, <2>3, <2>4, <2>5 DEF RmapPart
<1> QED
  BY <1>1, <1>2, <1>5, <1>6 DEF RmapInv, RunsApart

-----------------------------------------------------------------------------
(* The specification.                                                      *)

(* Exact mappings are those of what is owned and those of the trees.       *)
LEMMA ExactParts ==
    ASSUME NEW rm, NEW es, \A e \in es : e.owner \in Inodes, NEW cs, NEW A, NEW I,
           Places(rm) = ExactPlaces(es, cs, A, I)
    PROVE  /\ OtherPlaces(rm) = OwnedPlaces(es, cs)
           /\ TreePlaces(rm) = SystemPlaces(Agfl \cup A, AG) \cup SystemPlaces(I, INOBT)
<1>1. Places(rm) = OwnedPlaces(es, cs) \cup (SystemPlaces(Agfl \cup A, AG) \cup SystemPlaces(I, INOBT))
  BY DEF ExactPlaces, OwnedPlaces
<1>2. \A p \in OwnedPlaces(es, cs) : p[2] \notin TreeOwners
  BY OwnedPlace
<1>3. \A p \in SystemPlaces(Agfl \cup A, AG) : p[2] = AG
  BY SystemPlace
<1>4. \A p \in SystemPlaces(I, INOBT) : p[2] = INOBT
  BY SystemPlace
<1>5. \A p \in SystemPlaces(Agfl \cup A, AG) \cup SystemPlaces(I, INOBT) : p[2] \in TreeOwners
  BY <1>3, <1>4 DEF TreeOwners
<1> QED
  BY <1>1, <1>2, <1>5 DEF OtherPlaces, TreePlaces

(* A group as the kernel left it has exact mappings.                       *)
LEMMA InitRmap ==
    ASSUME Init
    PROVE  RmapInv
<1>1. PICK image \in Images :
         /\ disk = image.disk /\ forks = image.forks /\ free = image.disk.free
         /\ old_tree_blocks = TreeBlocks(image.disk) /\ chunks = image.disk.chunks
         /\ rmap = image.disk.rmap /\ ~ LoadRefuses(image.disk)
  BY DEF Init
<1>2. rb = Idle /\ taken = {} /\ err = FALSE
  BY DEF Init
<1>3. KernelKeeps(disk, forks)
  BY <1>1, ImagesAssumption
<1>4. /\ chunks = disk.chunks /\ old_tree_blocks = TreeBlocks(disk) /\ rmap = disk.rmap
      /\ ~ LoadRefuses(disk)
  BY <1>1
<1>5. rb.pc = "idle" /\ rb.ag_run = {} /\ rb.ino_run = {}
  BY <1>2 DEF Idle
<1>6. ASSUME HasRmap
      PROVE  RmapPart
  <2>1. \A e \in forks : e.owner \in Inodes
    <3>1. \A e \in forks : e \in Maps
      BY <1>3 DEF KernelKeeps, MapOK
    <3> QED
      BY <3>1 DEF Maps
  <2>2. /\ WellKept(rmap, AgLen) /\ merged_rmap(rmap) = rmap
        /\ Places(rmap) = ExactPlaces(forks, chunks, old_tree_blocks \ InoTrees(disk), InoTrees(disk))
    BY <1>3, <1>4, <1>6 DEF KernelKeeps
  <2>3. /\ OtherPlaces(rmap) = OwnedPlaces(forks, chunks)
        /\ TreePlaces(rmap) = SystemPlaces(Agfl \cup (old_tree_blocks \ InoTrees(disk)), AG)
                                \cup SystemPlaces(InoTrees(disk), INOBT)
    BY <2>1, <2>2, ExactParts
  <2>4. TreesOut
    <3>1. InoTrees(disk) \subseteq old_tree_blocks
      BY <1>4 DEF InoTrees, TreeBlocks, Trees
    <3>2. \A p \in TreePlaces(rmap) : p[1] \in Agfl \/ p[1] \in old_tree_blocks
      BY <2>3, <3>1, SystemPlace
    <3>3. Agfl \cap InHand = {} /\ old_tree_blocks \cap InHand = {}
      BY InitPool, PiecesFields DEF PoolInv, NoSharing, Apart, InHand
    <3> QED
      BY <3>2, <3>3 DEF TreesOut
  <2>5. Mapped(rmap) /\ TreesMapped
    BY <2>2, <2>3 DEF Mapped, TreesMapped
  <2>6. BaseMapped /\ CleanMaps
    BY <1>4, <1>5, <2>2 DEF BaseMapped, CleanMaps
  <2> QED
    BY <2>4, <2>5, <2>6 DEF RmapPart
<1> QED
  BY <1>2, <1>4, <1>5, <1>6 DEF RmapInv, RunsApart

(* A step that changes nothing.                                            *)
LEMMA StutterRmap ==
    ASSUME RmapInv, UNCHANGED vars
    PROVE  RmapInv'
<1>1. UNCHANGED <<free, old_tree_blocks, chunks, rmap, dirty, rb, taken, forks, disk, failed, err>>
  BY DEF vars, agVars, callerVars
<1>2. RmapPart => RmapPart'
  BY <1>1 DEF RmapPart, Mapped, TreesOut, InHand, TreesMapped, BaseMapped, CleanMaps
<1> QED
  BY <1>1, <1>2 DEF RmapInv

(* Every step keeps the invariant.                                         *)
LEMMA StepRmap ==
    ASSUME Parts, PoolInv, RmapInv, [Next]_vars
    PROVE  RmapInv'
<1>1. CASE UNCHANGED vars
  BY <1>1, StutterRmap
<1>2. CASE \E want \in Wants, near \in Nears : Alloc(want, near)
  BY <1>2, AllocRmap
<1>3. CASE \E not \in Nears : AllocBlockExcept(not)
  BY <1>3, AllocBlockExceptRmap
<1>4. CASE \E run \in taken : Untake(run)
  BY <1>4, UntakeRmap
<1>5. CASE \E run \in taken, ino \in Inodes, fork \in {"data", "bmbt"} : MapRun(run, ino, fork)
  BY <1>5, MapRunRmap
<1>6. CASE \E e \in forks : Release(e)
  BY <1>6, ReleaseRmap
<1>7. CASE AllocInode
  BY <1>7, AllocInodeRmap
<1>8. CASE AllocChunk
  BY <1>8, AllocChunkRmap
<1>9. CASE \E agino \in InUse : FreeInode(agino)
  BY <1>9, FreeInodeRmap
<1>10. CASE Rebuild
  BY <1>10, RebuildStartRmap, RebuildFreeRmap, RebuildBaseRmap, RebuildTryRmap, RebuildFailsRmap,
     CarveRmap, RebuildInoCarvedRmap, RebuildAgainRmap, RebuildFinishRmap DEF Rebuild
<1>11. CASE Reload
  BY <1>11, ReloadRmap
<1> QED
  BY <1>1, <1>2, <1>3, <1>4, <1>5, <1>6, <1>7, <1>8, <1>9, <1>10, <1>11 DEF Next

(* The invariant of the specification.                                     *)
LEMMA RmapCorrect == Spec => [](Inv /\ PoolInv /\ RmapInv)
<1>1. Init => Inv /\ PoolInv /\ RmapInv
  BY InitInv, InitPool, InitRmap
<1>2. (Inv /\ PoolInv /\ RmapInv) /\ [Next]_vars => (Inv /\ PoolInv /\ RmapInv)'
  <2>1. SUFFICES ASSUME Inv, PoolInv, RmapInv, [Next]_vars
                 PROVE  (Inv /\ PoolInv /\ RmapInv)'
    OBVIOUS
  <2>2. Parts
    BY <2>1, PartsAreInv
  <2>3. PoolInv' /\ RmapInv'
    BY <2>1, <2>2, StepPool, StepRmap
  <2>4. Inv'
    BY <2>1, StepInv
  <2> QED
    BY <2>3, <2>4
<1> QED
  BY <1>1, <1>2, PTL DEF Spec

(* Between calls, as long as no rebuild has failed, the reverse mappings   *)
(* say of every block with an owner whose it is, for which fork and where, *)
(* and of no other block anything: `rmap_extent`, `release` and `rebuild`  *)
(* keep them so through every split, merge and retry.                      *)
THEOREM MapsExactly == Spec => []RmapExact
<1>1. Inv /\ PoolInv /\ RmapInv => RmapExact
  <2>1. SUFFICES ASSUME RmapInv, HasRmap, rb.pc = "idle", ~ failed
                 PROVE  /\ Places(rmap) = ExactPlaces(forks, chunks, old_tree_blocks \ InoTrees(disk),
                                                      InoTrees(disk))
                        /\ ExtentsApart(rmap)
    BY DEF RmapExact
  <2>2. Mapped(rmap) /\ TreesMapped
    BY <2>1 DEF RmapInv, RmapPart
  <2>3. Places(rmap) = OwnedPlaces(forks, chunks) \cup TreePlaces(rmap)
    BY <2>2, AllPlaces DEF Mapped
  <2>4. Places(rmap) = ExactPlaces(forks, chunks, old_tree_blocks \ InoTrees(disk), InoTrees(disk))
    BY <2>1, <2>2, <2>3 DEF TreesMapped, OwnedPlaces, ExactPlaces
  <2> QED
    BY <2>2, <2>4 DEF Mapped, WellKept
<1> QED
  BY RmapCorrect, <1>1, PTL

(* `free_extent` never meets a block that is free already and `release`    *)
(* never a mapping that does not cover what is given back, not even after  *)
(* a rebuild that failed half way.                                         *)
THEOREM NeverCorrupt == Spec => []NoCorruption
<1>1. RmapInv => NoCorruption
  BY DEF RmapInv, NoCorruption
<1> QED
  BY RmapCorrect, <1>1, PTL

(* A group that is not dirty is on disk as it is in memory, and `load`     *)
(* takes it: `flush` may leave it out.                                     *)
THEOREM CleanOnDisk == Spec => []CleanIsOnDisk
<1>1. Inv /\ PoolInv /\ RmapInv => CleanIsOnDisk
  BY DEF PoolInv, CleanBlocks, RmapInv, RmapPart, CleanMaps, CleanIsOnDisk
<1> QED
  BY RmapCorrect, <1>1, PTL
=============================================================================

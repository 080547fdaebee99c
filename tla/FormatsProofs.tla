---------------------------- MODULE FormatsProofs ----------------------------
(***************************************************************************)
(* Trees of any number of records and levels read back as the records they *)
(* were built from, free lists of any size and place as their blocks; a    *)
(* damaged one is not taken for another; and a search of a tree finds what *)
(* there is.                                                               *)
(***************************************************************************)
EXTENDS Formats, ExtentsProofs, SequenceTheorems, FunctionTheorems

-----------------------------------------------------------------------------
(* Sequences, and adding them up.                                          *)

Elements(s) == {s[i] : i \in DOMAIN s}

(* A function on the first n numbers is a sequence of n.                   *)
LEMMA FunSeq ==
    ASSUME NEW n \in Nat, NEW f, f = [i \in 1..n |-> f[i]]
    PROVE  f \in Seq(Elements(f)) /\ Len(f) = n /\ DOMAIN f = 1..n
<1>1. DOMAIN f = 1..n
  OBVIOUS
<1>2. f \in [1..n -> Elements(f)]
  BY DEF Elements
<1>3. f \in Seq(Elements(f))
  BY <1>2, SeqDef
<1>4. Len(f) \in Nat /\ DOMAIN f = 1 .. Len(f)
  BY <1>3, LenProperties
<1>5. PICK m \in Nat : m = Len(f) /\ 1..m = 1..n
  BY <1>1, <1>4
<1>6. m = n
  <2>1. CASE m < n
    <3>1. n \in 1..n /\ n \notin 1..m
      BY <2>1
    <3> QED
      BY <1>5, <3>1
  <2>2. CASE n < m
    <3>1. m \in 1..m /\ m \notin 1..n
      BY <2>2
    <3> QED
      BY <1>5, <3>1
  <2> QED
    BY <2>1, <2>2
<1> QED
  BY <1>1, <1>3, <1>5, <1>6

(* A sequence is a function on the first numbers.                          *)
LEMMA SeqFun ==
    ASSUME NEW T, NEW s \in Seq(T)
    PROVE  /\ Len(s) \in Nat /\ DOMAIN s = 1 .. Len(s) /\ s = [i \in 1 .. Len(s) |-> s[i]]
           /\ \A i \in 1 .. Len(s) : s[i] \in T
<1>1. Len(s) \in Nat /\ DOMAIN s = 1 .. Len(s)
  BY LenProperties
<1>2. s \in [1 .. Len(s) -> T]
  BY LenProperties
<1> QED
  BY <1>1, <1>2

(* The sum of the first ones, as SumTo has it.                             *)
Summed(s, f) == f = [i \in 0 .. Len(s) |-> IF i = 0 THEN 0 ELSE f[i - 1] + s[i]]
SummedTo(s, m, f) == f = [i \in 0..m |-> IF i = 0 THEN 0 ELSE f[i - 1] + s[i]]

(* There is such a function.                                               *)
LEMMA SummedExists ==
    ASSUME NEW n \in Nat, NEW s, Len(s) = n
    PROVE  \E f : Summed(s, f)
<1>1. PICK S : S = {m \in Nat : \E f : SummedTo(s, m, f)}
  OBVIOUS
<1>2. 0 \in S
  <2>1. PICK f : f = [i \in 0..0 |-> 0]
    OBVIOUS
  <2>2. f = [i \in 0..0 |-> IF i = 0 THEN 0 ELSE f[i - 1] + s[i]]
    BY <2>1
  <2>3. SummedTo(s, 0, f)
    BY <2>2 DEF SummedTo
  <2> QED
    BY <1>1, <2>3
<1>3. ASSUME NEW m \in Nat, m \in S
      PROVE  m + 1 \in S
  <2>1. PICK f : SummedTo(s, m, f)
    BY <1>1, <1>3
  <2>2. PICK g : g = [i \in 0 .. (m + 1) |-> IF i = m + 1 THEN f[m] + s[m + 1] ELSE f[i]]
    OBVIOUS
  <2>3. ASSUME NEW i \in 0 .. (m + 1)
        PROVE  g[i] = IF i = 0 THEN 0 ELSE g[i - 1] + s[i]
    <3>1. CASE i = m + 1
      BY <2>2, <3>1
    <3>2. CASE i = 0
      BY <2>1, <2>2, <3>2 DEF SummedTo
    <3>3. CASE i \in 1..m
      BY <2>1, <2>2, <3>3 DEF SummedTo
    <3> QED
      BY <3>1, <3>2, <3>3
  <2>4. g = [i \in 0 .. (m + 1) |-> IF i = 0 THEN 0 ELSE g[i - 1] + s[i]]
    BY <2>2, <2>3
  <2>5. SummedTo(s, m + 1, g)
    BY <2>4 DEF SummedTo
  <2> QED
    BY <1>1, <2>5
<1>4. n \in S
  BY <1>2, <1>3, SetInduction
<1> QED
  BY <1>1, <1>4 DEF Summed, SummedTo

(* Adding up counts.                                                       *)
Adding(s, n) ==
    /\ SumTo(s, 0) = 0
    /\ \A i \in 1..n : SumTo(s, i) = SumTo(s, i - 1) + s[i]
    /\ \A i \in 0..n : SumTo(s, i) \in Nat
    /\ \A i, j \in 0..n : i <= j => SumTo(s, i) <= SumTo(s, j)

(* That is what SumTo does.                                                *)
LEMMA SumIs ==
    ASSUME NEW n \in Nat, NEW s, Len(s) = n, \A i \in 1..n : s[i] \in Nat
    PROVE  Adding(s, n)
<1>1. PICK f : f = CHOOSE g : Summed(s, g)
  OBVIOUS
<1>2. Summed(s, f)
  BY <1>1, SummedExists
<1>3. \A i : SumTo(s, i) = f[i]
  BY <1>1 DEF SumTo, Summed
<1>4. f[0] = 0 /\ \A i \in 1..n : f[i] = f[i - 1] + s[i]
  BY <1>2 DEF Summed
<1>5. PICK S : S = {m \in Nat : m <= n => f[m] \in Nat /\ \A i \in 0..m : f[i] \in Nat /\ f[i] <= f[m]}
  OBVIOUS
<1>6. 0 \in S
  BY <1>4, <1>5
<1>7. ASSUME NEW m \in Nat, m \in S
      PROVE  m + 1 \in S
  <2>1. SUFFICES ASSUME m + 1 <= n
                 PROVE  f[m + 1] \in Nat /\ \A i \in 0 .. (m + 1) : f[i] \in Nat /\ f[i] <= f[m + 1]
    BY <1>5
  <2>2. f[m] \in Nat /\ \A i \in 0..m : f[i] \in Nat /\ f[i] <= f[m]
    BY <1>5, <1>7, <2>1
  <2>3. PICK a \in Nat, b \in Nat : a = f[m] /\ b = s[m + 1]
    BY <2>1, <2>2
  <2>4. f[m + 1] = a + b
    BY <1>4, <2>1, <2>3
  <2>5. ASSUME NEW i \in 0 .. (m + 1)
        PROVE  f[i] \in Nat /\ f[i] <= f[m + 1]
    <3>1. CASE i = m + 1
      BY <2>4, <3>1
    <3>2. CASE i # m + 1
      <4>1. i \in 0..m
        BY <3>2
      <4> QED
        BY <2>2, <2>3, <2>4, <4>1
    <3> QED
      BY <3>1, <3>2
  <2> QED
    BY <2>4, <2>5
<1>8. \A m \in Nat : m \in S
  BY <1>6, <1>7, SetInduction
<1>9. ASSUME NEW j \in 0..n
      PROVE  f[j] \in Nat /\ \A i \in 0..j : f[i] <= f[j]
  <2>1. j \in S /\ j <= n
    BY <1>8
  <2> QED
    BY <1>5, <2>1
<1>10. ASSUME NEW i \in 0..n, NEW j \in 0..n, i <= j
       PROVE  f[i] <= f[j]
  BY <1>9, <1>10
<1> QED
  BY <1>3, <1>4, <1>9, <1>10 DEF Adding
-----------------------------------------------------------------------------
(* Sharing out.                                                            *)

Given(q, r, k) == [i \in 1..k |-> q + IF i <= r THEN 1 ELSE 0]

(* A quotient each, and one more for the first of them.                    *)
LEMMA SpreadIs ==
    ASSUME NEW n \in Nat, NEW k \in Nat \ {0}
    PROVE  \E q \in Nat, r \in 0 .. (k - 1) : n = q * k + r /\ spread(n, k) = Given(q, r, k)
<1>1. n = (n \div k) * k + (n % k) /\ n % k \in 0 .. (k - 1) /\ n \div k \in Int
  BY ModSplit
<1>2. PICK q \in Int, r \in 0 .. (k - 1) : q = n \div k /\ r = n % k /\ n = q * k + r
  BY <1>1
<1>3. q \in Nat
  <2>1. SUFFICES ASSUME q <= -1 PROVE FALSE
    BY <1>2
  <2>2. PICK d \in Nat : q = -1 - d
    <3>1. -1 - q \in Nat
      BY <1>2, <2>1
    <3> QED
      BY <3>1
  <2>3. q * k = -k - d * k /\ d * k >= 0
    BY <1>2, <2>2
  <2> QED
    BY <1>2, <2>3
<1>4. spread(n, k) = Given(q, r, k)
  BY <1>2 DEF spread, Given
<1> QED
  BY <1>2, <1>3, <1>4

(* What the first i of k get of n.                                         *)
CutAt(n, k, i) == SumTo(spread(n, k), i)
Share(n, k, i) == CutAt(n, k, i) - CutAt(n, k, i - 1)

Cutting(n, k) ==
    /\ CutAt(n, k, 0) = 0 /\ CutAt(n, k, k) = n
    /\ \A i \in 0..k : CutAt(n, k, i) \in Nat
    /\ \A i, j \in 0..k : i <= j => CutAt(n, k, i) <= CutAt(n, k, j)

(* Of the shares, some have one more than others.                          *)
Even(n, k, q) ==
    /\ \A i \in 1..k : Share(n, k, i) \in {q, q + 1}
    /\ q * k <= n /\ (q * k = n => \A i \in 1..k : Share(n, k, i) = q)

(* Everything is given, in shares as even as they can be.                  *)
LEMMA CutsAre ==
    ASSUME NEW n \in Nat, NEW k \in Nat \ {0}
    PROVE  Cutting(n, k) /\ \E q \in Nat : Even(n, k, q) /\ n < q * k + k
<1>1. PICK q \in Nat, r \in 0 .. (k - 1) : n = q * k + r /\ spread(n, k) = Given(q, r, k)
  BY SpreadIs
<1>2. PICK s : s = spread(n, k)
  OBVIOUS
<1>3. s = [i \in 1..k |-> s[i]] /\ \A i \in 1..k : s[i] = q + IF i <= r THEN 1 ELSE 0
  BY <1>1, <1>2 DEF Given
<1>4. Len(s) = k
  BY <1>3, FunSeq
<1>5. \A i \in 1..k : s[i] \in Nat
  BY <1>3
<1>6. Adding(s, k)
  BY <1>4, <1>5, SumIs
<1>7. PICK S : S = {m \in Nat : m <= k => SumTo(s, m) = m * q + IF m <= r THEN m ELSE r}
  OBVIOUS
<1>8. 0 \in S
  BY <1>6, <1>7 DEF Adding
<1>9. ASSUME NEW m \in Nat, m \in S
      PROVE  m + 1 \in S
  <2>1. SUFFICES ASSUME m + 1 <= k
                 PROVE  SumTo(s, m + 1) = (m + 1) * q + IF m + 1 <= r THEN m + 1 ELSE r
    BY <1>7
  <2>2. SumTo(s, m) = m * q + IF m <= r THEN m ELSE r
    BY <1>7, <1>9, <2>1
  <2>3. m + 1 \in 1..k /\ (m + 1) - 1 = m
    BY <2>1
  <2>4. SumTo(s, m + 1) = SumTo(s, m) + s[m + 1]
    BY <1>6, <2>3 DEF Adding
  <2>5. s[m + 1] = q + IF m + 1 <= r THEN 1 ELSE 0
    BY <1>3, <2>3
  <2>6. (m + 1) * q = m * q + q
    OBVIOUS
  <2> QED
    BY <2>2, <2>4, <2>5, <2>6
<1>10. \A m \in Nat : m \in S
  BY <1>8, <1>9, SetInduction
<1>11. SumTo(s, k) = k * q + r
  <2>1. k \in S /\ k <= k /\ ~(k <= r)
    BY <1>10
  <2> QED
    BY <1>7, <2>1
<1>12. Cutting(n, k)
  <2>1. SumTo(s, k) = n
    BY <1>1, <1>11
  <2> QED
    BY <1>2, <1>6, <2>1, Zenon DEF Cutting, CutAt, Adding
<1>13. ASSUME NEW i \in 1..k
       PROVE  Share(n, k, i) = q + IF i <= r THEN 1 ELSE 0
  <2>1. i - 1 \in 0..k /\ i \in 0..k
    OBVIOUS
  <2>2. PICK a \in Nat, b \in Nat : a = SumTo(s, i - 1) /\ b = SumTo(s, i)
    BY <1>6, <2>1 DEF Adding
  <2>3. b = a + s[i]
    BY <1>6, <2>2 DEF Adding
  <2>4. s[i] = q + IF i <= r THEN 1 ELSE 0
    BY <1>3
  <2>5. Share(n, k, i) = b - a
    BY <1>2, <2>2 DEF Share, CutAt
  <2> QED
    BY <2>2, <2>3, <2>4, <2>5
<1>14. \A i \in 1..k : Share(n, k, i) \in {q, q + 1}
  BY <1>13
<1>15. q * k <= n /\ n < q * k + k
  BY <1>1
<1>16. ASSUME q * k = n
       PROVE  \A i \in 1..k : Share(n, k, i) = q
  <2>1. r = 0
    BY <1>1, <1>16
  <2> QED
    BY <1>13, <2>1
<1>17. Even(n, k, q)
  BY <1>14, <1>15, <1>16 DEF Even
<1> QED
  BY <1>12, <1>15, <1>17

(* No share is larger than m if there are as many as that needs.           *)
LEMMA SharesFit ==
    ASSUME NEW n \in Nat, NEW k \in Nat \ {0}, NEW m \in Nat, n <= k * m, NEW i \in 1..k
    PROVE  Share(n, k, i) \in 0..m
<1>1. PICK q \in Nat : Even(n, k, q)
  BY CutsAre
<1>2. q <= m
  <2>1. SUFFICES ASSUME q >= m + 1 PROVE FALSE
    OBVIOUS
  <2>2. PICK d \in Nat : q = m + 1 + d
    <3>1. q - (m + 1) \in Nat
      BY <2>1
    <3> QED
      BY <3>1
  <2>3. q * k = k * m + k + d * k /\ d * k >= 0
    BY <2>2
  <2>4. q * k <= n
    BY <1>1 DEF Even
  <2> QED
    BY <2>3, <2>4
<1>3. CASE q = m
  <2>1. q * k = n
    <3>1. q * k <= n /\ q * k = k * m
      BY <1>1, <1>3 DEF Even
    <3> QED
      BY <3>1
  <2>2. Share(n, k, i) = q
    BY <1>1, <2>1 DEF Even
  <2> QED
    BY <1>3, <2>2
<1>4. CASE q < m
  <2>1. Share(n, k, i) \in {q, q + 1}
    BY <1>1 DEF Even
  <2> QED
    BY <1>4, <2>1
<1> QED
  BY <1>2, <1>3, <1>4

(* No share is empty if there is one for each.                             *)
LEMMA SharesHold ==
    ASSUME NEW n \in Nat, NEW k \in Nat \ {0}, k <= n, NEW i \in 1..k
    PROVE  Share(n, k, i) >= 1
<1>1. PICK q \in Nat : Even(n, k, q) /\ n < q * k + k
  BY CutsAre
<1>2. q >= 1
  <2>1. SUFFICES ASSUME q = 0 PROVE FALSE
    OBVIOUS
  <2>2. q * k = 0
    BY <2>1
  <2> QED
    BY <1>1, <2>2
<1> QED
  BY <1>1, <1>2 DEF Even

(* A part of a sequence, item by item.                                     *)
LEMMA PartIs ==
    ASSUME NEW T, NEW s \in Seq(T), NEW a \in Nat, NEW b \in Nat, a <= b, b <= Len(s)
    PROVE  SubSeq(s, a + 1, b) = [j \in 1 .. (b - a) |-> s[a + j]]
<1>1. PICK n \in Nat : n = Len(s)
  BY SeqFun
<1>2. PICK w : w = SubSeq(s, a + 1, b)
  OBVIOUS
<1>3. a + 1 \in 1 .. (n + 1) /\ b \in (a + 1) - 1 .. n
  BY <1>1
<1>4. w \in Seq(T) /\ Len(w) = b - (a + 1) + 1 /\ \A i \in 1 .. (b - (a + 1) + 1) : w[i] = s[a + 1 + i - 1]
  BY <1>1, <1>2, <1>3, SubSeqProperties
<1>5. PICK m \in Nat : m = b - a
  <2>1. b - a \in Nat
    OBVIOUS
  <2> QED
    BY <2>1
<1>6. Len(w) = m
  BY <1>4, <1>5
<1>7. \A i \in 1..m : w[i] = s[a + i]
  BY <1>4, <1>5
<1>8. w = [i \in 1 .. Len(w) |-> w[i]]
  BY <1>4, SeqFun
<1>9. w = [i \in 1..m |-> w[i]]
  BY <1>6, <1>8
<1>10. w = [i \in 1..m |-> s[a + i]]
  BY <1>7, <1>9
<1> QED
  BY <1>2, <1>5, <1>10

Part(n, k, s, i) == [j \in 1 .. Share(n, k, i) |-> s[CutAt(n, k, i - 1) + j]]
Parts(n, k, s) == [i \in 1..k |-> Part(n, k, s, i)]

(* The parts of a sequence are one after the other in it.                  *)
LEMMA SharesAre ==
    ASSUME NEW n \in Nat, NEW k \in Nat \ {0}, NEW s, s = [j \in 1..n |-> s[j]], NEW sh, sh = Shares(s, k)
    PROVE  sh = Parts(n, k, s)
<1>1. s \in Seq(Elements(s)) /\ Len(s) = n
  BY FunSeq
<1>2. sh = [i \in 1..k |-> SubSeq(s, SumTo(spread(n, k), i - 1) + 1, SumTo(spread(n, k), i))]
  BY <1>1 DEF Shares
<1>3. sh = [i \in 1..k |-> sh[i]]
  BY <1>2
<1>4. ASSUME NEW i \in 1..k
      PROVE  sh[i] = Part(n, k, s, i)
  <2>1. i - 1 \in 0..k /\ i \in 0..k
    OBVIOUS
  <2>2. PICK a \in Nat, b \in Nat : a = CutAt(n, k, i - 1) /\ b = CutAt(n, k, i) /\ a <= b /\ b <= n
    <3>1. Cutting(n, k)
      BY CutsAre
    <3>2. k \in 0..k /\ i - 1 <= i /\ i <= k
      OBVIOUS
    <3> QED
      BY <2>1, <3>1, <3>2 DEF Cutting
  <2>3. sh[i] = SubSeq(s, a + 1, b)
    BY <1>2, <2>2 DEF CutAt
  <2>4. SubSeq(s, a + 1, b) = [j \in 1 .. (b - a) |-> s[a + j]]
    BY <1>1, <2>2, PartIs, Z3
  <2> QED
    BY <2>2, <2>3, <2>4 DEF Share, Part
<1> QED
  BY <1>3, <1>4 DEF Parts
-----------------------------------------------------------------------------
(* The sizes of the levels.                                                *)

OneMore(f, k, m, r) == IF k <= r THEN <<k>> ELSE <<k>> \o f[Ceil(k, m)]
Upward(f, m, r) == f = [k \in Nat |-> OneMore(f, k, m, r)]

(* There are such sizes, as levels get smaller.                            *)
LEMMA UpwardExists ==
    ASSUME NEW m \in Nat \ {0, 1}, NEW r \in Nat \ {0}
    PROVE  \E f : Upward(f, m, r)
<1>1. PICK T : T = Seq(Nat)
  OBVIOUS
<1>2. PICK F : F = Family(Nat, T, [k \in Nat |-> T])
  OBVIOUS
<1>3. F # {}
  <2>1. PICK f : f = [k \in Nat |-> <<k>>]
    OBVIOUS
  <2>2. f \in F
    BY <1>1, <1>2, <2>1 DEF Family
  <2> QED
    BY <2>2
<1>4. PICK G : G = [f \in F |-> [k \in Nat |-> OneMore(f, k, m, r)]]
  OBVIOUS
<1>5. ASSUME NEW k \in Nat, ~(k <= r)
      PROVE  Ceil(k, m) \in Nat /\ <<Ceil(k, m), k>> \in Smaller
  <2>1. k > 1
    BY <1>5
  <2>2. PICK q \in Nat : q = Ceil(k, m) /\ q < k
    BY <2>1, CeilLess DEF Ceil
  <2> QED
    BY <2>2 DEF Smaller
<1>6. ASSUME NEW f \in F
      PROVE  G[f] \in F
  <2>1. ASSUME NEW k \in Nat
        PROVE  OneMore(f, k, m, r) \in T
    <3>1. <<k>> \in T
      BY <1>1
    <3>2. CASE k <= r
      BY <3>1, <3>2 DEF OneMore
    <3>3. CASE ~(k <= r)
      <4>1. PICK q \in Nat : q = Ceil(k, m)
        BY <1>5, <3>3
      <4>2. f \in [Nat -> T]
        BY <1>2 DEF Family
      <4>3. f[q] \in T
        BY <4>2
      <4>4. <<k>> \o f[q] \in T
        BY <1>1, <3>1, <4>3
      <4> QED
        BY <3>3, <4>1, <4>4 DEF OneMore
    <3> QED
      BY <3>2, <3>3
  <2>2. [k \in Nat |-> OneMore(f, k, m, r)] \in [Nat -> T]
    BY <2>1
  <2> QED
    BY <1>2, <1>4, <2>2 DEF Family
<1>7. ASSUME NEW f \in F, NEW g \in F, NEW k \in Nat, Same(Nat, Smaller, f, g, k)
      PROVE  G[f][k] = G[g][k]
  <2>1. ~(k <= r) => f[Ceil(k, m)] = g[Ceil(k, m)]
    BY <1>5, <1>7 DEF Same
  <2>2. OneMore(f, k, m, r) = OneMore(g, k, m, r)
    BY <2>1 DEF OneMore
  <2> QED
    BY <1>4, <2>2
<1>8. G \in [F -> F]
  BY <1>4, <1>6
<1>9. LooksBelow(Nat, Smaller, F, G)
  BY <1>7, <1>8 DEF LooksBelow
<1>10. PICK f \in F : f = G[f]
  BY <1>2, <1>3, <1>9, NatDescends, Recursion
<1> QED
  BY <1>4, <1>10 DEF Upward

(* Sizes from k up: each is the one below divided by m, rounded up, and    *)
(* the last is the first that fits in the root.                            *)
Sized(s, k, m, r) ==
    /\ Len(s) \in Nat \ {0} /\ s = [i \in 1 .. Len(s) |-> s[i]]
    /\ \A i \in 1 .. Len(s) : s[i] \in Nat \ {0}
    /\ s[1] = k /\ s[Len(s)] <= r
    /\ \A i \in 1 .. Len(s) : i # Len(s) => s[i] > r /\ s[i + 1] = Ceil(s[i], m)

(* One size before others.                                                 *)
LEMMA OnceMore ==
    ASSUME NEW k \in Nat \ {0}, NEW m, NEW r \in Nat \ {0}, k > r, NEW t, Sized(t, Ceil(k, m), m, r)
    PROVE  Sized(<<k>> \o t, k, m, r)
<1>1. PICK n \in Nat \ {0} : n = Len(t)
  BY DEF Sized
<1>2. t = [i \in 1..n |-> t[i]] /\ \A i \in 1..n : t[i] \in Nat \ {0}
  BY <1>1 DEF Sized
<1>3. t \in Seq(Nat \ {0})
  <2>1. t \in [1..n -> Nat \ {0}]
    BY <1>2
  <2> QED
    BY <2>1, SeqDef
<1>4. PICK s : s = <<k>> \o t
  OBVIOUS
<1>5. <<k>> \in Seq(Nat \ {0}) /\ Len(<<k>>) = 1 /\ <<k>>[1] = k
  OBVIOUS
<1>6. s \in Seq(Nat \ {0}) /\ Len(s) = n + 1
  BY <1>1, <1>3, <1>4, <1>5, ConcatProperties
<1>7. \A i \in 1 .. (n + 1) : s[i] = IF i <= 1 THEN <<k>>[i] ELSE t[i - 1]
  BY <1>1, <1>3, <1>4, <1>5, <1>6, ConcatProperties
<1>8. s[1] = k /\ \A i \in 1..n : s[i + 1] = t[i]
  <2>1. s[1] = k
    BY <1>5, <1>7
  <2>2. ASSUME NEW i \in 1..n
        PROVE  s[i + 1] = t[i]
    <3>1. i + 1 \in 1 .. (n + 1) /\ ~(i + 1 <= 1) /\ (i + 1) - 1 = i
      OBVIOUS
    <3> QED
      BY <1>7, <3>1
  <2> QED
    BY <2>1, <2>2
<1>9. s = [i \in 1 .. Len(s) |-> s[i]] /\ \A i \in 1 .. Len(s) : s[i] \in Nat \ {0}
  BY <1>6, SeqFun
<1>10. s[n + 1] <= r
  <2>1. t[n] <= r
    BY <1>1 DEF Sized
  <2> QED
    BY <1>8, <2>1
<1>11. ASSUME NEW i \in 1 .. (n + 1), i # n + 1
       PROVE  s[i] > r /\ s[i + 1] = Ceil(s[i], m)
  <2>1. CASE i = 1
    <3>1. t[1] = Ceil(k, m) /\ s[1 + 1] = t[1]
      BY <1>8, Z3 DEF Sized
    <3> QED
      BY <1>8, <2>1, <3>1
  <2>2. CASE i # 1
    <3>1. PICK j \in 1..n : i = j + 1 /\ j # n
      <4>1. i - 1 \in 1..n /\ i = (i - 1) + 1 /\ i - 1 # n
        BY <1>11, <2>2
      <4> QED
        BY <4>1
    <3>2. t[j] > r /\ t[j + 1] = Ceil(t[j], m)
      BY <1>1, <3>1 DEF Sized
    <3>3. s[j + 1] = t[j] /\ s[(j + 1) + 1] = t[j + 1]
      BY <1>8, <3>1
    <3> QED
      BY <3>1, <3>2, <3>3
  <2> QED
    BY <2>1, <2>2
<1>12. PICK l \in Nat \ {0} : l = n + 1 /\ l = Len(s)
  <2>1. n + 1 \in Nat \ {0}
    OBVIOUS
  <2> QED
    BY <1>6, <2>1
<1>13. s[l] <= r /\ \A i \in 1..l : i # l => s[i] > r /\ s[i + 1] = Ceil(s[i], m)
  BY <1>10, <1>11, <1>12
<1>14. Sized(s, k, m, r)
  BY <1>8, <1>9, <1>12, <1>13, Zenon DEF Sized
<1> QED
  BY <1>4, <1>14

(* The sizes of the levels are such.                                       *)
LEMMA SizesAre ==
    ASSUME NEW m \in Nat \ {0, 1}, NEW r \in Nat \ {0}, NEW f, Upward(f, m, r), NEW k \in Nat \ {0}
    PROVE  Sized(f[k], k, m, r)
<1>1. PICK U : U = {j \in Nat \ {0} : ~ Sized(f[j], j, m, r)}
  OBVIOUS
<1>2. SUFFICES ASSUME U # {} PROVE FALSE
  BY <1>1
<1>3. PICK j \in U : \A y \in U : j <= y
  BY <1>1, <1>2, MinOfNats, Z3
<1>4. j \in Nat \ {0} /\ ~ Sized(f[j], j, m, r) /\ f[j] = OneMore(f, j, m, r)
  BY <1>1, <1>3 DEF Upward
<1>5. CASE j <= r
  <2>1. f[j] = <<j>>
    BY <1>4, <1>5 DEF OneMore
  <2>2. Len(<<j>>) = 1 /\ <<j>>[1] = j /\ <<j>> = [i \in 1..1 |-> <<j>>[i]]
    OBVIOUS
  <2>3. PICK s : s = <<j>>
    OBVIOUS
  <2>4. Len(s) = 1 /\ s[1] = j /\ s = [i \in 1..1 |-> s[i]]
    BY <2>2, <2>3
  <2>5. Sized(s, j, m, r)
    BY <1>4, <1>5, <2>4 DEF Sized
  <2> QED
    BY <1>4, <2>1, <2>3, <2>5
<1>6. CASE ~(j <= r)
  <2>1. j > 1
    BY <1>4, <1>6
  <2>2. PICK q \in Nat \ {0} : q = Ceil(j, m) /\ q < j
    BY <1>4, <2>1, CeilLess DEF Ceil
  <2>3. Sized(f[q], q, m, r)
    BY <1>1, <1>3, <2>2
  <2>4. f[j] = <<j>> \o f[q]
    BY <1>4, <1>6, <2>2 DEF OneMore
  <2>5. j > r
    BY <1>4, <1>6
  <2> QED
    BY <1>4, <2>2, <2>3, <2>4, <2>5, OnceMore
<1> QED
  BY <1>5, <1>6

(* There is at least one leaf, and room for all records.                   *)
LEMMA LeavesAre ==
    ASSUME NEW n \in Nat, NEW m \in Nat \ {0}
    PROVE  Leaves(n, m) \in Nat \ {0} /\ n <= Leaves(n, m) * m
<1>1. CASE n = 0
  <2>1. Leaves(n, m) = 1
    BY <1>1 DEF Leaves
  <2> QED
    BY <1>1, <2>1
<1>2. CASE n # 0
  <2>1. PICK q \in Nat : q = (n + m - 1) \div m /\ n <= q * m
    BY CeilIs
  <2>2. q # 0
    BY <1>2, <2>1
  <2>3. Leaves(n, m) = q
    BY <1>2, <2>1 DEF Leaves, div_ceil
  <2> QED
    BY <2>1, <2>2, <2>3
<1> QED
  BY <1>1, <1>2

(* So `level_sizes` and `bmap_level_sizes` are.                            *)
LEMMA LevelSizesAre ==
    ASSUME NEW n \in Nat, NEW leaf \in Nat \ {0}, NEW m \in Nat \ {0, 1}, NEW r \in Nat \ {0}
    PROVE  Sized(LevelSizes(n, leaf, m, r), Leaves(n, leaf), m, r)
<1>1. PICK k \in Nat \ {0} : k = Leaves(n, leaf)
  BY LeavesAre
<1>2. PICK f : f = CHOOSE g : Upward(g, m, r)
  OBVIOUS
<1>3. Upward(f, m, r)
  BY <1>2, UpwardExists
<1>4. LevelSizes(n, leaf, m, r) = f[k]
  BY <1>1, <1>2 DEF LevelSizes, Upward, OneMore, div_ceil, Ceil
<1> QED
  BY <1>1, <1>3, <1>4, SizesAre

(* Added up, they are what `blocks_for` says.                              *)
LEMMA BlocksForIs ==
    ASSUME NEW n \in Nat, NEW leaf \in Nat \ {0}, NEW m \in Nat \ {0, 1},
           NEW s, s = LevelSizes(n, leaf, m, 1)
    PROVE  SumTo(s, Len(s)) = blocks_for(n, leaf, m)
<1>1. PICK k \in Nat \ {0} : k = Leaves(n, leaf)
  BY LeavesAre
<1>2. Sized(s, k, m, 1)
  BY <1>1, LevelSizesAre
<1>3. PICK h \in Nat \ {0} : h = Len(s)
  BY <1>2 DEF Sized
<1>4. \A i \in 1..h : s[i] \in Nat \ {0}
  BY <1>2, <1>3 DEF Sized
<1>5. Adding(s, h)
  BY <1>3, <1>4, SumIs
<1>6. PICK f : f = CHOOSE g : Adds(g, m)
  OBVIOUS
<1>7. Adds(f, m)
  BY <1>6, AddsExists
<1>8. blocks_for(n, leaf, m) = f[k]
  BY <1>1, <1>6 DEF blocks_for, Adds, Summand, div_ceil, Ceil
<1>9. PICK S : S = {i \in Nat : i + 1 <= h => SumTo(s, i) + f[s[i + 1]] = f[k]}
  OBVIOUS
<1>10. 0 \in S
  <2>1. SumTo(s, 0) = 0 /\ s[1] = k /\ f[k] \in Nat
    BY <1>2, <1>5, <1>7, AddsNat DEF Adding, Sized
  <2> QED
    BY <1>9, <2>1
<1>11. ASSUME NEW i \in Nat, i \in S
       PROVE  i + 1 \in S
  <2>1. SUFFICES ASSUME (i + 1) + 1 <= h
                 PROVE  SumTo(s, i + 1) + f[s[(i + 1) + 1]] = f[k]
    BY <1>9
  <2>2. PICK j \in 1..h : j = i + 1 /\ j # h /\ j + 1 \in 1..h /\ j - 1 = i
    BY <2>1
  <2>3. PICK a \in Nat \ {0}, b \in Nat \ {0} : a = s[j] /\ b = s[j + 1]
    BY <1>4, <2>2
  <2>4. a > 1 /\ b = Ceil(a, m)
    BY <1>2, <1>3, <2>2, <2>3 DEF Sized
  <2>5. f[a] = a + f[b] /\ f[b] \in Nat
    <3>1. ~(a <= 1)
      BY <2>4
    <3> QED
      BY <1>7, <2>4, <3>1, AddsNat DEF Adds, Summand
  <2>6. SumTo(s, j) = SumTo(s, i) + a /\ SumTo(s, i) \in Nat
    BY <1>5, <2>2, <2>3 DEF Adding
  <2>7. SumTo(s, i) + f[a] = f[k]
    BY <1>9, <1>11, <2>2, <2>3
  <2> QED
    BY <2>2, <2>3, <2>5, <2>6, <2>7
<1>12. \A i \in Nat : i \in S
  BY <1>10, <1>11, SetInduction
<1>13. PICK i \in Nat : i + 1 = h
  <2>1. h - 1 \in Nat /\ (h - 1) + 1 = h
    OBVIOUS
  <2> QED
    BY <2>1
<1>14. SumTo(s, i) + f[s[h]] = f[k]
  BY <1>9, <1>12, <1>13
<1>15. s[h] = 1 /\ f[s[h]] = 1
  <2>1. s[h] <= 1 /\ s[h] \in Nat \ {0}
    BY <1>2, <1>3, <1>4 DEF Sized
  <2>2. s[h] = 1
    BY <2>1
  <2>3. f[1] = 1
    BY <1>7 DEF Adds, Summand
  <2> QED
    BY <2>2, <2>3
<1>16. SumTo(s, h) = SumTo(s, h - 1) + s[h] /\ h - 1 = i
  BY <1>5, <1>13 DEF Adding
<1> QED
  BY <1>3, <1>8, <1>14, <1>15, <1>16
-----------------------------------------------------------------------------
(* The blocks of the levels.                                               *)

(* A function on the first n numbers.                                      *)
Listed(f, n) == f = [i \in 1..n |-> f[i]]

(* A block has its address, its level, its part of the items and its       *)
(* neighbours.                                                             *)
BlockHas(b, lev, c, items, k, as, i) ==
    /\ b.addr = as[i] /\ b.level = lev
    /\ b.ents = Part(c, k, items, i)
    /\ b.left = (IF i = 1 THEN Null ELSE as[i - 1]) /\ b.right = (IF i = k THEN Null ELSE as[i + 1])

(* The fields of a block.                                                  *)
LEMMA BlockFields ==
    ASSUME NEW a, NEW lev, NEW ents, NEW left, NEW right,
           NEW b, b = [addr |-> a, level |-> lev, ents |-> ents, left |-> left, right |-> right]
    PROVE  b.addr = a /\ b.level = lev /\ b.ents = ents /\ b.left = left /\ b.right = right
OBVIOUS

(* So do the blocks of a level.                                            *)
LEMMA LevelIs ==
    ASSUME NEW k \in Nat \ {0}, NEW c \in Nat, NEW items, Listed(items, c),
           NEW as, Listed(as, k), NEW lev, NEW L, L = Level(lev, items, as)
    PROVE  Listed(L, k) /\ \A i \in 1..k : BlockHas(L[i], lev, c, items, k, as, i)
<1>1. Len(as) = k /\ DOMAIN as = 1..k
  BY FunSeq DEF Listed
<1>2. PICK sh : sh = Shares(items, k)
  OBVIOUS
<1>3. L = [i \in 1..k |-> [addr |-> as[i], level |-> lev, ents |-> sh[i],
                           left |-> IF i = 1 THEN Null ELSE as[i - 1],
                           right |-> IF i = k THEN Null ELSE as[i + 1]]]
  BY <1>1, <1>2 DEF Level
<1>4. \A i \in 1..k : sh[i] = Part(c, k, items, i)
  <2>1. sh = Parts(c, k, items)
    BY <1>2, SharesAre DEF Listed
  <2> QED
    BY <2>1 DEF Parts
<1>5. ASSUME NEW i \in 1..k
      PROVE  BlockHas(L[i], lev, c, items, k, as, i)
  <2>1. PICK left, right : left = (IF i = 1 THEN Null ELSE as[i - 1]) /\ right = (IF i = k THEN Null ELSE as[i + 1])
    OBVIOUS
  <2>2. L[i] = [addr |-> as[i], level |-> lev, ents |-> sh[i], left |-> left, right |-> right]
    BY <1>3, <2>1
  <2>3. /\ L[i].addr = as[i] /\ L[i].level = lev /\ L[i].ents = sh[i]
        /\ L[i].left = left /\ L[i].right = right
    BY <2>2, BlockFields
  <2>4. sh[i] = Part(c, k, items, i)
    BY <1>4
  <2> QED
    BY <2>1, <2>3, <2>4 DEF BlockHas
<1>6. Listed(L, k)
  BY <1>3 DEF Listed
<1> QED
  BY <1>5, <1>6

(* What a level is made from, and where its blocks go.                     *)
Items(lv, recs, l) == IF l = 1 THEN recs ELSE Entries(lv[l - 1])
Places(sizes, addrs, l) == SubSeq(addrs, SumTo(sizes, l - 1) + 1, SumTo(sizes, l))
Leveled(lv, recs, sizes, addrs, m) ==
    lv = [l \in 1..m |-> Level(l - 1, Items(lv, recs, l), Places(sizes, addrs, l))]

(* There are levels of any number.                                         *)
LEMMA LevelsExist ==
    ASSUME NEW recs, NEW sizes, NEW addrs, NEW n \in Nat
    PROVE  \E lv : Leveled(lv, recs, sizes, addrs, n)
<1>1. PICK S : S = {m \in Nat : \E lv : Leveled(lv, recs, sizes, addrs, m)}
  OBVIOUS
<1>2. 0 \in S
  <2>1. PICK lv : lv = [l \in 1..0 |-> 0]
    OBVIOUS
  <2>2. lv = [l \in 1..0 |-> Level(l - 1, Items(lv, recs, l), Places(sizes, addrs, l))]
    BY <2>1
  <2>3. Leveled(lv, recs, sizes, addrs, 0)
    BY <2>2, Zenon DEF Leveled
  <2> QED
    BY <1>1, <2>3
<1>3. ASSUME NEW m \in Nat, m \in S
      PROVE  m + 1 \in S
  <2>1. PICK f : Leveled(f, recs, sizes, addrs, m)
    BY <1>1, <1>3
  <2>2. PICK new : new = Level((m + 1) - 1, Items(f, recs, m + 1), Places(sizes, addrs, m + 1))
    OBVIOUS
  <2>3. PICK g : g = [l \in 1 .. (m + 1) |-> IF l = m + 1 THEN new ELSE f[l]]
    OBVIOUS
  <2>4. ASSUME NEW l \in 1 .. (m + 1)
        PROVE  g[l] = Level(l - 1, Items(g, recs, l), Places(sizes, addrs, l))
    <3>1. Items(g, recs, l) = Items(f, recs, l)
      <4>1. CASE l = 1
        BY <4>1 DEF Items
      <4>2. CASE l # 1
        <5>1. l - 1 \in 1 .. (m + 1) /\ l - 1 # m + 1
          BY <4>2
        <5>2. g[l - 1] = f[l - 1]
          BY <2>3, <5>1
        <5> QED
          BY <4>2, <5>2 DEF Items
      <4> QED
        BY <4>1, <4>2
    <3>2. CASE l = m + 1
      BY <2>2, <2>3, <3>1, <3>2
    <3>3. CASE l # m + 1
      <4>1. l \in 1..m
        BY <3>3
      <4>2. f[l] = Level(l - 1, Items(f, recs, l), Places(sizes, addrs, l))
        BY <2>1, <4>1 DEF Leveled
      <4>3. g[l] = f[l]
        BY <2>3, <3>3
      <4> QED
        BY <3>1, <4>2, <4>3
    <3> QED
      BY <3>2, <3>3
  <2>5. g = [l \in 1 .. (m + 1) |-> Level(l - 1, Items(g, recs, l), Places(sizes, addrs, l))]
    BY <2>3, <2>4
  <2>6. Leveled(g, recs, sizes, addrs, m + 1)
    BY <2>5 DEF Leveled
  <2> QED
    BY <1>1, <2>6
<1>4. n \in S
  BY <1>2, <1>3, SetInduction
<1> QED
  BY <1>1, <1>4

(* Such are those of a tree.                                               *)
LEMMA LevelsAre ==
    ASSUME NEW recs, NEW sizes, NEW addrs, Len(sizes) \in Nat, NEW lv, lv = Levels(recs, sizes, addrs)
    PROVE  Leveled(lv, recs, sizes, addrs, Len(sizes))
<1>1. PICK f : f = CHOOSE g : Leveled(g, recs, sizes, addrs, Len(sizes))
  OBVIOUS
<1>2. Leveled(f, recs, sizes, addrs, Len(sizes))
  BY <1>1, LevelsExist
<1>3. lv = [l \in 1 .. Len(sizes) |-> f[l]]
  BY <1>1 DEF Levels, Leveled, Items, Places
<1>4. Listed(f, Len(sizes))
  BY <1>2 DEF Leveled, Listed
<1> QED
  BY <1>2, <1>3, <1>4 DEF Listed

(* Where block i of level l lies in the tree's blocks, counted from the    *)
(* leaves; and how many items a level shares out.                          *)
Nth(sizes, l, i) == SumTo(sizes, l - 1) + i
Count(n, sizes, l) == IF l = 1 THEN n ELSE sizes[l - 1]

(* The levels of a tree, block by block.                                   *)
Layered(lv, recs, n, sizes, addrs) ==
    /\ Listed(lv, Len(sizes))
    /\ \A l \in 1 .. Len(sizes) :
          /\ Listed(lv[l], sizes[l])
          /\ Listed(Items(lv, recs, l), Count(n, sizes, l))
          /\ \A i \in 1 .. sizes[l] :
                BlockHas(lv[l][i], l - 1, Count(n, sizes, l), Items(lv, recs, l), sizes[l],
                         [x \in 1 .. sizes[l] |-> addrs[Nth(sizes, l, x)]], i)

(* And that is what `Levels` makes.                                        *)
LEMMA LayeredLevels ==
    ASSUME NEW n \in Nat, NEW recs, Listed(recs, n),
           NEW sizes, NEW h \in Nat \ {0}, h = Len(sizes), \A l \in 1..h : sizes[l] \in Nat \ {0},
           NEW addrs, NEW a \in Nat, a = SumTo(sizes, h), Listed(addrs, a)
    PROVE  Layered(Levels(recs, sizes, addrs), recs, n, sizes, addrs)
<1>1. PICK lv : lv = Levels(recs, sizes, addrs)
  OBVIOUS
<1>2. Leveled(lv, recs, sizes, addrs, h)
  BY <1>1, LevelsAre
<1>3. Listed(lv, h) /\ \A l \in 1..h : lv[l] = Level(l - 1, Items(lv, recs, l), Places(sizes, addrs, l))
  BY <1>2 DEF Leveled, Listed
<1>4. Adding(sizes, h)
  BY SumIs
<1>5. addrs \in Seq(Elements(addrs)) /\ Len(addrs) = a
  BY FunSeq DEF Listed
<1>6. ASSUME NEW l \in 1..h
      PROVE  Places(sizes, addrs, l) = [x \in 1 .. sizes[l] |-> addrs[Nth(sizes, l, x)]]
  <2>1. l \in 0..h /\ l - 1 \in 0..h /\ h \in 0..h /\ l <= h
    OBVIOUS
  <2>2. PICK p \in Nat, q \in Nat : p = SumTo(sizes, l - 1) /\ q = SumTo(sizes, l) /\ q <= a
    BY <1>4, <2>1 DEF Adding
  <2>3. PICK z \in Nat \ {0} : z = sizes[l]
    OBVIOUS
  <2>4. q = p + z
    BY <1>4, <2>2, <2>3 DEF Adding
  <2>5. p <= q /\ q <= Len(addrs) /\ q - p = z
    BY <1>5, <2>2, <2>4
  <2>6. SubSeq(addrs, p + 1, q) = [x \in 1 .. (q - p) |-> addrs[p + x]]
    BY <1>5, <2>5, PartIs
  <2> QED
    BY <2>2, <2>3, <2>5, <2>6 DEF Places, Nth
<1>7. ASSUME NEW l \in 1..h
      PROVE  Listed(lv[l], sizes[l])
  <2>1. PICK as : as = Places(sizes, addrs, l)
    OBVIOUS
  <2>2. DOMAIN as = 1 .. sizes[l]
    BY <1>6, <2>1
  <2>3. lv[l] = Level(l - 1, Items(lv, recs, l), as)
    BY <1>3, <2>1
  <2> QED
    BY <2>2, <2>3 DEF Level, Listed
<1>8. ASSUME NEW l \in 1..h
      PROVE  Listed(Items(lv, recs, l), Count(n, sizes, l)) /\ Count(n, sizes, l) \in Nat
  <2>1. CASE l = 1
    BY <2>1 DEF Items, Count
  <2>2. CASE l # 1
    <3>1. l - 1 \in 1..h
      BY <2>2
    <3>2. DOMAIN lv[l - 1] = 1 .. sizes[l - 1]
      BY <1>7, <3>1, Zenon DEF Listed
    <3>3. Listed(Entries(lv[l - 1]), sizes[l - 1])
      BY <3>2 DEF Entries, Listed
    <3> QED
      BY <2>2, <3>1, <3>3 DEF Items, Count
  <2> QED
    BY <2>1, <2>2
<1>9. ASSUME NEW l \in 1..h, NEW i \in 1 .. sizes[l]
      PROVE  BlockHas(lv[l][i], l - 1, Count(n, sizes, l), Items(lv, recs, l), sizes[l],
                      [x \in 1 .. sizes[l] |-> addrs[Nth(sizes, l, x)]], i)
  <2>1. PICK as : as = [x \in 1 .. sizes[l] |-> addrs[Nth(sizes, l, x)]]
    OBVIOUS
  <2>2. Listed(as, sizes[l])
    BY <2>1 DEF Listed
  <2>3. lv[l] = Level(l - 1, Items(lv, recs, l), as)
    BY <1>3, <1>6, <2>1
  <2>4. PICK k \in Nat \ {0}, c \in Nat : k = sizes[l] /\ c = Count(n, sizes, l)
    BY <1>8
  <2>5. PICK its : its = Items(lv, recs, l) /\ Listed(its, c)
    BY <1>8, <2>4
  <2>6. BlockHas(lv[l][i], l - 1, c, its, k, as, i)
    BY <2>2, <2>3, <2>4, <2>5, LevelIs
  <2> QED
    BY <2>1, <2>4, <2>5, <2>6
<1> QED
  BY <1>1, <1>3, <1>7, <1>8, <1>9 DEF Layered
-----------------------------------------------------------------------------
(* The shape of a tree: `h` is its topmost level, `k` how many blocks each *)
(* level has, `c` how its items are cut into them, `p` how many leaves are *)
(* below the first ones, `at` where the blocks are.                        *)
Sliced(s, n) ==
    /\ s.h \in Nat /\ \A l \in 0 .. s.h : s.k[l] \in Nat \ {0}
    /\ \A l \in 0 .. s.h :
          /\ s.c[l][0] = 0
          /\ \A i \in 0 .. s.k[l] : s.c[l][i] \in Nat
          /\ \A i, j \in 0 .. s.k[l] : i <= j => s.c[l][i] <= s.c[l][j]
    /\ s.c[0][s.k[0]] = n
    /\ \A l \in 1 .. s.h :
          /\ s.c[l][s.k[l]] = s.k[l - 1]
          /\ \A i, j \in 0 .. s.k[l] : i < j => s.c[l][i] < s.c[l][j]
Leads(s) ==
    /\ \A i \in 0 .. s.k[0] : s.p[0][i] = i
    /\ \A l \in 1 .. s.h : \A i \in 0 .. s.k[l] : s.p[l][i] = s.p[l - 1][s.c[l][i]]
Shape(s, n) == n \in Nat /\ Sliced(s, n) /\ Leads(s)

Rises(s, l) ==
    /\ s.p[l][0] = 0 /\ s.p[l][s.k[l]] = s.k[0]
    /\ \A i \in 0 .. s.k[l] : s.p[l][i] \in 0 .. s.k[0]
    /\ \A i, j \in 0 .. s.k[l] : i < j => s.p[l][i] < s.p[l][j]

(* The cuts of a level, as numbers of the level below.                     *)
LEMMA CutsBelow ==
    ASSUME NEW s, NEW n, Shape(s, n), NEW l \in Nat, l + 1 <= s.h
    PROVE  /\ s.k[l] \in Nat \ {0} /\ s.k[l + 1] \in Nat \ {0}
           /\ s.c[l + 1][0] = 0 /\ s.c[l + 1][s.k[l + 1]] = s.k[l]
           /\ \A i \in 0 .. s.k[l + 1] : s.c[l + 1][i] \in 0 .. s.k[l]
           /\ \A i, j \in 0 .. s.k[l + 1] : i < j => s.c[l + 1][i] < s.c[l + 1][j]
           /\ \A i \in 0 .. s.k[l + 1] : s.p[l + 1][i] = s.p[l][s.c[l + 1][i]]
<1>1. s.h \in Nat /\ l \in 0 .. s.h /\ l + 1 \in 0 .. s.h /\ l + 1 \in 1 .. s.h /\ (l + 1) - 1 = l
  BY DEF Shape, Sliced
<1>2. PICK x \in Nat \ {0}, y \in Nat \ {0} : x = s.k[l] /\ y = s.k[l + 1]
  BY <1>1 DEF Shape, Sliced
<1>3. s.c[l + 1][0] = 0 /\ s.c[l + 1][y] = x
  BY <1>1, <1>2 DEF Shape, Sliced
<1>4. \A i \in 0..y : s.c[l + 1][i] \in Nat
  BY <1>1, <1>2 DEF Shape, Sliced
<1>5. \A i, j \in 0..y : i <= j => s.c[l + 1][i] <= s.c[l + 1][j]
  BY <1>1, <1>2 DEF Shape, Sliced
<1>6. \A i, j \in 0..y : i < j => s.c[l + 1][i] < s.c[l + 1][j]
  BY <1>1, <1>2 DEF Shape, Sliced
<1>7. ASSUME NEW i \in 0..y
      PROVE  s.c[l + 1][i] \in 0..x
  <2>1. y \in 0..y /\ i <= y
    OBVIOUS
  <2>2. s.c[l + 1][i] <= s.c[l + 1][y]
    BY <1>5, <2>1
  <2> QED
    BY <1>3, <1>4, <2>2
<1>8. \A i \in 0..y : s.p[l + 1][i] = s.p[l][s.c[l + 1][i]]
  BY <1>1, <1>2 DEF Shape, Leads
<1> QED
  BY <1>2, <1>3, <1>6, <1>7, <1>8

(* The numbers of leaves rise along every level.                           *)
LEMMA AllRise ==
    ASSUME NEW s, NEW n, Shape(s, n), NEW l \in 0 .. s.h
    PROVE  Rises(s, l)
<1>1. s.h \in Nat
  BY DEF Shape, Sliced
<1>2. PICK S : S = {m \in Nat : m <= s.h => Rises(s, m)}
  OBVIOUS
<1>3. 0 \in S
  <2>1. 0 \in 0 .. s.h
    BY <1>1
  <2>2. PICK z \in Nat \ {0} : z = s.k[0]
    BY <2>1 DEF Shape, Sliced
  <2>3. \A i \in 0..z : s.p[0][i] = i
    BY <2>2 DEF Shape, Leads
  <2>4. Rises(s, 0)
    BY <2>2, <2>3 DEF Rises
  <2> QED
    BY <1>2, <2>4
<1>4. ASSUME NEW m \in Nat, m \in S
      PROVE  m + 1 \in S
  <2>1. SUFFICES ASSUME m + 1 <= s.h PROVE Rises(s, m + 1)
    BY <1>2
  <2>2. Rises(s, m)
    BY <1>1, <1>2, <1>4, <2>1
  <2>3. PICK x \in Nat \ {0}, y \in Nat \ {0} : x = s.k[m] /\ y = s.k[m + 1]
    BY <2>1, CutsBelow
  <2>4. s.c[m + 1][0] = 0 /\ s.c[m + 1][y] = x /\ \A i \in 0..y : s.c[m + 1][i] \in 0..x
    BY <2>1, <2>3, CutsBelow
  <2>5. \A i, j \in 0..y : i < j => s.c[m + 1][i] < s.c[m + 1][j]
    BY <2>1, <2>3, CutsBelow
  <2>6. \A i \in 0..y : s.p[m + 1][i] = s.p[m][s.c[m + 1][i]]
    BY <2>1, <2>3, CutsBelow
  <2>7. \A i \in 0..x : s.p[m][i] \in 0 .. s.k[0]
    BY <2>2, <2>3 DEF Rises
  <2>8. \A i, j \in 0..x : i < j => s.p[m][i] < s.p[m][j]
    BY <2>2, <2>3 DEF Rises
  <2>9. s.p[m + 1][0] = 0 /\ s.p[m + 1][y] = s.k[0]
    BY <2>2, <2>3, <2>4, <2>6 DEF Rises
  <2>10. \A i \in 0..y : s.p[m + 1][i] \in 0 .. s.k[0]
    BY <2>4, <2>6, <2>7
  <2>11. ASSUME NEW i \in 0..y, NEW j \in 0..y, i < j
         PROVE  s.p[m + 1][i] < s.p[m + 1][j]
    <3>1. PICK a \in 0..x, b \in 0..x : a = s.c[m + 1][i] /\ b = s.c[m + 1][j]
      BY <2>4
    <3>2. a < b
      BY <2>5, <2>11, <3>1
    <3> QED
      BY <2>6, <2>8, <3>1, <3>2
  <2> QED
    BY <2>3, <2>9, <2>10, <2>11 DEF Rises
<1>5. \A m \in Nat : m \in S
  BY <1>3, <1>4, SetInduction
<1>6. l \in Nat /\ l <= s.h /\ l \in S
  BY <1>1, <1>5
<1> QED
  BY <1>2, <1>6

(* Where a level is cut, those below are.                                  *)
LEMMA CutsNest ==
    ASSUME NEW s, NEW n, Shape(s, n), NEW l \in Nat, NEW g \in Nat, l <= g, g <= s.h, NEW i \in 0 .. s.k[g]
    PROVE  \E j \in 0 .. s.k[l] : s.p[g][i] = s.p[l][j]
<1>1. s.h \in Nat
  BY DEF Shape, Sliced
<1>2. PICK S : S = {m \in Nat : l + m <= s.h =>
                      \A x \in 0 .. s.k[l + m] : \E j \in 0 .. s.k[l] : s.p[l + m][x] = s.p[l][j]}
  OBVIOUS
<1>3. 0 \in S
  <2>1. l + 0 = l
    OBVIOUS
  <2> QED
    BY <1>2, <2>1
<1>4. ASSUME NEW m \in Nat, m \in S
      PROVE  m + 1 \in S
  <2>1. PICK q \in Nat : q = l + m /\ l + (m + 1) = q + 1
    OBVIOUS
  <2>2. SUFFICES ASSUME q + 1 <= s.h, NEW x \in 0 .. s.k[q + 1]
                 PROVE  \E j \in 0 .. s.k[l] : s.p[q + 1][x] = s.p[l][j]
    BY <1>2, <2>1
  <2>3. s.c[q + 1][x] \in 0 .. s.k[q] /\ s.p[q + 1][x] = s.p[q][s.c[q + 1][x]]
    BY <2>2, CutsBelow
  <2>4. q <= s.h
    BY <1>1, <2>2
  <2>5. \A y \in 0 .. s.k[q] : \E j \in 0 .. s.k[l] : s.p[q][y] = s.p[l][j]
    BY <1>2, <1>4, <2>1, <2>4
  <2> QED
    BY <2>3, <2>5
<1>5. \A m \in Nat : m \in S
  BY <1>3, <1>4, SetInduction
<1>6. PICK m \in Nat : l + m = g
  <2>1. g - l \in Nat /\ l + (g - l) = g
    OBVIOUS
  <2> QED
    BY <2>1
<1>7. m \in S
  BY <1>5
<1> QED
  BY <1>2, <1>6, <1>7
-----------------------------------------------------------------------------
(* What is done to a walk's sequences.                                     *)

Chained(u, s, t) == u = s \o t
Joins(X, u, s, t) ==
    /\ u \in Seq(X) /\ Len(s) \in Nat /\ Len(t) \in Nat /\ Len(u) = Len(s) + Len(t)
    /\ \A i \in 1 .. Len(s) : u[i] = s[i]
    /\ \A i \in 1 .. Len(t) : u[Len(s) + i] = t[i]

(* Two sequences, one after the other.                                     *)
LEMMA JoinIs ==
    ASSUME NEW X, NEW s \in Seq(X), NEW t \in Seq(X), NEW u, Chained(u, s, t)
    PROVE  Joins(X, u, s, t)
<1>1. PICK m \in Nat, n \in Nat : m = Len(s) /\ n = Len(t)
  OBVIOUS
<1>2. u \in Seq(X) /\ Len(u) = m + n
  BY <1>1, ConcatProperties DEF Chained
<1>3. \A i \in 1 .. (m + n) : u[i] = IF i <= m THEN s[i] ELSE t[i - m]
  BY <1>1, <1>2, ConcatProperties DEF Chained
<1>4. ASSUME NEW i \in 1..m
      PROVE  u[i] = s[i]
  <2>1. i \in 1 .. (m + n) /\ i <= m
    OBVIOUS
  <2> QED
    BY <1>3, <2>1
<1>5. ASSUME NEW i \in 1..n
      PROVE  u[m + i] = t[i]
  <2>1. m + i \in 1 .. (m + n) /\ ~(m + i <= m) /\ (m + i) - m = i
    OBVIOUS
  <2> QED
    BY <1>3, <2>1
<1> QED
  BY <1>1, <1>2, <1>4, <1>5 DEF Joins

(* All but the last.                                                       *)
LEMMA AllButLast ==
    ASSUME NEW X, NEW s \in Seq(X), NEW n \in Nat, Len(s) = n + 1, NEW u, u = SubSeq(s, 1, (n + 1) - 1)
    PROVE  u \in Seq(X) /\ Len(u) = n /\ \A i \in 1..n : u[i] = s[i]
<1>1. 0 + 1 = 1 /\ 0 <= n /\ n <= Len(s) /\ (n + 1) - 1 = n /\ n - 0 = n
  OBVIOUS
<1>2. SubSeq(s, 0 + 1, n) = [j \in 1 .. (n - 0) |-> s[0 + j]]
  BY <1>1, PartIs
<1>3. u = [j \in 1..n |-> s[0 + j]]
  BY <1>1, <1>2
<1>4. \A j \in 1..n : u[j] = s[j]
  BY <1>3
<1>5. u = [j \in 1..n |-> u[j]]
  BY <1>3
<1>6. Len(u) = n
  BY <1>5, FunSeq
<1>7. u \in [1..n -> X]
  <2>1. ASSUME NEW j \in 1..n
        PROVE  s[j] \in X
    <3>1. j \in 1 .. Len(s)
      OBVIOUS
    <3> QED
      BY <3>1, SeqFun
  <2> QED
    BY <1>4, <1>5, <2>1
<1>8. u \in Seq(X)
  BY <1>7, SeqDef
<1> QED
  BY <1>4, <1>6, <1>8

Reverses(X, u, ents, e, want) ==
    u \in Seq(X) /\ Len(u) = e /\ \A q \in 1..e : u[q] = <<ents[(e + 1) - q].ptr, want>>

(* The children of a block, the first on top.                              *)
LEMMA PushedIs ==
    ASSUME NEW X, NEW ents, NEW e \in Nat, Listed(ents, e), NEW want,
           \A j \in 1..e : <<ents[j].ptr, want>> \in X, NEW u, u = Pushed(ents, want)
    PROVE  Reverses(X, u, ents, e, want)
<1>1. Len(ents) = e /\ DOMAIN ents = 1..e
  BY FunSeq DEF Listed
<1>2. u = [i \in 1..e |-> <<ents[(e + 1) - i].ptr, want>>]
  BY <1>1 DEF Pushed
<1>3. \A q \in 1..e : u[q] = <<ents[(e + 1) - q].ptr, want>>
  BY <1>2
<1>4. ASSUME NEW q \in 1..e
      PROVE  u[q] \in X
  <2>1. (e + 1) - q \in 1..e
    OBVIOUS
  <2> QED
    BY <1>3, <2>1
<1>5. u = [i \in 1..e |-> u[i]]
  BY <1>2
<1>6. Len(u) = e
  BY <1>5, FunSeq
<1>7. u \in [1..e -> X]
  BY <1>4, <1>5
<1>8. u \in Seq(X)
  BY <1>7, SeqDef
<1> QED
  BY <1>3, <1>6, <1>8 DEF Reverses

(* A sequence is one of what it holds.                                     *)
LEMMA ListedSeq ==
    ASSUME NEW X, NEW e \in Nat, NEW f, Listed(f, e), \A j \in 1..e : f[j] \in X
    PROVE  f \in Seq(X) /\ Len(f) = e
<1>1. f = [i \in 1..e |-> f[i]]
  BY DEF Listed
<1>2. f \in [1..e -> X]
  BY <1>1
<1>3. f \in Seq(X)
  BY <1>2, SeqDef
<1>4. Len(f) = e
  BY <1>1, FunSeq
<1> QED
  BY <1>3, <1>4

Once(b) == \A i, j \in 1 .. Len(b) : i # j => b[i] # b[j]
NewBehind(X, d, b, x) == d \in Seq(X) /\ Once(d) /\ Elements(d) = Elements(b) \cup {x}

(* No element is there twice, and that stays so with a new one behind.     *)
LEMMA OnceMoreOnce ==
    ASSUME NEW X, NEW b \in Seq(X), Once(b), NEW x \in X, x \notin Elements(b), NEW d, d = Append(b, x)
    PROVE  NewBehind(X, d, b, x)
<1>1. PICK n \in Nat : n = Len(b) /\ DOMAIN b = 1..n
  BY SeqFun
<1>2. d \in Seq(X) /\ Len(d) = n + 1 /\ (\A i \in 1..n : d[i] = b[i]) /\ d[n + 1] = x
  BY <1>1
<1>3. DOMAIN d = 1 .. (n + 1)
  BY <1>2, SeqFun
<1>4. \A i \in 1..n : b[i] # x
  BY <1>1 DEF Elements
<1>5. \A i, j \in 1..n : i # j => b[i] # b[j]
  BY <1>1 DEF Once
<1>6. ASSUME NEW i \in 1 .. (n + 1), NEW j \in 1 .. (n + 1), i # j
      PROVE  d[i] # d[j]
  <2>1. CASE i = n + 1
    <3>1. j \in 1..n
      BY <1>6, <2>1
    <3> QED
      BY <1>2, <1>4, <2>1, <3>1
  <2>2. CASE j = n + 1
    <3>1. i \in 1..n
      BY <1>6, <2>2
    <3> QED
      BY <1>2, <1>4, <2>2, <3>1
  <2>3. CASE i # n + 1 /\ j # n + 1
    <3>1. i \in 1..n /\ j \in 1..n
      BY <2>3
    <3> QED
      BY <1>2, <1>5, <1>6, <3>1
  <2> QED
    BY <2>1, <2>2, <2>3
<1>7. Once(d)
  BY <1>2, <1>6 DEF Once
<1>8. ASSUME NEW y
      PROVE  y \in Elements(d) <=> y \in Elements(b) \/ y = x
  <2>1. ASSUME NEW i \in DOMAIN d, y = d[i]
        PROVE  y \in Elements(b) \/ y = x
    <3>1. i \in 1..n \/ i = n + 1
      BY <1>3, <2>1
    <3> QED
      BY <1>1, <1>2, <2>1, <3>1 DEF Elements
  <2>2. ASSUME NEW i \in DOMAIN b, y = b[i]
        PROVE  y \in Elements(d)
    <3>1. i \in 1..n /\ i \in DOMAIN d
      BY <1>1, <1>3
    <3> QED
      BY <1>2, <2>2, <3>1 DEF Elements
  <2>3. x \in Elements(d)
    <3>1. n + 1 \in DOMAIN d
      BY <1>3
    <3> QED
      BY <1>2, <3>1 DEF Elements
  <2> QED
    BY <2>1, <2>2, <2>3 DEF Elements
<1> QED
  BY <1>2, <1>7, <1>8 DEF NewBehind
-----------------------------------------------------------------------------
(* A walk of a whole tree.                                                 *)

(* The image has the shape `s` and holds `R`.                              *)
Width(s, l, i) == s.c[l][i] - s.c[l][i - 1]
NodeIs(s, im, R, l, i) ==
    LET b == im.blocks[s.at[l][i]] IN
    /\ b.addr = s.at[l][i] /\ b.level = l /\ Listed(b.ents, Width(s, l, i))
    /\ l = 0 => /\ Width(s, l, i) <= im.leafMax
                /\ \A j \in 1 .. Width(s, l, i) : b.ents[j] = R[s.c[l][i - 1] + j]
    /\ l # 0 => /\ Width(s, l, i) <= im.nodeMax
                /\ \A j \in 1 .. Width(s, l, i) : b.ents[j].ptr = s.at[l - 1][s.c[l][i - 1] + j]
Holds(s, im, R) ==
    /\ im.level = s.h /\ im.leafMax \in Nat /\ im.nodeMax \in Nat
    /\ \A l, g \in 0 .. s.h : \A i \in 1 .. s.k[l] : \A j \in 1 .. s.k[g] :
          s.at[l][i] = s.at[g][j] => l = g /\ i = j
    /\ \A l \in 0 .. s.h : \A i \in 1 .. s.k[l] : s.at[l][i] \in DOMAIN im.blocks /\ NodeIs(s, im, R, l, i)
    /\ \A a \in DOMAIN im.blocks : \E l \in 0 .. s.h : \E i \in 1 .. s.k[l] : a = s.at[l][i]
    /\ Listed(im.root, s.k[s.h]) /\ \A i \in 1 .. s.k[s.h] : im.root[i].ptr = s.at[s.h][i]

(* The first leaf below the i-th block of level l, counted from 0.         *)
First(s, l, i) == s.p[l][i - 1]

(* The stack: `v` says which block of its level each entry leads to.  The  *)
(* leaves below are those still to come, and an entry that is not on top   *)
(* is the highest block that begins where it does.                         *)
Spots(im) == (DOMAIN im.blocks) \X Nat
Entry(s, st, v, j) ==
    /\ st[j][2] \in 0 .. s.h /\ v[j] \in 1 .. s.k[st[j][2]]
    /\ st[j] = <<s.at[st[j][2]][v[j]], st[j][2]>>
Begin(s, st, v, j) == First(s, st[j][2], v[j])
End(s, st, v, j) == s.p[st[j][2]][v[j]]
Highest(s, lev, x) == \A l \in (lev + 1) .. s.h : \A i \in 1 .. s.k[l] : First(s, l, i) # x
Stacked(s, st, v, t, m) ==
    /\ \A j \in 1..t : Entry(s, st, v, j)
    /\ t = 0 => m = s.k[0]
    /\ t # 0 => Begin(s, st, v, t) = m /\ End(s, st, v, 1) = s.k[0]
    /\ \A j \in 1 .. (t - 1) : Begin(s, st, v, j) = End(s, st, v, j + 1) /\ Highest(s, st[j][2], Begin(s, st, v, j))

(* The blocks read: those that begin earlier, and the higher ones that     *)
(* begin with the one on top.                                              *)
IsRead(s, st, t, m, l, i) == First(s, l, i) < m \/ (t # 0 /\ First(s, l, i) = m /\ l > st[t][2])
ReadSo(s, im, w, t, m) ==
    /\ w.blocks \in Seq(DOMAIN im.blocks) /\ Once(w.blocks)
    /\ \A l \in 0 .. s.h : \A i \in 1 .. s.k[l] :
          s.at[l][i] \in Seen(w) <=> IsRead(s, w.stack, t, m, l, i)

(* The records found: the first ones.                                      *)
FoundSo(s, w, R, m) ==
    /\ w.recs \in Seq(Spans) /\ Len(w.recs) = s.c[0][m]
    /\ \A i \in 1 .. s.c[0][m] : w.recs[i] = R[i]

(* A block by its coordinates.                                             *)
LEMMA BlockIs ==
    ASSUME NEW n, NEW s, Shape(s, n), NEW im, NEW R, Holds(s, im, R),
           NEW l \in 0 .. s.h, NEW i \in 1 .. s.k[l]
    PROVE  /\ l \in Nat /\ s.k[l] \in Nat \ {0} /\ s.k[0] \in Nat \ {0}
           /\ s.at[l][i] \in DOMAIN im.blocks /\ NodeIs(s, im, R, l, i)
           /\ First(s, l, i) \in Nat /\ s.p[l][i] \in 0 .. s.k[0] /\ First(s, l, i) < s.p[l][i]
           /\ \A j \in 1 .. s.k[l] : j < i => First(s, l, j) < First(s, l, i)
           /\ \A j \in 1 .. s.k[l] : First(s, l, j) = First(s, l, i) => j = i
<1>1. s.h \in Nat /\ l \in Nat
  BY DEF Shape, Sliced
<1>2. PICK z \in Nat \ {0} : z = s.k[l]
  BY DEF Shape, Sliced
<1>3. s.k[0] \in Nat \ {0}
  <2>1. 0 \in 0 .. s.h
    BY <1>1
  <2> QED
    BY <2>1 DEF Shape, Sliced
<1>4. Rises(s, l)
  BY AllRise
<1>5. i - 1 \in 0..z /\ i \in 0..z /\ i - 1 < i
  BY <1>2
<1>6. \A x \in 0..z : s.p[l][x] \in 0 .. s.k[0]
  BY <1>2, <1>4 DEF Rises
<1>7. \A x, y \in 0..z : x < y => s.p[l][x] < s.p[l][y]
  BY <1>2, <1>4 DEF Rises
<1>8. First(s, l, i) \in Nat /\ s.p[l][i] \in 0 .. s.k[0] /\ First(s, l, i) < s.p[l][i]
  BY <1>5, <1>6, <1>7 DEF First
<1>9. ASSUME NEW j \in 1..z, j < i
      PROVE  First(s, l, j) < First(s, l, i)
  <2>1. j - 1 \in 0..z /\ j - 1 < i - 1
    BY <1>2, <1>9
  <2> QED
    BY <1>5, <1>7, <2>1 DEF First
<1>10. ASSUME NEW j \in 1..z, First(s, l, j) = First(s, l, i)
       PROVE  j = i
  <2>1. j - 1 \in 0..z
    OBVIOUS
  <2>2. s.p[l][j - 1] \in Nat /\ s.p[l][i - 1] \in Nat /\ s.p[l][j - 1] = s.p[l][i - 1]
    BY <1>5, <1>6, <1>10, <2>1 DEF First
  <2>3. ~(j - 1 < i - 1) /\ ~(i - 1 < j - 1)
    BY <1>5, <1>7, <2>1, <2>2
  <2> QED
    BY <1>2, <2>3
<1>11. s.at[l][i] \in DOMAIN im.blocks /\ NodeIs(s, im, R, l, i)
  BY DEF Holds
<1> QED
  BY <1>1, <1>2, <1>3, <1>8, <1>9, <1>10, <1>11

(* A block of a level not the lowest, and its children.                    *)
LEMMA ChildrenAre ==
    ASSUME NEW n, NEW s, Shape(s, n), NEW l \in Nat, l + 1 <= s.h, NEW i \in 1 .. s.k[l + 1]
    PROVE  /\ s.c[l + 1][i - 1] \in Nat /\ Width(s, l + 1, i) \in Nat \ {0}
           /\ s.c[l + 1][i] = s.c[l + 1][i - 1] + Width(s, l + 1, i)
           /\ First(s, l + 1, i) = First(s, l, s.c[l + 1][i - 1] + 1)
           /\ s.p[l + 1][i] = s.p[l][s.c[l + 1][i]]
           /\ \A j \in 1 .. Width(s, l + 1, i) : s.c[l + 1][i - 1] + j \in 1 .. s.k[l]
<1>1. PICK x \in Nat \ {0}, y \in Nat \ {0} : x = s.k[l] /\ y = s.k[l + 1]
  BY CutsBelow
<1>2. \A j \in 0..y : s.c[l + 1][j] \in 0..x
  BY <1>1, CutsBelow
<1>3. \A j, g \in 0..y : j < g => s.c[l + 1][j] < s.c[l + 1][g]
  BY <1>1, CutsBelow
<1>4. \A j \in 0..y : s.p[l + 1][j] = s.p[l][s.c[l + 1][j]]
  BY <1>1, CutsBelow
<1>5. i - 1 \in 0..y /\ i \in 0..y /\ i - 1 < i
  BY <1>1
<1>6. PICK a \in 0..x, b \in 0..x : a = s.c[l + 1][i - 1] /\ b = s.c[l + 1][i] /\ a < b
  BY <1>2, <1>3, <1>5
<1>7. Width(s, l + 1, i) = b - a
  BY <1>6 DEF Width
<1>8. First(s, l + 1, i) = First(s, l, a + 1)
  <2>1. (a + 1) - 1 = a
    BY <1>6
  <2> QED
    BY <1>4, <1>5, <1>6, <2>1 DEF First
<1>9. \A j \in 1 .. (b - a) : a + j \in 1..x
  BY <1>6
<1> QED
  BY <1>1, <1>4, <1>5, <1>6, <1>7, <1>8, <1>9

(* A walk, and what reading a block makes of it.                           *)
WalkType(im) ==
    [stack : Seq(Spots(im)), blocks : Seq(DOMAIN im.blocks), recs : Seq(Spans),
     state : {"walking", "done", "corrupt"}]
Rest(w) == SubSeq(w.stack, 1, Len(w.stack) - 1)
WalkOf(st, bl, re, sa) == [stack |-> st, blocks |-> bl, recs |-> re, state |-> sa]
HasFields(w, st, bl, re, sa) == w.stack = st /\ w.blocks = bl /\ w.recs = re /\ w.state = sa

(* Its fields.                                                             *)
LEMMA WalkFields ==
    ASSUME NEW st, NEW bl, NEW re, NEW sa, NEW w, w = WalkOf(st, bl, re, sa)
    PROVE  HasFields(w, st, bl, re, sa)
BY DEF WalkOf, HasFields

Reading(w, b, x) ==
    /\ b.level = 0 => x = WalkOf(Rest(w), Append(w.blocks, b.addr), w.recs \o b.ents, w.state)
    /\ b.level # 0 => x = WalkOf(Rest(w) \o Pushed(b.ents, b.level - 1), Append(w.blocks, b.addr), w.recs, w.state)

(* Reading a block.                                                        *)
LEMMA VisitIs ==
    ASSUME NEW im, NEW w \in WalkType(im), NEW t \in Nat, Len(w.stack) = t + 1,
           NEW b, b = im.blocks[w.stack[t + 1][1]], b.level = w.stack[t + 1][2],
           im.leafMax \in Nat, im.nodeMax \in Nat,
           NEW e \in Nat, Listed(b.ents, e), e <= IF b.level = 0 THEN im.leafMax ELSE im.nodeMax,
           NEW x, x = Visit(im, w)
    PROVE  Reading(w, b, x)
<1>1. Len(b.ents) = e
  BY FunSeq DEF Listed
<1>2. Top(w) = w.stack[t + 1]
  BY DEF Top
<1>3. PICK st, bl, re, sa : w = [stack |-> st, blocks |-> bl, recs |-> re, state |-> sa]
  BY DEF WalkType
<1>4. PICK max : max = IF b.level = 0 THEN im.leafMax ELSE im.nodeMax
  OBVIOUS
<1>5. ~(b.level # Top(w)[2] \/ Len(b.ents) > max)
  <2>1. max \in Nat /\ e <= max
    BY <1>4
  <2>2. ~(e > max)
    BY <2>1
  <2> QED
    BY <1>1, <1>2, <2>2
<1>6. CASE b.level = 0
  <2>1. x = [[w EXCEPT !.blocks = Append(@, b.addr)] EXCEPT !.stack = Rest(w), !.recs = @ \o b.ents]
    BY <1>2, <1>4, <1>5, <1>6, Zenon DEF Visit, Rest
  <2>2. w.stack = st /\ w.blocks = bl /\ w.recs = re /\ w.state = sa
    BY <1>3, Zenon
  <2>3. x = WalkOf(Rest(w), Append(w.blocks, b.addr), w.recs \o b.ents, w.state)
    BY <1>3, <2>1, <2>2, Zenon DEF WalkOf
  <2> QED
    BY <1>6, <2>3, Zenon DEF Reading
<1>7. CASE b.level # 0
  <2>1. x = [[w EXCEPT !.blocks = Append(@, b.addr)] EXCEPT !.stack = Rest(w) \o Pushed(b.ents, b.level - 1)]
    BY <1>2, <1>4, <1>5, <1>7, Zenon DEF Visit, Rest
  <2>2. w.stack = st /\ w.blocks = bl /\ w.recs = re /\ w.state = sa
    BY <1>3
  <2>3. x = WalkOf(Rest(w) \o Pushed(b.ents, b.level - 1), Append(w.blocks, b.addr), w.recs, w.state)
    BY <1>3, <2>1, <2>2, Zenon DEF WalkOf
  <2> QED
    BY <1>7, <2>3, Zenon DEF Reading
<1> QED
  BY <1>6, <1>7, Zenon

(* The walk has come to leaf m + 1.                                        *)
Reached(s, im, R, w, v, t, m) ==
    /\ w \in WalkType(im) /\ t \in Nat /\ Len(w.stack) = t /\ m \in 0 .. s.k[0]
    /\ Stacked(s, w.stack, v, t, m) /\ ReadSo(s, im, w, t, m) /\ FoundSo(s, w, R, m)
Follows(s, im, R, w) == \E v, t, m : Reached(s, im, R, w, v, t, m)

ReadNow(s, su, z, d, st, t, m, l, i, a) ==
    IsRead(s, su, z, d, l, i) <=> IsRead(s, st, t, m, l, i) \/ s.at[l][i] = a

(* The stack when a leaf is read, ...                                      *)
LEMMA LeafStack ==
    ASSUME NEW n, NEW s, Shape(s, n), NEW st, NEW v, NEW t \in Nat, NEW m \in 0 .. s.k[0],
           Stacked(s, st, v, t + 1, m), st[t + 1][2] = 0, NEW su, \A j \in 1..t : su[j] = st[j]
    PROVE  /\ v[t + 1] = m + 1 /\ m + 1 \in 0 .. s.k[0] /\ Stacked(s, su, v, t, m + 1)
           /\ t # 0 => Highest(s, su[t][2], m + 1)
<1>1. s.k[0] \in Nat \ {0} /\ \A i \in 0 .. s.k[0] : s.p[0][i] = i
  <2>1. 0 \in 0 .. s.h
    BY DEF Shape, Sliced
  <2> QED
    BY <2>1 DEF Shape, Sliced, Leads
<1>2. t + 1 # 0 /\ t + 1 \in 1 .. (t + 1) /\ (t + 1) - 1 = t
  OBVIOUS
<1>3. Entry(s, st, v, t + 1)
  BY <1>2 DEF Stacked
<1>4. PICK i \in 1 .. s.k[0] : i = v[t + 1]
  BY <1>3 DEF Entry
<1>5. Begin(s, st, v, t + 1) = m /\ End(s, st, v, 1) = s.k[0]
  BY <1>2 DEF Stacked
<1>6. s.p[0][i - 1] = m
  BY <1>4, <1>5 DEF Begin, First
<1>7. i - 1 \in 0 .. s.k[0] /\ i \in 0 .. s.k[0]
  BY <1>1
<1>8. i - 1 = m /\ i = m + 1 /\ m + 1 \in 0 .. s.k[0]
  BY <1>1, <1>6, <1>7
<1>9. End(s, st, v, t + 1) = m + 1
  BY <1>1, <1>4, <1>8 DEF End
<1>10. \A j \in 1..t : Begin(s, st, v, j) = End(s, st, v, j + 1) /\ Highest(s, st[j][2], Begin(s, st, v, j))
  BY <1>2 DEF Stacked
<1>11. \A j \in 1..t : Begin(s, su, v, j) = Begin(s, st, v, j) /\ End(s, su, v, j) = End(s, st, v, j) /\ su[j][2] = st[j][2]
  BY DEF Begin, End
<1>12. \A j \in 1..t : Entry(s, su, v, j)
  <2>1. ASSUME NEW j \in 1..t
        PROVE  Entry(s, su, v, j)
    <3>1. j \in 1 .. (t + 1) /\ su[j] = st[j]
      OBVIOUS
    <3>2. Entry(s, st, v, j)
      BY <3>1 DEF Stacked
    <3> QED
      BY <3>1, <3>2 DEF Entry
  <2> QED
    BY <2>1
<1>13. t = 0 => m + 1 = s.k[0]
  BY <1>5, <1>9
<1>14. t # 0 => Begin(s, su, v, t) = m + 1 /\ End(s, su, v, 1) = s.k[0] /\ Highest(s, su[t][2], m + 1)
  <2>1. SUFFICES ASSUME t # 0
                 PROVE  Begin(s, su, v, t) = m + 1 /\ End(s, su, v, 1) = s.k[0] /\ Highest(s, su[t][2], m + 1)
    OBVIOUS
  <2>2. t \in 1..t /\ 1 \in 1..t
    BY <2>1
  <2> QED
    BY <1>5, <1>9, <1>10, <1>11, <2>2
<1>15. ASSUME NEW j \in 1 .. (t - 1)
       PROVE  Begin(s, su, v, j) = End(s, su, v, j + 1) /\ Highest(s, su[j][2], Begin(s, su, v, j))
  <2>1. j \in 1..t /\ j + 1 \in 1..t
    OBVIOUS
  <2> QED
    BY <1>10, <1>11, <2>1
<1>16. Stacked(s, su, v, t, m + 1)
  BY <1>12, <1>13, <1>14, <1>15 DEF Stacked
<1> QED
  BY <1>4, <1>8, <1>14, <1>16

(* ... the blocks read, ...                                                *)
LEMMA LeafRead ==
    ASSUME NEW n, NEW s, Shape(s, n), NEW im, NEW R, Holds(s, im, R),
           NEW st, NEW su, NEW t \in Nat, NEW m \in Nat, m + 1 \in 1 .. s.k[0],
           st[t + 1][2] = 0, t # 0 => Highest(s, su[t][2], m + 1) /\ su[t][2] \in Nat,
           NEW l \in 0 .. s.h, NEW i \in 1 .. s.k[l]
    PROVE  ReadNow(s, su, t, m + 1, st, t + 1, m, l, i, s.at[0][m + 1]) /\ ~IsRead(s, st, t + 1, m, 0, m + 1)
<1>1. s.h \in Nat /\ l \in Nat /\ 0 \in 0 .. s.h /\ t + 1 # 0
  BY DEF Shape, Sliced
<1>2. PICK f \in Nat : f = First(s, l, i)
  BY BlockIs
<1>3. First(s, 0, m + 1) = m
  <2>1. s.k[0] \in Nat \ {0} /\ \A j \in 0 .. s.k[0] : s.p[0][j] = j
    BY <1>1 DEF Shape, Sliced, Leads
  <2>2. (m + 1) - 1 = m /\ m \in 0 .. s.k[0]
    BY <2>1
  <2> QED
    BY <2>1, <2>2 DEF First
<1>4. s.at[l][i] = s.at[0][m + 1] <=> l = 0 /\ f = m
  <2>1. ASSUME s.at[l][i] = s.at[0][m + 1]
        PROVE  l = 0 /\ f = m
    <3>1. l = 0 /\ i = m + 1
      BY <1>1, <2>1 DEF Holds
    <3> QED
      BY <1>2, <1>3, <3>1
  <2>2. ASSUME l = 0, f = m
        PROVE  s.at[l][i] = s.at[0][m + 1]
    <3>1. \A j \in 1 .. s.k[l] : First(s, l, j) = First(s, l, i) => j = i
      BY BlockIs
    <3>2. i = m + 1
      BY <1>2, <1>3, <2>2, <3>1
    <3> QED
      BY <2>2, <3>2
  <2> QED
    BY <2>1, <2>2
<1>5. IsRead(s, st, t + 1, m, l, i) <=> f < m \/ (f = m /\ l > 0)
  BY <1>1, <1>2 DEF IsRead
<1>6. IsRead(s, su, t, m + 1, l, i) <=> f < m + 1
  <2>1. ASSUME t # 0, f = m + 1, l > su[t][2]
        PROVE  FALSE
    <3>1. l \in (su[t][2] + 1) .. s.h
      BY <1>1, <2>1
    <3> QED
      BY <1>2, <2>1, <3>1 DEF Highest
  <2> QED
    BY <1>2, <2>1 DEF IsRead
<1>7. f < m + 1 <=> f < m \/ (f = m /\ l > 0) \/ (l = 0 /\ f = m)
  BY <1>1
<1>8. ~IsRead(s, st, t + 1, m, 0, m + 1)
  BY <1>1, <1>3 DEF IsRead
<1> QED
  BY <1>4, <1>5, <1>6, <1>7, <1>8 DEF ReadNow

(* ... and the records found.                                              *)
LEMMA LeafFound ==
    ASSUME NEW n, NEW s, Shape(s, n), NEW im, NEW R, Holds(s, im, R), NEW w, NEW x, NEW m \in Nat,
           m + 1 \in 1 .. s.k[0], FoundSo(s, w, R, m), \A j \in 1..n : R[j] \in Spans,
           Chained(x.recs, w.recs, im.blocks[s.at[0][m + 1]].ents)
    PROVE  FoundSo(s, x, R, m + 1)
<1>1. 0 \in 0 .. s.h /\ s.k[0] \in Nat \ {0}
  BY DEF Shape, Sliced
<1>2. PICK z \in Nat \ {0} : z = s.k[0] /\ s.c[0][z] = n /\ n \in Nat
  BY <1>1 DEF Shape, Sliced
<1>3. m \in 0..z /\ m + 1 \in 0..z /\ z \in 0..z /\ m <= m + 1 /\ m + 1 <= z /\ (m + 1) - 1 = m
  BY <1>2
<1>4. PICK a \in Nat, b \in Nat : a = s.c[0][m] /\ b = s.c[0][m + 1] /\ a <= b /\ b <= n
  <2>1. PICK f : f = s.c[0]
    OBVIOUS
  <2>2. (\A i \in 0..z : f[i] \in Nat) /\ (\A i, j \in 0..z : i <= j => f[i] <= f[j]) /\ f[z] = n
    BY <1>1, <1>2, <2>1 DEF Shape, Sliced
  <2>3. f[m] \in Nat /\ f[m + 1] \in Nat /\ f[m] <= f[m + 1] /\ f[m + 1] <= f[z]
    BY <1>3, <2>2
  <2> QED
    BY <2>1, <2>2, <2>3
<1>5. PICK e \in Nat : e = b - a /\ b = a + e
  <2>1. b - a \in Nat /\ b = a + (b - a)
    BY <1>4
  <2> QED
    BY <2>1
<1>6. Width(s, 0, m + 1) = e
  BY <1>3, <1>4, <1>5 DEF Width
<1>7. NodeIs(s, im, R, 0, m + 1)
  BY <1>1, BlockIs
<1>8. PICK ents : ents = im.blocks[s.at[0][m + 1]].ents
  BY Zenon
<1>9. Listed(ents, e) /\ \A j \in 1..e : ents[j] = R[a + j]
  BY <1>3, <1>4, <1>6, <1>7, <1>8, Zenon DEF NodeIs
<1>10. \A j \in 1..e : a + j \in 1..n
  BY <1>2, <1>4, <1>5
<1>11. ents \in Seq(Spans) /\ Len(ents) = e
  BY <1>9, <1>10, ListedSeq
<1>12. w.recs \in Seq(Spans) /\ Len(w.recs) = a /\ \A j \in 1..a : w.recs[j] = R[j]
  BY <1>4 DEF FoundSo
<1>13. /\ x.recs \in Seq(Spans) /\ Len(x.recs) = a + e
       /\ \A j \in 1..a : x.recs[j] = w.recs[j]
       /\ \A j \in 1..e : x.recs[a + j] = ents[j]
  <2>1. PICK re, xe : re = w.recs /\ xe = x.recs
    OBVIOUS
  <2>2. re \in Seq(Spans) /\ Len(re) = a /\ Chained(xe, re, ents)
    BY <1>8, <1>12, <2>1
  <2>3. Joins(Spans, xe, re, ents)
    BY <1>11, <2>2, JoinIs, Zenon
  <2> QED
    BY <1>11, <2>1, <2>2, <2>3 DEF Joins
<1>14. ASSUME NEW j \in 1..b
       PROVE  x.recs[j] = R[j]
  <2>1. CASE j \in 1..a
    BY <1>12, <1>13, <2>1
  <2>2. CASE j \notin 1..a
    <3>1. PICK g \in 1..e : j = a + g
      <4>1. j - a \in 1..e /\ j = a + (j - a)
        BY <1>5, <2>2
      <4> QED
        BY <4>1
    <3> QED
      BY <1>9, <1>13, <3>1
  <2> QED
    BY <2>1, <2>2
<1> QED
  BY <1>4, <1>5, <1>13, <1>14 DEF FoundSo

(* A child that is not the first is the highest block that begins there.   *)
LEMMA HighestInside ==
    ASSUME NEW n, NEW s, Shape(s, n), NEW g \in Nat, g + 1 <= s.h, NEW i \in 1 .. s.k[g + 1],
           NEW j \in Nat, s.c[g + 1][i - 1] < j, j < s.c[g + 1][i]
    PROVE  Highest(s, g, s.p[g][j])
<1>1. SUFFICES ASSUME NEW l \in (g + 1) .. s.h, NEW q \in 1 .. s.k[l], First(s, l, q) = s.p[g][j]
               PROVE  FALSE
  BY DEF Highest
<1>2. PICK x \in Nat \ {0}, y \in Nat \ {0} : x = s.k[g] /\ y = s.k[g + 1]
  BY CutsBelow
<1>3. \A a \in 0..y : s.c[g + 1][a] \in 0..x
  BY <1>2, CutsBelow
<1>4. \A a, b \in 0..y : a < b => s.c[g + 1][a] < s.c[g + 1][b]
  BY <1>2, CutsBelow
<1>5. \A a \in 0..y : s.p[g + 1][a] = s.p[g][s.c[g + 1][a]]
  BY <1>2, CutsBelow
<1>6. s.h \in Nat /\ l \in Nat /\ l \in 0 .. s.h /\ g \in 0 .. s.h /\ g + 1 <= l /\ l <= s.h
  BY DEF Shape, Sliced
<1>7. s.k[l] \in Nat \ {0}
  BY <1>6 DEF Shape, Sliced
<1>8. q - 1 \in 0 .. s.k[l]
  BY <1>7
<1>9. PICK a \in 0..y : s.p[l][q - 1] = s.p[g + 1][a]
  <2>1. g + 1 \in Nat /\ 0..y = 0 .. s.k[g + 1]
    BY <1>2
  <2>2. PICK f \in Nat : f = g + 1
    OBVIOUS
  <2>3. PICK z \in 0 .. s.k[l] : z = q - 1
    BY <1>8
  <2>4. l \in Nat /\ f <= l /\ l <= s.h
    BY <1>6, <2>2
  <2>5. \E a \in 0 .. s.k[f] : s.p[l][z] = s.p[f][a]
    BY <2>4, CutsNest
  <2> QED
    BY <2>1, <2>2, <2>3, <2>5
<1>10. PICK d \in 0..x : d = s.c[g + 1][a] /\ s.p[g][d] = s.p[g][j]
  BY <1>1, <1>3, <1>5, <1>9 DEF First
<1>11. i - 1 \in 0..y /\ i \in 0..y
  BY <1>2
<1>12. PICK b \in 0..x, c \in 0..x : b = s.c[g + 1][i - 1] /\ c = s.c[g + 1][i] /\ b < j /\ j < c
  BY <1>3, <1>11
<1>13. j \in 0..x
  BY <1>2, <1>12
<1>14. Rises(s, g)
  BY <1>6, AllRise
<1>15. \A u, z \in 0..x : u < z => s.p[g][u] < s.p[g][z]
  BY <1>2, <1>14 DEF Rises
<1>16. \A u \in 0..x : s.p[g][u] \in Nat
  BY <1>2, <1>14 DEF Rises
<1>17. d = j
  <2>1. ~(d < j) /\ ~(j < d)
    BY <1>10, <1>13, <1>15, <1>16
  <2> QED
    BY <1>2, <1>10, <1>13, <2>1
<1>18. CASE a <= i - 1
  <2>1. d <= b
    <3>1. CASE a = i - 1
      BY <1>2, <1>10, <1>12, <3>1
    <3>2. CASE a < i - 1
      <4>1. s.c[g + 1][a] < s.c[g + 1][i - 1]
        BY <1>4, <1>11, <3>2
      <4> QED
        BY <1>2, <1>10, <1>12, <4>1
    <3> QED
      BY <1>2, <1>18, <3>1, <3>2
  <2> QED
    BY <1>2, <1>12, <1>17, <2>1
<1>19. CASE a >= i
  <2>1. c <= d
    <3>1. CASE a = i
      BY <1>2, <1>10, <1>12, <3>1
    <3>2. CASE a > i
      <4>1. s.c[g + 1][i] < s.c[g + 1][a]
        BY <1>4, <1>11, <3>2, Zenon
      <4> QED
        BY <1>2, <1>10, <1>12, <4>1
    <3> QED
      BY <1>2, <1>19, <3>1, <3>2
  <2> QED
    BY <1>2, <1>12, <1>17, <2>1
<1> QED
  BY <1>2, <1>18, <1>19

(* What is left of the stack, what is put on it, and whose they are.       *)
Kept(su, st, t) == \A j \in 1..t : su[j] = st[j]
Gains(s, su, t, e, a, g) == \A q \in 1..e : su[t + q] = <<s.at[g][a + ((e + 1) - q)], g>>
Whose(v, t, e, a) == [j \in 1 .. (t + e) |-> IF j <= t THEN v[j] ELSE a + ((e + 1) - (j - t))]

InPlace(s, su, u, t, e, m, g, i) ==
    /\ g + 1 <= s.h /\ i \in 1 .. s.k[g + 1] /\ First(s, g + 1, i) = m
    /\ e \in Nat \ {0} /\ su[t + e][2] = g /\ Stacked(s, su, u, t + e, m)

(* A block's children in place of it on the stack.                         *)
LEMMA NodeStack ==
    ASSUME NEW n, NEW s, Shape(s, n), NEW st, NEW v, NEW t \in Nat, NEW m \in 0 .. s.k[0],
           Stacked(s, st, v, t + 1, m), NEW g \in Nat, st[t + 1][2] = g + 1,
           NEW i, i = v[t + 1], NEW a, a = s.c[g + 1][i - 1], NEW e, e = Width(s, g + 1, i),
           NEW su, Kept(su, st, t), Gains(s, su, t, e, a, g), NEW u, u = Whose(v, t, e, a)
    PROVE  InPlace(s, su, u, t, e, m, g, i)
<1>1. t + 1 # 0 /\ t + 1 \in 1 .. (t + 1) /\ (t + 1) - 1 = t /\ s.h \in Nat
  BY DEF Shape, Sliced
<1>2. Entry(s, st, v, t + 1)
  BY <1>1 DEF Stacked
<1>3. g + 1 <= s.h /\ i \in 1 .. s.k[g + 1] /\ g \in 0 .. s.h
  BY <1>1, <1>2 DEF Entry
<1>4. Begin(s, st, v, t + 1) = m /\ End(s, st, v, 1) = s.k[0]
  BY <1>1 DEF Stacked
<1>5. First(s, g + 1, i) = m
  BY <1>4, Zenon DEF Begin
<1>6. /\ a \in Nat /\ e \in Nat \ {0} /\ s.c[g + 1][i] = a + e
      /\ First(s, g, a + 1) = m /\ s.p[g + 1][i] = s.p[g][a + e]
      /\ \A j \in 1..e : a + j \in 1 .. s.k[g]
  <2>1. /\ s.c[g + 1][i - 1] \in Nat /\ Width(s, g + 1, i) \in Nat \ {0}
        /\ s.c[g + 1][i] = s.c[g + 1][i - 1] + Width(s, g + 1, i)
        /\ First(s, g + 1, i) = First(s, g, s.c[g + 1][i - 1] + 1)
        /\ s.p[g + 1][i] = s.p[g][s.c[g + 1][i]]
        /\ \A j \in 1 .. Width(s, g + 1, i) : s.c[g + 1][i - 1] + j \in 1 .. s.k[g]
    BY <1>3, ChildrenAre
  <2> QED
    BY <1>5, <2>1, Zenon
<1>7. PICK z \in Nat : z = t + e /\ z # 0 /\ t < z
  <2>1. t + e \in Nat /\ t + e # 0 /\ t < t + e
    BY <1>6, Z3
  <2> QED
    BY <2>1
<1>8. \A j \in 1..t : u[j] = v[j] /\ su[j] = st[j]
  BY <1>6 DEF Kept, Whose
<1>9. \A q \in 1..e : u[t + q] = a + ((e + 1) - q)
  <2>1. ASSUME NEW q \in 1..e
        PROVE  u[t + q] = a + ((e + 1) - q)
    <3>1. t + q \in 1 .. (t + e) /\ ~(t + q <= t) /\ (t + q) - t = q
      BY <1>6, Z3
    <3> QED
      BY <3>1, Zenon DEF Whose
  <2> QED
    BY <2>1
<1>10. \A j \in 1..t : Begin(s, su, u, j) = Begin(s, st, v, j) /\ End(s, su, u, j) = End(s, st, v, j) /\ su[j][2] = st[j][2]
  BY <1>8, Zenon DEF Begin, End
<1>11. \A q \in 1..e : /\ su[t + q][2] = g /\ su[t + q] = <<s.at[g][u[t + q]], g>>
                       /\ Begin(s, su, u, t + q) = s.p[g][a + (e - q)]
                       /\ End(s, su, u, t + q) = s.p[g][a + ((e + 1) - q)]
  <2>1. ASSUME NEW q \in 1..e
        PROVE  /\ su[t + q][2] = g /\ su[t + q] = <<s.at[g][u[t + q]], g>>
               /\ Begin(s, su, u, t + q) = s.p[g][a + (e - q)]
               /\ End(s, su, u, t + q) = s.p[g][a + ((e + 1) - q)]
    <3>1. su[t + q][2] = g /\ su[t + q] = <<s.at[g][u[t + q]], g>>
      BY <1>9, Z3 DEF Gains
    <3>2. (a + ((e + 1) - q)) - 1 = a + (e - q)
      BY <1>6
    <3> QED
      BY <1>9, <3>1, <3>2, Zenon DEF Begin, End, First
  <2> QED
    BY <2>1, Zenon
<1>12. ASSUME NEW j \in 1..z
       PROVE  Entry(s, su, u, j)
  <2>1. CASE j <= t
    <3>1. j \in 1..t /\ j \in 1 .. (t + 1)
      BY <2>1
    <3>2. Entry(s, st, v, j)
      BY <3>1, Zenon DEF Stacked
    <3> QED
      BY <1>8, <3>1, <3>2, Zenon DEF Entry
  <2>2. CASE ~(j <= t)
    <3>1. PICK q \in 1..e : j = t + q
      <4>1. j - t \in 1..e /\ j = t + (j - t)
        BY <1>6, <1>7, <2>2
      <4> QED
        BY <4>1
    <3>2. (e + 1) - q \in 1..e
      BY <1>6, Z3
    <3>3. u[t + q] \in 1 .. s.k[g]
      BY <1>6, <1>9, <3>2
    <3> QED
      BY <1>3, <1>11, <3>1, <3>3, Zenon DEF Entry
  <2> QED
    BY <2>1, <2>2, Zenon
<1>13. Begin(s, su, u, z) = m
  <2>1. e \in 1..e /\ e - e = 0 /\ a + 0 = a /\ (a + 1) - 1 = a
    BY <1>6, Z3
  <2>2. Begin(s, su, u, t + e) = s.p[g][a + (e - e)]
    BY <1>11, <2>1, Zenon
  <2>3. s.p[g][a] = m
    BY <1>6, <2>1, Zenon DEF First
  <2> QED
    BY <1>7, <2>1, <2>2, <2>3, Zenon
<1>14. End(s, su, u, t + 1) = End(s, st, v, t + 1)
  <2>1. 1 \in 1..e /\ (e + 1) - 1 = e
    BY <1>6, Z3
  <2>2. End(s, su, u, t + 1) = s.p[g][a + ((e + 1) - 1)]
    BY <1>11, <2>1, Zenon
  <2>3. End(s, st, v, t + 1) = s.p[g + 1][i]
    BY DEF End
  <2> QED
    BY <1>6, <2>1, <2>2, <2>3
<1>15. End(s, su, u, 1) = s.k[0]
  <2>1. CASE t = 0
    BY <1>4, <1>14, <2>1
  <2>2. CASE t # 0
    <3>1. 1 \in 1..t
      BY <2>2
    <3> QED
      BY <1>4, <1>10, <3>1
  <2> QED
    BY <2>1, <2>2
<1>16. ASSUME NEW j \in 1 .. (z - 1)
       PROVE  Begin(s, su, u, j) = End(s, su, u, j + 1) /\ Highest(s, su[j][2], Begin(s, su, u, j))
  <2>1. CASE j <= t
    <3>1. j \in 1..t /\ j \in 1 .. ((t + 1) - 1)
      BY <2>1
    <3>2. Begin(s, st, v, j) = End(s, st, v, j + 1) /\ Highest(s, st[j][2], Begin(s, st, v, j))
      BY <3>1 DEF Stacked
    <3>3. End(s, su, u, j + 1) = End(s, st, v, j + 1)
      <4>1. CASE j = t
        BY <1>14, <4>1
      <4>2. CASE j # t
        <5>1. j + 1 \in 1..t
          BY <2>1, <4>2, Z3
        <5> QED
          BY <1>10, <5>1
      <4> QED
        BY <4>1, <4>2
    <3> QED
      BY <1>10, <3>1, <3>2, <3>3
  <2>2. CASE ~(j <= t)
    <3>1. PICK q \in 1..e : j = t + q /\ q + 1 \in 1..e /\ j + 1 = t + (q + 1)
      <4>1. j - t \in 1..e /\ j = t + (j - t) /\ (j - t) + 1 \in 1..e /\ j + 1 = t + ((j - t) + 1)
        BY <1>6, <1>7, <2>2, Z3
      <4> QED
        BY <4>1, Zenon
    <3>2. (e + 1) - (q + 1) = e - q
      BY <1>6, Z3
    <3>3. Begin(s, su, u, t + q) = s.p[g][a + (e - q)] /\ su[t + q][2] = g
      BY <1>11, Zenon
    <3>4. End(s, su, u, t + (q + 1)) = s.p[g][a + ((e + 1) - (q + 1))]
      BY <1>11, <3>1, Zenon
    <3>5. a + (e - q) \in Nat /\ a < a + (e - q) /\ a + (e - q) < a + e
      BY <1>6, <3>1
    <3>6. Highest(s, g, s.p[g][a + (e - q)])
      BY <1>3, <1>6, <3>5, HighestInside
    <3> QED
      BY <3>1, <3>2, <3>3, <3>4, <3>6, Zenon
  <2> QED
    BY <2>1, <2>2
<1>17. Stacked(s, su, u, z, m)
  BY <1>7, <1>12, <1>13, <1>15, <1>16, Zenon DEF Stacked
<1>18. su[t + e][2] = g
  <2>1. e \in 1..e
    BY <1>6
  <2> QED
    BY <1>11, <2>1
<1> QED
  BY <1>3, <1>5, <1>6, <1>7, <1>17, <1>18 DEF InPlace

(* The blocks read, when it is not a leaf.                                 *)
LEMMA NodeRead ==
    ASSUME NEW n, NEW s, Shape(s, n), NEW im, NEW R, Holds(s, im, R), NEW g \in Nat, g + 1 <= s.h,
           NEW st, NEW su, NEW t \in Nat, NEW z \in Nat, z # 0, NEW m \in Nat,
           st[t + 1][2] = g + 1, su[z][2] = g, NEW q \in 1 .. s.k[g + 1], First(s, g + 1, q) = m,
           NEW l \in 0 .. s.h, NEW i \in 1 .. s.k[l]
    PROVE  ReadNow(s, su, z, m, st, t + 1, m, l, i, s.at[g + 1][q]) /\ ~IsRead(s, st, t + 1, m, g + 1, q)
<1>1. s.h \in Nat /\ l \in Nat /\ g + 1 \in 0 .. s.h /\ t + 1 # 0
  BY DEF Shape, Sliced
<1>2. PICK f \in Nat : f = First(s, l, i)
  BY BlockIs
<1>3. s.at[l][i] = s.at[g + 1][q] <=> l = g + 1 /\ f = m
  <2>1. ASSUME s.at[l][i] = s.at[g + 1][q]
        PROVE  l = g + 1 /\ f = m
    <3>1. l = g + 1 /\ i = q
      BY <1>1, <2>1 DEF Holds
    <3> QED
      BY <1>2, <3>1
  <2>2. ASSUME l = g + 1, f = m
        PROVE  s.at[l][i] = s.at[g + 1][q]
    <3>1. \A j \in 1 .. s.k[l] : First(s, l, j) = First(s, l, i) => j = i
      BY BlockIs
    <3>2. i = q
      BY <1>2, <2>2, <3>1
    <3> QED
      BY <2>2, <3>2
  <2> QED
    BY <2>1, <2>2
<1>4. IsRead(s, st, t + 1, m, l, i) <=> f < m \/ (f = m /\ l > g + 1)
  BY <1>1, <1>2 DEF IsRead
<1>5. IsRead(s, su, z, m, l, i) <=> f < m \/ (f = m /\ l > g)
  BY <1>1, <1>2 DEF IsRead
<1>6. l > g <=> l > g + 1 \/ l = g + 1
  BY <1>1
<1>7. ~IsRead(s, st, t + 1, m, g + 1, q)
  BY <1>1 DEF IsRead
<1> QED
  BY <1>3, <1>4, <1>5, <1>6, <1>7 DEF ReadNow

OnTop(s, im, R, w, v, t, m, l, i) ==
    /\ l \in 0 .. s.h /\ l \in Nat /\ i \in 1 .. s.k[l] /\ v[t + 1] = i
    /\ w.stack[t + 1] = <<s.at[l][i], l>> /\ First(s, l, i) = m
    /\ s.at[l][i] \in DOMAIN im.blocks /\ s.at[l][i] \notin Seen(w) /\ NodeIs(s, im, R, l, i)

(* The block on top has not been read.                                     *)
LEMMA TopIs ==
    ASSUME NEW n, NEW s, Shape(s, n), NEW im, NEW R, Holds(s, im, R), NEW w, NEW v, NEW t \in Nat, NEW m,
           Reached(s, im, R, w, v, t + 1, m)
    PROVE  \E l, i : OnTop(s, im, R, w, v, t, m, l, i)
<1>1. t + 1 # 0 /\ t + 1 \in 1 .. (t + 1)
  OBVIOUS
<1>2. Stacked(s, w.stack, v, t + 1, m) /\ ReadSo(s, im, w, t + 1, m) /\ m \in Nat
  <2>1. s.k[0] \in Nat
    <3>1. 0 \in 0 .. s.h
      BY DEF Shape, Sliced
    <3> QED
      BY <3>1 DEF Shape, Sliced
  <2> QED
    BY <2>1 DEF Reached
<1>3. Entry(s, w.stack, v, t + 1) /\ Begin(s, w.stack, v, t + 1) = m
  BY <1>1, <1>2 DEF Stacked
<1>4. PICK l \in 0 .. s.h : l = w.stack[t + 1][2] /\ v[t + 1] \in 1 .. s.k[l] /\ w.stack[t + 1] = <<s.at[l][v[t + 1]], l>>
  BY <1>3 DEF Entry
<1>5. PICK i \in 1 .. s.k[l] : i = v[t + 1]
  BY <1>4
<1>6. First(s, l, i) = m
  BY <1>3, <1>4, <1>5 DEF Begin
<1>7. l \in Nat /\ s.at[l][i] \in DOMAIN im.blocks /\ NodeIs(s, im, R, l, i)
  BY BlockIs
<1>8. ~IsRead(s, w.stack, t + 1, m, l, i)
  BY <1>2, <1>4, <1>6, <1>7 DEF IsRead
<1>9. s.at[l][i] \notin Seen(w)
  BY <1>2, <1>8, Zenon DEF ReadSo
<1>10. OnTop(s, im, R, w, v, t, m, l, i)
  BY <1>4, <1>5, <1>6, <1>7, <1>9 DEF OnTop
<1> QED
  BY <1>10

(* Reading a leaf.                                                         *)
LEMMA LeafVisit ==
    ASSUME NEW n, NEW s, Shape(s, n), NEW im, NEW R, Holds(s, im, R), \A j \in 1..n : R[j] \in Spans,
           NEW w, NEW v, NEW t \in Nat, NEW m \in Nat, Reached(s, im, R, w, v, t + 1, m),
           m + 1 \in 1 .. s.k[0], w.stack[t + 1] = <<s.at[0][m + 1], 0>>,
           NEW re, Chained(re, w.recs, im.blocks[s.at[0][m + 1]].ents),
           NEW x, x = WalkOf(Rest(w), Append(w.blocks, s.at[0][m + 1]), re, w.state)
    PROVE  Follows(s, im, R, x)
<1>1. /\ w \in WalkType(im) /\ Len(w.stack) = t + 1 /\ m \in 0 .. s.k[0]
      /\ Stacked(s, w.stack, v, t + 1, m) /\ ReadSo(s, im, w, t + 1, m) /\ FoundSo(s, w, R, m)
  BY DEF Reached
<1>2. /\ x.stack = Rest(w) /\ x.blocks = Append(w.blocks, s.at[0][m + 1]) /\ x.recs = re /\ x.state = w.state
  <2>1. HasFields(x, Rest(w), Append(w.blocks, s.at[0][m + 1]), re, w.state)
    BY WalkFields, Zenon
  <2> QED
    BY <2>1, Zenon DEF HasFields
<1>3. w.stack \in Seq(Spots(im)) /\ w.state \in {"walking", "done", "corrupt"} /\ w.blocks \in Seq(DOMAIN im.blocks)
  BY <1>1 DEF WalkType
<1>4. PICK su : su = x.stack
  OBVIOUS
<1>5. su \in Seq(Spots(im)) /\ Len(su) = t /\ \A i \in 1..t : su[i] = w.stack[i]
  <2>1. su = SubSeq(w.stack, 1, (t + 1) - 1)
    BY <1>1, <1>2, <1>4 DEF Rest
  <2> QED
    BY <1>1, <1>3, <2>1, AllButLast, Z3
<1>6. w.stack[t + 1][2] = 0 /\ 0 \in 0 .. s.h
  BY DEF Shape, Sliced
<1>7. m + 1 \in 0 .. s.k[0] /\ Stacked(s, su, v, t, m + 1) /\ (t # 0 => Highest(s, su[t][2], m + 1))
  BY <1>1, <1>5, <1>6, LeafStack
<1>8. t # 0 => su[t][2] \in Nat
  <2>1. SUFFICES ASSUME t # 0 PROVE su[t][2] \in Nat
    OBVIOUS
  <2>2. t \in 1..t
    BY <2>1
  <2>3. Entry(s, su, v, t)
    BY <1>7, <2>2, Zenon DEF Stacked
  <2> QED
    BY <2>3 DEF Entry, Shape, Sliced
<1>9. FoundSo(s, x, R, m + 1)
  <2>1. Chained(x.recs, w.recs, im.blocks[s.at[0][m + 1]].ents)
    BY <1>2
  <2> QED
    BY <1>1, <2>1, LeafFound, Zenon
<1>10. \A l \in 0 .. s.h : \A i \in 1 .. s.k[l] :
          IsRead(s, su, t, m + 1, l, i) <=> IsRead(s, w.stack, t + 1, m, l, i) \/ s.at[l][i] = s.at[0][m + 1]
  <2>1. PICK st : st = w.stack /\ st[t + 1][2] = 0
    BY <1>6
  <2>2. t # 0 => Highest(s, su[t][2], m + 1) /\ su[t][2] \in Nat
    BY <1>7, <1>8
  <2>3. ASSUME NEW l \in 0 .. s.h, NEW i \in 1 .. s.k[l]
        PROVE  ReadNow(s, su, t, m + 1, st, t + 1, m, l, i, s.at[0][m + 1])
    BY <2>1, <2>2, LeafRead, Zenon
  <2> QED
    BY <2>1, <2>3, Zenon DEF ReadNow
<1>11. ~IsRead(s, w.stack, t + 1, m, 0, m + 1)
  <2>1. PICK st : st = w.stack /\ st[t + 1][2] = 0
    BY <1>6
  <2>2. t # 0 => Highest(s, su[t][2], m + 1) /\ su[t][2] \in Nat
    BY <1>7, <1>8
  <2>3. ~IsRead(s, st, t + 1, m, 0, m + 1)
    BY <1>6, <2>1, <2>2, LeafRead, Zenon
  <2> QED
    BY <2>1, <2>3
<1>12. s.at[0][m + 1] \in DOMAIN im.blocks
  BY <1>6, BlockIs
<1>13. s.at[0][m + 1] \notin Seen(w) /\ Once(w.blocks)
  BY <1>1, <1>6, <1>11 DEF ReadSo
<1>14. x.blocks \in Seq(DOMAIN im.blocks) /\ Once(x.blocks) /\ Seen(x) = Seen(w) \cup {s.at[0][m + 1]}
  <2>1. PICK X, b, y, d : X = DOMAIN im.blocks /\ b = w.blocks /\ y = s.at[0][m + 1] /\ d = x.blocks
    BY Zenon
  <2>2. b \in Seq(X) /\ Once(b) /\ y \in X /\ y \notin Elements(b) /\ d = Append(b, y)
    BY <1>2, <1>3, <1>12, <1>13, <2>1 DEF Seen, Elements
  <2>3. NewBehind(X, d, b, y)
    BY <2>2, OnceMoreOnce, Zenon
  <2>4. Seen(x) = Elements(d) /\ Seen(w) = Elements(b)
    BY <2>1, Zenon DEF Seen, Elements
  <2> QED
    BY <2>1, <2>3, <2>4, Zenon DEF NewBehind
<1>15. ReadSo(s, im, x, t, m + 1)
  <2>1. ASSUME NEW l \in 0 .. s.h, NEW i \in 1 .. s.k[l]
        PROVE  s.at[l][i] \in Seen(x) <=> IsRead(s, x.stack, t, m + 1, l, i)
    <3>1. s.at[l][i] \in Seen(w) <=> IsRead(s, w.stack, t + 1, m, l, i)
      BY <1>1 DEF ReadSo
    <3> QED
      BY <1>4, <1>10, <1>14, <3>1
  <2> QED
    BY <1>14, <2>1, Zenon DEF ReadSo
<1>16. x \in WalkType(im)
  <2>1. x.recs \in Seq(Spans)
    BY <1>9, Zenon DEF FoundSo
  <2>2. x = WalkOf(x.stack, x.blocks, x.recs, x.state)
    BY <1>2, Zenon
  <2> QED
    BY <1>2, <1>3, <1>4, <1>5, <1>14, <2>1, <2>2, Zenon DEF WalkType, WalkOf
<1>17. Reached(s, im, R, x, v, t, m + 1)
  BY <1>4, <1>5, <1>7, <1>9, <1>15, <1>16 DEF Reached
<1> QED
  BY <1>17 DEF Follows

(* Reading a block that is not a leaf.                                     *)
LEMMA NodeVisit ==
    ASSUME NEW n, NEW s, Shape(s, n), NEW im, NEW R, Holds(s, im, R),
           NEW w, NEW v, NEW t \in Nat, NEW m \in Nat, Reached(s, im, R, w, v, t + 1, m),
           NEW g \in Nat, g + 1 <= s.h, NEW q \in 1 .. s.k[g + 1], v[t + 1] = q, First(s, g + 1, q) = m,
           w.stack[t + 1] = <<s.at[g + 1][q], g + 1>>,
           NEW su, Chained(su, Rest(w), Pushed(im.blocks[s.at[g + 1][q]].ents, g)),
           NEW x, x = WalkOf(su, Append(w.blocks, s.at[g + 1][q]), w.recs, w.state)
    PROVE  Follows(s, im, R, x)
<1>1. /\ w \in WalkType(im) /\ Len(w.stack) = t + 1 /\ m \in 0 .. s.k[0]
      /\ Stacked(s, w.stack, v, t + 1, m) /\ ReadSo(s, im, w, t + 1, m) /\ FoundSo(s, w, R, m)
  BY DEF Reached
<1>2. /\ x.stack = su /\ x.blocks = Append(w.blocks, s.at[g + 1][q]) /\ x.recs = w.recs /\ x.state = w.state
  <2>1. HasFields(x, su, Append(w.blocks, s.at[g + 1][q]), w.recs, w.state)
    BY WalkFields, Zenon
  <2> QED
    BY <2>1, Zenon DEF HasFields
<1>3. w.stack \in Seq(Spots(im)) /\ w.state \in {"walking", "done", "corrupt"} /\ w.blocks \in Seq(DOMAIN im.blocks)
  BY <1>1 DEF WalkType
<1>4. PICK re : re = Rest(w)
  OBVIOUS
<1>5. re \in Seq(Spots(im)) /\ Len(re) = t /\ \A i \in 1..t : re[i] = w.stack[i]
  <2>1. re = SubSeq(w.stack, 1, (t + 1) - 1)
    BY <1>1, <1>4 DEF Rest
  <2> QED
    BY <1>1, <1>3, <2>1, AllButLast
<1>6. w.stack[t + 1][2] = g + 1 /\ g + 1 \in 0 .. s.h /\ g \in 0 .. s.h /\ g + 1 # 0 /\ (g + 1) - 1 = g
  BY Z3 DEF Shape, Sliced
<1>7. PICK e \in Nat \ {0}, a \in Nat : e = Width(s, g + 1, q) /\ a = s.c[g + 1][q - 1] /\ \A j \in 1..e : a + j \in 1 .. s.k[g]
  BY ChildrenAre
<1>8. PICK ents : ents = im.blocks[s.at[g + 1][q]].ents
  OBVIOUS
<1>9. Listed(ents, e) /\ \A j \in 1..e : ents[j].ptr = s.at[g][a + j]
  <2>1. NodeIs(s, im, R, g + 1, q)
    BY <1>6, BlockIs
  <2> QED
    BY <1>6, <1>7, <1>8, <2>1, Zenon DEF NodeIs
<1>10. \A j \in 1..e : <<ents[j].ptr, g>> \in Spots(im)
  <2>1. ASSUME NEW j \in 1..e
        PROVE  <<ents[j].ptr, g>> \in Spots(im)
    <3>1. a + j \in 1 .. s.k[g]
      BY <1>7
    <3>2. s.at[g][a + j] \in DOMAIN im.blocks
      BY <1>6, <3>1 DEF Holds
    <3> QED
      BY <1>9, <3>2 DEF Spots
  <2> QED
    BY <2>1
<1>11. PICK pu : pu = Pushed(ents, g)
  OBVIOUS
<1>12. pu \in Seq(Spots(im)) /\ Len(pu) = e /\ \A j \in 1..e : pu[j] = <<ents[(e + 1) - j].ptr, g>>
  <2>1. PICK X : X = Spots(im)
    OBVIOUS
  <2>2. \A j \in 1..e : <<ents[j].ptr, g>> \in X
    BY <1>10, <2>1
  <2>3. Reverses(X, pu, ents, e, g)
    BY <1>9, <1>11, <2>2, PushedIs, Zenon
  <2> QED
    BY <2>1, <2>3 DEF Reverses
<1>13. Joins(Spots(im), su, re, pu)
  <2>1. Chained(su, re, pu)
    BY <1>4, <1>8, <1>11
  <2> QED
    BY <1>5, <1>12, <2>1, JoinIs, Zenon
<1>14. su \in Seq(Spots(im)) /\ Len(su) = t + e /\ (\A i \in 1..t : su[i] = re[i]) /\ \A j \in 1..e : su[t + j] = pu[j]
  BY <1>5, <1>12, <1>13 DEF Joins
<1>15. Kept(su, w.stack, t)
  BY <1>5, <1>14 DEF Kept
<1>16. Gains(s, su, t, e, a, g)
  <2>1. ASSUME NEW j \in 1..e
        PROVE  su[t + j] = <<s.at[g][a + ((e + 1) - j)], g>>
    <3>1. (e + 1) - j \in 1..e
      OBVIOUS
    <3> QED
      BY <1>9, <1>12, <1>14, <3>1
  <2> QED
    BY <2>1 DEF Gains
<1>17. PICK u : u = Whose(v, t, e, a)
  OBVIOUS
<1>18. su[t + e][2] = g /\ Stacked(s, su, u, t + e, m)
  <2>1. PICK st, i : st = w.stack /\ i = v[t + 1] /\ i = q
    OBVIOUS
  <2>2. Stacked(s, st, v, t + 1, m) /\ st[t + 1][2] = g + 1 /\ m \in 0 .. s.k[0]
    BY <1>1, <1>6, <2>1
  <2>3. InPlace(s, su, u, t, e, m, g, i)
    <3>1. a = s.c[g + 1][i - 1] /\ e = Width(s, g + 1, i)
      BY <1>7, <2>1
    <3>2. Kept(su, st, t)
      BY <1>15, <2>1
    <3> QED
      BY <1>16, <1>17, <2>1, <2>2, <3>1, <3>2, NodeStack, Zenon
  <2> QED
    BY <2>3, Zenon DEF InPlace
<1>19. PICK z \in Nat : z = t + e /\ z # 0
  <2>1. t + e \in Nat /\ t + e # 0
    OBVIOUS
  <2> QED
    BY <2>1
<1>20. \A l \in 0 .. s.h : \A i \in 1 .. s.k[l] :
          IsRead(s, su, z, m, l, i) <=> IsRead(s, w.stack, t + 1, m, l, i) \/ s.at[l][i] = s.at[g + 1][q]
  <2>1. PICK st : st = w.stack /\ st[t + 1][2] = g + 1
    BY <1>6
  <2>2. su[z][2] = g
    BY <1>18, <1>19
  <2>3. ASSUME NEW l \in 0 .. s.h, NEW i \in 1 .. s.k[l]
        PROVE  ReadNow(s, su, z, m, st, t + 1, m, l, i, s.at[g + 1][q])
    BY <1>19, <2>1, <2>2, NodeRead, Zenon
  <2> QED
    BY <2>1, <2>3, Zenon DEF ReadNow
<1>21. ~IsRead(s, w.stack, t + 1, m, g + 1, q)
  <2>1. PICK st : st = w.stack /\ st[t + 1][2] = g + 1
    BY <1>6
  <2>2. su[z][2] = g
    BY <1>18, <1>19
  <2>3. g + 1 \in 0 .. s.h
    BY <1>6
  <2>4. ~IsRead(s, st, t + 1, m, g + 1, q)
    BY <1>19, <2>1, <2>2, <2>3, NodeRead, Zenon
  <2> QED
    BY <2>1, <2>4
<1>22. s.at[g + 1][q] \in DOMAIN im.blocks
  BY <1>6, BlockIs
<1>23. s.at[g + 1][q] \notin Seen(w) /\ Once(w.blocks)
  BY <1>1, <1>6, <1>21 DEF ReadSo
<1>24. x.blocks \in Seq(DOMAIN im.blocks) /\ Once(x.blocks) /\ Seen(x) = Seen(w) \cup {s.at[g + 1][q]}
  <2>1. PICK X, b, y, d : X = DOMAIN im.blocks /\ b = w.blocks /\ y = s.at[g + 1][q] /\ d = x.blocks
    BY Zenon
  <2>2. b \in Seq(X) /\ Once(b) /\ y \in X /\ y \notin Elements(b) /\ d = Append(b, y)
    BY <1>2, <1>3, <1>22, <1>23, <2>1, Zenon DEF Seen, Elements
  <2>3. NewBehind(X, d, b, y)
    BY <2>2, OnceMoreOnce, Zenon
  <2>4. Seen(x) = Elements(d) /\ Seen(w) = Elements(b)
    BY <2>1, Zenon DEF Seen, Elements
  <2> QED
    BY <2>1, <2>3, <2>4, Zenon DEF NewBehind
<1>25. ReadSo(s, im, x, z, m)
  <2>1. ASSUME NEW l \in 0 .. s.h, NEW i \in 1 .. s.k[l]
        PROVE  s.at[l][i] \in Seen(x) <=> IsRead(s, x.stack, z, m, l, i)
    <3>1. s.at[l][i] \in Seen(w) <=> IsRead(s, w.stack, t + 1, m, l, i)
      BY <1>1 DEF ReadSo
    <3> QED
      BY <1>2, <1>20, <1>24, <3>1
  <2> QED
    BY <1>24, <2>1, Zenon DEF ReadSo
<1>26. x \in WalkType(im)
  <2>1. w.recs \in Seq(Spans)
    BY <1>1, Zenon DEF FoundSo
  <2>2. x = WalkOf(x.stack, x.blocks, x.recs, x.state)
    BY <1>2, Zenon
  <2> QED
    BY <1>2, <1>3, <1>14, <1>24, <2>1, <2>2 DEF WalkType, WalkOf
<1>27. FoundSo(s, x, R, m)
  BY <1>1, <1>2, Zenon DEF FoundSo
<1>28. Reached(s, im, R, x, u, z, m)
  BY <1>1, <1>2, <1>14, <1>18, <1>19, <1>25, <1>26, <1>27, Zenon DEF Reached
<1> QED
  BY <1>28 DEF Follows

(* Reading a block, whichever.                                             *)
LEMMA VisitFollows ==
    ASSUME NEW n, NEW s, Shape(s, n), NEW im, NEW R, Holds(s, im, R), \A j \in 1..n : R[j] \in Spans,
           NEW w, NEW v, NEW t \in Nat, NEW m, Reached(s, im, R, w, v, t + 1, m), NEW x, x = Visit(im, w)
    PROVE  /\ w.stack[t + 1][1] \in DOMAIN im.blocks /\ w.stack[t + 1][1] \notin Seen(w)
           /\ x.state = w.state /\ Follows(s, im, R, x)
<1>1. PICK l, i : OnTop(s, im, R, w, v, t, m, l, i)
  BY TopIs, Zenon
<1>2. /\ l \in 0 .. s.h /\ l \in Nat /\ i \in 1 .. s.k[l] /\ v[t + 1] = i
      /\ w.stack[t + 1] = <<s.at[l][i], l>> /\ First(s, l, i) = m
      /\ s.at[l][i] \in DOMAIN im.blocks /\ s.at[l][i] \notin Seen(w) /\ NodeIs(s, im, R, l, i)
  BY <1>1, Zenon DEF OnTop
<1>3. w \in WalkType(im) /\ Len(w.stack) = t + 1 /\ im.leafMax \in Nat /\ im.nodeMax \in Nat
  BY DEF Reached, Holds
<1>4. PICK b : b = im.blocks[w.stack[t + 1][1]]
  OBVIOUS
<1>5. b = im.blocks[s.at[l][i]] /\ b.level = w.stack[t + 1][2] /\ b.level = l /\ b.addr = s.at[l][i]
  <2>1. w.stack[t + 1][1] = s.at[l][i] /\ w.stack[t + 1][2] = l
    BY <1>2
  <2>2. b.level = l /\ b.addr = s.at[l][i]
    BY <1>2, <1>4, <2>1, Zenon DEF NodeIs
  <2> QED
    BY <1>4, <2>1, <2>2
<1>6. PICK e \in Nat : e = Width(s, l, i)
  <2>1. s.k[l] \in Nat \ {0} /\ l \in 0 .. s.h
    BY <1>2 DEF Shape, Sliced
  <2>2. i - 1 \in 0 .. s.k[l] /\ i \in 0 .. s.k[l] /\ i - 1 <= i
    BY <1>2, <2>1
  <2>3. PICK y \in Nat, z \in Nat : y = s.c[l][i - 1] /\ z = s.c[l][i] /\ y <= z
    BY <2>1, <2>2, Z3 DEF Shape, Sliced
  <2>4. z - y \in Nat
    BY <2>3
  <2> QED
    BY <2>3, <2>4 DEF Width
<1>7. Listed(b.ents, e) /\ e <= IF b.level = 0 THEN im.leafMax ELSE im.nodeMax
  BY <1>2, <1>5, <1>6, Zenon DEF NodeIs
<1>8. Reading(w, b, x)
  BY <1>3, <1>4, <1>5, <1>7, VisitIs, Zenon
<1>9. m \in Nat
  <2>1. l \in 0 .. s.h /\ i \in 1 .. s.k[l]
    BY <1>2
  <2>2. First(s, l, i) \in Nat
    BY <2>1, BlockIs
  <2> QED
    BY <1>2, <2>2
<1>10. CASE l = 0
  <2>1. i = m + 1
    <3>1. s.k[0] \in Nat \ {0} /\ \A j \in 0 .. s.k[0] : s.p[0][j] = j
      <4>1. 0 \in 0 .. s.h
        BY <1>2, <1>10
      <4> QED
        BY <4>1 DEF Shape, Sliced, Leads
    <3>2. i - 1 \in 0 .. s.k[0]
      BY <1>2, <1>10, <3>1
    <3> QED
      BY <1>2, <1>10, <3>1, <3>2 DEF First
  <2>2. PICK re : Chained(re, w.recs, b.ents) /\ x = WalkOf(Rest(w), Append(w.blocks, s.at[0][m + 1]), re, w.state)
    BY <1>5, <1>8, <1>10, <2>1, Zenon DEF Chained, Reading
  <2>3. x.state = w.state
    <3>1. HasFields(x, Rest(w), Append(w.blocks, s.at[0][m + 1]), re, w.state)
      BY <2>2, WalkFields, Zenon
    <3> QED
      BY <3>1, Zenon DEF HasFields
  <2>4. Follows(s, im, R, x)
    <3>1. m + 1 \in 1 .. s.k[0] /\ w.stack[t + 1] = <<s.at[0][m + 1], 0>>
      BY <1>2, <1>10, <2>1
    <3>2. Chained(re, w.recs, im.blocks[s.at[0][m + 1]].ents)
      BY <1>5, <1>10, <2>1, <2>2
    <3> QED
      BY <1>9, <2>2, <3>1, <3>2, LeafVisit
  <2> QED
    BY <1>2, <2>3, <2>4
<1>11. CASE l # 0
  <2>1. PICK g \in Nat : l = g + 1 /\ l - 1 = g
    <3>1. l - 1 \in Nat /\ l = (l - 1) + 1
      BY <1>2, <1>11
    <3> QED
      BY <3>1
  <2>2. PICK su : Chained(su, Rest(w), Pushed(b.ents, g)) /\ x = WalkOf(su, Append(w.blocks, s.at[g + 1][i]), w.recs, w.state)
    BY <1>5, <1>8, <1>11, <2>1, Zenon DEF Chained, Reading
  <2>3. x.state = w.state
    <3>1. HasFields(x, su, Append(w.blocks, s.at[g + 1][i]), w.recs, w.state)
      BY <2>2, WalkFields, Zenon
    <3> QED
      BY <3>1, Zenon DEF HasFields
  <2>4. Follows(s, im, R, x)
    <3>1. /\ g + 1 <= s.h /\ i \in 1 .. s.k[g + 1] /\ First(s, g + 1, i) = m
          /\ w.stack[t + 1] = <<s.at[g + 1][i], g + 1>> /\ v[t + 1] = i
      BY <1>2, <2>1 DEF Shape, Sliced
    <3>2. Chained(su, Rest(w), Pushed(im.blocks[s.at[g + 1][i]].ents, g))
      BY <1>5, <2>1, <2>2
    <3> QED
      BY <1>9, <2>2, <3>1, <3>2, NodeVisit
  <2> QED
    BY <1>2, <2>3, <2>4
<1> QED
  BY <1>10, <1>11

-----------------------------------------------------------------------------
(* The walk from its start to its end.                                     *)

(* A sequence without repetition has as many elements as it is long.       *)
LEMMA OnceCounts ==
    ASSUME NEW X, NEW b \in Seq(X), Once(b)
    PROVE  IsFiniteSet(Elements(b)) /\ Cardinality(Elements(b)) = Len(b)
<1>1. PICK n \in Nat : n = Len(b) /\ DOMAIN b = 1..n /\ b = [i \in 1..n |-> b[i]]
  BY SeqFun
<1>2. b \in [1..n -> Elements(b)]
  BY <1>1 DEF Elements
<1>3. \A i, j \in 1..n : b[i] = b[j] => i = j
  BY <1>1 DEF Once
<1>4. \A y \in Elements(b) : \E i \in 1..n : b[i] = y
  BY <1>1 DEF Elements
<1>5. b \in Bijection(1..n, Elements(b))
  BY <1>2, <1>3, <1>4, Fun_IsBij
<1>6. ExistsBijection(1..n, Elements(b))
  BY <1>5 DEF ExistsBijection
<1> QED
  BY <1>1, <1>6, FS_NatBijection, FS_CountingElements

(* A walk starts before the first leaf, ...                                *)
LEMMA StartFollows ==
    ASSUME NEW n, NEW s, Shape(s, n), NEW im, NEW R, Holds(s, im, R), NEW ok, ok = TRUE, NEW x, x = StartWalk(im, ok)
    PROVE  x.state = "walking" /\ Follows(s, im, R, x)
<1>1. s.h \in Nat /\ s.h \in 0 .. s.h /\ 0 \in 0 .. s.h
  BY DEF Shape, Sliced
<1>2. PICK K \in Nat \ {0} : K = s.k[s.h]
  BY <1>1 DEF Shape, Sliced
<1>3. PICK h \in Nat : h = s.h /\ h = im.level /\ h \in 0 .. s.h
  BY <1>1 DEF Holds
<1>4. Listed(im.root, K) /\ \A i \in 1..K : im.root[i].ptr = s.at[h][i] /\ s.at[h][i] \in DOMAIN im.blocks
  BY <1>2, <1>3 DEF Holds
<1>5. PICK X : X = Spots(im)
  OBVIOUS
<1>6. PICK st : st = Pushed(im.root, im.level)
  OBVIOUS
<1>7. PICK root : root = im.root
  OBVIOUS
<1>8. \A j \in 1..K : <<root[j].ptr, h>> \in X
  BY <1>3, <1>4, <1>5, <1>7 DEF Spots
<1>9. Reverses(X, st, root, K, h)
  <2>1. Listed(root, K) /\ st = Pushed(root, h)
    BY <1>3, <1>4, <1>6, <1>7
  <2> QED
    BY <1>8, <2>1, PushedIs, Zenon
<1>10. st \in Seq(X) /\ Len(st) = K /\ \A q \in 1..K : st[q] = <<root[(K + 1) - q].ptr, h>>
  BY <1>9 DEF Reverses
<1>11. x = WalkOf(st, <<>>, <<>>, "walking")
  <2>1. (IF ok THEN "walking" ELSE "corrupt") = "walking"
    OBVIOUS
  <2> QED
    BY <1>6, <2>1 DEF StartWalk, WalkOf
<1>12. x.stack = st /\ x.blocks = <<>> /\ x.recs = <<>> /\ x.state = "walking"
  <2>1. HasFields(x, st, <<>>, <<>>, "walking")
    BY <1>11, WalkFields, Zenon
  <2> QED
    BY <2>1, Zenon DEF HasFields
<1>13. x \in WalkType(im)
  BY <1>5, <1>10, <1>11 DEF WalkType, WalkOf
<1>14. PICK v : v = [j \in 1..K |-> (K + 1) - j]
  OBVIOUS
<1>15. \A j \in 1..K : v[j] = (K + 1) - j /\ v[j] \in 1..K /\ v[j] - 1 = K - j
  BY <1>14
<1>16. \A j \in 1..K : st[j] = <<s.at[h][v[j]], h>> /\ st[j][2] = h
  <2>1. ASSUME NEW j \in 1..K
        PROVE  st[j] = <<s.at[h][v[j]], h>>
    <3>1. v[j] = (K + 1) - j /\ v[j] \in 1..K
      BY <1>15
    <3>2. root[v[j]].ptr = s.at[h][v[j]]
      BY <1>4, <1>7, <3>1
    <3>3. st[j] = <<root[v[j]].ptr, h>>
      BY <1>10, <3>1
    <3> QED
      BY <3>2, <3>3
  <2> QED
    BY <2>1
<1>17. Rises(s, h)
  BY <1>3, AllRise
<1>18. s.p[h][0] = 0 /\ s.p[h][K] = s.k[0] /\ s.k[0] \in Nat
  BY <1>1, <1>2, <1>3, <1>17 DEF Rises, Shape, Sliced
<1>19. \A j \in 1..K : Begin(s, st, v, j) = s.p[h][K - j] /\ End(s, st, v, j) = s.p[h][(K + 1) - j]
  BY <1>15, <1>16 DEF Begin, End, First
<1>20. \A j \in 1..K : Entry(s, st, v, j)
  BY <1>2, <1>3, <1>15, <1>16 DEF Entry
<1>21. Begin(s, st, v, K) = 0 /\ End(s, st, v, 1) = s.k[0]
  <2>1. K \in 1..K /\ 1 \in 1..K /\ K - K = 0 /\ (K + 1) - 1 = K
    OBVIOUS
  <2> QED
    BY <1>18, <1>19, <2>1
<1>22. ASSUME NEW j \in 1 .. (K - 1)
       PROVE  Begin(s, st, v, j) = End(s, st, v, j + 1) /\ Highest(s, st[j][2], Begin(s, st, v, j))
  <2>1. j \in 1..K /\ j + 1 \in 1..K /\ (K + 1) - (j + 1) = K - j
    OBVIOUS
  <2>2. \A l \in (h + 1) .. s.h : FALSE
    BY <1>3
  <2> QED
    BY <1>16, <1>19, <2>1, <2>2 DEF Highest
<1>23. Stacked(s, st, v, K, 0)
  BY <1>20, <1>21, <1>22 DEF Stacked
<1>24. ReadSo(s, im, x, K, 0)
  <2>1. x.blocks \in Seq(DOMAIN im.blocks) /\ Once(x.blocks) /\ Seen(x) = {}
    <3>1. <<>> \in Seq(DOMAIN im.blocks) /\ Len(<<>>) = 0 /\ DOMAIN <<>> = {}
      OBVIOUS
    <3> QED
      BY <1>12, <3>1 DEF Once, Seen
  <2>2. ASSUME NEW l \in 0 .. s.h, NEW i \in 1 .. s.k[l], IsRead(s, st, K, 0, l, i)
        PROVE  FALSE
    <3>1. First(s, l, i) \in Nat /\ l \in Nat
      BY BlockIs
    <3>2. K \in 1..K
      OBVIOUS
    <3>3. st[K][2] = h
      BY <1>16, <3>2
    <3>4. l > h
      BY <2>2, <3>1, <3>3 DEF IsRead
    <3> QED
      BY <1>3, <3>1, <3>4
  <2> QED
    BY <1>12, <2>1, <2>2 DEF ReadSo
<1>25. FoundSo(s, x, R, 0)
  <2>1. s.c[0][0] = 0
    BY <1>1 DEF Shape, Sliced
  <2>2. <<>> \in Seq(Spans) /\ Len(<<>>) = 0
    OBVIOUS
  <2> QED
    BY <1>12, <2>1, <2>2 DEF FoundSo
<1>26. Reached(s, im, R, x, v, K, 0)
  <2>1. K \in Nat /\ 0 \in 0 .. s.k[0]
    BY <1>18
  <2>2. Len(x.stack) = K /\ Stacked(s, x.stack, v, K, 0)
    BY <1>10, <1>12, <1>23
  <2> QED
    BY <1>13, <1>24, <1>25, <2>1, <2>2, Zenon DEF Reached
<1> QED
  BY <1>12, <1>26 DEF Follows

Whole(im, R, w) ==
    /\ w.recs = R /\ w.blocks \in Seq(DOMAIN im.blocks)
    /\ Seen(w) = DOMAIN im.blocks /\ IsFiniteSet(DOMAIN im.blocks)
    /\ Len(w.blocks) = Cardinality(DOMAIN im.blocks)

(* ... and ends with every record and every block.                         *)
LEMMA EndIs ==
    ASSUME NEW n, NEW s, Shape(s, n), NEW im, NEW R \in Seq(Spans), Len(R) = n, Holds(s, im, R),
           NEW w, NEW v, NEW m, Reached(s, im, R, w, v, 0, m)
    PROVE  Whole(im, R, w)
<1>1. 0 \in 0 .. s.h /\ s.k[0] \in Nat \ {0} /\ n \in Nat /\ s.c[0][s.k[0]] = n
  BY DEF Shape, Sliced
<1>2. m = s.k[0]
  BY DEF Reached, Stacked
<1>3. w.recs \in Seq(Spans) /\ Len(w.recs) = n /\ \A i \in 1..n : w.recs[i] = R[i]
  BY <1>1, <1>2 DEF Reached, FoundSo
<1>4. w.recs = R
  <2>1. PICK re : re = w.recs
    OBVIOUS
  <2>2. re = [i \in 1..n |-> re[i]] /\ R = [i \in 1..n |-> R[i]]
    BY <1>3, <2>1, SeqFun
  <2>3. \A i \in 1..n : re[i] = R[i]
    BY <1>3, <2>1
  <2> QED
    BY <2>1, <2>2, <2>3
<1>5. ReadSo(s, im, w, 0, m)
  BY DEF Reached
<1>6. w.blocks \in Seq(DOMAIN im.blocks) /\ Once(w.blocks)
  BY <1>5 DEF ReadSo
<1>7. Seen(w) \subseteq DOMAIN im.blocks
  <2>1. PICK b : b = w.blocks
    OBVIOUS
  <2>2. \A i \in DOMAIN b : b[i] \in DOMAIN im.blocks
    BY <1>6, <2>1, SeqFun
  <2> QED
    BY <2>1, <2>2 DEF Seen
<1>8. ASSUME NEW a \in DOMAIN im.blocks
      PROVE  a \in Seen(w)
  <2>1. PICK l \in 0 .. s.h : \E i \in 1 .. s.k[l] : a = s.at[l][i]
    BY DEF Holds
  <2>2. PICK i \in 1 .. s.k[l] : a = s.at[l][i]
    BY <2>1
  <2>3. First(s, l, i) \in Nat /\ s.p[l][i] \in 0 .. s.k[0] /\ First(s, l, i) < s.p[l][i]
    BY BlockIs
  <2>4. First(s, l, i) < m
    BY <1>1, <1>2, <2>3
  <2>5. IsRead(s, w.stack, 0, m, l, i)
    BY <2>4 DEF IsRead
  <2> QED
    BY <1>5, <2>2, <2>5 DEF ReadSo
<1>9. Seen(w) = DOMAIN im.blocks
  BY <1>7, <1>8
<1>10. IsFiniteSet(Seen(w)) /\ Cardinality(Seen(w)) = Len(w.blocks)
  BY <1>6, OnceCounts DEF Seen, Elements
<1> QED
  BY <1>4, <1>6, <1>9, <1>10 DEF Whole

-----------------------------------------------------------------------------
(* A tree built whole has a shape.                                         *)

ItsOwn(sizes, H, l, i) ==
    \A g \in 1..H : \A j \in 1 .. sizes[g] : Nth(sizes, l, i) = Nth(sizes, g, j) => l = g /\ i = j

(* Blocks are numbered level after level, each once.                       *)
LEMMA NthIs ==
    ASSUME NEW sizes, NEW H \in Nat, H = Len(sizes), \A l \in 1..H : sizes[l] \in Nat,
           NEW l \in 1..H, NEW i \in 1 .. sizes[l]
    PROVE  /\ SumTo(sizes, H) \in Nat /\ Nth(sizes, l, i) \in 1 .. SumTo(sizes, H)
           /\ ItsOwn(sizes, H, l, i)
<1>1. Adding(sizes, H)
  BY SumIs
<1>2. /\ \A x \in 1..H : SumTo(sizes, x) = SumTo(sizes, x - 1) + sizes[x]
      /\ \A x \in 0..H : SumTo(sizes, x) \in Nat
      /\ \A x, y \in 0..H : x <= y => SumTo(sizes, x) <= SumTo(sizes, y)
  BY <1>1 DEF Adding
<1>3. ASSUME NEW g \in 1..H, NEW j \in 1 .. sizes[g]
      PROVE  /\ SumTo(sizes, g - 1) \in Nat /\ SumTo(sizes, g) \in Nat /\ Nth(sizes, g, j) \in Nat
             /\ SumTo(sizes, g - 1) < Nth(sizes, g, j) /\ Nth(sizes, g, j) <= SumTo(sizes, g)
  <2>1. g - 1 \in 0..H /\ g \in 0..H /\ sizes[g] \in Nat
    OBVIOUS
  <2>2. PICK x \in Nat, y \in Nat : x = SumTo(sizes, g - 1) /\ y = SumTo(sizes, g) /\ y = x + sizes[g]
    BY <1>2, <2>1
  <2>3. Nth(sizes, g, j) = x + j
    BY <2>2 DEF Nth
  <2> QED
    BY <2>1, <2>2, <2>3
<1>4. SumTo(sizes, H) \in Nat /\ Nth(sizes, l, i) \in 1 .. SumTo(sizes, H)
  <2>1. H \in 0..H /\ l \in 0..H /\ l <= H
    OBVIOUS
  <2>2. SumTo(sizes, H) \in Nat /\ SumTo(sizes, l) <= SumTo(sizes, H)
    BY <1>2, <2>1
  <2>3. SumTo(sizes, l - 1) \in Nat /\ SumTo(sizes, l) \in Nat /\ Nth(sizes, l, i) \in Nat
        /\ SumTo(sizes, l - 1) < Nth(sizes, l, i) /\ Nth(sizes, l, i) <= SumTo(sizes, l)
    BY <1>3
  <2> QED
    BY <2>2, <2>3
<1>5. ASSUME NEW x \in 1..H, NEW y \in 1..H, x < y, NEW a \in 1 .. sizes[x], NEW b \in 1 .. sizes[y]
      PROVE  Nth(sizes, x, a) # Nth(sizes, y, b)
  <2>1. x \in 0..H /\ y - 1 \in 0..H /\ x <= y - 1
    BY <1>5
  <2>2. SumTo(sizes, x) <= SumTo(sizes, y - 1)
    BY <1>2, <2>1
  <2>3. SumTo(sizes, x) \in Nat /\ Nth(sizes, x, a) \in Nat /\ Nth(sizes, x, a) <= SumTo(sizes, x)
    BY <1>3
  <2>4. SumTo(sizes, y - 1) \in Nat /\ Nth(sizes, y, b) \in Nat /\ SumTo(sizes, y - 1) < Nth(sizes, y, b)
    BY <1>3
  <2> QED
    BY <2>2, <2>3, <2>4
<1>6. ASSUME NEW g \in 1..H, NEW j \in 1 .. sizes[g], Nth(sizes, l, i) = Nth(sizes, g, j)
      PROVE  l = g /\ i = j
  <2>1. l = g
    <3>1. ~(l < g) /\ ~(g < l)
      BY <1>5, <1>6
    <3> QED
      BY <3>1
  <2>2. SumTo(sizes, l - 1) \in Nat
    BY <1>3
  <2> QED
    BY <1>6, <2>1, <2>2 DEF Nth
<1> QED
  BY <1>4, <1>6 DEF ItsOwn

Leading(p, k, c, m) ==
    /\ \A i \in 0 .. k[0] : p[0][i] = i
    /\ \A l \in 1..m : \A i \in 0 .. k[l] : p[l][i] = p[l - 1][c[l][i]]

(* There are such numbers of leaves, for any levels.                       *)
LEMMA LeadsExist ==
    ASSUME NEW k, NEW c, NEW m \in Nat
    PROVE  \E p : Leading(p, k, c, m)
<1>1. PICK S : S = {z \in Nat : \E p : Leading(p, k, c, z)}
  OBVIOUS
<1>2. 0 \in S
  <2>1. PICK p : p = [l \in {0} |-> [i \in 0 .. k[0] |-> i]]
    OBVIOUS
  <2>2. p[0] = [i \in 0 .. k[0] |-> i]
    BY <2>1
  <2>3. Leading(p, k, c, 0)
    BY <2>2 DEF Leading
  <2> QED
    BY <1>1, <2>3
<1>3. ASSUME NEW z \in Nat, z \in S
      PROVE  z + 1 \in S
  <2>1. PICK p : Leading(p, k, c, z)
    BY <1>1, <1>3
  <2>2. PICK top : top = [i \in 0 .. k[z + 1] |-> p[z][c[z + 1][i]]]
    OBVIOUS
  <2>3. PICK q : q = [l \in 0 .. (z + 1) |-> IF l = z + 1 THEN top ELSE p[l]]
    OBVIOUS
  <2>4. q[z + 1] = top /\ \A l \in 0..z : q[l] = p[l]
    <3>1. z + 1 \in 0 .. (z + 1)
      OBVIOUS
    <3>2. ASSUME NEW l \in 0..z
          PROVE  l \in 0 .. (z + 1) /\ l # z + 1
      OBVIOUS
    <3> QED
      BY <2>3, <3>1, <3>2
  <2>5. \A i \in 0 .. k[0] : q[0][i] = i
    BY <2>1, <2>4 DEF Leading
  <2>6. ASSUME NEW l \in 1 .. (z + 1), NEW i \in 0 .. k[l]
        PROVE  q[l][i] = q[l - 1][c[l][i]]
    <3>1. CASE l = z + 1
      <4>1. l - 1 = z /\ z \in 0..z
        BY <3>1
      <4>2. q[l][i] = p[z][c[z + 1][i]]
        BY <2>2, <2>4, <3>1
      <4>3. q[l - 1] = p[z]
        BY <2>4, <4>1
      <4> QED
        BY <3>1, <4>2, <4>3
    <3>2. CASE l # z + 1
      <4>1. l \in 1..z /\ l \in 0..z /\ l - 1 \in 0..z
        BY <3>2
      <4>2. p[l][i] = p[l - 1][c[l][i]]
        BY <2>1, <4>1 DEF Leading
      <4> QED
        BY <2>4, <4>1, <4>2
    <3> QED
      BY <3>1, <3>2
  <2>7. Leading(q, k, c, z + 1)
    BY <2>5, <2>6 DEF Leading
  <2> QED
    BY <1>1, <2>7
<1>4. m \in S
  BY <1>2, <1>3, SetInduction
<1> QED
  BY <1>1, <1>4

Built(s, n, sizes, addrs) ==
    /\ s.h \in Nat /\ s.h + 1 = Len(sizes)
    /\ \A l \in 0 .. s.h :
          /\ s.k[l] = sizes[l + 1]
          /\ \A i \in 0 .. s.k[l] : s.c[l][i] = CutAt(Count(n, sizes, l + 1), sizes[l + 1], i)
          /\ \A i \in 1 .. s.k[l] : s.at[l][i] = addrs[Nth(sizes, l + 1, i)]

(* The cuts of a level that is smaller than the one below all differ.      *)
LEMMA CutsDiffer ==
    ASSUME NEW n \in Nat, NEW k \in Nat \ {0}, k <= n, NEW i \in 0..k, NEW j \in 0..k, i < j
    PROVE  CutAt(n, k, i) < CutAt(n, k, j)
<1>1. Cutting(n, k)
  BY CutsAre
<1>2. j \in 1..k /\ j - 1 \in 0..k /\ i <= j - 1
  OBVIOUS
<1>3. CutAt(n, k, i) <= CutAt(n, k, j - 1)
  BY <1>1, <1>2 DEF Cutting
<1>4. Share(n, k, j) >= 1
  BY <1>2, SharesHold
<1>5. CutAt(n, k, i) \in Nat /\ CutAt(n, k, j - 1) \in Nat /\ CutAt(n, k, j) \in Nat
  BY <1>1, <1>2 DEF Cutting
<1> QED
  BY <1>3, <1>4, <1>5 DEF Share

(* A level has no more blocks than the one below.                          *)
LEMMA SizesFall ==
    ASSUME NEW k, NEW m \in Nat \ {0, 1}, NEW r \in Nat \ {0}, NEW s, Sized(s, k, m, r),
           NEW i \in 1 .. Len(s), i # Len(s)
    PROVE  s[i] \in Nat /\ s[i + 1] \in Nat \ {0} /\ s[i + 1] <= s[i] /\ s[i] <= s[i + 1] * m
<1>1. PICK x \in Nat, H \in Nat : x = s[i] /\ x > r /\ s[i + 1] = Ceil(x, m) /\ H = Len(s)
  BY DEF Sized
<1>2. x > 1
  BY <1>1
<1>3. PICK q \in Nat \ {0} : q = (x + m - 1) \div m /\ q < x
  BY <1>2, CeilLess
<1>4. x <= q * m
  BY <1>3, CeilIs
<1> QED
  BY <1>1, <1>3, <1>4 DEF Ceil

(* The shape of a tree of these sizes.                                     *)
LEMMA ShapeExists ==
    ASSUME NEW n \in Nat, NEW k, NEW m \in Nat \ {0, 1}, NEW r \in Nat \ {0},
           NEW sizes, Sized(sizes, k, m, r), NEW addrs
    PROVE  \E s : Shape(s, n) /\ Built(s, n, sizes, addrs)
<1>1. PICK H \in Nat, h \in Nat : H = Len(sizes) /\ h + 1 = H
  <2>1. PICK H \in Nat \ {0} : H = Len(sizes)
    BY DEF Sized
  <2>2. H - 1 \in Nat /\ (H - 1) + 1 = H
    OBVIOUS
  <2> QED
    BY <2>1, <2>2
<1>2. PICK ks : ks = [l \in 0..h |-> sizes[l + 1]]
  OBVIOUS
<1>3. PICK cs : cs = [l \in 0..h |-> [i \in 0 .. sizes[l + 1] |-> CutAt(Count(n, sizes, l + 1), sizes[l + 1], i)]]
  OBVIOUS
<1>4. PICK as : as = [l \in 0..h |-> [i \in 1 .. sizes[l + 1] |-> addrs[Nth(sizes, l + 1, i)]]]
  OBVIOUS
<1>5. PICK ps : Leading(ps, ks, cs, h)
  BY LeadsExist
<1>6. PICK s : s = [h |-> h, k |-> ks, c |-> cs, p |-> ps, at |-> as]
  OBVIOUS
<1>7. s.h = h /\ s.k = ks /\ s.c = cs /\ s.p = ps /\ s.at = as
  BY <1>6
<1>8. \A l \in 0..h : /\ l + 1 \in 1..H /\ ks[l] = sizes[l + 1]
                      /\ \A i \in 0 .. ks[l] : cs[l][i] = CutAt(Count(n, sizes, l + 1), sizes[l + 1], i)
                      /\ \A i \in 1 .. ks[l] : as[l][i] = addrs[Nth(sizes, l + 1, i)]
  <2>1. ASSUME NEW l \in 0..h
        PROVE  l + 1 \in 1..H
    BY <1>1
  <2> QED
    BY <1>2, <1>3, <1>4, <2>1
<1>9. Built(s, n, sizes, addrs)
  BY <1>1, <1>7, <1>8 DEF Built
<1>10. ASSUME NEW l \in 0..h
       PROVE  ks[l] \in Nat \ {0} /\ Count(n, sizes, l + 1) \in Nat
  <2>1. ks[l] \in Nat \ {0}
    BY <1>1, <1>8 DEF Sized
  <2>2. CASE l = 0
    BY <2>1, <2>2 DEF Count
  <2>3. CASE l # 0
    <3>1. l - 1 \in 0..h /\ (l - 1) + 1 = l /\ (l + 1) - 1 = l /\ l + 1 # 1 /\ l \in 1..H
      BY <1>1, <2>3
    <3>2. sizes[l] \in Nat
      BY <1>1, <3>1 DEF Sized
    <3> QED
      BY <2>1, <3>1, <3>2 DEF Count
  <2> QED
    BY <2>2, <2>3
<1>11. ASSUME NEW l \in 0..h
       PROVE  /\ cs[l][0] = 0 /\ cs[l][ks[l]] = Count(n, sizes, l + 1)
              /\ \A i \in 0 .. ks[l] : cs[l][i] \in Nat
              /\ \A i, j \in 0 .. ks[l] : i <= j => cs[l][i] <= cs[l][j]
  <2>1. PICK x \in Nat \ {0}, y \in Nat : x = ks[l] /\ x = sizes[l + 1] /\ y = Count(n, sizes, l + 1)
    BY <1>8, <1>10
  <2>2. Cutting(y, x)
    BY CutsAre
  <2>3. \A i \in 0..x : cs[l][i] = CutAt(y, x, i)
    BY <1>8, <2>1
  <2>4. 0 \in 0..x /\ x \in 0..x
    OBVIOUS
  <2> QED
    BY <2>1, <2>2, <2>3, <2>4 DEF Cutting
<1>12. ASSUME NEW l \in 1..h
       PROVE  /\ cs[l][ks[l]] = ks[l - 1]
              /\ \A i, j \in 0 .. ks[l] : i < j => cs[l][i] < cs[l][j]
  <2>1. l \in 0..h /\ l - 1 \in 0..h /\ (l - 1) + 1 = l /\ (l + 1) - 1 = l /\ l + 1 # 1 /\ l \in 1..H /\ l # H
    BY <1>1
  <2>2. Count(n, sizes, l + 1) = sizes[l] /\ ks[l - 1] = sizes[l]
    BY <1>8, <2>1 DEF Count
  <2>3. cs[l][ks[l]] = ks[l - 1]
    BY <1>11, <2>1, <2>2
  <2>4. PICK x \in Nat \ {0}, y \in Nat : x = ks[l] /\ x = sizes[l + 1] /\ y = sizes[l] /\ x <= y
    BY <1>1, <1>8, <2>1, SizesFall
  <2>5. \A i \in 0..x : cs[l][i] = CutAt(y, x, i)
    BY <1>8, <2>1, <2>2, <2>4
  <2>6. ASSUME NEW i \in 0..x, NEW j \in 0..x, i < j
        PROVE  cs[l][i] < cs[l][j]
    <3>1. CutAt(y, x, i) < CutAt(y, x, j)
      BY <2>4, <2>6, CutsDiffer
    <3> QED
      BY <2>5, <3>1
  <2> QED
    BY <2>3, <2>4, <2>6
<1>13. cs[0][ks[0]] = n
  <2>1. 0 \in 0..h /\ 0 + 1 = 1
    OBVIOUS
  <2>2. Count(n, sizes, 0 + 1) = n
    BY <2>1 DEF Count
  <2> QED
    BY <1>11, <2>1, <2>2
<1>14. Sliced(s, n)
  BY <1>7, <1>10, <1>11, <1>12, <1>13 DEF Sliced
<1>15. Leads(s)
  BY <1>5, <1>7 DEF Leads, Leading
<1> QED
  BY <1>9, <1>14, <1>15 DEF Shape

Filed(B, lv, H, sizes) ==
    /\ \A l \in 1..H : \A i \in 1 .. sizes[l] : lv[l][i].addr \in DOMAIN B /\ B[lv[l][i].addr] = lv[l][i]
    /\ \A a \in DOMAIN B : \E l \in 1..H : \E i \in 1 .. sizes[l] : a = lv[l][i].addr

(* Blocks are found by their addresses.                                    *)
LEMMA ByAddressIs ==
    ASSUME NEW lv, NEW H \in Nat, NEW sizes, DOMAIN lv = 1..H, \A l \in 1..H : DOMAIN lv[l] = 1 .. sizes[l],
           \A l, g \in 1..H : \A i \in 1 .. sizes[l] : \A j \in 1 .. sizes[g] :
              lv[l][i].addr = lv[g][j].addr => l = g /\ i = j,
           NEW B, B = ByAddress(lv)
    PROVE  Filed(B, lv, H, sizes)
<1> DEFINE all == UNION {{lv[l][i] : i \in DOMAIN lv[l]} : l \in DOMAIN lv}
<1>2. B = [a \in {b.addr : b \in all} |-> CHOOSE b \in all : b.addr = a]
  BY DEF ByAddress
<1>3. ASSUME NEW b \in all
      PROVE  \E l \in 1..H : \E i \in 1 .. sizes[l] : b = lv[l][i]
  <2>1. PICK l \in DOMAIN lv : b \in {lv[l][i] : i \in DOMAIN lv[l]}
    BY Zenon
  <2>2. PICK i \in DOMAIN lv[l] : b = lv[l][i]
    BY <2>1
  <2> QED
    BY <2>2, Zenon
<1>4. ASSUME NEW l \in 1..H, NEW i \in 1 .. sizes[l]
      PROVE  lv[l][i] \in all
  <2>1. l \in DOMAIN lv /\ i \in DOMAIN lv[l]
    BY Zenon
  <2>2. lv[l][i] \in {lv[l][j] : j \in DOMAIN lv[l]}
    BY <2>1
  <2>3. {lv[l][j] : j \in DOMAIN lv[l]} \in {{lv[g][j] : j \in DOMAIN lv[g]} : g \in DOMAIN lv}
    BY <2>1
  <2> QED
    BY <2>2, <2>3
<1> HIDE DEF all
<1>5. ASSUME NEW l \in 1..H, NEW i \in 1 .. sizes[l]
      PROVE  lv[l][i].addr \in DOMAIN B /\ B[lv[l][i].addr] = lv[l][i]
  <2>1. PICK a, b : a = lv[l][i].addr /\ b = lv[l][i]
    OBVIOUS
  <2>2. b \in all /\ b.addr = a
    BY <1>4, <2>1
  <2>3. a \in DOMAIN B /\ B[a] = CHOOSE x \in all : x.addr = a
    BY <1>2, <2>2
  <2>4. B[a] \in all /\ B[a].addr = a
    BY <2>2, <2>3, Zenon
  <2>5. PICK g \in 1..H : \E j \in 1 .. sizes[g] : B[a] = lv[g][j]
    BY <1>3, <2>4, Zenon
  <2>6. PICK j \in 1 .. sizes[g] : B[a] = lv[g][j]
    BY <2>5
  <2>7. l = g /\ i = j
    <3>1. lv[l][i].addr = lv[g][j].addr
      BY <2>1, <2>4, <2>6
    <3> QED
      BY <3>1
  <2> QED
    BY <2>1, <2>3, <2>6, <2>7, Zenon
<1>6. ASSUME NEW a \in DOMAIN B
      PROVE  \E l \in 1..H : \E i \in 1 .. sizes[l] : a = lv[l][i].addr
  <2>1. PICK b \in all : a = b.addr
    BY <1>2
  <2>2. PICK l \in 1..H : \E i \in 1 .. sizes[l] : b = lv[l][i]
    BY <1>3, Zenon
  <2> QED
    BY <2>1, <2>2, Zenon
<1> QED
  BY <1>5, <1>6, Zenon DEF Filed

Pointing(ents, bl, k) == Listed(ents, k) /\ \A i \in 1..k : ents[i].ptr = bl[i].addr

(* An entry leads to its block.                                            *)
LEMMA EntriesPoint ==
    ASSUME NEW k \in Nat, NEW bl, Listed(bl, k), NEW ents, ents = Entries(bl)
    PROVE  Pointing(ents, bl, k)
<1>1. DOMAIN bl = 1..k
  BY DEF Listed
<1>2. DOMAIN ents = 1..k
  BY <1>1 DEF Entries
<1>3. Listed(ents, k)
  BY <1>1 DEF Entries, Listed
<1>4. ASSUME NEW i \in 1..k
      PROVE  ents[i].ptr = bl[i].addr
  <2>1. PICK kk : kk = keys_of(bl[i].ents)
    OBVIOUS
  <2>2. ents[i] = [low |-> kk.low, high |-> kk.high, ptr |-> bl[i].addr]
    BY <1>1, <2>1 DEF Entries
  <2> QED
    BY <2>2
<1> QED
  BY <1>3, <1>4 DEF Pointing

Differ(addrs, n) == \A i, j \in 1..n : addrs[i] = addrs[j] => i = j

(* Where the blocks of a tree are and what part of their level they have.  *)
Divided(lv, R, n, sizes, addrs, H) ==
    \A l \in 1..H : \A i \in 1 .. sizes[l] :
       /\ lv[l][i].addr = addrs[Nth(sizes, l, i)] /\ lv[l][i].level = l - 1
       /\ lv[l][i].ents = Part(Count(n, sizes, l), sizes[l], Items(lv, R, l), i)
Apart(sizes, addrs, H) ==
    \A l, g \in 1..H : \A i \in 1 .. sizes[l] : \A j \in 1 .. sizes[g] :
       addrs[Nth(sizes, l, i)] = addrs[Nth(sizes, g, j)] => l = g /\ i = j

(* A tree's blocks are found by their addresses.                           *)
LEMMA FiledBuilt ==
    ASSUME NEW n, NEW sizes, NEW H \in Nat, H = Len(sizes), \A l \in 1..H : sizes[l] \in Nat \ {0},
           NEW addrs, Differ(addrs, SumTo(sizes, H)), NEW R, NEW lv, Layered(lv, R, n, sizes, addrs)
    PROVE  /\ Filed(ByAddress(lv), lv, H, sizes) /\ Divided(lv, R, n, sizes, addrs, H)
           /\ Apart(sizes, addrs, H)
<1>1. \A i, j \in 1 .. SumTo(sizes, H) : addrs[i] = addrs[j] => i = j
  BY DEF Differ
<1>2. \A l \in 1..H : /\ Listed(lv[l], sizes[l]) /\ Listed(Items(lv, R, l), Count(n, sizes, l))
                      /\ \A i \in 1 .. sizes[l] :
                            BlockHas(lv[l][i], l - 1, Count(n, sizes, l), Items(lv, R, l), sizes[l],
                                     [x \in 1 .. sizes[l] |-> addrs[Nth(sizes, l, x)]], i)
  BY Zenon DEF Layered
<1>3. DOMAIN lv = 1..H /\ \A l \in 1..H : DOMAIN lv[l] = 1 .. sizes[l]
  <2>1. Listed(lv, H)
    BY DEF Layered
  <2>2. ASSUME NEW l \in 1..H
        PROVE  DOMAIN lv[l] = 1 .. sizes[l]
    <3>1. Listed(lv[l], sizes[l])
      BY <1>2
    <3> QED
      BY <3>1 DEF Listed
  <2> QED
    BY <2>1, <2>2 DEF Listed
<1>4. ASSUME NEW l \in 1..H, NEW i \in 1 .. sizes[l]
      PROVE  /\ lv[l][i].addr = addrs[Nth(sizes, l, i)] /\ lv[l][i].level = l - 1
             /\ lv[l][i].ents = Part(Count(n, sizes, l), sizes[l], Items(lv, R, l), i)
  <2>1. BlockHas(lv[l][i], l - 1, Count(n, sizes, l), Items(lv, R, l), sizes[l],
                 [x \in 1 .. sizes[l] |-> addrs[Nth(sizes, l, x)]], i)
    BY <1>2
  <2>2. PICK as : as = [x \in 1 .. sizes[l] |-> addrs[Nth(sizes, l, x)]]
    OBVIOUS
  <2>3. as[i] = addrs[Nth(sizes, l, i)]
    BY <2>2
  <2>4. BlockHas(lv[l][i], l - 1, Count(n, sizes, l), Items(lv, R, l), sizes[l], as, i)
    BY <2>1, <2>2
  <2> QED
    BY <2>3, <2>4, Zenon DEF BlockHas
<1>5. ASSUME NEW l \in 1..H, NEW g \in 1..H, NEW i \in 1 .. sizes[l], NEW j \in 1 .. sizes[g],
             addrs[Nth(sizes, l, i)] = addrs[Nth(sizes, g, j)]
      PROVE  l = g /\ i = j
  <2>1. \A x \in 1..H : sizes[x] \in Nat
    OBVIOUS
  <2>2. Nth(sizes, l, i) \in 1 .. SumTo(sizes, H) /\ Nth(sizes, g, j) \in 1 .. SumTo(sizes, H)
    BY <2>1, NthIs
  <2>3. Nth(sizes, l, i) = Nth(sizes, g, j)
    BY <1>1, <1>5, <2>2
  <2>4. \A x \in 1..H : \A y \in 1 .. sizes[x] : Nth(sizes, l, i) = Nth(sizes, x, y) => l = x /\ i = y
    <3>1. ItsOwn(sizes, H, l, i)
      BY <2>1, NthIs, Zenon
    <3> QED
      BY <3>1, Zenon DEF ItsOwn
  <2> QED
    BY <2>3, <2>4
<1>6. PICK B : B = ByAddress(lv)
  OBVIOUS
<1>7. Filed(B, lv, H, sizes)
  <2>1. \A l, g \in 1..H : \A i \in 1 .. sizes[l] : \A j \in 1 .. sizes[g] :
           lv[l][i].addr = lv[g][j].addr => l = g /\ i = j
    BY <1>4, <1>5
  <2> QED
    BY <1>3, <1>6, <2>1, ByAddressIs
<1>8. Divided(lv, R, n, sizes, addrs, H)
  BY <1>4, Zenon DEF Divided
<1>9. Apart(sizes, addrs, H)
  BY <1>5, Zenon DEF Apart
<1> QED
  BY <1>6, <1>7, <1>8, <1>9

(* The image of a tree built whole has its shape.                          *)
LEMMA HoldsBuilt ==
    ASSUME NEW n \in Nat, NEW leaf \in Nat \ {0}, NEW m \in Nat \ {0, 1}, NEW r \in Nat \ {0},
           NEW sizes, Sized(sizes, Leaves(n, leaf), m, r), NEW addrs,
           Differ(addrs, SumTo(sizes, Len(sizes))),
           NEW s, Shape(s, n), Built(s, n, sizes, addrs),
           NEW R, NEW lv, Layered(lv, R, n, sizes, addrs), NEW im, im = Image(sizes, lv, leaf, m)
    PROVE  Holds(s, im, R)
<1>1. PICK H \in Nat, h \in Nat : H = Len(sizes) /\ h + 1 = H /\ s.h = h
  BY DEF Sized, Built
<1>2. im.blocks = ByAddress(lv) /\ im.root = Entries(lv[H]) /\ im.level = h /\ im.leafMax = leaf /\ im.nodeMax = m
  <2>1. H - 1 = h
    BY <1>1
  <2> QED
    BY <1>1, <2>1 DEF Image
<1>3. \A l \in 1..H : sizes[l] \in Nat \ {0}
  BY <1>1 DEF Sized
<1>4. \A l \in 0..h : /\ l + 1 \in 1..H /\ s.k[l] = sizes[l + 1]
                      /\ \A i \in 0 .. s.k[l] : s.c[l][i] = CutAt(Count(n, sizes, l + 1), sizes[l + 1], i)
                      /\ \A i \in 1 .. s.k[l] : s.at[l][i] = addrs[Nth(sizes, l + 1, i)]
  <2>1. ASSUME NEW l \in 0..h
        PROVE  l + 1 \in 1..H
    BY <1>1
  <2> QED
    BY <1>1, <2>1 DEF Built
<1>5. \A l \in 1..H : Listed(lv[l], sizes[l]) /\ Listed(Items(lv, R, l), Count(n, sizes, l))
  BY <1>1, Zenon DEF Layered
<1>6. Differ(addrs, SumTo(sizes, H))
  BY <1>1
<1>7. Filed(ByAddress(lv), lv, H, sizes) /\ Divided(lv, R, n, sizes, addrs, H) /\ Apart(sizes, addrs, H)
  BY <1>1, <1>3, <1>6, FiledBuilt
<1>8. \A l \in 1..H : \A i \in 1 .. sizes[l] :
         /\ lv[l][i].addr = addrs[Nth(sizes, l, i)] /\ lv[l][i].level = l - 1
         /\ lv[l][i].ents = Part(Count(n, sizes, l), sizes[l], Items(lv, R, l), i)
  BY <1>7, Zenon DEF Divided
<1>9. Filed(im.blocks, lv, H, sizes)
  BY <1>2, <1>7, Zenon
<1>10. \A l \in 0..h : \A i \in 1 .. s.k[l] : s.at[l][i] = lv[l + 1][i].addr
  BY <1>4, <1>8, Z3
<1>11. ASSUME NEW l \in 0..h, NEW g \in 0..h, NEW i \in 1 .. s.k[l], NEW j \in 1 .. s.k[g], s.at[l][i] = s.at[g][j]
       PROVE  l = g /\ i = j
  <2>1. /\ l + 1 \in 1..H /\ g + 1 \in 1..H /\ i \in 1 .. sizes[l + 1] /\ j \in 1 .. sizes[g + 1]
        /\ addrs[Nth(sizes, l + 1, i)] = addrs[Nth(sizes, g + 1, j)]
    BY <1>4, <1>11
  <2>2. l + 1 = g + 1 /\ i = j
    BY <1>7, <2>1, Z3 DEF Apart
  <2> QED
    BY <2>2
<1>12. ASSUME NEW l \in 0..h, NEW i \in 1 .. s.k[l]
       PROVE  s.at[l][i] \in DOMAIN im.blocks /\ NodeIs(s, im, R, l, i)
  <2>1. l + 1 \in 1..H /\ i \in 1 .. sizes[l + 1] /\ (l + 1) - 1 = l
    BY <1>4
  <2>2. PICK b, a : b = lv[l + 1][i] /\ a = s.at[l][i] /\ b.addr = a
    BY <1>10
  <2>3. a \in DOMAIN im.blocks /\ im.blocks[a] = b
    <3>1. PICK g \in 1..H : g = l + 1 /\ i \in 1 .. sizes[g] /\ b = lv[g][i]
      BY <2>1, <2>2
    <3>2. lv[g][i].addr \in DOMAIN im.blocks /\ im.blocks[lv[g][i].addr] = lv[g][i]
      BY <1>9, <3>1, Zenon DEF Filed
    <3> QED
      BY <2>2, <3>1, <3>2
  <2>4. PICK x \in Nat \ {0} : x = sizes[l + 1] /\ x = s.k[l]
    BY <1>3, <1>4, <2>1
  <2>5. PICK y : y = Count(n, sizes, l + 1)
    OBVIOUS
  <2>6. PICK its : its = Items(lv, R, l + 1)
    OBVIOUS
  <2>7. b.level = l /\ b.ents = Part(y, x, its, i)
    BY <1>8, <2>1, <2>2, <2>4, <2>5, <2>6
  <2>8. i - 1 \in 0..x /\ i \in 0..x
    BY <2>4
  <2>9. s.c[l][i - 1] = CutAt(y, x, i - 1) /\ s.c[l][i] = CutAt(y, x, i)
    BY <1>4, <2>4, <2>5, <2>8
  <2>10. Width(s, l, i) = Share(y, x, i)
    BY <2>9 DEF Width, Share
  <2>11. PICK e : e = Share(y, x, i)
    OBVIOUS
  <2>12. Listed(b.ents, e) /\ \A j \in 1..e : b.ents[j] = its[CutAt(y, x, i - 1) + j]
    <3>1. PICK f, q : f = b.ents /\ q = CutAt(y, x, i - 1)
      OBVIOUS
    <3>2. f = [j \in 1..e |-> its[q + j]]
      BY <2>7, <2>11, <3>1 DEF Part
    <3>3. Listed(f, e) /\ \A j \in 1..e : f[j] = its[q + j]
      BY <3>2 DEF Listed
    <3> QED
      BY <3>1, <3>3
  <2>13. CASE l = 0
    <3>1. its = R /\ y = n
      BY <2>5, <2>6, <2>13 DEF Items, Count
    <3>2. e \in 0..leaf
      <4>1. x = Leaves(n, leaf) /\ n <= x * leaf
        <5>1. x = sizes[1]
          <6>1. 0 + 1 = 1
            OBVIOUS
          <6> QED
            BY <2>4, <2>13, <6>1
        <5>2. x = Leaves(n, leaf)
          BY <5>1 DEF Sized
        <5> QED
          BY <5>2, LeavesAre
      <4>2. leaf \in Nat /\ i \in 1..x
        BY <2>1, <2>4
      <4> QED
        BY <2>11, <3>1, <4>1, <4>2, SharesFit
    <3> QED
      BY <1>2, <2>2, <2>3, <2>7, <2>9, <2>10, <2>11, <2>12, <2>13, <3>1, <3>2 DEF NodeIs
  <2>14. CASE l # 0
    <3>1. l \in 1..H /\ l # H /\ l + 1 # 1 /\ l - 1 \in 0..h /\ (l - 1) + 1 = l
      BY <1>1, <2>14
    <3>2. its = Entries(lv[l]) /\ y = sizes[l] /\ y \in Nat /\ x <= y /\ y <= x * m
      <4>1. its = Entries(lv[l]) /\ y = sizes[l]
        <5>1. (l + 1) - 1 = l
          BY <3>1
        <5> QED
          BY <2>5, <2>6, <3>1, <5>1 DEF Items, Count
      <4>2. sizes[l] \in Nat /\ sizes[l + 1] <= sizes[l] /\ sizes[l] <= sizes[l + 1] * m
        BY <1>1, <3>1, SizesFall
      <4> QED
        BY <2>4, <4>1, <4>2
    <3>3. m \in Nat /\ i \in 1..x
      BY <2>1, <2>4
    <3>4. e \in 0..m
      BY <2>11, <3>2, <3>3, SharesFit
    <3>5. Pointing(its, lv[l], y)
      BY <1>5, <3>1, <3>2, EntriesPoint
    <3>6. ASSUME NEW j \in 1..e
          PROVE  b.ents[j].ptr = s.at[l - 1][s.c[l][i - 1] + j]
      <4>1. Cutting(y, x)
        BY <3>2, CutsAre
      <4>2. PICK u \in Nat, v \in Nat : u = CutAt(y, x, i - 1) /\ v = CutAt(y, x, i)
        BY <2>8, <4>1 DEF Cutting
      <4>3. v <= y
        <5>1. i <= x /\ x \in 0..x
          BY <3>3
        <5> QED
          BY <2>8, <4>1, <4>2, <5>1 DEF Cutting
      <4>4. e = v - u
        BY <2>11, <4>2 DEF Share
      <4>5. u + j \in 1..y
        <5>1. u \in Nat /\ v \in Nat /\ y \in Nat /\ e \in Nat /\ j \in Nat /\ 1 <= j /\ j <= e
          BY <3>2, <3>4
        <5>2. 1 <= u + j /\ u + j <= v
          BY <4>4, <5>1
        <5> QED
          BY <4>3, <5>1, <5>2
      <4>6. its[u + j].ptr = lv[l][u + j].addr
        BY <3>5, <4>5 DEF Pointing
      <4>7. s.k[l - 1] = y
        BY <1>4, <3>1, <3>2
      <4>8. s.at[l - 1][u + j] = lv[l][u + j].addr
        BY <1>10, <3>1, <4>5, <4>7
      <4> QED
        BY <2>9, <2>12, <4>2, <4>6, <4>8
    <3> QED
      BY <1>2, <2>2, <2>3, <2>7, <2>10, <2>11, <2>12, <2>14, <3>4, <3>6 DEF NodeIs
  <2> QED
    BY <2>2, <2>3, <2>13, <2>14
<1>13. ASSUME NEW a \in DOMAIN im.blocks
       PROVE  \E l \in 0..h : \E i \in 1 .. s.k[l] : a = s.at[l][i]
  <2>1. PICK g \in 1..H : \E i \in 1 .. sizes[g] : a = lv[g][i].addr
    BY <1>9 DEF Filed
  <2>2. PICK i \in 1 .. sizes[g] : a = lv[g][i].addr
    BY <2>1
  <2>3. PICK l \in 0..h : l + 1 = g
    <3>1. g - 1 \in 0..h /\ (g - 1) + 1 = g
      BY <1>1
    <3> QED
      BY <3>1
  <2>4. i \in 1 .. s.k[l]
    BY <1>4, <2>3
  <2>5. a = s.at[l][i]
    BY <1>10, <2>2, <2>3, <2>4
  <2> QED
    BY <2>4, <2>5
<1>14. Listed(im.root, s.k[h]) /\ \A i \in 1 .. s.k[h] : im.root[i].ptr = s.at[h][i]
  <2>1. h \in 0..h /\ H \in 1..H /\ h + 1 = H
    BY <1>1
  <2>2. PICK x \in Nat : x = sizes[H] /\ x = s.k[h]
    BY <1>3, <1>4, <2>1
  <2>3. PICK root : root = im.root /\ root = Entries(lv[H])
    BY <1>2
  <2>4. Pointing(root, lv[H], x)
    BY <1>5, <2>1, <2>2, <2>3, EntriesPoint
  <2>5. \A i \in 1..x : s.at[h][i] = lv[H][i].addr
    BY <1>10, <2>1, <2>2
  <2> QED
    BY <2>2, <2>3, <2>4, <2>5 DEF Pointing
<1> QED
  BY <1>1, <1>2, <1>11, <1>12, <1>13, <1>14 DEF Holds

-----------------------------------------------------------------------------
(* What the blocks and the entries of an image are.                        *)

IsBlock(b) == \E ad, le, en, lf, ri : b = [addr |-> ad, level |-> le, ents |-> en, left |-> lf, right |-> ri]
IsEntry(e) == \E lo, hi, p : e = [low |-> lo, high |-> hi, ptr |-> p]
Formed(im) ==
    /\ \E bl, ro, le, lm, nm : im = [blocks |-> bl, root |-> ro, level |-> le, leafMax |-> lm, nodeMax |-> nm]
    /\ \A a \in DOMAIN im.blocks :
          /\ IsBlock(im.blocks[a])
          /\ im.blocks[a].level # 0 =>
                \E e \in Nat : Listed(im.blocks[a].ents, e) /\ \A j \in 1..e : IsEntry(im.blocks[a].ents[j])

(* What is put into a level are blocks, and above the leaves entries.      *)
LEMMA FormedBuilt ==
    ASSUME NEW n \in Nat, NEW sizes, NEW H \in Nat \ {0}, H = Len(sizes), \A l \in 1..H : sizes[l] \in Nat \ {0},
           NEW addrs, NEW R, NEW lv, Layered(lv, R, n, sizes, addrs), Leveled(lv, R, sizes, addrs, H),
           NEW leaf, NEW m, NEW im, im = Image(sizes, lv, leaf, m)
    PROVE  Formed(im)
<1>1. DOMAIN lv = 1..H /\ \A l \in 1..H : DOMAIN lv[l] = 1 .. sizes[l]
  BY DEF Layered, Listed
<1>2. ASSUME NEW l \in 1..H, NEW i \in 1 .. sizes[l]
      PROVE  IsBlock(lv[l][i])
  <2>1. PICK its, as : its = Items(lv, R, l) /\ as = Places(sizes, addrs, l)
    OBVIOUS
  <2>2. lv[l] = Level(l - 1, its, as)
    BY <2>1 DEF Leveled
  <2>3. PICK sh : sh = Shares(its, Len(as))
    OBVIOUS
  <2>4. lv[l] = [x \in DOMAIN as |-> [addr |-> as[x], level |-> l - 1, ents |-> sh[x],
                                      left |-> IF x = 1 THEN Null ELSE as[x - 1],
                                      right |-> IF x = Len(as) THEN Null ELSE as[x + 1]]]
    BY <2>2, <2>3 DEF Level
  <2>5. i \in DOMAIN as
    BY <1>1, <2>4
  <2>6. PICK lf, ri : lf = (IF i = 1 THEN Null ELSE as[i - 1]) /\ ri = (IF i = Len(as) THEN Null ELSE as[i + 1])
    OBVIOUS
  <2>7. lv[l][i] = [addr |-> as[i], level |-> l - 1, ents |-> sh[i], left |-> lf, right |-> ri]
    BY <2>4, <2>5, <2>6
  <2> QED
    BY <2>7 DEF IsBlock
<1>3. ASSUME NEW l \in 1..H, NEW i \in 1 .. sizes[l]
      PROVE  /\ lv[l][i].level = l - 1
             /\ l # 1 => \E e \in Nat : Listed(lv[l][i].ents, e) /\ \A j \in 1..e : IsEntry(lv[l][i].ents[j])
  <2>1. PICK as : BlockHas(lv[l][i], l - 1, Count(n, sizes, l), Items(lv, R, l), sizes[l], as, i)
    BY DEF Layered
  <2>2. lv[l][i].level = l - 1 /\ lv[l][i].ents = Part(Count(n, sizes, l), sizes[l], Items(lv, R, l), i)
    BY <2>1 DEF BlockHas
  <2>3. ASSUME l # 1
        PROVE  \E e \in Nat : Listed(lv[l][i].ents, e) /\ \A j \in 1..e : IsEntry(lv[l][i].ents[j])
    <3>1. l - 1 \in 1..H
      BY <2>3
    <3>2. PICK y \in Nat \ {0}, x \in Nat \ {0} : y = sizes[l - 1] /\ x = sizes[l]
      BY <3>1
    <3>3. PICK its : its = Entries(lv[l - 1])
      OBVIOUS
    <3>4. PICK ents : ents = lv[l][i].ents /\ ents = Part(y, x, its, i)
      BY <2>2, <2>3, <3>2, <3>3 DEF Count, Items
    <3>5. Cutting(y, x)
      BY <3>2, CutsAre
    <3>6. i \in 0..x /\ i - 1 \in 0..x /\ x \in 0..x /\ i <= x /\ i - 1 <= i
      BY <3>2
    <3>7. PICK u \in Nat, v \in Nat : u = CutAt(y, x, i - 1) /\ v = CutAt(y, x, i) /\ u <= v /\ v <= y
      BY <3>5, <3>6 DEF Cutting
    <3>8. PICK e \in Nat : e = v - u
      <4>1. v - u \in Nat
        BY <3>7
      <4> QED
        BY <4>1
    <3>9. ents = [j \in 1..e |-> its[u + j]]
      BY <3>4, <3>7, <3>8 DEF Part, Share
    <3>10. ASSUME NEW k \in 1..y
           PROVE  IsEntry(its[k])
      <4>1. k \in DOMAIN lv[l - 1]
        BY <1>1, <3>1, <3>2
      <4>2. PICK key : key = keys_of(lv[l - 1][k].ents)
        OBVIOUS
      <4>3. its[k] = [low |-> key.low, high |-> key.high, ptr |-> lv[l - 1][k].addr]
        BY <3>3, <4>1, <4>2 DEF Entries
      <4> QED
        BY <4>3 DEF IsEntry
    <3>11. ASSUME NEW j \in 1..e
           PROVE  IsEntry(ents[j])
      <4>1. u + j \in 1..y
        BY <3>7, <3>8
      <4> QED
        BY <3>9, <3>10, <4>1
    <3>12. Listed(ents, e)
      BY <3>9 DEF Listed
    <3> QED
      BY <3>4, <3>11, <3>12
  <2> QED
    BY <2>2, <2>3
<1>4. ASSUME NEW a \in DOMAIN im.blocks
      PROVE  \E l \in 1..H : \E i \in 1 .. sizes[l] : im.blocks[a] = lv[l][i]
  <2> DEFINE all == UNION {{lv[l][i] : i \in DOMAIN lv[l]} : l \in DOMAIN lv}
  <2>1. im.blocks = [x \in {b.addr : b \in all} |-> CHOOSE b \in all : b.addr = x]
    BY DEF Image, ByAddress
  <2>2. ASSUME NEW b \in all
        PROVE  \E l \in 1..H : \E i \in 1 .. sizes[l] : b = lv[l][i]
    <3>1. PICK l \in DOMAIN lv : b \in {lv[l][i] : i \in DOMAIN lv[l]}
      BY Zenon
    <3>2. PICK i \in DOMAIN lv[l] : b = lv[l][i]
      BY <3>1
    <3> QED
      BY <1>1, <3>2, Zenon
  <2> HIDE DEF all
  <2>3. \E b \in all : b.addr = a
    BY <2>1
  <2>4. im.blocks[a] = CHOOSE b \in all : b.addr = a
    BY <2>1
  <2>5. im.blocks[a] \in all
    BY <2>3, <2>4, Zenon
  <2> QED
    BY <2>2, <2>5, Zenon
<1>5. \E bl, ro, le, lm, nm : im = [blocks |-> bl, root |-> ro, level |-> le, leafMax |-> lm, nodeMax |-> nm]
  BY DEF Image
<1>6. ASSUME NEW a \in DOMAIN im.blocks
      PROVE  /\ IsBlock(im.blocks[a])
             /\ im.blocks[a].level # 0 =>
                   \E e \in Nat : Listed(im.blocks[a].ents, e) /\ \A j \in 1..e : IsEntry(im.blocks[a].ents[j])
  <2>1. PICK l \in 1..H : \E i \in 1 .. sizes[l] : im.blocks[a] = lv[l][i]
    BY <1>4
  <2>2. PICK i \in 1 .. sizes[l] : im.blocks[a] = lv[l][i]
    BY <2>1
  <2>3. PICK b : b = im.blocks[a] /\ b = lv[l][i]
    BY <2>2
  <2>4. IsBlock(b) /\ b.level = l - 1
    BY <1>2, <1>3, <2>3
  <2>5. b.level # 0 => \E e \in Nat : Listed(b.ents, e) /\ \A j \in 1..e : IsEntry(b.ents[j])
    <3>1. l - 1 # 0 => l # 1
      OBVIOUS
    <3> QED
      BY <1>3, <2>3, <2>4, <3>1
  <2> QED
    BY <2>3, <2>4, <2>5
<1> QED
  BY <1>5, <1>6 DEF Formed

-----------------------------------------------------------------------------
(* What `finish` makes of the extents found.                               *)

HasSpans(R, n) ==
    /\ Len(R) = n /\ DOMAIN R = 1..n /\ Listed(R, n)
    /\ \A i \in 1..n : R[i] \in Spans /\ R[i].low \in Int /\ R[i].high \in Int

(* A sequence of extents, by its places.                                   *)
LEMMA SpansAre ==
    ASSUME NEW R \in Seq(Spans)
    PROVE  \E n \in Nat : HasSpans(R, n)
<1>1. PICK n \in Nat : n = Len(R)
  BY SeqFun
<1>2. DOMAIN R = 1..n
  BY <1>1, SeqFun
<1>3. Listed(R, n)
  BY <1>1, SeqFun, Zenon DEF Listed
<1>4. \A i \in 1..n : R[i] \in Spans
  BY <1>1, SeqFun
<1>5. \A i \in 1..n : R[i].low \in Int /\ R[i].high \in Int
  BY <1>4 DEF Spans
<1> QED
  BY <1>1, <1>2, <1>3, <1>4, <1>5 DEF HasSpans

Earlier(s, i) == {j \in DOMAIN s : \/ s[j].low < s[i].low
                                   \/ (s[j].low = s[i].low /\ j < i)}
Sorting(s, n, q) ==
    /\ q \in [1..n -> 1..n] /\ \A k, l \in 1..n : q[k] = q[l] => k = l
    /\ finish(s) = [k \in 1..n |-> s[q[k]]]
    /\ \A k, l \in 1..n : k < l => s[q[k]].low <= s[q[l]].low

(* It rearranges them in the order of their offsets.                       *)
LEMMA FinishIs ==
    ASSUME NEW n \in Nat, NEW s, DOMAIN s = 1..n, \A i \in 1..n : s[i].low \in Int
    PROVE  \E q : Sorting(s, n, q)
<1>1. PICK c : c = [i \in 1..n |-> Cardinality(Earlier(s, i))]
  OBVIOUS
<1>2. ASSUME NEW i \in 1..n
      PROVE  IsFiniteSet(Earlier(s, i)) /\ c[i] = Cardinality(Earlier(s, i)) /\ c[i] \in Nat /\ i \notin Earlier(s, i)
             /\ c[i] + 1 \in 1..n
  <2>1. Earlier(s, i) \subseteq 1..n /\ i \notin Earlier(s, i)
    BY DEF Earlier
  <2>2. IsFiniteSet(1..n) /\ Cardinality(1..n) = n
    BY FS_Interval
  <2>3. IsFiniteSet(Earlier(s, i)) /\ Cardinality(Earlier(s, i)) \in Nat
    BY <2>1, <2>2, FS_Subset, FS_CardinalityType
  <2>4. Cardinality(Earlier(s, i)) <= n /\ Cardinality(Earlier(s, i)) # n
    BY <2>1, <2>2, FS_Subset
  <2> QED
    BY <1>1, <2>1, <2>3, <2>4
<1>3. ASSUME NEW i \in 1..n, NEW j \in 1..n, i \in Earlier(s, j)
      PROVE  c[i] < c[j]
  <2>1. Earlier(s, i) \cup {i} \subseteq Earlier(s, j)
    BY <1>3 DEF Earlier
  <2>2. Cardinality(Earlier(s, i) \cup {i}) = c[i] + 1
    <3>1. PICK S : S = Earlier(s, i)
      OBVIOUS
    <3>2. IsFiniteSet(S) /\ i \notin S
      BY <1>2, <3>1, Zenon
    <3>3. Cardinality(S \cup {i}) = Cardinality(S) + 1
      BY <3>2, FS_AddElement
    <3> QED
      BY <1>2, <3>1, <3>3, Zenon
  <2>3. Cardinality(Earlier(s, i) \cup {i}) <= c[j]
    BY <1>2, <2>1, FS_Subset
  <2> QED
    BY <1>2, <2>2, <2>3
<1>4. ASSUME NEW i \in 1..n, NEW j \in 1..n, i # j
      PROVE  i \in Earlier(s, j) \/ j \in Earlier(s, i)
  BY <1>4 DEF Earlier
<1>5. PICK f : f = [i \in 1..n |-> c[i] + 1]
  OBVIOUS
<1>6. f \in [1..n -> 1..n]
  BY <1>2, <1>5
<1>7. ASSUME NEW i \in 1..n, NEW j \in 1..n, f[i] = f[j]
      PROVE  i = j
  <2>1. f[i] = c[i] + 1 /\ f[j] = c[j] + 1 /\ c[i] \in Nat /\ c[j] \in Nat
    BY <1>2, <1>5
  <2>2. c[i] = c[j]
    <3>1. PICK a \in Nat, b \in Nat : a = c[i] /\ b = c[j]
      BY <2>1
    <3>2. a + 1 = b + 1
      BY <1>7, <2>1, <3>1
    <3> QED
      BY <3>1, <3>2, Z3
  <2>3. SUFFICES ASSUME i # j PROVE FALSE
    OBVIOUS
  <2>4. CASE i \in Earlier(s, j)
    <3>1. c[i] < c[j]
      BY <1>3, <2>4
    <3> QED
      BY <2>1, <2>2, <3>1
  <2>5. CASE j \in Earlier(s, i)
    <3>1. c[j] < c[i]
      BY <1>3, <2>5
    <3> QED
      BY <2>1, <2>2, <3>1
  <2> QED
    BY <1>4, <2>3, <2>4, <2>5
<1>8. f \in Injection(1..n, 1..n)
  BY <1>6, <1>7, Fun_IsInj
<1>9. f \in Surjection(1..n, 1..n)
  <2>1. IsFiniteSet(1..n) /\ Cardinality(1..n) = n
    BY FS_Interval
  <2> QED
    BY <1>8, <2>1, FS_Injection
<1>10. ASSUME NEW k \in 1..n
       PROVE  \E i \in 1..n : c[i] = k - 1
  <2>1. PICK i \in 1..n : f[i] = k
    BY <1>9 DEF Surjection
  <2>2. c[i] + 1 = k /\ c[i] \in Nat
    BY <1>2, <1>5, <2>1
  <2> QED
    BY <2>2
<1>11. PICK q : q = [k \in 1..n |-> CHOOSE i \in 1..n : Cardinality(Earlier(s, i)) = k - 1]
  OBVIOUS
<1>12. ASSUME NEW k \in 1..n
       PROVE  q[k] \in 1..n /\ c[q[k]] = k - 1
  <2>1. \E i \in 1..n : Cardinality(Earlier(s, i)) = k - 1
    BY <1>2, <1>10
  <2>2. q[k] = CHOOSE i \in 1..n : Cardinality(Earlier(s, i)) = k - 1
    BY <1>11
  <2>3. q[k] \in 1..n /\ Cardinality(Earlier(s, q[k])) = k - 1
    BY <2>1, <2>2, Zenon
  <2> QED
    BY <1>2, <2>3
<1>13. finish(s) = [k \in 1..n |-> s[q[k]]]
  <2>1. finish(s) = [k \in DOMAIN s |-> s[CHOOSE i \in DOMAIN s : Cardinality(Earlier(s, i)) = k - 1]]
    BY DEF finish, Earlier
  <2>2. finish(s) = [k \in 1..n |-> s[CHOOSE i \in 1..n : Cardinality(Earlier(s, i)) = k - 1]]
    BY <2>1
  <2> QED
    BY <1>11, <2>2
<1>14. q \in [1..n -> 1..n]
  <2>1. q = [k \in 1..n |-> q[k]]
    BY <1>11
  <2> QED
    BY <1>12, <2>1
<1>15. ASSUME NEW k \in 1..n, NEW l \in 1..n, q[k] = q[l]
       PROVE  k = l
  <2>1. c[q[k]] = k - 1 /\ c[q[l]] = l - 1
    BY <1>12
  <2>2. c[q[k]] = c[q[l]]
    BY <1>15
  <2> QED
    BY <2>1, <2>2
<1>16. ASSUME NEW k \in 1..n, NEW l \in 1..n, k < l
       PROVE  s[q[k]].low <= s[q[l]].low
  <2>1. SUFFICES ASSUME s[q[l]].low < s[q[k]].low PROVE FALSE
    BY <1>12
  <2>2. q[l] \in Earlier(s, q[k])
    BY <1>12, <2>1 DEF Earlier
  <2>3. c[q[l]] < c[q[k]]
    BY <1>3, <1>12, <2>2
  <2> QED
    BY <1>12, <1>16, <2>3
<1>17. Sorting(s, n, q)
  BY <1>13, <1>14, <1>15, <1>16 DEF Sorting
<1> QED
  BY <1>17

(* Numbers from 1 to n that rise are these numbers.                        *)
LEMMA RisingIs ==
    ASSUME NEW n \in Nat, NEW z \in [1..n -> 1..n], \A k, l \in 1..n : k < l => z[k] < z[l], NEW k \in 1..n
    PROVE  z[k] = k
<1>1. PICK S : S = {x \in Nat : x + 1 \in 1..n => z[x + 1] >= x + 1}
  OBVIOUS
<1>2. 0 \in S
  <2>1. 0 + 1 = 1
    OBVIOUS
  <2> QED
    BY <1>1, <2>1
<1>3. ASSUME NEW x \in Nat, x \in S
      PROVE  x + 1 \in S
  <2>1. SUFFICES ASSUME (x + 1) + 1 \in 1..n PROVE z[(x + 1) + 1] >= (x + 1) + 1
    BY <1>1
  <2>2. x + 1 \in 1..n /\ x + 1 < (x + 1) + 1
    BY <2>1
  <2>3. z[x + 1] < z[(x + 1) + 1] /\ z[x + 1] >= x + 1 /\ z[x + 1] \in Nat /\ z[(x + 1) + 1] \in Nat
    BY <1>1, <1>3, <2>1, <2>2
  <2> QED
    BY <2>3
<1>4. \A x \in Nat : x \in S
  BY <1>2, <1>3, SetInduction
<1>5. z[k] >= k
  <2>1. k - 1 \in Nat /\ (k - 1) + 1 = k
    OBVIOUS
  <2> QED
    BY <1>1, <1>4, <2>1
<1>6. PICK D : D = {x \in Nat : n - x \in 1..n => z[n - x] <= n - x}
  OBVIOUS
<1>7. 0 \in D
  <2>1. n - 0 = n
    OBVIOUS
  <2> QED
    BY <1>6, <2>1
<1>8. ASSUME NEW x \in Nat, x \in D
      PROVE  x + 1 \in D
  <2>1. SUFFICES ASSUME n - (x + 1) \in 1..n PROVE z[n - (x + 1)] <= n - (x + 1)
    BY <1>6
  <2>2. n - x \in 1..n /\ n - (x + 1) < n - x
    BY <2>1
  <2>3. z[n - (x + 1)] < z[n - x] /\ z[n - x] <= n - x /\ z[n - x] \in Nat /\ z[n - (x + 1)] \in Nat
    BY <1>6, <1>8, <2>1, <2>2
  <2> QED
    BY <2>3
<1>9. \A x \in Nat : x \in D
  BY <1>7, <1>8, SetInduction
<1>10. z[k] <= k
  <2>1. n - k \in Nat /\ n - (n - k) = k
    OBVIOUS
  <2> QED
    BY <1>6, <1>9, <2>1
<1> QED
  BY <1>5, <1>10

(* As many extents as there are, none twice, are these in their order.     *)
LEMMA FinishSorts ==
    ASSUME NEW R \in Seq(Spans), Ordered(R), NEW s \in Seq(Spans), Once(s), Len(s) = Len(R),
           Elements(s) \subseteq Elements(R)
    PROVE  finish(s) = R
<1>1. PICK n \in Nat : n = Len(R) /\ DOMAIN R = 1..n /\ Listed(R, n) /\ \A i \in 1..n : R[i].low \in Int
  BY SpansAre DEF HasSpans
<1>2. DOMAIN s = 1..n /\ \A i \in 1..n : s[i].low \in Int
  <2>1. PICK m \in Nat : HasSpans(s, m)
    BY SpansAre
  <2> QED
    BY <1>1, <2>1 DEF HasSpans
<1>3. PICK q : Sorting(s, n, q)
  BY <1>2, FinishIs
<1>4. PICK f : f = finish(s) /\ f = [k \in 1..n |-> s[q[k]]]
  BY <1>3 DEF Sorting
<1>5. \A i \in 1..n : \E y \in 1..n : s[i] = R[y]
  <2>1. ASSUME NEW i \in 1..n
        PROVE  \E y \in 1..n : s[i] = R[y]
    <3>1. s[i] \in Elements(R)
      BY <1>2 DEF Elements
    <3> QED
      BY <1>1, <3>1 DEF Elements
  <2> QED
    BY <2>1
<1>6. PICK z : z = [k \in 1..n |-> CHOOSE y \in 1..n : f[k] = R[y]]
  OBVIOUS
<1>7. ASSUME NEW k \in 1..n
      PROVE  q[k] \in 1..n /\ f[k] = s[q[k]] /\ z[k] \in 1..n /\ f[k] = R[z[k]]
  <2>1. q[k] \in 1..n /\ f[k] = s[q[k]]
    BY <1>3, <1>4 DEF Sorting
  <2>2. \E y \in 1..n : f[k] = R[y]
    BY <1>5, <2>1
  <2>3. z[k] = CHOOSE y \in 1..n : f[k] = R[y]
    BY <1>6
  <2> QED
    BY <2>1, <2>2, <2>3, Zenon
<1>8. ASSUME NEW k \in 1..n, NEW l \in 1..n, k < l
      PROVE  z[k] < z[l]
  <2>1. f[k].low <= f[l].low
    <3>1. s[q[k]].low <= s[q[l]].low
      BY <1>3, <1>8 DEF Sorting
    <3> QED
      BY <1>7, <3>1
  <2>2. q[k] # q[l]
    BY <1>3, <1>8 DEF Sorting
  <2>3. f[k] # f[l]
    <3>1. q[k] \in 1 .. Len(s) /\ q[l] \in 1 .. Len(s)
      BY <1>1, <1>7
    <3>2. s[q[k]] # s[q[l]]
      BY <2>2, <3>1 DEF Once
    <3> QED
      BY <1>7, <3>2
  <2>4. z[k] # z[l]
    BY <1>7, <2>3
  <2>5. ASSUME z[l] < z[k]
        PROVE  FALSE
    <3>1. R[z[l]].low < R[z[k]].low /\ R[z[l]].low \in Int /\ R[z[k]].low \in Int
      BY <1>1, <1>7, <2>5 DEF Ordered
    <3> QED
      BY <1>7, <2>1, <3>1
  <2> QED
    BY <1>7, <2>4, <2>5
<1>9. z \in [1..n -> 1..n]
  <2>1. z = [k \in 1..n |-> z[k]]
    BY <1>6
  <2> QED
    BY <1>7, <2>1
<1>10. \A k \in 1..n : z[k] = k
  BY <1>8, <1>9, RisingIs
<1>11. \A k \in 1..n : f[k] = R[k]
  BY <1>7, <1>10
<1>12. f = [k \in 1..n |-> f[k]]
  BY <1>4
<1> QED
  BY <1>1, <1>4, <1>11, <1>12 DEF Listed

(* It finds nothing that was not there.                                    *)
LEMMA FinishWithin ==
    ASSUME NEW s \in Seq(Spans)
    PROVE  Elements(finish(s)) \subseteq Elements(s)
<1>1. PICK n \in Nat : DOMAIN s = 1..n /\ \A i \in 1..n : s[i].low \in Int
  BY SpansAre DEF HasSpans
<1>2. PICK q : Sorting(s, n, q)
  BY <1>1, FinishIs
<1>3. PICK f : f = finish(s) /\ f = [k \in 1..n |-> s[q[k]]] /\ \A k \in 1..n : q[k] \in 1..n
  BY <1>2 DEF Sorting
<1>4. ASSUME NEW y \in Elements(f)
      PROVE  y \in Elements(s)
  <2>1. PICK k \in 1..n : y = s[q[k]]
    BY <1>3 DEF Elements
  <2> QED
    BY <1>1, <1>3, <2>1 DEF Elements
<1> QED
  BY <1>3, <1>4

(* Extents apart do not overlap.                                           *)
LEMMA NoOverlap ==
    ASSUME NEW R \in Seq(Spans), Separate(R)
    PROVE  ~Overlap(R)
<1>1. PICK n \in Nat : n = Len(R) /\ DOMAIN R = 1..n /\ \A i \in 1..n : R[i].low \in Int /\ R[i].high \in Int
  BY SpansAre DEF HasSpans
<1>2. ASSUME NEW i \in 1 .. (n - 1), R[i].high >= R[i + 1].low
      PROVE  FALSE
  <2>1. i \in 1..n /\ i + 1 \in 1..n /\ i < i + 1
    OBVIOUS
  <2>2. R[i].high < R[i + 1].low
    BY <1>1, <2>1 DEF Separate
  <2> QED
    BY <1>1, <1>2, <2>1, <2>2
<1> QED
  BY <1>1, <1>2 DEF Overlap

-----------------------------------------------------------------------------
(* A tree in its image, and the turns of the walks over it.                *)

AllApart(addrs, n) ==
    /\ Listed(addrs, n) /\ \A i \in 1..n : addrs[i] \in 100 .. (99 + n)
    /\ Differ(addrs, n)

(* The blocks given to a tree are all different.                           *)
LEMMA AddrsAre ==
    ASSUME NEW n \in Nat, NEW addrs, addrs = Addrs(n)
    PROVE  AllApart(addrs, n)
<1>1. addrs = [i \in 1..n |-> 100 + n - i]
  BY DEF Addrs
<1>2. Listed(addrs, n)
  BY <1>1 DEF Listed
<1>3. \A i \in 1..n : addrs[i] = 100 + n - i
  BY <1>1
<1>4. \A i \in 1..n : addrs[i] \in 100 .. (99 + n)
  BY <1>3
<1>5. Differ(addrs, n)
  BY <1>3 DEF Differ
<1> QED
  BY <1>2, <1>4, <1>5 DEF AllApart

Grown(im, R, n, a, h, r) ==
    /\ \E s : Shape(s, n) /\ Holds(s, im, R)
    /\ a \in Nat /\ DOMAIN im.blocks \subseteq 100 .. (99 + a)
    /\ im.level = h - 1 /\ Len(im.root) \in 1..r /\ Formed(im)

Laid(im, R, n, leaf, m, r, sizes, a) ==
    /\ sizes = LevelSizes(n, leaf, m, r) /\ a = SumTo(sizes, Len(sizes))
    /\ im = Image(sizes, Levels(R, sizes, Addrs(a)), leaf, m)

(* How the image came about: its levels in their blocks, and its shape.    *)
Raised(im, R, n, leaf, m, r, sizes, a, addrs, lv, s) ==
    /\ Sized(sizes, Leaves(n, leaf), m, r) /\ a \in Nat /\ a = SumTo(sizes, Len(sizes)) /\ AllApart(addrs, a)
    /\ Layered(lv, R, n, sizes, addrs) /\ Leveled(lv, R, sizes, addrs, Len(sizes)) /\ im = Image(sizes, lv, leaf, m)
    /\ Shape(s, n) /\ Built(s, n, sizes, addrs) /\ Holds(s, im, R)

(* So it did.                                                              *)
LEMMA ImageRaised ==
    ASSUME NEW n \in Nat, NEW R \in Seq(Spans), Len(R) = n,
           NEW leaf \in Nat \ {0}, NEW m \in Nat \ {0, 1}, NEW r \in Nat \ {0},
           NEW sizes, NEW a, NEW im, Laid(im, R, n, leaf, m, r, sizes, a)
    PROVE  \E addrs, lv, s : Raised(im, R, n, leaf, m, r, sizes, a, addrs, lv, s)
<1>0. sizes = LevelSizes(n, leaf, m, r) /\ a = SumTo(sizes, Len(sizes))
  BY DEF Laid
<1>1. Sized(sizes, Leaves(n, leaf), m, r)
  BY <1>0, LevelSizesAre
<1>2. PICK H \in Nat \ {0} : H = Len(sizes) /\ (\A i \in 1..H : sizes[i] \in Nat \ {0}) /\ sizes[H] <= r
  BY <1>1 DEF Sized
<1>3. a \in Nat
  <2>1. Adding(sizes, H)
    BY <1>2, SumIs
  <2> QED
    BY <1>0, <1>2, <2>1 DEF Adding
<1>4. PICK addrs : addrs = Addrs(a) /\ im = Image(sizes, Levels(R, sizes, addrs), leaf, m)
  BY DEF Laid
<1>5. AllApart(addrs, a)
  BY <1>3, <1>4, AddrsAre
<1>6. Listed(R, n)
  BY SeqFun, Zenon DEF Listed
<1>7. PICK lv : lv = Levels(R, sizes, addrs)
  OBVIOUS
<1>8. Layered(lv, R, n, sizes, addrs)
  BY <1>0, <1>2, <1>3, <1>5, <1>6, <1>7, LayeredLevels DEF AllApart
<1>9. PICK s : Shape(s, n) /\ Built(s, n, sizes, addrs)
  BY <1>1, ShapeExists
<1>10. Differ(addrs, SumTo(sizes, Len(sizes)))
  BY <1>0, <1>5 DEF AllApart
<1>11. im = Image(sizes, lv, leaf, m)
  BY <1>4, <1>7
<1>12. Holds(s, im, R)
  <2>1. Shape(s, n)
    BY <1>9
  <2>2. Built(s, n, sizes, addrs)
    BY <1>9
  <2> QED
    BY <1>1, <1>8, <2>1, <2>2, <1>10, <1>11, HoldsBuilt
<1>13. Leveled(lv, R, sizes, addrs, Len(sizes))
  BY <1>2, <1>7, LevelsAre
<1>14. Raised(im, R, n, leaf, m, r, sizes, a, addrs, lv, s)
  BY <1>0, <1>1, <1>3, <1>5, <1>8, <1>9, <1>11, <1>12, <1>13, Zenon DEF Raised
<1> QED
  BY <1>14, Zenon

(* The image of a tree holds its records, in the blocks it was given.      *)
LEMMA ImageGrown ==
    ASSUME NEW n \in Nat, NEW R \in Seq(Spans), Len(R) = n,
           NEW leaf \in Nat \ {0}, NEW m \in Nat \ {0, 1}, NEW r \in Nat \ {0},
           NEW sizes, NEW a, NEW im, Laid(im, R, n, leaf, m, r, sizes, a)
    PROVE  Grown(im, R, n, a, Len(sizes), r)
<1>1. PICK addrs, lv, s : Raised(im, R, n, leaf, m, r, sizes, a, addrs, lv, s)
  BY ImageRaised
<1>2. PICK H \in Nat \ {0} : H = Len(sizes) /\ (\A i \in 1..H : sizes[i] \in Nat \ {0}) /\ sizes[H] <= r
  BY <1>1 DEF Raised, Sized
<1>3. a \in Nat /\ a = SumTo(sizes, Len(sizes))
  BY <1>1 DEF Raised
<1>4. AllApart(addrs, a)
  BY <1>1 DEF Raised
<1>7. Layered(lv, R, n, sizes, addrs)
  BY <1>1 DEF Raised
<1>8. Shape(s, n) /\ Built(s, n, sizes, addrs)
  BY <1>1 DEF Raised
<1>10. im = Image(sizes, lv, leaf, m)
  BY <1>1 DEF Raised
<1>11. Holds(s, im, R)
  BY <1>1 DEF Raised
<1>12. s.h \in Nat /\ s.h + 1 = H /\ s.h = H - 1 /\ im.level = s.h
  BY <1>2, <1>8, <1>11 DEF Built, Holds
<1>13. DOMAIN im.blocks \subseteq 100 .. (99 + a)
  <2>1. SUFFICES ASSUME NEW b \in DOMAIN im.blocks PROVE b \in 100 .. (99 + a)
    OBVIOUS
  <2>2. PICK l \in 0 .. s.h : \E i \in 1 .. s.k[l] : b = s.at[l][i]
    BY <1>11 DEF Holds
  <2>3. PICK i \in 1 .. s.k[l] : b = s.at[l][i]
    BY <2>2
  <2>4. s.k[l] = sizes[l + 1] /\ s.at[l][i] = addrs[Nth(sizes, l + 1, i)]
    BY <1>8, <2>3 DEF Built
  <2>5. l + 1 \in 1..H /\ i \in 1 .. sizes[l + 1]
    BY <1>12, <2>3, <2>4
  <2>6. PICK g \in 1..H : g = l + 1
    BY <2>5
  <2>7. Nth(sizes, g, i) \in 1..a
    BY <1>2, <1>3, <2>5, <2>6, NthIs
  <2> QED
    BY <1>4, <2>3, <2>4, <2>6, <2>7 DEF AllApart
<1>14. Len(im.root) \in 1..r
  <2>1. s.k[s.h] = sizes[H]
    BY <1>8, <1>12 DEF Built
  <2>2. PICK e \in Nat : e = sizes[H] /\ e \in 1..r
    BY <1>2
  <2>3. Listed(im.root, e)
    BY <1>11, <2>1, <2>2 DEF Holds
  <2>4. Len(im.root) = e
    BY <2>3, FunSeq DEF Listed
  <2> QED
    BY <2>2, <2>4
<1>15. \E q : Shape(q, n) /\ Holds(q, im, R)
  BY <1>8, <1>11
<1>17. Formed(im)
  <2>1. Leveled(lv, R, sizes, addrs, H)
    BY <1>1, <1>2 DEF Raised
  <2> QED
    BY <1>2, <1>7, <1>10, <2>1, FormedBuilt
<1> QED
  BY <1>2, <1>3, <1>12, <1>13, <1>14, <1>15, <1>17 DEF Grown

(* How a walk of it stands.                                                *)
OnItsWay(im, R, n, w) == \E s : Shape(s, n) /\ Holds(s, im, R) /\ Follows(s, im, R, w)
GoesWell(im, R, n, w) ==
    \/ w.state = "walking" /\ OnItsWay(im, R, n, w)
    \/ w.state = "done" /\ Whole(im, R, w)

(* It starts well, ...                                                     *)
LEMMA StartsWell ==
    ASSUME NEW n, NEW im, NEW R, NEW a, NEW h, NEW r, Grown(im, R, n, a, h, r),
           NEW ok, ok = TRUE, NEW x, x = StartWalk(im, ok)
    PROVE  GoesWell(im, R, n, x)
<1>1. PICK s : Shape(s, n) /\ Holds(s, im, R)
  BY DEF Grown
<1>2. x.state = "walking" /\ Follows(s, im, R, x)
  BY <1>1, StartFollows
<1> QED
  BY <1>1, <1>2 DEF GoesWell, OnItsWay

AnotherTurn(im, R, n, w, a, x) ==
    /\ w.stack # <<>> => /\ Top(w)[1] \in DOMAIN im.blocks /\ Top(w)[1] \notin Seen(w)
                         /\ x.state = w.state /\ OnItsWay(im, R, n, x)
    /\ w.stack = <<>> => Whole(im, R, w)
    /\ Len(w.blocks) \in 0..a /\ IsFiniteSet(Seen(w)) /\ Seen(w) \subseteq DOMAIN im.blocks
    /\ IsFiniteSet(DOMAIN im.blocks) /\ w \in WalkType(im)

(* ... has something to read or has read everything ...                    *)
LEMMA TurnIs ==
    ASSUME NEW n \in Nat, NEW im, NEW R \in Seq(Spans), Len(R) = n, NEW a, NEW h, NEW r, Grown(im, R, n, a, h, r),
           NEW w, OnItsWay(im, R, n, w), NEW x, x = Visit(im, w)
    PROVE  AnotherTurn(im, R, n, w, a, x)
<1>1. PICK s, v, t, m : Shape(s, n) /\ Holds(s, im, R) /\ Reached(s, im, R, w, v, t, m)
  BY DEF OnItsWay, Follows
<1>2. t \in Nat /\ Len(w.stack) = t /\ w \in WalkType(im) /\ w.blocks \in Seq(DOMAIN im.blocks) /\ Once(w.blocks)
  BY <1>1 DEF Reached, ReadSo
<1>3. w.stack \in Seq(Spots(im))
  BY <1>2 DEF WalkType
<1>4. Seen(w) = Elements(w.blocks)
  BY DEF Seen, Elements
<1>5. Seen(w) \subseteq DOMAIN im.blocks /\ Len(w.blocks) \in Nat
  BY <1>2, <1>4, SeqFun DEF Elements
<1>6. a \in Nat /\ DOMAIN im.blocks \subseteq 100 .. (99 + a)
  BY DEF Grown
<1>7. IsFiniteSet(100 .. (99 + a)) /\ Cardinality(100 .. (99 + a)) = a
  <2>1. IsFiniteSet(100 .. (99 + a))
    BY <1>6, FS_Interval
  <2>2. Cardinality(100 .. (99 + a)) = IF 100 > 99 + a THEN 0 ELSE (99 + a) - 100 + 1
    BY <1>6, FS_Interval
  <2>3. (99 + a) - 100 + 1 = a /\ (100 > 99 + a => a = 0)
    BY <1>6
  <2> QED
    BY <2>1, <2>2, <2>3
<1>8. IsFiniteSet(DOMAIN im.blocks)
  BY <1>6, <1>7, FS_Subset
<1>9. IsFiniteSet(Seen(w)) /\ Cardinality(Seen(w)) = Len(w.blocks)
  BY <1>2, <1>4, OnceCounts
<1>10. Len(w.blocks) <= a
  <2>1. Seen(w) \subseteq 100 .. (99 + a)
    BY <1>5, <1>6
  <2>2. Cardinality(Seen(w)) <= Cardinality(100 .. (99 + a))
    BY <1>7, <2>1, FS_Subset
  <2> QED
    BY <1>7, <1>9, <2>2
<1>11. ASSUME w.stack = <<>>
       PROVE  Whole(im, R, w)
  <2>1. t = 0
    BY <1>2, <1>11
  <2>2. Reached(s, im, R, w, v, 0, m)
    BY <1>1, <2>1
  <2> QED
    BY <1>1, <2>2, EndIs
<1>12. ASSUME w.stack # <<>>
       PROVE  /\ Top(w)[1] \in DOMAIN im.blocks /\ Top(w)[1] \notin Seen(w)
              /\ x.state = w.state /\ OnItsWay(im, R, n, x)
  <2>1. t # 0
    BY <1>2, <1>3, <1>12
  <2>2. PICK q \in Nat : t = q + 1
    <3>1. t - 1 \in Nat /\ t = (t - 1) + 1
      BY <1>2, <2>1
    <3> QED
      BY <3>1
  <2>3. Reached(s, im, R, w, v, q + 1, m)
    BY <1>1, <2>2
  <2>4. \A j \in 1..n : R[j] \in Spans
    BY SeqFun
  <2>5. /\ w.stack[q + 1][1] \in DOMAIN im.blocks /\ w.stack[q + 1][1] \notin Seen(w)
        /\ x.state = w.state /\ Follows(s, im, R, x)
    BY <1>1, <2>3, <2>4, VisitFollows
  <2>6. Top(w) = w.stack[q + 1]
    BY <1>2, <2>2 DEF Top
  <2> QED
    BY <1>1, <2>5, <2>6 DEF OnItsWay
<1> QED
  BY <1>2, <1>5, <1>6, <1>8, <1>9, <1>10, <1>11, <1>12 DEF AnotherTurn

Ended(w, R, x) == x.state = "done" /\ x.recs = R /\ x.blocks = w.blocks

(* A walk that has read everything is still whole when it says so.         *)
LEMMA EndedWell ==
    ASSUME NEW im, NEW R, NEW n, NEW w, Whole(im, R, w), NEW x, Ended(w, R, x)
    PROVE  GoesWell(im, R, n, x)
<1>1. Seen(x) = Seen(w)
  BY DEF Ended, Seen
<1>2. Whole(im, R, x)
  BY <1>1 DEF Ended, Whole
<1> QED
  BY <1>2 DEF Ended, GoesWell

(* ... so that a turn of `walk_tree` leaves it well, ...                   *)
LEMMA TreeTurn ==
    ASSUME NEW n \in Nat, NEW im, NEW R \in Seq(Spans), Len(R) = n, NEW a, NEW h, NEW r, Grown(im, R, n, a, h, r),
           NEW w, w.state = "walking", GoesWell(im, R, n, w),
           NEW limit \in Nat, a <= limit, NEW x, x = WalkTree(im, w, limit)
    PROVE  GoesWell(im, R, n, x)
<1>1. OnItsWay(im, R, n, w)
  BY DEF GoesWell
<1>2. PICK y : y = Visit(im, w)
  OBVIOUS
<1>3. AnotherTurn(im, R, n, w, a, y)
  BY <1>1, <1>2, TurnIs
<1>4. a \in Nat /\ Len(w.blocks) \in 0..a /\ w \in WalkType(im)
  BY <1>3 DEF AnotherTurn, Grown
<1>5. CASE w.stack = <<>>
  <2>1. Whole(im, R, w)
    BY <1>3, <1>5 DEF AnotherTurn
  <2>2. x = [w EXCEPT !.state = "done"]
    BY <1>5 DEF WalkTree
  <2>3. x.state = "done" /\ x.recs = w.recs /\ x.blocks = w.blocks
    BY <1>4, <2>2 DEF WalkType
  <2>4. Ended(w, R, x)
    BY <2>1, <2>3 DEF Ended, Whole
  <2> QED
    BY <2>1, <2>4, EndedWell
<1>6. CASE w.stack # <<>>
  <2>1. Top(w)[1] \in DOMAIN im.blocks /\ y.state = w.state /\ OnItsWay(im, R, n, y)
    BY <1>3, <1>6 DEF AnotherTurn
  <2>2. ~(Len(w.blocks) > limit)
    BY <1>4
  <2>3. x = y
    BY <1>2, <1>6, <2>1, <2>2 DEF WalkTree
  <2> QED
    BY <2>1, <2>3 DEF GoesWell
<1> QED
  BY <1>5, <1>6

(* Records of their own offsets are different.                             *)
LEMMA OrderedOnce ==
    ASSUME NEW R \in Seq(Spans), Ordered(R)
    PROVE  Once(R)
<1>1. PICK n \in Nat : n = Len(R) /\ DOMAIN R = 1..n /\ \A i \in 1..n : R[i].low \in Int
  BY SpansAre DEF HasSpans
<1>2. ASSUME NEW i \in 1..n, NEW j \in 1..n, i < j, R[i] = R[j]
      PROVE  FALSE
  <2>1. R[i].low < R[j].low
    BY <1>1, <1>2 DEF Ordered
  <2> QED
    BY <1>1, <1>2, <2>1
<1>3. ASSUME NEW i \in 1..n, NEW j \in 1..n, i # j
      PROVE  R[i] # R[j]
  <2>1. i < j \/ j < i
    BY <1>3
  <2> QED
    BY <1>2, <2>1
<1> QED
  BY <1>1, <1>3 DEF Once

(* ... and so does one of `fork_map`.                                      *)
LEMMA ForkTurn ==
    ASSUME NEW n \in Nat, NEW im, NEW R \in Seq(Spans), Len(R) = n, Ordered(R), Separate(R),
           NEW a, NEW h, NEW r, Grown(im, R, n, a, h, r),
           NEW w, w.state = "walking", GoesWell(im, R, n, w),
           NEW attr, NEW x, x = ForkMap(im, w, Cardinality(DOMAIN im.blocks) + n, n, attr)
    PROVE  GoesWell(im, R, n, x)
<1>1. OnItsWay(im, R, n, w)
  BY DEF GoesWell
<1>2. PICK y : y = Visit(im, w)
  OBVIOUS
<1>3. AnotherTurn(im, R, n, w, a, y)
  BY <1>1, <1>2, TurnIs
<1>4. w \in WalkType(im) /\ IsFiniteSet(Seen(w)) /\ Seen(w) \subseteq DOMAIN im.blocks /\ IsFiniteSet(DOMAIN im.blocks)
  BY <1>3 DEF AnotherTurn
<1>5. CASE w.stack = <<>>
  <2>1. Whole(im, R, w)
    BY <1>3, <1>5 DEF AnotherTurn
  <2>2. w.recs = R
    BY <2>1 DEF Whole
  <2>3. finish(R) = R
    BY OrderedOnce, FinishSorts
  <2>4. ~Overlap(R)
    BY NoOverlap
  <2>5. x = Finished(w, n, attr)
    BY <1>5 DEF ForkMap
  <2>6. x = [w EXCEPT !.recs = R, !.state = "done"]
    BY <2>2, <2>3, <2>4, <2>5 DEF Finished
  <2>7. x.state = "done" /\ x.recs = R /\ x.blocks = w.blocks
    BY <1>4, <2>6 DEF WalkType
  <2>8. Ended(w, R, x)
    BY <2>7 DEF Ended
  <2> QED
    BY <2>1, <2>8, EndedWell
<1>6. CASE w.stack # <<>>
  <2>1. Top(w)[1] \notin Seen(w) /\ y.state = w.state /\ OnItsWay(im, R, n, y)
    BY <1>3, <1>6 DEF AnotherTurn
  <2>2. Cardinality(Seen(w)) <= Cardinality(DOMAIN im.blocks)
    BY <1>4, FS_Subset
  <2>3. Cardinality(Seen(w)) \in Nat /\ Cardinality(DOMAIN im.blocks) \in Nat
    BY <1>4, FS_CardinalityType
  <2>4. ~(Cardinality(Seen(w)) > Cardinality(DOMAIN im.blocks) + n)
    BY <2>2, <2>3
  <2>5. x = y
    BY <1>2, <1>6, <2>1, <2>4 DEF ForkMap
  <2> QED
    BY <2>1, <2>5 DEF GoesWell
<1> QED
  BY <1>5, <1>6

-----------------------------------------------------------------------------
(* The free list.                                                          *)

(* Once around at most, ...                                                *)
LEMMA TurnsOnce ==
    ASSUME NEW b \in Nat \ {0}, NEW r \in 0 .. (b - 1), NEW a \in Int, a = r \/ a = r + b \/ a = r - b
    PROVE  a % b = r
<1>1. CASE a = r
  BY <1>1
<1>2. CASE a = r + b
  BY <1>2
<1>3. CASE a = r - b
  BY <1>3
<1> QED
  BY <1>1, <1>2, <1>3

Ahead(last, size, i) == (IF i <= last THEN last - i ELSE last - i + size) + 1
CellAt(size, i, j) == IF i + j <= size THEN i + j ELSE i + j - size
Round(cells, last, size, i) == [j \in 1 .. Ahead(last, size, i) |-> cells[CellAt(size, i, j)]]
Rounds(cells, last, size) == [i \in 0 .. (size - 1) |-> Round(cells, last, size, i)]
OneOn(size, i) == IF i + 1 = size THEN 0 ELSE i + 1
Around(cells, last, size, f) ==
    f = [i \in 0 .. (size - 1) |-> <<cells[i + 1]>> \o (IF i = last THEN <<>> ELSE f[(i + 1) % size])]
Walked(cells, last, size, f, i) ==
    Chained(f[i], <<cells[i + 1]>>, IF i = last THEN <<>> ELSE f[OneOn(size, i)])

(* ... as `agfl_blocks` goes, ...                                          *)
LEMMA AroundIs ==
    ASSUME NEW size \in Nat \ {0}, NEW cells, NEW last, NEW f, f = [i \in 0 .. (size - 1) |-> f[i]]
    PROVE  Around(cells, last, size, f) <=> \A i \in 0 .. (size - 1) : Walked(cells, last, size, f, i)
<1>1. ASSUME NEW i \in 0 .. (size - 1)
      PROVE  (i + 1) % size = OneOn(size, i) /\ OneOn(size, i) \in 0 .. (size - 1)
  <2>1. OneOn(size, i) \in 0 .. (size - 1) /\ (i + 1 = OneOn(size, i) \/ i + 1 = OneOn(size, i) + size)
    BY DEF OneOn
  <2>2. PICK r \in 0 .. (size - 1), a \in Int : r = OneOn(size, i) /\ a = i + 1 /\ (a = r \/ a = r + size)
    BY <2>1
  <2>3. a % size = r
    BY <2>2, TurnsOnce
  <2> QED
    BY <2>2, <2>3
<1>2. PICK g : g = [i \in 0 .. (size - 1) |-> <<cells[i + 1]>> \o (IF i = last THEN <<>> ELSE f[(i + 1) % size])]
  OBVIOUS
<1>3. ASSUME NEW i \in 0 .. (size - 1)
      PROVE  g[i] = <<cells[i + 1]>> \o (IF i = last THEN <<>> ELSE f[OneOn(size, i)])
  <2>1. g[i] = <<cells[i + 1]>> \o (IF i = last THEN <<>> ELSE f[(i + 1) % size])
    BY <1>2
  <2> QED
    BY <1>1, <2>1
<1>4. ASSUME Around(cells, last, size, f)
      PROVE  \A i \in 0 .. (size - 1) : Walked(cells, last, size, f, i)
  <2>1. f = g
    BY <1>2, <1>4 DEF Around
  <2> QED
    BY <1>3, <2>1 DEF Walked, Chained
<1>5. ASSUME \A i \in 0 .. (size - 1) : Walked(cells, last, size, f, i)
      PROVE  Around(cells, last, size, f)
  <2>1. \A i \in 0 .. (size - 1) : f[i] = g[i]
    BY <1>3, <1>5 DEF Walked, Chained
  <2>2. g = [i \in 0 .. (size - 1) |-> g[i]]
    BY <1>2
  <2>3. f = g
    BY <2>1, <2>2
  <2> QED
    BY <1>2, <2>3 DEF Around
<1> QED
  BY <1>4, <1>5

(* ... the cells from one on to the last, ...                              *)
LEMMA RoundsGo ==
    ASSUME NEW size \in Nat \ {0}, NEW cells, NEW last \in 0 .. (size - 1), NEW f, f = Rounds(cells, last, size)
    PROVE  Around(cells, last, size, f)
<1>1. f = [i \in 0 .. (size - 1) |-> Round(cells, last, size, i)]
  BY DEF Rounds
<1>2. ASSUME NEW i \in 0 .. (size - 1)
      PROVE  f[i] = Round(cells, last, size, i)
  BY <1>1
<1>3. f = [i \in 0 .. (size - 1) |-> f[i]]
  BY <1>1
<1>4. ASSUME NEW i \in 0 .. (size - 1)
      PROVE  Walked(cells, last, size, f, i)
  <2>1. PICK d \in Nat \ {0} : d = Ahead(last, size, i)
    <3>1. Ahead(last, size, i) \in Nat \ {0}
      BY DEF Ahead
    <3> QED
      BY <3>1
  <2>2. PICK s : s = f[i] /\ s = [j \in 1..d |-> cells[CellAt(size, i, j)]]
    BY <1>2, <2>1 DEF Round
  <2>3. CellAt(size, i, 1) = i + 1 /\ s[1] = cells[i + 1]
    <3>1. CellAt(size, i, 1) = i + 1
      BY DEF CellAt
    <3> QED
      BY <2>1, <2>2, <3>1
  <2>4. PICK X : X = {s[j] : j \in 1..d}
    OBVIOUS
  <2>5. s \in Seq(X) /\ Len(s) = d
    <3>1. Listed(s, d)
      BY <2>2 DEF Listed
    <3>2. \A j \in 1..d : s[j] \in X
      BY <2>4
    <3> QED
      BY <2>1, <3>1, <3>2, ListedSeq
  <2>6. cells[i + 1] \in X /\ <<cells[i + 1]>> \in Seq(X) /\ Len(<<cells[i + 1]>>) = 1 /\ <<cells[i + 1]>>[1] = cells[i + 1]
    <3>1. 1 \in 1..d
      BY <2>1
    <3> QED
      BY <2>3, <2>4, <3>1
  <2>7. CASE i = last
    <3>1. d = 1
      BY <2>1, <2>7 DEF Ahead
    <3>2. s = <<cells[i + 1]>>
      BY <2>3, <2>5, <2>6, <3>1
    <3>3. <<cells[i + 1]>> \o <<>> = <<cells[i + 1]>>
      OBVIOUS
    <3> QED
      BY <2>2, <2>7, <3>2, <3>3 DEF Walked, Chained
  <2>8. CASE i # last
    <3>1. PICK o \in 0 .. (size - 1) : o = OneOn(size, i)
      BY DEF OneOn
    <3>2. PICK e \in Nat : e = Ahead(last, size, o) /\ d = e + 1
      <4>1. Ahead(last, size, o) + 1 = Ahead(last, size, i)
        BY <2>8, <3>1 DEF Ahead, OneOn
      <4>2. Ahead(last, size, o) \in Nat
        BY DEF Ahead
      <4> QED
        BY <2>1, <4>1, <4>2
    <3>3. PICK t : t = f[o] /\ t = [j \in 1..e |-> cells[CellAt(size, o, j)]]
      BY <1>2, <3>2 DEF Round
    <3>4. \A j \in 1..e : CellAt(size, o, j) = CellAt(size, i, j + 1)
      <4>1. e <= size
        BY <3>2 DEF Ahead
      <4> QED
        BY <3>1, <4>1 DEF CellAt, OneOn
    <3>5. ASSUME NEW j \in 1..e
          PROVE  t[j] = s[j + 1]
      <4>1. j + 1 \in 1..d
        BY <3>2
      <4> QED
        BY <2>2, <3>3, <3>4, <4>1
    <3>6. t \in Seq(X) /\ Len(t) = e
      <4>1. Listed(t, e)
        BY <3>3 DEF Listed
      <4>2. \A j \in 1..e : t[j] \in X
        BY <2>1, <2>4, <3>2, <3>5
      <4> QED
        BY <4>1, <4>2, ListedSeq
    <3>7. PICK u : Chained(u, <<cells[i + 1]>>, t)
      BY DEF Chained
    <3>8. Joins(X, u, <<cells[i + 1]>>, t)
      BY <2>6, <3>6, <3>7, JoinIs
    <3>9. PICK q : q = <<cells[i + 1]>>
      OBVIOUS
    <3>10. Joins(X, u, q, t) /\ Len(q) = 1 /\ q[1] = cells[i + 1]
      BY <2>6, <3>8, <3>9
    <3>11. /\ u \in Seq(X) /\ Len(u) = 1 + e /\ u[1] = cells[i + 1]
           /\ \A j \in 1..e : u[1 + j] = t[j]
      BY <3>6, <3>10 DEF Joins
    <3>12. ASSUME NEW j \in 1..d
           PROVE  u[j] = s[j]
      <4>1. CASE j = 1
        BY <2>3, <3>11, <4>1
      <4>2. CASE j # 1
        <5>1. PICK k \in 1..e : j = k + 1 /\ j = 1 + k
          <6>1. j - 1 \in 1..e /\ j = (j - 1) + 1 /\ j = 1 + (j - 1)
            BY <3>2, <4>2
          <6> QED
            BY <6>1
        <5>2. u[1 + k] = t[k] /\ t[k] = s[k + 1]
          BY <3>5, <3>11
        <5> QED
          BY <5>1, <5>2
      <4> QED
        BY <4>1, <4>2
    <3>13. u = s
      <4>1. Len(u) = d
        BY <3>2, <3>11
      <4> QED
        BY <2>5, <3>11, <3>12, <4>1, SeqEqual
    <3> QED
      BY <2>2, <2>8, <3>1, <3>3, <3>7, <3>13 DEF Walked, Chained
  <2> QED
    BY <2>7, <2>8
<1> QED
  BY <1>3, <1>4, AroundIs

(* ... and no other function goes like that.                               *)
LEMMA RoundsOnly ==
    ASSUME NEW size \in Nat \ {0}, NEW cells, NEW last \in 0 .. (size - 1), NEW f, Around(cells, last, size, f)
    PROVE  f = Rounds(cells, last, size)
<1>1. PICK g : g = Rounds(cells, last, size)
  OBVIOUS
<1>2. f = [i \in 0 .. (size - 1) |-> f[i]]
  <2>1. PICK h : h = [i \in 0 .. (size - 1) |-> <<cells[i + 1]>> \o (IF i = last THEN <<>> ELSE f[(i + 1) % size])]
    OBVIOUS
  <2>2. f = h
    BY <2>1 DEF Around
  <2>3. h = [i \in 0 .. (size - 1) |-> h[i]]
    BY <2>1
  <2> QED
    BY <2>2, <2>3
<1>3. g = [i \in 0 .. (size - 1) |-> g[i]]
  <2>1. g = [i \in 0 .. (size - 1) |-> Round(cells, last, size, i)]
    BY <1>1 DEF Rounds
  <2> QED
    BY <2>1
<1>4. \A i \in 0 .. (size - 1) : Walked(cells, last, size, f, i)
  BY <1>2, AroundIs
<1>5. \A i \in 0 .. (size - 1) : Walked(cells, last, size, g, i)
  <2>1. Around(cells, last, size, g)
    BY <1>1, RoundsGo
  <2> QED
    BY <1>3, <2>1, AroundIs
<1>6. PICK D : D = {x \in Nat : \A i \in 0 .. (size - 1) : Ahead(last, size, i) = x + 1 => f[i] = g[i]}
  OBVIOUS
<1>7. 0 \in D
  <2>1. SUFFICES ASSUME NEW i \in 0 .. (size - 1), Ahead(last, size, i) = 0 + 1 PROVE f[i] = g[i]
    BY <1>6
  <2>2. i = last
    BY <2>1 DEF Ahead
  <2> QED
    BY <1>4, <1>5, <2>2 DEF Walked, Chained
<1>8. ASSUME NEW x \in Nat, x \in D
      PROVE  x + 1 \in D
  <2>1. SUFFICES ASSUME NEW i \in 0 .. (size - 1), Ahead(last, size, i) = (x + 1) + 1 PROVE f[i] = g[i]
    BY <1>6
  <2>2. i # last
    BY <2>1 DEF Ahead
  <2>3. PICK o \in 0 .. (size - 1) : o = OneOn(size, i)
    BY DEF OneOn
  <2>4. Ahead(last, size, o) = x + 1
    BY <2>1, <2>2, <2>3 DEF Ahead, OneOn
  <2>5. f[o] = g[o]
    BY <1>6, <1>8, <2>4
  <2>6. f[i] = <<cells[i + 1]>> \o f[o] /\ g[i] = <<cells[i + 1]>> \o g[o]
    BY <1>4, <1>5, <2>2, <2>3 DEF Walked, Chained
  <2> QED
    BY <2>5, <2>6
<1>9. \A x \in Nat : x \in D
  BY <1>7, <1>8, SetInduction
<1>10. ASSUME NEW i \in 0 .. (size - 1)
       PROVE  f[i] = g[i]
  <2>1. Ahead(last, size, i) - 1 \in Nat /\ Ahead(last, size, i) = (Ahead(last, size, i) - 1) + 1
    BY DEF Ahead
  <2>2. PICK x \in Nat : Ahead(last, size, i) = x + 1
    BY <2>1
  <2>3. x \in D
    BY <1>9
  <2> QED
    BY <1>6, <2>2, <2>3
<1> QED
  BY <1>1, <1>2, <1>3, <1>10

Reads(l, size, v) ==
    /\ l.count = 0 => v = <<>>
    /\ (l.count # 0 /\ l.first >= size) => v = BadList
    /\ (l.count # 0 /\ l.last >= size) => v = BadList
    /\ (l.count # 0 /\ l.first < size /\ l.last < size) =>
          /\ Ahead(l.last, size, l.first) # l.count => v = BadList
          /\ Ahead(l.last, size, l.first) = l.count => v = Round(l.cells, l.last, size, l.first)

(* What it reads of a ring.                                                *)
LEMMA ReadsRing ==
    ASSUME NEW l, NEW size \in Nat \ {0}, Len(l.cells) = size, l.first \in Nat, l.last \in Nat
    PROVE  Reads(l, size, agfl_blocks(l))
<1>1. PICK from : from = CHOOSE f : Around(l.cells, l.last, size, f)
  OBVIOUS
<1>2. agfl_blocks(l) =
         IF l.count = 0 THEN <<>>
         ELSE IF l.first >= size \/ l.last >= size THEN BadList
         ELSE IF Len(from[l.first]) # l.count THEN BadList
         ELSE from[l.first]
  BY <1>1 DEF agfl_blocks, Around
<1>3. ASSUME l.first < size, l.last < size
      PROVE  from[l.first] = Round(l.cells, l.last, size, l.first)
             /\ Len(from[l.first]) = Ahead(l.last, size, l.first)
  <2>1. l.last \in 0 .. (size - 1) /\ l.first \in 0 .. (size - 1)
    BY <1>3
  <2>2. \E f : Around(l.cells, l.last, size, f)
    BY <2>1, RoundsGo
  <2>3. Around(l.cells, l.last, size, from)
    BY <1>1, <2>2, Zenon
  <2>4. from = Rounds(l.cells, l.last, size)
    BY <2>1, <2>3, RoundsOnly
  <2>5. from[l.first] = Round(l.cells, l.last, size, l.first)
    BY <2>1, <2>4 DEF Rounds
  <2>6. PICK d \in Nat : d = Ahead(l.last, size, l.first)
    <3>1. Ahead(l.last, size, l.first) \in Nat
      BY <2>1 DEF Ahead
    <3> QED
      BY <3>1
  <2>7. PICK s : s = Round(l.cells, l.last, size, l.first) /\ s = [j \in 1..d |-> l.cells[CellAt(size, l.first, j)]]
    BY <2>6 DEF Round
  <2>8. Len(s) = d
    <3>1. s = [j \in 1..d |-> s[j]]
      BY <2>7
    <3> QED
      BY <3>1, FunSeq
  <2> QED
    BY <2>5, <2>6, <2>7, <2>8
<1>4. CASE l.count = 0
  BY <1>2, <1>4 DEF Reads
<1>5. CASE l.count # 0
  <2>1. CASE l.first >= size \/ l.last >= size
    BY <1>2, <1>5, <2>1 DEF Reads
  <2>2. CASE ~(l.first >= size \/ l.last >= size)
    <3>1. l.first < size /\ l.last < size
      BY <2>2
    <3>2. agfl_blocks(l) = IF Ahead(l.last, size, l.first) # l.count THEN BadList
                           ELSE Round(l.cells, l.last, size, l.first)
      BY <1>2, <1>3, <1>5, <2>2, <3>1
    <3> QED
      BY <1>5, <2>2, <3>2 DEF Reads
  <2> QED
    BY <2>1, <2>2
<1> QED
  BY <1>4, <1>5

ListOf(c, f, la, co) == [cells |-> c, first |-> f, last |-> la, count |-> co]
Ringed(r, n, c, la) ==
    /\ Ring(r) = ListOf(c, r.first, la, n) /\ Len(c) = r.size /\ la \in 0 .. (r.size - 1)
    /\ Ahead(la, r.size, r.first) = IF n = 0 THEN r.size ELSE n
    /\ \A j \in 1..n : c[CellAt(r.size, r.first, j)] = r.recs[j]

(* A ring that lies anywhere in its cells.                                 *)
LEMMA RingIs ==
    ASSUME NEW r, RingFits(r), NEW n \in Nat, n = Len(r.recs)
    PROVE  \E c, la : Ringed(r, n, c, la)
<1>0. PICK size \in Nat \ {0}, first \in Nat : size = r.size /\ first = r.first /\ first < size /\ n <= size
  BY DEF RingFits
<1>1. first < size /\ n <= size
  BY <1>0
<1>2. PICK c : c = [i \in 1..size |-> IF (((i - 1) - first) % size) + 1 <= n
                                      THEN r.recs[(((i - 1) - first) % size) + 1] ELSE Null]
  OBVIOUS
<1>3. PICK la : la = (first + n - 1) % size
  OBVIOUS
<1>4. Ring(r) = ListOf(c, r.first, la, n)
  BY <1>0, <1>2, <1>3 DEF Ring, ListOf
<1>5. Len(c) = size
  <2>1. c = [i \in 1..size |-> c[i]]
    BY <1>2
  <2> QED
    BY <2>1, FunSeq
<1>6. PICK e \in 0 .. (size - 1) : la = e /\ (e = first + n - 1 \/ e = first + n - 1 - size \/ e = first + n - 1 + size)
  <2>1. CASE first + n - 1 >= size
    <3>1. first + n - 1 - size \in 0 .. (size - 1) /\ first + n - 1 \in Int
      BY <1>1, <2>1
    <3>2. PICK e \in 0 .. (size - 1) : e = first + n - 1 - size
      BY <3>1
    <3>3. first + n - 1 = e + size
      BY <3>2
    <3>4. PICK a \in Int : a = first + n - 1
      BY <3>1
    <3>5. a = e + size
      BY <3>3, <3>4
    <3>6. a % size = e
      BY <3>5, TurnsOnce
    <3> QED
      BY <1>3, <3>2, <3>4, <3>6
  <2>2. CASE first + n - 1 \in 0 .. (size - 1)
    <3>1. PICK e \in 0 .. (size - 1) : e = first + n - 1
      BY <2>2
    <3>2. e \in Int
      OBVIOUS
    <3>4. e % size = e
      BY <3>2, TurnsOnce
    <3> QED
      BY <1>3, <3>1, <3>4
  <2>3. CASE first + n - 1 < 0
    <3>1. first + n - 1 = -1 /\ size - 1 \in 0 .. (size - 1)
      BY <1>1, <2>3
    <3>2. PICK e \in 0 .. (size - 1), a \in Int : e = size - 1 /\ a = first + n - 1 /\ a = e - size
      BY <3>1
    <3>3. a % size = e
      BY <3>2, TurnsOnce
    <3>4. e = first + n - 1 + size
      BY <3>2
    <3> QED
      BY <1>3, <3>2, <3>3, <3>4
  <2> QED
    BY <1>1, <2>1, <2>2, <2>3
<1>10. e = first + n - 1 \/ e = first + n - 1 - size \/ e = first + n - 1 + size
  BY <1>6
<1>7. Ahead(e, size, first) = IF n = 0 THEN size ELSE n
  BY <1>1, <1>10 DEF Ahead
<1>8. ASSUME NEW j \in 1..n
      PROVE  c[CellAt(size, first, j)] = r.recs[j]
  <2>1. PICK i \in 1..size : i = CellAt(size, first, j) /\ (i = first + j \/ i = first + j - size)
    <3>1. CellAt(size, first, j) \in 1..size
      BY <1>1 DEF CellAt
    <3>2. CellAt(size, first, j) = first + j \/ CellAt(size, first, j) = first + j - size
      BY DEF CellAt
    <3> QED
      BY <3>1, <3>2
  <2>2. PICK b \in 0 .. (size - 1), a \in Int : b = j - 1 /\ a = (i - 1) - first /\ (a = b \/ a = b - size)
    <3>1. j - 1 \in 0 .. (size - 1) /\ (i - 1) - first \in Int
      BY <1>1
    <3>2. (i - 1) - first = j - 1 \/ (i - 1) - first = (j - 1) - size
      BY <2>1
    <3> QED
      BY <3>1, <3>2
  <2>6. a = b \/ a = b - size
    BY <2>2
  <2>3. a % size = b
    BY <2>6, TurnsOnce
  <2>4. (((i - 1) - first) % size) + 1 = j
    BY <2>2, <2>3
  <2>5. c[i] = IF j <= n THEN r.recs[j] ELSE Null
    BY <1>2, <2>4
  <2> QED
    BY <2>1, <2>5
<1>9. Ringed(r, n, c, la)
  BY <1>0, <1>4, <1>5, <1>6, <1>7, <1>8 DEF Ringed
<1> QED
  BY <1>9

(* Numbers of blocks are not the sign of a bad list.                       *)
LEMMA NotBad ==
    ASSUME NEW s \in Seq(Nat)
    PROVE  s # BadList
<1>1. SUFFICES ASSUME s = <<-1>> PROVE FALSE
  BY DEF BadList
<1>2. Len(<<-1>>) = 1 /\ <<-1>>[1] = -1
  OBVIOUS
<1>3. 1 \in 1 .. Len(s)
  BY <1>1, <1>2
<1>4. s[1] \in Nat
  BY <1>3, SeqFun
<1> QED
  BY <1>1, <1>2, <1>4

(* A free list reads back as its blocks.                                   *)
LEMMA RingReadsBack ==
    ASSUME NEW r, RingFits(r)
    PROVE  agfl_blocks(Ring(r)) = r.recs /\ agfl_blocks(Ring(r)) # BadList
<1>1. r.recs \in Seq(Nat) /\ r.size \in Nat \ {0} /\ r.first \in Nat /\ r.first < r.size
  BY DEF RingFits
<1>0. PICK R \in Seq(Nat) : R = r.recs
  BY <1>1
<1>2. PICK n \in Nat : n = Len(R) /\ R = [j \in 1..n |-> R[j]]
  BY SeqFun
<1>10. n = Len(r.recs)
  BY <1>0, <1>2
<1>3. PICK c, la : Ringed(r, n, c, la)
  BY <1>10, RingIs
<1>4. PICK l : l = Ring(r) /\ l = ListOf(c, r.first, la, n)
  BY <1>3 DEF Ringed
<1>5. l.cells = c /\ l.first = r.first /\ l.last = la /\ l.count = n
  BY <1>4 DEF ListOf
<1>6. la \in Nat /\ la < r.size /\ Len(l.cells) = r.size
  BY <1>1, <1>3, <1>5 DEF Ringed
<1>7. Reads(l, r.size, agfl_blocks(l))
  BY <1>1, <1>5, <1>6, ReadsRing
<1>8. agfl_blocks(l) = r.recs
  <2>1. CASE n = 0
    <3>1. R = <<>>
      BY <1>2, <2>1
    <3> QED
      BY <1>0, <1>5, <1>7, <2>1, <3>1 DEF Reads
  <2>2. CASE n # 0
    <3>1. Ahead(la, r.size, r.first) = n
      BY <1>3, <2>2 DEF Ringed
    <3>2. agfl_blocks(l) = Round(c, la, r.size, r.first)
      BY <1>1, <1>5, <1>6, <1>7, <2>2, <3>1 DEF Reads
    <3>3. Round(c, la, r.size, r.first) = [j \in 1..n |-> c[CellAt(r.size, r.first, j)]]
      BY <3>1 DEF Round
    <3>4. \A j \in 1..n : c[CellAt(r.size, r.first, j)] = r.recs[j]
      BY <1>3 DEF Ringed
    <3>5. Round(c, la, r.size, r.first) = [j \in 1..n |-> R[j]]
      BY <1>0, <3>3, <3>4
    <3> QED
      BY <1>0, <1>2, <3>2, <3>5
  <2> QED
    BY <2>1, <2>2
<1> QED
  BY <1>0, <1>4, <1>8, NotBad

(* A free list with one number wrong.                                      *)
RingDamaged(r, l) ==
    LET o == Ring(r) IN
    \E v \in 0 .. (r.size + 1) : \/ v # o.first /\ l = [o EXCEPT !.first = v]
                                 \/ v # o.last /\ l = [o EXCEPT !.last = v]
                                 \/ v # o.count /\ l = [o EXCEPT !.count = v]
RingFoundOut(r, l, v) == \/ v = BadList \/ v = r.recs \/ l.count = 0
                         \/ r.recs = <<>> /\ l.count = r.size

(* It is refused, or taken for one as empty as it, or empty and full are   *)
(* mistaken for each other.                                                *)
LEMMA RingDamageFound ==
    ASSUME NEW r, RingFits(r), NEW l, RingDamaged(r, l)
    PROVE  RingFoundOut(r, l, agfl_blocks(l))
<1>1. r.recs \in Seq(Nat) /\ r.size \in Nat \ {0} /\ r.first \in Nat /\ r.first < r.size
  BY DEF RingFits
<1>2. PICK n \in Nat : n = Len(r.recs)
  BY <1>1, SeqFun
<1>3. PICK c, la : Ringed(r, n, c, la)
  BY <1>2, RingIs
<1>4. /\ Ring(r) = ListOf(c, r.first, la, n) /\ Len(c) = r.size /\ la \in Nat /\ la < r.size
      /\ Ahead(la, r.size, r.first) = IF n = 0 THEN r.size ELSE n
  BY <1>1, <1>3 DEF Ringed
<1>5. PICK v \in 0 .. (r.size + 1) :
         \/ v # r.first /\ l = ListOf(c, v, la, n)
         \/ v # la /\ l = ListOf(c, r.first, v, n)
         \/ v # n /\ l = ListOf(c, r.first, la, v)
  BY <1>4 DEF RingDamaged, ListOf
<1>6. v \in Nat
  BY <1>5
<1>7. CASE v # r.first /\ l = ListOf(c, v, la, n)
  <2>1. l.cells = c /\ l.first = v /\ l.last = la /\ l.count = n
    BY <1>7 DEF ListOf
  <2>2. Reads(l, r.size, agfl_blocks(l))
    BY <1>1, <1>4, <1>6, <2>1, ReadsRing
  <2>3. SUFFICES ASSUME n # 0 PROVE agfl_blocks(l) = BadList
    BY <2>1 DEF RingFoundOut
  <2>4. CASE v >= r.size
    BY <2>1, <2>2, <2>3, <2>4 DEF Reads
  <2>5. CASE v < r.size
    <3>1. Ahead(la, r.size, v) # n
      BY <1>1, <1>4, <1>6, <1>7, <2>3, <2>5, Z3 DEF Ahead
    <3> QED
      BY <1>4, <2>1, <2>2, <2>3, <2>5, <3>1 DEF Reads
  <2> QED
    BY <1>1, <1>6, <2>4, <2>5
<1>8. CASE v # la /\ l = ListOf(c, r.first, v, n)
  <2>1. l.cells = c /\ l.first = r.first /\ l.last = v /\ l.count = n
    BY <1>8 DEF ListOf
  <2>2. Reads(l, r.size, agfl_blocks(l))
    BY <1>1, <1>4, <1>6, <2>1, ReadsRing
  <2>3. SUFFICES ASSUME n # 0 PROVE agfl_blocks(l) = BadList
    BY <2>1 DEF RingFoundOut
  <2>4. CASE v >= r.size
    BY <2>1, <2>2, <2>3, <2>4 DEF Reads
  <2>5. CASE v < r.size
    <3>1. Ahead(v, r.size, r.first) # n
      BY <1>1, <1>4, <1>6, <1>8, <2>3, <2>5 DEF Ahead
    <3> QED
      BY <1>1, <2>1, <2>2, <2>3, <2>5, <3>1 DEF Reads
  <2> QED
    BY <1>1, <1>6, <2>4, <2>5
<1>9. CASE v # n /\ l = ListOf(c, r.first, la, v)
  <2>1. l.cells = c /\ l.first = r.first /\ l.last = la /\ l.count = v
    BY <1>9 DEF ListOf
  <2>2. Reads(l, r.size, agfl_blocks(l))
    BY <1>1, <1>4, <1>6, <2>1, ReadsRing
  <2>3. n = 0 => r.recs = <<>>
    <3>1. PICK R \in Seq(Nat) : R = r.recs
      BY <1>1
    <3>2. n = Len(R)
      BY <1>2, <3>1
    <3>3. n = 0 => R = <<>>
      <4>1. R = [j \in 1..n |-> R[j]]
        BY <3>2, SeqFun
      <4> QED
        BY <4>1
    <3> QED
      BY <3>1, <3>3
  <2>4. CASE v = 0 \/ (n = 0 /\ v = r.size)
    BY <2>1, <2>3, <2>4 DEF RingFoundOut
  <2>5. CASE ~(v = 0 \/ (n = 0 /\ v = r.size))
    <3>1. Ahead(la, r.size, r.first) # v /\ v # 0
      BY <1>4, <1>9, <2>5
    <3> QED
      BY <1>1, <1>4, <2>1, <2>2, <3>1 DEF Reads, RingFoundOut
  <2> QED
    BY <2>4, <2>5
<1> QED
  BY <1>5, <1>7, <1>8, <1>9

-----------------------------------------------------------------------------
(* What was chosen, laid out and read.                                     *)

TreeOf(t) == build_ag(t.recs, t.leafMax, t.nodeMax, Addrs(blocks_for(Len(t.recs), t.leafMax, t.nodeMax)))
ForkOf(f) == build_bmap(f.recs, f.max, f.rootMax, Addrs(bmap_blocks(Len(f.recs), f.max, f.rootMax)))
TreeStands(t, im) ==
    \E a \in Nat : \E h : Grown(im, t.recs, Len(t.recs), a, h, 1) /\ a <= WalkLimit /\ im.level < MaxLevels
ForkStands(f, im) == \E a \in Nat : \E h : Grown(im, f.recs, Len(f.recs), a, h, f.rootMax)

(* A tree is laid out from its records.                                    *)
Made(im, R, leaf, m, r, sizes, a) ==
    /\ R \in Seq(Spans) /\ leaf \in Nat \ {0} /\ m \in Nat \ {0, 1} /\ r \in Nat \ {0}
    /\ Laid(im, R, Len(R), leaf, m, r, sizes, a)

(* That of an allocation group, within what `walk_tree` reads.             *)
LEMMA TreeOfMade ==
    ASSUME NEW t, TreeFits(t), NEW im, im = TreeOf(t)
    PROVE  \E sizes, a : /\ Made(im, t.recs, t.leafMax, t.nodeMax, 1, sizes, a)
                         /\ a <= WalkLimit /\ Len(sizes) <= MaxLevels
<1>1. PICK R \in Seq(Spans), leaf \in Nat \ {0}, m \in Nat \ {0, 1} : R = t.recs /\ leaf = t.leafMax /\ m = t.nodeMax
  BY DEF TreeFits
<1>2. PICK n \in Nat : n = Len(R)
  BY SeqFun
<1>3. PICK r \in Nat \ {0} : r = 1
  OBVIOUS
<1>4. PICK sizes : sizes = LevelSizes(n, leaf, m, r)
  OBVIOUS
<1>5. PICK a : a = SumTo(sizes, Len(sizes))
  OBVIOUS
<1>6. a = blocks_for(n, leaf, m)
  BY <1>3, <1>4, <1>5, BlocksForIs
<1>7. im = Image(sizes, Levels(R, sizes, Addrs(a)), leaf, m)
  BY <1>1, <1>2, <1>3, <1>4, <1>6 DEF TreeOf, build_ag, level_sizes
<1>8. Laid(im, R, n, leaf, m, r, sizes, a)
  BY <1>4, <1>5, <1>7, Zenon DEF Laid
<1>9. Made(im, R, leaf, m, r, sizes, a)
  BY <1>2, <1>8 DEF Made
<1>10. a <= WalkLimit /\ Len(sizes) <= MaxLevels
  BY <1>1, <1>2, <1>3, <1>4, <1>6 DEF TreeFits, level_sizes
<1> QED
  BY <1>1, <1>3, <1>9, <1>10

(* That of a fork.                                                         *)
LEMMA ForkOfMade ==
    ASSUME NEW f, ForkFits(f), NEW im, im = ForkOf(f)
    PROVE  \E sizes, a : Made(im, f.recs, f.max, f.max, f.rootMax, sizes, a)
<1>1. PICK R \in Seq(Spans), m \in Nat \ {0, 1}, r \in Nat \ {0} : R = f.recs /\ m = f.max /\ r = f.rootMax
  BY DEF ForkFits
<1>2. PICK n \in Nat : n = Len(R)
  BY SeqFun
<1>3. PICK leaf \in Nat \ {0} : leaf = m
  OBVIOUS
<1>4. PICK sizes : sizes = LevelSizes(n, leaf, m, r)
  OBVIOUS
<1>5. PICK a : a = SumTo(sizes, Len(sizes))
  OBVIOUS
<1>6. a = bmap_blocks(n, m, r)
  BY <1>3, <1>4, <1>5 DEF bmap_blocks, bmap_level_sizes
<1>7. im = Image(sizes, Levels(R, sizes, Addrs(a)), leaf, m)
  BY <1>1, <1>2, <1>3, <1>4, <1>6 DEF ForkOf, build_bmap, bmap_level_sizes
<1>8. Laid(im, R, n, leaf, m, r, sizes, a)
  BY <1>4, <1>5, <1>7, Zenon DEF Laid
<1>9. Made(im, R, leaf, m, r, sizes, a)
  BY <1>2, <1>8 DEF Made
<1> QED
  BY <1>1, <1>3, <1>9

(* A tree so made has grown to the levels it was given.                    *)
LEMMA MadeGrown ==
    ASSUME NEW im, NEW R, NEW leaf, NEW m, NEW r, NEW sizes, NEW a, Made(im, R, leaf, m, r, sizes, a)
    PROVE  Grown(im, R, Len(R), a, Len(sizes), r) /\ Len(sizes) \in Nat
<1>1. R \in Seq(Spans) /\ leaf \in Nat \ {0} /\ m \in Nat \ {0, 1} /\ r \in Nat \ {0}
  BY DEF Made
<1>2. PICK n \in Nat : n = Len(R)
  BY <1>1, SeqFun
<1>3. Laid(im, R, n, leaf, m, r, sizes, a)
  BY <1>2 DEF Made
<1>4. Grown(im, R, n, a, Len(sizes), r)
  BY <1>1, <1>2, <1>3, ImageGrown
<1>5. Len(sizes) \in Nat
  <2>1. sizes = LevelSizes(n, leaf, m, r)
    BY <1>3 DEF Laid
  <2>2. Sized(sizes, Leaves(n, leaf), m, r)
    BY <1>1, <2>1, LevelSizesAre
  <2> QED
    BY <2>2 DEF Sized
<1> QED
  BY <1>2, <1>4, <1>5

(* The tree of an allocation group is within what `walk_tree` reads.       *)
LEMMA TreeOfStands ==
    ASSUME NEW t, TreeFits(t), NEW im, im = TreeOf(t)
    PROVE  TreeStands(t, im)
<1>1. PICK sizes, a : /\ Made(im, t.recs, t.leafMax, t.nodeMax, 1, sizes, a)
                      /\ a <= WalkLimit /\ Len(sizes) <= MaxLevels
  BY TreeOfMade
<1>2. Grown(im, t.recs, Len(t.recs), a, Len(sizes), 1) /\ Len(sizes) \in Nat
  BY <1>1, MadeGrown
<1>3. a \in Nat /\ im.level = Len(sizes) - 1
  BY <1>2 DEF Grown
<1>4. im.level < MaxLevels
  BY <1>1, <1>2, <1>3 DEF MaxLevels
<1> QED
  BY <1>1, <1>2, <1>3, <1>4 DEF TreeStands

(* The tree of a fork has its root in the inode.                           *)
LEMMA ForkOfStands ==
    ASSUME NEW f, ForkFits(f), NEW im, im = ForkOf(f)
    PROVE  ForkStands(f, im)
<1>1. PICK sizes, a : Made(im, f.recs, f.max, f.max, f.rootMax, sizes, a)
  BY ForkOfMade
<1>2. Grown(im, f.recs, Len(f.recs), a, Len(sizes), f.rootMax)
  BY <1>1, MadeGrown
<1>3. a \in Nat
  BY <1>2 DEF Grown
<1> QED
  BY <1>2, <1>3 DEF ForkStands

Stored == /\ what.kind = "ag" => image = TreeOf(what)
          /\ what.kind = "fork" => image = ForkOf(what)
          /\ what.kind = "agfl" => image = Ring(what)
ReadWell == /\ what.kind \in {"ag", "fork"} => GoesWell(image, what.recs, Len(what.recs), walk)
            /\ what.kind = "agfl" => walk = Result(what.recs)
Chosen == what \in Trees \cup Forks \cup Rings \cup Dirs \cup Files \cup Links \cup Attrs
                     \cup Geometries \cup Archives

TreesInv ==
    /\ Chosen
    /\ image = None => walk = None
    /\ (image # None /\ ~damaged) => Stored
    /\ (walk # None /\ ~damaged) => ReadWell

(* What the kind of an input says of it.                                   *)
LEMMA KindTells ==
    ASSUME Chosen
    PROVE  /\ what.kind = "ag" => TreeFits(what)
           /\ what.kind = "fork" => ForkFits(what)
           /\ what.kind = "agfl" => RingFits(what)
<1>1. CASE what \in Trees
  BY <1>1, FormatsAssumption
<1>2. CASE what \in Forks
  BY <1>2, FormatsAssumption
<1>3. CASE what \in Rings
  BY <1>3, FormatsAssumption
<1>4. CASE what \in Dirs \cup Files \cup Links \cup Attrs \cup Geometries \cup Archives
  BY <1>4, FormatsAssumption
<1> QED
  BY <1>1, <1>2, <1>3, <1>4 DEF Chosen

(* A walk begins at the root it was stored with.                           *)
LEMMA StartKeeps ==
    ASSUME Chosen, Stored, StartRead
    PROVE  /\ what.kind \in {"ag", "fork"} => GoesWell(image, what.recs, Len(what.recs), walk')
           /\ what.kind = "agfl" => walk' = Result(what.recs)
<1>1. CASE what.kind = "ag"
  <2>1. PICK a, h : a \in Nat /\ Grown(image, what.recs, Len(what.recs), a, h, 1) /\ image.level < MaxLevels
    BY <1>1, KindTells, TreeOfStands DEF Stored, TreeStands
  <2>2. walk' = StartWalkTree(image)
    BY <1>1 DEF StartRead
  <2>3. PICK ok : ok = (image.level < MaxLevels)
    OBVIOUS
  <2>4. ok = TRUE
    BY <2>1, <2>3
  <2>5. walk' = StartWalk(image, ok)
    BY <2>2, <2>3 DEF StartWalkTree
  <2>6. GoesWell(image, what.recs, Len(what.recs), walk')
    BY <2>1, <2>4, <2>5, StartsWell
  <2> QED
    BY <1>1, <2>6
<1>2. CASE what.kind = "fork"
  <2>1. PICK a, h : a \in Nat /\ Grown(image, what.recs, Len(what.recs), a, h, what.rootMax)
    BY <1>2, KindTells, ForkOfStands DEF Stored, ForkStands
  <2>2. walk' = StartForkMap(image, what.rootMax)
    BY <1>2 DEF StartRead
  <2>3. PICK ok : ok = (Len(image.root) \in 1 .. what.rootMax)
    OBVIOUS
  <2>4. ok = TRUE
    BY <2>1, <2>3 DEF Grown
  <2>5. walk' = StartWalk(image, ok)
    BY <2>2, <2>3 DEF StartForkMap
  <2>6. GoesWell(image, what.recs, Len(what.recs), walk')
    BY <2>1, <2>4, <2>5, StartsWell
  <2> QED
    BY <1>2, <2>6
<1>3. CASE what.kind = "agfl"
  <2>1. image = Ring(what) /\ RingFits(what)
    BY <1>3, KindTells DEF Stored
  <2>2. agfl_blocks(image) = what.recs /\ agfl_blocks(image) # BadList
    BY <2>1, RingReadsBack
  <2>3. walk' = IF agfl_blocks(image) = BadList THEN [state |-> "corrupt"] ELSE Result(agfl_blocks(image))
    BY <1>3 DEF StartRead
  <2> QED
    BY <1>3, <2>2, <2>3
<1> QED
  BY <1>1, <1>2, <1>3

(* A turn leaves it well.                                                  *)
LEMMA TurnKeeps ==
    ASSUME Chosen, Stored, ReadWell, ReadBlock
    PROVE  /\ what.kind \in {"ag", "fork"} => GoesWell(image, what.recs, Len(what.recs), walk')
           /\ what.kind # "agfl"
<1>1. walk.state \in {"walking", "found"}
  BY DEF ReadBlock, Walking
<1>2. CASE what.kind = "ag"
  <2>1. PICK a, h : a \in Nat /\ Grown(image, what.recs, Len(what.recs), a, h, 1) /\ a <= WalkLimit
    BY <1>2, KindTells, TreeOfStands DEF Stored, TreeStands
  <2>2. walk' = WalkTree(image, walk, WalkLimit)
    BY <1>2 DEF ReadBlock
  <2>3. GoesWell(image, what.recs, Len(what.recs), walk)
    BY <1>2 DEF ReadWell
  <2>4. walk.state = "walking"
    BY <1>1, <2>3 DEF GoesWell
  <2>5. PICK R \in Seq(Spans), n \in Nat : R = what.recs /\ n = Len(R)
    BY <1>2, KindTells DEF TreeFits
  <2>6. WalkLimit \in Nat
    BY FormatsAssumption
  <2>7. GoesWell(image, R, n, walk) /\ Grown(image, R, n, a, h, 1)
    BY <2>1, <2>3, <2>5
  <2>8. GoesWell(image, R, n, walk')
    BY <2>1, <2>2, <2>4, <2>5, <2>6, <2>7, TreeTurn
  <2> QED
    BY <1>2, <2>5, <2>8
<1>3. CASE what.kind = "fork"
  <2>1. PICK a, h : a \in Nat /\ Grown(image, what.recs, Len(what.recs), a, h, what.rootMax)
    BY <1>3, KindTells, ForkOfStands DEF Stored, ForkStands
  <2>2. walk' = ForkMap(image, walk, Cardinality(DOMAIN image.blocks) + Len(what.recs), Len(what.recs), what.attr)
    BY <1>3 DEF ReadBlock
  <2>3. GoesWell(image, what.recs, Len(what.recs), walk)
    BY <1>3 DEF ReadWell
  <2>4. walk.state = "walking"
    BY <1>1, <2>3 DEF GoesWell
  <2>5. PICK R \in Seq(Spans), n \in Nat : R = what.recs /\ n = Len(R) /\ Ordered(R) /\ Separate(R)
    BY <1>3, KindTells DEF ForkFits
  <2>6. walk' = ForkMap(image, walk, Cardinality(DOMAIN image.blocks) + n, n, what.attr)
    BY <2>2, <2>5
  <2>7. GoesWell(image, R, n, walk) /\ Grown(image, R, n, a, h, what.rootMax)
    BY <2>1, <2>3, <2>5
  <2>8. GoesWell(image, R, n, walk')
    BY <2>4, <2>5, <2>6, <2>7, ForkTurn
  <2> QED
    BY <1>3, <2>5, <2>8
<1>4. what.kind # "agfl"
  <2>1. \/ what.kind = "ag" \/ what.kind = "fork" \/ what.kind = "attr"
    BY DEF ReadBlock
  <2> QED
    BY <2>1
<1> QED
  BY <1>2, <1>3, <1>4

(* Nothing is read before something is stored.                             *)
LEMMA TreesInit ==
    ASSUME Init
    PROVE  TreesInv
BY DEF Init, TreesInv, Chosen

(* What is stored is the tree, or the ring.                                *)
LEMMA StoreStores ==
    ASSUME Store
    PROVE  Stored'
<1>1. what' = what
  BY DEF Store
<1>2. ASSUME what.kind = "ag"
      PROVE  image' = TreeOf(what)
  BY <1>2 DEF Store, TreeOf
<1>3. ASSUME what.kind = "fork"
      PROVE  image' = ForkOf(what)
  BY <1>3 DEF Store, ForkOf
<1>4. ASSUME what.kind = "agfl"
      PROVE  image' = Ring(what)
  BY <1>4 DEF Store
<1> QED
  BY <1>1, <1>2, <1>3, <1>4 DEF Stored

(* All of this stays so.                                                   *)
LEMMA TreesNext ==
    ASSUME TreesInv, [Next]_vars
    PROVE  TreesInv'
<1>1. CASE Store
  <2>1. image = None /\ what' = what /\ damaged' = damaged /\ walk' = walk
    BY <1>1 DEF Store
  <2>2. walk = None
    BY <2>1 DEF TreesInv
  <2>3. Stored'
    BY <1>1, StoreStores
  <2>4. Chosen'
    BY <2>1 DEF TreesInv, Chosen
  <2> QED
    BY <2>1, <2>2, <2>3, <2>4 DEF TreesInv
<1>2. CASE Damage
  <2>1. damaged' = TRUE /\ what' = what /\ walk' = walk /\ walk = None
    BY <1>2 DEF Damage
  <2>2. Chosen'
    BY <2>1 DEF TreesInv, Chosen
  <2> QED
    BY <2>1, <2>2 DEF TreesInv
<1>3. CASE StartRead
  <2>1. image # None /\ what' = what /\ image' = image /\ damaged' = damaged
    BY <1>3 DEF StartRead
  <2>2. Chosen /\ Chosen'
    BY <2>1 DEF TreesInv, Chosen
  <2>3. ~damaged => Stored
    BY <2>1 DEF TreesInv
  <2>4. (image' # None /\ ~damaged') => Stored'
    BY <2>1, <2>3 DEF Stored
  <2>5. ASSUME ~damaged
        PROVE  ReadWell'
    <3>1. /\ what.kind \in {"ag", "fork"} => GoesWell(image, what.recs, Len(what.recs), walk')
          /\ what.kind = "agfl" => walk' = Result(what.recs)
      BY <1>3, <2>2, <2>3, <2>5, StartKeeps
    <3> QED
      BY <2>1, <3>1 DEF ReadWell
  <2> QED
    BY <2>1, <2>2, <2>4, <2>5 DEF TreesInv
<1>4. CASE ReadBlock
  <2>1. walk # None /\ what' = what /\ image' = image /\ damaged' = damaged
    BY <1>4 DEF ReadBlock, Walking
  <2>2. image # None
    BY <2>1 DEF TreesInv
  <2>3. Chosen /\ Chosen'
    BY <2>1 DEF TreesInv, Chosen
  <2>4. ~damaged => Stored /\ ReadWell
    BY <2>1, <2>2 DEF TreesInv
  <2>5. (image' # None /\ ~damaged') => Stored'
    BY <2>1, <2>4 DEF Stored
  <2>6. ASSUME ~damaged
        PROVE  ReadWell'
    <3>1. /\ what.kind \in {"ag", "fork"} => GoesWell(image, what.recs, Len(what.recs), walk')
          /\ what.kind # "agfl"
      BY <1>4, <2>3, <2>4, <2>6, TurnKeeps
    <3> QED
      BY <2>1, <3>1 DEF ReadWell
  <2> QED
    BY <2>1, <2>2, <2>3, <2>5, <2>6 DEF TreesInv
<1>5. CASE UNCHANGED vars
  <2>1. what' = what /\ image' = image /\ damaged' = damaged /\ walk' = walk
    BY <1>5 DEF vars
  <2> QED
    BY <2>1 DEF TreesInv, Chosen, Stored, ReadWell
<1> QED
  BY <1>1, <1>2, <1>3, <1>4, <1>5 DEF Next

(* A walk that goes well is not refused, and when it is over it has found  *)
(* what the tree was built from.                                           *)
LEMMA TreesSafe ==
    ASSUME TreesInv
    PROVE  TreeReadsBack
<1>1. SUFFICES ASSUME what.kind \in {"ag", "fork", "agfl"}, ~damaged, walk # None
               PROVE  /\ walk.state # "corrupt"
                      /\ walk.state = "done" => walk.recs = what.recs
                      /\ (walk.state = "done" /\ what.kind # "agfl") =>
                            /\ Seen(walk) = DOMAIN image.blocks
                            /\ Len(walk.blocks) = Cardinality(DOMAIN image.blocks)
  BY DEF TreeReadsBack, Refuses, Done
<1>2. ReadWell
  BY <1>1 DEF TreesInv
<1>3. CASE what.kind \in {"ag", "fork"}
  <2>1. GoesWell(image, what.recs, Len(what.recs), walk)
    BY <1>2, <1>3 DEF ReadWell
  <2>2. CASE walk.state = "walking"
    BY <2>2
  <2>3. CASE walk.state = "done" /\ Whole(image, what.recs, walk)
    BY <2>3 DEF Whole
  <2> QED
    BY <2>1, <2>2, <2>3 DEF GoesWell
<1>4. CASE what.kind = "agfl"
  <2>1. walk = Result(what.recs)
    BY <1>2, <1>4 DEF ReadWell
  <2>2. walk.state = "done" /\ walk.recs = what.recs
    BY <2>1 DEF Result
  <2> QED
    BY <1>4, <2>2
<1> QED
  BY <1>1, <1>3, <1>4

(* A tree of any number of records, built in blocks of any size with any   *)
(* number of levels, reads back as its records in order, from exactly its  *)
(* blocks, each read once, and is never refused (build_ag and walk_tree,   *)
(* build_bmap and fork_map); and a free list of any size as its blocks,    *)
(* wherever in its ring it begins (agfl_blocks).                           *)
THEOREM TreesReadBack == Spec => []TreeReadsBack
<1>1. Spec => []TreesInv
  <2>1. Init => TreesInv
    BY TreesInit
  <2>2. TreesInv /\ [Next]_vars => TreesInv'
    BY TreesNext
  <2> QED
    BY <2>1, <2>2, PTL DEF Spec
<1>2. TreesInv => TreeReadsBack
  BY TreesSafe, Zenon
<1> QED
  BY <1>1, <1>2, PTL

-----------------------------------------------------------------------------
(* A damaged tree.                                                         *)

(* What damage leaves of an image: a block is still at its address, its    *)
(* pointers lead to blocks, its records are some of those there were, and  *)
(* no record is in two places.                                             *)
LeafSound(b, R) == b.ents \in Seq(Spans) /\ Once(b.ents) /\ Elements(b.ents) \subseteq Elements(R)
NodeSound(im, b) == \E e \in Nat : Listed(b.ents, e) /\ \A j \in 1..e : b.ents[j].ptr \in DOMAIN im.blocks
BlockSound(im, R, a) ==
    /\ im.blocks[a].addr = a /\ im.blocks[a].level \in Nat
    /\ im.blocks[a].level = 0 => LeafSound(im.blocks[a], R)
    /\ im.blocks[a].level # 0 => NodeSound(im, im.blocks[a])
LeavesApart(im) ==
    \A a, c \in DOMAIN im.blocks :
       (a # c /\ im.blocks[a].level = 0 /\ im.blocks[c].level = 0) =>
          \A y \in Elements(im.blocks[a].ents) : y \notin Elements(im.blocks[c].ents)
RootSound(im) == \E e \in Nat : Listed(im.root, e) /\ \A j \in 1..e : im.root[j].ptr \in DOMAIN im.blocks
Sound(im, R) ==
    /\ im.level \in Nat /\ im.leafMax \in Nat /\ im.nodeMax \in Nat
    /\ RootSound(im) /\ LeavesApart(im) /\ \A a \in DOMAIN im.blocks : BlockSound(im, R, a)

PartOf(b, R, u, v) == \A y \in Elements(b.ents) : \E x \in (u + 1) .. v : y = R[x]

(* The leaves of a tree built whole hold different records.                *)
LEMMA LeafParts ==
    ASSUME NEW n, NEW s, Shape(s, n), NEW im, NEW R \in Seq(Spans), Len(R) = n, Ordered(R), Holds(s, im, R),
           NEW i \in 1 .. s.k[0], NEW b, b = im.blocks[s.at[0][i]]
    PROVE  LeafSound(b, R) /\ PartOf(b, R, s.c[0][i - 1], s.c[0][i])
<1>1. n \in Nat /\ 0 \in 0 .. s.h /\ s.k[0] \in Nat \ {0} /\ s.h \in Nat
  BY DEF Shape, Sliced
<1>2. NodeIs(s, im, R, 0, i)
  BY <1>1 DEF Holds
<1>3. /\ s.c[0][s.k[0]] = n /\ \A j \in 0 .. s.k[0] : s.c[0][j] \in Nat
      /\ \A j, l \in 0 .. s.k[0] : j <= l => s.c[0][j] <= s.c[0][l]
  BY <1>1 DEF Shape, Sliced
<1>4. i \in 0 .. s.k[0] /\ i - 1 \in 0 .. s.k[0] /\ s.k[0] \in 0 .. s.k[0] /\ i <= s.k[0] /\ i - 1 <= i
  BY <1>1
<1>5. PICK u \in Nat, v \in Nat : u = s.c[0][i - 1] /\ v = s.c[0][i] /\ u <= v /\ v <= n
  BY <1>3, <1>4
<1>6. PICK e \in Nat : e = v - u /\ v = u + e
  <2>1. u <= v
    BY <1>5, Zenon
  <2>2. v - u \in Nat /\ v = u + (v - u)
    BY <2>1
  <2> QED
    BY <2>2, Zenon
<1>7. Listed(b.ents, e) /\ \A j \in 1..e : b.ents[j] = R[u + j]
  BY <1>2, <1>5, <1>6, Zenon DEF NodeIs, Width
<1>8. \A x \in 1..n : R[x] \in Spans
  BY SeqFun
<1>9. DOMAIN R = 1..n /\ Once(R)
  BY SeqFun, OrderedOnce
<1>10. ASSUME NEW j \in 1..e
       PROVE  u + j \in 1..n /\ u + j \in (u + 1) .. v
  <2>1. n \in Nat /\ v <= n /\ v = u + e
    BY <1>1, <1>5, <1>6, Zenon
  <2>2. u + j <= v /\ u + 1 <= u + j /\ 1 <= u + j
    BY <2>1
  <2> QED
    BY <2>1, <2>2
<1>11. \A j \in 1..e : b.ents[j] \in Spans
  BY <1>7, <1>8, <1>10
<1>12. b.ents \in Seq(Spans) /\ Len(b.ents) = e
  BY <1>7, <1>11, ListedSeq, Zenon
<1>13. DOMAIN b.ents = 1..e
  BY <1>12, SeqFun, Zenon
<1>14. ASSUME NEW j \in 1..e, NEW l \in 1..e, j # l
       PROVE  b.ents[j] # b.ents[l]
  <2>1. PICK x, y : x = u + j /\ y = u + l
    OBVIOUS
  <2>2. x \in 1..n /\ y \in 1..n /\ x # y
    BY <1>10, <1>14, <2>1, Z3
  <2>3. R[x] # R[y]
    BY <1>9, <2>2 DEF Once
  <2> QED
    BY <1>7, <2>1, <2>3
<1>15. Once(b.ents)
  BY <1>12, <1>14 DEF Once
<1>16. ASSUME NEW y \in Elements(b.ents)
       PROVE  y \in Elements(R) /\ \E x \in (u + 1) .. v : y = R[x]
  <2>1. PICK j \in 1..e : y = b.ents[j]
    BY <1>13, Zenon DEF Elements
  <2>2. PICK x : x = u + j
    OBVIOUS
  <2>3. x \in 1..n /\ x \in (u + 1) .. v /\ y = R[x]
    BY <1>7, <1>10, <2>1, <2>2, Zenon
  <2> QED
    BY <1>9, <2>3, Zenon DEF Elements
<1> QED
  BY <1>5, <1>12, <1>15, <1>16 DEF LeafSound, PartOf

(* A tree built whole is sound.                                            *)
LEMMA SoundHolds ==
    ASSUME NEW n, NEW s, Shape(s, n), NEW im, NEW R \in Seq(Spans), Len(R) = n, Ordered(R), Holds(s, im, R)
    PROVE  Sound(im, R)
<1>1. n \in Nat /\ s.h \in Nat /\ 0 \in 0 .. s.h /\ s.h \in 0 .. s.h /\ \A l \in 0 .. s.h : s.k[l] \in Nat \ {0}
  BY DEF Shape, Sliced
<1>2. im.level \in Nat /\ im.leafMax \in Nat /\ im.nodeMax \in Nat
  BY <1>1 DEF Holds
<1>3. RootSound(im)
  <2>1. PICK e \in Nat : e = s.k[s.h]
    BY <1>1
  <2>2. Listed(im.root, e) /\ \A i \in 1..e : im.root[i].ptr = s.at[s.h][i] /\ s.at[s.h][i] \in DOMAIN im.blocks
    BY <1>1, <2>1 DEF Holds
  <2> QED
    BY <2>2 DEF RootSound
<1>4. ASSUME NEW a \in DOMAIN im.blocks
      PROVE  \E l \in 0 .. s.h : \E i \in 1 .. s.k[l] : a = s.at[l][i] /\ NodeIs(s, im, R, l, i)
  <2>1. PICK l \in 0 .. s.h : \E i \in 1 .. s.k[l] : a = s.at[l][i]
    BY DEF Holds
  <2>2. PICK i \in 1 .. s.k[l] : a = s.at[l][i]
    BY <2>1
  <2>3. NodeIs(s, im, R, l, i)
    BY DEF Holds
  <2> QED
    BY <2>2, <2>3
<1>5. ASSUME NEW a \in DOMAIN im.blocks
      PROVE  BlockSound(im, R, a)
  <2>1. PICK l \in 0 .. s.h : \E i \in 1 .. s.k[l] : a = s.at[l][i] /\ NodeIs(s, im, R, l, i)
    BY <1>4
  <2>2. PICK i \in 1 .. s.k[l] : a = s.at[l][i] /\ NodeIs(s, im, R, l, i)
    BY <2>1
  <2>3. PICK b : b = im.blocks[a]
    OBVIOUS
  <2>4. b.addr = a /\ b.level = l /\ l \in Nat /\ Listed(b.ents, Width(s, l, i))
    <3>1. l \in Nat
      OBVIOUS
    <3>2. b = im.blocks[s.at[l][i]]
      BY <2>2, <2>3, Zenon
    <3>3. b.addr = s.at[l][i] /\ b.level = l /\ Listed(b.ents, Width(s, l, i))
      BY <2>2, <3>2, Zenon DEF NodeIs
    <3> QED
      BY <2>2, <3>1, <3>3
  <2>5. ASSUME l = 0
        PROVE  LeafSound(b, R)
    <3>1. i \in 1 .. s.k[0] /\ b = im.blocks[s.at[0][i]]
      BY <2>2, <2>3, <2>5
    <3> QED
      BY <3>1, LeafParts
  <2>6. ASSUME l # 0
        PROVE  NodeSound(im, b)
    <3>1. l - 1 \in 0 .. s.h /\ l - 1 \in Nat /\ (l - 1) + 1 = l /\ (l - 1) + 1 <= s.h
      BY <1>1, <2>6
    <3>2. PICK g \in Nat : g = l - 1 /\ g + 1 = l /\ g + 1 <= s.h
      BY <3>1
    <3>3. /\ s.k[g] \in Nat \ {0} /\ s.k[g + 1] \in Nat \ {0}
          /\ s.c[g + 1][0] = 0 /\ s.c[g + 1][s.k[g + 1]] = s.k[g]
          /\ \A x \in 0 .. s.k[g + 1] : s.c[g + 1][x] \in 0 .. s.k[g]
      BY <3>2, CutsBelow
    <3>4. i \in 0 .. s.k[l] /\ i - 1 \in 0 .. s.k[l] /\ s.k[l] \in Nat /\ i <= s.k[l] /\ i - 1 < i
      BY <1>1
    <3>5. PICK u \in Nat, v \in Nat : u = s.c[l][i - 1] /\ v = s.c[l][i] /\ v <= s.k[g]
      BY <3>2, <3>3, <3>4
    <3>6. u < v
      <4>1. l \in 1 .. s.h
        BY <1>1, <2>6
      <4>2. s.c[l][i - 1] < s.c[l][i]
        BY <3>4, <4>1 DEF Shape, Sliced
      <4> QED
        BY <3>5, <4>2
    <3>7. PICK e \in Nat : e = v - u
      <4>1. v - u \in Nat
        BY <3>5, <3>6
      <4> QED
        BY <4>1
    <3>8. Listed(b.ents, e)
      BY <2>4, <3>5, <3>7 DEF Width
    <3>9. ASSUME NEW j \in 1..e
          PROVE  b.ents[j].ptr \in DOMAIN im.blocks
      <4>1. PICK k \in Nat : k = s.k[g]
        BY <3>3
      <4>2. u + j \in 1..k
        <5>1. v <= k /\ v = u + e
          <6>1. v <= k
            BY <3>5, <4>1
          <6>2. e = v - u
            BY <3>7
          <6> QED
            BY <6>1, <6>2
        <5>2. u + j <= v /\ 1 <= u + j
          BY <5>1, Z3
        <5> QED
          BY <5>1, <5>2
      <4>3. b.ents[j].ptr = s.at[g][u + j]
        BY <2>2, <2>3, <2>6, <3>2, <3>5, <3>7, Zenon DEF NodeIs, Width
      <4>4. s.at[g][u + j] \in DOMAIN im.blocks
        BY <3>1, <3>2, <4>1, <4>2 DEF Holds
      <4> QED
        BY <4>3, <4>4
    <3> QED
      BY <3>8, <3>9 DEF NodeSound
  <2> QED
    BY <2>3, <2>4, <2>5, <2>6 DEF BlockSound
<1>6. ASSUME NEW a \in DOMAIN im.blocks, NEW c \in DOMAIN im.blocks, a # c,
             im.blocks[a].level = 0, im.blocks[c].level = 0, NEW y \in Elements(im.blocks[a].ents),
             y \in Elements(im.blocks[c].ents)
      PROVE  FALSE
  <2>1. ASSUME NEW d \in DOMAIN im.blocks, im.blocks[d].level = 0
        PROVE  \E i \in 1 .. s.k[0] : d = s.at[0][i]
    <3>1. PICK l \in 0 .. s.h : \E i \in 1 .. s.k[l] : d = s.at[l][i] /\ NodeIs(s, im, R, l, i)
      BY <1>4
    <3>2. PICK i \in 1 .. s.k[l] : d = s.at[l][i] /\ NodeIs(s, im, R, l, i)
      BY <3>1, Zenon
    <3>3. l = 0
      BY <2>1, <3>2, Zenon DEF NodeIs
    <3> QED
      BY <3>2, <3>3
  <2>2. PICK i \in 1 .. s.k[0] : a = s.at[0][i]
    BY <1>6, <2>1
  <2>3. PICK j \in 1 .. s.k[0] : c = s.at[0][j]
    BY <1>6, <2>1
  <2>4. i # j
    BY <1>6, <2>2, <2>3
  <2>5. /\ s.c[0][s.k[0]] = n /\ \A x \in 0 .. s.k[0] : s.c[0][x] \in Nat
        /\ \A x, z \in 0 .. s.k[0] : x <= z => s.c[0][x] <= s.c[0][z]
    BY <1>1 DEF Shape, Sliced
  <2>6. PICK k \in Nat \ {0} : k = s.k[0]
    BY <1>1
  <2>7. i \in 0..k /\ i - 1 \in 0..k /\ j \in 0..k /\ j - 1 \in 0..k /\ k \in 0..k /\ i <= k /\ j <= k
    BY <2>6
  <2>8. PICK p \in Nat, q \in Nat, u \in Nat, v \in Nat :
           p = s.c[0][i - 1] /\ q = s.c[0][i] /\ u = s.c[0][j - 1] /\ v = s.c[0][j] /\ q <= n /\ v <= n
    BY <2>5, <2>6, <2>7, Zenon
  <2>9. PICK x \in (p + 1) .. q : y = R[x]
    <3>1. PICK b : b = im.blocks[s.at[0][i]]
      OBVIOUS
    <3>2. PartOf(b, R, s.c[0][i - 1], s.c[0][i])
      BY <3>1, LeafParts
    <3> QED
      BY <1>6, <2>2, <2>8, <3>1, <3>2 DEF PartOf
  <2>10. PICK z \in (u + 1) .. v : y = R[z]
    <3>1. PICK b : b = im.blocks[s.at[0][j]]
      OBVIOUS
    <3>2. PartOf(b, R, s.c[0][j - 1], s.c[0][j])
      BY <3>1, LeafParts
    <3> QED
      BY <1>6, <2>3, <2>8, <3>1, <3>2 DEF PartOf
  <2>11. x \in 1..n /\ z \in 1..n
    <3>1. n \in Nat /\ q <= n /\ v <= n
      BY <1>1, <2>8
    <3> QED
      BY <3>1
  <2>12. x # z
    <3>1. CASE i < j
      <4>1. i <= j - 1
        BY <3>1
      <4>2. q <= u
        BY <2>5, <2>6, <2>7, <2>8, <4>1
      <4> QED
        BY <4>2
    <3>2. CASE j < i
      <4>1. j <= i - 1
        BY <3>2
      <4>2. v <= p
        BY <2>5, <2>6, <2>7, <2>8, <4>1
      <4> QED
        BY <4>2
    <3>3. i < j \/ j < i
      BY <2>4, <2>6
    <3> QED
      BY <3>1, <3>2, <3>3
  <2>13. R[x] # R[z]
    <3>1. Once(R)
      BY OrderedOnce
    <3> QED
      BY <2>11, <2>12, <3>1 DEF Once
  <2> QED
    BY <2>9, <2>10, <2>13
<1>7. LeavesApart(im)
  BY <1>6 DEF LeavesApart
<1> QED
  BY <1>2, <1>3, <1>5, <1>7 DEF Sound

(* The entries of one block replaced.                                      *)
Replaced(im, x, b, new) ==
    /\ x.root = im.root /\ x.level = im.level /\ x.leafMax = im.leafMax /\ x.nodeMax = im.nodeMax
    /\ DOMAIN x.blocks = DOMAIN im.blocks /\ \A a \in DOMAIN im.blocks : a # b => x.blocks[a] = im.blocks[a]
    /\ IsBlock(x.blocks[b]) /\ x.blocks[b].addr = im.blocks[b].addr /\ x.blocks[b].level = im.blocks[b].level
    /\ x.blocks[b].ents = new
    /\ \E bl, ro, le, lm, nm : x = [blocks |-> bl, root |-> ro, level |-> le, leafMax |-> lm, nodeMax |-> nm]

(* That is what damage does.                                               *)
LEMMA ReplacedIs ==
    ASSUME NEW im, Formed(im), NEW b \in DOMAIN im.blocks, NEW new, NEW x, x = [im EXCEPT !.blocks[b].ents = new]
    PROVE  Replaced(im, x, b, new)
<1>1. PICK bl, ro, le, lm, nm : im = [blocks |-> bl, root |-> ro, level |-> le, leafMax |-> lm, nodeMax |-> nm]
  BY DEF Formed
<1>2. im.blocks = bl /\ im.root = ro /\ im.level = le /\ im.leafMax = lm /\ im.nodeMax = nm
  BY <1>1
<1>3. PICK y : y = [bl[b] EXCEPT !.ents = new]
  OBVIOUS
<1>4. PICK cl : cl = [bl EXCEPT ![b] = y]
  OBVIOUS
<1>5. x = [blocks |-> cl, root |-> ro, level |-> le, leafMax |-> lm, nodeMax |-> nm]
  BY <1>1, <1>2, <1>3, <1>4
<1>6. IsBlock(bl[b])
  BY <1>2 DEF Formed
<1>7. PICK ad, lv, en, lf, ri : bl[b] = [addr |-> ad, level |-> lv, ents |-> en, left |-> lf, right |-> ri]
  BY <1>6 DEF IsBlock
<1>8. y = [addr |-> ad, level |-> lv, ents |-> new, left |-> lf, right |-> ri]
  BY <1>3, <1>7
<1>9. y.addr = bl[b].addr /\ y.level = bl[b].level /\ y.ents = new /\ IsBlock(y)
  <2>1. IsBlock(y)
    BY <1>8 DEF IsBlock
  <2> QED
    BY <1>7, <1>8, <2>1
<1>10. x.blocks = cl /\ x.root = ro /\ x.level = le /\ x.leafMax = lm /\ x.nodeMax = nm
  BY <1>5
<1>11. DOMAIN cl = DOMAIN bl /\ cl[b] = y /\ \A a \in DOMAIN bl : a # b => cl[a] = bl[a]
  BY <1>2, <1>4
<1> QED
  BY <1>2, <1>5, <1>9, <1>10, <1>11 DEF Replaced

NewSound(im, b, new) ==
    /\ im.blocks[b].level = 0 =>
          new \in Seq(Spans) /\ Once(new) /\ Elements(new) \subseteq Elements(im.blocks[b].ents)
    /\ im.blocks[b].level # 0 =>
          \E e \in Nat : Listed(new, e) /\ \A j \in 1..e : new[j].ptr \in DOMAIN im.blocks

(* It leaves an image sound.                                               *)
LEMMA ReplacedSound ==
    ASSUME NEW im, NEW R, Sound(im, R), NEW b \in DOMAIN im.blocks, NEW new, NewSound(im, b, new),
           NEW x, Replaced(im, x, b, new)
    PROVE  Sound(x, R)
<1>1. DOMAIN x.blocks = DOMAIN im.blocks
  BY DEF Replaced
<1>2. ASSUME NEW a \in DOMAIN im.blocks
      PROVE  /\ x.blocks[a].addr = im.blocks[a].addr /\ x.blocks[a].level = im.blocks[a].level
             /\ a # b => x.blocks[a] = im.blocks[a]
             /\ a = b => x.blocks[a].ents = new
  BY DEF Replaced
<1>3. ASSUME NEW a \in DOMAIN im.blocks, im.blocks[a].level = 0
      PROVE  LeafSound(x.blocks[a], R) /\ Elements(x.blocks[a].ents) \subseteq Elements(im.blocks[a].ents)
  <2>1. LeafSound(im.blocks[a], R)
    BY <1>3 DEF Sound, BlockSound
  <2>2. CASE a # b
    BY <1>2, <2>1, <2>2
  <2>3. CASE a = b
    <3>1. new \in Seq(Spans) /\ Once(new) /\ Elements(new) \subseteq Elements(im.blocks[a].ents)
      BY <1>3, <2>3 DEF NewSound
    <3>2. x.blocks[a].ents = new
      BY <1>2, <2>3
    <3> QED
      BY <2>1, <3>1, <3>2 DEF LeafSound
  <2> QED
    BY <2>2, <2>3
<1>4. ASSUME NEW a \in DOMAIN im.blocks, im.blocks[a].level # 0
      PROVE  NodeSound(x, x.blocks[a])
  <2>1. NodeSound(im, im.blocks[a])
    BY <1>4 DEF Sound, BlockSound
  <2>2. CASE a # b
    <3>1. x.blocks[a] = im.blocks[a]
      BY <1>2, <2>2
    <3> QED
      BY <1>1, <2>1, <3>1 DEF NodeSound
  <2>3. CASE a = b
    <3>1. PICK e \in Nat : Listed(new, e) /\ \A j \in 1..e : new[j].ptr \in DOMAIN im.blocks
      BY <1>4, <2>3 DEF NewSound
    <3>2. x.blocks[a].ents = new
      BY <1>2, <2>3
    <3> QED
      BY <1>1, <3>1, <3>2 DEF NodeSound
  <2> QED
    BY <2>2, <2>3
<1>5. ASSUME NEW a \in DOMAIN x.blocks
      PROVE  BlockSound(x, R, a)
  <2>1. x.blocks[a].addr = a /\ x.blocks[a].level \in Nat /\ x.blocks[a].level = im.blocks[a].level
    BY <1>1, <1>2 DEF Sound, BlockSound
  <2> QED
    BY <1>1, <1>3, <1>4, <2>1 DEF BlockSound
<1>6. LeavesApart(x)
  <2>1. SUFFICES ASSUME NEW a \in DOMAIN im.blocks, NEW c \in DOMAIN im.blocks, a # c, x.blocks[a].level = 0,
                        x.blocks[c].level = 0, NEW y \in Elements(x.blocks[a].ents)
                 PROVE  y \notin Elements(x.blocks[c].ents)
    BY <1>1 DEF LeavesApart
  <2>2. im.blocks[a].level = 0 /\ im.blocks[c].level = 0
    BY <1>2, <2>1
  <2>3. y \in Elements(im.blocks[a].ents)
    BY <1>3, <2>2
  <2>4. y \notin Elements(im.blocks[c].ents)
    BY <2>1, <2>2, <2>3 DEF Sound, LeavesApart
  <2> QED
    BY <1>3, <2>2, <2>4
<1>7. RootSound(x)
  <2>1. RootSound(im)
    BY DEF Sound
  <2> QED
    BY <1>1, <2>1 DEF RootSound, Replaced
<1>8. x.level \in Nat /\ x.leafMax \in Nat /\ x.nodeMax \in Nat
  BY DEF Sound, Replaced
<1> QED
  BY <1>5, <1>6, <1>7, <1>8 DEF Sound

ButLast(X, s, u) ==
    u \in Seq(X) /\ \E k \in Nat : Len(u) = k /\ k <= Len(s) /\ \A i \in 1..k : u[i] = s[i]

(* One less, if there is one.                                              *)
LEMMA ButLastIs ==
    ASSUME NEW X, NEW s \in Seq(X), NEW u, u = SubSeq(s, 1, Len(s) - 1)
    PROVE  ButLast(X, s, u)
<1>1. PICK n \in Nat : n = Len(s)
  BY SeqFun
<1>2. CASE n = 0
  <2>1. u = <<>>
    BY <1>1, <1>2, SubSeqEmpty
  <2>2. u \in Seq(X) /\ Len(u) = 0
    BY <2>1, EmptySeq
  <2>3. 0 \in Nat /\ 0 <= Len(s) /\ \A i \in 1..0 : u[i] = s[i]
    BY <1>1
  <2> QED
    BY <2>2, <2>3 DEF ButLast
<1>3. CASE n # 0
  <2>1. PICK k \in Nat : n = k + 1
    <3>1. n - 1 \in Nat /\ n = (n - 1) + 1
      BY <1>3
    <3> QED
      BY <3>1
  <2>2. Len(s) = k + 1 /\ u = SubSeq(s, 1, (k + 1) - 1)
    BY <1>1, <2>1
  <2>3. u \in Seq(X) /\ Len(u) = k /\ \A i \in 1..k : u[i] = s[i]
    BY <2>2, AllButLast
  <2> QED
    BY <2>2, <2>3 DEF ButLast
<1> QED
  BY <1>2, <1>3

(* A pointer is that of another block, ...                                 *)
LEMMA PointerKeeps ==
    ASSUME NEW im, NEW R, Formed(im), Sound(im, R), NEW b \in DOMAIN im.blocks, im.blocks[b].level # 0,
           NEW i \in DOMAIN im.blocks[b].ents, NEW to \in DOMAIN im.blocks,
           NEW x, x = [im EXCEPT !.blocks[b].ents[i].ptr = to]
    PROVE  Sound(x, R)
<1>1. PICK ents, e : /\ e \in Nat /\ ents = im.blocks[b].ents /\ Listed(ents, e)
                     /\ \A j \in 1..e : ents[j].ptr \in DOMAIN im.blocks
  BY DEF Sound, BlockSound, NodeSound
<1>2. DOMAIN ents = 1..e
  BY <1>1 DEF Listed
<1>3. IsEntry(ents[i])
  <2>1. PICK g \in Nat : Listed(ents, g) /\ \A j \in 1..g : IsEntry(ents[j])
    BY <1>1 DEF Formed
  <2>2. DOMAIN ents = 1..g
    BY <2>1 DEF Listed
  <2> QED
    BY <1>1, <2>1, <2>2
<1>4. PICK y : y = [ents[i] EXCEPT !.ptr = to]
  OBVIOUS
<1>5. y.ptr = to
  BY <1>3, <1>4 DEF IsEntry
<1>6. PICK new : new = [ents EXCEPT ![i] = y]
  OBVIOUS
<1>7. x = [im EXCEPT !.blocks[b].ents = new]
  BY <1>1, <1>4, <1>6
<1>8. Replaced(im, x, b, new)
  BY <1>7, ReplacedIs
<1>9. Listed(new, e)
  BY <1>1, <1>2, <1>6 DEF Listed
<1>10. ASSUME NEW j \in 1..e
       PROVE  new[j].ptr \in DOMAIN im.blocks
  <2>1. new[j] = IF j = i THEN y ELSE ents[j]
    BY <1>2, <1>6
  <2> QED
    BY <1>1, <1>5, <2>1
<1>11. NewSound(im, b, new)
  BY <1>1, <1>9, <1>10 DEF NewSound
<1> QED
  BY <1>8, <1>11, ReplacedSound

(* ... two children change places, ...                                     *)
LEMMA SwapKeeps ==
    ASSUME NEW im, NEW R, Formed(im), Sound(im, R), NEW b \in DOMAIN im.blocks, im.blocks[b].level # 0,
           NEW ents, ents = im.blocks[b].ents, NEW i \in DOMAIN ents, NEW j \in DOMAIN ents,
           NEW x, x = [im EXCEPT !.blocks[b].ents[i] = ents[j], !.blocks[b].ents[j] = ents[i]]
    PROVE  Sound(x, R)
<1>1. PICK e \in Nat : Listed(ents, e) /\ \A k \in 1..e : ents[k].ptr \in DOMAIN im.blocks
  BY DEF Sound, BlockSound, NodeSound
<1>2. DOMAIN ents = 1..e
  BY <1>1 DEF Listed
<1>3. \A k \in 1..e : IsEntry(ents[k])
  <2>1. PICK g \in Nat : Listed(ents, g) /\ \A k \in 1..g : IsEntry(ents[k])
    BY DEF Formed
  <2>2. DOMAIN ents = 1..g
    BY <2>1 DEF Listed
  <2> QED
    BY <1>2, <2>1, <2>2
<1>4. PICK half : half = [ents EXCEPT ![i] = ents[j]]
  OBVIOUS
<1>5. PICK y : y = [im EXCEPT !.blocks[b].ents = half]
  OBVIOUS
<1>6. Replaced(im, y, b, half)
  BY <1>5, ReplacedIs
<1>7. Listed(half, e) /\ \A k \in 1..e : half[k] = IF k = i THEN ents[j] ELSE ents[k]
  BY <1>1, <1>2, <1>4 DEF Listed
<1>8. \A k \in 1..e : IsEntry(half[k]) /\ half[k].ptr \in DOMAIN im.blocks
  BY <1>1, <1>2, <1>3, <1>7
<1>9. Sound(y, R)
  <2>1. NewSound(im, b, half)
    BY <1>7, <1>8 DEF NewSound
  <2> QED
    BY <1>6, <2>1, ReplacedSound
<1>10. y.blocks[b].level # 0 /\ y.blocks[b].ents = half /\ DOMAIN y.blocks = DOMAIN im.blocks
  BY <1>6 DEF Replaced
<1>11. Formed(y)
  <2>1. ASSUME NEW a \in DOMAIN y.blocks
        PROVE  /\ IsBlock(y.blocks[a])
               /\ y.blocks[a].level # 0 =>
                     \E g \in Nat : Listed(y.blocks[a].ents, g) /\ \A k \in 1..g : IsEntry(y.blocks[a].ents[k])
    <3>1. CASE a = b
      BY <1>6, <1>7, <1>8, <1>10, <3>1 DEF Replaced
    <3>2. CASE a # b
      <4>1. y.blocks[a] = im.blocks[a] /\ a \in DOMAIN im.blocks
        BY <1>6, <3>2 DEF Replaced
      <4> QED
        BY <4>1 DEF Formed
    <3> QED
      BY <3>1, <3>2
  <2> QED
    BY <1>6, <2>1 DEF Formed, Replaced
<1>12. PICK new : new = [half EXCEPT ![j] = ents[i]]
  BY Zenon
<1>13. x = [y EXCEPT !.blocks[b].ents = new]
  <2>1. y = [im EXCEPT !.blocks[b].ents[i] = ents[j]]
    BY <1>4, <1>5
  <2>2. x = [y EXCEPT !.blocks[b].ents[j] = ents[i]]
    BY <2>1, Zenon
  <2> QED
    BY <1>10, <1>12, <2>2, Zenon
<1>14. Replaced(y, x, b, new)
  BY <1>10, <1>11, <1>13, ReplacedIs, Zenon
<1>15. Listed(new, e) /\ \A k \in 1..e : new[k] = IF k = j THEN ents[i] ELSE half[k]
  BY <1>7, <1>12 DEF Listed
<1>16. \A k \in 1..e : new[k].ptr \in DOMAIN y.blocks
  BY <1>1, <1>2, <1>8, <1>10, <1>15
<1>17. NewSound(y, b, new)
  BY <1>10, <1>15, <1>16 DEF NewSound
<1> QED
  BY <1>9, <1>10, <1>14, <1>17, ReplacedSound

(* ... or the last entry is not counted.                                   *)
LEMMA FewerKeeps ==
    ASSUME NEW im, NEW R, Formed(im), Sound(im, R), NEW b \in DOMAIN im.blocks,
           NEW ents, ents = im.blocks[b].ents,
           NEW x, x = [im EXCEPT !.blocks[b].ents = SubSeq(ents, 1, Len(ents) - 1)]
    PROVE  Sound(x, R)
<1>1. PICK new : new = SubSeq(ents, 1, Len(ents) - 1)
  OBVIOUS
<1>2. Replaced(im, x, b, new)
  BY <1>1, ReplacedIs
<1>3. ASSUME im.blocks[b].level = 0
      PROVE  new \in Seq(Spans) /\ Once(new) /\ Elements(new) \subseteq Elements(ents)
  <2>1. ents \in Seq(Spans) /\ Once(ents)
    BY <1>3 DEF Sound, BlockSound, LeafSound
  <2>2. ButLast(Spans, ents, new)
    BY <1>1, <2>1, ButLastIs
  <2>3. PICK k \in Nat : new \in Seq(Spans) /\ Len(new) = k /\ k <= Len(ents) /\ \A i \in 1..k : new[i] = ents[i]
    BY <2>2 DEF ButLast
  <2>4. DOMAIN new = 1..k
    BY <2>3, SeqFun
  <2>5. PICK n \in Nat : n = Len(ents) /\ DOMAIN ents = 1..n
    BY <2>1, SeqFun
  <2>6. \A i \in 1..k : i \in 1..n
    BY <2>3, <2>5
  <2>7. Once(new)
    BY <2>1, <2>3, <2>5, <2>6 DEF Once
  <2>8. Elements(new) \subseteq Elements(ents)
    BY <2>3, <2>4, <2>5, <2>6 DEF Elements
  <2> QED
    BY <2>3, <2>7, <2>8
<1>4. ASSUME im.blocks[b].level # 0
      PROVE  \E e \in Nat : Listed(new, e) /\ \A j \in 1..e : new[j].ptr \in DOMAIN im.blocks
  <2>1. PICK e \in Nat : Listed(ents, e) /\ \A k \in 1..e : ents[k].ptr \in DOMAIN im.blocks
    BY <1>4 DEF Sound, BlockSound, NodeSound
  <2>2. ents \in Seq(Elements(ents)) /\ Len(ents) = e
    BY <2>1, FunSeq DEF Listed
  <2>3. ButLast(Elements(ents), ents, new)
    BY <1>1, <2>2, ButLastIs
  <2>4. PICK k \in Nat : new \in Seq(Elements(ents)) /\ Len(new) = k /\ k <= e /\ \A i \in 1..k : new[i] = ents[i]
    BY <2>2, <2>3 DEF ButLast
  <2>5. Listed(new, k)
    BY <2>4, SeqFun, Zenon DEF Listed
  <2>6. \A i \in 1..k : new[i].ptr \in DOMAIN im.blocks
    BY <2>1, <2>4
  <2> QED
    BY <2>5, <2>6
<1>5. NewSound(im, b, new)
  BY <1>3, <1>4 DEF NewSound
<1> QED
  BY <1>2, <1>5, ReplacedSound

AllOf(X, u, s, t) == u \in Seq(X) /\ Once(u) /\ Elements(u) = Elements(s) \cup Elements(t)

(* What is in one of two sequences, and what is in the other.              *)
LEMMA OnceJoined ==
    ASSUME NEW X, NEW s \in Seq(X), NEW t \in Seq(X), Once(s), Once(t),
           \A y \in Elements(t) : y \notin Elements(s), NEW u, Chained(u, s, t)
    PROVE  AllOf(X, u, s, t)
<1>1. Joins(X, u, s, t)
  BY JoinIs
<1>2. PICK m \in Nat : m = Len(s)
  BY SeqFun
<1>3. PICK n \in Nat : n = Len(t)
  BY SeqFun
<1>4. u \in Seq(X) /\ Len(u) = m + n /\ (\A i \in 1..m : u[i] = s[i]) /\ \A i \in 1..n : u[m + i] = t[i]
  BY <1>1, <1>2, <1>3 DEF Joins
<1>5. DOMAIN s = 1..m /\ DOMAIN t = 1..n /\ DOMAIN u = 1 .. (m + n)
  BY <1>2, <1>3, <1>4, SeqFun
<1>6. ASSUME NEW i \in 1 .. (m + n)
      PROVE  \/ i \in 1..m /\ u[i] = s[i] /\ u[i] \in Elements(s)
             \/ ~(i \in 1..m) /\ i - m \in 1..n /\ u[i] = t[i - m] /\ u[i] \in Elements(t)
  <2>1. CASE i \in 1..m
    <3>1. u[i] = s[i]
      BY <1>4, <2>1
    <3> QED
      BY <1>5, <2>1, <3>1 DEF Elements
  <2>2. CASE ~(i \in 1..m)
    <3>1. i - m \in 1..n /\ m + (i - m) = i
      BY <2>2
    <3>2. u[i] = t[i - m]
      BY <1>4, <3>1
    <3> QED
      BY <1>5, <2>2, <3>1, <3>2 DEF Elements
  <2> QED
    BY <2>1, <2>2
<1>7. ASSUME NEW i \in 1 .. (m + n), NEW j \in 1 .. (m + n), i # j
      PROVE  u[i] # u[j]
  <2>1. CASE i \in 1..m /\ j \in 1..m
    <3>1. s[i] # s[j]
      BY <1>2, <1>7, <2>1 DEF Once
    <3> QED
      BY <1>4, <2>1, <3>1
  <2>2. CASE i \in 1..m /\ ~(j \in 1..m)
    <3>1. u[i] \in Elements(s) /\ u[j] \in Elements(t)
      BY <1>6, <2>2
    <3> QED
      BY <3>1
  <2>3. CASE ~(i \in 1..m) /\ j \in 1..m
    <3>1. u[i] \in Elements(t) /\ u[j] \in Elements(s)
      BY <1>6, <2>3
    <3> QED
      BY <3>1
  <2>4. CASE ~(i \in 1..m) /\ ~(j \in 1..m)
    <3>1. PICK x : x = i - m
      OBVIOUS
    <3>2. PICK y : y = j - m
      OBVIOUS
    <3>3. u[i] = t[x] /\ x \in 1..n
      BY <1>6, <2>4, <3>1
    <3>4. u[j] = t[y] /\ y \in 1..n
      BY <1>6, <2>4, <3>2
    <3>5. x # y
      BY <1>7, <3>1, <3>2
    <3>6. t[x] # t[y]
      BY <1>3, <3>3, <3>4, <3>5 DEF Once
    <3> QED
      BY <3>3, <3>4, <3>6
  <2> QED
    BY <2>1, <2>2, <2>3, <2>4
<1>8. Once(u)
  BY <1>4, <1>7 DEF Once
<1>9. ASSUME NEW y
      PROVE  y \in Elements(u) <=> y \in Elements(s) \/ y \in Elements(t)
  <2>1. ASSUME y \in Elements(u)
        PROVE  y \in Elements(s) \/ y \in Elements(t)
    <3>1. PICK i \in 1 .. (m + n) : y = u[i]
      BY <1>5, <2>1 DEF Elements
    <3> QED
      BY <1>6, <3>1
  <2>2. ASSUME y \in Elements(s)
        PROVE  y \in Elements(u)
    <3>1. PICK i \in 1..m : y = s[i]
      BY <1>5, <2>2 DEF Elements
    <3>2. i \in DOMAIN u /\ y = u[i]
      BY <1>4, <1>5, <3>1
    <3> QED
      BY <3>2 DEF Elements
  <2>3. ASSUME y \in Elements(t)
        PROVE  y \in Elements(u)
    <3>1. PICK i \in 1..n : y = t[i]
      BY <1>5, <2>3 DEF Elements
    <3>2. PICK k : k = m + i
      OBVIOUS
    <3>3. k \in 1 .. (m + n) /\ y = u[k]
      BY <1>4, <3>1, <3>2
    <3> QED
      BY <1>5, <3>3 DEF Elements
  <2> QED
    BY <2>1, <2>2, <2>3
<1>10. Elements(u) = Elements(s) \cup Elements(t)
  BY <1>9
<1> QED
  BY <1>4, <1>8, <1>10 DEF AllOf

(* A walk of an image that is sound: what it has read is read once, and    *)
(* what it has found was there.                                            *)
FoundIn(im, w) ==
    \A y \in Elements(w.recs) : \E a \in Elements(w.blocks) :
       a \in DOMAIN im.blocks /\ im.blocks[a].level = 0 /\ y \in Elements(im.blocks[a].ents)
LooseWalk(im, R, w) ==
    /\ w \in WalkType(im) /\ Once(w.blocks) /\ Once(w.recs)
    /\ Elements(w.recs) \subseteq Elements(R) /\ FoundIn(im, w)

(* It begins with the root.                                                *)
LEMMA LooseStart ==
    ASSUME NEW im, NEW R, Sound(im, R), NEW ok, NEW w, w = StartWalk(im, ok)
    PROVE  w.state = "corrupt" \/ (w.state = "walking" /\ LooseWalk(im, R, w))
<1>1. PICK lev \in Nat : lev = im.level
  BY DEF Sound
<1>2. PICK e \in Nat : Listed(im.root, e) /\ \A j \in 1..e : im.root[j].ptr \in DOMAIN im.blocks
  BY DEF Sound, RootSound
<1>3. PICK st : st = Pushed(im.root, lev)
  OBVIOUS
<1>4. \A j \in 1..e : <<im.root[j].ptr, lev>> \in Spots(im)
  BY <1>2 DEF Spots
<1>5. Reverses(Spots(im), st, im.root, e, lev)
  BY <1>2, <1>3, <1>4, PushedIs
<1>6. st \in Seq(Spots(im))
  BY <1>5 DEF Reverses
<1>7. PICK sa : sa = IF ok THEN "walking" ELSE "corrupt"
  OBVIOUS
<1>8. w = [stack |-> st, blocks |-> <<>>, recs |-> <<>>, state |-> sa]
  BY <1>1, <1>3, <1>7 DEF StartWalk
<1>9. w.stack = st /\ w.blocks = <<>> /\ w.recs = <<>> /\ w.state = sa
  BY <1>8
<1>10. CASE sa = "walking"
  <2>1. w \in WalkType(im)
    BY <1>6, <1>8, <1>10 DEF WalkType
  <2>2. Once(w.blocks) /\ Once(w.recs)
    BY <1>9 DEF Once
  <2>3. Elements(w.recs) = {}
    BY <1>9 DEF Elements
  <2> QED
    BY <1>9, <1>10, <2>1, <2>2, <2>3 DEF LooseWalk, FoundIn
<1>11. sa = "walking" \/ sa = "corrupt"
  BY <1>7, Zenon
<1> QED
  BY <1>9, <1>10, <1>11

(* A block is refused, or read.                                            *)
LEMMA VisitOr ==
    ASSUME NEW im, NEW w \in WalkType(im), NEW t \in Nat, Len(w.stack) = t + 1,
           NEW b, b = im.blocks[w.stack[t + 1][1]], im.leafMax \in Nat, im.nodeMax \in Nat,
           NEW e \in Nat, Listed(b.ents, e), NEW x, x = Visit(im, w)
    PROVE  x.state = "corrupt" \/ (Reading(w, b, x) /\ b.level = w.stack[t + 1][2])
<1>1. Len(b.ents) = e
  BY FunSeq, Zenon DEF Listed
<1>2. Top(w) = w.stack[t + 1]
  BY DEF Top
<1>3. PICK st, bl, re, sa : w = [stack |-> st, blocks |-> bl, recs |-> re, state |-> sa]
  BY DEF WalkType
<1>4. PICK max \in Nat : max = IF b.level = 0 THEN im.leafMax ELSE im.nodeMax
  OBVIOUS
<1>5. CASE b.level # Top(w)[2] \/ Len(b.ents) > max
  <2>1. x = Refused([w EXCEPT !.blocks = Append(@, b.addr)])
    BY <1>2, <1>4, <1>5, Zenon DEF Visit
  <2>2. w.blocks = bl
    BY <1>3
  <2>3. x = [stack |-> st, blocks |-> Append(bl, b.addr), recs |-> re, state |-> "corrupt"]
    BY <1>3, <2>1, <2>2 DEF Refused
  <2> QED
    BY <2>3
<1>6. CASE ~(b.level # Top(w)[2] \/ Len(b.ents) > max)
  <2>1. b.level = w.stack[t + 1][2]
    BY <1>2, <1>6
  <2>2. e <= max
    BY <1>1, <1>6, Z3
  <2>3. e <= IF b.level = 0 THEN im.leafMax ELSE im.nodeMax
    BY <1>4, <2>2, Zenon
  <2>4. Reading(w, b, x)
    BY <2>1, <2>3, VisitIs
  <2> QED
    BY <2>1, <2>4
<1> QED
  BY <1>5, <1>6, Zenon

(* A turn leaves the walk as good.                                         *)
LEMMA LooseVisit ==
    ASSUME NEW im, NEW R, Sound(im, R), NEW w, LooseWalk(im, R, w), NEW t \in Nat, Len(w.stack) = t + 1,
           w.stack[t + 1][1] \notin Elements(w.blocks), NEW x, x = Visit(im, w)
    PROVE  x.state = "corrupt" \/ (x.state = w.state /\ LooseWalk(im, R, x))
<1>1. w \in WalkType(im) /\ Once(w.blocks) /\ Once(w.recs) /\ Elements(w.recs) \subseteq Elements(R)
  BY DEF LooseWalk
<1>2. /\ w.stack \in Seq(Spots(im)) /\ w.blocks \in Seq(DOMAIN im.blocks) /\ w.recs \in Seq(Spans)
      /\ w.state \in {"walking", "done", "corrupt"}
  BY <1>1 DEF WalkType
<1>3. w.stack[t + 1] \in Spots(im)
  <2>1. t + 1 \in 1 .. Len(w.stack)
    OBVIOUS
  <2> QED
    BY <1>2, <2>1, SeqFun
<1>4. PICK a : a = w.stack[t + 1][1]
  OBVIOUS
<1>5. a \in DOMAIN im.blocks /\ a \notin Elements(w.blocks)
  BY <1>3, <1>4 DEF Spots
<1>6. PICK b : b = im.blocks[a]
  OBVIOUS
<1>7. b.addr = a /\ b.level \in Nat /\ (b.level = 0 => LeafSound(b, R)) /\ (b.level # 0 => NodeSound(im, b))
  <2>1. BlockSound(im, R, a)
    BY <1>5 DEF Sound
  <2> QED
    BY <1>6, <2>1 DEF BlockSound
<1>8. im.leafMax \in Nat /\ im.nodeMax \in Nat /\ LeavesApart(im)
  BY DEF Sound
<1>9. PICK e \in Nat : Listed(b.ents, e)
  <2>1. CASE b.level = 0
    <3>1. b.ents \in Seq(Spans)
      BY <1>7, <2>1 DEF LeafSound
    <3>2. PICK k \in Nat : HasSpans(b.ents, k)
      BY <3>1, SpansAre
    <3> QED
      BY <3>2 DEF HasSpans
  <2>2. CASE b.level # 0
    BY <1>7, <2>2, Zenon DEF NodeSound
  <2> QED
    BY <2>1, <2>2
<1>10. x.state = "corrupt" \/ (Reading(w, b, x) /\ b.level = w.stack[t + 1][2])
  <2>1. b = im.blocks[w.stack[t + 1][1]]
    BY <1>4, <1>6
  <2> QED
    BY <1>1, <1>8, <1>9, <2>1, VisitOr
<1>11. SUFFICES ASSUME Reading(w, b, x)
                PROVE  x.state = w.state /\ LooseWalk(im, R, x)
  BY <1>10
<1>12. PICK d : d = Append(w.blocks, a)
  OBVIOUS
<1>13. NewBehind(DOMAIN im.blocks, d, w.blocks, a)
  BY <1>1, <1>2, <1>5, <1>12, OnceMoreOnce
<1>14. d \in Seq(DOMAIN im.blocks) /\ Once(d) /\ Elements(d) = Elements(w.blocks) \cup {a}
  BY <1>13 DEF NewBehind
<1>15. PICK ro : ro = Rest(w)
  OBVIOUS
<1>16. ro \in Seq(Spots(im))
  <2>1. ro = SubSeq(w.stack, 1, (t + 1) - 1)
    BY <1>15 DEF Rest
  <2> QED
    BY <1>2, <2>1, AllButLast
<1>17. CASE b.level = 0
  <2>1. PICK re : re = w.recs \o b.ents
    OBVIOUS
  <2>2. Chained(re, w.recs, b.ents)
    BY <2>1 DEF Chained
  <2>3. x = WalkOf(ro, d, re, w.state)
    BY <1>7, <1>11, <1>12, <1>15, <1>17, <2>1 DEF Reading
  <2>4. b.ents \in Seq(Spans) /\ Once(b.ents) /\ Elements(b.ents) \subseteq Elements(R)
    BY <1>7, <1>17 DEF LeafSound
  <2>5. ASSUME NEW y \in Elements(b.ents), y \in Elements(w.recs)
        PROVE  FALSE
    <3>1. PICK c \in Elements(w.blocks) :
             c \in DOMAIN im.blocks /\ im.blocks[c].level = 0 /\ y \in Elements(im.blocks[c].ents)
      BY <2>5 DEF LooseWalk, FoundIn
    <3>2. c # a
      BY <1>5, <3>1
    <3> QED
      BY <1>5, <1>6, <1>8, <1>17, <2>5, <3>1, <3>2 DEF LeavesApart
  <2>6. AllOf(Spans, re, w.recs, b.ents)
    BY <1>1, <1>2, <2>2, <2>4, <2>5, OnceJoined
  <2>7. re \in Seq(Spans) /\ Once(re) /\ Elements(re) = Elements(w.recs) \cup Elements(b.ents)
    BY <2>6 DEF AllOf
  <2>8. HasFields(x, ro, d, re, w.state)
    BY <2>3, WalkFields
  <2>9. x.stack = ro /\ x.blocks = d /\ x.recs = re /\ x.state = w.state
    BY <2>8 DEF HasFields
  <2>10. x \in WalkType(im)
    BY <1>2, <1>14, <1>16, <2>3, <2>7 DEF WalkType, WalkOf
  <2>11. ASSUME NEW y \in Elements(re)
         PROVE  \E c \in Elements(d) : c \in DOMAIN im.blocks /\ im.blocks[c].level = 0 /\ y \in Elements(im.blocks[c].ents)
    <3>1. CASE y \in Elements(w.recs)
      <4>1. PICK c \in Elements(w.blocks) :
               c \in DOMAIN im.blocks /\ im.blocks[c].level = 0 /\ y \in Elements(im.blocks[c].ents)
        BY <3>1 DEF LooseWalk, FoundIn
      <4> QED
        BY <1>14, <4>1
    <3>2. CASE y \in Elements(b.ents)
      BY <1>5, <1>6, <1>14, <1>17, <3>2
    <3> QED
      BY <2>7, <3>1, <3>2
  <2>12. FoundIn(im, x)
    BY <2>9, <2>11 DEF FoundIn
  <2>13. Elements(re) \subseteq Elements(R)
    BY <1>1, <2>4, <2>7
  <2> QED
    BY <1>14, <2>7, <2>9, <2>10, <2>12, <2>13 DEF LooseWalk
<1>18. CASE b.level # 0
  <2>1. PICK g \in Nat : g = b.level - 1
    <3>1. b.level - 1 \in Nat
      BY <1>7, <1>18
    <3> QED
      BY <3>1
  <2>2. PICK pu : pu = Pushed(b.ents, g)
    OBVIOUS
  <2>3. PICK k \in Nat : Listed(b.ents, k) /\ \A j \in 1..k : b.ents[j].ptr \in DOMAIN im.blocks
    BY <1>7, <1>18 DEF NodeSound
  <2>4. \A j \in 1..k : <<b.ents[j].ptr, g>> \in Spots(im)
    BY <2>3 DEF Spots
  <2>5. Reverses(Spots(im), pu, b.ents, k, g)
    BY <2>2, <2>3, <2>4, PushedIs
  <2>6. pu \in Seq(Spots(im))
    BY <2>5 DEF Reverses
  <2>7. PICK st : st = ro \o pu
    OBVIOUS
  <2>8. Chained(st, ro, pu)
    BY <2>7 DEF Chained
  <2>9. Joins(Spots(im), st, ro, pu)
    BY <1>16, <2>6, <2>8, JoinIs
  <2>10. st \in Seq(Spots(im))
    BY <2>9 DEF Joins
  <2>11. x = WalkOf(st, d, w.recs, w.state)
    BY <1>7, <1>11, <1>12, <1>15, <1>18, <2>1, <2>2, <2>7 DEF Reading
  <2>12. HasFields(x, st, d, w.recs, w.state)
    BY <2>11, WalkFields
  <2>13. x.stack = st /\ x.blocks = d /\ x.recs = w.recs /\ x.state = w.state
    BY <2>12 DEF HasFields
  <2>14. x \in WalkType(im)
    BY <1>2, <1>14, <2>10, <2>11 DEF WalkType, WalkOf
  <2>15. FoundIn(im, x)
    BY <1>14, <2>13 DEF FoundIn, LooseWalk
  <2> QED
    BY <1>1, <1>14, <2>13, <2>14, <2>15 DEF LooseWalk
<1> QED
  BY <1>17, <1>18

RightOrPart(R, attr, x) ==
    /\ x.recs = R \/ (attr /\ Elements(x.recs) \subseteq Elements(R))
    /\ Cardinality(Seen(x)) = Len(x.blocks)
GoesOrStops(im, R, attr, x) ==
    \/ x.state = "corrupt"
    \/ x.state = "walking" /\ LooseWalk(im, R, x)
    \/ x.state = "done" /\ RightOrPart(R, attr, x)

(* What the walk found is all there was, if there is as much of it.        *)
LEMMA LooseEnd ==
    ASSUME NEW im, NEW R \in Seq(Spans), Ordered(R), NEW n \in Nat, Len(R) = n, NEW w, LooseWalk(im, R, w),
           NEW attr, NEW x, x = Finished(w, n, attr)
    PROVE  GoesOrStops(im, R, attr, x)
<1>1. w \in WalkType(im) /\ Once(w.blocks) /\ Once(w.recs) /\ Elements(w.recs) \subseteq Elements(R)
  BY DEF LooseWalk
<1>2. w.blocks \in Seq(DOMAIN im.blocks) /\ w.recs \in Seq(Spans)
  BY <1>1 DEF WalkType
<1>3. PICK st, bl, re, sa : w = [stack |-> st, blocks |-> bl, recs |-> re, state |-> sa]
  BY <1>1 DEF WalkType
<1>4. w.blocks = bl /\ w.recs = re
  BY <1>3
<1>5. PICK fi : fi = finish(re)
  OBVIOUS
<1>6. CASE (~attr /\ Len(re) # n) \/ Overlap(fi)
  <2>1. x = Refused(w)
    BY <1>4, <1>5, <1>6 DEF Finished
  <2>2. x = [stack |-> st, blocks |-> bl, recs |-> re, state |-> "corrupt"]
    BY <1>3, <2>1 DEF Refused
  <2>3. x.state = "corrupt"
    BY <2>2
  <2> QED
    BY <2>3 DEF GoesOrStops
<1>7. CASE ~((~attr /\ Len(re) # n) \/ Overlap(fi))
  <2>1. x = [w EXCEPT !.recs = fi, !.state = "done"]
    BY <1>4, <1>5, <1>7 DEF Finished
  <2>2. x = [stack |-> st, blocks |-> bl, recs |-> fi, state |-> "done"]
    BY <1>3, <2>1
  <2>3. x.state = "done" /\ x.blocks = bl /\ x.recs = fi
    BY <2>2
  <2>4. fi = R \/ (attr /\ Elements(fi) \subseteq Elements(R))
    <3>1. CASE attr
      <4>1. Elements(fi) \subseteq Elements(re)
        BY <1>2, <1>4, <1>5, FinishWithin
      <4> QED
        BY <1>1, <1>4, <3>1, <4>1
    <3>2. CASE ~attr
      <4>1. Len(re) = Len(R)
        BY <1>7, <3>2
      <4>2. fi = R
        BY <1>1, <1>2, <1>4, <1>5, <4>1, FinishSorts
      <4> QED
        BY <4>2
    <3> QED
      BY <3>1, <3>2
  <2>5. Cardinality(Elements(bl)) = Len(bl)
    BY <1>1, <1>2, <1>4, OnceCounts
  <2>6. Seen(x) = Elements(bl)
    BY <2>3 DEF Seen, Elements
  <2>7. RightOrPart(R, attr, x)
    BY <2>3, <2>4, <2>5, <2>6 DEF RightOrPart
  <2> QED
    BY <2>3, <2>7 DEF GoesOrStops
<1> QED
  BY <1>6, <1>7

(* Each turn of `fork_map` goes on, stops, or ends with what was there.    *)
LEMMA LooseTurn ==
    ASSUME NEW im, NEW R \in Seq(Spans), Ordered(R), NEW n \in Nat, Len(R) = n, Sound(im, R),
           NEW w, w.state = "walking", LooseWalk(im, R, w), NEW attr, NEW limit, NEW x, x = ForkMap(im, w, limit, n, attr)
    PROVE  GoesOrStops(im, R, attr, x)
<1>1. w \in WalkType(im)
  BY DEF LooseWalk
<1>2. w.stack \in Seq(Spots(im))
  BY <1>1 DEF WalkType
<1>3. CASE w.stack = <<>>
  <2>1. x = Finished(w, n, attr)
    BY <1>3 DEF ForkMap
  <2> QED
    BY <2>1, LooseEnd
<1>4. CASE w.stack # <<>>
  <2>1. PICK q \in Nat : q = Len(w.stack)
    BY <1>2, SeqFun
  <2>2. q # 0
    BY <1>2, <1>4, <2>1
  <2>3. PICK t \in Nat : Len(w.stack) = t + 1
    <3>1. q - 1 \in Nat /\ q = (q - 1) + 1
      BY <2>2
    <3> QED
      BY <2>1, <3>1
  <2>4. Top(w) = w.stack[t + 1]
    BY <2>3 DEF Top
  <2>5. Seen(w) = Elements(w.blocks)
    BY DEF Seen, Elements
  <2>6. CASE Top(w)[1] \in Seen(w) \/ Cardinality(Seen(w)) > limit
    <3>1. x = Refused(w)
      BY <1>4, <2>6 DEF ForkMap
    <3>2. PICK st, bl, re, sa : w = [stack |-> st, blocks |-> bl, recs |-> re, state |-> sa]
      BY <1>1 DEF WalkType
    <3>3. x = [stack |-> st, blocks |-> bl, recs |-> re, state |-> "corrupt"]
      BY <3>1, <3>2 DEF Refused
    <3>4. x.state = "corrupt"
      BY <3>3
    <3> QED
      BY <3>4 DEF GoesOrStops
  <2>7. CASE ~(Top(w)[1] \in Seen(w) \/ Cardinality(Seen(w)) > limit)
    <3>1. x = Visit(im, w)
      BY <1>4, <2>7 DEF ForkMap
    <3>2. w.stack[t + 1][1] \notin Elements(w.blocks)
      BY <2>4, <2>5, <2>7
    <3>3. x.state = "corrupt" \/ (x.state = w.state /\ LooseWalk(im, R, x))
      BY <2>3, <3>1, <3>2, LooseVisit
    <3> QED
      BY <3>3 DEF GoesOrStops
  <2> QED
    BY <2>6, <2>7
<1> QED
  BY <1>3, <1>4

(* A free list was read, or refused.                                       *)
ListRead(l, v) == v.state = "corrupt" \/ (v = Result(agfl_blocks(l)) /\ agfl_blocks(l) # BadList)

DamageInv ==
    /\ Chosen
    /\ image = None => walk = None
    /\ (image # None /\ ~damaged) => Stored
    /\ (damaged /\ what.kind = "fork") =>
          /\ image # None /\ Sound(image, what.recs)
          /\ walk # None => GoesOrStops(image, what.recs, what.attr, walk)
    /\ (damaged /\ what.kind = "agfl") =>
          /\ image # None /\ RingDamaged(what, image)
          /\ walk # None => ListRead(image, walk)

(* The tree of a fork is sound before it is damaged, ...                   *)
LEMMA ForkOfSound ==
    ASSUME NEW f, ForkFits(f), NEW im, im = ForkOf(f)
    PROVE  Formed(im) /\ Sound(im, f.recs)
<1>1. PICK a, h : Grown(im, f.recs, Len(f.recs), a, h, f.rootMax)
  BY ForkOfStands DEF ForkStands
<1>2. PICK R \in Seq(Spans), n \in Nat : R = f.recs /\ n = Len(R) /\ Ordered(R)
  BY DEF ForkFits
<1>3. Grown(im, R, n, a, h, f.rootMax)
  BY <1>1, <1>2
<1>4. PICK s : Shape(s, n) /\ Holds(s, im, R)
  BY <1>3 DEF Grown
<1>5. Sound(im, R)
  BY <1>2, <1>4, SoundHolds, Zenon
<1> QED
  BY <1>2, <1>3, <1>5 DEF Grown

(* ... and after.                                                          *)
LEMMA DamageKeeps ==
    ASSUME NEW R, Formed(image), Sound(image, R), DamageFork
    PROVE  Sound(image', R)
<1>1. PICK b \in DOMAIN image.blocks :
         LET ents == image.blocks[b].ents IN
         \/ /\ image.blocks[b].level > 0
            /\ \E i \in DOMAIN ents :
                  \E to \in DOMAIN image.blocks \ {ents[i].ptr} :
                     image' = [image EXCEPT !.blocks[b].ents[i].ptr = to]
         \/ /\ image.blocks[b].level > 0
            /\ \E i, j \in DOMAIN ents :
                  /\ i < j
                  /\ image' = [image EXCEPT !.blocks[b].ents[i] = ents[j],
                                            !.blocks[b].ents[j] = ents[i]]
         \/ image' = [image EXCEPT !.blocks[b].ents = SubSeq(ents, 1, Len(ents) - 1)]
  BY Zenon DEF DamageFork
<1>2. PICK ents : ents = image.blocks[b].ents
  OBVIOUS
<1>3. image.blocks[b].level > 0 => image.blocks[b].level # 0
  BY DEF Sound, BlockSound
<1>4. ASSUME image.blocks[b].level > 0, NEW i \in DOMAIN ents, NEW to \in DOMAIN image.blocks,
             image' = [image EXCEPT !.blocks[b].ents[i].ptr = to]
      PROVE  Sound(image', R)
  BY <1>2, <1>3, <1>4, PointerKeeps, Zenon
<1>5. ASSUME image.blocks[b].level > 0, NEW i \in DOMAIN ents, NEW j \in DOMAIN ents, i < j,
             image' = [image EXCEPT !.blocks[b].ents[i] = ents[j], !.blocks[b].ents[j] = ents[i]]
      PROVE  Sound(image', R)
  BY <1>2, <1>3, <1>5, SwapKeeps
<1>6. ASSUME image' = [image EXCEPT !.blocks[b].ents = SubSeq(ents, 1, Len(ents) - 1)]
      PROVE  Sound(image', R)
  BY <1>2, <1>6, FewerKeeps
<1> QED
  BY <1>1, <1>2, <1>4, <1>5, <1>6, Zenon

(* Nothing is damaged at first.                                            *)
LEMMA DamageInit ==
    ASSUME Init
    PROVE  DamageInv
BY DEF Init, DamageInv, Chosen

(* What a read of a damaged image begins with ...                          *)
LEMMA StartOnDamage ==
    ASSUME DamageInv, damaged, StartRead
    PROVE  /\ what.kind = "fork" => GoesOrStops(image, what.recs, what.attr, walk')
           /\ what.kind = "agfl" => ListRead(image, walk')
<1>1. CASE what.kind = "fork"
  <2>1. walk' = StartForkMap(image, what.rootMax)
    BY <1>1 DEF StartRead
  <2>2. PICK ok : ok = (Len(image.root) \in 1 .. what.rootMax)
    OBVIOUS
  <2>3. walk' = StartWalk(image, ok)
    BY <2>1, <2>2 DEF StartForkMap
  <2>4. Sound(image, what.recs)
    BY <1>1 DEF DamageInv
  <2>5. walk'.state = "corrupt" \/ (walk'.state = "walking" /\ LooseWalk(image, what.recs, walk'))
    BY <2>3, <2>4, LooseStart
  <2> QED
    BY <1>1, <2>5 DEF GoesOrStops
<1>2. CASE what.kind = "agfl"
  <2>1. walk' = IF agfl_blocks(image) = BadList THEN [state |-> "corrupt"] ELSE Result(agfl_blocks(image))
    BY <1>2 DEF StartRead
  <2>2. CASE agfl_blocks(image) = BadList
    <3>1. walk' = [state |-> "corrupt"]
      BY <2>1, <2>2
    <3>2. walk'.state = "corrupt"
      BY <3>1
    <3> QED
      BY <1>2, <3>2 DEF ListRead
  <2>3. CASE agfl_blocks(image) # BadList
    BY <1>2, <2>1, <2>3 DEF ListRead
  <2> QED
    BY <2>2, <2>3
<1> QED
  BY <1>1, <1>2

(* ... and what a turn leaves of it.                                       *)
LEMMA TurnOnDamage ==
    ASSUME DamageInv, damaged, ReadBlock
    PROVE  /\ what.kind = "fork" => GoesOrStops(image, what.recs, what.attr, walk')
           /\ what.kind # "agfl"
<1>1. what.kind # "agfl"
  <2>1. \/ what.kind = "ag" \/ what.kind = "fork" \/ what.kind = "attr"
    BY DEF ReadBlock
  <2> QED
    BY <2>1
<1>2. CASE what.kind = "fork"
  <2>1. Chosen /\ Sound(image, what.recs)
    BY <1>2 DEF DamageInv
  <2>2. PICK R \in Seq(Spans), n \in Nat : R = what.recs /\ n = Len(R) /\ Ordered(R)
    BY <1>2, <2>1, KindTells DEF ForkFits
  <2>3. PICK limit : limit = Cardinality(DOMAIN image.blocks) + Len(what.recs)
    OBVIOUS
  <2>4. walk' = ForkMap(image, walk, limit, n, what.attr)
    BY <1>2, <2>2, <2>3 DEF ReadBlock
  <2>5. walk # None /\ (walk.state = "walking" \/ walk.state = "found")
    BY DEF ReadBlock, Walking
  <2>6. GoesOrStops(image, what.recs, what.attr, walk)
    BY <1>2, <2>5 DEF DamageInv
  <2>7. walk.state = "walking" /\ LooseWalk(image, R, walk)
    BY <2>2, <2>5, <2>6 DEF GoesOrStops
  <2>8. Sound(image, R)
    BY <2>1, <2>2
  <2>9. GoesOrStops(image, R, what.attr, walk')
    BY <2>2, <2>4, <2>7, <2>8, LooseTurn
  <2> QED
    BY <1>1, <2>2, <2>9
<1> QED
  BY <1>1, <1>2

(* What is damaged is still there.                                         *)
LEMMA StillThere ==
    ASSUME "root" \in DOMAIN image \/ "cells" \in DOMAIN image, DamageFork \/ DamageRing
    PROVE  image' # None
<1>1. DOMAIN image' = DOMAIN image
  <2>1. CASE DamageFork
    BY <2>1, Zenon DEF DamageFork
  <2>2. CASE DamageRing
    BY <2>2 DEF DamageRing
  <2> QED
    BY <2>1, <2>2, Zenon
<1>2. DOMAIN None = {}
  BY DEF None
<1> QED
  BY <1>1, <1>2

(* What is damaged, and how.                                               *)
LEMMA DamageDamages ==
    ASSUME DamageInv, Damage
    PROVE  /\ what.kind = "fork" => image' # None /\ Sound(image', what.recs)
           /\ what.kind = "agfl" => image' # None /\ RingDamaged(what, image')
<1>1. Chosen /\ Stored
  BY DEF DamageInv, Damage
<1>2. DamageFork \/ DamageAttr \/ DamageRing
  BY DEF Damage
<1>3. CASE what.kind = "fork"
  <2>1. DamageFork
    BY <1>2, <1>3 DEF DamageAttr, DamageRing
  <2>2. image = ForkOf(what) /\ ForkFits(what)
    BY <1>1, <1>3, KindTells DEF Stored
  <2>3. Formed(image) /\ Sound(image, what.recs)
    BY <2>2, ForkOfSound
  <2>4. "root" \in DOMAIN image
    BY <2>3 DEF Formed
  <2>5. image' # None
    BY <2>1, <2>4, StillThere
  <2> QED
    BY <1>3, <2>1, <2>3, <2>5, DamageKeeps
<1>4. CASE what.kind = "agfl"
  <2>1. DamageRing
    BY <1>2, <1>4 DEF DamageAttr, DamageFork
  <2>2. image = Ring(what)
    BY <1>1, <1>4 DEF Stored
  <2>3. PICK v \in 0 .. (what.size + 1) :
           \/ v # image.first /\ image' = [image EXCEPT !.first = v]
           \/ v # image.last /\ image' = [image EXCEPT !.last = v]
           \/ v # image.count /\ image' = [image EXCEPT !.count = v]
    BY <2>1 DEF DamageRing
  <2>4. RingDamaged(what, image')
    BY <2>2, <2>3 DEF RingDamaged
  <2>5. "cells" \in DOMAIN image
    BY <2>2 DEF Ring
  <2>6. image' # None
    BY <2>1, <2>5, StillThere
  <2> QED
    BY <1>4, <2>4, <2>6
<1> QED
  BY <1>3, <1>4

(* All of this stays so.                                                   *)
LEMMA DamageNext ==
    ASSUME DamageInv, [Next]_vars
    PROVE  DamageInv'
<1>1. CASE Store
  <2>1. image = None /\ what' = what /\ damaged' = damaged /\ walk' = walk
    BY <1>1 DEF Store
  <2>2. walk = None
    BY <2>1 DEF DamageInv
  <2>3. Stored'
    BY <1>1, StoreStores
  <2>4. Chosen'
    BY <2>1 DEF DamageInv, Chosen
  <2>5. ~(damaged /\ what.kind \in {"fork", "agfl"})
    BY <2>1 DEF DamageInv
  <2> QED
    BY <2>1, <2>2, <2>3, <2>4, <2>5 DEF DamageInv
<1>2. CASE Damage
  <2>1. damaged' = TRUE /\ what' = what /\ walk' = walk /\ walk = None
    BY <1>2 DEF Damage
  <2>2. Chosen'
    BY <2>1 DEF DamageInv, Chosen
  <2>3. /\ what.kind = "fork" => image' # None /\ Sound(image', what.recs)
        /\ what.kind = "agfl" => image' # None /\ RingDamaged(what, image')
    BY <1>2, DamageDamages
  <2> QED
    BY <2>1, <2>2, <2>3 DEF DamageInv
<1>3. CASE StartRead
  <2>1. image # None /\ what' = what /\ image' = image /\ damaged' = damaged
    BY <1>3 DEF StartRead
  <2>2. Chosen'
    BY <2>1 DEF DamageInv, Chosen
  <2>3. (image' # None /\ ~damaged') => Stored'
    BY <2>1 DEF DamageInv, Stored
  <2>4. damaged => /\ what.kind = "fork" => GoesOrStops(image, what.recs, what.attr, walk')
                   /\ what.kind = "agfl" => ListRead(image, walk')
    BY <1>3, StartOnDamage
  <2> QED
    BY <2>1, <2>2, <2>3, <2>4 DEF DamageInv
<1>4. CASE ReadBlock
  <2>1. walk # None /\ what' = what /\ image' = image /\ damaged' = damaged
    BY <1>4 DEF ReadBlock, Walking
  <2>2. image # None
    BY <2>1 DEF DamageInv
  <2>3. Chosen'
    BY <2>1 DEF DamageInv, Chosen
  <2>4. (image' # None /\ ~damaged') => Stored'
    BY <2>1 DEF DamageInv, Stored
  <2>5. damaged => /\ what.kind = "fork" => GoesOrStops(image, what.recs, what.attr, walk')
                   /\ what.kind # "agfl"
    BY <1>4, TurnOnDamage
  <2> QED
    BY <2>1, <2>2, <2>3, <2>4, <2>5 DEF DamageInv
<1>5. CASE UNCHANGED vars
  <2>1. what' = what /\ image' = image /\ damaged' = damaged /\ walk' = walk
    BY <1>5 DEF vars
  <2> QED
    BY <2>1 DEF DamageInv, Chosen, Stored
<1> QED
  BY <1>1, <1>2, <1>3, <1>4, <1>5 DEF Next

(* A read that is over has been refused, or has found what was there, or   *)
(* as much as can be found without counting.                               *)
LEMMA DamageSafe ==
    ASSUME DamageInv
    PROVE  DamageFoundOut
<1>1. ASSUME damaged, walk # None, walk.state = "done", what.kind = "fork"
      PROVE  /\ \/ walk.recs = what.recs
                \/ what.attr /\ Range(walk.recs) \subseteq Range(what.recs)
             /\ Cardinality(Seen(walk)) = Len(walk.blocks)
  <2>1. GoesOrStops(image, what.recs, what.attr, walk)
    BY <1>1 DEF DamageInv
  <2>2. RightOrPart(what.recs, what.attr, walk)
    BY <1>1, <2>1 DEF GoesOrStops
  <2>3. Range(walk.recs) = Elements(walk.recs) /\ Range(what.recs) = Elements(what.recs)
    BY DEF Range, Elements
  <2> QED
    BY <2>2, <2>3 DEF RightOrPart
<1>2. ASSUME damaged, walk # None, walk.state = "done", what.kind = "agfl"
      PROVE  \/ walk.recs = what.recs
             \/ image.count = 0
             \/ what.recs = <<>> /\ image.count = what.size
  <2>1. RingDamaged(what, image) /\ ListRead(image, walk)
    BY <1>2 DEF DamageInv
  <2>2. PICK v : v = agfl_blocks(image)
    OBVIOUS
  <2>3. walk = Result(v) /\ v # BadList
    BY <1>2, <2>1, <2>2 DEF ListRead
  <2>4. walk.recs = v
    BY <2>3 DEF Result
  <2>5. RingFits(what)
    BY <1>2, KindTells DEF DamageInv
  <2>6. RingFoundOut(what, image, v)
    BY <2>1, <2>2, <2>5, RingDamageFound
  <2> QED
    BY <2>3, <2>4, <2>6 DEF RingFoundOut
<1> QED
  BY <1>1, <1>2 DEF DamageFoundOut, Done

(* Whatever one pointer or count of a fork's tree is turned into, a map    *)
(* that is returned is the right one, or part of it for an attribute fork, *)
(* whose extents are not counted, and names no block of the tree twice     *)
(* (fork_map, finish); and a free list with one number wrong is refused    *)
(* unless it is taken for empty or, being empty, for full (agfl_blocks).   *)
THEOREM DamageIsFoundOut == Spec => []DamageFoundOut
<1>1. Spec => []DamageInv
  <2>1. Init => DamageInv
    BY DamageInit
  <2>2. DamageInv /\ [Next]_vars => DamageInv'
    BY DamageNext
  <2> QED
    BY <2>1, <2>2, PTL DEF Spec
<1>2. DamageInv => DamageFoundOut
  BY DamageSafe
<1> QED
  BY <1>1, <1>2, PTL
-----------------------------------------------------------------------------
(* Searching a tree.                                                       *)

(* Each number has a place in one of the parts.                            *)
LEMMA SomePart ==
    ASSUME NEW n \in Nat, NEW k \in Nat \ {0}, NEW x \in 1..n
    PROVE  \E i \in 1..k : \E j \in 1 .. Share(n, k, i) : x = CutAt(n, k, i - 1) + j
<1>1. Cutting(n, k)
  BY CutsAre
<1>2. PICK S : S = {i \in 0..k : x <= CutAt(n, k, i)}
  OBVIOUS
<1>3. k \in S /\ S \subseteq Nat
  BY <1>1, <1>2 DEF Cutting
<1>4. PICK i \in S : \A y \in S : i <= y
  BY <1>3, MinOfNats
<1>5. i \in 0..k /\ x <= CutAt(n, k, i)
  BY <1>2, <1>4
<1>6. i # 0
  BY <1>1, <1>5 DEF Cutting
<1>7. i \in 1..k /\ i - 1 \in 0..k
  BY <1>5, <1>6
<1>8. PICK p \in Nat, q \in Nat : p = CutAt(n, k, i - 1) /\ q = CutAt(n, k, i)
  BY <1>1, <1>5, <1>7 DEF Cutting
<1>9. i - 1 \notin S
  <2>1. ~(i <= i - 1)
    BY <1>7
  <2> QED
    BY <1>4, <2>1
<1>10. p < x /\ x <= q
  BY <1>2, <1>5, <1>7, <1>8, <1>9
<1>11. x - p \in 1 .. (q - p) /\ x = p + (x - p)
  BY <1>10
<1> QED
  BY <1>7, <1>8, <1>11 DEF Share

(* Of some numbers one is the largest.                                     *)
LEMMA SomeLargest ==
    ASSUME NEW w \in Nat \ {0}, NEW f, \A i \in 1..w : f[i] \in Int
    PROVE  \E x \in 1..w : \A i \in 1..w : f[i] <= f[x]
<1>1. PICK S : S = {m \in Nat : m < w => \E x \in 1 .. (m + 1) : \A i \in 1 .. (m + 1) : f[i] <= f[x]}
  OBVIOUS
<1>2. 0 \in S
  <2>1. f[1] \in Int /\ 1 .. (0 + 1) = {1}
    OBVIOUS
  <2>2. f[1] <= f[1]
    BY <2>1
  <2> QED
    BY <1>1, <2>1, <2>2
<1>3. ASSUME NEW m \in Nat, m \in S
      PROVE  m + 1 \in S
  <2>1. SUFFICES ASSUME m + 1 < w
                 PROVE  \E x \in 1 .. ((m + 1) + 1) : \A i \in 1 .. ((m + 1) + 1) : f[i] <= f[x]
    BY <1>1
  <2>2. PICK x \in 1 .. (m + 1) : \A i \in 1 .. (m + 1) : f[i] <= f[x]
    BY <1>1, <1>3, <2>1
  <2>3. PICK t \in 1..w : t = (m + 1) + 1
    BY <2>1
  <2>4. f[t] \in Int /\ f[x] \in Int
    BY <2>1
  <2>5. \A i \in 1 .. t : i = t \/ i \in 1 .. (m + 1)
    BY <2>3
  <2>6. CASE f[t] <= f[x]
    <3>1. \A i \in 1..t : f[i] <= f[x]
      BY <2>2, <2>5, <2>6
    <3>2. x \in 1..t
      BY <2>3
    <3> QED
      BY <2>3, <3>1, <3>2
  <2>7. CASE ~(f[t] <= f[x])
    <3>1. ASSUME NEW i \in 1..t
          PROVE  f[i] <= f[t]
      <4>1. CASE i = t
        BY <2>4, <4>1
      <4>2. CASE i \in 1 .. (m + 1)
        <5>1. f[i] <= f[x] /\ f[i] \in Int
          BY <2>1, <2>2, <4>2
        <5> QED
          BY <2>4, <2>7, <5>1
      <4> QED
        BY <2>5, <4>1, <4>2
    <3> QED
      BY <2>3, <3>1
  <2> QED
    BY <2>6, <2>7
<1>4. w - 1 \in S
  <2>1. w - 1 \in Nat
    OBVIOUS
  <2> QED
    BY <1>2, <1>3, <2>1, SetInduction
<1>5. w - 1 < w /\ (w - 1) + 1 = w
  OBVIOUS
<1> QED
  BY <1>1, <1>4, <1>5

Spanned(X, c) == \A i \in 1..c : X[i].low \in Int /\ X[i].high \in Int
Mounting(X, c) == \A i, j \in 1..c : i < j => X[i].low < X[j].low

(* The keys of some items: the first of the low ones, and one no high one  *)
(* is above (`keys_of`).                                                   *)
LEMMA KeysAre ==
    ASSUME NEW w \in Nat \ {0}, NEW ents, Listed(ents, w), Spanned(ents, w), NEW k, k = keys_of(ents)
    PROVE  k.low = ents[1].low /\ k.high \in Int /\ \A i \in 1..w : ents[i].high <= k.high
<1>1. DOMAIN ents = 1..w
  BY DEF Listed
<1>2. ents # <<>>
  <2>1. 1 \in DOMAIN ents /\ DOMAIN <<>> = {}
    BY <1>1
  <2> QED
    BY <2>1
<1>3. PICK f : f = [i \in 1..w |-> ents[i].high]
  OBVIOUS
<1>4. \A i \in 1..w : f[i] \in Int
  BY <1>3 DEF Spanned
<1>5. PICK x \in 1..w : \A i \in 1..w : f[i] <= f[x]
  BY <1>4, SomeLargest
<1>6. PICK S : S = {ents[i].high : i \in DOMAIN ents}
  OBVIOUS
<1>7. \A y \in S : y \in Int
  BY <1>1, <1>6 DEF Spanned
<1>8. f[x] \in S /\ \A y \in S : f[x] >= y
  <2>1. f[x] \in S
    BY <1>1, <1>3, <1>6
  <2>2. ASSUME NEW y \in S
        PROVE  f[x] >= y
    <3>1. PICK i \in 1..w : y = f[i]
      BY <1>1, <1>3, <1>6
    <3> QED
      BY <1>4, <1>5, <3>1
  <2> QED
    BY <2>1, <2>2
<1>9. Max(S) \in S /\ \A y \in S : Max(S) >= y
  BY <1>8, Zenon DEF Max
<1>10. k = [low |-> ents[1].low, high |-> Max(S)]
  BY <1>2, <1>6 DEF keys_of
<1>11. k.low = ents[1].low /\ k.high = Max(S)
  BY <1>10
<1>12. ASSUME NEW i \in 1..w
       PROVE  ents[i].high <= Max(S)
  <2>1. ents[i].high \in S /\ ents[i].high \in Int /\ Max(S) \in Int
    BY <1>1, <1>6, <1>7, <1>9 DEF Spanned
  <2> QED
    BY <1>9, <2>1
<1> QED
  BY <1>7, <1>9, <1>11, <1>12

(* Items shared out over k blocks, and the entries of those.               *)
Above(c, k, X, bl, E) ==
    /\ Listed(X, c) /\ Spanned(X, c) /\ Mounting(X, c)
    /\ Listed(bl, k) /\ (\A i \in 1..k : bl[i].ents = Part(c, k, X, i)) /\ E = Entries(bl)

(* Item j of block i is an item of the level.                              *)
ItsItem(c, k, X, bl, i, j) ==
    /\ CutAt(c, k, i - 1) + j \in 1..c
    /\ bl[i].ents[j] = X[CutAt(c, k, i - 1) + j]

(* So are all it has.                                                      *)
LEMMA ItemIs ==
    ASSUME NEW c \in Nat, NEW k \in Nat \ {0}, NEW X, NEW bl, NEW E, Above(c, k, X, bl, E), NEW i \in 1..k
    PROVE  /\ Listed(bl[i].ents, Share(c, k, i))
           /\ \A j \in 1 .. Share(c, k, i) : ItsItem(c, k, X, bl, i, j)
<1>1. bl[i].ents = [j \in 1 .. Share(c, k, i) |-> X[CutAt(c, k, i - 1) + j]]
  BY DEF Above, Part
<1>2. Listed(bl[i].ents, Share(c, k, i))
  BY <1>1 DEF Listed
<1>3. i \in 0..k /\ i - 1 \in 0..k /\ k \in 0..k /\ i <= k
  OBVIOUS
<1>4. PICK p \in Nat, q \in Nat : p = CutAt(c, k, i - 1) /\ q = CutAt(c, k, i) /\ q <= c
  <2>1. Cutting(c, k)
    BY CutsAre
  <2> QED
    BY <1>3, <2>1 DEF Cutting
<1>5. Share(c, k, i) = q - p
  BY <1>4 DEF Share
<1>6. ASSUME NEW j \in 1 .. Share(c, k, i)
      PROVE  ItsItem(c, k, X, bl, i, j)
  <2>1. bl[i].ents[j] = X[CutAt(c, k, i - 1) + j]
    BY <1>1
  <2>2. p + j \in 1..c
    BY <1>4, <1>5
  <2> QED
    BY <1>4, <2>1, <2>2 DEF ItsItem
<1> QED
  BY <1>2, <1>6

(* An entry has the low key of the first item of its block, and none of    *)
(* them reaches above its high key.                                        *)
Topped(c, k, X, bl, E, i) ==
    /\ CutAt(c, k, i - 1) + 1 \in 1..c
    /\ E[i].low = X[CutAt(c, k, i - 1) + 1].low /\ E[i].low \in Int /\ E[i].high \in Int
    /\ E[i].ptr = bl[i].addr
    /\ \A j \in 1 .. Share(c, k, i) : bl[i].ents[j].high <= E[i].high

(* So has the entry of every block, if no block is empty.                  *)
LEMMA EntryTops ==
    ASSUME NEW c \in Nat, NEW k \in Nat \ {0}, k <= c, NEW X, NEW bl, NEW E, Above(c, k, X, bl, E), NEW i \in 1..k
    PROVE  Topped(c, k, X, bl, E, i)
<1>1. PICK w \in Nat \ {0} : w = Share(c, k, i)
  <2>1. Share(c, k, i) >= 1 /\ i \in 0..k /\ i - 1 \in 0..k
    BY SharesHold
  <2>2. Share(c, k, i) \in Int
    <3>1. PICK u \in Nat, v \in Nat : u = CutAt(c, k, i) /\ v = CutAt(c, k, i - 1)
      BY <2>1, CutsAre DEF Cutting
    <3> QED
      BY <3>1 DEF Share
  <2> QED
    BY <2>1, <2>2
<1>2. PICK ents : ents = bl[i].ents
  OBVIOUS
<1>3. Listed(ents, w) /\ \A j \in 1..w : ItsItem(c, k, X, bl, i, j)
  BY <1>1, <1>2, ItemIs
<1>4. Spanned(ents, w)
  <2>1. ASSUME NEW j \in 1..w
        PROVE  ents[j].low \in Int /\ ents[j].high \in Int
    <3>1. PICK x \in 1..c : ents[j] = X[x]
      BY <1>2, <1>3 DEF ItsItem
    <3> QED
      BY <3>1 DEF Above, Spanned
  <2> QED
    BY <2>1 DEF Spanned
<1>5. PICK kk : kk = keys_of(ents)
  OBVIOUS
<1>6. kk.low = ents[1].low /\ kk.high \in Int /\ \A j \in 1..w : ents[j].high <= kk.high
  BY <1>3, <1>4, <1>5, KeysAre
<1>7. E[i].low = kk.low /\ E[i].high = kk.high /\ E[i].ptr = bl[i].addr
  <2>1. i \in DOMAIN bl /\ E = Entries(bl)
    BY DEF Above, Listed
  <2>2. E[i] = [low |-> kk.low, high |-> kk.high, ptr |-> bl[i].addr]
    BY <1>2, <1>5, <2>1 DEF Entries
  <2> QED
    BY <2>2
<1>8. ItsItem(c, k, X, bl, i, 1) /\ ents[1].low \in Int
  BY <1>3, <1>4 DEF Spanned
<1>9. CutAt(c, k, i - 1) + 1 \in 1..c /\ E[i].low = X[CutAt(c, k, i - 1) + 1].low
  BY <1>2, <1>6, <1>7, <1>8 DEF ItsItem
<1>10. E[i].low \in Int /\ E[i].high \in Int
  BY <1>6, <1>7, <1>8
<1>11. \A j \in 1 .. Share(c, k, i) : bl[i].ents[j].high <= E[i].high
  BY <1>1, <1>2, <1>6, <1>7
<1> QED
  BY <1>7, <1>9, <1>10, <1>11 DEF Topped

(* So entries have spans too, that begin in rising order.                  *)
LEMMA EntriesMount ==
    ASSUME NEW c \in Nat, NEW k \in Nat \ {0}, k <= c, NEW X, NEW bl, NEW E, Above(c, k, X, bl, E)
    PROVE  Listed(E, k) /\ Spanned(E, k) /\ Mounting(E, k)
<1>1. \A i \in 1..k : Topped(c, k, X, bl, E, i)
  BY EntryTops
<1>2. Listed(E, k)
  BY DEF Above, Listed, Entries
<1>3. Spanned(E, k)
  BY <1>1 DEF Topped, Spanned
<1>4. ASSUME NEW i \in 1..k, NEW j \in 1..k, i < j
      PROVE  E[i].low < E[j].low
  <2>1. i - 1 \in 0..k /\ j - 1 \in 0..k /\ i - 1 < j - 1
    BY <1>4
  <2>2. CutAt(c, k, i - 1) < CutAt(c, k, j - 1)
    BY <2>1, CutsDiffer
  <2>3. PICK p \in Nat, q \in Nat : p = CutAt(c, k, i - 1) /\ q = CutAt(c, k, j - 1)
    BY <2>1, CutsAre DEF Cutting
  <2>4. p + 1 \in 1..c /\ q + 1 \in 1..c /\ E[i].low = X[p + 1].low /\ E[j].low = X[q + 1].low
    BY <1>1, <2>3 DEF Topped
  <2>5. p + 1 < q + 1
    BY <2>2, <2>3
  <2>6. X[p + 1].low < X[q + 1].low
    BY <2>4, <2>5 DEF Above, Mounting
  <2> QED
    BY <2>4, <2>6
<1>5. Mounting(E, k)
  BY <1>4, Zenon DEF Mounting
<1> QED
  BY <1>2, <1>3, <1>5

(* An item is in a block whose entry reaches around it.                    *)
Held(X, bl, E, k, x) ==
    \E i \in 1..k : /\ \E j \in DOMAIN bl[i].ents : bl[i].ents[j] = X[x]
                    /\ E[i].low <= X[x].low /\ X[x].high <= E[i].high

(* So is every item.                                                       *)
LEMMA ItemHeld ==
    ASSUME NEW c \in Nat, NEW k \in Nat \ {0}, k <= c, NEW X, NEW bl, NEW E, Above(c, k, X, bl, E), NEW x \in 1..c
    PROVE  Held(X, bl, E, k, x)
<1>1. PICK i \in 1..k : \E j \in 1 .. Share(c, k, i) : x = CutAt(c, k, i - 1) + j
  BY SomePart
<1>2. PICK j \in 1 .. Share(c, k, i) : x = CutAt(c, k, i - 1) + j
  BY <1>1
<1>3. Listed(bl[i].ents, Share(c, k, i)) /\ ItsItem(c, k, X, bl, i, j)
  BY ItemIs
<1>4. j \in DOMAIN bl[i].ents /\ bl[i].ents[j] = X[x]
  BY <1>2, <1>3 DEF Listed, ItsItem
<1>5. Topped(c, k, X, bl, E, i)
  BY EntryTops
<1>6. X[x].high <= E[i].high
  BY <1>4, <1>5 DEF Topped
<1>7. E[i].low <= X[x].low
  <2>1. PICK p \in Nat : p = CutAt(c, k, i - 1)
    <3>1. i - 1 \in 0..k
      OBVIOUS
    <3> QED
      BY <3>1, CutsAre DEF Cutting
  <2>2. p + 1 \in 1..c /\ E[i].low = X[p + 1].low /\ x = p + j /\ j \in Int /\ j >= 1
    BY <1>2, <1>5, <2>1 DEF Topped
  <2>3. X[p + 1].low \in Int /\ X[x].low \in Int
    BY <2>2 DEF Above, Spanned
  <2>4. CASE x = p + 1
    BY <2>2, <2>3, <2>4
  <2>5. CASE x # p + 1
    <3>1. p + 1 < x
      BY <2>2, <2>5
    <3>2. X[p + 1].low < X[x].low
      BY <2>2, <3>1 DEF Above, Mounting
    <3> QED
      BY <2>2, <2>3, <3>2
  <2> QED
    BY <2>4, <2>5
<1> QED
  BY <1>4, <1>6, <1>7 DEF Held

(* What a search finds under a block, given what it finds under others.    *)
Meets(ents, key) == {ents[i] : i \in {j \in DOMAIN ents : ents[j].low <= key /\ key <= ents[j].high}}
Finds(B, key, f, a) ==
    LET b == B[a] IN
    IF b.level = 0 THEN Meets(b.ents, key) ELSE UNION {f[e.ptr] : e \in Meets(b.ents, key)}
Finding(B, key, D, f) == f = [a \in D |-> Finds(B, key, f, a)]

(* Blocks lead to blocks of the level under theirs.                        *)
Stepped(B) ==
    \A a \in DOMAIN B :
       /\ B[a].level \in Nat
       /\ B[a].level # 0 =>
            \A i \in DOMAIN B[a].ents :
               B[a].ents[i].ptr \in DOMAIN B /\ B[B[a].ents[i].ptr].level = B[a].level - 1

Under(B, m) == {a \in DOMAIN B : B[a].level < m}

(* What is found under a block does not depend on those above.             *)
LEMMA FindsAlike ==
    ASSUME NEW B, Stepped(B), NEW key, NEW m \in Nat, NEW f, NEW g, \A a \in Under(B, m) : f[a] = g[a],
           NEW a \in DOMAIN B, B[a].level <= m
    PROVE  Finds(B, key, f, a) = Finds(B, key, g, a)
<1>1. CASE B[a].level = 0
  BY <1>1 DEF Finds
<1>2. CASE B[a].level # 0
  <2>1. PICK M : M = Meets(B[a].ents, key)
    OBVIOUS
  <2>2. ASSUME NEW e \in M
        PROVE  f[e.ptr] = g[e.ptr]
    <3>1. PICK i \in DOMAIN B[a].ents : e = B[a].ents[i]
      BY <2>1 DEF Meets
    <3>2. PICK p : p = e.ptr
      OBVIOUS
    <3>3. p \in DOMAIN B /\ B[p].level = B[a].level - 1 /\ B[a].level \in Nat
      BY <1>2, <3>1, <3>2 DEF Stepped
    <3>4. B[p].level < m
      BY <3>3
    <3>5. p \in Under(B, m)
      BY <3>3, <3>4 DEF Under
    <3> QED
      BY <3>2, <3>5
  <2>3. {f[e.ptr] : e \in M} = {g[e.ptr] : e \in M}
    BY <2>2
  <2>4. Finds(B, key, f, a) = UNION {f[e.ptr] : e \in M}
    BY <1>2, <2>1 DEF Finds
  <2>5. Finds(B, key, g, a) = UNION {g[e.ptr] : e \in M}
    BY <1>2, <2>1 DEF Finds
  <2> QED
    BY <2>3, <2>4, <2>5
<1> QED
  BY <1>1, <1>2

(* There is such a search, as its way only leads down.                     *)
LEMMA FindingExists ==
    ASSUME NEW B, Stepped(B), NEW key, NEW H \in Nat, \A a \in DOMAIN B : B[a].level < H
    PROVE  \E f : Finding(B, key, DOMAIN B, f)
<1>1. PICK S : S = {m \in Nat : \E f : Finding(B, key, Under(B, m), f)}
  OBVIOUS
<1>2. 0 \in S
  <2>1. Under(B, 0) = {}
    BY DEF Under, Stepped
  <2>2. PICK f : f = [a \in {} |-> 0]
    OBVIOUS
  <2>3. f = [a \in {} |-> Finds(B, key, f, a)]
    BY <2>2
  <2>4. Finding(B, key, Under(B, 0), f)
    BY <2>1, <2>3, Zenon DEF Finding
  <2> QED
    BY <1>1, <2>4
<1>3. ASSUME NEW m \in Nat, m \in S
      PROVE  m + 1 \in S
  <2>1. PICK f : Finding(B, key, Under(B, m), f)
    BY <1>1, <1>3
  <2>2. PICK g : g = [a \in Under(B, m + 1) |-> Finds(B, key, f, a)]
    OBVIOUS
  <2>3. ASSUME NEW a \in Under(B, m)
        PROVE  f[a] = g[a]
    <3>1. a \in Under(B, m + 1)
      BY DEF Under, Stepped
    <3>2. g[a] = Finds(B, key, f, a)
      BY <2>2, <3>1
    <3>3. f[a] = Finds(B, key, f, a)
      BY <2>1 DEF Finding
    <3> QED
      BY <3>2, <3>3
  <2>4. ASSUME NEW a \in Under(B, m + 1)
        PROVE  g[a] = Finds(B, key, g, a)
    <3>1. a \in DOMAIN B /\ B[a].level <= m
      BY DEF Under, Stepped
    <3>2. Finds(B, key, f, a) = Finds(B, key, g, a)
      BY <2>3, <3>1, FindsAlike
    <3>3. g[a] = Finds(B, key, f, a)
      BY <2>2
    <3> QED
      BY <3>2, <3>3
  <2>5. g = [a \in Under(B, m + 1) |-> Finds(B, key, g, a)]
    BY <2>2, <2>4
  <2>6. Finding(B, key, Under(B, m + 1), g)
    BY <2>5 DEF Finding
  <2> QED
    BY <1>1, <2>6
<1>4. H \in S
  BY <1>2, <1>3, SetInduction
<1>5. Under(B, H) = DOMAIN B
  BY DEF Under
<1> QED
  BY <1>1, <1>4, <1>5

Below(im, key) == CHOOSE f : Finding(im.blocks, key, DOMAIN im.blocks, f)

(* A search of the image, as `Search` has it.                              *)
LEMMA SearchIs ==
    ASSUME NEW key
    PROVE  Search(key) = UNION {Below(image, key)[e.ptr] : e \in Meets(image.root, key)}
BY DEF Search, Below, Finding, Finds, Meets

(* A whole tree: the blocks `lv` of its H levels, which lie in its image   *)
(* by their addresses.                                                     *)
Tall(im, R, n, sizes, H, addrs, lv) ==
    /\ n \in Nat /\ H \in Nat \ {0} /\ H = Len(sizes) /\ (\A l \in 1..H : sizes[l] \in Nat \ {0})
    /\ Layered(lv, R, n, sizes, addrs) /\ Filed(im.blocks, lv, H, sizes)
    /\ Divided(lv, R, n, sizes, addrs, H)
    /\ im.root = Entries(lv[H]) /\ im.level = H - 1
Falling(n, sizes, H) ==
    /\ \A l \in 1..H : n # 0 => sizes[l] <= Count(n, sizes, l)
    /\ n = 0 => H = 1 /\ sizes[1] = 1

(* Such is one that was built.                                             *)
LEMMA TallBuilt ==
    ASSUME NEW im, NEW R, NEW n \in Nat, NEW leaf \in Nat \ {0}, NEW m \in Nat \ {0, 1}, NEW r \in Nat \ {0},
           NEW sizes, NEW a, NEW addrs, NEW lv, NEW s, Raised(im, R, n, leaf, m, r, sizes, a, addrs, lv, s)
    PROVE  Tall(im, R, n, sizes, Len(sizes), addrs, lv) /\ im.leafMax = leaf /\ im.nodeMax = m
<1>1. Sized(sizes, Leaves(n, leaf), m, r) /\ a = SumTo(sizes, Len(sizes)) /\ AllApart(addrs, a)
  BY DEF Raised
<1>2. PICK H \in Nat \ {0} : H = Len(sizes) /\ (\A i \in 1..H : sizes[i] \in Nat \ {0})
  BY <1>1 DEF Sized
<1>3. Layered(lv, R, n, sizes, addrs) /\ im = Image(sizes, lv, leaf, m)
  BY DEF Raised
<1>4. /\ im.blocks = ByAddress(lv) /\ im.root = Entries(lv[H]) /\ im.level = H - 1
      /\ im.leafMax = leaf /\ im.nodeMax = m
  BY <1>2, <1>3 DEF Image
<1>5. Differ(addrs, SumTo(sizes, H))
  BY <1>1, <1>2 DEF AllApart
<1>6. Filed(ByAddress(lv), lv, H, sizes) /\ Divided(lv, R, n, sizes, addrs, H)
  BY <1>2, <1>3, <1>5, FiledBuilt
<1>7. Filed(im.blocks, lv, H, sizes)
  BY <1>4, <1>6, Zenon
<1>8. Tall(im, R, n, sizes, H, addrs, lv)
  BY <1>2, <1>3, <1>4, <1>6, <1>7, Zenon DEF Tall
<1> QED
  BY <1>2, <1>4, <1>8, Zenon

(* A level has no more blocks than it has items, if it has any.            *)
LEMMA SizesFit ==
    ASSUME NEW n \in Nat, NEW leaf \in Nat \ {0}, NEW m \in Nat \ {0, 1}, NEW r \in Nat \ {0},
           NEW sizes, Sized(sizes, Leaves(n, leaf), m, r)
    PROVE  Falling(n, sizes, Len(sizes))
<1>1. PICK H \in Nat \ {0} : H = Len(sizes) /\ sizes[1] = Leaves(n, leaf)
  BY DEF Sized
<1>2. ASSUME NEW l \in 1..H, n # 0
      PROVE  sizes[l] <= Count(n, sizes, l)
  <2>1. CASE l = 1
    <3>1. PICK q \in Nat : q = (n + leaf - 1) \div leaf /\ n <= q * leaf /\ q * leaf < n + leaf
      BY CeilIs
    <3>2. sizes[1] = q
      BY <1>1, <1>2, <3>1 DEF Leaves, div_ceil
    <3>3. q <= n
      <4>1. SUFFICES ASSUME q >= n + 1 PROVE FALSE
        BY <3>1
      <4>2. PICK d \in Nat, e \in Nat, f \in Nat : q = n + 1 + d /\ leaf = 1 + e /\ n = 1 + f
        <5>1. q - (n + 1) \in Nat /\ leaf - 1 \in Nat /\ n - 1 \in Nat
          BY <1>2, <3>1, <4>1
        <5> QED
          BY <5>1
      <4>3. q * leaf = n + n * e + leaf + d * leaf /\ n * e >= 0 /\ d * leaf >= 0
        BY <4>2
      <4> QED
        BY <3>1, <4>3
    <3> QED
      BY <2>1, <3>2, <3>3 DEF Count
  <2>2. CASE l # 1
    <3>1. PICK i \in 1..H : i = l - 1 /\ i # H /\ l = i + 1
      BY <2>2
    <3>2. sizes[i + 1] <= sizes[i]
      BY <1>1, <3>1, SizesFall
    <3> QED
      BY <2>2, <3>1, <3>2 DEF Count
  <2> QED
    BY <2>1, <2>2
<1>3. ASSUME n = 0
      PROVE  H = 1 /\ sizes[1] = 1
  <2>1. sizes[1] = 1
    BY <1>1, <1>3 DEF Leaves
  <2>2. CASE H # 1
    <3>1. 1 \in 1..H
      OBVIOUS
    <3>2. sizes[1] > r
      BY <1>1, <2>2, <3>1 DEF Sized
    <3> QED
      BY <2>1, <3>2
  <2> QED
    BY <2>1, <2>2
<1> QED
  BY <1>1, <1>2, <1>3 DEF Falling

LevelAbove(lv, R, n, sizes, l) ==
    /\ Count(n, sizes, l) \in Nat /\ sizes[l] <= Count(n, sizes, l)
    /\ Above(Count(n, sizes, l), sizes[l], Items(lv, R, l), lv[l], Entries(lv[l]))

(* Level by level, items begin in rising order.                            *)
LEMMA LevelsMount ==
    ASSUME NEW im, NEW R, NEW n, n # 0, NEW sizes, NEW H, NEW addrs, NEW lv,
           Tall(im, R, n, sizes, H, addrs, lv), Falling(n, sizes, H), Spanned(R, n), Mounting(R, n),
           NEW l \in 1..H
    PROVE  LevelAbove(lv, R, n, sizes, l)
<1>1. n \in Nat /\ H \in Nat \ {0} /\ H = Len(sizes) /\ \A x \in 1..H : sizes[x] \in Nat \ {0}
  BY DEF Tall
<1>2. ASSUME NEW x \in 1..H
      PROVE  /\ Count(n, sizes, x) \in Nat /\ sizes[x] <= Count(n, sizes, x)
             /\ Listed(lv[x], sizes[x]) /\ Listed(Items(lv, R, x), Count(n, sizes, x))
             /\ \A i \in 1 .. sizes[x] : lv[x][i].ents = Part(Count(n, sizes, x), sizes[x], Items(lv, R, x), i)
  <2>1. Count(n, sizes, x) \in Nat
    <3>1. x = 1 \/ x - 1 \in 1..H
      BY <1>1
    <3> QED
      BY <1>1, <3>1 DEF Count
  <2>2. sizes[x] <= Count(n, sizes, x)
    BY DEF Falling
  <2>3. Listed(lv[x], sizes[x]) /\ Listed(Items(lv, R, x), Count(n, sizes, x))
    BY <1>1, Zenon DEF Tall, Layered
  <2>4. \A i \in 1 .. sizes[x] : lv[x][i].ents = Part(Count(n, sizes, x), sizes[x], Items(lv, R, x), i)
    BY Zenon DEF Tall, Divided
  <2> QED
    BY <2>1, <2>2, <2>3, <2>4
<1>3. PICK S : S = {x \in Nat : x + 1 \in 1..H => LevelAbove(lv, R, n, sizes, x + 1)}
  OBVIOUS
<1>4. ASSUME NEW x \in 1..H, Spanned(Items(lv, R, x), Count(n, sizes, x)), Mounting(Items(lv, R, x), Count(n, sizes, x))
      PROVE  LevelAbove(lv, R, n, sizes, x)
  <2>1. Above(Count(n, sizes, x), sizes[x], Items(lv, R, x), lv[x], Entries(lv[x]))
    BY <1>2, <1>4, Zenon DEF Above
  <2> QED
    BY <1>2, <2>1 DEF LevelAbove
<1>5. 0 \in S
  <2>1. Items(lv, R, 1) = R /\ Count(n, sizes, 1) = n /\ 1 \in 1..H /\ 0 + 1 = 1
    BY <1>1 DEF Items, Count
  <2>2. LevelAbove(lv, R, n, sizes, 1)
    BY <1>4, <2>1
  <2> QED
    BY <1>3, <2>1, <2>2
<1>6. ASSUME NEW x \in Nat, x \in S
      PROVE  x + 1 \in S
  <2>1. SUFFICES ASSUME (x + 1) + 1 \in 1..H PROVE LevelAbove(lv, R, n, sizes, (x + 1) + 1)
    BY <1>3
  <2>2. PICK y \in 1..H : y = x + 1
    BY <1>1, <2>1
  <2>3. LevelAbove(lv, R, n, sizes, y)
    BY <1>3, <1>6, <2>2
  <2>4. PICK c \in Nat, k \in Nat \ {0} : c = Count(n, sizes, y) /\ k = sizes[y] /\ k <= c
    BY <1>1, <1>2
  <2>5. PICK X, bl, E : X = Items(lv, R, y) /\ bl = lv[y] /\ E = Entries(lv[y])
    OBVIOUS
  <2>6. Above(c, k, X, bl, E)
    BY <2>3, <2>4, <2>5 DEF LevelAbove
  <2>7. Spanned(E, k) /\ Mounting(E, k)
    BY <2>4, <2>6, EntriesMount
  <2>8. PICK z \in 1..H : z = y + 1 /\ z = (x + 1) + 1
    BY <2>1, <2>2
  <2>9. Items(lv, R, z) = E /\ Count(n, sizes, z) = k
    <3>1. z # 1 /\ z - 1 = y
      BY <2>8
    <3> QED
      BY <2>4, <2>5, <3>1 DEF Items, Count
  <2>10. LevelAbove(lv, R, n, sizes, z)
    BY <1>4, <2>7, <2>9
  <2> QED
    BY <2>8, <2>10
<1>7. l - 1 \in Nat /\ (l - 1) + 1 = l
  OBVIOUS
<1>8. l - 1 \in S
  BY <1>5, <1>6, <1>7, SetInduction
<1> QED
  BY <1>3, <1>7, <1>8

(* Blocks lead to those of the level below.                                *)
LEMMA StepsDown ==
    ASSUME NEW n, NEW s, Shape(s, n), NEW im, NEW R, Holds(s, im, R)
    PROVE  Stepped(im.blocks) /\ \A a \in DOMAIN im.blocks : im.blocks[a].level <= s.h
<1>1. s.h \in Nat
  BY DEF Shape, Sliced
<1>2. ASSUME NEW a \in DOMAIN im.blocks
      PROVE  /\ im.blocks[a].level \in 0 .. s.h
             /\ im.blocks[a].level # 0 =>
                  \A j \in DOMAIN im.blocks[a].ents :
                     /\ im.blocks[a].ents[j].ptr \in DOMAIN im.blocks
                     /\ im.blocks[im.blocks[a].ents[j].ptr].level = im.blocks[a].level - 1
  <2>1. PICK l \in 0 .. s.h : \E i \in 1 .. s.k[l] : a = s.at[l][i]
    BY DEF Holds
  <2>2. PICK i \in 1 .. s.k[l] : a = s.at[l][i]
    BY <2>1
  <2>3. NodeIs(s, im, R, l, i)
    BY BlockIs
  <2>4. PICK b : b = im.blocks[a]
    OBVIOUS
  <2>5. b.level = l /\ Listed(b.ents, Width(s, l, i))
    BY <2>2, <2>3, <2>4, Zenon DEF NodeIs
  <2>6. ASSUME b.level # 0, NEW j \in DOMAIN b.ents
        PROVE  b.ents[j].ptr \in DOMAIN im.blocks /\ im.blocks[b.ents[j].ptr].level = b.level - 1
    <3>1. PICK g \in Nat : l = g + 1 /\ g + 1 <= s.h /\ g \in 0 .. s.h
      <4>1. l - 1 \in Nat /\ l = (l - 1) + 1 /\ (l - 1) + 1 <= s.h /\ l - 1 \in 0 .. s.h
        BY <1>1, <2>5, <2>6
      <4> QED
        BY <4>1
    <3>2. j \in 1 .. Width(s, l, i)
      BY <2>5, <2>6 DEF Listed
    <3>3. s.c[l][i - 1] + j \in 1 .. s.k[g]
      BY <3>1, <3>2, ChildrenAre
    <3>4. PICK x \in 1 .. s.k[g] : x = s.c[l][i - 1] + j
      BY <3>3
    <3>5. b.ents[j].ptr = s.at[g][x]
      <4>1. l # 0 /\ l - 1 = g
        BY <3>1
      <4> QED
        BY <2>2, <2>3, <2>4, <3>2, <3>4, <4>1, Zenon DEF NodeIs
    <3>6. s.at[g][x] \in DOMAIN im.blocks /\ NodeIs(s, im, R, g, x)
      BY <3>1, BlockIs
    <3>7. im.blocks[s.at[g][x]].level = g
      BY <3>6, Zenon DEF NodeIs
    <3> QED
      BY <2>5, <3>1, <3>5, <3>6, <3>7
  <2>7. b.level \in 0 .. s.h
    BY <2>5
  <2> QED
    BY <2>4, <2>6, <2>7
<1>3. Stepped(im.blocks)
  BY <1>1, <1>2 DEF Stepped
<1> QED
  BY <1>1, <1>2, <1>3

(* A key meets an item in a block, and the block's entry.                  *)
MeetsIn(E, bl, k, key, y) ==
    \E i \in 1..k : E[i].low <= key /\ key <= E[i].high /\ E[i].ptr = bl[i].addr /\ y \in Meets(bl[i].ents, key)

(* It meets every item whose span holds it.                                *)
LEMMA ItemMeets ==
    ASSUME NEW c \in Nat, NEW k \in Nat \ {0}, k <= c, NEW X, NEW bl, NEW E, Above(c, k, X, bl, E), NEW x \in 1..c,
           NEW key \in Int, X[x].low <= key, key <= X[x].high
    PROVE  MeetsIn(E, bl, k, key, X[x])
<1>1. Held(X, bl, E, k, x)
  BY ItemHeld
<1>2. PICK i \in 1..k : /\ \E j \in DOMAIN bl[i].ents : bl[i].ents[j] = X[x]
                        /\ E[i].low <= X[x].low /\ X[x].high <= E[i].high
  BY <1>1 DEF Held
<1>3. PICK j \in DOMAIN bl[i].ents : bl[i].ents[j] = X[x]
  BY <1>2
<1>4. X[x] \in Meets(bl[i].ents, key)
  BY <1>3 DEF Meets
<1>5. Topped(c, k, X, bl, E, i)
  BY EntryTops
<1>6. E[i].low \in Int /\ E[i].high \in Int /\ X[x].low \in Int /\ X[x].high \in Int /\ E[i].ptr = bl[i].addr
  BY <1>5 DEF Topped, Above, Spanned
<1>7. E[i].low <= key /\ key <= E[i].high
  BY <1>2, <1>6
<1> QED
  BY <1>4, <1>6, <1>7 DEF MeetsIn

(* What a search finds from the entries of a level.                        *)
WayTo(E, k, f, key, y) == \E i \in 1..k : E[i] \in Meets(E, key) /\ y \in f[E[i].ptr]

(* A search for a key of a record finds it, from whatever level it goes.   *)
LEMMA FindsFrom ==
    ASSUME NEW im, NEW R, NEW n, n # 0, NEW sizes, NEW H, NEW addrs, NEW lv,
           Tall(im, R, n, sizes, H, addrs, lv), Falling(n, sizes, H), Spanned(R, n), Mounting(R, n),
           NEW key \in Int, NEW f, Finding(im.blocks, key, DOMAIN im.blocks, f),
           NEW z \in 1..n, R[z].low <= key, key <= R[z].high, NEW l \in 1..H
    PROVE  WayTo(Entries(lv[l]), sizes[l], f, key, R[z])
<1>1. n \in Nat /\ H \in Nat \ {0} /\ \A x \in 1..H : sizes[x] \in Nat \ {0}
  BY DEF Tall
<1>2. PICK S : S = {x \in Nat : x + 1 \in 1..H => WayTo(Entries(lv[x + 1]), sizes[x + 1], f, key, R[z])}
  OBVIOUS
<1>3. ASSUME NEW g \in 1..H, NEW x \in 1 .. Count(n, sizes, g),
             Items(lv, R, g)[x].low <= key, key <= Items(lv, R, g)[x].high,
             g = 1 => Items(lv, R, g)[x] = R[z],
             g # 1 => R[z] \in f[Items(lv, R, g)[x].ptr]
      PROVE  WayTo(Entries(lv[g]), sizes[g], f, key, R[z])
  <2>1. LevelAbove(lv, R, n, sizes, g)
    BY LevelsMount
  <2>2. PICK c \in Nat, k \in Nat \ {0} : c = Count(n, sizes, g) /\ k = sizes[g] /\ k <= c
    BY <1>1, <2>1 DEF LevelAbove
  <2>3. PICK X, bl, E : X = Items(lv, R, g) /\ bl = lv[g] /\ E = Entries(lv[g])
    OBVIOUS
  <2>4. Above(c, k, X, bl, E)
    BY <2>1, <2>2, <2>3 DEF LevelAbove
  <2>5. x \in 1..c /\ X[x].low <= key /\ key <= X[x].high
    BY <1>3, <2>2, <2>3
  <2>6. MeetsIn(E, bl, k, key, X[x])
    BY <2>2, <2>4, <2>5, ItemMeets
  <2>7. PICK i \in 1..k : E[i].low <= key /\ key <= E[i].high /\ E[i].ptr = bl[i].addr /\ X[x] \in Meets(bl[i].ents, key)
    BY <2>6 DEF MeetsIn
  <2>8. E[i] \in Meets(E, key)
    <3>1. i \in DOMAIN E
      <4>1. Listed(E, k)
        BY <2>2, <2>4, EntriesMount
      <4> QED
        BY <4>1 DEF Listed
    <3> QED
      BY <2>7, <3>1 DEF Meets
  <2>9. PICK a : a = bl[i].addr
    OBVIOUS
  <2>10. a \in DOMAIN im.blocks /\ im.blocks[a] = bl[i] /\ bl[i].level = g - 1
    <3>1. Filed(im.blocks, lv, H, sizes) /\ Divided(lv, R, n, sizes, addrs, H)
      BY DEF Tall
    <3> QED
      BY <2>2, <2>3, <2>9, <3>1 DEF Filed, Divided
  <2>11. f[a] = Finds(im.blocks, key, f, a)
    BY <2>10 DEF Finding
  <2>12. R[z] \in f[a]
    <3>1. CASE g = 1
      <4>1. f[a] = Meets(bl[i].ents, key)
        BY <2>10, <2>11, <3>1 DEF Finds
      <4> QED
        BY <1>3, <2>3, <2>7, <3>1, <4>1
    <3>2. CASE g # 1
      <4>1. f[a] = UNION {f[e.ptr] : e \in Meets(bl[i].ents, key)}
        BY <2>10, <2>11, <3>2 DEF Finds
      <4>2. R[z] \in f[X[x].ptr]
        BY <1>3, <2>3, <3>2
      <4> QED
        BY <2>7, <4>1, <4>2, Zenon
    <3> QED
      BY <3>1, <3>2
  <2>13. R[z] \in f[E[i].ptr]
    BY <2>7, <2>9, <2>12
  <2> QED
    BY <2>2, <2>3, <2>8, <2>13 DEF WayTo
<1>4. 0 \in S
  <2>1. Items(lv, R, 1) = R /\ Count(n, sizes, 1) = n /\ 1 \in 1..H /\ 0 + 1 = 1
    BY <1>1 DEF Items, Count
  <2>2. WayTo(Entries(lv[1]), sizes[1], f, key, R[z])
    BY <1>3, <2>1
  <2> QED
    BY <1>2, <2>1, <2>2
<1>5. ASSUME NEW x \in Nat, x \in S
      PROVE  x + 1 \in S
  <2>1. SUFFICES ASSUME (x + 1) + 1 \in 1..H
                 PROVE  WayTo(Entries(lv[(x + 1) + 1]), sizes[(x + 1) + 1], f, key, R[z])
    BY <1>2
  <2>2. PICK y \in 1..H : y = x + 1
    BY <1>1, <2>1
  <2>3. WayTo(Entries(lv[y]), sizes[y], f, key, R[z])
    BY <1>2, <1>5, <2>2
  <2>4. PICK g \in 1..H : g = y + 1 /\ g = (x + 1) + 1 /\ g # 1
    BY <2>1, <2>2
  <2>5. PICK X : X = Items(lv, R, g)
    OBVIOUS
  <2>6. X = Entries(lv[y]) /\ Count(n, sizes, g) = sizes[y]
    <3>1. g - 1 = y
      BY <2>4
    <3> QED
      BY <2>4, <2>5, <3>1 DEF Items, Count
  <2>7. PICK i \in 1 .. sizes[y] : X[i] \in Meets(X, key) /\ R[z] \in f[X[i].ptr]
    BY <2>3, <2>6 DEF WayTo
  <2>8. X[i].low <= key /\ key <= X[i].high
    BY <2>7 DEF Meets
  <2>9. i \in 1 .. Count(n, sizes, g)
    BY <2>6, <2>7
  <2>10. WayTo(Entries(lv[g]), sizes[g], f, key, R[z])
    BY <1>3, <2>4, <2>5, <2>7, <2>8, <2>9
  <2> QED
    BY <2>4, <2>10
<1>6. l - 1 \in Nat /\ (l - 1) + 1 = l
  OBVIOUS
<1>7. l - 1 \in S
  BY <1>4, <1>5, <1>6, SetInduction
<1> QED
  BY <1>2, <1>6, <1>7

(* Shares of what one block less could not hold are at least half of what  *)
(* a block holds, but for an odd one.                                      *)
LEMMA HalfFull ==
    ASSUME NEW n \in Nat, NEW k \in Nat, k >= 2, NEW m \in Nat, k * m < n + m, NEW i \in 1..k
    PROVE  2 * Share(n, k, i) >= m - 1
<1>1. k \in Nat \ {0}
  OBVIOUS
<1>2. PICK q \in Nat : Even(n, k, q) /\ n < q * k + k
  BY <1>1, CutsAre
<1>3. PICK w : w = Share(n, k, i)
  OBVIOUS
<1>4. w \in {q, q + 1}
  BY <1>2, <1>3 DEF Even
<1>5. 2 * q >= m - 1
  <2>1. SUFFICES ASSUME m >= 2 * q + 2 PROVE FALSE
    BY <1>2
  <2>2. PICK d \in Nat, e \in Nat : m = 2 * q + 2 + d /\ k = 2 + e
    <3>1. m - (2 * q + 2) \in Nat /\ k - 2 \in Nat
      BY <1>2, <2>1
    <3> QED
      BY <3>1
  <2>3. k * m < q * k + k + m
    BY <1>2
  <2>4. k * m = m + (1 + e) * (2 * q + 2 + d)
    BY <2>2
  <2>5. (1 + e) * (2 * q + 2 + d) = 2 * q + 2 + d + e * (2 * q) + 2 * e + e * d
    BY <2>2
  <2>6. q * k + k = 2 * q + e * q + 2 + e
    BY <2>2
  <2>7. e * (2 * q) = 2 * (e * q) /\ e * q >= 0 /\ e * d >= 0
    BY <2>2
  <2> QED
    BY <2>2, <2>3, <2>4, <2>5, <2>6, <2>7
<1>6. 2 * w >= m - 1
  BY <1>4, <1>5
<1> QED
  BY <1>3, <1>6

(* A level's blocks have room for its items, and one less would not, but   *)
(* in the topmost.                                                         *)
Room(leaf, m, l) == IF l = 1 THEN leaf ELSE m
Roomy(n, sizes, leaf, m, H, l) ==
    /\ Count(n, sizes, l) <= sizes[l] * Room(leaf, m, l)
    /\ l # H => sizes[l] >= 2 /\ sizes[l] * Room(leaf, m, l) < Count(n, sizes, l) + Room(leaf, m, l)

(* So the sizes of the levels are.                                         *)
LEMMA RoomIs ==
    ASSUME NEW n \in Nat, NEW leaf \in Nat \ {0}, NEW m \in Nat \ {0, 1}, NEW r \in Nat \ {0},
           NEW sizes, Sized(sizes, Leaves(n, leaf), m, r), NEW H \in Nat \ {0}, H = Len(sizes), NEW l \in 1..H
    PROVE  Roomy(n, sizes, leaf, m, H, l)
<1>1. sizes[1] = Leaves(n, leaf) /\ \A x \in 1..H : sizes[x] \in Nat \ {0}
  BY DEF Sized
<1>2. PICK k \in Nat \ {0} : k = sizes[l]
  BY <1>1
<1>3. l # H => k >= 2
  <2>1. l # H => k > r
    BY <1>2 DEF Sized
  <2> QED
    BY <2>1
<1>4. CASE l = 1
  <2>1. n <= k * leaf
    BY <1>1, <1>2, <1>4, LeavesAre
  <2>2. ASSUME k >= 2
        PROVE  k * leaf < n + leaf
    <3>1. n # 0
      <4>1. n = 0 => k = 1
        BY <1>1, <1>2, <1>4 DEF Leaves
      <4> QED
        BY <2>2, <4>1
    <3>2. PICK q \in Nat : q = (n + leaf - 1) \div leaf /\ q * leaf < n + leaf
      BY CeilIs
    <3>3. k = q
      BY <1>1, <1>2, <1>4, <3>1, <3>2 DEF Leaves, div_ceil
    <3> QED
      BY <3>2, <3>3
  <2>3. Count(n, sizes, l) = n /\ Room(leaf, m, l) = leaf
    BY <1>4 DEF Count, Room
  <2> QED
    BY <1>2, <1>3, <2>1, <2>2, <2>3 DEF Roomy
<1>5. CASE l # 1
  <2>1. PICK i \in 1..H : i + 1 = l /\ l - 1 = i /\ i # H
    <3>1. l - 1 \in 1..H /\ (l - 1) + 1 = l /\ l - 1 # H
      BY <1>5
    <3> QED
      BY <3>1
  <2>2. PICK c \in Nat : c = sizes[i]
    BY <1>1
  <2>3. k = Ceil(c, m)
    BY <1>2, <2>1, <2>2 DEF Sized
  <2>4. PICK q \in Nat : q = (c + m - 1) \div m /\ c <= q * m /\ q * m < c + m
    BY CeilIs
  <2>5. k = q
    BY <2>3, <2>4 DEF Ceil
  <2>6. Count(n, sizes, l) = c /\ Room(leaf, m, l) = m
    BY <1>5, <2>1, <2>2 DEF Count, Room
  <2> QED
    BY <1>2, <1>3, <2>4, <2>5, <2>6 DEF Roomy
<1> QED
  BY <1>4, <1>5

(* A block of a tree built whole: how full it is, and its neighbour.       *)
Sits(im, a) ==
    LET b == im.blocks[a]
        max == IF b.level = 0 THEN im.leafMax ELSE im.nodeMax
    IN  /\ Len(b.ents) <= max
        /\ b.level < im.level => 2 * Len(b.ents) >= max - 1
        /\ b.right # Null => /\ im.blocks[b.right].left = a
                             /\ im.blocks[b.right].level = b.level
                             /\ b.ents[Len(b.ents)].low < im.blocks[b.right].ents[1].low

(* How many items a block has.                                             *)
Has(n, sizes, lv, l, i, m) ==
    /\ Count(n, sizes, l) \in Nat /\ sizes[l] \in Nat \ {0}
    /\ Share(Count(n, sizes, l), sizes[l], i) \in 0..m
    /\ Len(lv[l][i].ents) = Share(Count(n, sizes, l), sizes[l], i)

(* They are no more than it has room for.                                  *)
LEMMA HowMany ==
    ASSUME NEW im, NEW R, NEW n, NEW sizes, NEW H, NEW addrs, NEW lv, Tall(im, R, n, sizes, H, addrs, lv),
           NEW l \in 1..H, NEW i \in 1 .. sizes[l], NEW m \in Nat, Count(n, sizes, l) <= sizes[l] * m
    PROVE  Has(n, sizes, lv, l, i, m)
<1>1. n \in Nat /\ H \in Nat \ {0} /\ \A x \in 1..H : sizes[x] \in Nat \ {0}
  BY DEF Tall
<1>2. PICK c \in Nat, k \in Nat \ {0} : c = Count(n, sizes, l) /\ k = sizes[l]
  <2>1. l = 1 \/ l - 1 \in 1..H
    BY <1>1
  <2> QED
    BY <1>1, <2>1 DEF Count
<1>3. PICK w \in 0..m : w = Share(c, k, i)
  BY <1>2, SharesFit
<1>4. PICK ents : ents = lv[l][i].ents
  OBVIOUS
<1>5. Listed(ents, w)
  <2>1. ents = Part(c, k, Items(lv, R, l), i)
    BY <1>2, <1>4, Zenon DEF Tall, Divided
  <2> QED
    BY <1>3, <2>1 DEF Part, Listed
<1>6. w \in Nat
  OBVIOUS
<1>7. Len(ents) = w
  BY <1>5, <1>6, FunSeq DEF Listed
<1> QED
  BY <1>2, <1>3, <1>4, <1>7 DEF Has

(* The links of a block.                                                   *)
Linked(lv, sizes, l, i) ==
    /\ lv[l][i].right = (IF i = sizes[l] THEN Null ELSE lv[l][i + 1].addr)
    /\ i # sizes[l] => lv[l][i + 1].left = lv[l][i].addr

(* Neighbours on a level are linked so.                                    *)
LEMMA LinksAre ==
    ASSUME NEW im, NEW R, NEW n, NEW sizes, NEW H, NEW addrs, NEW lv, Tall(im, R, n, sizes, H, addrs, lv),
           NEW l \in 1..H, NEW i \in 1 .. sizes[l]
    PROVE  Linked(lv, sizes, l, i)
<1>1. PICK k \in Nat \ {0} : k = sizes[l]
  BY DEF Tall
<1>2. PICK as : as = [x \in 1..k |-> addrs[Nth(sizes, l, x)]]
  OBVIOUS
<1>3. ASSUME NEW x \in 1..k
      PROVE  /\ lv[l][x].left = (IF x = 1 THEN Null ELSE as[x - 1])
             /\ lv[l][x].right = (IF x = k THEN Null ELSE as[x + 1])
             /\ lv[l][x].addr = as[x]
  <2>1. BlockHas(lv[l][x], l - 1, Count(n, sizes, l), Items(lv, R, l), sizes[l],
                 [y \in 1 .. sizes[l] |-> addrs[Nth(sizes, l, y)]], x)
    BY <1>1, Zenon DEF Tall, Layered
  <2>2. BlockHas(lv[l][x], l - 1, Count(n, sizes, l), Items(lv, R, l), k, as, x)
    BY <1>1, <1>2, <2>1
  <2> QED
    BY <2>2, Zenon DEF BlockHas
<1>4. CASE i = k
  BY <1>1, <1>3, <1>4 DEF Linked
<1>5. CASE i # k
  <2>1. i + 1 \in 1..k /\ i + 1 # 1 /\ (i + 1) - 1 = i
    BY <1>1, <1>5
  <2>2. lv[l][i].right = lv[l][i + 1].addr
    BY <1>1, <1>3, <1>5, <2>1
  <2>3. lv[l][i + 1].left = lv[l][i].addr
    <3>1. PICK j \in 1..k : j = i + 1 /\ j # 1 /\ j - 1 = i
      BY <2>1
    <3>2. lv[l][j].left = as[j - 1]
      BY <1>3, <3>1
    <3>3. lv[l][i].addr = as[i]
      BY <1>1, <1>3
    <3> QED
      BY <3>1, <3>2, <3>3
  <2> QED
    BY <1>1, <1>5, <2>2, <2>3 DEF Linked
<1> QED
  BY <1>4, <1>5

(* So sits every block of a tree built whole.                              *)
LEMMA BlocksSit ==
    ASSUME NEW im, NEW R, NEW n, NEW leaf \in Nat \ {0}, NEW m \in Nat \ {0, 1}, NEW sizes, NEW H, NEW addrs, NEW lv,
           Tall(im, R, n, sizes, H, addrs, lv), im.leafMax = leaf, im.nodeMax = m,
           Falling(n, sizes, H), \A l \in 1..H : Roomy(n, sizes, leaf, m, H, l),
           n # 0 => Spanned(R, n) /\ Mounting(R, n), NEW a \in DOMAIN im.blocks
    PROVE  Sits(im, a)
<1>1. n \in Nat /\ H \in Nat \ {0} /\ im.level = H - 1
  BY DEF Tall
<1>2. /\ \A l \in 1..H : \A i \in 1 .. sizes[l] : lv[l][i].addr \in DOMAIN im.blocks /\ im.blocks[lv[l][i].addr] = lv[l][i]
      /\ \E l \in 1..H : \E i \in 1 .. sizes[l] : a = lv[l][i].addr
  BY Zenon DEF Tall, Filed
<1>3. PICK l \in 1..H : \E i \in 1 .. sizes[l] : a = lv[l][i].addr
  BY <1>2
<1>4. PICK i \in 1 .. sizes[l] : a = lv[l][i].addr
  BY <1>3
<1>5. PICK b : b = lv[l][i]
  OBVIOUS
<1>6. im.blocks[a] = b
  BY <1>2, <1>4, <1>5
<1>7. \A x \in 1 .. sizes[l] : lv[l][x].level = l - 1
  BY Zenon DEF Tall, Divided
<1>8. b.level = l - 1
  BY <1>5, <1>7
<1>9. PICK max \in Nat : max = Room(leaf, m, l)
  BY DEF Room
<1>10. Count(n, sizes, l) <= sizes[l] * max
  BY <1>9 DEF Roomy
<1>20. Has(n, sizes, lv, l, i, max)
  BY <1>10, HowMany, Zenon
<1>11. PICK c \in Nat, k \in Nat \ {0} : c = Count(n, sizes, l) /\ k = sizes[l]
  BY <1>20 DEF Has
<1>12. PICK w \in 0..max : w = Share(c, k, i) /\ w = Len(b.ents)
  BY <1>5, <1>11, <1>20 DEF Has
<1>13. max = IF b.level = 0 THEN im.leafMax ELSE im.nodeMax
  BY <1>8, <1>9 DEF Room
<1>14. Len(b.ents) <= max
  BY <1>12
<1>15. ASSUME b.level < im.level
       PROVE  2 * Len(b.ents) >= max - 1
  <2>1. l # H
    BY <1>1, <1>8, <1>15
  <2>2. k >= 2 /\ k * max < c + max
    BY <1>9, <1>11, <2>1 DEF Roomy
  <2>3. i \in 1..k
    BY <1>11
  <2>4. 2 * w >= max - 1
    BY <1>12, <2>2, <2>3, HalfFull
  <2> QED
    BY <1>12, <2>4
<1>16. ASSUME b.right # Null
       PROVE  /\ im.blocks[b.right].left = a /\ im.blocks[b.right].level = b.level
              /\ b.ents[Len(b.ents)].low < im.blocks[b.right].ents[1].low
  <2>1. Linked(lv, sizes, l, i)
    BY LinksAre
  <2>2. i # k /\ i \in 1..k
    BY <1>5, <1>11, <1>16, <2>1 DEF Linked
  <2>3. PICK j \in 1..k : j = i + 1 /\ i \in 0..k /\ j - 1 = i
    BY <2>2
  <2>4. b.right = lv[l][j].addr /\ lv[l][j].left = a
    BY <1>4, <1>5, <1>11, <2>1, <2>2, <2>3 DEF Linked
  <2>5. PICK d : d = lv[l][j]
    OBVIOUS
  <2>6. im.blocks[b.right] = d
    BY <1>2, <1>11, <2>4, <2>5
  <2>7. d.level = b.level
    BY <1>7, <1>8, <1>11, <2>5
  <2>8. n # 0
    <3>1. n = 0 => k = 1
      BY <1>11 DEF Falling
    <3> QED
      BY <2>2, <3>1
  <2>9. LevelAbove(lv, R, n, sizes, l)
    BY <2>8, LevelsMount
  <2>10. k <= c
    BY <1>11, <2>9 DEF LevelAbove
  <2>11. PICK X, bl, E : X = Items(lv, R, l) /\ bl = lv[l] /\ E = Entries(lv[l])
    OBVIOUS
  <2>12. Above(c, k, X, bl, E)
    BY <1>11, <2>9, <2>11 DEF LevelAbove
  <2>13. w \in 1 .. Share(c, k, i)
    <3>1. Share(c, k, i) >= 1
      BY <2>2, <2>10, SharesHold
    <3> QED
      BY <1>12, <3>1
  <2>14. PICK p \in Nat, q \in Nat : p = CutAt(c, k, i - 1) /\ q = CutAt(c, k, i)
    <3>1. i - 1 \in 0..k /\ i \in 0..k
      BY <2>2
    <3> QED
      BY <3>1, CutsAre DEF Cutting
  <2>15. p + w = q
    BY <1>12, <2>14 DEF Share
  <2>16. ItsItem(c, k, X, bl, i, w)
    BY <2>2, <2>12, <2>13, ItemIs
  <2>17. b.ents[w] = X[q] /\ q \in 1..c
    BY <1>5, <2>11, <2>14, <2>15, <2>16 DEF ItsItem
  <2>18. 1 \in 1 .. Share(c, k, j)
    <3>1. Share(c, k, j) >= 1
      BY <2>10, SharesHold
    <3>2. Share(c, k, j) \in Int
      <4>1. j \in 0..k /\ j - 1 \in 0..k
        BY <2>3
      <4>2. PICK u \in Nat, v \in Nat : u = CutAt(c, k, j) /\ v = CutAt(c, k, j - 1)
        BY <4>1, CutsAre DEF Cutting
      <4> QED
        BY <4>2 DEF Share
    <3> QED
      BY <3>1, <3>2
  <2>19. ItsItem(c, k, X, bl, j, 1)
    BY <2>12, <2>18, ItemIs
  <2>20. d.ents[1] = X[q + 1] /\ q + 1 \in 1..c
    BY <2>3, <2>5, <2>11, <2>14, <2>19 DEF ItsItem
  <2>21. X[q].low < X[q + 1].low
    <3>1. q < q + 1
      OBVIOUS
    <3> QED
      BY <2>12, <2>17, <2>20, <3>1 DEF Above, Mounting
  <2> QED
    BY <1>12, <2>4, <2>5, <2>6, <2>7, <2>17, <2>20, <2>21
<1> QED
  BY <1>6, <1>13, <1>14, <1>15, <1>16 DEF Sits

(* What was chosen is laid out from its records, which are in order.       *)
LEMMA TreesMade ==
    ASSUME Chosen, Stored, what.kind \in {"ag", "fork"}
    PROVE  Ordered(what.recs) /\ \E leaf, m, r, sizes, a : Made(image, what.recs, leaf, m, r, sizes, a)
<1>1. CASE what.kind = "ag"
  <2>1. TreeFits(what) /\ image = TreeOf(what)
    BY <1>1, KindTells DEF Stored
  <2>2. Ordered(what.recs)
    BY <2>1 DEF TreeFits
  <2>3. PICK sizes, a : Made(image, what.recs, what.leafMax, what.nodeMax, 1, sizes, a)
    BY <2>1, TreeOfMade
  <2> QED
    BY <2>2, <2>3
<1>2. CASE what.kind = "fork"
  <2>1. ForkFits(what) /\ image = ForkOf(what)
    BY <1>2, KindTells DEF Stored
  <2>2. Ordered(what.recs)
    BY <2>1 DEF ForkFits
  <2>3. PICK sizes, a : Made(image, what.recs, what.max, what.max, what.rootMax, sizes, a)
    BY <2>1, ForkOfMade
  <2> QED
    BY <2>2, <2>3
<1> QED
  BY <1>1, <1>2

(* What is to be found in it is found, and its blocks sit.                 *)
LEMMA MadeFinds ==
    ASSUME NEW R, Ordered(R), NEW leaf, NEW m, NEW r, NEW sizes, NEW a, Made(image, R, leaf, m, r, sizes, a)
    PROVE  /\ \A i \in DOMAIN R : \A key \in R[i].low .. R[i].high : R[i] \in Search(key)
           /\ \A b \in DOMAIN image.blocks : Sits(image, b)
<1>1. R \in Seq(Spans) /\ leaf \in Nat \ {0} /\ m \in Nat \ {0, 1} /\ r \in Nat \ {0}
  BY DEF Made
<1>2. PICK n \in Nat : HasSpans(R, n)
  BY <1>1, SpansAre
<1>3. Len(R) = n /\ DOMAIN R = 1..n /\ Spanned(R, n) /\ Mounting(R, n)
  BY <1>2 DEF HasSpans, Spanned, Mounting, Ordered
<1>5. Laid(image, R, n, leaf, m, r, sizes, a)
  BY <1>3 DEF Made
<1>6. PICK addrs, lv, s : Raised(image, R, n, leaf, m, r, sizes, a, addrs, lv, s)
  BY <1>1, <1>3, <1>5, ImageRaised
<1>7. PICK H : H = Len(sizes)
  OBVIOUS
<1>8. Tall(image, R, n, sizes, H, addrs, lv) /\ image.leafMax = leaf /\ image.nodeMax = m
  BY <1>1, <1>6, <1>7, TallBuilt
<1>9. H \in Nat \ {0} /\ image.root = Entries(lv[H]) /\ sizes[H] \in Nat \ {0} /\ H \in 1..H
  BY <1>8 DEF Tall
<1>10. Sized(sizes, Leaves(n, leaf), m, r) /\ Shape(s, n) /\ Holds(s, image, R) /\ Built(s, n, sizes, addrs)
  BY <1>6 DEF Raised
<1>11. Falling(n, sizes, H)
  BY <1>1, <1>7, <1>10, SizesFit
<1>12. \A l \in 1..H : Roomy(n, sizes, leaf, m, H, l)
  BY <1>1, <1>7, <1>9, <1>10, RoomIs
<1>13. Stepped(image.blocks) /\ \A b \in DOMAIN image.blocks : image.blocks[b].level < H
  <2>1. Stepped(image.blocks) /\ \A b \in DOMAIN image.blocks : image.blocks[b].level <= s.h
    BY <1>10, StepsDown
  <2>2. s.h \in Nat /\ s.h + 1 = H
    BY <1>7, <1>10 DEF Built
  <2>3. ASSUME NEW b \in DOMAIN image.blocks
        PROVE  image.blocks[b].level < H
    <3>1. image.blocks[b].level \in Nat /\ image.blocks[b].level <= s.h
      BY <2>1 DEF Stepped
    <3> QED
      BY <2>2, <3>1
  <2> QED
    BY <2>1, <2>3
<1>14. ASSUME NEW z \in 1..n, NEW key \in R[z].low .. R[z].high
       PROVE  R[z] \in Search(key)
  <2>1. key \in Int /\ R[z].low <= key /\ key <= R[z].high
    BY <1>3 DEF Spanned
  <2>2. PICK f : f = Below(image, key)
    OBVIOUS
  <2>3. Finding(image.blocks, key, DOMAIN image.blocks, f)
    <3>1. \E g : Finding(image.blocks, key, DOMAIN image.blocks, g)
      BY <1>9, <1>13, FindingExists
    <3> QED
      BY <2>2, <3>1, Zenon DEF Below
  <2>4. n # 0
    OBVIOUS
  <2>5. WayTo(Entries(lv[H]), sizes[H], f, key, R[z])
    BY <1>3, <1>8, <1>9, <1>11, <2>1, <2>3, <2>4, FindsFrom
  <2>6. PICK i \in 1 .. sizes[H] : image.root[i] \in Meets(image.root, key) /\ R[z] \in f[image.root[i].ptr]
    BY <1>9, <2>5 DEF WayTo
  <2>7. Search(key) = UNION {f[e.ptr] : e \in Meets(image.root, key)}
    BY <2>2, SearchIs
  <2> QED
    BY <2>6, <2>7, Zenon
<1>15. \A b \in DOMAIN image.blocks : Sits(image, b)
  BY <1>1, <1>3, <1>8, <1>11, <1>12, BlocksSit
<1> QED
  BY <1>3, <1>14, <1>15

(* So a search finds what is in any tree laid out.                         *)
LEMMA TreesFind ==
    ASSUME TreesInv
    PROVE  TreeFinds
<1>1. SUFFICES ASSUME what.kind \in {"ag", "fork"}, image # None, ~damaged PROVE TreeFinds
  BY DEF TreeFinds
<1>2. Ordered(what.recs) /\ \E leaf, m, r, sizes, a : Made(image, what.recs, leaf, m, r, sizes, a)
  BY <1>1, TreesMade DEF TreesInv
<1>3. \A i \in DOMAIN what.recs : \A key \in what.recs[i].low .. what.recs[i].high : what.recs[i] \in Search(key)
  BY <1>2, MadeFinds, Zenon
<1>4. \A a \in DOMAIN image.blocks : Sits(image, a)
  BY <1>2, MadeFinds, Zenon
<1> QED
  BY <1>3, <1>4 DEF TreeFinds, Sits, Inner

(* In a tree of any number of records and levels, in blocks of any size,   *)
(* the keys of its nodes lead a search to every record that covers a key;  *)
(* neighbours on a level are linked both ways and in order, and a block    *)
(* below the topmost level is at least half full (build_ag, build_bmap).   *)
THEOREM SearchesFind == Spec => []TreeFinds
<1>1. Spec => []TreesInv
  <2>1. Init => TreesInv
    BY TreesInit
  <2>2. TreesInv /\ [Next]_vars => TreesInv'
    BY TreesNext
  <2> QED
    BY <2>1, <2>2, PTL DEF Spec
<1>2. TreesInv => TreeFinds
  BY TreesFind, Zenon
<1> QED
  BY <1>1, <1>2, PTL
=============================================================================

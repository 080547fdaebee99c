---------------------------- MODULE ExtentsProofs ----------------------------
(***************************************************************************)
(* Recursion and induction, for the other modules of proofs; and what      *)
(* taking blocks out of a free map and giving them back do to it, for      *)
(* every map and every size of group.                                      *)
(***************************************************************************)
EXTENDS Extents, TLAPS, FiniteSetTheorems, WellFoundedInduction

-----------------------------------------------------------------------------
(* A function can be defined by recursion along a relation that has no     *)
(* endless descent: a functional that looks only below has a fixed point.  *)

(* The functions of the kind `R` says.                                     *)
Family(S, T, R) == {f \in [S -> T] : \A x \in S : f[x] \in R[x]}
Descends(S, L) ==
    /\ \A x, y, z \in S : <<x, y>> \in L /\ <<y, z>> \in L => <<x, z>> \in L
    /\ \A U \in SUBSET S : U # {} => \E x \in U : \A y \in U : <<y, x>> \notin L
Same(S, L, f, g, x) == \A y \in S : <<y, x>> \in L => f[y] = g[y]
LooksBelow(S, L, F, G) ==
    /\ G \in [F -> F]
    /\ \A f, g \in F : \A x \in S : Same(S, L, f, g, x) => G[f][x] = G[g][x]

(* `f` is as the functional wants it up to `x`.                            *)
UpTo(S, L, x) == {y \in S : y = x \/ <<y, x>> \in L}
Fits(S, L, F, G, x, f) == f \in F /\ \A y \in UpTo(S, L, x) : f[y] = G[f][y]
Fitting(S, L, F, G, x) == CHOOSE f : Fits(S, L, F, G, x, f)

(* What is below something below is below.                                 *)
LEMMA UpToDown ==
    ASSUME NEW S, NEW L, Descends(S, L), NEW x \in S, NEW y \in UpTo(S, L, x), NEW z \in S, <<z, y>> \in L
    PROVE  z \in UpTo(S, L, x) /\ y \in S
BY DEF UpTo, Descends

(* Two that fit agree.                                                     *)
LEMMA FitsAgree ==
    ASSUME NEW S, NEW L, Descends(S, L), NEW F, NEW G, LooksBelow(S, L, F, G),
           NEW x \in S, NEW z \in S, NEW f, NEW g, Fits(S, L, F, G, x, f), Fits(S, L, F, G, z, g),
           NEW y \in UpTo(S, L, x), y \in UpTo(S, L, z)
    PROVE  f[y] = g[y]
<1>1. PICK U : U = {w \in S : w \in UpTo(S, L, x) /\ w \in UpTo(S, L, z) /\ f[w] # g[w]}
  OBVIOUS
<1>2. SUFFICES ASSUME U # {} PROVE FALSE
  BY <1>1 DEF UpTo
<1>3. PICK w \in U : \A v \in U : <<v, w>> \notin L
  BY <1>1, <1>2 DEF Descends
<1>4. w \in UpTo(S, L, x) /\ w \in UpTo(S, L, z) /\ f[w] # g[w] /\ w \in S
  BY <1>1, <1>3
<1>5. Same(S, L, f, g, w)
  <2>1. SUFFICES ASSUME NEW v \in S, <<v, w>> \in L
                 PROVE  f[v] = g[v]
    BY DEF Same
  <2>2. v \in UpTo(S, L, x) /\ v \in UpTo(S, L, z)
    BY <1>4, <2>1, UpToDown
  <2> QED
    BY <1>1, <1>3, <2>1, <2>2
<1>6. f \in F /\ g \in F /\ f[w] = G[f][w] /\ g[w] = G[g][w]
  BY <1>4 DEF Fits
<1>7. G[f][w] = G[g][w]
  BY <1>4, <1>5, <1>6 DEF LooksBelow
<1> QED
  BY <1>4, <1>6, <1>7

(* Put together from what fits below, a function fits.                     *)
LEMMA FitsPatch ==
    ASSUME NEW S, NEW L, Descends(S, L), NEW F, NEW G, LooksBelow(S, L, F, G), NEW f \in F, NEW y \in S,
           \A w \in UpTo(S, L, y) : \E g : Fits(S, L, F, G, w, g),
           \A w \in UpTo(S, L, y) : f[w] = Fitting(S, L, F, G, w)[w]
    PROVE  f[y] = G[f][y]
<1>1. y \in UpTo(S, L, y)
  BY DEF UpTo
<1>2. \A w \in UpTo(S, L, y) : w \in S /\ Fits(S, L, F, G, w, Fitting(S, L, F, G, w))
  <2>1. SUFFICES ASSUME NEW w \in UpTo(S, L, y)
                 PROVE  w \in S /\ Fits(S, L, F, G, w, Fitting(S, L, F, G, w))
    OBVIOUS
  <2>2. \E g : Fits(S, L, F, G, w, g)
    OBVIOUS
  <2> QED
    BY <2>2 DEF Fitting, UpTo
<1>3. PICK g : g = Fitting(S, L, F, G, y)
  OBVIOUS
<1>4. Fits(S, L, F, G, y, g) /\ g \in F /\ g[y] = G[g][y]
  BY <1>1, <1>2, <1>3 DEF Fits
<1>5. Same(S, L, f, g, y)
  <2>1. SUFFICES ASSUME NEW w \in S, <<w, y>> \in L
                 PROVE  f[w] = g[w]
    BY DEF Same
  <2>2. w \in UpTo(S, L, y) /\ w \in UpTo(S, L, w)
    BY <2>1 DEF UpTo
  <2>3. PICK h : h = Fitting(S, L, F, G, w)
    OBVIOUS
  <2>4. Fits(S, L, F, G, w, h) /\ f[w] = h[w]
    BY <1>2, <2>2, <2>3
  <2>5. h[w] = g[w]
    BY <1>4, <2>2, <2>4, FitsAgree
  <2> QED
    BY <2>4, <2>5
<1>6. G[f][y] = G[g][y]
  BY <1>4, <1>5 DEF LooksBelow
<1> QED
  BY <1>1, <1>3, <1>4, <1>6

(* Everywhere something fits.                                              *)
LEMMA FitsExists ==
    ASSUME NEW S, NEW T, NEW R, NEW L, Descends(S, L), NEW F, F = Family(S, T, R), F # {},
           NEW G, LooksBelow(S, L, F, G), NEW x \in S
    PROVE  \E f : Fits(S, L, F, G, x, f)
<1>1. PICK U : U = {w \in S : ~ \E f : Fits(S, L, F, G, w, f)}
  OBVIOUS
<1>2. SUFFICES ASSUME U # {} PROVE FALSE
  BY <1>1
<1>3. PICK w \in U : \A v \in U : <<v, w>> \notin L
  BY <1>1, <1>2 DEF Descends
<1>4. w \in S /\ \A f : ~ Fits(S, L, F, G, w, f)
  BY <1>1, <1>3
<1>5. <<w, w>> \notin L
  BY <1>3
<1>6. \A v \in S : <<v, w>> \in L => \E f : Fits(S, L, F, G, v, f)
  BY <1>1, <1>3
<1>7. PICK k \in F : TRUE
  OBVIOUS
<1>8. PICK f : f = [v \in S |-> IF <<v, w>> \in L THEN Fitting(S, L, F, G, v)[v] ELSE k[v]]
  OBVIOUS
<1>9. \A v \in S : <<v, w>> \in L => Fits(S, L, F, G, v, Fitting(S, L, F, G, v))
  BY <1>6 DEF Fitting
<1>10. f \in F
  <2>1. ASSUME NEW v \in S
        PROVE  f[v] \in T /\ f[v] \in R[v]
    <3>1. CASE <<v, w>> \in L
      <4>1. PICK h : h = Fitting(S, L, F, G, v)
        OBVIOUS
      <4>2. h \in F /\ f[v] = h[v]
        BY <1>8, <1>9, <3>1, <4>1 DEF Fits
      <4> QED
        BY <4>2 DEF Family
    <3>2. CASE <<v, w>> \notin L
      BY <1>7, <1>8, <3>2 DEF Family
    <3> QED
      BY <3>1, <3>2
  <2>2. f \in [S -> T]
    BY <1>8, <2>1
  <2> QED
    BY <2>1, <2>2 DEF Family
<1>11. PICK e : e = G[f][w]
  OBVIOUS
<1>12. e \in T /\ e \in R[w]
  BY <1>4, <1>10, <1>11 DEF LooksBelow, Family
<1>13. PICK g : g = [v \in S |-> IF v = w THEN e ELSE f[v]]
  OBVIOUS
<1>14. g \in F
  <2>1. \A v \in S : g[v] \in T /\ g[v] \in R[v]
    BY <1>10, <1>12, <1>13 DEF Family
  <2>2. g \in [S -> T]
    BY <1>13, <2>1
  <2> QED
    BY <2>1, <2>2 DEF Family
<1>15. g[w] = e /\ \A v \in S : <<v, w>> \in L => g[v] = Fitting(S, L, F, G, v)[v] /\ g[v] = f[v]
  BY <1>4, <1>5, <1>8, <1>13
<1>16. Same(S, L, f, g, w)
  BY <1>15 DEF Same
<1>17. g[w] = G[g][w]
  BY <1>4, <1>10, <1>11, <1>14, <1>15, <1>16 DEF LooksBelow
<1>18. ASSUME NEW y \in S, <<y, w>> \in L
       PROVE  g[y] = G[g][y]
  <2>1. \A v \in UpTo(S, L, y) : v \in S /\ <<v, w>> \in L
    BY <1>4, <1>18 DEF UpTo, Descends
  <2>2. \A v \in UpTo(S, L, y) : \E h : Fits(S, L, F, G, v, h)
    BY <1>6, <2>1
  <2>3. \A v \in UpTo(S, L, y) : g[v] = Fitting(S, L, F, G, v)[v]
    BY <1>15, <2>1
  <2> QED
    BY <1>14, <2>2, <2>3, FitsPatch
<1>19. Fits(S, L, F, G, w, g)
  BY <1>14, <1>17, <1>18 DEF Fits, UpTo
<1> QED
  BY <1>4, <1>19

(* The recursion theorem.                                                  *)
LEMMA Recursion ==
    ASSUME NEW S, NEW T, NEW R, NEW L, Descends(S, L), NEW F, F = Family(S, T, R), F # {},
           NEW G, LooksBelow(S, L, F, G)
    PROVE  \E f \in F : f = G[f]
<1>1. \A x \in S : \E f : Fits(S, L, F, G, x, f)
  BY FitsExists
<1>2. \A x \in S : Fits(S, L, F, G, x, Fitting(S, L, F, G, x))
  BY <1>1 DEF Fitting
<1>3. PICK f : f = [x \in S |-> Fitting(S, L, F, G, x)[x]]
  OBVIOUS
<1>4. f \in F
  <2>1. ASSUME NEW v \in S
        PROVE  f[v] \in T /\ f[v] \in R[v]
    <3>1. PICK h : h = Fitting(S, L, F, G, v)
      OBVIOUS
    <3>2. h \in F /\ f[v] = h[v]
      BY <1>2, <1>3, <3>1 DEF Fits
    <3> QED
      BY <3>2 DEF Family
  <2>2. f \in [S -> T]
    BY <1>3, <2>1
  <2> QED
    BY <2>1, <2>2 DEF Family
<1>5. ASSUME NEW y \in S
      PROVE  f[y] = G[f][y]
  <2>1. \A w \in UpTo(S, L, y) : w \in S
    BY DEF UpTo
  <2>2. \A w \in UpTo(S, L, y) : \E g : Fits(S, L, F, G, w, g)
    BY <1>1, <2>1
  <2>3. \A w \in UpTo(S, L, y) : f[w] = Fitting(S, L, F, G, w)[w]
    BY <1>3, <2>1
  <2> QED
    BY <1>4, <2>2, <2>3, FitsPatch
<1>6. G[f] \in F
  BY <1>4 DEF LooksBelow
<1>7. f \in [S -> T] /\ G[f] \in [S -> T]
  BY <1>4, <1>6 DEF Family
<1>8. f = G[f]
  BY <1>5, <1>7
<1> QED
  BY <1>4, <1>8

-----------------------------------------------------------------------------
(* Numbers.                                                                *)

(* A non-empty set of naturals has a least element, so that Min is one. *)
LEMMA MinOfNats ==
    ASSUME NEW S, S \subseteq Nat, S # {}
    PROVE  Min(S) \in S /\ \A y \in S : Min(S) <= y
<1>1. \E x \in S : \A y \in S : ~ (<<y, x>> \in OpToRel(<, Nat))
  BY NatLessThanWellFounded, WFMin
<1>2. \E x \in S : \A y \in S : x <= y
  <2>1. PICK x \in S : \A y \in S : ~ (<<y, x>> \in OpToRel(<, Nat))
    BY <1>1
  <2>2. ASSUME NEW y \in S
        PROVE  x <= y
    <3>1. ~ (<<y, x>> \in OpToRel(<, Nat))
      BY <2>1
    <3>2. x \in Nat /\ y \in Nat
      OBVIOUS
    <3>3. ~ (y < x)
      BY <3>1, <3>2 DEF OpToRel
    <3> QED
      BY <3>2, <3>3
  <2> QED
    BY <2>2
<1> QED
  BY <1>2 DEF Min

(* A non-empty set of naturals with a bound has a greatest element. *)
LEMMA MaxOfNats ==
    ASSUME NEW S, S \subseteq Nat, S # {}, NEW b \in Nat, \A x \in S : x <= b
    PROVE  Max(S) \in S /\ \A y \in S : y <= Max(S)
<1> DEFINE D == {b - x : x \in S}
<1>1. D \subseteq Nat /\ D # {}
  <2>1. ASSUME NEW x \in S
        PROVE  b - x \in Nat
    <3>1. x \in Nat /\ x <= b
      OBVIOUS
    <3> QED
      BY <3>1
  <2>2. PICK x \in S : TRUE
    OBVIOUS
  <2>3. b - x \in D
    OBVIOUS
  <2> QED
    BY <2>1, <2>3
<1>2. Min(D) \in D /\ \A y \in D : Min(D) <= y
  BY <1>1, MinOfNats
<1>3. PICK m \in S : Min(D) = b - m
  BY <1>2
<1>4. \A y \in S : y <= m
  <2>1. SUFFICES ASSUME NEW y \in S
                 PROVE  y <= m
    OBVIOUS
  <2>2. b - y \in D
    OBVIOUS
  <2>3. b - m <= b - y
    BY <2>2, <1>2, <1>3
  <2> QED
    BY <2>3
<1>5. \E x \in S : \A y \in S : x >= y
  BY <1>4
<1> QED
  BY <1>5 DEF Max

(* The remainder and the quotient of a number are the ones it is made of.  *)
LEMMA ModIs ==
    ASSUME NEW n \in Nat \ {0}, NEW k \in Int, NEW r \in 0 .. (n - 1)
    PROVE  (k * n + r) % n = r /\ (k * n + r) \div n = k
OBVIOUS

(* Every number is made of its quotient and its remainder.                 *)
LEMMA ModSplit ==
    ASSUME NEW n \in Nat \ {0}, NEW p \in Int
    PROVE  p = (p \div n) * n + (p % n) /\ p % n \in 0 .. (n - 1) /\ p \div n \in Int
OBVIOUS

(* Rounding up.                                                            *)
LEMMA CeilIs ==
    ASSUME NEW n \in Nat, NEW m \in Nat \ {0}
    PROVE  LET q == (n + m - 1) \div m IN q \in Nat /\ n <= q * m /\ q * m < n + m
<1>1. PICK p \in Nat, q \in Int, r \in 0 .. (m - 1) : p = n + m - 1 /\ q = p \div m /\ p = q * m + r
  <2>1. PICK p \in Nat : p = n + m - 1
    OBVIOUS
  <2>2. p = (p \div m) * m + (p % m) /\ p % m \in 0 .. (m - 1) /\ p \div m \in Int
    BY <2>1, ModSplit
  <2>3. PICK q \in Int, r \in 0 .. (m - 1) : q = p \div m /\ r = p % m
    BY <2>2
  <2> QED
    BY <2>1, <2>2, <2>3
<1>2. n <= q * m /\ q * m < n + m
  BY <1>1
<1>3. q >= 0
  <2>1. SUFFICES ASSUME q <= -1 PROVE FALSE
    BY <1>1
  <2>2. q * m <= -m
    <3>1. PICK d \in Nat : q = -1 - d
      <4>1. -1 - q \in Nat
        BY <1>1, <2>1
      <4> QED
        BY <4>1
    <3>2. q * m = -m - d * m /\ d * m >= 0
      BY <1>1, <3>1
    <3> QED
      BY <3>2
  <2> QED
    BY <1>1, <2>2
<1> QED
  BY <1>1, <1>2, <1>3

(* Rounded up, a share of more than one is less than the whole.            *)
LEMMA CeilLess ==
    ASSUME NEW n \in Nat, NEW m \in Nat \ {0, 1}, n > 1
    PROVE  LET q == (n + m - 1) \div m IN q \in Nat \ {0} /\ q < n
<1>1. PICK q \in Nat : q = (n + m - 1) \div m /\ n <= q * m /\ q * m < n + m
  BY CeilIs
<1>2. q # 0
  BY <1>1
<1>3. q < n
  <2>1. SUFFICES ASSUME q >= n PROVE FALSE
    BY <1>1
  <2>2. PICK d \in Nat, e \in Nat : q = n + d /\ m = 2 + e
    <3>1. q - n \in Nat /\ m - 2 \in Nat
      BY <1>1, <2>1
    <3> QED
      BY <3>1
  <2>3. q * m = 2 * n + n * e + d * m
    BY <2>2
  <2>4. n * e >= e /\ d * m >= 0
    BY <2>2
  <2> QED
    BY <1>1, <2>2, <2>3, <2>4
<1> QED
  BY <1>1, <1>2, <1>3

(* Counting up reaches every number.                                       *)
LEMMA SetInduction ==
    ASSUME NEW S, 0 \in S, \A n \in Nat : n \in S => n + 1 \in S
    PROVE  Nat \subseteq S
<1>1. SUFFICES ASSUME Nat \ S # {} PROVE FALSE
  OBVIOUS
<1>2. PICK n : n \in Nat \ S /\ \A y \in Nat \ S : n <= y
  BY <1>1, MinOfNats
<1>3. n # 0 /\ n - 1 \in Nat /\ n - 1 \in S
  BY <1>2
<1> QED
  BY <1>2, <1>3

(* On numbers, that is by recursion to smaller ones.                       *)
Smaller == {xy \in Nat \X Nat : xy[1] < xy[2]}

(* Going down from a number ends.                                          *)
LEMMA NatDescends ==
    ASSUME NEW S, S \subseteq Nat
    PROVE  Descends(S, Smaller)
<1>1. ASSUME NEW x \in S, NEW y \in S, NEW z \in S, <<x, y>> \in Smaller, <<y, z>> \in Smaller
      PROVE  <<x, z>> \in Smaller
  <2>1. x < y /\ y < z
    BY <1>1 DEF Smaller
  <2>2. x < z
    BY <2>1
  <2> QED
    BY <2>2 DEF Smaller
<1>2. ASSUME NEW U \in SUBSET S, U # {}
      PROVE  \E x \in U : \A y \in U : <<y, x>> \notin Smaller
  <2>1. PICK x \in U : \A y \in U : x <= y
    BY <1>2, MinOfNats
  <2>2. ASSUME NEW y \in U
        PROVE  <<y, x>> \notin Smaller
    <3>1. ~ (y < x)
      BY <2>1
    <3> QED
      BY <3>1 DEF Smaller
  <2> QED
    BY <2>2
<1> QED
  BY <1>1, <1>2 DEF Descends

(* The blocks of a tree, added up level by level from one of k blocks.     *)
Ceil(k, m) == (k + m - 1) \div m
Summand(f, k, m) == IF k <= 1 THEN k ELSE k + f[Ceil(k, m)]
Adds(f, m) == f = [k \in Nat |-> Summand(f, k, m)]

(* There is such a sum, as levels get smaller.                             *)
LEMMA AddsExists ==
    ASSUME NEW m \in Nat \ {0, 1}
    PROVE  \E f : Adds(f, m)
<1>1. PICK F : F = Family(Nat, Nat, [k \in Nat |-> Nat])
  OBVIOUS
<1>2. F # {}
  <2>1. PICK f : f = [k \in Nat |-> 0]
    OBVIOUS
  <2>2. f \in F
    BY <1>1, <2>1 DEF Family
  <2> QED
    BY <2>2
<1>3. PICK G : G = [f \in F |-> [k \in Nat |-> Summand(f, k, m)]]
  OBVIOUS
<1>4. ASSUME NEW k \in Nat, k > 1
      PROVE  Ceil(k, m) \in Nat /\ <<Ceil(k, m), k>> \in Smaller
  <2>1. PICK q \in Nat : q = Ceil(k, m) /\ q < k
    BY <1>4, CeilLess DEF Ceil
  <2> QED
    BY <2>1 DEF Smaller
<1>5. ASSUME NEW f \in F
      PROVE  G[f] \in F
  <2>1. ASSUME NEW k \in Nat
        PROVE  Summand(f, k, m) \in Nat
    <3>1. CASE k <= 1
      BY <3>1 DEF Summand
    <3>2. CASE ~(k <= 1)
      <4>0. k > 1
        BY <3>2
      <4>1. PICK q \in Nat : q = Ceil(k, m)
        BY <1>4, <4>0
      <4>2. f \in [Nat -> Nat]
        BY <1>1 DEF Family
      <4>3. f[q] \in Nat
        BY <4>2
      <4> QED
        BY <3>2, <4>1, <4>3 DEF Summand
    <3> QED
      BY <3>1, <3>2
  <2>2. [k \in Nat |-> Summand(f, k, m)] \in [Nat -> Nat]
    BY <2>1
  <2> QED
    BY <1>1, <1>3, <2>2 DEF Family
<1>6. ASSUME NEW f \in F, NEW g \in F, NEW k \in Nat, Same(Nat, Smaller, f, g, k)
      PROVE  G[f][k] = G[g][k]
  <2>1. k > 1 => f[Ceil(k, m)] = g[Ceil(k, m)]
    BY <1>4, <1>6 DEF Same
  <2>2. Summand(f, k, m) = Summand(g, k, m)
    BY <2>1 DEF Summand
  <2> QED
    BY <1>3, <2>2
<1>7. G \in [F -> F]
  BY <1>3, <1>5
<1>8. LooksBelow(Nat, Smaller, F, G)
  BY <1>6, <1>7 DEF LooksBelow
<1>9. PICK f \in F : f = G[f]
  BY <1>1, <1>2, <1>8, NatDescends, Recursion
<1> QED
  BY <1>3, <1>9 DEF Adds

(* And it is a natural number.                                             *)
LEMMA AddsNat ==
    ASSUME NEW m \in Nat \ {0, 1}, NEW f, Adds(f, m), NEW k \in Nat
    PROVE  f[k] \in Nat
<1>1. PICK U : U = {n \in Nat : f[n] \notin Nat}
  OBVIOUS
<1>2. SUFFICES ASSUME U # {} PROVE FALSE
  BY <1>1
<1>3. PICK n \in U : \A y \in U : n <= y
  BY <1>1, <1>2, MinOfNats
<1>4. n \in Nat /\ f[n] = Summand(f, n, m) /\ f[n] \notin Nat
  BY <1>1, <1>3 DEF Adds
<1>5. CASE n <= 1
  BY <1>4, <1>5 DEF Summand
<1>6. CASE ~(n <= 1)
  <2>1. PICK q \in Nat : q = Ceil(n, m) /\ q < n
    BY <1>4, <1>6, CeilLess DEF Ceil
  <2>2. f[q] \in Nat
    BY <1>1, <1>3, <2>1
  <2> QED
    BY <1>4, <1>6, <2>1, <2>2 DEF Summand
<1> QED
  BY <1>5, <1>6

-----------------------------------------------------------------------------
(* The blocks of a map, one by one. *)
LEMMA CoveredMember ==
    ASSUME NEW f, NEW agLen \in Nat, WellFormed(f, agLen), NEW b
    PROVE  b \in Covered(f) <=>
              b \in Int /\ \E s \in DOMAIN f : s <= b /\ b < s + f[s]
<1>1. b \in Covered(f) <=> \E s \in DOMAIN f : b \in Run(s, f[s])
  BY DEF Covered
<1>2. ASSUME NEW s \in DOMAIN f
      PROVE  b \in Run(s, f[s]) <=> b \in Int /\ s <= b /\ b < s + f[s]
  <2>1. s \in Nat /\ f[s] \in Nat
    BY DEF WellFormed
  <2> QED
    BY <2>1 DEF Run
<1> QED
  BY <1>1, <1>2

(* The run is in one extent, and that is the extent `take` finds. *)
LEMMA HolderFound ==
    ASSUME NEW f, NEW agLen \in Nat, WellFormed(f, agLen),
           NEW start \in Nat, NEW len \in Nat \ {0},
           NEW s \in DOMAIN f, s <= start, start + len <= s + f[s]
    PROVE  AtOrBefore(f, start) = s
<1>1. \A t \in DOMAIN f : t \in Nat /\ f[t] \in Nat
  BY DEF WellFormed
<1>2. \A t \in DOMAIN f : t <= start => t <= s
  <2>1. SUFFICES ASSUME NEW t \in DOMAIN f, t <= start, ~ (t <= s)
                 PROVE  FALSE
    OBVIOUS
  <2>2. s + f[s] < t
    BY <2>1, <1>1 DEF WellFormed
  <2> QED
    BY <2>1, <2>2, <1>1
<1>3. \A x \in DOMAIN f :
         (x <= start /\ \A t \in DOMAIN f : t <= start => t <= x) => x = s
  BY <1>1, <1>2
<1> QED
  BY <1>2, <1>3 DEF AtOrBefore

(* The extents of the map `take` leaves. *)
LEMMA TakeExtents ==
    ASSUME NEW f, NEW agLen \in Nat, WellFormed(f, agLen),
           NEW start \in Nat, NEW len \in Nat \ {0},
           NEW s \in DOMAIN f, s <= start, start + len <= s + f[s],
           NEW g, g = Take(f, start, len)
    PROVE  /\ \A x \in DOMAIN g :
                 \/ x \in DOMAIN f /\ x # s /\ g[x] = f[x]
                 \/ x = s /\ s < start /\ g[x] = start - s
                 \/ /\ x = start + len /\ start + len < s + f[s]
                    /\ g[x] = s + f[s] - start - len
           /\ \A x \in DOMAIN f \ {s} : x \in DOMAIN g /\ g[x] = f[x]
           /\ s < start => s \in DOMAIN g /\ g[s] = start - s
           /\ start + len < s + f[s] =>
                 start + len \in DOMAIN g /\ g[start + len] = s + f[s] - start - len
<1> DEFINE rest == Without(f, s)
           left == IF s < start THEN With(rest, s, start - s) ELSE rest
           end  == s + f[s]
<1>1. \A t \in DOMAIN f : t \in Nat /\ f[t] \in Nat
  BY DEF WellFormed
<1>2. g = IF start + len < end THEN With(left, start + len, end - start - len) ELSE left
  BY HolderFound DEF Take
<1>3. start + len < end => start + len \notin DOMAIN f
  BY <1>1 DEF WellFormed
<1>4. start + len # s
  BY <1>1
<1>5. DOMAIN rest = DOMAIN f \ {s} /\ \A x \in DOMAIN f \ {s} : rest[x] = f[x]
  BY DEF Without
<1>6. /\ DOMAIN left = (DOMAIN f \ {s}) \cup (IF s < start THEN {s} ELSE {})
      /\ \A x \in DOMAIN f \ {s} : left[x] = f[x]
      /\ s < start => left[s] = start - s
  <2>1. CASE s < start
    <3>1. left = [x \in DOMAIN rest \cup {s} |-> IF x = s THEN start - s ELSE rest[x]]
      BY <2>1 DEF With
    <3> HIDE DEF rest, left
    <3> QED
      BY <2>1, <3>1, <1>5
  <2>2. CASE ~ (s < start)
    <3>1. left = rest
      BY <2>2
    <3> HIDE DEF rest, left
    <3> QED
      BY <2>2, <3>1, <1>5
  <2> QED
    BY <2>1, <2>2
<1>7. CASE start + len < end
  <2>1. g = [x \in DOMAIN left \cup {start + len} |->
               IF x = start + len THEN end - start - len ELSE left[x]]
    BY <1>2, <1>7 DEF With
  <2>2. s \in Int /\ start + len \in Int
    BY <1>1
  <2> HIDE DEF left
  <2>3. DOMAIN g = DOMAIN left \cup {start + len}
    BY <2>1
  <2>4. g[start + len] = end - start - len
    BY <2>1
  <2>5. \A x \in DOMAIN left : x # start + len => g[x] = left[x]
    BY <2>1
  <2>6. \A x \in DOMAIN f \ {s} : x \in DOMAIN g /\ g[x] = f[x]
    BY <1>3, <1>6, <1>7, <2>3, <2>5
  <2>7. s < start => s \in DOMAIN g /\ g[s] = start - s
    BY <1>4, <1>6, <2>3, <2>5
  <2>9. end = s + f[s] /\ start + len < s + f[s] /\ g[start + len] = s + f[s] - start - len
    BY <1>1, <1>7, <2>4
  <2> HIDE DEF end
  <2>8. ASSUME NEW x \in DOMAIN g
        PROVE  \/ x \in DOMAIN f /\ x # s /\ g[x] = f[x]
               \/ x = s /\ s < start /\ g[x] = start - s
               \/ x = start + len
    BY <1>6, <2>3, <2>6, <2>7
  <2> QED
    BY <2>3, <2>6, <2>7, <2>8, <2>9
<1>8. CASE ~ (start + len < end)
  <2>1. g = left
    BY <1>2, <1>8
  <2> HIDE DEF left
  <2> QED
    BY <1>6, <1>8, <2>1
<1> QED
  BY <1>7, <1>8

(* `take` takes the run out and nothing else, and leaves a map the kernel  *)
(* would keep.                                                             *)
THEOREM TakeTakes ==
    ASSUME NEW f, NEW agLen \in Nat, WellFormed(f, agLen),
           NEW start \in Nat, NEW len \in Nat \ {0}, Takeable(f, start, len)
    PROVE  /\ WellFormed(Take(f, start, len), agLen)
           /\ Run(start, len) \subseteq Covered(f)
           /\ Covered(Take(f, start, len)) = Covered(f) \ Run(start, len)
<1>1. PICK s \in DOMAIN f : s <= start /\ start + len <= s + f[s]
  BY DEF Takeable
<1>2. PICK g : g = Take(f, start, len)
  OBVIOUS
<1>3. /\ \A x \in DOMAIN g :
            \/ x \in DOMAIN f /\ x # s /\ g[x] = f[x]
            \/ x = s /\ s < start /\ g[x] = start - s
            \/ /\ x = start + len /\ start + len < s + f[s]
               /\ g[x] = s + f[s] - start - len
      /\ \A x \in DOMAIN f \ {s} : x \in DOMAIN g /\ g[x] = f[x]
      /\ s < start => s \in DOMAIN g /\ g[s] = start - s
      /\ start + len < s + f[s] =>
            start + len \in DOMAIN g /\ g[start + len] = s + f[s] - start - len
  BY <1>1, <1>2, TakeExtents
<1>4. \A t \in DOMAIN f : t \in Nat /\ f[t] \in Nat \ {0} /\ t + f[t] <= agLen
  BY DEF WellFormed
<1>5. \A x, y \in DOMAIN f : x < y => x + f[x] < y
  BY DEF WellFormed
<1>6. \A x \in DOMAIN g : x \in Nat /\ g[x] \in Nat \ {0} /\ x + g[x] <= agLen
  BY <1>1, <1>3, <1>4
<1>7. ASSUME NEW x \in DOMAIN g, NEW y \in DOMAIN g, x < y
      PROVE  x + g[x] < y
  BY <1>1, <1>3, <1>4, <1>5, <1>7
<1>8. WellFormed(g, agLen)
  BY <1>6, <1>7 DEF WellFormed
<1>9. Run(start, len) \subseteq Covered(f)
  <2>1. SUFFICES ASSUME NEW b \in Run(start, len)
                 PROVE  b \in Covered(f)
    OBVIOUS
  <2>2. b \in Int /\ s <= b /\ b < s + f[s]
    BY <1>1, <1>4 DEF Run
  <2> QED
    BY <2>2, CoveredMember
<1>10. ASSUME NEW b
       PROVE  b \in Covered(g) <=> b \in Covered(f) /\ b \notin Run(start, len)
  <2>1. b \in Covered(g) <=> b \in Int /\ \E x \in DOMAIN g : x <= b /\ b < x + g[x]
    BY <1>8, CoveredMember
  <2>2. b \in Covered(f) <=> b \in Int /\ \E x \in DOMAIN f : x <= b /\ b < x + f[x]
    BY CoveredMember
  <2>3. b \in Run(start, len) <=> b \in Int /\ start <= b /\ b < start + len
    BY DEF Run
  <2>4. ASSUME b \in Int, NEW x \in DOMAIN g, x <= b, b < x + g[x]
        PROVE  ~ (start <= b /\ b < start + len)
               /\ \E y \in DOMAIN f : y <= b /\ b < y + f[y]
    BY <1>1, <1>3, <1>4, <1>5, <2>4
  <2>5. ASSUME b \in Int, NEW x \in DOMAIN f, x <= b, b < x + f[x],
               ~ (start <= b /\ b < start + len)
        PROVE  \E y \in DOMAIN g : y <= b /\ b < y + g[y]
    <3>1. CASE x # s
      BY <1>3, <2>5, <3>1
    <3>2. CASE x = s /\ b < start
      <4>1. s < start
        BY <1>1, <1>4, <2>5, <3>2
      <4> QED
        BY <1>1, <1>3, <1>4, <2>5, <3>2, <4>1
    <3>3. CASE x = s /\ start + len <= b
      <4>1. start + len < s + f[s]
        BY <1>1, <1>4, <2>5, <3>3
      <4> QED
        BY <1>1, <1>3, <1>4, <2>5, <3>3, <4>1
    <3> QED
      BY <2>5, <3>1, <3>2, <3>3
  <2> QED
    BY <2>1, <2>2, <2>3, <2>4, <2>5
<1> QED
  BY <1>2, <1>8, <1>9, <1>10

-----------------------------------------------------------------------------
(* A map without one of its extents. *)
LEMMA WithoutWellFormed ==
    ASSUME NEW f, NEW agLen \in Nat, WellFormed(f, agLen), NEW s
    PROVE  /\ WellFormed(Without(f, s), agLen)
           /\ Covered(Without(f, s)) \subseteq Covered(f)
<1>1. PICK g : g = Without(f, s)
  OBVIOUS
<1>2. DOMAIN g = DOMAIN f \ {s} /\ \A x \in DOMAIN g : g[x] = f[x]
  BY <1>1 DEF Without
<1>3. WellFormed(g, agLen)
  BY <1>2 DEF WellFormed
<1>4. Covered(g) \subseteq Covered(f)
  BY <1>2 DEF Covered
<1> QED
  BY <1>1, <1>3, <1>4

(* g is f with the extent s1..e1-1 in place of those it swallows: the      *)
(* blocks of R and of the extents in drop.  It touches no other.           *)
Swallows(f, g, drop, R, s1, e1) ==
    /\ drop \in SUBSET DOMAIN f
    /\ R \in SUBSET Int
    /\ s1 \in Nat /\ e1 \in Nat /\ s1 < e1
    /\ DOMAIN g = (DOMAIN f \ drop) \cup {s1}
    /\ g[s1] = e1 - s1
    /\ \A x \in DOMAIN f \ drop : g[x] = f[x] /\ (x + f[x] < s1 \/ e1 < x)
    /\ \A b \in Int : s1 <= b /\ b < e1 <=>
                        b \in R \/ \E x \in drop : x <= b /\ b < x + f[x]

(* Such a map is well formed, and covers what f does and R. *)
LEMMA Joined ==
    ASSUME NEW f, NEW agLen \in Nat, WellFormed(f, agLen),
           NEW g, NEW drop, NEW R, NEW s1, NEW e1,
           Swallows(f, g, drop, R, s1, e1), e1 <= agLen
    PROVE  /\ WellFormed(g, agLen)
           /\ Covered(g) = Covered(f) \cup R
<1> USE DEF Swallows
<1>1. \A x \in DOMAIN f : x \in Nat /\ f[x] \in Nat \ {0} /\ x + f[x] <= agLen
  BY DEF WellFormed
<1>2. \A x, y \in DOMAIN f : x < y => x + f[x] < y
  BY DEF WellFormed
<1>3. \A x \in DOMAIN g : x \in Nat /\ g[x] \in Nat \ {0} /\ x + g[x] <= agLen
  BY <1>1
<1>4. ASSUME NEW x \in DOMAIN g, NEW y \in DOMAIN g, x < y
      PROVE  x + g[x] < y
  <2>1. CASE x = s1
    BY <1>1, <1>4, <2>1
  <2>2. CASE y = s1
    BY <1>1, <1>4, <2>2
  <2>3. CASE x # s1 /\ y # s1
    BY <1>2, <1>4, <2>3
  <2> QED
    BY <2>1, <2>2, <2>3
<1>5. WellFormed(g, agLen)
  BY <1>3, <1>4 DEF WellFormed
<1>6. ASSUME NEW b
      PROVE  b \in Covered(g) <=> b \in Covered(f) \/ b \in R
  <2>1. b \in Covered(g) <=> b \in Int /\ \E x \in DOMAIN g : x <= b /\ b < x + g[x]
    BY <1>5, CoveredMember
  <2>2. b \in Covered(f) <=> b \in Int /\ \E x \in DOMAIN f : x <= b /\ b < x + f[x]
    BY CoveredMember
  <2>3. CASE b \in Int
    <3>1. ASSUME NEW x \in DOMAIN g, x <= b, b < x + g[x]
          PROVE  b \in R \/ \E y \in DOMAIN f : y <= b /\ b < y + f[y]
      <4>1. CASE x = s1
        BY <2>3, <3>1, <4>1
      <4>2. CASE x # s1
        BY <3>1, <4>2
      <4> QED
        BY <4>1, <4>2
    <3>2. ASSUME NEW y \in DOMAIN f, y <= b, b < y + f[y]
          PROVE  \E x \in DOMAIN g : x <= b /\ b < x + g[x]
      <4>1. CASE y \in drop
        <5>1. s1 <= b /\ b < e1
          BY <2>3, <3>2, <4>1
        <5> QED
          BY <2>3, <5>1
      <4>2. CASE y \notin drop
        BY <3>2, <4>2
      <4> QED
        BY <4>1, <4>2
    <3>3. ASSUME b \in R
          PROVE  \E x \in DOMAIN g : x <= b /\ b < x + g[x]
      BY <2>3, <3>3
    <3> QED
      BY <2>1, <2>2, <2>3, <3>1, <3>2, <3>3
  <2> QED
    BY <2>1, <2>2, <2>3
<1> QED
  BY <1>5, <1>6

(* `free_extent` accepts a run exactly when it is a run of the group with  *)
(* no free block in it; it then adds that run and nothing else.  The map   *)
(* stays one the kernel would keep, even when the run is refused.          *)
THEOREM FreeFrees ==
    ASSUME NEW f, NEW agLen \in Nat, WellFormed(f, agLen),
           NEW start \in Nat, NEW len \in Nat,
           NEW r, r = FreeExtent(f, start, len, agLen)
    PROVE  /\ WellFormed(r.free, agLen)
           /\ r.ok \in BOOLEAN
           /\ r.ok <=> len # 0 /\ start + len <= agLen /\ Run(start, len) \cap Covered(f) = {}
           /\ r.ok => Covered(r.free) = Covered(f) \cup Run(start, len)
           /\ ~ r.ok => Covered(r.free) \subseteq Covered(f)
<1> DEFINE end     == start + len
           before  == {s \in DOMAIN f : s < start}
           ps      == Max(before)
           overlap == before # {} /\ ps + f[ps] > start
           joinsP  == before # {} /\ ps + f[ps] = start
           f1      == IF joinsP THEN Without(f, ps) ELSE f
           s1      == IF joinsP THEN ps ELSE start
           n1      == IF joinsP THEN len + f[ps] ELSE len
           after   == {s \in DOMAIN f : s >= start}
           ns      == Min(after)
           joinsN  == after # {} /\ ns = end
           refused == len = 0 \/ end > agLen \/ overlap
           late    == after # {} /\ ns < end
           drop    == (IF joinsP THEN {ps} ELSE {}) \cup (IF joinsN THEN {ns} ELSE {})
           e1      == IF joinsN THEN ns + f[ns] ELSE end
<1>1. r = IF refused THEN [ok |-> FALSE, free |-> f]
          ELSE IF late THEN [ok |-> FALSE, free |-> f1]
          ELSE IF joinsN THEN [ok |-> TRUE, free |-> With(Without(f1, ns), s1, n1 + f[ns])]
          ELSE [ok |-> TRUE, free |-> With(f1, s1, n1)]
  BY DEF FreeExtent
<1>2. \A x \in DOMAIN f : x \in Nat /\ f[x] \in Nat \ {0} /\ x + f[x] <= agLen
  BY DEF WellFormed
<1>3. \A x, y \in DOMAIN f : x < y => x + f[x] < y
  BY DEF WellFormed
<1>4. before # {} => ps \in before /\ \A y \in before : y <= ps
  <2>1. before \subseteq Nat /\ \A x \in before : x <= start
    BY <1>2
  <2> QED
    BY <2>1, MaxOfNats
<1>5. after # {} => ns \in after /\ \A y \in after : ns <= y
  <2>1. after \subseteq Nat
    BY <1>2
  <2> QED
    BY <2>1, MinOfNats
<1>6. \A b : b \in Run(start, len) <=> b \in Int /\ start <= b /\ b < end
  BY DEF Run
<1>7. \A b : b \in Covered(f) <=> b \in Int /\ \E s \in DOMAIN f : s <= b /\ b < s + f[s]
  BY CoveredMember
<1> HIDE DEF ps, ns, f1
<1>8. CASE refused
  <2>1. r.ok = FALSE /\ r.free = f
    BY <1>1, <1>8
  <2>2. ASSUME len # 0, overlap
        PROVE  start \in Run(start, len) \cap Covered(f)
    BY <1>2, <1>4, <1>6, <1>7, <2>2
  <2>3. ~ (len # 0 /\ start + len <= agLen /\ Run(start, len) \cap Covered(f) = {})
    BY <1>8, <2>2
  <2> QED
    BY <2>1, <2>3
<1>9. CASE ~ refused /\ late
  <2>1. r.ok = FALSE /\ r.free = f1
    BY <1>1, <1>9
  <2>2. ns \in Run(start, len) \cap Covered(f)
    BY <1>2, <1>5, <1>6, <1>7, <1>9
  <2>3. WellFormed(f1, agLen) /\ Covered(f1) \subseteq Covered(f)
    BY WithoutWellFormed DEF f1
  <2> QED
    BY <2>1, <2>2, <2>3
<1>10. CASE ~ refused /\ ~ late
  <2>1. r.ok = TRUE
    BY <1>1, <1>10
  <2>2. PICK g : g = r.free
    OBVIOUS
  <2>3. s1 \in Nat /\ e1 \in Nat /\ s1 <= start /\ end <= e1 /\ s1 < e1 /\ e1 <= agLen
    BY <1>2, <1>4, <1>5, <1>10
  <2>4. drop \in SUBSET DOMAIN f
    BY <1>4, <1>5
  <2>5. /\ DOMAIN f1 = DOMAIN f \ (IF joinsP THEN {ps} ELSE {})
        /\ \A x \in DOMAIN f1 : f1[x] = f[x]
    BY DEF f1, Without
  <2>6. /\ DOMAIN g = (DOMAIN f \ drop) \cup {s1}
        /\ g[s1] = e1 - s1
        /\ \A x \in DOMAIN f \ drop : x # s1 => g[x] = f[x]
    <3>1. CASE joinsN
      <4>1. g = With(Without(f1, ns), s1, n1 + f[ns])
        BY <1>1, <1>10, <2>2, <3>1
      <4>2. n1 + f[ns] = e1 - s1
        BY <1>2, <1>4, <1>5, <3>1
      <4>3. /\ DOMAIN g = (DOMAIN f1 \ {ns}) \cup {s1}
            /\ g[s1] = n1 + f[ns]
            /\ \A x \in DOMAIN f1 \ {ns} : x # s1 => g[x] = f1[x]
        BY <4>1 DEF With, Without
      <4> QED
        BY <2>5, <3>1, <4>2, <4>3
    <3>2. CASE ~ joinsN
      <4>1. g = With(f1, s1, n1)
        BY <1>1, <1>10, <2>2, <3>2
      <4>2. n1 = e1 - s1
        BY <1>2, <1>4, <3>2
      <4>3. /\ DOMAIN g = DOMAIN f1 \cup {s1}
            /\ g[s1] = n1
            /\ \A x \in DOMAIN f1 : x # s1 => g[x] = f1[x]
        BY <4>1 DEF With
      <4> QED
        BY <2>5, <3>2, <4>2, <4>3
    <3> QED
      BY <3>1, <3>2
  <2>7. ASSUME NEW x \in DOMAIN f \ drop
        PROVE  x # s1 /\ (x + f[x] < s1 \/ e1 < x)
    <3>1. CASE x < start
      <4>1. x \in before /\ ps \in DOMAIN f /\ ps < start /\ x <= ps
        BY <1>4, <3>1
      <4>2. CASE x = ps
        BY <1>2, <1>10, <2>7, <4>1, <4>2
      <4>3. CASE x < ps
        <5>1. x + f[x] < ps
          BY <1>3, <4>1, <4>3
        <5> QED
          BY <1>2, <4>1, <5>1
      <4> QED
        BY <1>2, <4>1, <4>2, <4>3
    <3>2. CASE ~ (x < start)
      <4>1. x \in after /\ ns \in DOMAIN f /\ ns <= x /\ end <= ns
        BY <1>2, <1>5, <1>10, <3>2
      <4>2. CASE x = ns
        BY <1>2, <1>10, <2>3, <2>7, <4>1, <4>2
      <4>3. CASE ns < x
        <5>1. ns + f[ns] < x
          BY <1>3, <4>1, <4>3
        <5> QED
          BY <1>2, <2>3, <4>1, <5>1
      <4> QED
        BY <1>2, <4>1, <4>2, <4>3
    <3> QED
      BY <3>1, <3>2
  <2>8. ASSUME NEW b \in Int
        PROVE  s1 <= b /\ b < e1 <=>
                  b \in Run(start, len) \/ \E x \in drop : x <= b /\ b < x + f[x]
    BY <1>2, <1>4, <1>5, <1>6, <1>10
  <2>9. Run(start, len) \in SUBSET Int
    BY DEF Run
  <2>10. \A x \in DOMAIN f \ drop : g[x] = f[x] /\ (x + f[x] < s1 \/ e1 < x)
    BY <2>6, <2>7
  <2>11. WellFormed(g, agLen) /\ Covered(g) = Covered(f) \cup Run(start, len)
    <3>1. \A b \in Int : s1 <= b /\ b < e1 <=>
             b \in Run(start, len) \/ \E x \in drop : x <= b /\ b < x + f[x]
      BY <2>8
    <3> HIDE DEF s1, e1, drop
    <3>2. Swallows(f, g, drop, Run(start, len), s1, e1)
      BY <2>3, <2>4, <2>6, <2>9, <2>10, <3>1 DEF Swallows
    <3> QED
      BY <2>3, <3>2, Joined
  <2>12. Run(start, len) \cap Covered(f) = {}
    <3>1. SUFFICES ASSUME NEW b \in Int, start <= b, b < end,
                          NEW x \in DOMAIN f, x <= b, b < x + f[x]
                   PROVE  FALSE
      BY <1>6, <1>7
    <3>2. CASE x < start
      <4>1. x \in before /\ ps \in DOMAIN f /\ ps < start /\ x <= ps
        BY <1>4, <3>2
      <4> QED
        BY <1>2, <1>3, <1>10, <3>1, <3>2, <4>1
    <3>3. CASE ~ (x < start)
      <4>1. x \in after /\ ns \in DOMAIN f /\ ns <= x /\ end <= ns
        BY <1>2, <1>5, <1>10, <3>3
      <4> QED
        BY <1>2, <3>1, <4>1
    <3> QED
      BY <3>2, <3>3
  <2>13. len # 0 /\ start + len <= agLen
    BY <1>10
  <2> QED
    BY <2>1, <2>2, <2>11, <2>12, <2>13
<1> QED
  BY <1>8, <1>9, <1>10

-----------------------------------------------------------------------------
(* The runs the allocators choose are in one extent: `take` never asserts. *)

(* A map that is not empty has a longest extent, and `carve` finds one. *)
LEMMA LongestExists ==
    ASSUME NEW f, NEW agLen \in Nat, WellFormed(f, agLen), DOMAIN f # {}
    PROVE  /\ {x \in DOMAIN f : \A t \in DOMAIN f : f[t] <= f[x]} # {}
           /\ Longest(f) \in DOMAIN f
<1> DEFINE lens == {f[x] : x \in DOMAIN f}
           best == {x \in DOMAIN f : \A t \in DOMAIN f : f[t] <= f[x]}
<1>1. \A x \in DOMAIN f : x \in Nat /\ f[x] \in Nat \ {0} /\ x + f[x] <= agLen
  BY DEF WellFormed
<1>2. lens \subseteq Nat /\ lens # {} /\ \A n \in lens : n <= agLen
  BY <1>1
<1>3. Max(lens) \in lens /\ \A n \in lens : n <= Max(lens)
  BY <1>2, MaxOfNats
<1>4. PICK m \in DOMAIN f : f[m] = Max(lens)
  BY <1>3
<1>5. m \in best
  BY <1>3, <1>4
<1>6. best \subseteq Nat /\ \A x \in best : x <= agLen
  BY <1>1
<1>7. Max(best) \in best /\ \A y \in best : y <= Max(best)
  BY <1>5, <1>6, MaxOfNats
<1>8. \A t \in DOMAIN f : f[t] < f[Max(best)] \/ (f[t] = f[Max(best)] /\ t <= Max(best))
  <2>1. SUFFICES ASSUME NEW t \in DOMAIN f, ~ (f[t] < f[Max(best)])
                 PROVE  f[t] = f[Max(best)] /\ t <= Max(best)
    OBVIOUS
  <2>2. f[t] = f[Max(best)]
    BY <1>1, <1>7, <2>1
  <2>3. t \in best
    BY <1>7, <2>2
  <2> QED
    BY <1>7, <2>2, <2>3
<1>9. \E s \in DOMAIN f : \A t \in DOMAIN f : f[t] < f[s] \/ (f[t] = f[s] /\ t <= s)
  BY <1>7, <1>8
<1> QED
  BY <1>5, <1>9 DEF Longest

(* `alloc`: at most `want` blocks, at least one. *)
LEMMA PickTakeable ==
    ASSUME NEW f, NEW agLen \in Nat, WellFormed(f, agLen), DOMAIN f # {},
           NEW want \in Nat \ {0}, NEW near \in Nat,
           NEW run, run = Pick(f, want, near)
    PROVE  /\ run[1] \in DOMAIN f /\ run[1] \in Nat
           /\ run[2] \in 1 .. want
           /\ Takeable(f, run[1], run[2])
           /\ run = <<run[1], run[2]>>
<1> DEFINE fits  == {s \in DOMAIN f : f[s] >= want}
           after == {s \in fits : s >= near}
           best  == {x \in DOMAIN f : \A t \in DOMAIN f : f[t] <= f[x]}
<1>1. \A x \in DOMAIN f : x \in Nat /\ f[x] \in Nat \ {0} /\ x + f[x] <= agLen
  BY DEF WellFormed
<1>2. CASE after # {}
  <2>1. Min(after) \in after
    BY <1>1, <1>2, MinOfNats
  <2>2. run = <<Min(after), want>>
    BY <1>2 DEF Pick
  <2> QED
    BY <1>1, <2>1, <2>2 DEF Takeable
<1>3. CASE after = {} /\ fits # {}
  <2>1. Min(fits) \in fits
    BY <1>1, <1>3, MinOfNats
  <2>2. run = <<Min(fits), want>>
    BY <1>3 DEF Pick
  <2> QED
    BY <1>1, <2>1, <2>2 DEF Takeable
<1>4. CASE fits = {}
  <2>1. best \subseteq Nat /\ best # {} /\ \A x \in best : x <= agLen
    BY <1>1, LongestExists
  <2>2. Max(best) \in best
    BY <2>1, MaxOfNats
  <2>3. run = <<Max(best), f[Max(best)]>>
    BY <1>4 DEF Pick
  <2>4. f[Max(best)] < want
    BY <1>1, <1>4, <2>2
  <2> HIDE DEF best
  <2>5. Max(best) \in DOMAIN f
    BY <2>2 DEF best
  <2> QED
    BY <1>1, <2>3, <2>4, <2>5 DEF Takeable
<1> QED
  BY <1>2, <1>3, <1>4

(* `alloc_block_except`. *)
LEMMA NotBlockTakeable ==
    ASSUME NEW f, NEW agLen \in Nat, WellFormed(f, agLen), NEW not, NotBlock(f, not) # {}
    PROVE  LET b == Min(NotBlock(f, not)) IN b \in Nat /\ Takeable(f, b, 1)
<1>1. \A x \in DOMAIN f : x \in Nat /\ f[x] \in Nat \ {0}
  BY DEF WellFormed
<1>2. NotBlock(f, not) \subseteq Nat
  BY <1>1 DEF NotBlock
<1>3. Min(NotBlock(f, not)) \in NotBlock(f, not)
  BY <1>2, MinOfNats
<1>4. \A b \in NotBlock(f, not) : Takeable(f, b, 1)
  BY <1>1 DEF NotBlock, Takeable
<1> QED
  BY <1>2, <1>3, <1>4

(* `alloc_aligned`. *)
LEMMA AlignedTakeable ==
    ASSUME NEW f, NEW agLen \in Nat, WellFormed(f, agLen),
           NEW len \in Nat \ {0}, NEW align \in Nat \ {0}, Aligned(f, len, align) # {}
    PROVE  LET b == Min(Aligned(f, len, align)) IN b \in Nat /\ Takeable(f, b, len)
<1> DEFINE up(s) == ((s + align - 1) \div align) * align
<1>1. \A x \in DOMAIN f : x \in Nat /\ f[x] \in Nat \ {0}
  BY DEF WellFormed
<1>2. ASSUME NEW s \in Nat
      PROVE  up(s) \in Nat /\ s <= up(s)
  <2>1. PICK n \in Nat : n = s + align - 1
    OBVIOUS
  <2>2. n \div align \in Nat /\ n < (n \div align) * align + align
    OBVIOUS
  <2> QED
    BY <2>1, <2>2
<1> HIDE DEF up
<1>3. Aligned(f, len, align) = {up(s) : s \in {x \in DOMAIN f : up(x) + len <= x + f[x]}}
  BY DEF Aligned, up
<1>4. Aligned(f, len, align) \subseteq Nat
  BY <1>1, <1>2, <1>3
<1>5. Min(Aligned(f, len, align)) \in Aligned(f, len, align)
  BY <1>4, MinOfNats
<1>6. \A b \in Aligned(f, len, align) : Takeable(f, b, len)
  BY <1>1, <1>2, <1>3 DEF Takeable
<1> QED
  BY <1>4, <1>5, <1>6

-----------------------------------------------------------------------------
(* How many blocks a map covers.                                           *)

(* A run has as many blocks as it is long.                                 *)
LEMMA RunSize ==
    ASSUME NEW start \in Nat, NEW len \in Nat
    PROVE  IsFiniteSet(Run(start, len)) /\ Cardinality(Run(start, len)) = len
<1>1. start \in Int /\ start + len - 1 \in Int
  OBVIOUS
<1>2. CASE len = 0
  <2>1. Run(start, len) = {}
    BY <1>2 DEF Run
  <2> QED
    BY <1>2, <2>1, FS_EmptySet
<1>3. CASE len # 0
  BY <1>1, <1>3, FS_Interval DEF Run
<1> QED
  BY <1>2, <1>3

(* A map of a group covers finitely many blocks.                           *)
LEMMA CoveredFinite ==
    ASSUME NEW f, NEW agLen \in Nat, WellFormed(f, agLen)
    PROVE  /\ Covered(f) \subseteq 0 .. (agLen - 1)
           /\ IsFiniteSet(Covered(f)) /\ Cardinality(Covered(f)) \in Nat
           /\ IsFiniteSet(DOMAIN f) /\ Cardinality(DOMAIN f) \in Nat
<1>1. \A x \in DOMAIN f : x \in Nat /\ f[x] \in Nat \ {0} /\ x + f[x] <= agLen
  BY DEF WellFormed
<1>2. Covered(f) \subseteq 0 .. (agLen - 1)
  <2>1. SUFFICES ASSUME NEW b \in Covered(f)
                 PROVE  b \in 0 .. (agLen - 1)
    OBVIOUS
  <2>2. b \in Int /\ \E s \in DOMAIN f : s <= b /\ b < s + f[s]
    BY CoveredMember
  <2> QED
    BY <1>1, <2>2
<1>3. DOMAIN f \subseteq 0 .. (agLen - 1)
  BY <1>1
<1>4. IsFiniteSet(0 .. (agLen - 1))
  BY FS_Interval
<1> QED
  BY <1>2, <1>3, <1>4, FS_Subset, FS_CardinalityType

(* `take` leaves as many free blocks fewer as the run is long, which is    *)
(* what it subtracts from `free_total`.                                    *)
THEOREM TakeCounts ==
    ASSUME NEW f, NEW agLen \in Nat, WellFormed(f, agLen),
           NEW start \in Nat, NEW len \in Nat \ {0}, Takeable(f, start, len)
    PROVE  Cardinality(Covered(Take(f, start, len))) = Cardinality(Covered(f)) - len
<1>1. IsFiniteSet(Covered(f)) /\ IsFiniteSet(Run(start, len)) /\ Cardinality(Run(start, len)) = len
  BY CoveredFinite, RunSize
<1>2. /\ Run(start, len) \subseteq Covered(f)
      /\ Covered(Take(f, start, len)) = Covered(f) \ Run(start, len)
  BY TakeTakes
<1>3. Covered(f) \cap Run(start, len) = Run(start, len)
  BY <1>2
<1> QED
  BY <1>1, <1>2, <1>3, FS_Difference

(* A run that `free_extent` accepts makes as many free blocks more as it   *)
(* is long, which is what it adds to `free_total`.                         *)
THEOREM FreeCounts ==
    ASSUME NEW f, NEW agLen \in Nat, WellFormed(f, agLen),
           NEW start \in Nat, NEW len \in Nat, FreeExtent(f, start, len, agLen).ok
    PROVE  Cardinality(Covered(FreeExtent(f, start, len, agLen).free)) = Cardinality(Covered(f)) + len
<1>1. PICK r : r = FreeExtent(f, start, len, agLen)
  OBVIOUS
<1>2. Run(start, len) \cap Covered(f) = {} /\ Covered(r.free) = Covered(f) \cup Run(start, len)
  BY <1>1, FreeFrees
<1>3. /\ IsFiniteSet(Covered(f)) /\ IsFiniteSet(Run(start, len))
      /\ Cardinality(Run(start, len)) = len /\ Cardinality(Covered(f)) \in Nat
  BY CoveredFinite, RunSize
<1>4. Covered(f) \cap Run(start, len) = {}
  BY <1>2
<1>5. Cardinality({}) = 0
  BY FS_EmptySet
<1>6. Cardinality(Covered(f) \cup Run(start, len))
        = Cardinality(Covered(f)) + Cardinality(Run(start, len))
            - Cardinality(Covered(f) \cap Run(start, len))
  BY <1>3, FS_Union
<1>7. Cardinality(Covered(f) \cap Run(start, len)) = 0
  BY <1>4, <1>5, Zenon
<1>8. Cardinality(Covered(r.free)) = Cardinality(Covered(f) \cup Run(start, len))
  BY <1>2, Zenon
<1> QED
  BY <1>1, <1>3, <1>6, <1>7, <1>8
=============================================================================

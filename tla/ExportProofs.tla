---------------------------- MODULE ExportProofs -----------------------------
(***************************************************************************)
(* The walk gives every path of a tree once and in order, and the copy     *)
(* what was found: for trees of any size and depth, damaged ones included. *)
(***************************************************************************)
EXTENDS Export, ExtentsProofs, SequenceTheorems

-----------------------------------------------------------------------------
(* Where a path leads, told by the inodes on the way.                      *)

(* A tree as ExportAssumption has it.                                      *)
IsTree(t) ==
    /\ DOMAIN t.names = {i \in Inodes : t.kind[i] = "dir"} /\ t.top \in Inodes
    /\ \A d \in DOMAIN t.names :
          /\ DOMAIN t.names[d] \subseteq Nat /\ IsFiniteSet(DOMAIN t.names[d])
          /\ \A n \in DOMAIN t.names[d] : t.names[d][n] \in Inodes

(* `s` are the inodes on the way along `p`.                                *)
Goes(t, s, p, k) ==
    s[k - 1] \in DOMAIN t.names /\ p[k] \in DOMAIN t.names[s[k - 1]] /\ s[k] = t.names[s[k - 1]][p[k]]
Trail(t, s, p) ==
    s \in [0..Len(p) -> Inodes] /\ s[0] = t.top /\ \A k \in 1..Len(p) : Goes(t, s, p, k)
Lands(t, p) == {i \in Inodes : \E s : Trail(t, s, p) /\ s[Len(p)] = i}
Below(t, D, n) == {t.names[d][n] : d \in {x \in D : x \in DOMAIN t.names /\ n \in DOMAIN t.names[x]}}

(* The empty path leads to the top.                                        *)
LEMMA LandsTop ==
    ASSUME NEW t, IsTree(t)
    PROVE  Lands(t, <<>>) = {t.top}
<1>1. Len(<<>>) = 0
  OBVIOUS
<1>2. PICK s : s = [k \in 0..0 |-> t.top]
  OBVIOUS
<1>3. Trail(t, s, <<>>) /\ s[0] = t.top
  BY <1>1, <1>2 DEF Trail, IsTree
<1>4. \A u : Trail(t, u, <<>>) => u[0] = t.top
  BY DEF Trail
<1> QED
  BY <1>1, <1>3, <1>4 DEF Lands, IsTree

(* A path that another goes on from.                                       *)
Starts(q, p) == Len(q) <= Len(p) /\ \A k \in 1..Len(q) : q[k] = p[k]

(* Some trail of it gets to `i`.                                           *)
Gets(t, p, i) == \E u : Trail(t, u, p) /\ u[Len(p)] = i

(* A trail of a path and one of what the path continues.                   *)
LEMMA TrailPrefix ==
    ASSUME NEW t, NEW p \in Seq(Nat), NEW q \in Seq(Nat), Starts(q, p), NEW s, Trail(t, s, p)
    PROVE  Gets(t, q, s[Len(q)]) /\ s[Len(q)] \in Inodes
<1>1. PICK m \in Nat : m = Len(q)
  OBVIOUS
<1>2. PICK n \in Nat : n = Len(p)
  OBVIOUS
<1>3. m <= n /\ \A k \in 1..m : q[k] = p[k]
  BY <1>1, <1>2 DEF Starts
<1>4. s \in [0..n -> Inodes] /\ s[0] = t.top /\ \A k \in 1..n : Goes(t, s, p, k)
  BY <1>2 DEF Trail
<1>5. PICK u : u = [k \in 0..m |-> s[k]]
  OBVIOUS
<1>6. \A k \in 0..m : k \in 0..n /\ u[k] = s[k]
  BY <1>3, <1>5
<1>7. u \in [0..m -> Inodes] /\ u[0] = t.top /\ u[m] = s[m] /\ s[m] \in Inodes
  <2>1. 0 \in 0..m /\ m \in 0..m
    OBVIOUS
  <2>2. \A k \in 0..m : s[k] \in Inodes
    BY <1>4, <1>6
  <2>3. u \in [0..m -> Inodes]
    BY <1>5, <2>2
  <2> QED
    BY <1>4, <1>6, <2>1, <2>2, <2>3
<1>8. ASSUME NEW k \in 1..m
      PROVE  Goes(t, u, q, k)
  <2>1. k \in 1..n /\ k \in 0..m /\ k - 1 \in 0..m
    BY <1>3
  <2> QED
    BY <1>3, <1>4, <1>6, <2>1 DEF Goes
<1>9. Trail(t, u, q)
  BY <1>1, <1>7, <1>8 DEF Trail
<1> QED
  BY <1>1, <1>7, <1>9 DEF Gets

(* ... and the other way.                                                  *)
LEMMA TrailAppend ==
    ASSUME NEW t, IsTree(t), NEW p \in Seq(Nat), NEW n \in Nat, NEW s, Trail(t, s, p),
           s[Len(p)] \in DOMAIN t.names, n \in DOMAIN t.names[s[Len(p)]]
    PROVE  \E u : Trail(t, u, Append(p, n)) /\ u[Len(p) + 1] = t.names[s[Len(p)]][n]
<1>1. PICK q : q = Append(p, n)
  OBVIOUS
<1>2. PICK m \in Nat : m = Len(p)
  OBVIOUS
<1>3. q \in Seq(Nat) /\ Len(q) = m + 1 /\ (\A k \in 1..m : q[k] = p[k]) /\ q[m + 1] = n
  BY <1>1, <1>2
<1>4. PICK i \in Inodes : i = t.names[s[m]][n]
  BY <1>2 DEF IsTree
<1>5. PICK u : u = [k \in 0..(m + 1) |-> IF k = m + 1 THEN i ELSE s[k]]
  OBVIOUS
<1>6. u \in [0..(m + 1) -> Inodes] /\ u[0] = t.top /\ u[m + 1] = i /\ \A k \in 0..m : u[k] = s[k]
  BY <1>2, <1>5 DEF Trail
<1>7. ASSUME NEW k \in 1..(m + 1)
      PROVE  Goes(t, u, q, k)
  <2>1. CASE k \in 1..m
    <3>1. k - 1 \in 0..m /\ k \in 0..m
      BY <2>1
    <3>2. Goes(t, s, p, k)
      BY <1>2, <2>1 DEF Trail
    <3> QED
      BY <1>3, <1>6, <2>1, <3>1, <3>2 DEF Goes
  <2>2. CASE k = m + 1
    <3>1. k - 1 = m
      BY <2>2
    <3>2. m \in 0..m
      OBVIOUS
    <3> QED
      BY <1>2, <1>3, <1>4, <1>6, <2>2, <3>1, <3>2 DEF Goes
  <2> QED
    BY <2>1, <2>2
<1>8. Trail(t, u, q)
  BY <1>3, <1>6, <1>7 DEF Trail
<1> QED
  BY <1>1, <1>2, <1>4, <1>6, <1>8

(* A path with a name more leads to what has that name where it led.       *)
LEMMA LandsAppend ==
    ASSUME NEW t, IsTree(t), NEW p \in Seq(Nat), NEW n \in Nat
    PROVE  Lands(t, Append(p, n)) = Below(t, Lands(t, p), n)
<1>1. PICK q : q = Append(p, n)
  OBVIOUS
<1>2. PICK m \in Nat : m = Len(p)
  OBVIOUS
<1>3. q \in Seq(Nat) /\ Len(q) = m + 1 /\ q[m + 1] = n /\ Starts(p, q)
  BY <1>1, <1>2 DEF Starts
<1>4. ASSUME NEW i \in Lands(t, q)
      PROVE  i \in Below(t, Lands(t, p), n)
  <2>1. PICK s : Trail(t, s, q) /\ s[m + 1] = i
    BY <1>3, <1>4 DEF Lands
  <2>2. m + 1 \in 1..(m + 1) /\ m + 1 - 1 = m
    OBVIOUS
  <2>3. Goes(t, s, q, m + 1)
    BY <1>3, <2>1, <2>2 DEF Trail
  <2>4. s[m] \in DOMAIN t.names /\ n \in DOMAIN t.names[s[m]] /\ i = t.names[s[m]][n]
    BY <1>3, <2>1, <2>2, <2>3 DEF Goes
  <2>5. Gets(t, p, s[m]) /\ s[m] \in Inodes
    BY <1>2, <1>3, <2>1, TrailPrefix
  <2>6. s[m] \in Lands(t, p)
    BY <2>5 DEF Lands, Gets
  <2> QED
    BY <2>4, <2>6 DEF Below
<1>5. ASSUME NEW i \in Below(t, Lands(t, p), n)
      PROVE  i \in Lands(t, q)
  <2>1. PICK d \in Lands(t, p) : d \in DOMAIN t.names /\ n \in DOMAIN t.names[d] /\ i = t.names[d][n]
    BY <1>5 DEF Below
  <2>2. PICK s : Trail(t, s, p) /\ s[m] = d
    BY <1>2, <2>1 DEF Lands
  <2>3. PICK u : Trail(t, u, q) /\ u[m + 1] = i
    BY <1>1, <1>2, <2>1, <2>2, TrailAppend
  <2>4. i \in Inodes
    BY <2>1 DEF IsTree
  <2> QED
    BY <1>3, <2>3, <2>4 DEF Lands
<1> QED
  BY <1>1, <1>4, <1>5

(* A path leads to one inode, or to none.                                  *)
LEMMA LandsOnce ==
    ASSUME NEW t, NEW p \in Seq(Nat), NEW i \in Lands(t, p), NEW j \in Lands(t, p)
    PROVE  i = j
<1>1. PICK m \in Nat : m = Len(p)
  OBVIOUS
<1>2. PICK s : Trail(t, s, p) /\ s[m] = i
  BY <1>1 DEF Lands
<1>3. PICK u : Trail(t, u, p) /\ u[m] = j
  BY <1>1 DEF Lands
<1> DEFINE S == {k \in Nat : k <= m => s[k] = u[k]}
<1>4. 0 \in S
  BY <1>2, <1>3 DEF Trail
<1>5. ASSUME NEW k \in Nat, k \in S
      PROVE  k + 1 \in S
  <2>1. SUFFICES ASSUME k + 1 <= m
                 PROVE  s[k + 1] = u[k + 1]
    OBVIOUS
  <2>2. k + 1 \in 1..m /\ k + 1 - 1 = k
    BY <2>1
  <2>3. s[k] = u[k]
    BY <1>5, <2>1
  <2>4. Goes(t, s, p, k + 1) /\ Goes(t, u, p, k + 1)
    BY <1>1, <1>2, <1>3, <2>2 DEF Trail
  <2> QED
    BY <2>2, <2>3, <2>4 DEF Goes
<1>6. m \in S
  <2> HIDE DEF S
  <2> QED
    BY <1>4, <1>5, SetInduction
<1> QED
  BY <1>2, <1>3, <1>6

(* All of a path but its end leads through directories.                    *)
LEMMA LandsThrough ==
    ASSUME NEW t, NEW p \in Seq(Nat), Lands(t, p) # {}, NEW q \in Seq(Nat), Starts(q, p), Len(q) < Len(p)
    PROVE  \E d \in Lands(t, q) : d \in DOMAIN t.names /\ p[Len(q) + 1] \in DOMAIN t.names[d]
<1>1. PICK s : Trail(t, s, p)
  BY DEF Lands
<1>2. PICK m \in Nat : m = Len(q)
  OBVIOUS
<1>3. m + 1 \in 1..Len(p) /\ m + 1 - 1 = m
  BY <1>2
<1>4. Goes(t, s, p, m + 1)
  BY <1>1, <1>3 DEF Trail
<1>5. s[m] \in DOMAIN t.names /\ p[m + 1] \in DOMAIN t.names[s[m]]
  BY <1>3, <1>4 DEF Goes
<1>6. Gets(t, q, s[m]) /\ s[m] \in Inodes
  BY <1>1, <1>2, TrailPrefix
<1>7. s[m] \in Lands(t, q)
  BY <1>6 DEF Lands, Gets
<1> QED
  BY <1>2, <1>5, <1>7

(* The start of a path.                                                    *)
LEMMA Cut ==
    ASSUME NEW p \in Seq(Nat), NEW m \in 0..Len(p)
    PROVE  \E q \in Seq(Nat) : Len(q) = m /\ Starts(q, p)
<1>1. PICK q : q = [k \in 1..m |-> p[k]]
  OBVIOUS
<1>2. m \in Nat /\ m <= Len(p) /\ Len(p) \in Nat
  OBVIOUS
<1>3. \A k \in 1..m : p[k] \in Nat
  BY <1>2
<1>4. q \in Seq(Nat) /\ Len(q) = m
  BY <1>1, <1>2, <1>3
<1>5. \A k \in 1..m : q[k] = p[k]
  BY <1>1
<1> QED
  BY <1>2, <1>4, <1>5 DEF Starts

(* The names on a path are names of directories.                           *)
LEMMA LandsNames ==
    ASSUME NEW t, NEW p \in Seq(Nat), Lands(t, p) # {}, NEW k \in 1..Len(p)
    PROVE  \E d \in DOMAIN t.names : p[k] \in DOMAIN t.names[d]
<1>1. PICK m \in Nat : m + 1 = k
  OBVIOUS
<1>2. m \in 0..Len(p) /\ m < Len(p)
  BY <1>1
<1>3. PICK q \in Seq(Nat) : Len(q) = m /\ Starts(q, p)
  BY <1>2, Cut
<1> QED
  BY <1>1, <1>2, <1>3, LandsThrough

(* The equation of `Lead`.                                                 *)
Turn(t, f, p) ==
    IF p = <<>> THEN {t.top}
    ELSE {t.names[d][Last(p)] : d \in {x \in f[Front(p)] : t.kind[x] = "dir" /\ Last(p) \in DOMAIN t.names[x]}}
IsLead(t, f) == f = [p \in Seq(Nat) |-> Turn(t, f, p)]

(* A path that is not empty is its front and its last name.                *)
LEMMA FrontLast ==
    ASSUME NEW p \in Seq(Nat), p # <<>>
    PROVE  /\ Front(p) \in Seq(Nat) /\ Last(p) \in Nat /\ Append(Front(p), Last(p)) = p
           /\ Len(Front(p)) = Len(p) - 1 /\ Starts(Front(p), p)
<1>1. PICK q \in Seq(Nat), n \in Nat : p = Append(q, n)
  BY SequenceEmptyOrAppend
<1>2. Len(p) = Len(q) + 1 /\ p[Len(p)] = n /\ \A k \in 1..Len(q) : p[k] = q[k]
  BY <1>1, AppendProperties
<1>3. SubSeq(p, 1, Len(p) - 1) = q
  BY <1>1
<1>4. Last(p) = n /\ Front(p) = q
  BY <1>2, <1>3 DEF Last, Front
<1> QED
  BY <1>1, <1>2, <1>4 DEF Starts

(* What trails say satisfies it, ...                                       *)
LEMMA LandsTurn ==
    ASSUME NEW t, IsTree(t), NEW p \in Seq(Nat), NEW f, p # <<>> => f[Front(p)] = Lands(t, Front(p))
    PROVE  Turn(t, f, p) = Lands(t, p)
<1>1. CASE p = <<>>
  BY <1>1, LandsTop DEF Turn
<1>2. CASE p # <<>>
  <2>1. PICK q \in Seq(Nat), n \in Nat : q = Front(p) /\ n = Last(p) /\ Append(q, n) = p
    BY <1>2, FrontLast
  <2>2. Lands(t, p) = Below(t, Lands(t, q), n)
    BY <2>1, LandsAppend
  <2>3. \A x \in Lands(t, q) : t.kind[x] = "dir" <=> x \in DOMAIN t.names
    BY DEF Lands, IsTree
  <2>4. Turn(t, f, p) = {t.names[d][n] : d \in {x \in Lands(t, q) : t.kind[x] = "dir" /\ n \in DOMAIN t.names[x]}}
    BY <1>2, <2>1 DEF Turn
  <2> QED
    BY <2>2, <2>3, <2>4 DEF Below
<1> QED
  BY <1>1, <1>2

(* ... and nothing else does.                                              *)
LEMMA LeadOnly ==
    ASSUME NEW t, IsTree(t), NEW f, IsLead(t, f)
    PROVE  f = [p \in Seq(Nat) |-> Lands(t, p)]
<1> DEFINE S == {n \in Nat : \A p \in Seq(Nat) : Len(p) = n => f[p] = Lands(t, p)}
<1>1. \A p \in Seq(Nat) : f[p] = Turn(t, f, p)
  BY DEF IsLead
<1>2. 0 \in S
  <2>1. SUFFICES ASSUME NEW p \in Seq(Nat), Len(p) = 0
                 PROVE  f[p] = Lands(t, p)
    OBVIOUS
  <2>2. p = <<>>
    BY <2>1, EmptySeq
  <2> QED
    BY <1>1, <2>2, LandsTurn
<1>3. ASSUME NEW n \in Nat, n \in S
      PROVE  n + 1 \in S
  <2>1. SUFFICES ASSUME NEW p \in Seq(Nat), Len(p) = n + 1
                 PROVE  f[p] = Lands(t, p)
    OBVIOUS
  <2>2. p # <<>>
    BY <2>1, EmptySeq
  <2>3. Front(p) \in Seq(Nat) /\ Len(Front(p)) = n
    BY <2>1, <2>2, FrontLast
  <2>4. f[Front(p)] = Lands(t, Front(p))
    BY <1>3, <2>3
  <2>5. Turn(t, f, p) = Lands(t, p)
    BY <2>4, LandsTurn
  <2> QED
    BY <1>1, <2>5
<1>4. Nat \subseteq S
  <2> HIDE DEF S
  <2> QED
    BY <1>2, <1>3, SetInduction
<1>5. \A p \in Seq(Nat) : f[p] = Lands(t, p)
  <2>1. \A p \in Seq(Nat) : Len(p) \in Nat
    OBVIOUS
  <2> QED
    BY <1>4, <2>1
<1>6. f = [p \in Seq(Nat) |-> f[p]]
  BY DEF IsLead
<1> QED
  BY <1>5, <1>6

(* `Lead` is what trails say.                                              *)
LEMMA LeadIs ==
    ASSUME IsTree(tree)
    PROVE  Lead = [p \in Seq(Nat) |-> Lands(tree, p)]
<1>1. PICK f : f = [p \in Seq(Nat) |-> Lands(tree, p)]
  OBVIOUS
<1>2. IsLead(tree, f)
  <2>1. ASSUME NEW p \in Seq(Nat)
        PROVE  Turn(tree, f, p) = Lands(tree, p)
    <3>1. p # <<>> => f[Front(p)] = Lands(tree, Front(p))
      BY <1>1, FrontLast
    <3> QED
      BY <3>1, LandsTurn
  <2> QED
    BY <1>1, <2>1 DEF IsLead
<1>3. PICK g : g = CHOOSE x : IsLead(tree, x)
  OBVIOUS
<1>4. Lead = g
  BY <1>3 DEF Lead, IsLead, Turn, IsDir
<1>5. IsLead(tree, g)
  BY <1>2, <1>3
<1> QED
  BY <1>4, <1>5, LeadOnly

-----------------------------------------------------------------------------
(* The walk.                                                               *)

IsPath(t, p) == p \in Seq(Nat) /\ p # <<>> /\ Lands(t, p) # {}

(* The stack: each level is below the ones under it, past the names they   *)
(* have dealt with, and no directory is open twice.                        *)
LevelOK(t, level, k) ==
    /\ Len(level.prefix) = k - 1 /\ level.dir \in Lands(t, level.prefix)
    /\ level.dir \in DOMAIN t.names /\ level.rest \subseteq DOMAIN t.names[level.dir]
Under(st, j, k) ==
    /\ Starts(st[j].prefix, st[k].prefix) /\ st[j].dir # st[k].dir
    /\ \A n \in st[j].rest : st[k].prefix[j] < n
StackOK(t, st) ==
    /\ st \in Seq([prefix : Seq(Nat), dir : Inodes, rest : SUBSET Nat])
    /\ \A k \in 1..Len(st) : LevelOK(t, st[k], k)
    /\ \A j, k \in 1..Len(st) : j < k => Under(st, j, k)

(* The paths still to come.                                                *)
Open(st, p, k) == k <= Len(p) /\ Starts(st[k].prefix, p) /\ p[k] \in st[k].rest
Pending(st, p) == \E k \in 1..Len(st) : Open(st, p, k)

(* A turn of the loop: the name `n` of the directory on top, `path`, which *)
(* leads to `ino`; it is a level more if that is a directory.              *)
Turns(t, st, n, path, ino) ==
    LET top == st[Len(st)] IN
    /\ Len(st) > 0 /\ n \in top.rest /\ (\A m \in top.rest : n <= m)
    /\ path = Append(top.prefix, n) /\ ino = t.names[top.dir][n]
TurnTo(t, st, n, path, ino, su) ==
    LET l == Len(st) IN
    /\ Len(su) = IF ino \in DOMAIN t.names THEN l + 1 ELSE l
    /\ \A k \in 1..(l - 1) : su[k] = st[k]
    /\ su[l].prefix = st[l].prefix /\ su[l].dir = st[l].dir /\ su[l].rest = st[l].rest \ {n}
    /\ ino \in DOMAIN t.names =>
          su[l + 1].prefix = path /\ su[l + 1].dir = ino /\ su[l + 1].rest = DOMAIN t.names[ino]

(* What is known of a turn.                                                *)
LEMMA TurnIs ==
    ASSUME NEW t, IsTree(t), NEW st, StackOK(t, st), NEW n, NEW path, NEW ino, Turns(t, st, n, path, ino)
    PROVE  /\ Len(st) \in Nat \ {0} /\ n \in Nat /\ path \in Seq(Nat) /\ path # <<>> /\ Len(path) = Len(st)
           /\ path[Len(st)] = n /\ Starts(st[Len(st)].prefix, path) /\ ino \in Inodes
           /\ ino \in Lands(t, path)
<1>1. PICK l \in Nat \ {0} : l = Len(st)
  BY DEF Turns, StackOK
<1>2. PICK v : v = st[l]
  OBVIOUS
<1>3. v.prefix \in Seq(Nat) /\ v.dir \in Inodes /\ l \in 1..Len(st)
  <2>1. l \in 1..Len(st)
    BY <1>1
  <2>2. v \in [prefix : Seq(Nat), dir : Inodes, rest : SUBSET Nat]
    BY <1>2, <2>1, ElementOfSeq DEF StackOK
  <2> QED
    BY <2>1, <2>2
<1>4. LevelOK(t, v, l)
  BY <1>2, <1>3 DEF StackOK
<1>5. n \in v.rest /\ path = Append(v.prefix, n) /\ ino = t.names[v.dir][n]
  BY <1>1, <1>2 DEF Turns
<1>6. v.dir \in DOMAIN t.names /\ v.dir \in Lands(t, v.prefix) /\ n \in DOMAIN t.names[v.dir] /\ Len(v.prefix) = l - 1
  BY <1>4, <1>5 DEF LevelOK
<1>7. n \in Nat /\ ino \in Inodes
  BY <1>5, <1>6 DEF IsTree
<1>8. path \in Seq(Nat) /\ path # <<>> /\ Len(path) = l /\ path[l] = n /\ Starts(v.prefix, path)
  <2>1. l - 1 + 1 = l
    BY <1>1
  <2>2. path \in Seq(Nat) /\ path # <<>> /\ Len(path) = Len(v.prefix) + 1 /\ path[Len(v.prefix) + 1] = n
    BY <1>3, <1>5, <1>7, AppendProperties
  <2>3. \A k \in 1..Len(v.prefix) : path[k] = v.prefix[k]
    BY <1>3, <1>5, <1>7, AppendProperties
  <2>4. Len(v.prefix) <= Len(path)
    BY <1>1, <1>6, <2>2
  <2> QED
    BY <1>6, <2>1, <2>2, <2>3, <2>4 DEF Starts
<1>9. ino \in Lands(t, path)
  <2>1. Lands(t, path) = Below(t, Lands(t, v.prefix), n)
    BY <1>3, <1>5, <1>7, LandsAppend
  <2> QED
    BY <1>5, <1>6, <2>1 DEF Below
<1> QED
  BY <1>1, <1>2, <1>7, <1>8, <1>9

(* The levels below the top are below the path.                            *)
LEMMA PathUnder ==
    ASSUME NEW t, IsTree(t), NEW st, StackOK(t, st), NEW n, NEW path, NEW ino, Turns(t, st, n, path, ino),
           NEW k \in 1..(Len(st) - 1)
    PROVE  Starts(st[k].prefix, path) /\ \A m \in st[k].rest : path[k] < m
<1>1. PICK l \in Nat \ {0} : l = Len(st) /\ l \in 1..Len(st)
  BY TurnIs
<1>2. k \in 1..Len(st) /\ k < l /\ k \in Nat
  BY <1>1
<1>3. Under(st, k, l) /\ LevelOK(t, st[k], k) /\ LevelOK(t, st[l], l)
  BY <1>1, <1>2 DEF StackOK
<1>4. Starts(st[l].prefix, path) /\ Len(st[l].prefix) = l - 1 /\ Len(st[k].prefix) = k - 1
  BY <1>1, <1>3, TurnIs DEF LevelOK
<1>5. Starts(st[k].prefix, st[l].prefix) /\ \A m \in st[k].rest : st[l].prefix[k] < m
  BY <1>3 DEF Under
<1>6. k \in 1..(l - 1) /\ st[l].prefix[k] = path[k]
  BY <1>1, <1>2, <1>4 DEF Starts
<1>7. Starts(st[k].prefix, path)
  <2>1. PICK a, b : a = st[k].prefix /\ b = st[l].prefix
    OBVIOUS
  <2>2. Len(a) = k - 1 /\ Len(b) = l - 1 /\ Len(path) = l
    BY <1>1, <1>4, <2>1, TurnIs
  <2>3. \A j \in 1..(k - 1) : a[j] = b[j]
    BY <1>5, <2>1, <2>2 DEF Starts
  <2>4. \A j \in 1..(l - 1) : b[j] = path[j]
    BY <1>4, <2>1, <2>2 DEF Starts
  <2>5. \A j \in 1..(k - 1) : j \in 1..(l - 1)
    BY <1>1, <1>2
  <2>6. k - 1 <= l
    BY <1>1, <1>2
  <2> QED
    BY <2>1, <2>2, <2>3, <2>4, <2>5, <2>6 DEF Starts
<1> QED
  BY <1>5, <1>6, <1>7

(* A turn takes out its path and nothing else.                             *)
LEMMA PendingLess ==
    ASSUME NEW t, IsTree(t), NEW st, StackOK(t, st), NEW n, NEW path, NEW ino, Turns(t, st, n, path, ino),
           NEW su, TurnTo(t, st, n, path, ino, su), NEW p, IsPath(t, p)
    PROVE  Pending(su, p) <=> Pending(st, p) /\ p # path
<1>1. PICK l \in Nat \ {0} : l = Len(st)
  BY TurnIs
<1>2. /\ n \in Nat /\ path \in Seq(Nat) /\ Len(path) = l /\ path[l] = n /\ Starts(st[l].prefix, path)
      /\ ino \in Lands(t, path)
  BY <1>1, TurnIs
<1>3. /\ Len(su) = (IF ino \in DOMAIN t.names THEN l + 1 ELSE l)
      /\ (\A k \in 1..(l - 1) : su[k] = st[k])
      /\ su[l].prefix = st[l].prefix /\ su[l].rest = st[l].rest \ {n}
      /\ ino \in DOMAIN t.names => su[l + 1].prefix = path /\ su[l + 1].rest = DOMAIN t.names[ino]
  BY <1>1 DEF TurnTo
<1>4. p \in Seq(Nat) /\ Lands(t, p) # {} /\ Len(p) \in Nat
  BY DEF IsPath
<1>5. n \in st[l].rest /\ Len(st[l].prefix) = l - 1
  <2>1. LevelOK(t, st[l], l)
    BY <1>1 DEF StackOK
  <2> QED
    BY <1>1, <2>1 DEF Turns, LevelOK
<1>6. \A k \in 1..(l - 1) : Open(su, p, k) <=> Open(st, p, k)
  BY <1>3 DEF Open
<1>7. Open(su, p, l) <=> Open(st, p, l) /\ p[l] # n
  BY <1>3 DEF Open
<1>8. ASSUME Open(st, p, l), p[l] = n
      PROVE  Starts(path, p)
  <2>1. l <= Len(p) /\ Starts(st[l].prefix, p)
    BY <1>8 DEF Open
  <2>2. \A k \in 1..(l - 1) : p[k] = path[k]
    BY <1>2, <1>5, <2>1 DEF Starts
  <2>3. \A k \in 1..l : p[k] = path[k]
    BY <1>2, <1>8, <2>2
  <2> QED
    BY <1>2, <2>1, <2>3 DEF Starts
<1>9. ASSUME Starts(path, p), Len(p) = l
      PROVE  p = path
  BY <1>2, <1>4, <1>9, SeqEqual DEF Starts
<1>10. ASSUME Starts(path, p), Len(p) # l
       PROVE  ino \in DOMAIN t.names /\ Open(su, p, l + 1)
  <2>1. Len(path) < Len(p) /\ l + 1 <= Len(p)
    BY <1>2, <1>4, <1>10 DEF Starts
  <2>2. PICK d \in Lands(t, path) : d \in DOMAIN t.names /\ p[l + 1] \in DOMAIN t.names[d]
    BY <1>2, <1>4, <1>10, <2>1, LandsThrough
  <2>3. d = ino
    BY <1>2, LandsOnce
  <2> QED
    BY <1>3, <1>10, <2>1, <2>2, <2>3 DEF Open
<1>11. ASSUME ino \in DOMAIN t.names, Open(su, p, l + 1)
       PROVE  Open(st, p, l) /\ p # path
  <2>1. l + 1 <= Len(p) /\ Starts(path, p)
    BY <1>3, <1>11 DEF Open
  <2>2. \A k \in 1..l : p[k] = path[k]
    BY <1>2, <2>1 DEF Starts
  <2>3. p[l] = n
    BY <1>2, <2>2
  <2>4. Starts(st[l].prefix, p)
    <3>1. \A k \in 1..(l - 1) : st[l].prefix[k] = path[k]
      BY <1>2, <1>5 DEF Starts
    <3>2. \A k \in 1..(l - 1) : st[l].prefix[k] = p[k]
      BY <2>2, <3>1
    <3>3. l - 1 <= Len(p)
      BY <1>4, <2>1
    <3> QED
      BY <1>5, <3>2, <3>3 DEF Starts
  <2>5. p # path
    BY <1>2, <1>4, <2>1
  <2> QED
    BY <1>4, <1>5, <2>1, <2>3, <2>4, <2>5 DEF Open
<1>12. ASSUME NEW k \in 1..l, Open(su, p, k)
       PROVE  Open(st, p, k) /\ p # path
  <2>1. CASE k = l
    BY <1>2, <1>7, <1>12, <2>1
  <2>2. CASE k # l
    <3>1. k \in 1..(l - 1) /\ Open(st, p, k)
      BY <1>6, <1>12, <2>2
    <3>2. p[k] \in st[k].rest /\ \A m \in st[k].rest : path[k] < m
      BY <1>1, <3>1, PathUnder DEF Open
    <3>3. path[k] < p[k] /\ path[k] \in Nat
      BY <1>2, <3>1, <3>2
    <3>4. p # path
      BY <3>3
    <3> QED
      BY <3>1, <3>4
  <2> QED
    BY <2>1, <2>2
<1>13. ASSUME Pending(su, p)
       PROVE  Pending(st, p) /\ p # path
  <2>1. PICK k \in 1..Len(su) : Open(su, p, k)
    BY <1>13 DEF Pending
  <2>2. k \in 1..l \/ (ino \in DOMAIN t.names /\ k = l + 1)
    BY <1>3
  <2>3. l \in 1..Len(st) /\ 1..l = 1..Len(st)
    BY <1>1
  <2> QED
    BY <1>11, <1>12, <2>1, <2>2, <2>3 DEF Pending
<1>14. ASSUME Pending(st, p), p # path
       PROVE  Pending(su, p)
  <2>1. PICK k \in 1..l : Open(st, p, k)
    BY <1>1, <1>14 DEF Pending
  <2>2. k \in 1..Len(su) /\ l \in 1..Len(su)
    BY <1>3
  <2>3. CASE k # l
    <3>1. k \in 1..(l - 1)
      BY <2>3
    <3> QED
      BY <1>6, <2>1, <2>2, <3>1 DEF Pending
  <2>4. CASE k = l /\ p[l] # n
    BY <1>7, <2>1, <2>2, <2>4 DEF Pending
  <2>5. CASE k = l /\ p[l] = n
    <3>1. Starts(path, p)
      BY <1>8, <2>1, <2>5
    <3>2. ino \in DOMAIN t.names /\ Open(su, p, l + 1)
      BY <1>9, <1>10, <1>14, <3>1
    <3>3. l + 1 \in 1..Len(su)
      BY <1>3, <3>2
    <3> QED
      BY <3>2, <3>3 DEF Pending
  <2> QED
    BY <2>3, <2>4, <2>5
<1> QED
  BY <1>13, <1>14

(* Its path was to come.                                                   *)
LEMMA PathPending ==
    ASSUME NEW t, IsTree(t), NEW st, StackOK(t, st), NEW n, NEW path, NEW ino, Turns(t, st, n, path, ino)
    PROVE  Pending(st, path) /\ IsPath(t, path)
<1>1. PICK l \in Nat \ {0} : l = Len(st) /\ l \in 1..Len(st)
  BY TurnIs
<1>2. /\ path \in Seq(Nat) /\ path # <<>> /\ Len(path) = l /\ path[l] = n /\ Starts(st[l].prefix, path)
      /\ ino \in Lands(t, path)
  BY <1>1, TurnIs
<1>3. n \in st[l].rest
  BY <1>1 DEF Turns
<1>4. Open(st, path, l)
  BY <1>1, <1>2, <1>3 DEF Open
<1> QED
  BY <1>1, <1>2, <1>4 DEF Pending, IsPath

(* A path comes before those that go on from it, ...                       *)
LEMMA StartsBefore ==
    ASSUME NEW p \in Seq(Nat), NEW q \in Seq(Nat), Starts(p, q), Len(p) < Len(q)
    PROVE  Before(p, q)
<1>1. SubSeq(p, 1, Len(p)) = p
  BY SubSeqFull
<1>2. PICK m \in Nat : m = Len(p)
  OBVIOUS
<1>3. \A k \in 1..m : q[k] = p[k]
  BY <1>2 DEF Starts
<1>4. PICK u : u = SubSeq(q, 1, m)
  OBVIOUS
<1>5. \A k \in 1..m : q[k] \in Nat
  BY <1>2
<1>6. u \in Seq(Nat) /\ Len(u) = m
  BY <1>2, <1>4, <1>5, SubSeqProperties
<1>7. \A k \in 1..m : u[k] = q[k]
  BY <1>2, <1>4
<1>8. u = p
  BY <1>2, <1>3, <1>6, <1>7, SeqEqual
<1>9. p # q
  OBVIOUS
<1> QED
  BY <1>1, <1>2, <1>4, <1>8, <1>9 DEF Before, IsStrictPrefix, IsPrefix

(* ... and those do not come before it.                                    *)
LEMMA BeforeNotBelow ==
    ASSUME NEW p \in Seq(Nat), NEW q \in Seq(Nat), Before(q, p)
    PROVE  ~ IsStrictPrefix(p, q) /\ p # q
<1>1. ASSUME NEW a \in Seq(Nat), NEW b \in Seq(Nat), IsPrefix(a, b)
      PROVE  Len(a) <= Len(b) /\ \A k \in 1..Len(a) : a[k] = b[k]
  <2>1. SubSeq(a, 1, Len(a)) = a
    BY SubSeqFull
  <2>2. PICK m \in Nat : m = Len(a)
    OBVIOUS
  <2>3. a = SubSeq(b, 1, m) /\ m <= Len(b)
    BY <1>1, <2>1, <2>2 DEF IsPrefix
  <2>4. \A k \in 1..m : SubSeq(b, 1, m)[k] = b[k]
    BY <2>2, <2>3
  <2> QED
    BY <2>2, <2>3, <2>4
<1>2. CASE IsStrictPrefix(q, p)
  <2>1. Len(q) <= Len(p) /\ (\A k \in 1..Len(q) : q[k] = p[k]) /\ q # p
    BY <1>1, <1>2 DEF IsStrictPrefix
  <2>2. SUFFICES ASSUME IsStrictPrefix(p, q)
                 PROVE  FALSE
    BY <2>1
  <2>3. Len(p) <= Len(q)
    BY <1>1, <2>2 DEF IsStrictPrefix
  <2> QED
    BY <2>1, <2>3, SeqEqual
<1>3. CASE \E k \in 1..Len(q) : k <= Len(p) /\ q[k] < p[k] /\ \A j \in 1..(k - 1) : q[j] = p[j]
  <2>1. PICK k \in 1..Len(q) : k <= Len(p) /\ q[k] < p[k]
    BY <1>3
  <2>2. k \in 1..Len(p) /\ q[k] \in Nat /\ p[k] \in Nat /\ q[k] # p[k]
    BY <2>1
  <2>3. SUFFICES ASSUME IsStrictPrefix(p, q)
                 PROVE  FALSE
    BY <2>2
  <2> QED
    BY <1>1, <2>2, <2>3 DEF IsStrictPrefix
<1> QED
  BY <1>2, <1>3 DEF Before

(* The path of a turn is before all that are still to come.                *)
LEMMA PathFirst ==
    ASSUME NEW t, IsTree(t), NEW st, StackOK(t, st), NEW n, NEW path, NEW ino, Turns(t, st, n, path, ino),
           NEW su, TurnTo(t, st, n, path, ino, su), NEW p \in Seq(Nat), Pending(su, p)
    PROVE  Before(path, p)
<1>1. PICK l \in Nat \ {0} : l = Len(st)
  BY TurnIs
<1>2. /\ n \in Nat /\ path \in Seq(Nat) /\ Len(path) = l /\ path[l] = n /\ Starts(st[l].prefix, path)
  BY <1>1, TurnIs
<1>3. /\ Len(su) = (IF ino \in DOMAIN t.names THEN l + 1 ELSE l)
      /\ (\A k \in 1..(l - 1) : su[k] = st[k])
      /\ su[l].prefix = st[l].prefix /\ su[l].rest = st[l].rest \ {n}
      /\ ino \in DOMAIN t.names => su[l + 1].prefix = path /\ su[l + 1].rest = DOMAIN t.names[ino]
  BY <1>1 DEF TurnTo
<1>4. PICK k \in 1..Len(su) : Open(su, p, k)
  BY DEF Pending
<1>5. ASSUME NEW q, Starts(q, path), Starts(q, p), Len(q) = k - 1, k \in 1..l, path[k] < p[k]
      PROVE  Before(path, p)
  <2>1. k <= Len(p) /\ k \in 1..Len(path)
    BY <1>2, <1>4, <1>5 DEF Open
  <2>2. \A j \in 1..(k - 1) : path[j] = p[j]
    BY <1>5 DEF Starts
  <2> QED
    BY <1>5, <2>1, <2>2 DEF Before
<1>6. CASE k \in 1..(l - 1)
  <2>1. Open(st, p, k) /\ k \in 1..Len(st)
    BY <1>1, <1>3, <1>4, <1>6 DEF Open
  <2>2. Starts(st[k].prefix, path) /\ \A m \in st[k].rest : path[k] < m
    BY <1>1, <1>6, PathUnder
  <2>3. Starts(st[k].prefix, p) /\ p[k] \in st[k].rest
    BY <2>1 DEF Open
  <2>4. Len(st[k].prefix) = k - 1
    BY <2>1 DEF StackOK, LevelOK
  <2>5. k \in 1..l
    BY <1>6
  <2> QED
    BY <1>5, <2>2, <2>3, <2>4, <2>5
<1>7. CASE k = l
  <2>1. Starts(st[l].prefix, p) /\ p[l] \in st[l].rest \ {n} /\ l <= Len(p)
    BY <1>3, <1>4, <1>7 DEF Open
  <2>2. LevelOK(t, st[l], l)
    BY <1>1 DEF StackOK
  <2>3. n <= p[l] /\ n # p[l] /\ Len(st[l].prefix) = l - 1
    BY <1>1, <2>1, <2>2 DEF Turns, LevelOK
  <2>4. path[l] < p[l]
    <3>1. p[l] \in Nat
      BY <2>1
    <3> QED
      BY <1>2, <2>3, <3>1
  <2>5. l \in 1..l
    OBVIOUS
  <2> QED
    BY <1>2, <1>5, <1>7, <2>1, <2>3, <2>4, <2>5
<1>8. CASE k = l + 1
  <2>1. ino \in DOMAIN t.names
    BY <1>3, <1>8
  <2>2. Starts(path, p) /\ l + 1 <= Len(p)
    BY <1>3, <1>4, <1>8, <2>1 DEF Open
  <2>3. Len(path) < Len(p)
    BY <1>2, <2>2
  <2> QED
    BY <1>2, <2>2, <2>3, StartsBefore
<1>9. k \in 1..(l - 1) \/ k = l \/ k = l + 1
  BY <1>3
<1> QED
  BY <1>6, <1>7, <1>8, <1>9

Levels == [prefix : Seq(Nat), dir : Inodes, rest : SUBSET Nat]

(* The stack after a turn: the directory entered was not open.             *)
LEMMA StackStays ==
    ASSUME NEW t, IsTree(t), NEW st, StackOK(t, st), NEW n, NEW path, NEW ino, Turns(t, st, n, path, ino),
           NEW su \in Seq(Levels), TurnTo(t, st, n, path, ino, su),
           ino \in DOMAIN t.names => \A k \in 1..Len(st) : st[k].dir # ino
    PROVE  StackOK(t, su)
<1>1. PICK l \in Nat \ {0} : l = Len(st) /\ l \in 1..Len(st)
  BY TurnIs
<1>2. /\ n \in Nat /\ path \in Seq(Nat) /\ Len(path) = l /\ path[l] = n /\ Starts(st[l].prefix, path)
      /\ ino \in Lands(t, path)
  BY <1>1, TurnIs
<1>3. /\ Len(su) = (IF ino \in DOMAIN t.names THEN l + 1 ELSE l)
      /\ (\A k \in 1..(l - 1) : su[k] = st[k])
      /\ su[l].prefix = st[l].prefix /\ su[l].dir = st[l].dir /\ su[l].rest = st[l].rest \ {n}
  BY <1>1 DEF TurnTo
<1>4. ino \in DOMAIN t.names =>
          su[l + 1].prefix = path /\ su[l + 1].dir = ino /\ su[l + 1].rest = DOMAIN t.names[ino]
  BY <1>1 DEF TurnTo
<1>5. \A k \in 1..l : LevelOK(t, st[k], k)
  BY <1>1 DEF StackOK
<1>6. \A j, k \in 1..l : j < k => Under(st, j, k)
  BY <1>1 DEF StackOK
<1>7. ASSUME NEW k \in 1..Len(su)
      PROVE  LevelOK(t, su[k], k)
  <2>1. CASE k \in 1..(l - 1)
    BY <1>3, <1>5, <2>1
  <2>2. CASE k = l
    BY <1>1, <1>3, <1>5, <2>2 DEF LevelOK
  <2>3. CASE k = l + 1
    <3>1. ino \in DOMAIN t.names /\ Len(path) = k - 1
      BY <1>2, <1>3, <2>3
    <3> QED
      BY <1>2, <1>4, <2>3, <3>1 DEF LevelOK
  <2> QED
    BY <1>3, <2>1, <2>2, <2>3
<1>8. ASSUME NEW j \in 1..Len(su), NEW k \in 1..Len(su), j < k
      PROVE  Under(su, j, k)
  <2>1. CASE k \in 1..(l - 1)
    <3>1. j \in 1..(l - 1) /\ j \in 1..l /\ k \in 1..l
      BY <1>8, <2>1
    <3>2. Under(st, j, k)
      BY <1>6, <1>8, <3>1
    <3> QED
      BY <1>3, <2>1, <3>1, <3>2 DEF Under
  <2>2. CASE k = l
    <3>1. j \in 1..(l - 1) /\ j \in 1..l /\ k \in 1..l
      BY <1>8, <2>2
    <3>2. Under(st, j, k)
      BY <1>6, <1>8, <3>1
    <3> QED
      BY <1>3, <2>2, <3>1, <3>2 DEF Under
  <2>3. CASE k = l + 1 /\ j # l
    <3>1. ino \in DOMAIN t.names /\ j \in 1..(l - 1) /\ j \in 1..Len(st)
      BY <1>1, <1>3, <1>8, <2>3
    <3>2. Starts(st[j].prefix, path) /\ \A m \in st[j].rest : path[j] < m
      BY <1>1, <3>1, PathUnder
    <3>3. st[j].dir # ino /\ su[j] = st[j]
      BY <1>3, <3>1
    <3> QED
      BY <1>4, <2>3, <3>1, <3>2, <3>3 DEF Under
  <2>4. CASE k = l + 1 /\ j = l
    <3>1. ino \in DOMAIN t.names
      BY <1>1, <1>3, <2>4
    <3>2. st[l].dir # ino
      BY <1>1, <3>1
    <3>3. \A m \in st[l].rest \ {n} : n < m
      <4>1. st[l].rest \subseteq Nat
        <5>1. LevelOK(t, st[l], l)
          BY <1>1, <1>5
        <5> QED
          BY <5>1 DEF LevelOK, IsTree
      <4>2. \A m \in st[l].rest : n <= m
        BY <1>1 DEF Turns
      <4> QED
        BY <1>2, <4>1, <4>2
    <3> QED
      BY <1>2, <1>3, <1>4, <2>4, <3>1, <3>2, <3>3 DEF Under
  <2> QED
    BY <1>3, <2>1, <2>2, <2>3, <2>4
<1> QED
  BY <1>7, <1>8 DEF StackOK, Levels

(* A sequence without its end.                                             *)
LEMMA FrontIs ==
    ASSUME NEW T, NEW s \in Seq(T), s # <<>>
    PROVE  /\ Front(s) \in Seq(T) /\ Len(Front(s)) = Len(s) - 1 /\ Len(s) \in Nat \ {0}
           /\ \A k \in 1..(Len(s) - 1) : Front(s)[k] = s[k]
           /\ Last(s) = s[Len(s)] /\ Last(s) \in T
<1>1. PICK q \in Seq(T), n \in T : s = Append(q, n)
  BY SequenceEmptyOrAppend
<1>2. Len(s) = Len(q) + 1 /\ s[Len(s)] = n /\ \A k \in 1..Len(q) : s[k] = q[k]
  BY <1>1, AppendProperties
<1>3. SubSeq(s, 1, Len(s) - 1) = q
  BY <1>1
<1>4. Last(s) = n /\ Front(s) = q
  BY <1>2, <1>3 DEF Last, Front
<1> QED
  BY <1>2, <1>4

(* A level that is done can go: it has nothing to come.                    *)
LEMMA StackUp ==
    ASSUME NEW t, NEW st, StackOK(t, st), st # <<>>, Last(st).rest = {}
    PROVE  StackOK(t, Front(st)) /\ \A p : Pending(Front(st), p) <=> Pending(st, p)
<1>1. PICK su : su = Front(st)
  OBVIOUS
<1>2. PICK l \in Nat \ {0} : l = Len(st)
  BY FrontIs DEF StackOK
<1>3. st \in Seq(Levels)
  BY DEF StackOK, Levels
<1>4. su \in Seq(Levels) /\ Len(su) = l - 1 /\ (\A k \in 1..(l - 1) : su[k] = st[k]) /\ st[l].rest = {}
  BY <1>1, <1>2, <1>3, FrontIs
<1>5. \A k \in 1..l : LevelOK(t, st[k], k)
  BY <1>2 DEF StackOK
<1>6. \A j, k \in 1..l : j < k => Under(st, j, k)
  BY <1>2 DEF StackOK
<1>7. \A k \in 1..(l - 1) : k \in 1..l
  OBVIOUS
<1>8. \A k \in 1..Len(su) : LevelOK(t, su[k], k)
  BY <1>4, <1>5, <1>7
<1>9. \A j, k \in 1..Len(su) : j < k => Under(su, j, k)
  BY <1>4, <1>6, <1>7 DEF Under
<1>10. StackOK(t, su)
  BY <1>4, <1>8, <1>9 DEF StackOK, Levels
<1>11. ASSUME NEW p
       PROVE  Pending(su, p) <=> Pending(st, p)
  <2>1. \A k \in 1..(l - 1) : Open(su, p, k) <=> Open(st, p, k)
    BY <1>4 DEF Open
  <2>2. ~ Open(st, p, l)
    BY <1>4 DEF Open
  <2>3. \A k \in 1..l : k = l \/ k \in 1..(l - 1)
    OBVIOUS
  <2> QED
    BY <1>2, <1>4, <1>7, <2>1, <2>2, <2>3 DEF Pending
<1> QED
  BY <1>1, <1>10, <1>11

(* The model's turn is one.                                                *)
LEMMA TurnOf ==
    ASSUME NEW t, IsTree(t), NEW st, StackOK(t, st), st # <<>>, Last(st).rest # {},
           NEW n, n = Min(Last(st).rest)
    PROVE  Turns(t, st, n, Append(Last(st).prefix, n), t.names[Last(st).dir][n])
<1>1. st \in Seq(Levels)
  BY DEF StackOK, Levels
<1>2. PICK l \in Nat \ {0} : l = Len(st) /\ Last(st) = st[l]
  BY <1>1, FrontIs
<1>3. PICK v : v = Last(st)
  OBVIOUS
<1>4. v \in Levels
  BY <1>1, <1>3, FrontIs
<1>5. v.rest \subseteq Nat
  BY <1>4 DEF Levels
<1>6. n \in v.rest /\ \A m \in v.rest : n <= m
  BY <1>3, <1>5, MinOfNats
<1> QED
  BY <1>2, <1>3, <1>6 DEF Turns

Popped(st, n) == [st EXCEPT ![Len(st)].rest = @ \ {n}]

(* The stack without the name, ...                                         *)
LEMMA PoppedIs ==
    ASSUME NEW st \in Seq(Levels), st # <<>>, NEW n
    PROVE  LET l == Len(st) su == Popped(st, n) IN
           /\ su \in Seq(Levels) /\ Len(su) = l
           /\ (\A k \in 1..(l - 1) : su[k] = st[k])
           /\ su[l].prefix = st[l].prefix /\ su[l].dir = st[l].dir /\ su[l].rest = st[l].rest \ {n}
<1>1. PICK l \in Nat \ {0} : l = Len(st)
  BY FrontIs
<1>2. PICK v \in Levels : v = st[l]
  <2>1. l \in 1..Len(st)
    BY <1>1
  <2> QED
    BY <2>1, ElementOfSeq
<1>3. PICK w : w = [v EXCEPT !.rest = @ \ {n}]
  OBVIOUS
<1>4. w \in Levels /\ w.prefix = v.prefix /\ w.dir = v.dir /\ w.rest = v.rest \ {n}
  BY <1>2, <1>3 DEF Levels
<1>5. PICK su : su = Popped(st, n)
  OBVIOUS
<1>6. su = [st EXCEPT ![l] = w]
  BY <1>1, <1>2, <1>3, <1>5 DEF Popped
<1>7. l \in 1..Len(st)
  BY <1>1
<1>8. /\ su \in Seq(Levels) /\ Len(su) = Len(st) /\ su[l] = w
      /\ \A k \in 1..Len(st) : k # l => su[k] = st[k]
  BY <1>4, <1>6, <1>7, ExceptSeq
<1>9. \A k \in 1..(l - 1) : k \in 1..Len(st) /\ k # l
  BY <1>1
<1> QED
  BY <1>1, <1>2, <1>4, <1>5, <1>8, <1>9

(* ... and with the directory entered, is the stack after it.              *)
LEMMA Went ==
    ASSUME NEW t, IsTree(t), NEW st, StackOK(t, st), NEW n, NEW path, NEW ino, Turns(t, st, n, path, ino)
    PROVE  /\ ino \notin DOMAIN t.names =>
                 Popped(st, n) \in Seq(Levels) /\ TurnTo(t, st, n, path, ino, Popped(st, n))
           /\ ino \in DOMAIN t.names =>
                 LET su == Append(Popped(st, n), [prefix |-> path, dir |-> ino, rest |-> DOMAIN t.names[ino]])
                 IN  su \in Seq(Levels) /\ TurnTo(t, st, n, path, ino, su)
<1>1. PICK l \in Nat \ {0} : l = Len(st)
  BY TurnIs
<1>2. st \in Seq(Levels) /\ st # <<>>
  BY <1>1 DEF StackOK, Levels
<1>3. PICK sp : sp = Popped(st, n)
  OBVIOUS
<1>4. /\ sp \in Seq(Levels) /\ Len(sp) = l
      /\ (\A k \in 1..(l - 1) : sp[k] = st[k])
      /\ sp[l].prefix = st[l].prefix /\ sp[l].dir = st[l].dir /\ sp[l].rest = st[l].rest \ {n}
  BY <1>1, <1>2, <1>3, PoppedIs
<1>5. CASE ino \notin DOMAIN t.names
  BY <1>1, <1>3, <1>4, <1>5 DEF TurnTo
<1>6. CASE ino \in DOMAIN t.names
  <2>1. PICK v : v = [prefix |-> path, dir |-> ino, rest |-> DOMAIN t.names[ino]]
    OBVIOUS
  <2>2. v.prefix = path /\ v.dir = ino /\ v.rest = DOMAIN t.names[ino]
    BY <2>1
  <2>3. v \in Levels
    <3>1. path \in Seq(Nat) /\ ino \in Inodes
      BY TurnIs
    <3>2. DOMAIN t.names[ino] \subseteq Nat
      BY <1>6 DEF IsTree
    <3> QED
      BY <2>1, <3>1, <3>2 DEF Levels
  <2>4. PICK su : su = Append(sp, v)
    OBVIOUS
  <2>5. su \in Seq(Levels) /\ Len(su) = l + 1 /\ su[l + 1] = v /\ \A k \in 1..l : su[k] = sp[k]
    BY <1>4, <2>3, <2>4, AppendProperties
  <2>6. l \in 1..l /\ \A k \in 1..(l - 1) : k \in 1..l
    OBVIOUS
  <2>7. TurnTo(t, st, n, path, ino, su)
    BY <1>1, <1>4, <1>6, <2>2, <2>5, <2>6 DEF TurnTo
  <2> QED
    BY <1>3, <1>6, <2>1, <2>4, <2>5, <2>7
<1> QED
  BY <1>5, <1>6

(* The stack is no higher than there are directories.                      *)
LEMMA StackHigh ==
    ASSUME NEW t, IsTree(t), IsFiniteSet(Inodes), NEW st, StackOK(t, st)
    PROVE  Len(st) <= Cardinality(DOMAIN t.names) /\ Cardinality(DOMAIN t.names) \in Nat
<1>1. PICK l \in Nat : l = Len(st)
  BY DEF StackOK
<1>2. PICK D : D = DOMAIN t.names /\ D \subseteq Inodes
  BY DEF IsTree
<1>3. IsFiniteSet(D)
  BY <1>2, FS_Subset
<1>4. PICK f : f = [k \in 1..l |-> st[k].dir]
  OBVIOUS
<1>5. \A k \in 1..l : st[k].dir \in D
  BY <1>1, <1>2 DEF StackOK, LevelOK
<1>6. \A j, k \in 1..l : j < k => st[j].dir # st[k].dir
  BY <1>1 DEF StackOK, Under
<1>7. ASSUME NEW j \in 1..l, NEW k \in 1..l, f[j] = f[k]
      PROVE  j = k
  BY <1>4, <1>6, <1>7
<1>8. f \in [1..l -> D]
  BY <1>4, <1>5
<1>9. f \in Injection(1..l, D)
  BY <1>7, <1>8 DEF Injection, IsInjective
<1>10. Cardinality(1..l) <= Cardinality(D)
  BY <1>3, <1>9, FS_Injection
<1>11. Cardinality(1..l) = l
  BY FS_Interval
<1> QED
  BY <1>1, <1>2, <1>3, <1>10, <1>11, FS_CardinalityType

(* What was walked: paths of the tree, in order.                           *)
Found == [path : Seq(Nat), ino : Inodes]
FoundOK(t, e) ==
    /\ e.path # <<>> /\ e.ino \in Lands(t, e.path)
    /\ Len(e.path) <= Cardinality(DOMAIN t.names)
WalkedOK(t, wk) ==
    /\ wk \in Seq(Found)
    /\ \A k \in 1..Len(wk) : FoundOK(t, wk[k])
    /\ \A j, k \in 1..Len(wk) : j < k => Before(wk[j].path, wk[k].path)

(* A directory was met once.                                               *)
DirsOnce(t, wk) ==
    /\ \A k \in 1..Len(wk) : wk[k].ino # t.top
    /\ \A j, k \in 1..Len(wk) : j < k /\ wk[j].ino = wk[k].ino => wk[j].ino \notin DOMAIN t.names

Has(wk, p) == \E k \in 1..Len(wk) : wk[k].path = p
Covers(t, wk) == \A p : IsPath(t, p) => Has(wk, p)

(* On the way: what was met is in `visited`, what was walked is what is    *)
(* not to come, and it is before all that is.                              *)
Visits(t, vs, wk) ==
    \A i \in DOMAIN t.names : i \in vs <=> i = t.top \/ \E k \in 1..Len(wk) : wk[k].ino = i
Splits(t, st, wk) ==
    \A p : IsPath(t, p) =>
        /\ Has(wk, p) <=> ~Pending(st, p)
        /\ Pending(st, p) => \A k \in 1..Len(wk) : Before(wk[k].path, p)
Walks(t, st, vs, wk) ==
    /\ t.top \in DOMAIN t.names
    /\ StackOK(t, st) /\ \A k \in 1..Len(st) : st[k].dir \in vs
    /\ Visits(t, vs, wk) /\ DirsOnce(t, wk) /\ Splits(t, st, wk)

(* The walk at its start, ...                                              *)
LEMMA WalkStarts ==
    ASSUME NEW t, IsTree(t), t.top \in DOMAIN t.names, NEW st,
           st = <<[prefix |-> <<>>, dir |-> t.top, rest |-> DOMAIN t.names[t.top]]>>
    PROVE  WalkedOK(t, <<>>) /\ Walks(t, st, {t.top}, <<>>)
<1>1. PICK v : v = [prefix |-> <<>>, dir |-> t.top, rest |-> DOMAIN t.names[t.top]]
  OBVIOUS
<1>2. v.prefix = <<>> /\ v.dir = t.top /\ v.rest = DOMAIN t.names[t.top]
  BY <1>1
<1>3. v \in Levels
  BY <1>1 DEF Levels, IsTree
<1>4. st \in Seq(Levels) /\ Len(st) = 1 /\ st[1] = v
  BY <1>1, <1>3
<1>5. LevelOK(t, v, 1)
  <2>1. Len(<<>>) = 1 - 1
    OBVIOUS
  <2>2. t.top \in Lands(t, <<>>)
    BY LandsTop
  <2> QED
    BY <1>2, <2>1, <2>2 DEF LevelOK
<1>6. StackOK(t, st)
  BY <1>4, <1>5 DEF StackOK, Levels
<1>7. PICK wk : wk = <<>> /\ wk \in Seq(Found) /\ Len(wk) = 0
  BY EmptySeq
<1>8. WalkedOK(t, wk) /\ DirsOnce(t, wk) /\ Visits(t, {t.top}, wk)
  BY <1>7 DEF WalkedOK, DirsOnce, Visits
<1>9. ASSUME NEW p, IsPath(t, p)
      PROVE  Pending(st, p)
  <2>1. p \in Seq(Nat) /\ Len(p) > 0 /\ Lands(t, p) # {}
    BY <1>9, EmptySeq DEF IsPath
  <2>2. <<>> \in Seq(Nat) /\ Starts(<<>>, p) /\ Len(<<>>) = 0
    BY <2>1 DEF Starts
  <2>3. PICK d \in Lands(t, <<>>) : d \in DOMAIN t.names /\ p[0 + 1] \in DOMAIN t.names[d]
    BY <2>1, <2>2, LandsThrough
  <2>4. d = t.top
    BY <2>3, LandsTop
  <2>5. Open(st, p, 1)
    BY <1>2, <1>4, <2>1, <2>2, <2>3, <2>4 DEF Open
  <2> QED
    BY <1>4, <2>5 DEF Pending
<1>10. Splits(t, st, wk)
  BY <1>7, <1>9 DEF Splits, Has
<1> QED
  BY <1>2, <1>4, <1>6, <1>7, <1>8, <1>10 DEF Walks

(* ... what a turn adds, ...                                               *)
LEMMA WalkFinds ==
    ASSUME NEW t, IsTree(t), IsFiniteSet(Inodes), NEW st, NEW vs, NEW wk, WalkedOK(t, wk), Walks(t, st, vs, wk),
           NEW n, NEW path, NEW ino, Turns(t, st, n, path, ino)
    PROVE  WalkedOK(t, Append(wk, [path |-> path, ino |-> ino]))
<1>1. StackOK(t, st) /\ Splits(t, st, wk)
  BY DEF Walks
<1>2. /\ path \in Seq(Nat) /\ path # <<>> /\ Len(path) = Len(st) /\ ino \in Inodes /\ ino \in Lands(t, path)
      /\ Pending(st, path) /\ IsPath(t, path)
  BY <1>1, TurnIs, PathPending
<1>3. Len(path) <= Cardinality(DOMAIN t.names)
  BY <1>1, <1>2, StackHigh
<1>4. PICK e \in Found : e = [path |-> path, ino |-> ino] /\ e.path = path /\ e.ino = ino
  <2>1. [path |-> path, ino |-> ino] \in Found
    BY <1>2 DEF Found
  <2> QED
    BY <2>1
<1>5. FoundOK(t, e)
  BY <1>2, <1>3, <1>4 DEF FoundOK
<1>6. PICK l \in Nat : l = Len(wk)
  BY DEF WalkedOK
<1>7. PICK w : w = Append(wk, e)
  OBVIOUS
<1>8. w \in Seq(Found) /\ Len(w) = l + 1 /\ w[l + 1] = e /\ \A k \in 1..l : w[k] = wk[k]
  <2>1. wk \in Seq(Found)
    BY DEF WalkedOK
  <2> QED
    BY <1>6, <1>7, <2>1, AppendProperties
<1>9. \A k \in 1..l : FoundOK(t, wk[k]) /\ Before(wk[k].path, path)
  BY <1>1, <1>2, <1>6 DEF WalkedOK, Splits
<1>10. \A k \in 1..(l + 1) : k \in 1..l \/ k = l + 1
  OBVIOUS
<1>11. \A k \in 1..Len(w) : FoundOK(t, w[k])
  BY <1>5, <1>8, <1>9, <1>10
<1>12. ASSUME NEW j \in 1..Len(w), NEW k \in 1..Len(w), j < k
       PROVE  Before(w[j].path, w[k].path)
  <2>1. j \in 1..l
    BY <1>8, <1>12
  <2>2. CASE k \in 1..l
    <3>1. Before(wk[j].path, wk[k].path)
      BY <1>6, <1>12, <2>1, <2>2 DEF WalkedOK
    <3> QED
      BY <1>8, <2>1, <2>2, <3>1
  <2>3. CASE k = l + 1
    BY <1>4, <1>8, <1>9, <2>1, <2>3
  <2> QED
    BY <1>8, <1>10, <2>2, <2>3
<1> QED
  BY <1>4, <1>7, <1>8, <1>11, <1>12 DEF WalkedOK

(* ... and where it leaves the walk.                                       *)
LEMMA WalkTurns ==
    ASSUME NEW t, IsTree(t), NEW st, NEW vs, NEW wk, WalkedOK(t, wk), Walks(t, st, vs, wk),
           NEW n, NEW path, NEW ino, Turns(t, st, n, path, ino), ino \in DOMAIN t.names => ino \notin vs,
           NEW su \in Seq(Levels), TurnTo(t, st, n, path, ino, su),
           NEW vt, vt = (IF ino \in DOMAIN t.names THEN vs \cup {ino} ELSE vs)
    PROVE  Walks(t, su, vt, Append(wk, [path |-> path, ino |-> ino]))
<1>1. StackOK(t, st) /\ Splits(t, st, wk) /\ Visits(t, vs, wk) /\ DirsOnce(t, wk)
  BY DEF Walks
<1>2. path \in Seq(Nat) /\ ino \in Inodes /\ Pending(st, path) /\ IsPath(t, path) /\ Len(st) \in Nat
  BY <1>1, TurnIs, PathPending
<1>3. PICK e \in Found : e = [path |-> path, ino |-> ino] /\ e.path = path /\ e.ino = ino
  <2>1. [path |-> path, ino |-> ino] \in Found
    BY <1>2 DEF Found
  <2> QED
    BY <2>1
<1>4. PICK l \in Nat : l = Len(wk)
  BY DEF WalkedOK
<1>5. PICK w : w = Append(wk, e)
  OBVIOUS
<1>6. w \in Seq(Found) /\ Len(w) = l + 1 /\ w[l + 1] = e /\ \A k \in 1..l : w[k] = wk[k]
  <2>1. wk \in Seq(Found)
    BY DEF WalkedOK
  <2> QED
    BY <1>4, <1>5, <2>1, AppendProperties
<1>7. \A k \in 1..(l + 1) : k \in 1..l \/ k = l + 1
  OBVIOUS
<1>8. \A k \in 1..l : k \in 1..(l + 1)
  OBVIOUS
<1>9. \A k \in 1..Len(st) : st[k].dir \in vs
  BY DEF Walks
<1>10. StackOK(t, su)
  BY <1>1, <1>9, StackStays
<1>11. \A k \in 1..Len(su) : su[k].dir \in vt
  <2>1. PICK h \in Nat : h = Len(st)
    BY <1>2
  <2>2. /\ Len(su) = (IF ino \in DOMAIN t.names THEN h + 1 ELSE h)
        /\ (\A k \in 1..(h - 1) : su[k] = st[k]) /\ su[h].dir = st[h].dir
        /\ ino \in DOMAIN t.names => su[h + 1].dir = ino
    BY <2>1 DEF TurnTo
  <2>3. vs \subseteq vt /\ (ino \in DOMAIN t.names => ino \in vt)
    OBVIOUS
  <2>4. ASSUME NEW k \in 1..h
        PROVE  su[k].dir \in vt
    <3>1. k = h \/ k \in 1..(h - 1)
      OBVIOUS
    <3> QED
      BY <1>9, <2>1, <2>2, <2>3, <3>1
  <2>5. ASSUME NEW k \in 1..Len(su), k \notin 1..h
        PROVE  su[k].dir \in vt
    <3>1. ino \in DOMAIN t.names /\ k = h + 1
      BY <2>2, <2>5
    <3> QED
      BY <2>2, <2>3, <3>1
  <2> QED
    BY <2>4, <2>5
<1>12. Visits(t, vt, w)
  <2>1. SUFFICES ASSUME NEW i \in DOMAIN t.names
                 PROVE  i \in vt <=> i = t.top \/ \E k \in 1..Len(w) : w[k].ino = i
    BY DEF Visits
  <2>2. i \in vs <=> i = t.top \/ \E k \in 1..l : wk[k].ino = i
    BY <1>1, <1>4 DEF Visits
  <2>3. i \in vt <=> i \in vs \/ i = ino
    OBVIOUS
  <2>4. (\E k \in 1..(l + 1) : w[k].ino = i) <=> (\E k \in 1..l : wk[k].ino = i) \/ i = ino
    <3>1. l + 1 \in 1..(l + 1)
      OBVIOUS
    <3> QED
      BY <1>3, <1>6, <1>7, <1>8, <3>1
  <2> QED
    BY <1>6, <2>2, <2>3, <2>4
<1>13. DirsOnce(t, w)
  <2>1. ino # t.top
    <3>1. t.top \in vs
      BY <1>1 DEF Visits, Walks
    <3> QED
      BY <3>1 DEF Walks
  <2>2. \A k \in 1..l : wk[k].ino # t.top /\ (wk[k].ino = ino => ino \notin DOMAIN t.names)
    BY <1>1, <1>4 DEF DirsOnce, Visits
  <2>3. \A k \in 1..Len(w) : w[k].ino # t.top
    BY <1>3, <1>6, <1>7, <2>1, <2>2
  <2>4. ASSUME NEW j \in 1..Len(w), NEW k \in 1..Len(w), j < k, w[j].ino = w[k].ino
        PROVE  w[j].ino \notin DOMAIN t.names
    <3>1. j \in 1..l
      BY <1>6, <2>4
    <3>2. CASE k \in 1..l
      <4>1. wk[j].ino = wk[k].ino
        BY <1>6, <2>4, <3>1, <3>2
      <4>2. wk[j].ino \notin DOMAIN t.names
        BY <1>1, <1>4, <2>4, <3>1, <3>2, <4>1 DEF DirsOnce
      <4> QED
        BY <1>6, <3>1, <4>2
    <3>3. CASE k = l + 1
      BY <1>3, <1>6, <2>2, <2>4, <3>1, <3>3
    <3> QED
      BY <1>6, <1>7, <3>2, <3>3
  <2> QED
    BY <2>3, <2>4 DEF DirsOnce
<1>14. Splits(t, su, w)
  <2>1. SUFFICES ASSUME NEW p, IsPath(t, p)
                 PROVE  /\ Has(w, p) <=> ~Pending(su, p)
                        /\ Pending(su, p) => \A k \in 1..Len(w) : Before(w[k].path, p)
    BY DEF Splits
  <2>2. Pending(su, p) <=> Pending(st, p) /\ p # path
    BY <1>1, <2>1, PendingLess
  <2>3. /\ Has(wk, p) <=> ~Pending(st, p)
        /\ Pending(st, p) => \A k \in 1..l : Before(wk[k].path, p)
    BY <1>1, <1>4, <2>1 DEF Splits
  <2>4. Has(w, p) <=> Has(wk, p) \/ p = path
    <3>1. l + 1 \in 1..(l + 1)
      OBVIOUS
    <3> QED
      BY <1>3, <1>4, <1>6, <1>7, <1>8, <3>1 DEF Has
  <2>5. ASSUME Pending(su, p)
        PROVE  \A k \in 1..Len(w) : Before(w[k].path, p)
    <3>1. p \in Seq(Nat)
      BY <2>1 DEF IsPath
    <3>2. Before(path, p)
      BY <1>1, <2>5, <3>1, PathFirst
    <3>3. \A k \in 1..l : Before(w[k].path, p)
      BY <1>6, <2>2, <2>3, <2>5
    <3> QED
      BY <1>3, <1>6, <1>7, <3>2, <3>3
  <2> QED
    BY <2>2, <2>3, <2>4, <2>5
<1> QED
  BY <1>3, <1>5, <1>10, <1>11, <1>12, <1>13, <1>14 DEF Walks

-----------------------------------------------------------------------------
(* What the properties say, in trails.                                     *)

Short(t, p) == Len(p) <= Cardinality(DOMAIN t.names)
Reach(t, p) == p = <<>> \/ (IsPath(t, p) /\ Short(t, p))
Twice(t) ==
    \E p, q : /\ Reach(t, p) /\ Reach(t, q) /\ p # q
              /\ \E d \in DOMAIN t.names : d \in Lands(t, p) /\ d \in Lands(t, q)

(* `Paths` are the paths that are not too long.                            *)
LEMMA PathsAre ==
    ASSUME IsTree(tree), IsFiniteSet(Inodes), NEW p
    PROVE  p \in Paths <=> IsPath(tree, p) /\ Short(tree, p)
<1>1. PICK names : names = UNION {DOMAIN tree.names[d] : d \in DOMAIN tree.names}
  OBVIOUS
<1>2. names \subseteq Nat
  BY <1>1 DEF IsTree
<1>3. PICK c \in Nat : c = Cardinality(DOMAIN tree.names)
  <2>1. DOMAIN tree.names \subseteq Inodes
    BY DEF IsTree
  <2> QED
    BY <2>1, FS_Subset, FS_CardinalityType
<1>4. p \in Paths <=> (\E k \in 1..c : p \in [1..k -> names]) /\ Lead[p] # {}
  BY <1>1, <1>3 DEF Paths
<1>5. \A q \in Seq(Nat) : Lead[q] = Lands(tree, q)
  BY LeadIs
<1>6. ASSUME NEW k \in 1..c, p \in [1..k -> names], Lead[p] # {}
      PROVE  IsPath(tree, p) /\ Short(tree, p)
  <2>1. k \in Nat /\ k > 0 /\ k <= c
    OBVIOUS
  <2>2. p \in [1..k -> Nat]
    BY <1>2, <1>6
  <2>3. p \in Seq(Nat) /\ Len(p) = k
    BY <2>1, <2>2
  <2>4. p # <<>>
    BY <2>1, <2>3
  <2> QED
    BY <1>3, <1>5, <1>6, <2>1, <2>3, <2>4 DEF IsPath, Short
<1>7. ASSUME IsPath(tree, p), Short(tree, p)
      PROVE  (\E k \in 1..c : p \in [1..k -> names]) /\ Lead[p] # {}
  <2>1. p \in Seq(Nat) /\ p # <<>> /\ Lands(tree, p) # {} /\ Len(p) <= c
    BY <1>3, <1>7 DEF IsPath, Short
  <2>2. Len(p) \in 1..c
    BY <2>1, EmptySeq
  <2>3. \A k \in 1..Len(p) : p[k] \in names
    BY <1>1, <2>1, LandsNames
  <2>4. p \in [1..Len(p) -> names]
    BY <2>1, <2>3
  <2> QED
    BY <1>5, <2>1, <2>2, <2>4
<1> QED
  BY <1>4, <1>6, <1>7

(* Where such a path leads, `Lead` says.                                   *)
LEMMA LeadOf ==
    ASSUME IsTree(tree), NEW p \in Seq(Nat), NEW i, i \in Lands(tree, p)
    PROVE  Lead[p] = {i}
<1>1. Lead[p] = Lands(tree, p)
  BY LeadIs
<1>2. \A j \in Lands(tree, p) : j = i
  BY LandsOnce
<1> QED
  BY <1>1, <1>2

(* ... and a path that can be reached leads somewhere.                     *)
LEMMA ReachLands ==
    ASSUME NEW t, IsTree(t), NEW p, Reach(t, p)
    PROVE  p \in Seq(Nat) /\ \E i \in Inodes : i \in Lands(t, p)
<1>1. <<>> \in Seq(Nat) /\ t.top \in Lands(t, <<>>) /\ t.top \in Inodes
  BY LandsTop DEF IsTree
<1> QED
  BY <1>1 DEF Reach, IsPath, Lands

(* `Tangled` is some directory being reached twice.                        *)
LEMMA TangledIs ==
    ASSUME IsTree(tree), IsFiniteSet(Inodes)
    PROVE  Tangled <=> Twice(tree)
<1>1. \A p : p \in Paths \union {<<>>} <=> Reach(tree, p)
  BY PathsAre DEF Reach
<1>2. \A i \in Inodes : IsDir(i) <=> i \in DOMAIN tree.names
  BY DEF IsTree, IsDir
<1>3. ASSUME Tangled
      PROVE  Twice(tree)
  <2>1. PICK p, q : Reach(tree, p) /\ Reach(tree, q) /\ p # q /\ Lead[p] = Lead[q] /\ \A i \in Lead[p] : IsDir(i)
    BY <1>1, <1>3 DEF Tangled
  <2>2. p \in Seq(Nat) /\ q \in Seq(Nat)
    BY <2>1, ReachLands
  <2>3. PICK i \in Inodes : i \in Lands(tree, p)
    BY <2>1, ReachLands
  <2>4. PICK j \in Inodes : j \in Lands(tree, q)
    BY <2>1, ReachLands
  <2>5. Lead[p] = {i} /\ Lead[q] = {j}
    BY <2>2, <2>3, <2>4, LeadOf
  <2>6. i = j /\ i \in DOMAIN tree.names
    BY <1>2, <2>1, <2>5
  <2> QED
    BY <2>1, <2>3, <2>4, <2>6 DEF Twice
<1>4. ASSUME Twice(tree)
      PROVE  Tangled
  <2>1. PICK p, q : /\ Reach(tree, p) /\ Reach(tree, q) /\ p # q
                    /\ \E d \in DOMAIN tree.names : d \in Lands(tree, p) /\ d \in Lands(tree, q)
    BY <1>4 DEF Twice
  <2>2. PICK d \in DOMAIN tree.names : d \in Lands(tree, p) /\ d \in Lands(tree, q)
    BY <2>1
  <2>3. p \in Seq(Nat) /\ q \in Seq(Nat)
    BY <2>1, ReachLands
  <2>4. Lead[p] = {d} /\ Lead[q] = {d}
    BY <2>2, <2>3, LeadOf
  <2>5. IsDir(d)
    BY <2>2 DEF IsTree, IsDir
  <2>6. p \in Paths \union {<<>>} /\ q \in Paths \union {<<>>}
    BY <1>1, <2>1
  <2> QED
    BY <2>1, <2>4, <2>5, <2>6 DEF Tangled
<1> QED
  BY <1>3, <1>4

(* A directory met again is reached twice.                                 *)
LEMMA MetAgain ==
    ASSUME NEW t, IsTree(t), IsFiniteSet(Inodes), NEW st, NEW vs, NEW wk, WalkedOK(t, wk), Walks(t, st, vs, wk),
           NEW n, NEW path, NEW ino, Turns(t, st, n, path, ino), ino \in DOMAIN t.names, ino \in vs
    PROVE  Twice(t)
<1>1. StackOK(t, st) /\ Splits(t, st, wk) /\ Visits(t, vs, wk)
  BY DEF Walks
<1>2. Len(path) = Len(st) /\ path # <<>> /\ ino \in Lands(t, path) /\ Pending(st, path) /\ IsPath(t, path)
  BY <1>1, TurnIs, PathPending
<1>3. Reach(t, path)
  BY <1>1, <1>2, StackHigh DEF Reach, Short
<1>4. CASE ino = t.top
  <2>1. ino \in Lands(t, <<>>)
    BY <1>4, LandsTop
  <2> QED
    BY <1>2, <1>3, <2>1 DEF Twice, Reach
<1>5. CASE ino # t.top
  <2>1. PICK k \in 1..Len(wk) : wk[k].ino = ino
    BY <1>1, <1>5 DEF Visits
  <2>2. PICK q : q = wk[k].path
    OBVIOUS
  <2>3. wk[k] \in Found /\ FoundOK(t, wk[k])
    BY ElementOfSeq DEF WalkedOK
  <2>4. q \in Seq(Nat) /\ q # <<>> /\ ino \in Lands(t, q) /\ Short(t, q)
    BY <2>1, <2>2, <2>3 DEF Found, FoundOK, Short
  <2>5. Reach(t, q)
    BY <2>4 DEF Reach, IsPath
  <2>6. q # path
    <3>1. ~ Has(wk, path)
      BY <1>1, <1>2 DEF Splits
    <3> QED
      BY <2>2, <3>1 DEF Has
  <2> QED
    BY <1>2, <1>3, <2>4, <2>5, <2>6 DEF Twice
<1> QED
  BY <1>4, <1>5

(* A walk that is through has not.                                         *)
LEMMA NotTwice ==
    ASSUME NEW t, IsTree(t), NEW wk, WalkedOK(t, wk), DirsOnce(t, wk), Covers(t, wk)
    PROVE  ~ Twice(t)
<1>1. SUFFICES ASSUME NEW p, NEW q, Reach(t, p), Reach(t, q), p # q, NEW d \in DOMAIN t.names,
                      d \in Lands(t, p), d \in Lands(t, q)
               PROVE  FALSE
  BY DEF Twice
<1>2. ASSUME NEW r, Reach(t, r), r # <<>>, d \in Lands(t, r)
      PROVE  \E k \in 1..Len(wk) : wk[k].path = r /\ wk[k].ino = d
  <2>1. IsPath(t, r) /\ r \in Seq(Nat)
    BY <1>2 DEF Reach, IsPath
  <2>2. PICK k \in 1..Len(wk) : wk[k].path = r
    BY <2>1 DEF Covers, Has
  <2>3. wk[k].ino \in Lands(t, r)
    BY <2>2 DEF WalkedOK, FoundOK
  <2>4. wk[k].ino = d
    BY <1>2, <2>1, <2>3, LandsOnce
  <2> QED
    BY <2>2, <2>4
<1>3. ASSUME NEW r, Reach(t, r), r # <<>>, d \in Lands(t, r)
      PROVE  d # t.top
  BY <1>2, <1>3 DEF DirsOnce
<1>4. d \in Lands(t, <<>>) => d = t.top
  BY LandsTop
<1>5. p # <<>> /\ q # <<>>
  BY <1>1, <1>3, <1>4
<1>6. PICK j \in 1..Len(wk) : wk[j].path = p /\ wk[j].ino = d
  BY <1>1, <1>2, <1>5
<1>7. PICK k \in 1..Len(wk) : wk[k].path = q /\ wk[k].ino = d
  BY <1>1, <1>2, <1>5
<1>8. j # k /\ Len(wk) \in Nat
  BY <1>1, <1>6, <1>7 DEF WalkedOK
<1>9. j < k \/ k < j
  BY <1>8
<1> QED
  BY <1>6, <1>7, <1>9 DEF DirsOnce

-----------------------------------------------------------------------------
(* The walk's invariant: what was walked is sound at every moment, and     *)
(* complete once the stack is empty.                                       *)
Through == DirsOnce(tree, walked) /\ Covers(tree, walked)
WalkInv ==
    /\ IsTree(tree) /\ WalkedOK(tree, walked)
    /\ pc = "walk" => Walks(tree, stack, visited, walked)
    /\ pc \notin {"walk", "failed"} => Through
    /\ (pc = "failed" /\ job = "pack" /\ IsDir(tree.top)) => Twice(tree)

(* ExportAssumption, in this module's words.                               *)
LEMMA TreesAre ==
    IsFiniteSet(Inodes) /\ \A t \in Trees : IsTree(t)
BY ExportAssumption DEF IsTree

(* A walk whose stack is empty has been everywhere.                        *)
LEMMA WalkedAll ==
    ASSUME NEW t, NEW vs, NEW wk, Walks(t, <<>>, vs, wk)
    PROVE  DirsOnce(t, wk) /\ Covers(t, wk)
<1>1. \A p : ~ Pending(<<>>, p)
  BY DEF Pending
<1> QED
  BY <1>1 DEF Walks, Splits, Covers

(* The invariant at the start.                                             *)
LEMMA WalkInvInit == Init => WalkInv
<1>1. SUFFICES ASSUME Init PROVE WalkInv
  OBVIOUS
<1>2. IsTree(tree)
  BY <1>1, TreesAre DEF Init
<1>3. IsDir(tree.top) <=> tree.top \in DOMAIN tree.names
  BY <1>2 DEF IsTree, IsDir
<1>4. walked = <<>> /\ visited = {tree.top} /\ pc \in {"walk", "failed"}
  BY <1>1 DEF Init
<1>5. WalkedOK(tree, <<>>)
  <2>1. PICK wk : wk = <<>> /\ wk \in Seq(Found) /\ Len(wk) = 0
    BY EmptySeq
  <2> QED
    BY <2>1 DEF WalkedOK
<1>6. pc = "walk" => Walks(tree, stack, visited, walked)
  <2>1. SUFFICES ASSUME pc = "walk" PROVE Walks(tree, stack, visited, walked)
    OBVIOUS
  <2>2. IsDir(tree.top) /\ stack = <<Level(<<>>, tree.top)>>
    BY <1>1, <2>1 DEF Init
  <2> QED
    BY <1>2, <1>3, <1>4, <2>2, WalkStarts DEF Level
<1>7. ~ (pc = "failed" /\ IsDir(tree.top))
  BY <1>1 DEF Init
<1> QED
  BY <1>2, <1>4, <1>5, <1>6, <1>7 DEF WalkInv

(* A name dealt with.                                                      *)
LEMMA WalkNameInv == WalkInv /\ WalkName => WalkInv'
<1>1. SUFFICES ASSUME WalkInv, WalkName PROVE WalkInv'
  OBVIOUS
<1>2. PICK t, st, vs, wk : t = tree /\ st = stack /\ vs = visited /\ wk = walked
  OBVIOUS
<1>3. IsTree(t) /\ WalkedOK(t, wk) /\ Walks(t, st, vs, wk) /\ IsFiniteSet(Inodes)
  BY <1>1, <1>2, TreesAre DEF WalkInv, WalkName
<1>4. st # <<>> /\ Last(st).rest # {} /\ StackOK(t, st)
  BY <1>1, <1>2, <1>3 DEF WalkName, Walks
<1>5. PICK n : n = Min(Last(st).rest)
  OBVIOUS
<1>6. PICK ino, path : ino = t.names[Last(st).dir][n] /\ path = Append(Last(st).prefix, n)
  OBVIOUS
<1>7. Turns(t, st, n, path, ino)
  BY <1>3, <1>4, <1>5, <1>6, TurnOf
<1>8. PICK w : w = Append(wk, [path |-> path, ino |-> ino])
  OBVIOUS
<1>9. tree' = t /\ job' = job /\ walked' = w /\ pc = "walk"
  BY <1>1, <1>2, <1>5, <1>6, <1>8 DEF WalkName, CopyVars
<1>10. \/ /\ ~IsDir(ino) /\ stack' = Popped(st, n)
          /\ pc' = pc /\ visited' = vs
       \/ IsDir(ino) /\ ino \in vs /\ pc' = "failed"
       \/ /\ IsDir(ino) /\ ino \notin vs /\ visited' = vs \union {ino}
          /\ stack' = Append(Popped(st, n), Level(path, ino))
          /\ pc' = pc
  BY <1>1, <1>2, <1>5, <1>6 DEF WalkName, Popped
<1>11. IsDir(ino) <=> ino \in DOMAIN t.names
  <2>1. ino \in Inodes
    BY <1>3, <1>4, <1>7, TurnIs
  <2> QED
    BY <1>2, <1>3, <2>1 DEF IsTree, IsDir
<1>12. WalkedOK(t, w)
  BY <1>3, <1>7, <1>8, WalkFinds
<1>13. CASE ~IsDir(ino) /\ stack' = Popped(st, n) /\ pc' = pc /\ visited' = vs
  <2>1. Popped(st, n) \in Seq(Levels) /\ TurnTo(t, st, n, path, ino, Popped(st, n))
    BY <1>3, <1>4, <1>7, <1>11, <1>13, Went
  <2>2. vs = (IF ino \in DOMAIN t.names THEN vs \cup {ino} ELSE vs)
    BY <1>11, <1>13
  <2>3. Walks(t, stack', visited', w)
    BY <1>3, <1>7, <1>8, <1>11, <1>13, <2>1, <2>2, WalkTurns
  <2> QED
    BY <1>3, <1>9, <1>12, <1>13, <2>3 DEF WalkInv
<1>14. CASE IsDir(ino) /\ ino \in vs /\ pc' = "failed"
  <2>1. Twice(t)
    BY <1>3, <1>7, <1>11, <1>14, MetAgain
  <2> QED
    BY <1>3, <1>9, <1>12, <1>14, <2>1 DEF WalkInv
<1>15. CASE /\ IsDir(ino) /\ ino \notin vs /\ visited' = vs \union {ino}
            /\ stack' = Append(Popped(st, n), Level(path, ino)) /\ pc' = pc
  <2>1. PICK su : su = Append(Popped(st, n), [prefix |-> path, dir |-> ino, rest |-> DOMAIN t.names[ino]])
    OBVIOUS
  <2>2. su \in Seq(Levels) /\ TurnTo(t, st, n, path, ino, su) /\ stack' = su
    BY <1>2, <1>3, <1>4, <1>7, <1>11, <1>15, <2>1, Went DEF Level
  <2>3. visited' = (IF ino \in DOMAIN t.names THEN vs \cup {ino} ELSE vs)
    BY <1>11, <1>15
  <2>4. Walks(t, stack', visited', w)
    BY <1>3, <1>7, <1>8, <1>15, <2>2, <2>3, WalkTurns
  <2> QED
    BY <1>3, <1>9, <1>12, <1>15, <2>4 DEF WalkInv
<1> QED
  BY <1>10, <1>13, <1>14, <1>15

(* A directory left.                                                       *)
LEMMA WalkUpInv == WalkInv /\ WalkUp => WalkInv'
<1>1. SUFFICES ASSUME WalkInv, WalkUp PROVE WalkInv'
  OBVIOUS
<1>2. PICK t, st, vs, wk : t = tree /\ st = stack /\ vs = visited /\ wk = walked
  OBVIOUS
<1>3. IsTree(t) /\ WalkedOK(t, wk) /\ Walks(t, st, vs, wk)
  BY <1>1, <1>2 DEF WalkInv, WalkUp
<1>4. st # <<>> /\ Last(st).rest = {} /\ StackOK(t, st)
  BY <1>1, <1>2, <1>3 DEF WalkUp, Walks
<1>5. PICK su : su = Front(st)
  OBVIOUS
<1>6. tree' = t /\ walked' = wk /\ visited' = vs /\ stack' = su /\ pc' = "walk"
  BY <1>1, <1>2, <1>5 DEF WalkUp, CopyVars
<1>7. StackOK(t, su) /\ \A p : Pending(su, p) <=> Pending(st, p)
  BY <1>4, <1>5, StackUp
<1>8. \A k \in 1..Len(su) : k \in 1..Len(st) /\ su[k] = st[k]
  <2>1. st \in Seq(Levels)
    BY <1>4 DEF StackOK, Levels
  <2> QED
    BY <1>4, <1>5, <2>1, FrontIs
<1>9. Walks(t, su, vs, wk)
  <2>1. \A k \in 1..Len(su) : su[k].dir \in vs
    BY <1>3, <1>8 DEF Walks
  <2>2. Splits(t, su, wk)
    BY <1>3, <1>7 DEF Walks, Splits
  <2> QED
    BY <1>3, <1>7, <2>1, <2>2 DEF Walks
<1> QED
  BY <1>3, <1>6, <1>9 DEF WalkInv

(* The walk over.                                                          *)
LEMMA WalkDoneInv == WalkInv /\ WalkDone => WalkInv'
<1>1. SUFFICES ASSUME WalkInv, WalkDone PROVE WalkInv'
  OBVIOUS
<1>2. tree' = tree /\ walked' = walked /\ pc' = "copy" /\ stack = <<>> /\ pc = "walk"
  BY <1>1 DEF WalkDone, CopyVars
<1>3. IsTree(tree) /\ WalkedOK(tree, walked) /\ Walks(tree, <<>>, visited, walked)
  BY <1>1, <1>2 DEF WalkInv
<1>4. Through
  BY <1>3, WalkedAll DEF Through
<1> QED
  BY <1>2, <1>3, <1>4 DEF WalkInv, Through

(* What comes after leaves what was walked alone.                          *)
LEMMA CopyWalkInv ==
    ASSUME WalkInv, pc \notin {"walk", "failed"}, pc' # "walk", UNCHANGED <<tree, job, walked>>,
           pc' = "failed" => job = "extract"
    PROVE  WalkInv'
<1>1. IsTree(tree) /\ WalkedOK(tree, walked) /\ Through
  BY DEF WalkInv
<1>2. tree' = tree /\ job' = job /\ walked' = walked
  OBVIOUS
<1> QED
  BY <1>1, <1>2 DEF WalkInv, Through

(* Every step keeps it.                                                    *)
LEMMA WalkInvNext == WalkInv /\ [Next]_vars => WalkInv'
<1>1. ASSUME WalkInv, UNCHANGED vars
      PROVE  WalkInv'
  BY <1>1 DEF vars, WalkInv, Through, IsDir
<1>2. ASSUME WalkInv, Pack \/ Extract \/ CopyDone \/ SetModes \/ ModesDone
      PROVE  WalkInv'
  <2>1. /\ pc \notin {"walk", "failed"} /\ pc' # "walk" /\ UNCHANGED <<tree, job, walked>>
        /\ pc' = "failed" => job = "extract"
    <3>1. CASE Pack
      BY <3>1 DEF Pack
    <3>2. CASE Extract
      BY <3>2 DEF Extract
    <3>3. CASE CopyDone
      BY <3>3 DEF CopyDone
    <3>4. CASE SetModes
      BY <3>4 DEF SetModes
    <3>5. CASE ModesDone
      BY <3>5 DEF ModesDone
    <3> QED
      BY <1>2, <3>1, <3>2, <3>3, <3>4, <3>5
  <2> QED
    BY <1>2, <2>1, CopyWalkInv
<1> QED
  BY <1>1, <1>2, WalkNameInv, WalkUpInv, WalkDoneInv DEF Next

(* It holds throughout.                                                    *)
LEMMA WalkInvHolds == Spec => []WalkInv
BY WalkInvInit, WalkInvNext, PTL DEF Spec

(* It says what WalkExact asks.                                            *)
LEMMA WalkInvExact == WalkInv => WalkExact
<1>1. SUFFICES ASSUME WalkInv PROVE WalkExact
  OBVIOUS
<1>2. IsTree(tree) /\ WalkedOK(tree, walked) /\ IsFiniteSet(Inodes)
  BY <1>1, TreesAre DEF WalkInv
<1>3. Tangled <=> Twice(tree)
  BY <1>2, TangledIs
<1>4. ASSUME pc \notin {"walk", "failed"}
      PROVE  ~Tangled /\ {walked[k].path : k \in 1..Len(walked)} = Paths
  <2>1. DirsOnce(tree, walked) /\ Covers(tree, walked)
    BY <1>1, <1>4 DEF WalkInv, Through
  <2>2. ~ Twice(tree)
    BY <1>2, <2>1, NotTwice
  <2>3. ASSUME NEW p \in Paths
        PROVE  \E k \in 1..Len(walked) : walked[k].path = p
    BY <1>2, <2>1, <2>3, PathsAre DEF Covers, Has
  <2>4. ASSUME NEW k \in 1..Len(walked)
        PROVE  walked[k].path \in Paths
    <3>1. PICK e : e = walked[k]
      OBVIOUS
    <3>2. e \in Found /\ FoundOK(tree, e)
      BY <1>2, <3>1, ElementOfSeq DEF WalkedOK
    <3>3. IsPath(tree, e.path) /\ Short(tree, e.path)
      BY <3>2 DEF Found, FoundOK, IsPath, Short
    <3> QED
      BY <1>2, <3>1, <3>3, PathsAre
  <2> QED
    BY <1>3, <2>2, <2>3, <2>4
<1>5. \A j, k \in 1..Len(walked) : j < k => Before(walked[j].path, walked[k].path)
  BY <1>2 DEF WalkedOK
<1>6. (pc = "failed" /\ job = "pack" /\ IsDir(tree.top)) => Tangled
  BY <1>1, <1>3 DEF WalkInv
<1> QED
  BY <1>4, <1>5, <1>6 DEF WalkExact

(* For every tree, however large and however damaged: the walk of          *)
(* volume.rs gives every path below the root once, in order, and goes on   *)
(* to the copy only if no directory can be reached by two paths; packing   *)
(* fails for no other reason.                                              *)
THEOREM WalkIsExact == Spec => []WalkExact
BY WalkInvHolds, WalkInvExact, PTL

-----------------------------------------------------------------------------
(* The copy.  `M` are the inodes of several names, `L` those left out.     *)

Out == [path : Seq(Nat), ino : Inodes, link : Seq(Nat)]
SeenOK(M, wk, n, sn) ==
    /\ \A i \in DOMAIN sn : i \in M /\ \E k \in 1..n : wk[k].ino = i /\ wk[k].path = sn[i]
    /\ \A k \in 1..n : wk[k].ino \in M => wk[k].ino \in DOMAIN sn

(* What was written is what was walked, the shared inodes under the path   *)
(* remembered or as links to it.                                           *)
Told(M, wk, n, sn, x) ==
    /\ \E k \in 1..n : wk[k].path = x.path /\ wk[k].ino = x.ino
    /\ x.link = <<>> => (x.ino \in M => sn[x.ino] = x.path)
    /\ x.link # <<>> => x.ino \in DOMAIN sn /\ x.link = sn[x.ino]
Wrote(ou, p) == \E k \in 1..Len(ou) : ou[k].path = p
Stored(ou, i, p) == \E k \in 1..Len(ou) : ou[k] = Contents(i, p)

(* `s`: nothing left out has links either.                                 *)
Lawful(L, s, ou, k) ==
    /\ ou[k].ino \in L => ~s /\ ou[k].link # <<>>
    /\ ou[k].link # <<>> /\ ou[k].ino \notin L => \E j \in 1..(k - 1) : ou[j] = Contents(ou[k].ino, ou[k].link)
    /\ \A j \in 1..(k - 1) : Before(ou[j].path, ou[k].path)
CopyOK(M, L, s, wk, n, sn, ou) ==
    /\ SeenOK(M, wk, n, sn)
    /\ ou \in Seq(Out) /\ \A k \in 1..Len(ou) : Told(M, wk, n, sn, ou[k]) /\ Lawful(L, s, ou, k)
    /\ \A k \in 1..n : wk[k].ino \notin L => Wrote(ou, wk[k].path)
    /\ \A i \in DOMAIN sn : i \notin L => Stored(ou, i, sn[i])

Learn(M, sn, i, p) ==
    IF i \in M THEN [x \in DOMAIN sn \union {i} |-> IF x \in DOMAIN sn THEN sn[x] ELSE p] ELSE sn

(* What is written stays.                                                  *)
LEMMA OutGrows ==
    ASSUME NEW ou \in Seq(Out), NEW x \in Out
    PROVE  LET ov == Append(ou, x) IN
           /\ ov \in Seq(Out) /\ (\A k \in 1..Len(ou) : ov[k] = ou[k])
           /\ Wrote(ov, x.path) /\ \A i : x = Contents(i, x.path) => Stored(ov, i, x.path)
           /\ \A k \in 1..Len(ov) : k \in 1..Len(ou) \/ ov[k] = x
           /\ \A p : Wrote(ou, p) => Wrote(ov, p)
           /\ \A i, p : Stored(ou, i, p) => Stored(ov, i, p)
<1>1. PICK l \in Nat : l = Len(ou)
  OBVIOUS
<1>2. PICK ov : ov = Append(ou, x)
  OBVIOUS
<1>3. ov \in Seq(Out) /\ Len(ov) = l + 1 /\ ov[l + 1] = x /\ \A k \in 1..l : ov[k] = ou[k]
  BY <1>1, <1>2, AppendProperties
<1>4. l + 1 \in 1..(l + 1) /\ \A k \in 1..(l + 1) : k \in 1..l \/ k = l + 1
  OBVIOUS
<1>5. \A k \in 1..l : k \in 1..(l + 1)
  OBVIOUS
<1>6. Wrote(ov, x.path) /\ \A i : x = Contents(i, x.path) => Stored(ov, i, x.path)
  BY <1>3, <1>4 DEF Wrote, Stored
<1>7. /\ \A p : Wrote(ou, p) => Wrote(ov, p)
      /\ \A i, p : Stored(ou, i, p) => Stored(ov, i, p)
  BY <1>1, <1>3, <1>5 DEF Wrote, Stored
<1> QED
  BY <1>1, <1>2, <1>3, <1>4, <1>6, <1>7

(* What comes after what is written, a link with what it leads to there.   *)
LEMMA LawGrows ==
    ASSUME NEW L, NEW s, NEW ou \in Seq(Out), \A k \in 1..Len(ou) : Lawful(L, s, ou, k), NEW x \in Out,
           x.ino \in L => ~s /\ x.link # <<>>,
           x.link # <<>> /\ x.ino \notin L => Stored(ou, x.ino, x.link),
           \A j \in 1..Len(ou) : Before(ou[j].path, x.path)
    PROVE  \A k \in 1..Len(Append(ou, x)) : Lawful(L, s, Append(ou, x), k)
<1>1. PICK l \in Nat : l = Len(ou)
  OBVIOUS
<1>2. PICK ov : ov = Append(ou, x)
  OBVIOUS
<1>3. Len(ov) = l + 1 /\ ov[l + 1] = x /\ \A k \in 1..l : ov[k] = ou[k]
  BY <1>1, <1>2, AppendProperties
<1>4. ASSUME NEW k \in 1..l
      PROVE  Lawful(L, s, ov, k)
  <2>1. Lawful(L, s, ou, k) /\ ov[k] = ou[k]
    BY <1>1, <1>3
  <2>2. \A j \in 1..(k - 1) : j \in 1..l /\ ov[j] = ou[j]
    BY <1>3
  <2> QED
    BY <2>1, <2>2 DEF Lawful
<1>5. Lawful(L, s, ov, l + 1)
  <2>1. (l + 1) - 1 = l
    OBVIOUS
  <2>2. x.link # <<>> /\ x.ino \notin L => \E j \in 1..l : ov[j] = Contents(x.ino, x.link)
    BY <1>1, <1>3 DEF Stored
  <2>3. \A j \in 1..l : Before(ov[j].path, x.path)
    BY <1>1, <1>3
  <2> QED
    BY <1>3, <2>1, <2>2, <2>3 DEF Lawful
<1>6. \A k \in 1..(l + 1) : k \in 1..l \/ k = l + 1
  OBVIOUS
<1> QED
  BY <1>2, <1>3, <1>4, <1>5, <1>6

(* The next path comes after what is written.                              *)
LEMMA NextAfter ==
    ASSUME NEW t, NEW M, NEW L, NEW s, NEW wk, WalkedOK(t, wk), NEW n \in Nat, n < Len(wk), NEW sn, NEW ou,
           CopyOK(M, L, s, wk, n, sn, ou)
    PROVE  \A j \in 1..Len(ou) : Before(ou[j].path, wk[n + 1].path)
<1>1. TAKE j \in 1..Len(ou)
<1>2. PICK k \in 1..n : wk[k].path = ou[j].path
  BY DEF CopyOK, Told
<1>3. k \in 1..Len(wk) /\ n + 1 \in 1..Len(wk) /\ k < n + 1
  BY DEF WalkedOK
<1> QED
  BY <1>2, <1>3 DEF WalkedOK

(* A further name.                                                         *)
LEMMA CopyLinks ==
    ASSUME NEW t, NEW M, NEW L, NEW s, NEW wk, WalkedOK(t, wk), NEW n \in Nat, n < Len(wk), NEW sn, NEW ou,
           CopyOK(M, L, s, wk, n, sn, ou), NEW e, e = wk[n + 1], e.ino \in DOMAIN sn, s => e.ino \notin L
    PROVE  CopyOK(M, L, s, wk, n + 1, sn, Append(ou, [path |-> e.path, ino |-> e.ino, link |-> sn[e.ino]]))
<1>1. n + 1 \in 1..Len(wk) /\ Len(wk) \in Nat
  BY DEF WalkedOK
<1>2. e \in Found
  BY <1>1, ElementOfSeq DEF WalkedOK
<1>3. PICK p, i, q : p = e.path /\ i = e.ino /\ q = sn[e.ino]
  OBVIOUS
<1>4. p \in Seq(Nat) /\ i \in Inodes
  BY <1>2, <1>3 DEF Found
<1>5. PICK k \in 1..n : wk[k].ino = i /\ wk[k].path = q
  BY <1>3 DEF CopyOK, SeenOK
<1>6. q \in Seq(Nat) /\ q # <<>>
  <2>1. k \in 1..Len(wk)
    BY <1>1
  <2>2. wk[k] \in Found /\ FoundOK(t, wk[k])
    BY <2>1, ElementOfSeq DEF WalkedOK
  <2> QED
    BY <1>5, <2>2 DEF Found, FoundOK
<1>7. PICK x : x = [path |-> p, ino |-> i, link |-> q]
  OBVIOUS
<1>8. x \in Out /\ x.path = p /\ x.ino = i /\ x.link = q
  BY <1>4, <1>6, <1>7 DEF Out
<1>9. PICK ov : ov = Append(ou, x)
  OBVIOUS
<1>10. ou \in Seq(Out)
  BY DEF CopyOK
<1>11. /\ ov \in Seq(Out) /\ (\A j \in 1..Len(ou) : ov[j] = ou[j]) /\ Wrote(ov, p)
       /\ \A j \in 1..Len(ov) : j \in 1..Len(ou) \/ ov[j] = x
  BY <1>8, <1>9, <1>10, OutGrows
<1>12. (\A r : Wrote(ou, r) => Wrote(ov, r)) /\ (\A a, r : Stored(ou, a, r) => Stored(ov, a, r))
  BY <1>8, <1>9, <1>10, OutGrows
<1>13. \A j \in 1..(n + 1) : j \in 1..n \/ j = n + 1
  OBVIOUS
<1>14. n + 1 \in 1..(n + 1) /\ \A j \in 1..n : j \in 1..(n + 1)
  OBVIOUS
<1>15. SeenOK(M, wk, n + 1, sn)
  BY <1>13, <1>14 DEF CopyOK, SeenOK
<1>16. Told(M, wk, n + 1, sn, x)
  BY <1>3, <1>6, <1>8, <1>14 DEF Told
<1>17. ASSUME NEW j \in 1..Len(ou)
       PROVE  Told(M, wk, n + 1, sn, ou[j])
  <2>1. Told(M, wk, n, sn, ou[j])
    BY DEF CopyOK
  <2> QED
    BY <1>14, <2>1 DEF Told
<1>18. \A j \in 1..Len(ov) : Told(M, wk, n + 1, sn, ov[j])
  BY <1>11, <1>16, <1>17
<1>19. \A j \in 1..(n + 1) : wk[j].ino \notin L => Wrote(ov, wk[j].path)
  BY <1>3, <1>11, <1>12, <1>13 DEF CopyOK
<1>20. \A j \in DOMAIN sn : j \notin L => Stored(ov, j, sn[j])
  BY <1>12 DEF CopyOK
<1>21. \A j \in 1..Len(ov) : Lawful(L, s, ov, j)
  <2>1. \A j \in 1..Len(ou) : Lawful(L, s, ou, j)
    BY DEF CopyOK
  <2>2. x.ino \notin L => Stored(ou, x.ino, x.link)
    BY <1>3, <1>8 DEF CopyOK
  <2>3. \A j \in 1..Len(ou) : Before(ou[j].path, x.path)
    BY <1>3, <1>8, NextAfter
  <2> QED
    BY <1>3, <1>6, <1>8, <1>9, <1>10, <2>1, <2>2, <2>3, LawGrows
<1> QED
  BY <1>3, <1>7, <1>9, <1>11, <1>15, <1>18, <1>19, <1>20, <1>21 DEF CopyOK

(* What is remembered with one name more.                                  *)
Grown(M, wk, n, sn, e, sm) ==
    /\ SeenOK(M, wk, n + 1, sm)
    /\ \A i \in DOMAIN sn : i \in DOMAIN sm /\ sm[i] = sn[i]
    /\ \A i \in DOMAIN sm : i \in DOMAIN sn \/ (i = e.ino /\ sm[i] = e.path)
    /\ e.ino \in M => sm[e.ino] = e.path
    /\ \A x : Told(M, wk, n, sn, x) => Told(M, wk, n + 1, sm, x)

(* A first name remembered: what was said before stays true.               *)
LEMMA SeenGrows ==
    ASSUME NEW M, NEW wk, NEW n \in Nat, NEW sn, SeenOK(M, wk, n, sn), NEW e, e = wk[n + 1], e.ino \notin DOMAIN sn,
           NEW sm, sm = Learn(M, sn, e.ino, e.path)
    PROVE  Grown(M, wk, n, sn, e, sm)
<1>1. \A i \in DOMAIN sn : i \in DOMAIN sm /\ sm[i] = sn[i]
  BY DEF Learn
<1>2. \A i \in DOMAIN sm : i \in DOMAIN sn \/ (i = e.ino /\ i \in M /\ sm[i] = e.path)
  BY DEF Learn
<1>3. e.ino \in M => e.ino \in DOMAIN sm /\ sm[e.ino] = e.path
  BY DEF Learn
<1>4. \A j \in 1..(n + 1) : j \in 1..n \/ j = n + 1
  OBVIOUS
<1>5. n + 1 \in 1..(n + 1) /\ \A j \in 1..n : j \in 1..(n + 1)
  OBVIOUS
<1>6. SeenOK(M, wk, n + 1, sm)
  <2>1. ASSUME NEW i \in DOMAIN sm
        PROVE  i \in M /\ \E k \in 1..(n + 1) : wk[k].ino = i /\ wk[k].path = sm[i]
    <3>1. CASE i \in DOMAIN sn
      BY <1>1, <1>5, <3>1 DEF SeenOK
    <3>2. CASE i = e.ino /\ i \in M /\ sm[i] = e.path
      BY <1>5, <3>2
    <3> QED
      BY <1>2, <3>1, <3>2
  <2>2. ASSUME NEW k \in 1..(n + 1), wk[k].ino \in M
        PROVE  wk[k].ino \in DOMAIN sm
    <3>1. CASE k \in 1..n
      BY <1>1, <2>2, <3>1 DEF SeenOK
    <3>2. CASE k = n + 1
      BY <1>3, <2>2, <3>2
    <3> QED
      BY <1>4, <3>1, <3>2
  <2> QED
    BY <2>1, <2>2 DEF SeenOK
<1>7. ASSUME NEW x, Told(M, wk, n, sn, x)
      PROVE  Told(M, wk, n + 1, sm, x)
  <2>1. PICK k \in 1..n : wk[k].path = x.path /\ wk[k].ino = x.ino
    BY <1>7 DEF Told
  <2>2. x.ino \in M => x.ino \in DOMAIN sn /\ sm[x.ino] = sn[x.ino]
    BY <1>1, <2>1 DEF SeenOK
  <2>3. x.link = <<>> => (x.ino \in M => sm[x.ino] = x.path)
    BY <1>7, <2>2 DEF Told
  <2>4. x.link # <<>> => x.ino \in DOMAIN sm /\ x.link = sm[x.ino]
    BY <1>1, <1>7 DEF Told
  <2> QED
    BY <1>5, <2>1, <2>3, <2>4 DEF Told
<1> QED
  BY <1>1, <1>2, <1>3, <1>6, <1>7 DEF Grown

(* An inode left out.                                                      *)
LEMMA CopySkips ==
    ASSUME NEW M, NEW L, NEW s, NEW wk, NEW n \in Nat, NEW sn, NEW ou, CopyOK(M, L, s, wk, n, sn, ou),
           NEW e, e = wk[n + 1], e.ino \notin DOMAIN sn, e.ino \in L
    PROVE  CopyOK(M, L, s, wk, n + 1, Learn(M, sn, e.ino, e.path), ou)
<1>1. PICK sm : sm = Learn(M, sn, e.ino, e.path)
  OBVIOUS
<1>2. SeenOK(M, wk, n, sn) /\ ou \in Seq(Out)
  BY DEF CopyOK
<1>3. /\ SeenOK(M, wk, n + 1, sm)
      /\ \A i \in DOMAIN sn : i \in DOMAIN sm /\ sm[i] = sn[i]
      /\ \A i \in DOMAIN sm : i \in DOMAIN sn \/ (i = e.ino /\ sm[i] = e.path)
      /\ \A x : Told(M, wk, n, sn, x) => Told(M, wk, n + 1, sm, x)
  <2>1. Grown(M, wk, n, sn, e, sm)
    BY <1>1, <1>2, SeenGrows
  <2> QED
    BY <2>1 DEF Grown
<1>4. \A j \in 1..(n + 1) : j \in 1..n \/ j = n + 1
  OBVIOUS
<1>5. \A j \in 1..(n + 1) : wk[j].ino \notin L => Wrote(ou, wk[j].path)
  BY <1>4 DEF CopyOK
<1>6. \A i \in DOMAIN sm : i \notin L => Stored(ou, i, sm[i])
  BY <1>3 DEF CopyOK
<1>7. \A k \in 1..Len(ou) : Told(M, wk, n + 1, sm, ou[k]) /\ Lawful(L, s, ou, k)
  BY <1>3 DEF CopyOK
<1> QED
  BY <1>1, <1>2, <1>3, <1>5, <1>6, <1>7 DEF CopyOK

(* An inode written under its path.                                        *)
LEMMA CopyWrites ==
    ASSUME NEW t, NEW M, NEW L, NEW s, NEW wk, WalkedOK(t, wk), NEW n \in Nat, n < Len(wk), NEW sn, NEW ou,
           CopyOK(M, L, s, wk, n, sn, ou), NEW e, e = wk[n + 1], e.ino \notin DOMAIN sn, e.ino \notin L
    PROVE  CopyOK(M, L, s, wk, n + 1, Learn(M, sn, e.ino, e.path),
                  Append(ou, [path |-> e.path, ino |-> e.ino, link |-> <<>>]))
<1>1. PICK sm : sm = Learn(M, sn, e.ino, e.path)
  OBVIOUS
<1>2. SeenOK(M, wk, n, sn) /\ ou \in Seq(Out)
  BY DEF CopyOK
<1>3. /\ SeenOK(M, wk, n + 1, sm)
      /\ \A i \in DOMAIN sn : i \in DOMAIN sm /\ sm[i] = sn[i]
      /\ \A i \in DOMAIN sm : i \in DOMAIN sn \/ (i = e.ino /\ sm[i] = e.path)
      /\ e.ino \in M => sm[e.ino] = e.path
      /\ \A x : Told(M, wk, n, sn, x) => Told(M, wk, n + 1, sm, x)
  <2>1. Grown(M, wk, n, sn, e, sm)
    BY <1>1, <1>2, SeenGrows
  <2> QED
    BY <2>1 DEF Grown
<1>4. n + 1 \in 1..Len(wk)
  BY DEF WalkedOK
<1>5. e \in Found
  BY <1>4, ElementOfSeq DEF WalkedOK
<1>6. PICK x : x = [path |-> e.path, ino |-> e.ino, link |-> <<>>]
  OBVIOUS
<1>7. x.path = e.path /\ x.ino = e.ino /\ x.link = <<>>
  BY <1>6
<1>8. x \in Out
  BY <1>5, <1>6 DEF Out, Found
<1>9. PICK ov : ov = Append(ou, x)
  OBVIOUS
<1>10. /\ ov \in Seq(Out) /\ (\A j \in 1..Len(ou) : ov[j] = ou[j]) /\ Wrote(ov, e.path)
       /\ Stored(ov, e.ino, e.path) /\ \A j \in 1..Len(ov) : j \in 1..Len(ou) \/ ov[j] = x
  <2>1. x = Contents(e.ino, x.path)
    BY <1>6, <1>7 DEF Contents
  <2> QED
    BY <1>2, <1>7, <1>8, <1>9, <2>1, OutGrows
<1>11. (\A r : Wrote(ou, r) => Wrote(ov, r)) /\ (\A a, r : Stored(ou, a, r) => Stored(ov, a, r))
  BY <1>2, <1>8, <1>9, OutGrows
<1>12. n + 1 \in 1..(n + 1) /\ \A j \in 1..(n + 1) : j \in 1..n \/ j = n + 1
  OBVIOUS
<1>13. Told(M, wk, n + 1, sm, x)
  BY <1>3, <1>7, <1>12 DEF Told
<1>14. \A k \in 1..Len(ou) : Told(M, wk, n + 1, sm, ou[k])
  BY <1>3 DEF CopyOK
<1>15. \A k \in 1..Len(ov) : Told(M, wk, n + 1, sm, ov[k])
  BY <1>10, <1>13, <1>14
<1>16. \A j \in 1..(n + 1) : wk[j].ino \notin L => Wrote(ov, wk[j].path)
  BY <1>10, <1>11, <1>12 DEF CopyOK
<1>17. \A i \in DOMAIN sm : i \notin L => Stored(ov, i, sm[i])
  BY <1>3, <1>10, <1>11 DEF CopyOK
<1>18. \A j \in 1..Len(ov) : Lawful(L, s, ov, j)
  <2>1. \A j \in 1..Len(ou) : Lawful(L, s, ou, j)
    BY DEF CopyOK
  <2>2. \A j \in 1..Len(ou) : Before(ou[j].path, x.path)
    BY <1>7, NextAfter
  <2> QED
    BY <1>2, <1>7, <1>8, <1>9, <2>1, <2>2, LawGrows
<1> QED
  BY <1>1, <1>3, <1>6, <1>9, <1>10, <1>15, <1>16, <1>17, <1>18 DEF CopyOK

(* The image of a finite set is finite.                                    *)
LEMMA ImageFinite ==
    ASSUME NEW f, IsFiniteSet(DOMAIN f)
    PROVE  IsFiniteSet({f[x] : x \in DOMAIN f})
<1>1. PICK D, R, g : D = DOMAIN f /\ R = {f[x] : x \in DOMAIN f} /\ g = [x \in DOMAIN f |-> f[x]]
  OBVIOUS
<1>2. g \in [D -> R] /\ \A y \in R : \E x \in D : g[x] = y
  BY <1>1
<1>3. g \in Surjection(D, R)
  BY <1>2 DEF Surjection
<1> QED
  BY <1>1, <1>3, FS_Surjection

(* Two things in a finite set.                                             *)
LEMMA TwoOf ==
    ASSUME NEW S, IsFiniteSet(S), NEW x \in S, NEW y \in S, x # y
    PROVE  Cardinality(S) > 1
<1>1. IsFiniteSet({x}) /\ Cardinality({x}) = 1
  BY FS_Singleton
<1>2. Cardinality({x} \cup {y}) = 2
  BY <1>1, FS_AddElement
<1>3. {x} \cup {y} \subseteq S
  OBVIOUS
<1>4. Cardinality({x} \cup {y}) <= Cardinality(S)
  BY <1>3, FS_Subset
<1>5. Cardinality(S) \in Nat
  BY FS_CardinalityType
<1> QED
  BY <1>2, <1>4, <1>5

NameAtEnd(t, p, i) ==
    \E a \in Seq(Nat), n \in Nat, d \in DOMAIN t.names :
       /\ p = Append(a, n) /\ Reach(t, a) /\ d \in Lands(t, a)
       /\ n \in DOMAIN t.names[d] /\ t.names[d][n] = i

(* The name a path ends in.                                                *)
LEMMA EndsIn ==
    ASSUME NEW t, IsTree(t), IsFiniteSet(Inodes), NEW p, IsPath(t, p), Short(t, p), NEW i, i \in Lands(t, p)
    PROVE  NameAtEnd(t, p, i)
<1>1. PICK a \in Seq(Nat), n \in Nat : p = Append(a, n) /\ Len(a) = Len(p) - 1
  <2>1. p \in Seq(Nat) /\ p # <<>>
    BY DEF IsPath
  <2> QED
    BY <2>1, FrontLast
<1>2. i \in Below(t, Lands(t, a), n)
  BY <1>1, LandsAppend
<1>3. PICK d \in Lands(t, a) : d \in DOMAIN t.names /\ n \in DOMAIN t.names[d] /\ i = t.names[d][n]
  BY <1>2 DEF Below
<1>4. Reach(t, a)
  <2>1. Cardinality(DOMAIN t.names) \in Nat
    <3>1. DOMAIN t.names \subseteq Inodes
      BY DEF IsTree
    <3> QED
      BY <3>1, FS_Subset, FS_CardinalityType
  <2>2. Len(p) \in Nat /\ Len(p) <= Cardinality(DOMAIN t.names)
    BY DEF IsPath, Short
  <2>3. Short(t, a)
    BY <1>1, <2>1, <2>2 DEF Short
  <2> QED
    BY <1>3, <2>3 DEF Reach, IsPath
<1> QED
  BY <1>1, <1>3, <1>4 DEF NameAtEnd

(* An inode of two paths has two names, if no directory has two paths.     *)
LEMMA LinksTwo ==
    ASSUME IsTree(tree), IsFiniteSet(Inodes), ~Twice(tree), NEW i,
           NEW p, IsPath(tree, p), Short(tree, p), i \in Lands(tree, p),
           NEW q, IsPath(tree, q), Short(tree, q), i \in Lands(tree, q), p # q
    PROVE  links(i) > 1
<1>1. PICK a \in Seq(Nat), n \in Nat, d \in DOMAIN tree.names :
         /\ p = Append(a, n) /\ Reach(tree, a) /\ d \in Lands(tree, a)
         /\ n \in DOMAIN tree.names[d] /\ tree.names[d][n] = i
  <2>1. NameAtEnd(tree, p, i)
    BY EndsIn, Zenon
  <2> QED
    BY <2>1 DEF NameAtEnd
<1>2. PICK b \in Seq(Nat), m \in Nat, c \in DOMAIN tree.names :
         /\ q = Append(b, m) /\ Reach(tree, b) /\ c \in Lands(tree, b)
         /\ m \in DOMAIN tree.names[c] /\ tree.names[c][m] = i
  <2>1. NameAtEnd(tree, q, i)
    BY EndsIn, Zenon
  <2> QED
    BY <2>1 DEF NameAtEnd
<1>3. d # c \/ n # m
  <2>1. SUFFICES ASSUME d = c, n = m PROVE FALSE
    OBVIOUS
  <2>2. a # b
    BY <1>1, <1>2, <2>1
  <2> QED
    BY <1>1, <1>2, <2>1, <2>2 DEF Twice
<1>4. PICK f : f = [x \in DOMAIN tree.names |-> {<<x, k>> : k \in DOMAIN tree.names[x]}]
  OBVIOUS
<1>5. PICK U : U = UNION {{<<x, k>> : k \in DOMAIN tree.names[x]} : x \in DOMAIN tree.names}
  OBVIOUS
<1>6. IsFiniteSet(U)
  <2>1. IsFiniteSet(DOMAIN tree.names)
    <3>1. DOMAIN tree.names \subseteq Inodes
      BY DEF IsTree
    <3> QED
      BY <3>1, FS_Subset
  <2>2. IsFiniteSet({f[x] : x \in DOMAIN f})
    <3>1. DOMAIN f = DOMAIN tree.names
      BY <1>4
    <3> QED
      BY <2>1, <3>1, ImageFinite
  <2>3. ASSUME NEW x \in DOMAIN tree.names
        PROVE  IsFiniteSet(f[x])
    <3>1. PICK g : g = [k \in DOMAIN tree.names[x] |-> <<x, k>>]
      OBVIOUS
    <3>2. DOMAIN g = DOMAIN tree.names[x] /\ f[x] = {g[k] : k \in DOMAIN g}
      BY <1>4, <3>1
    <3>3. IsFiniteSet(DOMAIN g)
      BY <3>2 DEF IsTree
    <3> QED
      BY <3>2, <3>3, ImageFinite
  <2>4. U = UNION {f[x] : x \in DOMAIN f} /\ DOMAIN f = DOMAIN tree.names
    <3>1. DOMAIN f = DOMAIN tree.names
      BY <1>4
    <3>2. {f[x] : x \in DOMAIN f} = {{<<x, k>> : k \in DOMAIN tree.names[x]} : x \in DOMAIN tree.names}
      BY <1>4, <3>1
    <3> QED
      BY <1>5, <3>1, <3>2
  <2>5. PICK F : F = {f[x] : x \in DOMAIN f}
    OBVIOUS
  <2>6. \A T \in F : IsFiniteSet(T)
    BY <2>3, <2>4, <2>5
  <2>7. IsFiniteSet(UNION F)
    BY <2>2, <2>5, <2>6, FS_UNION
  <2> QED
    BY <2>4, <2>5, <2>7
<1>7. PICK S : S = {dn \in U : tree.names[dn[1]][dn[2]] = i}
  OBVIOUS
<1>8. <<d, n>> \in S /\ <<c, m>> \in S /\ <<d, n>> # <<c, m>>
  BY <1>1, <1>2, <1>3, <1>5, <1>7
<1>9. IsFiniteSet(S)
  BY <1>6, <1>7, FS_Subset
<1>10. Cardinality(S) > 1
  BY <1>8, <1>9, TwoOf
<1> QED
  BY <1>5, <1>7, <1>10 DEF links

-----------------------------------------------------------------------------
(* The copy's invariant.                                                   *)
Many == {i \in Inodes : ~IsDir(i) /\ links(i) > 1}
LeftOut == {i \in Inodes : IF job = "pack" THEN tree.kind[i] = "socket" ELSE Special(i)}
Copied == CopyOK(Many, LeftOut, job = "extract", walked, pos, seen, out)
CopyInv ==
    /\ pc \in {"walk", "copy", "modes", "done", "failed"} /\ job \in {"pack", "extract"}
    /\ pos \in Nat /\ pos <= Len(walked)
    /\ pc = "walk" => pos = 0 /\ seen = <<>> /\ out = <<>>
    /\ pc \in {"copy", "modes", "done"} => Copied
    /\ pc \in {"modes", "done"} => pos = Len(walked)

(* Nothing copied yet.                                                     *)
LEMMA CopyStarts ==
    ASSUME NEW M, NEW L, NEW s, NEW wk
    PROVE  CopyOK(M, L, s, wk, 0, <<>>, <<>>)
<1>1. PICK sn, ou : sn = <<>> /\ ou = <<>> /\ ou \in Seq(Out) /\ Len(ou) = 0 /\ DOMAIN sn = {}
  <2>1. <<>> \in Seq(Out) /\ Len(<<>>) = 0
    BY EmptySeq
  <2>2. DOMAIN <<>> = {}
    OBVIOUS
  <2> QED
    BY <2>1, <2>2
<1>2. SeenOK(M, wk, 0, sn)
  BY <1>1 DEF SeenOK
<1>3. CopyOK(M, L, s, wk, 0, sn, ou)
  BY <1>1, <1>2 DEF CopyOK
<1> QED
  BY <1>1, <1>3

(* The inode at hand.                                                      *)
LEMMA EntryIs ==
    ASSUME WalkInv, pos \in Nat, pos < Len(walked)
    PROVE  /\ Entry \in Found /\ Entry.path \in Seq(Nat) /\ Entry.ino \in Inodes /\ Len(walked) \in Nat
           /\ Shared <=> Entry.ino \in Many
           /\ Entry.ino \in LeftOut <=> IF job = "pack" THEN tree.kind[Entry.ino] = "socket" ELSE Special(Entry.ino)
<1>1. WalkedOK(tree, walked)
  BY DEF WalkInv
<1>2. pos + 1 \in 1..Len(walked) /\ Len(walked) \in Nat
  BY <1>1 DEF WalkedOK
<1>3. Entry \in Found
  BY <1>1, <1>2, ElementOfSeq DEF WalkedOK, Entry
<1>4. PICK e : e = Entry
  OBVIOUS
<1>5. e.path \in Seq(Nat) /\ e.ino \in Inodes
  BY <1>3, <1>4 DEF Found
<1> QED
  BY <1>2, <1>3, <1>4, <1>5 DEF Shared, Many, LeftOut

(* What the model remembers is what was learnt.                            *)
LEMMA RememberIs ==
    ASSUME NEW M, Shared <=> Entry.ino \in M, Remember
    PROVE  seen' = Learn(M, seen, Entry.ino, Entry.path)
BY DEF Remember, Learn

(* One entry dealt with, in either job.                                    *)
LEMMA CopyStep ==
    ASSUME WalkInv, Copied, pos \in Nat, pos < Len(walked), UNCHANGED <<tree, job, walked>>, pos' = pos + 1,
           \/ Again /\ Link /\ UNCHANGED seen /\ (job = "extract" => Entry.ino \notin LeftOut)
           \/ ~Again /\ Entry.ino \in LeftOut /\ Remember /\ UNCHANGED out
           \/ ~Again /\ Entry.ino \notin LeftOut /\ Remember /\ Write
    PROVE  Copied'
<1>1. PICK M, L, s, wk, n, sn, ou, t : /\ M = Many /\ L = LeftOut /\ s = (job = "extract") /\ wk = walked
                                       /\ n = pos /\ sn = seen /\ ou = out /\ t = tree
  OBVIOUS
<1>2. CopyOK(M, L, s, wk, n, sn, ou) /\ n \in Nat /\ n < Len(wk)
  BY <1>1 DEF Copied
<1>3. WalkedOK(t, wk)
  BY <1>1 DEF WalkInv
<1>4. PICK e : e = wk[n + 1] /\ e = Entry
  BY <1>1 DEF Entry
<1>5. /\ Shared <=> e.ino \in M
      /\ Entry.ino \in L <=> e.ino \in L
  BY <1>1, <1>4, EntryIs
<1>6. DOMAIN sn \subseteq M
  BY <1>2 DEF CopyOK, SeenOK
<1>7. Again <=> e.ino \in DOMAIN sn
  BY <1>1, <1>4, <1>5, <1>6 DEF Again
<1>8. Many' = M /\ LeftOut' = L
  BY <1>1 DEF Many, LeftOut, IsDir, links, Special
<1>9. Copied' <=> CopyOK(M, L, s, wk, n + 1, seen', out')
  BY <1>1, <1>8 DEF Copied
<1>10. CASE Again /\ Link /\ UNCHANGED seen /\ (job = "extract" => Entry.ino \notin LeftOut)
  <2>1. seen' = sn /\ out' = Append(ou, [path |-> e.path, ino |-> e.ino, link |-> sn[e.ino]])
    BY <1>1, <1>4, <1>10 DEF Link
  <2>2. CopyOK(M, L, s, wk, n + 1, sn, Append(ou, [path |-> e.path, ino |-> e.ino, link |-> sn[e.ino]]))
    <3>1. s => e.ino \notin L
      BY <1>1, <1>5, <1>10
    <3> QED
      BY <1>2, <1>3, <1>4, <1>7, <1>10, <3>1, CopyLinks
  <2> QED
    BY <1>9, <2>1, <2>2
<1>11. ASSUME ~Again, Remember
       PROVE  e.ino \notin DOMAIN sn /\ seen' = Learn(M, sn, e.ino, e.path)
  <2>1. seen' = Learn(M, seen, Entry.ino, Entry.path)
    BY <1>4, <1>5, <1>11, RememberIs
  <2> QED
    BY <1>1, <1>4, <1>7, <1>11, <2>1
<1>12. CASE ~Again /\ Entry.ino \in LeftOut /\ Remember /\ UNCHANGED out
  <2>1. seen' = Learn(M, sn, e.ino, e.path) /\ e.ino \notin DOMAIN sn /\ out' = ou
    BY <1>1, <1>11, <1>12
  <2>2. CopyOK(M, L, s, wk, n + 1, Learn(M, sn, e.ino, e.path), ou)
    BY <1>1, <1>2, <1>4, <1>5, <1>12, <2>1, CopySkips
  <2> QED
    BY <1>9, <2>1, <2>2
<1>13. CASE ~Again /\ Entry.ino \notin LeftOut /\ Remember /\ Write
  <2>1. seen' = Learn(M, sn, e.ino, e.path) /\ e.ino \notin DOMAIN sn
    BY <1>11, <1>13
  <2>2. out' = Append(ou, [path |-> e.path, ino |-> e.ino, link |-> <<>>])
    BY <1>1, <1>4, <1>13 DEF Write
  <2>3. CopyOK(M, L, s, wk, n + 1, Learn(M, sn, e.ino, e.path),
               Append(ou, [path |-> e.path, ino |-> e.ino, link |-> <<>>]))
    <3>1. e.ino \notin L
      BY <1>1, <1>5, <1>13
    <3> QED
      BY <1>2, <1>3, <1>4, <2>1, <3>1, CopyWrites
  <2> QED
    BY <1>9, <2>1, <2>2, <2>3
<1> QED
  BY <1>10, <1>12, <1>13

(* Extracting links to nothing that is left out: its first path is not     *)
(* there.                                                                  *)
LEMMA NoLinkOut ==
    ASSUME WalkInv, Copied, job = "extract", pos \in Nat, pos < Len(walked), Again, Written(seen[Entry.ino])
    PROVE  Entry.ino \notin LeftOut
<1>1. PICK wk, n, sn, ou, i : wk = walked /\ n = pos /\ sn = seen /\ ou = out /\ i = Entry.ino
  OBVIOUS
<1>2. CopyOK(Many, LeftOut, TRUE, wk, n, sn, ou) /\ IsTree(tree) /\ WalkedOK(tree, wk) /\ n \in Nat /\ n < Len(wk)
  BY <1>1 DEF WalkInv, Copied
<1>3. PICK x \in 1..Len(ou) : ou[x].path = sn[i]
  BY <1>1 DEF Written
<1>4. i \in DOMAIN sn
  BY <1>1 DEF Again
<1>5. PICK a \in 1..n : wk[a].ino = i /\ wk[a].path = sn[i]
  BY <1>2, <1>4 DEF CopyOK, SeenOK
<1>6. PICK b \in 1..n : wk[b].path = ou[x].path /\ wk[b].ino = ou[x].ino
  BY <1>2 DEF CopyOK, Told
<1>7. a \in 1..Len(wk) /\ b \in 1..Len(wk) /\ Len(wk) \in Nat
  BY <1>2 DEF WalkedOK
<1>8. ASSUME NEW k \in 1..Len(wk)
      PROVE  wk[k].path \in Seq(Nat) /\ Lead[wk[k].path] = {wk[k].ino}
  <2>1. PICK e : e = wk[k]
    OBVIOUS
  <2>2. e \in Found /\ FoundOK(tree, e)
    BY <1>2, <2>1, ElementOfSeq DEF WalkedOK
  <2>3. e.path \in Seq(Nat) /\ e.ino \in Lands(tree, e.path)
    BY <2>2 DEF Found, FoundOK
  <2> QED
    BY <1>2, <2>1, <2>3, LeadOf
<1>9. ou[x].ino = i
  BY <1>3, <1>5, <1>6, <1>7, <1>8
<1>10. ou[x].ino \notin LeftOut
  BY <1>2 DEF CopyOK, Lawful
<1> QED
  BY <1>1, <1>9, <1>10

(* The copy's invariant at the start, ...                                  *)
LEMMA CopyInvInit == Init => CopyInv
<1>1. Len(<<>>) = 0
  OBVIOUS
<1> QED
  BY <1>1 DEF Init, CopyInv

(* ... and after every step.                                               *)
LEMMA CopyInvNext == WalkInv /\ WalkInv' /\ CopyInv /\ [Next]_vars => CopyInv'
<1>1. SUFFICES ASSUME WalkInv, WalkInv', CopyInv, [Next]_vars PROVE CopyInv'
  OBVIOUS
<1>2. Len(walked) \in Nat /\ Len(walked') \in Nat
  BY <1>1 DEF WalkInv, WalkedOK
<1>3. pos \in Nat /\ pos <= Len(walked) /\ job \in {"pack", "extract"}
  BY <1>1 DEF CopyInv
<1>4. CASE UNCHANGED vars
  BY <1>1, <1>4 DEF vars, CopyInv, Copied, Many, LeftOut, IsDir, links, Special
<1>5. CASE WalkName
  <2>1. pos = 0 /\ pos' = 0 /\ seen' = <<>> /\ out' = <<>> /\ job' = job /\ pc' \in {"walk", "failed"}
    BY <1>1, <1>5 DEF WalkName, CopyVars, CopyInv
  <2> QED
    BY <1>2, <1>3, <2>1 DEF CopyInv
<1>6. CASE WalkUp
  BY <1>1, <1>6 DEF WalkUp, CopyVars, CopyInv
<1>7. CASE WalkDone
  <2>1. pos' = 0 /\ seen' = <<>> /\ out' = <<>> /\ job' = job /\ pc' = "copy" /\ walked' = walked
    BY <1>1, <1>7 DEF WalkDone, CopyVars, CopyInv
  <2>2. CopyOK(Many', LeftOut', job' = "extract", walked', 0, <<>>, <<>>)
    BY CopyStarts
  <2>3. Copied'
    BY <2>1, <2>2 DEF Copied
  <2> QED
    BY <1>2, <1>3, <2>1, <2>3 DEF CopyInv
<1>8. ASSUME pc = "copy", pos < Len(walked), UNCHANGED <<tree, job, walked>>, pos' = pos + 1, pc' = pc,
             \/ Again /\ Link /\ UNCHANGED seen /\ (job = "extract" => Entry.ino \notin LeftOut)
             \/ ~Again /\ Entry.ino \in LeftOut /\ Remember /\ UNCHANGED out
             \/ ~Again /\ Entry.ino \notin LeftOut /\ Remember /\ Write
      PROVE  CopyInv'
  <2>1. Copied
    BY <1>1, <1>8 DEF CopyInv
  <2>2. Copied'
    BY <1>1, <1>3, <1>8, <2>1, CopyStep
  <2>3. pos' \in Nat /\ pos' <= Len(walked')
    BY <1>2, <1>3, <1>8
  <2> QED
    BY <1>3, <1>8, <2>2, <2>3 DEF CopyInv
<1>9. CASE Pack
  <2>1. pc = "copy" /\ job = "pack" /\ pos < Len(walked) /\ pos' = pos + 1 /\ UNCHANGED <<tree, job, walked, pc>>
    BY <1>9 DEF Pack
  <2>2. Entry.ino \in LeftOut <=> tree.kind[Entry.ino] = "socket"
    BY <1>1, <1>3, <2>1, EntryIs
  <2>3. \/ Again /\ Link /\ UNCHANGED seen /\ (job = "extract" => Entry.ino \notin LeftOut)
        \/ ~Again /\ Entry.ino \in LeftOut /\ Remember /\ UNCHANGED out
        \/ ~Again /\ Entry.ino \notin LeftOut /\ Remember /\ Write
    BY <1>9, <2>2 DEF Pack
  <2> QED
    BY <1>8, <2>1, <2>3
<1>10. CASE Extract
  <2>1. pc = "copy" /\ job = "extract" /\ pos < Len(walked) /\ UNCHANGED <<tree, job, walked>>
    BY <1>10 DEF Extract
  <2>2. Entry.ino \in LeftOut <=> Special(Entry.ino)
    BY <1>1, <1>3, <2>1, EntryIs
  <2>6. Again /\ Written(seen[Entry.ino]) => Entry.ino \notin LeftOut
    BY <1>1, <1>3, <2>1, NoLinkOut DEF CopyInv
  <2>3. \/ pos' = pos /\ pc' = "failed"
        \/ /\ pos' = pos + 1 /\ pc' = pc
           /\ \/ Again /\ Link /\ UNCHANGED seen /\ (job = "extract" => Entry.ino \notin LeftOut)
              \/ ~Again /\ Entry.ino \in LeftOut /\ Remember /\ UNCHANGED out
              \/ ~Again /\ Entry.ino \notin LeftOut /\ Remember /\ Write
    BY <1>10, <2>2, <2>6 DEF Extract, Make
  <2>4. CASE pos' = pos /\ pc' = "failed"
    BY <1>1, <1>3, <2>1, <2>4 DEF CopyInv
  <2> QED
    BY <1>8, <2>1, <2>3, <2>4
<1>11. ASSUME UNCHANGED <<tree, job, walked, pos, seen, out>>
       PROVE  Copied' <=> Copied
  BY <1>11 DEF Copied, Many, LeftOut, IsDir, links, Special
<1>12. CASE CopyDone \/ SetModes \/ ModesDone
  <2>1. /\ pc \in {"copy", "modes"} /\ pos = Len(walked) /\ pc' \in {"modes", "done"}
        /\ UNCHANGED <<tree, job, walked, pos, seen, out>>
    <3>1. CASE CopyDone
      BY <3>1 DEF CopyDone
    <3>2. CASE SetModes
      BY <1>1, <3>2 DEF SetModes, CopyInv
    <3>3. CASE ModesDone
      BY <1>1, <3>3 DEF ModesDone, CopyInv
    <3> QED
      BY <1>12, <3>1, <3>2, <3>3
  <2>2. Copied'
    BY <1>1, <1>11, <2>1 DEF CopyInv
  <2> QED
    BY <1>1, <1>3, <2>1, <2>2 DEF CopyInv
<1> QED
  BY <1>1, <1>4, <1>5, <1>6, <1>7, <1>9, <1>10, <1>12 DEF Next

(* It holds throughout.                                                    *)
LEMMA CopyInvHolds == Spec => []CopyInv
<1>1. WalkInv /\ [Next]_vars => WalkInv'
  BY WalkInvNext
<1> QED
  BY <1>1, WalkInvHolds, CopyInvInit, CopyInvNext, PTL DEF Spec

(* No path comes before itself.                                            *)
LEMMA NotBefore ==
    ASSUME NEW p \in Seq(Nat)
    PROVE  ~ Before(p, p)
<1>1. ~ IsStrictPrefix(p, p)
  BY DEF IsStrictPrefix
<1>2. \A k \in 1..Len(p) : ~ (p[k] < p[k])
  OBVIOUS
<1> QED
  BY <1>1, <1>2 DEF Before

(* A finished copy is faithful.                                            *)
LEMMA CopyInvFaithful == WalkInv /\ CopyInv => CopyFaithful
<1>1. SUFFICES ASSUME WalkInv, CopyInv, pc = "done" PROVE CopyFaithful
  BY DEF CopyFaithful
<1>2. IsTree(tree) /\ WalkedOK(tree, walked) /\ IsFiniteSet(Inodes) /\ DirsOnce(tree, walked) /\ Covers(tree, walked)
  BY <1>1, TreesAre DEF WalkInv, Through
<1>3. PICK l \in Nat : l = Len(walked)
  BY <1>2 DEF WalkedOK
<1>4. CopyOK(Many, LeftOut, job = "extract", walked, l, seen, out) /\ job \in {"pack", "extract"}
  BY <1>1, <1>3 DEF CopyInv, Copied
<1>5. ASSUME NEW k \in 1..l
      PROVE  LET e == walked[k] IN
             /\ e.path \in Seq(Nat) /\ e.ino \in Inodes /\ IsPath(tree, e.path) /\ Short(tree, e.path)
             /\ e.ino \in Lands(tree, e.path) /\ Lead[e.path] = {e.ino}
  <2>1. PICK e : e = walked[k]
    OBVIOUS
  <2>2. e \in Found /\ FoundOK(tree, e)
    BY <1>2, <1>3, <2>1, ElementOfSeq DEF WalkedOK
  <2>3. /\ e.path \in Seq(Nat) /\ e.ino \in Inodes /\ IsPath(tree, e.path) /\ Short(tree, e.path)
        /\ e.ino \in Lands(tree, e.path)
    BY <2>2 DEF Found, FoundOK, IsPath, Short
  <2>4. Lead[e.path] = {e.ino}
    BY <1>2, <2>3, LeadOf
  <2> QED
    BY <2>1, <2>3, <2>4
<1>6. ASSUME NEW p \in Paths, ~ Written(p)
      PROVE  \A i \in Lead[p] : i \in LeftOut
  <2>1. IsPath(tree, p)
    BY <1>2, PathsAre
  <2>2. PICK k \in 1..l : walked[k].path = p
    BY <1>2, <1>3, <2>1 DEF Covers, Has
  <2>3. Lead[p] = {walked[k].ino}
    BY <1>5, <2>2
  <2>4. walked[k].ino \notin LeftOut => Wrote(out, p)
    BY <1>4, <2>2 DEF CopyOK
  <2> QED
    BY <1>6, <2>3, <2>4 DEF Written, Wrote
<1>7. ASSUME NEW x \in 1..Len(out)
      PROVE  /\ Told(Many, walked, l, seen, out[x]) /\ Lawful(LeftOut, job = "extract", out, x)
             /\ out[x].path \in Seq(Nat) /\ out[x].path \in Paths /\ Lead[out[x].path] = {out[x].ino}
             /\ out[x].ino \in Inodes
  <2>1. Told(Many, walked, l, seen, out[x]) /\ Lawful(LeftOut, job = "extract", out, x)
    BY <1>4 DEF CopyOK
  <2>2. PICK k \in 1..l : walked[k].path = out[x].path /\ walked[k].ino = out[x].ino
    BY <2>1 DEF Told
  <2>3. /\ out[x].path \in Seq(Nat) /\ IsPath(tree, out[x].path) /\ Short(tree, out[x].path)
        /\ Lead[out[x].path] = {out[x].ino} /\ out[x].ino \in Inodes
    BY <1>5, <2>2
  <2> QED
    BY <1>2, <2>1, <2>3, PathsAre
<1>8. Len(out) \in Nat
  BY <1>4 DEF CopyOK
<1>9. ASSUME NEW y \in 1..Len(out), NEW x \in 1..(y - 1), out[x].ino = out[y].ino, out[y].link = <<>>
      PROVE  FALSE
  <2>1. x \in 1..Len(out) /\ x < y
    BY <1>8
  <2>2. PICK i, p, q : i = out[y].ino /\ p = out[x].path /\ q = out[y].path
    OBVIOUS
  <2>3. \A z \in 1..x : z \in 1..Len(out) /\ out[z].path # q
    <3>1. TAKE z \in 1..x
    <3>2. z \in 1..Len(out) /\ z \in 1..(y - 1)
      BY <1>8
    <3>3. Before(out[z].path, q) /\ q \in Seq(Nat)
      BY <1>7, <2>2, <3>2 DEF Lawful
    <3> QED
      BY <3>2, <3>3, NotBefore
  <2>4. i \in Inodes /\ i \notin LeftOut
    BY <1>7, <1>9, <2>2 DEF Lawful
  <2>5. p # q
    BY <2>2, <2>3, <2>1
  <2>6. CASE i \in Many
    <3>1. seen[i] = q
      BY <1>7, <1>9, <2>2, <2>6 DEF Told
    <3>2. CASE out[x].link = <<>>
      BY <1>7, <1>9, <2>1, <2>2, <2>5, <2>6, <3>1, <3>2 DEF Told
    <3>3. CASE out[x].link # <<>>
      <4>1. out[x].link = q /\ out[x].ino = i
        BY <1>7, <1>9, <2>1, <2>2, <3>1, <3>3 DEF Told
      <4>2. PICK z \in 1..(x - 1) : out[z] = Contents(i, q)
        BY <1>7, <2>1, <2>4, <3>3, <4>1 DEF Lawful
      <4>3. z \in 1..x /\ out[z].path = q
        BY <2>1, <4>2 DEF Contents
      <4> QED
        BY <2>3, <4>3
    <3> QED
      BY <3>2, <3>3
  <2>7. CASE i \notin Many
    <3>1. PICK j \in 1..l : walked[j].path = p /\ walked[j].ino = i
      BY <1>7, <1>9, <2>1, <2>2 DEF Told
    <3>2. PICK k \in 1..l : walked[k].path = q /\ walked[k].ino = i
      BY <1>7, <2>2 DEF Told
    <3>3. j # k
      BY <2>5, <3>1, <3>2
    <3>4. i \in DOMAIN tree.names <=> IsDir(i)
      BY <1>2, <2>4 DEF IsTree, IsDir
    <3>5. i \notin DOMAIN tree.names
      <4>1. j < k \/ k < j
        BY <3>3
      <4> QED
        BY <1>2, <1>3, <3>1, <3>2, <4>1 DEF DirsOnce
    <3>6. ~ Twice(tree)
      BY <1>2, NotTwice
    <3>7. IsPath(tree, p) /\ Short(tree, p) /\ i \in Lands(tree, p)
      BY <1>5, <3>1
    <3>8. IsPath(tree, q) /\ Short(tree, q) /\ i \in Lands(tree, q)
      BY <1>5, <3>2
    <3>9. links(i) > 1
      BY <1>2, <2>5, <3>6, <3>7, <3>8, LinksTwo
    <3> QED
      BY <2>4, <2>7, <3>4, <3>5, <3>9 DEF Many
  <2> QED
    BY <2>6, <2>7
<1>10. ASSUME NEW i \in Inodes
       PROVE  i \in LeftOut <=> IF job = "pack" THEN tree.kind[i] = "socket" ELSE Special(i)
  BY DEF LeftOut
<1>11. ASSUME NEW p \in Paths, ~ Written(p), NEW i \in Lead[p]
       PROVE  IF job = "pack" THEN tree.kind[i] = "socket" ELSE Special(i)
  BY <1>6, <1>11 DEF LeftOut
<1>12. ASSUME NEW k \in 1..Len(out)
       PROVE  /\ out[k].path \in Paths /\ Lead[out[k].path] = {out[k].ino}
              /\ \A j \in 1..(k - 1) : /\ Before(out[j].path, out[k].path)
                                       /\ out[j].ino = out[k].ino => out[k].link # <<>>
              /\ IF out[k].ino \in LeftOut THEN job = "pack" /\ out[k].link # <<>>
                 ELSE out[k].link = <<>> \/ \E j \in 1..(k - 1) : out[j] = Contents(out[k].ino, out[k].link)
  <2>1. Lawful(LeftOut, job = "extract", out, k)
    BY <1>7
  <2>2. \A j \in 1..(k - 1) : Before(out[j].path, out[k].path)
    BY <2>1 DEF Lawful
  <2>3. \A j \in 1..(k - 1) : out[j].ino = out[k].ino => out[k].link # <<>>
    BY <1>9
  <2>4. IF out[k].ino \in LeftOut THEN job = "pack" /\ out[k].link # <<>>
        ELSE out[k].link = <<>> \/ \E j \in 1..(k - 1) : out[j] = Contents(out[k].ino, out[k].link)
    BY <1>4, <2>1 DEF Lawful
  <2> QED
    BY <1>7, <2>2, <2>3, <2>4
<1>13. \A k \in 1..Len(out) : out[k].ino \in Inodes
  BY <1>7
<1> QED
  BY <1>10, <1>11, <1>12, <1>13 DEF CopyFaithful

(* For every tree: a finished export holds every path whose inode it does  *)
(* not leave out and nothing else, each path once, in order and with its   *)
(* own inode; an inode's contents are written once however many names it   *)
(* has, and every later name of it is a link back to them (the `seen` map  *)
(* of pack_into and extract).  What is left out has at most links, in an   *)
(* archive.                                                                *)
THEOREM CopyIsFaithful == Spec => []CopyFaithful
BY WalkInvHolds, CopyInvHolds, CopyInvFaithful, PTL

-----------------------------------------------------------------------------
(* The modes: the directories made are in order, those whose mode is set   *)
(* come after all the others.                                              *)
InOrder(ds) == \A j, k \in 1..Len(ds) : j < k => Before(ds[j], ds[k])
MadeOf(wk, n, ds) == \A k \in 1..Len(ds) : \E m \in 1..n : ds[k] = wk[m].path
LockInv ==
    /\ dirs \in Seq(Seq(Nat)) /\ locked \subseteq Seq(Nat) /\ InOrder(dirs)
    /\ \A p \in locked : \A k \in 1..Len(dirs) : Before(dirs[k], p)
    /\ pc \in {"walk", "copy", "failed"} => locked = {}
    /\ pc = "walk" => dirs = <<>>
    /\ pc = "copy" => MadeOf(walked, pos, dirs)

(* A directory made is after those made before it.                         *)
LEMMA LockMakes ==
    ASSUME NEW t, NEW wk, WalkedOK(t, wk), NEW n \in Nat, n < Len(wk), NEW ds \in Seq(Seq(Nat)),
           InOrder(ds), MadeOf(wk, n, ds), NEW dt, dt = Append(ds, wk[n + 1].path)
    PROVE  dt \in Seq(Seq(Nat)) /\ InOrder(dt) /\ MadeOf(wk, n + 1, dt)
<1>1. n + 1 \in 1..Len(wk) /\ Len(wk) \in Nat
  BY DEF WalkedOK
<1>2. PICK q : q = wk[n + 1].path
  OBVIOUS
<1>3. q \in Seq(Nat)
  <2>1. wk[n + 1] \in Found
    BY <1>1, ElementOfSeq DEF WalkedOK
  <2> QED
    BY <1>2, <2>1 DEF Found
<1>4. PICK l \in Nat : l = Len(ds)
  OBVIOUS
<1>5. dt \in Seq(Seq(Nat)) /\ Len(dt) = l + 1 /\ dt[l + 1] = q /\ \A k \in 1..l : dt[k] = ds[k]
  BY <1>2, <1>3, <1>4, AppendProperties
<1>6. \A k \in 1..(l + 1) : k \in 1..l \/ k = l + 1
  OBVIOUS
<1>7. ASSUME NEW k \in 1..l
      PROVE  Before(ds[k], q)
  <2>1. PICK m \in 1..n : ds[k] = wk[m].path
    BY <1>4 DEF MadeOf
  <2>2. m \in 1..Len(wk) /\ m < n + 1
    BY <1>1
  <2> QED
    BY <1>1, <1>2, <2>1, <2>2 DEF WalkedOK
<1>8. ASSUME NEW j \in 1..Len(dt), NEW k \in 1..Len(dt), j < k
      PROVE  Before(dt[j], dt[k])
  <2>1. j \in 1..l
    BY <1>5, <1>8
  <2>2. CASE k \in 1..l
    <3>1. Before(ds[j], ds[k])
      BY <1>4, <1>8, <2>1, <2>2 DEF InOrder
    <3> QED
      BY <1>5, <2>1, <2>2, <3>1
  <2>3. CASE k = l + 1
    BY <1>5, <1>7, <2>1, <2>3
  <2> QED
    BY <1>5, <1>6, <2>2, <2>3
<1>9. ASSUME NEW k \in 1..Len(dt)
      PROVE  \E m \in 1..(n + 1) : dt[k] = wk[m].path
  <2>1. n + 1 \in 1..(n + 1) /\ \A m \in 1..n : m \in 1..(n + 1)
    OBVIOUS
  <2> QED
    BY <1>2, <1>4, <1>5, <1>6, <2>1 DEF MadeOf
<1> QED
  BY <1>5, <1>8, <1>9 DEF InOrder, MadeOf

(* The modes' invariant at the start, ...                                  *)
LEMMA LockInvInit == Init => LockInv
<1>1. PICK ds : ds = <<>> /\ ds \in Seq(Seq(Nat)) /\ Len(ds) = 0
  <2>1. <<>> \in Seq(Seq(Nat)) /\ Len(<<>>) = 0
    BY EmptySeq
  <2> QED
    BY <2>1
<1> QED
  BY <1>1 DEF Init, LockInv, InOrder

(* ... and after every step.                                               *)
LEMMA LockInvNext == WalkInv /\ CopyInv /\ LockInv /\ [Next]_vars => LockInv'
<1>1. SUFFICES ASSUME WalkInv, CopyInv, LockInv, [Next]_vars PROVE LockInv'
  OBVIOUS
<1>2. WalkedOK(tree, walked) /\ pos \in Nat /\ Len(walked) \in Nat
  BY <1>1 DEF WalkInv, CopyInv, WalkedOK
<1>3. CASE UNCHANGED vars
  BY <1>1, <1>3 DEF vars, LockInv
<1>4. CASE WalkName
  BY <1>1, <1>4 DEF WalkName, CopyVars, LockInv
<1>5. CASE WalkUp
  BY <1>1, <1>5 DEF WalkUp, CopyVars, LockInv
<1>6. CASE WalkDone
  <2>1. dirs = <<>> /\ dirs' = dirs /\ locked' = locked /\ locked = {} /\ pc' = "copy"
    BY <1>1, <1>6 DEF WalkDone, CopyVars, LockInv
  <2>2. \A k \in 1..Len(dirs') : FALSE
    BY <2>1
  <2> QED
    BY <1>1, <2>1, <2>2 DEF LockInv, MadeOf
<1>7. ASSUME pc = "copy", pc' \in {"copy", "failed"}, UNCHANGED <<walked, locked, dirs>>, pos' \in {pos, pos + 1}
      PROVE  LockInv'
  <2>1. \A m \in 1..pos : m \in 1..pos'
    BY <1>2, <1>7
  <2>2. MadeOf(walked, pos', dirs)
    BY <1>1, <1>7, <2>1 DEF LockInv, MadeOf
  <2>3. dirs' = dirs /\ locked' = locked /\ walked' = walked
    BY <1>7
  <2> QED
    BY <1>1, <1>7, <2>2, <2>3 DEF LockInv
<1>8. CASE Pack
  BY <1>7, <1>8 DEF Pack
<1>9. CASE Extract
  <2>1. CASE UNCHANGED dirs
    <3>1. pc = "copy" /\ pc' \in {"copy", "failed"} /\ UNCHANGED <<walked, locked>> /\ pos' \in {pos, pos + 1}
      BY <1>9 DEF Extract
    <3> QED
      BY <1>7, <2>1, <3>1
  <2>2. CASE ~ UNCHANGED dirs
    <3>1. /\ pc = "copy" /\ pc' = pc /\ pos < Len(walked) /\ pos' = pos + 1 /\ UNCHANGED <<walked, locked>>
          /\ dirs' = Append(dirs, walked[pos + 1].path)
      BY <1>9, <2>2 DEF Extract, Make, Entry
    <3>2. dirs \in Seq(Seq(Nat)) /\ locked = {} /\ InOrder(dirs) /\ MadeOf(walked, pos, dirs)
      BY <1>1, <3>1 DEF LockInv
    <3>3. PICK dt : dt = dirs'
      OBVIOUS
    <3>4. dt \in Seq(Seq(Nat)) /\ InOrder(dt) /\ MadeOf(walked, pos + 1, dt)
      BY <1>2, <3>1, <3>2, <3>3, LockMakes
    <3> QED
      BY <3>1, <3>2, <3>3, <3>4 DEF LockInv
  <2> QED
    BY <2>1, <2>2
<1>10. CASE CopyDone
  BY <1>1, <1>10 DEF CopyDone, LockInv
<1>11. CASE SetModes
  <2>1. PICK ds, dt, p : ds = dirs /\ dt = Front(dirs) /\ p = Last(dirs)
    OBVIOUS
  <2>2. ds \in Seq(Seq(Nat)) /\ ds # <<>> /\ dirs' = dt /\ locked' = locked \union {p} /\ pc' = "modes"
    BY <1>1, <1>11, <2>1 DEF SetModes, LockInv
  <2>3. PICK l \in Nat \ {0} : l = Len(ds)
    BY <2>2, FrontIs
  <2>4. /\ dt \in Seq(Seq(Nat)) /\ Len(dt) = l - 1 /\ (\A k \in 1..(l - 1) : dt[k] = ds[k])
        /\ p = ds[l] /\ p \in Seq(Nat)
    BY <2>1, <2>2, <2>3, FrontIs
  <2>5. \A k \in 1..(l - 1) : k \in 1..l /\ k < l
    OBVIOUS
  <2>6. l \in 1..l
    OBVIOUS
  <2>7. \A j, k \in 1..l : j < k => Before(ds[j], ds[k])
    BY <1>1, <2>1, <2>3 DEF LockInv, InOrder
  <2>8. \A r \in locked : \A k \in 1..l : Before(ds[k], r)
    BY <1>1, <2>1, <2>3 DEF LockInv
  <2>9. InOrder(dt)
    <3>1. \A k \in 1..Len(dt) : k \in 1..l /\ dt[k] = ds[k]
      BY <2>4, <2>5
    <3> QED
      BY <2>7, <3>1 DEF InOrder
  <2>10. \A r \in locked \union {p} : \A k \in 1..Len(dt) : Before(dt[k], r)
    BY <2>4, <2>5, <2>6, <2>7, <2>8
  <2>11. locked \subseteq Seq(Nat)
    BY <1>1 DEF LockInv
  <2> QED
    BY <2>2, <2>4, <2>9, <2>10, <2>11 DEF LockInv
<1>12. CASE ModesDone
  BY <1>1, <1>12 DEF ModesDone, LockInv
<1> QED
  BY <1>1, <1>3, <1>4, <1>5, <1>6, <1>8, <1>9, <1>10, <1>11, <1>12 DEF Next

(* It says what LockedFromInside asks.                                     *)
LEMMA LockInvInside == CopyInv /\ LockInv => LockedFromInside
<1>1. SUFFICES ASSUME CopyInv, LockInv, NEW p \in locked
               PROVE  /\ pos = Len(walked)
                      /\ \A k \in 1..Len(dirs) : ~IsStrictPrefix(p, dirs[k])
  BY DEF LockedFromInside
<1>2. pos = Len(walked)
  BY <1>1 DEF LockInv, CopyInv
<1>3. ASSUME NEW k \in 1..Len(dirs)
      PROVE  ~IsStrictPrefix(p, dirs[k])
  <2>1. p \in Seq(Nat) /\ Before(dirs[k], p)
    BY <1>1 DEF LockInv
  <2>2. dirs[k] \in Seq(Nat)
    BY <1>1, ElementOfSeq DEF LockInv
  <2> QED
    BY <2>1, <2>2, BeforeNotBelow
<1> QED
  BY <1>2, <1>3

(* For every tree: extract sets a directory's final mode only when nothing *)
(* below it is still to be made or to have its own mode set.               *)
THEOREM LocksFromInside == Spec => []LockedFromInside
BY WalkInvHolds, CopyInvHolds, LockInvInit, LockInvNext, LockInvInside, PTL DEF Spec
=============================================================================

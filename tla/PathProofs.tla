----------------------------- MODULE PathProofs ------------------------------
(***************************************************************************)
(* `resolve` finds what a path means, for trees and paths of any size and  *)
(* any limit on links, loops of links included.                            *)
(***************************************************************************)
EXTENDS PathResolve, ExtentsProofs, SequenceTheorems

-----------------------------------------------------------------------------
(* The order along which `Meaning` goes down: fewer links left, or as many *)
(* and a shorter path.                                                     *)
Fewer(x, y) == x.n < y.n \/ (x.n = y.n /\ Len(x.path) < Len(y.path))
Less == {xy \in Question \X Question : Fewer(xy[1], xy[2])}

(* What a question is made of.                                             *)
LEMMA QuestionIs ==
    ASSUME NEW x \in Question
    PROVE  /\ x.at \in Inodes /\ x.path \in Seq(Names) /\ x.last \in BOOLEAN /\ x.n \in Nat
           /\ Len(x.path) \in Nat
BY DEF Question

(* Asking is one.                                                          *)
LEMMA AskedIs ==
    ASSUME NEW d \in Inodes, NEW p \in Seq(Names), NEW last \in BOOLEAN, NEW n \in Nat
    PROVE  LET x == Asked(d, p, last, n)
           IN  x \in Question /\ x.at = d /\ x.path = p /\ x.last = last /\ x.n = n
BY DEF Asked, Question

(* Less, for pairs.                                                        *)
LEMMA LessIs ==
    ASSUME NEW x \in Question, NEW y \in Question
    PROVE  <<x, y>> \in Less <=> Fewer(x, y)
BY DEF Less

(* Going down ends.                                                        *)
LEMMA QuestionDescends == Descends(Question, Less)
<1>1. ASSUME NEW x \in Question, NEW y \in Question, NEW z \in Question, <<x, y>> \in Less, <<y, z>> \in Less
      PROVE  <<x, z>> \in Less
  <2>1. Fewer(x, y) /\ Fewer(y, z)
    BY <1>1, LessIs
  <2>2. x.n \in Nat /\ y.n \in Nat /\ z.n \in Nat
    BY QuestionIs
  <2>3. Len(x.path) \in Nat /\ Len(y.path) \in Nat /\ Len(z.path) \in Nat
    BY QuestionIs
  <2>4. PICK a \in Nat, b \in Nat, c \in Nat : a = x.n /\ b = y.n /\ c = z.n
    BY <2>2
  <2>5. PICK i \in Nat, j \in Nat, k \in Nat : i = Len(x.path) /\ j = Len(y.path) /\ k = Len(z.path)
    BY <2>3
  <2>6. (a < b \/ (a = b /\ i < j)) /\ (b < c \/ (b = c /\ j < k))
    BY <2>1, <2>4, <2>5 DEF Fewer
  <2>7. a < c \/ (a = c /\ i < k)
    BY <2>6
  <2>8. Fewer(x, z)
    BY <2>4, <2>5, <2>7 DEF Fewer
  <2> QED
    BY <2>8, LessIs
<1>2. ASSUME NEW U \in SUBSET Question, U # {}
      PROVE  \E x \in U : \A y \in U : <<y, x>> \notin Less
  <2>1. PICK A : A = {x.n : x \in U}
    OBVIOUS
  <2>2. A \subseteq Nat /\ A # {}
    BY <1>2, <2>1, QuestionIs
  <2>3. PICK a \in A : \A b \in A : a <= b
    BY <2>2, MinOfNats
  <2>4. PICK B : B = {Len(x.path) : x \in {y \in U : y.n = a}}
    OBVIOUS
  <2>5. B \subseteq Nat /\ B # {}
    BY <1>2, <2>1, <2>3, <2>4, QuestionIs
  <2>6. PICK b \in B : \A c \in B : b <= c
    BY <2>5, MinOfNats
  <2>7. PICK x \in U : x.n = a /\ Len(x.path) = b
    BY <2>4, <2>6
  <2>8. ASSUME NEW y \in U
        PROVE  <<y, x>> \notin Less
    <3>1. y.n \in A /\ (y.n = a => Len(y.path) \in B)
      BY <2>1, <2>4
    <3>2. y \in Question /\ x \in Question
      BY <1>2
    <3>3. y.n \in Nat /\ Len(y.path) \in Nat
      BY <3>2, QuestionIs
    <3>4. a <= y.n /\ (y.n = a => b <= Len(y.path)) /\ a \in Nat /\ b \in Nat
      BY <2>2, <2>3, <2>5, <2>6, <3>1
    <3>5. PICK m \in Nat, l \in Nat : m = y.n /\ l = Len(y.path)
      BY <3>3
    <3>6. ~ (m < a \/ (m = a /\ l < b))
      BY <3>4, <3>5
    <3>7. ~ Fewer(y, x)
      BY <2>7, <3>5, <3>6 DEF Fewer
    <3> QED
      BY <3>2, <3>7, LessIs
  <2> QED
    BY <2>7, <2>8
<1> QED
  BY <1>1, <1>2 DEF Descends

-----------------------------------------------------------------------------
(* The equation of `Meaning`, with the tree as a parameter, ...            *)
Body(t, f, x) ==
    IF x.path = <<>> THEN [end |-> "ok", at |-> x.at, n |-> x.n]
    ELSE IF t.kind[x.at] # "dir" THEN Nowhere("NotADirectory")
    ELSE IF Head(x.path) \notin DOMAIN t.names[x.at] THEN Nowhere("NotFound")
    ELSE LET i == t.names[x.at][Head(x.path)]
             aside == t.kind[i] = "symlink" /\ (x.last \/ Len(x.path) > 1)
             g == t.target[i]
             via == IF ~aside THEN [end |-> "ok", at |-> i, n |-> x.n]
                    ELSE IF x.n = 0 THEN Nowhere("SymlinkLoop")
                    ELSE f[Asked(IF g.absolute THEN Root ELSE x.at, g.comps, TRUE, x.n - 1)]
         IN  IF via.end # "ok" THEN via ELSE f[Asked(via.at, Tail(x.path), x.last, via.n)]
IsMeaning(t, f) == f = [x \in Question |-> Body(t, f, x)]

(* ... and taken apart.                                                    *)
Blocked(t, x) == x.path = <<>> \/ t.kind[x.at] # "dir" \/ Head(x.path) \notin DOMAIN t.names[x.at]
Child(t, x) == t.names[x.at][Head(x.path)]
Aside(t, x) == t.kind[Child(t, x)] = "symlink" /\ (x.last \/ Len(x.path) > 1)
Detour(t, x) ==
    Asked(IF t.target[Child(t, x)].absolute THEN Root ELSE x.at, t.target[Child(t, x)].comps, TRUE, x.n - 1)
Via(t, f, x) ==
    IF ~Aside(t, x) THEN [end |-> "ok", at |-> Child(t, x), n |-> x.n]
    ELSE IF x.n = 0 THEN Nowhere("SymlinkLoop") ELSE f[Detour(t, x)]
Onward(v, x) == Asked(v.at, Tail(x.path), x.last, v.n)
Dead(t, x) ==
    IF x.path = <<>> THEN [end |-> "ok", at |-> x.at, n |-> x.n]
    ELSE IF t.kind[x.at] # "dir" THEN Nowhere("NotADirectory") ELSE Nowhere("NotFound")

(* The two are the same.                                                   *)
LEMMA BodyIs ==
    ASSUME NEW t, NEW f, NEW x
    PROVE  /\ Blocked(t, x) => Body(t, f, x) = Dead(t, x)
           /\ ~Blocked(t, x) /\ Via(t, f, x).end # "ok" => Body(t, f, x) = Via(t, f, x)
           /\ ~Blocked(t, x) /\ Via(t, f, x).end = "ok" => Body(t, f, x) = f[Onward(Via(t, f, x), x)]
<1>1. Blocked(t, x) => Body(t, f, x) = Dead(t, x)
  BY DEF Blocked, Body, Dead
<1>2. ASSUME ~Blocked(t, x)
      PROVE  Body(t, f, x) = IF Via(t, f, x).end # "ok" THEN Via(t, f, x) ELSE f[Onward(Via(t, f, x), x)]
  BY <1>2 DEF Blocked, Body, Via, Aside, Child, Detour, Onward
<1> QED
  BY <1>1, <1>2

(* A tree as ResolveAssumption has it.                                     *)
IsTree(t) ==
    /\ DOMAIN t.names = {i \in Inodes : t.kind[i] = "dir"}
    /\ DOMAIN t.target = {i \in Inodes : t.kind[i] = "symlink"}
    /\ \A d \in DOMAIN t.names : \A m \in DOMAIN t.names[d] : t.names[d][m] \in Inodes
    /\ \A i \in DOMAIN t.target : t.target[i].comps \in Seq(Names)
    /\ Root \in Inodes

Answer == [end : {"ok", "NotADirectory", "NotFound", "SymlinkLoop"}, at : Inodes, n : Nat]
Right == [x \in Question |-> {r \in Answer : r.n <= x.n}]
Answers == Family(Question, Answer, Right)

(* What such a function gives.                                             *)
LEMMA AnswersAre ==
    ASSUME NEW f \in Answers, NEW x \in Question
    PROVE  f[x] \in Answer /\ f[x].at \in Inodes /\ f[x].n \in Nat /\ f[x].n <= x.n
<1>1. f[x] \in Answer /\ f[x].n <= x.n
  BY DEF Answers, Family, Right
<1> QED
  BY <1>1 DEF Answer

(* The ways on from a question are questions below it.                     *)
LEMMA DetourBelow ==
    ASSUME NEW t, IsTree(t), NEW x \in Question, ~Blocked(t, x), Aside(t, x), x.n # 0
    PROVE  /\ Detour(t, x) \in Question /\ Fewer(Detour(t, x), x) /\ Detour(t, x).n = x.n - 1
<1>1. x.at \in Inodes /\ x.n \in Nat /\ x.n - 1 \in Nat /\ x.n - 1 < x.n
  BY QuestionIs
<1>2. x.at \in DOMAIN t.names
  BY <1>1 DEF Blocked, IsTree
<1>3. PICK i \in Inodes : i = Child(t, x)
  BY <1>2 DEF Blocked, IsTree, Child
<1>4. i \in DOMAIN t.target
  BY <1>3 DEF Aside, IsTree
<1>5. PICK d \in Inodes : d = IF t.target[i].absolute THEN Root ELSE x.at
  BY <1>1 DEF IsTree
<1>6. PICK p \in Seq(Names) : p = t.target[i].comps
  BY <1>4 DEF IsTree
<1>7. PICK k \in Nat, b \in BOOLEAN : k = x.n - 1 /\ b = TRUE
  BY <1>1
<1>8. PICK y : y = Asked(d, p, b, k)
  OBVIOUS
<1>9. Detour(t, x) = y
  BY <1>3, <1>5, <1>6, <1>7, <1>8 DEF Detour
<1>10. y \in Question /\ y.n = k
  BY <1>8, AskedIs
<1> QED
  BY <1>1, <1>7, <1>9, <1>10 DEF Fewer

(* ... and so is what is left of the path.                                 *)
LEMMA OnwardBelow ==
    ASSUME NEW x \in Question, x.path # <<>>, NEW v, v.at \in Inodes, v.n \in Nat, v.n <= x.n
    PROVE  /\ Onward(v, x) \in Question /\ Fewer(Onward(v, x), x) /\ Onward(v, x).at = v.at
           /\ Onward(v, x).path = Tail(x.path) /\ Onward(v, x).last = x.last /\ Onward(v, x).n = v.n
<1>1. x.path \in Seq(Names) /\ x.last \in BOOLEAN /\ x.n \in Nat
  BY QuestionIs
<1>2. PICK p \in Seq(Names) : p = Tail(x.path) /\ Len(p) < Len(x.path)
  <2>1. PICK q \in Seq(Names) : q = x.path /\ q # <<>>
    BY <1>1
  <2>2. Tail(q) \in Seq(Names) /\ Len(Tail(q)) = Len(q) - 1
    BY <2>1, HeadTailProperties
  <2>3. Len(q) \in Nat
    OBVIOUS
  <2>4. Len(q) - 1 < Len(q)
    BY <2>3
  <2> QED
    BY <2>1, <2>2, <2>4
<1>3. PICK d \in Inodes, n \in Nat, b \in BOOLEAN : d = v.at /\ n = v.n /\ b = x.last
  BY <1>1
<1>4. PICK y : y = Asked(d, p, b, n)
  OBVIOUS
<1>5. y \in Question /\ y.at = d /\ y.path = p /\ y.last = b /\ y.n = n
  BY <1>4, AskedIs
<1>6. Onward(v, x) = y
  BY <1>2, <1>3, <1>4 DEF Onward
<1>7. Fewer(y, x)
  BY <1>1, <1>2, <1>3, <1>5 DEF Fewer
<1> QED
  BY <1>2, <1>3, <1>5, <1>6, <1>7

RightBelow(f, x) == \A y \in Question : Fewer(y, x) => f[y] \in Answer /\ f[y].n <= y.n

(* The way round a link, ...                                               *)
LEMMA ViaIs ==
    ASSUME NEW t, IsTree(t), NEW x \in Question, ~Blocked(t, x), NEW f, RightBelow(f, x)
    PROVE  /\ Via(t, f, x) \in Answer /\ Via(t, f, x).at \in Inodes /\ Via(t, f, x).n \in Nat
           /\ Via(t, f, x).n <= x.n
<1>1. x.at \in Inodes /\ x.n \in Nat
  BY QuestionIs
<1>2. Child(t, x) \in Inodes
  BY <1>1 DEF Blocked, IsTree, Child
<1>3. PICK v : v = Via(t, f, x)
  OBVIOUS
<1>4. v \in Answer /\ v.n <= x.n
  <2>1. CASE ~Aside(t, x)
    <3>1. v = [end |-> "ok", at |-> Child(t, x), n |-> x.n]
      BY <1>3, <2>1 DEF Via
    <3>2. v.n = x.n
      BY <3>1
    <3> QED
      BY <1>1, <1>2, <3>1, <3>2 DEF Answer
  <2>2. CASE Aside(t, x) /\ x.n = 0
    <3>1. v = [end |-> "SymlinkLoop", at |-> Root, n |-> 0]
      BY <1>3, <2>2 DEF Via, Nowhere
    <3>2. v.n = 0
      BY <3>1
    <3> QED
      BY <1>1, <2>2, <3>1, <3>2 DEF Answer, IsTree
  <2>3. CASE Aside(t, x) /\ x.n # 0
    <3>1. PICK y \in Question : y = Detour(t, x) /\ Fewer(y, x) /\ y.n = x.n - 1
      BY <2>3, DetourBelow
    <3>2. v = f[y]
      BY <1>3, <2>3, <3>1 DEF Via
    <3>3. v \in Answer /\ v.n <= x.n - 1
      BY <3>1, <3>2 DEF RightBelow
    <3>4. v.n \in Nat
      BY <3>3 DEF Answer
    <3> QED
      BY <1>1, <3>3, <3>4
  <2> QED
    BY <2>1, <2>2, <2>3
<1> QED
  BY <1>3, <1>4 DEF Answer

(* ... and the answer.                                                     *)
LEMMA BodyRight ==
    ASSUME NEW t, IsTree(t), NEW x \in Question, NEW f, RightBelow(f, x)
    PROVE  Body(t, f, x) \in Answer /\ Body(t, f, x).n <= x.n
<1>1. x.at \in Inodes /\ x.n \in Nat /\ Root \in Inodes
  BY QuestionIs DEF IsTree
<1>2. CASE Blocked(t, x)
  <2>1. PICK r : r = Body(t, f, x)
    OBVIOUS
  <2>2. r = Dead(t, x)
    BY <1>2, <2>1, BodyIs
  <2>3. CASE x.path = <<>>
    <3>1. r = [end |-> "ok", at |-> x.at, n |-> x.n]
      BY <2>2, <2>3 DEF Dead
    <3>2. r.n = x.n
      BY <3>1
    <3> QED
      BY <1>1, <2>1, <3>1, <3>2 DEF Answer
  <2>4. CASE x.path # <<>>
    <3>1. PICK e \in {"NotADirectory", "NotFound"} : r = [end |-> e, at |-> Root, n |-> 0]
      BY <2>2, <2>4 DEF Dead, Nowhere
    <3>2. r.n = 0
      BY <3>1
    <3> QED
      BY <1>1, <2>1, <3>1, <3>2 DEF Answer
  <2> QED
    BY <2>3, <2>4
<1>3. CASE ~Blocked(t, x)
  <2>1. PICK v : v = Via(t, f, x)
    OBVIOUS
  <2>2. v \in Answer /\ v.at \in Inodes /\ v.n \in Nat /\ v.n <= x.n
    BY <1>3, <2>1, ViaIs
  <2>3. CASE v.end # "ok"
    BY <1>3, <2>1, <2>2, <2>3, BodyIs
  <2>4. CASE v.end = "ok"
    <3>1. x.path # <<>>
      BY <1>3 DEF Blocked
    <3>2. PICK y \in Question : y = Onward(v, x) /\ Fewer(y, x) /\ y.n = v.n
      BY <2>2, <3>1, OnwardBelow
    <3>3. Body(t, f, x) = f[y]
      BY <1>3, <2>1, <2>4, <3>2, BodyIs
    <3>4. f[y] \in Answer /\ f[y].n <= v.n
      BY <3>2 DEF RightBelow
    <3>5. f[y].n \in Nat
      BY <3>4 DEF Answer
    <3>6. f[y].n <= x.n
      BY <1>1, <2>2, <3>4, <3>5
    <3> QED
      BY <3>3, <3>4, <3>6
  <2> QED
    BY <2>3, <2>4
<1> QED
  BY <1>2, <1>3

(* It looks only at questions below.                                       *)
LEMMA BodyBelow ==
    ASSUME NEW t, IsTree(t), NEW x \in Question, NEW f, NEW g, RightBelow(f, x),
           Same(Question, Less, f, g, x)
    PROVE  Body(t, f, x) = Body(t, g, x)
<1>1. \A y \in Question : Fewer(y, x) => f[y] = g[y]
  BY LessIs DEF Same
<1>2. CASE Blocked(t, x)
  BY <1>2, BodyIs
<1>3. CASE ~Blocked(t, x)
  <2>1. PICK v : v = Via(t, f, x)
    OBVIOUS
  <2>2. v.at \in Inodes /\ v.n \in Nat /\ v.n <= x.n
    BY <1>3, <2>1, ViaIs
  <2>3. Via(t, g, x) = v
    <3>1. CASE Aside(t, x) /\ x.n # 0
      <4>1. Detour(t, x) \in Question /\ Fewer(Detour(t, x), x)
        BY <1>3, <3>1, DetourBelow
      <4> QED
        BY <1>1, <2>1, <3>1, <4>1 DEF Via
    <3>2. CASE ~(Aside(t, x) /\ x.n # 0)
      BY <2>1, <3>2 DEF Via
    <3> QED
      BY <3>1, <3>2
  <2>4. CASE v.end # "ok"
    BY <1>3, <2>1, <2>3, <2>4, BodyIs
  <2>5. CASE v.end = "ok"
    <3>1. x.path # <<>>
      BY <1>3 DEF Blocked
    <3>2. Onward(v, x) \in Question /\ Fewer(Onward(v, x), x)
      BY <2>2, <3>1, OnwardBelow
    <3>3. f[Onward(v, x)] = g[Onward(v, x)]
      BY <1>1, <3>2
    <3>4. Body(t, f, x) = f[Onward(v, x)]
      BY <1>3, <2>1, <2>5, BodyIs
    <3>5. Body(t, g, x) = g[Onward(v, x)]
      BY <1>3, <2>3, <2>5, BodyIs
    <3> QED
      BY <3>3, <3>4, <3>5
  <2> QED
    BY <2>4, <2>5
<1> QED
  BY <1>2, <1>3

(* There is a meaning, ...                                                 *)
LEMMA MeaningExists ==
    ASSUME NEW t, IsTree(t)
    PROVE  \E f : IsMeaning(t, f)
<1>1. \A f \in Answers : \A x \in Question : RightBelow(f, x)
  BY AnswersAre DEF RightBelow
<1>2. PICK G : G = [f \in Answers |-> [x \in Question |-> Body(t, f, x)]]
  OBVIOUS
<1>3. ASSUME NEW f \in Answers
      PROVE  G[f] \in Answers
  <2>1. ASSUME NEW x \in Question
        PROVE  G[f][x] \in Answer /\ G[f][x] \in Right[x]
    <3>1. G[f][x] = Body(t, f, x)
      BY <1>2
    <3> QED
      BY <1>1, <3>1, BodyRight DEF Right
  <2>2. G[f] \in [Question -> Answer]
    <3>1. G[f] = [x \in Question |-> Body(t, f, x)]
      BY <1>2
    <3>2. \A x \in Question : Body(t, f, x) \in Answer
      BY <2>1, <3>1
    <3> QED
      BY <3>1, <3>2
  <2> QED
    BY <2>1, <2>2 DEF Answers, Family
<1>4. G \in [Answers -> Answers]
  BY <1>2, <1>3
<1>5. \A f, g \in Answers : \A x \in Question : Same(Question, Less, f, g, x) => G[f][x] = G[g][x]
  BY <1>1, <1>2, BodyBelow
<1>6. LooksBelow(Question, Less, Answers, G)
  BY <1>4, <1>5 DEF LooksBelow
<1>7. Answers # {}
  <2>1. PICK r : r = [end |-> "ok", at |-> Root, n |-> 0]
    OBVIOUS
  <2>2. r \in Answer /\ r.n = 0
    BY <2>1 DEF Answer, IsTree
  <2>3. PICK f : f = [x \in Question |-> r]
    OBVIOUS
  <2>4. f \in [Question -> Answer]
    BY <2>2, <2>3
  <2>5. \A x \in Question : f[x] \in Right[x]
    BY <2>2, <2>3, QuestionIs DEF Right
  <2> QED
    BY <2>4, <2>5 DEF Answers, Family
<1>8. PICK f \in Answers : f = G[f]
  BY <1>6, <1>7, QuestionDescends, Recursion DEF Answers
<1> QED
  BY <1>2, <1>8 DEF IsMeaning

(* ... whatever is one gives answers, and with no more links left, ...     *)
LEMMA MeaningRight ==
    ASSUME NEW t, IsTree(t), NEW f, IsMeaning(t, f)
    PROVE  f \in Answers
<1>1. f = [x \in Question |-> f[x]] /\ \A x \in Question : f[x] = Body(t, f, x)
  BY DEF IsMeaning
<1>2. PICK U : U = {x \in Question : ~(f[x] \in Answer /\ f[x].n <= x.n)}
  OBVIOUS
<1>3. U = {}
  <2>1. SUFFICES ASSUME U # {} PROVE FALSE
    OBVIOUS
  <2>2. PICK x \in U : \A y \in U : <<y, x>> \notin Less
    BY <1>2, <2>1, QuestionDescends DEF Descends
  <2>3. x \in Question
    BY <1>2
  <2>4. RightBelow(f, x)
    BY <1>2, <2>2, <2>3, LessIs DEF RightBelow
  <2>5. f[x] \in Answer /\ f[x].n <= x.n
    BY <1>1, <2>3, <2>4, BodyRight
  <2> QED
    BY <1>2, <2>5
<1>4. \A x \in Question : f[x] \in Answer /\ f[x] \in Right[x]
  BY <1>2, <1>3 DEF Right
<1>5. f \in [Question -> Answer]
  BY <1>1, <1>4
<1> QED
  BY <1>4, <1>5 DEF Answers, Family

(* ... and so `Meaning` is one.                                            *)
LEMMA MeaningIs ==
    ASSUME IsTree(tree)
    PROVE  Meaning \in Answers /\ \A x \in Question : Meaning[x] = Body(tree, Meaning, x)
<1>1. PICK g : g = CHOOSE f : IsMeaning(tree, f)
  OBVIOUS
<1>2. Meaning = g
  BY <1>1 DEF Meaning, IsMeaning, Body
<1>3. IsMeaning(tree, g)
  BY <1>1, MeaningExists
<1>4. g \in Answers
  BY <1>3, MeaningRight
<1>5. \A x \in Question : g[x] = Body(tree, g, x)
  BY <1>3 DEF IsMeaning
<1> QED
  BY <1>2, <1>4, <1>5

-----------------------------------------------------------------------------
(* A path in two parts means what its second means from where its first    *)
(* leads, with the links the first leaves.                                 *)

Means(t, f) == f \in Answers /\ \A x \in Question : f[x] = Body(t, f, x)
After(f, v, q, last) == IF v.end # "ok" THEN v ELSE f[Asked(v.at, q, last, v.n)]
Longer(x, q, last) == Asked(x.at, x.path \o q, last, x.n)

LongerOK(t, x, q, last, y) ==
    /\ y \in Question /\ y.at = x.at /\ y.n = x.n /\ y.last = last /\ y.path # <<>>
    /\ Tail(y.path) = Tail(x.path) \o q
    /\ Blocked(t, x) <=> Blocked(t, y)
    /\ \A f : Via(t, f, x) = Via(t, f, y)

(* The first name of a path that has more put behind it.                   *)
LEMMA HeadConcat ==
    ASSUME NEW p \in Seq(Names), NEW q \in Seq(Names), p # <<>>
    PROVE  /\ p \o q \in Seq(Names) /\ p \o q # <<>> /\ Head(p \o q) = Head(p) /\ Tail(p \o q) = Tail(p) \o q
           /\ Tail(p) \in Seq(Names) /\ Len(p \o q) = Len(p) + Len(q)
<1>1. PICK m \in Nat \ {0}, n \in Nat : m = Len(p) /\ n = Len(q)
  BY EmptySeq
<1>2. PICK u : u = p \o q
  OBVIOUS
<1>3. u \in Seq(Names) /\ Len(u) = m + n /\ (\A k \in 1..m : u[k] = p[k]) /\ \A k \in 1..n : u[m + k] = q[k]
  BY <1>1, <1>2
<1>4. u # <<>>
  BY <1>1, <1>3, EmptySeq
<1>5. 1 \in 1..m /\ Head(u) = u[1] /\ Head(p) = p[1]
  BY <1>1, <1>3, <1>4
<1>6. PICK w, z, r : w = Tail(u) /\ r = Tail(p) /\ z = r \o q
  OBVIOUS
<1>7. r \in Seq(Names) /\ Len(r) = m - 1 /\ \A k \in 1..(m - 1) : r[k] = p[k + 1]
  BY <1>1, <1>6, HeadTailProperties
<1>8. w \in Seq(Names) /\ Len(w) = m + n - 1 /\ \A k \in 1..(m + n - 1) : w[k] = u[k + 1]
  BY <1>3, <1>4, <1>6, HeadTailProperties
<1>9. /\ z \in Seq(Names) /\ Len(z) = m - 1 + n
      /\ (\A k \in 1..(m - 1) : z[k] = r[k]) /\ \A k \in 1..n : z[m - 1 + k] = q[k]
  BY <1>1, <1>6, <1>7
<1>10. \A k \in 1..(m + n - 1) : w[k] = z[k]
  <2>1. SUFFICES ASSUME NEW k \in 1..(m + n - 1)
                 PROVE  w[k] = z[k]
    OBVIOUS
  <2>2. CASE k \in 1..(m - 1)
    <3>1. k + 1 \in 1..m
      BY <2>2
    <3> QED
      BY <1>3, <1>7, <1>8, <1>9, <2>2, <3>1
  <2>3. CASE k \notin 1..(m - 1)
    <3>1. PICK j \in 1..n : k = m - 1 + j /\ k + 1 = m + j
      <4>1. k - (m - 1) \in 1..n
        BY <2>3
      <4> QED
        BY <4>1
    <3>2. w[k] = u[m + j]
      BY <1>8, <3>1
    <3>3. u[m + j] = q[j]
      BY <1>3
    <3>4. z[k] = q[j]
      BY <1>9, <3>1
    <3> QED
      BY <3>2, <3>3, <3>4
  <2> QED
    BY <2>2, <2>3
<1>11. w = z
  <2>1. Len(w) = Len(z) /\ 1..Len(w) = 1..(m + n - 1)
    BY <1>8, <1>9
  <2> QED
    BY <1>8, <1>9, <1>10, <2>1, SeqEqual
<1> QED
  BY <1>1, <1>2, <1>3, <1>4, <1>5, <1>6, <1>7, <1>11

(* A question with more behind it asks the same first.                     *)
LEMMA LongerIs ==
    ASSUME NEW t, NEW x \in Question, x.last, x.path # <<>>, NEW q \in Seq(Names), NEW last \in BOOLEAN,
           last \/ q # <<>>
    PROVE  LongerOK(t, x, q, last, Longer(x, q, last))
<1>1. x.at \in Inodes /\ x.path \in Seq(Names) /\ x.n \in Nat
  BY QuestionIs
<1>2. PICK p \in Seq(Names) : p = x.path \o q
  BY <1>1, HeadConcat
<1>3. /\ p # <<>> /\ Head(p) = Head(x.path) /\ Tail(p) = Tail(x.path) \o q /\ Len(p) = Len(x.path) + Len(q)
  BY <1>1, <1>2, HeadConcat
<1>4. PICK y : y = Asked(x.at, p, last, x.n)
  OBVIOUS
<1>5. y \in Question /\ y.at = x.at /\ y.n = x.n /\ y.last = last /\ y.path = p
  BY <1>1, <1>4, AskedIs
<1>6. y = Longer(x, q, last)
  BY <1>2, <1>4 DEF Longer
<1>7. Blocked(t, x) <=> Blocked(t, y)
  BY <1>3, <1>5 DEF Blocked
<1>8. Child(t, x) = Child(t, y)
  BY <1>3, <1>5 DEF Child
<1>9. y.last \/ Len(y.path) > 1
  <2>1. CASE last
    BY <1>5, <2>1
  <2>2. CASE q # <<>>
    <3>1. PICK m \in Nat, n \in Nat : m = Len(x.path) /\ n = Len(q) /\ m > 0 /\ n > 0
      BY <1>1, <2>2, EmptySeq
    <3> QED
      BY <1>3, <1>5, <3>1
  <2> QED
    BY <2>1, <2>2
<1>10. Aside(t, x) <=> Aside(t, y)
  BY <1>8, <1>9 DEF Aside
<1>11. Detour(t, x) = Detour(t, y)
  BY <1>5, <1>8 DEF Detour
<1>12. \A f : Via(t, f, x) = Via(t, f, y)
  BY <1>5, <1>8, <1>10, <1>11 DEF Via
<1> QED
  BY <1>3, <1>5, <1>6, <1>7, <1>12 DEF LongerOK

(* The lemma on parts.                                                     *)
LEMMA InParts ==
    ASSUME NEW t, IsTree(t), NEW f, Means(t, f), NEW q \in Seq(Names), NEW last \in BOOLEAN, last \/ q # <<>>,
           NEW x \in Question, x.last
    PROVE  f[Longer(x, q, last)] = After(f, f[x], q, last)
<1>1. PICK U : U = {y \in Question : y.last /\ f[Longer(y, q, last)] # After(f, f[y], q, last)}
  OBVIOUS
<1>2. SUFFICES ASSUME U # {} PROVE FALSE
  BY <1>1
<1>3. PICK y \in U : \A z \in U : <<z, y>> \notin Less
  BY <1>1, <1>2, QuestionDescends DEF Descends
<1>4. y \in Question /\ y.last /\ f[Longer(y, q, last)] # After(f, f[y], q, last)
  BY <1>1, <1>3
<1>5. ASSUME NEW z \in Question, z.last, Fewer(z, y)
      PROVE  f[Longer(z, q, last)] = After(f, f[z], q, last)
  BY <1>1, <1>3, <1>4, <1>5, LessIs
<1>6. y.at \in Inodes /\ y.path \in Seq(Names) /\ y.n \in Nat
  BY <1>4, QuestionIs
<1>7. f[y] = Body(t, f, y) /\ RightBelow(f, y)
  BY <1>4, AnswersAre DEF Means, RightBelow
<1>8. y.path # <<>>
  <2>1. SUFFICES ASSUME y.path = <<>> PROVE FALSE
    OBVIOUS
  <2>2. Longer(y, q, last) = Asked(y.at, q, last, y.n)
    BY <2>1 DEF Longer
  <2>3. Blocked(t, y)
    BY <2>1 DEF Blocked
  <2>4. f[y] = [end |-> "ok", at |-> y.at, n |-> y.n]
    BY <1>7, <2>1, <2>3, BodyIs DEF Dead
  <2> QED
    BY <1>4, <2>2, <2>4 DEF After
<1>9. PICK l : l = Longer(y, q, last)
  OBVIOUS
<1>10. /\ l \in Question /\ l.at = y.at /\ l.n = y.n /\ l.last = last /\ l.path # <<>>
       /\ Tail(l.path) = Tail(y.path) \o q
       /\ Blocked(t, y) <=> Blocked(t, l)
       /\ Via(t, f, y) = Via(t, f, l)
  <2>1. LongerOK(t, y, q, last, l)
    BY <1>4, <1>8, <1>9, LongerIs
  <2> QED
    BY <2>1 DEF LongerOK
<1>11. f[l] = Body(t, f, l)
  BY <1>10 DEF Means
<1>12. ~ Blocked(t, y)
  <2>1. SUFFICES ASSUME Blocked(t, y) PROVE FALSE
    OBVIOUS
  <2>2. f[y] = Dead(t, y) /\ f[l] = Dead(t, l)
    BY <1>7, <1>10, <1>11, <2>1, BodyIs
  <2>3. Dead(t, y) = Dead(t, l) /\ Dead(t, y).end # "ok"
    BY <1>8, <1>10 DEF Dead, Nowhere
  <2> QED
    BY <1>4, <1>9, <2>2, <2>3 DEF After
<1>13. PICK v : v = Via(t, f, y)
  OBVIOUS
<1>14. v.at \in Inodes /\ v.n \in Nat /\ v.n <= y.n
  BY <1>4, <1>7, <1>12, <1>13, ViaIs
<1>15. v.end = "ok"
  <2>1. SUFFICES ASSUME v.end # "ok" PROVE FALSE
    OBVIOUS
  <2>2. f[y] = v /\ f[l] = v
    BY <1>7, <1>10, <1>11, <1>12, <1>13, <2>1, BodyIs
  <2> QED
    BY <1>4, <1>9, <2>1, <2>2 DEF After
<1>16. PICK z : z = Onward(v, y)
  OBVIOUS
<1>17. /\ z \in Question /\ Fewer(z, y) /\ z.at = v.at /\ z.path = Tail(y.path) /\ z.last = y.last /\ z.n = v.n
  BY <1>4, <1>8, <1>14, <1>16, OnwardBelow
<1>18. f[y] = f[z] /\ f[l] = f[Onward(v, l)]
  BY <1>7, <1>10, <1>11, <1>12, <1>13, <1>15, <1>16, BodyIs
<1>19. Onward(v, l) = Longer(z, q, last)
  BY <1>10, <1>17 DEF Onward, Longer
<1>20. f[Longer(z, q, last)] = After(f, f[z], q, last)
  BY <1>4, <1>5, <1>17
<1> QED
  BY <1>4, <1>9, <1>18, <1>19, <1>20

-----------------------------------------------------------------------------
(* The invariant: what is left of the queue means, from where the call     *)
(* stands and with the links it has left, what the path meant.             *)
Whole == Meaning[Asked(Root, path, follow, MaxSymlinks)]
Rest == Meaning[Asked(cur, comps, follow, MaxSymlinks - links)]
MeaningInv ==
    /\ IsTree(tree) /\ path \in Seq(Names) /\ follow \in BOOLEAN
    /\ comps \in Seq(Names) /\ cur \in Inodes /\ links \in Nat
    /\ result.end = "none" => links <= MaxSymlinks /\ Whole = Rest
    /\ ResolvesMeaning

(* ResolveAssumption, in this module's words.                              *)
LEMMA TreesAre ==
    MaxSymlinks \in Nat /\ Paths \subseteq Seq(Names) /\ Root \in Inodes /\ \A t \in Trees : IsTree(t)
<1>1. MaxSymlinks \in Nat /\ Paths \subseteq Seq(Names) /\ Root \in Inodes
  BY ResolveAssumption
<1>2. \A t \in Trees : IsTree(t)
  BY ResolveAssumption DEF IsTree
<1> QED
  BY <1>1, <1>2

(* What is left, as a question.                                            *)
LEMMA RestIs ==
    ASSUME MeaningInv, result.end = "none"
    PROVE  /\ Asked(cur, comps, follow, MaxSymlinks - links) \in Question /\ MaxSymlinks - links \in Nat
           /\ Means(tree, Meaning)
<1>1. MaxSymlinks - links \in Nat
  BY TreesAre DEF MeaningInv
<1>2. PICK n \in Nat : n = MaxSymlinks - links
  BY <1>1
<1>3. Asked(cur, comps, follow, n) \in Question
  BY AskedIs DEF MeaningInv
<1>4. Means(tree, Meaning)
  BY MeaningIs DEF MeaningInv, Means
<1> QED
  BY <1>1, <1>2, <1>3, <1>4

(* The call at its start.                                                  *)
LEMMA MeaningInvInit == Init => MeaningInv
<1>1. SUFFICES ASSUME Init PROVE MeaningInv
  OBVIOUS
<1>2. IsTree(tree) /\ path \in Seq(Names) /\ follow \in BOOLEAN
  BY <1>1, TreesAre DEF Init
<1>3. comps = path /\ cur = Root /\ links = 0 /\ result.end = "none"
  BY <1>1 DEF Init, Running
<1>4. Whole = Rest
  <2>1. MaxSymlinks - 0 = MaxSymlinks
    BY TreesAre
  <2> QED
    BY <1>3, <2>1 DEF Whole, Rest
<1> QED
  BY <1>2, <1>3, <1>4, TreesAre DEF MeaningInv, ResolvesMeaning

(* What a step sees: the first name left and what it leads to.             *)
LEMMA StepIs ==
    ASSUME NEW x, x = Asked(cur, comps, follow, MaxSymlinks - links), More, IsTree(tree), cur \in Inodes,
           comps \in Seq(Names)
    PROVE  /\ x.at = cur /\ x.path = comps /\ x.path # <<>> /\ x.n = MaxSymlinks - links
           /\ ~IsDir => Dead(tree, x) = Nowhere("NotADirectory")
           /\ IsDir => Dead(tree, x) = Nowhere("NotFound")
           /\ Blocked(tree, x) <=> ~(IsDir /\ dir_lookup # {})
           /\ Here => child = Child(tree, x) /\ child \in Inodes /\ Tail(comps) \in Seq(Names)
           /\ Here => (Aside(tree, x) <=> tree.kind[child] = "symlink" /\ ~FinalAsItIs)
<1>1. x.at = cur /\ x.path = comps /\ x.n = MaxSymlinks - links /\ x.last = follow /\ comps # <<>>
  BY DEF Asked, More
<1>2. ~IsDir => Dead(tree, x) = Nowhere("NotADirectory")
  BY <1>1 DEF Dead, IsDir
<1>3. IsDir => Dead(tree, x) = Nowhere("NotFound")
  BY <1>1 DEF Dead, IsDir
<1>4. Blocked(tree, x) <=> ~(IsDir /\ dir_lookup # {})
  BY <1>1 DEF Blocked, IsDir, dir_lookup
<1>5. ASSUME Here
      PROVE  child = Child(tree, x) /\ child \in Inodes /\ Tail(comps) \in Seq(Names)
  <2>1. Head(comps) \in DOMAIN tree.names[cur] /\ cur \in DOMAIN tree.names
    BY <1>5 DEF Here, IsDir, dir_lookup, IsTree
  <2>2. child = tree.names[cur][Head(comps)]
    BY <2>1 DEF child, dir_lookup
  <2>3. child = Child(tree, x)
    BY <1>1, <2>2 DEF Child
  <2>4. child \in Inodes
    BY <2>1, <2>2 DEF IsTree
  <2> QED
    BY <1>1, <2>3, <2>4, HeadTailProperties
<1>6. ASSUME Here
      PROVE  Aside(tree, x) <=> tree.kind[child] = "symlink" /\ ~FinalAsItIs
  <2>1. Len(comps) \in Nat /\ Len(comps) > 0
    BY <1>1, EmptySeq
  <2>2. Len(comps) > 1 <=> Len(comps) # 1
    <3>1. PICK l \in Nat : l = Len(comps) /\ l > 0
      BY <2>1
    <3>2. l > 1 => l # 1
      BY <3>1
    <3>3. l # 1 => l > 1
      BY <3>1
    <3> QED
      BY <3>1, <3>2, <3>3
  <2>3. (x.last \/ Len(x.path) > 1) <=> ~FinalAsItIs
    <3>1. x.last <=> follow
      BY <1>1
    <3>2. Len(x.path) > 1 <=> Len(comps) # 1
      BY <1>1, <2>2
    <3> QED
      BY <3>1, <3>2, Zenon DEF FinalAsItIs
  <2> QED
    BY <1>5, <1>6, <2>3 DEF Aside
<1> QED
  BY <1>1, <1>2, <1>3, <1>4, <1>5, <1>6

(* The tree does not change, and so its meaning does not.                  *)
LEMMA MeaningStays ==
    ASSUME UNCHANGED tree
    PROVE  Meaning' = Meaning
BY DEF Meaning

(* A step that ends the call.                                              *)
LEMMA EndsRight ==
    ASSUME MeaningInv, result.end = "none", UNCHANGED <<tree, path, follow>>, cur' \in Inodes, links' \in Nat,
           comps' \in Seq(Names), result'.end # "none", result' = [end |-> Rest.end, at |-> Rest.at]
    PROVE  MeaningInv'
<1>1. Whole' = Whole
  BY MeaningStays DEF Whole
<1>2. Whole = Rest
  BY DEF MeaningInv
<1>3. IsTree(tree') /\ path' \in Seq(Names) /\ follow' \in BOOLEAN
  BY DEF MeaningInv
<1>4. ResolvesMeaning'
  BY <1>1, <1>2 DEF ResolvesMeaning, Whole
<1> QED
  BY <1>3, <1>4 DEF MeaningInv

(* A step that does not.                                                   *)
LEMMA GoesOnRight ==
    ASSUME MeaningInv, result.end = "none", UNCHANGED <<tree, path, follow, result>>, cur' \in Inodes, links' \in Nat,
           comps' \in Seq(Names), links' <= MaxSymlinks, Rest' = Rest
    PROVE  MeaningInv'
<1>1. Whole' = Whole
  BY MeaningStays DEF Whole
<1>2. Whole = Rest
  BY DEF MeaningInv
<1>3. IsTree(tree') /\ path' \in Seq(Names) /\ follow' \in BOOLEAN /\ result'.end = "none"
  BY DEF MeaningInv
<1>4. ResolvesMeaning'
  BY <1>3 DEF ResolvesMeaning
<1> QED
  BY <1>1, <1>2, <1>3, <1>4 DEF MeaningInv

(* Every step keeps it.                                                    *)
LEMMA MeaningInvNext == MeaningInv /\ [resolve]_vars => MeaningInv'
<1>1. SUFFICES ASSUME MeaningInv, [resolve]_vars PROVE MeaningInv'
  OBVIOUS
<1>2. /\ IsTree(tree) /\ cur \in Inodes /\ comps \in Seq(Names) /\ follow \in BOOLEAN /\ links \in Nat
      /\ MaxSymlinks \in Nat /\ Root \in Inodes
  BY <1>1, TreesAre DEF MeaningInv
<1>3. CASE UNCHANGED vars
  <2>1. Meaning' = Meaning
    BY <1>3, MeaningStays DEF vars
  <2> QED
    BY <1>1, <1>3, <2>1 DEF vars, MeaningInv, Whole, Rest, ResolvesMeaning
<1>4. PICK x : x = Asked(cur, comps, follow, MaxSymlinks - links)
  OBVIOUS
<1>5. PICK f : f = Meaning
  OBVIOUS
<1>6. ASSUME result.end = "none"
      PROVE  /\ x \in Question /\ MaxSymlinks - links \in Nat /\ Means(tree, f)
             /\ Rest = f[x] /\ f[x] = Body(tree, f, x) /\ RightBelow(f, x)
  <2>1. x \in Question /\ MaxSymlinks - links \in Nat /\ Means(tree, f)
    BY <1>1, <1>4, <1>5, <1>6, RestIs
  <2>2. RightBelow(f, x)
    BY <2>1, AnswersAre DEF Means, RightBelow
  <2> QED
    BY <1>4, <1>5, <2>1, <2>2 DEF Rest, Means
<1>7. CASE AllDone
  <2>1. result.end = "none" /\ comps = <<>> /\ result' = Ok(cur) /\ UNCHANGED <<tree, path, follow, comps, cur, links>>
    BY <1>7 DEF AllDone
  <2>2. x.path = <<>> /\ x.at = cur
    BY <1>4, <2>1 DEF Asked
  <2>3. Blocked(tree, x)
    BY <2>2 DEF Blocked
  <2>4. f[x] = Dead(tree, x)
    BY <1>6, <2>1, <2>3, BodyIs
  <2>5. f[x].end = "ok" /\ f[x].at = cur
    BY <2>2, <2>4 DEF Dead
  <2>6. result' = [end |-> Rest.end, at |-> Rest.at] /\ result'.end # "none"
    BY <1>6, <2>1, <2>5 DEF Ok
  <2> QED
    BY <1>1, <1>2, <2>1, <2>6, EndsRight
<1>8. ASSUME More
      PROVE  /\ x.at = cur /\ x.path = comps /\ x.path # <<>> /\ x.n = MaxSymlinks - links /\ result.end = "none"
             /\ ~IsDir => Dead(tree, x) = Nowhere("NotADirectory")
             /\ IsDir => Dead(tree, x) = Nowhere("NotFound")
             /\ Blocked(tree, x) <=> ~(IsDir /\ dir_lookup # {})
             /\ Here => child = Child(tree, x) /\ child \in Inodes /\ Tail(comps) \in Seq(Names)
             /\ Here => (Aside(tree, x) <=> tree.kind[child] = "symlink" /\ ~FinalAsItIs)
  BY <1>2, <1>4, <1>8, StepIs DEF More
<1>9. CASE NoSuchName
  <2>1. /\ More /\ comps' = Tail(comps) /\ UNCHANGED <<tree, path, follow, cur, links>>
        /\ \/ ~IsDir /\ result' = Error("NotADirectory")
           \/ IsDir /\ dir_lookup = {} /\ result' = Error("NotFound")
    BY <1>9 DEF NoSuchName
  <2>2. Blocked(tree, x)
    BY <1>8, <2>1
  <2>3. f[x] = Dead(tree, x)
    BY <1>6, <1>8, <2>1, <2>2, BodyIs
  <2>4. result' = [end |-> f[x].end, at |-> f[x].at] /\ result'.end # "none"
    BY <1>8, <2>1, <2>3 DEF Error, Nowhere
  <2>5. comps' \in Seq(Names)
    BY <1>2, <1>8, <2>1, HeadTailProperties
  <2> QED
    BY <1>1, <1>2, <1>6, <1>8, <2>1, <2>4, <2>5, EndsRight
<1>10. ASSUME Here, ~Aside(tree, x)
       PROVE  f[x] = f[Asked(child, Tail(comps), follow, MaxSymlinks - links)]
  <2>1. ~Blocked(tree, x) /\ result.end = "none"
    BY <1>8, <1>10 DEF Here
  <2>2. PICK v : v = Via(tree, f, x)
    OBVIOUS
  <2>3. v = [end |-> "ok", at |-> Child(tree, x), n |-> x.n]
    BY <1>10, <2>2 DEF Via
  <2>4. v.end = "ok" /\ v.at = child /\ v.n = MaxSymlinks - links
    BY <1>8, <1>10, <2>3 DEF Here
  <2>5. f[x] = f[Onward(v, x)]
    BY <1>6, <2>1, <2>2, <2>4, BodyIs
  <2>6. x.last = follow /\ x.path = comps
    BY <1>4 DEF Asked
  <2> QED
    BY <2>4, <2>5, <2>6 DEF Onward
<1>11. CASE FinalName
  <2>1. /\ Here /\ More /\ FinalAsItIs /\ comps' = Tail(comps) /\ result' = Ok(child)
        /\ UNCHANGED <<tree, path, follow, cur, links>>
    BY <1>11 DEF FinalName, Here
  <2>2. ~Aside(tree, x) /\ child \in Inodes /\ Tail(comps) \in Seq(Names)
    BY <1>8, <2>1
  <2>3. Tail(comps) = <<>>
    <3>1. Len(comps) = 1
      BY <2>1 DEF FinalAsItIs
    <3>2. Len(Tail(comps)) = 0
      BY <1>2, <1>8, <2>1, <3>1, HeadTailProperties
    <3> QED
      BY <2>2, <3>2, EmptySeq
  <2>4. PICK y : y = Asked(child, Tail(comps), follow, MaxSymlinks - links)
    OBVIOUS
  <2>5. y \in Question
    <3>1. PICK n \in Nat : n = MaxSymlinks - links
      BY <1>6, <1>8, <2>1
    <3> QED
      BY <1>2, <2>2, <2>4, <3>1, AskedIs
  <2>6. y.path = <<>> /\ y.at = child
    BY <2>3, <2>4 DEF Asked
  <2>7. f[y] = Body(tree, f, y) /\ Blocked(tree, y)
    BY <1>6, <1>8, <2>1, <2>5, <2>6 DEF Means, Blocked
  <2>8. f[y].end = "ok" /\ f[y].at = child
    BY <2>6, <2>7, BodyIs DEF Dead
  <2>9. f[x] = f[y]
    BY <1>10, <2>1, <2>2, <2>4
  <2>10. result' = [end |-> Rest.end, at |-> Rest.at] /\ result'.end # "none"
    BY <1>6, <1>8, <2>1, <2>8, <2>9 DEF Ok
  <2> QED
    BY <1>1, <1>2, <1>8, <2>1, <2>2, <2>10, EndsRight
<1>12. CASE Descend
  <2>1. /\ Here /\ More /\ tree.kind[child] # "symlink" /\ comps' = Tail(comps) /\ cur' = child
        /\ UNCHANGED <<tree, path, follow, links, result>>
    BY <1>12 DEF Descend, Here
  <2>2. ~Aside(tree, x) /\ child \in Inodes /\ Tail(comps) \in Seq(Names) /\ result.end = "none"
    BY <1>8, <2>1
  <2>3. f[x] = f[Asked(child, Tail(comps), follow, MaxSymlinks - links)]
    BY <1>10, <2>1, <2>2
  <2>4. Meaning' = f
    BY <1>5, <2>1, MeaningStays
  <2>5. Rest' = Rest
    BY <1>6, <2>1, <2>2, <2>3, <2>4 DEF Rest
  <2>6. links <= MaxSymlinks
    BY <1>1, <2>2 DEF MeaningInv
  <2> QED
    BY <1>1, <1>2, <2>1, <2>2, <2>5, <2>6, GoesOnRight
<1>13. CASE FollowLink
  <2>1. /\ Here /\ More /\ ~FinalAsItIs /\ tree.kind[child] = "symlink" /\ links' = links + 1
        /\ UNCHANGED <<tree, path, follow>>
    BY <1>13 DEF FollowLink, Here
  <2>2. /\ Aside(tree, x) /\ ~Blocked(tree, x) /\ child \in Inodes /\ child = Child(tree, x)
        /\ Tail(comps) \in Seq(Names) /\ result.end = "none"
    BY <1>8, <2>1 DEF Here
  <2>3. PICK n \in Nat : n = MaxSymlinks - links /\ x.n = n
    BY <1>6, <1>8, <2>1, <2>2
  <2>4. links' > MaxSymlinks <=> n = 0
    BY <1>2, <2>1, <2>3
  <2>5. CASE links' > MaxSymlinks
    <3>1. comps' = Tail(comps) /\ result' = Error("SymlinkLoop") /\ cur' = cur
      <4>1. ~(links' <= MaxSymlinks)
        BY <1>2, <2>1, <2>5
      <4> QED
        BY <1>13, <4>1, Zenon DEF FollowLink
    <3>2. Via(tree, f, x) = Nowhere("SymlinkLoop")
      BY <2>2, <2>3, <2>4, <2>5 DEF Via
    <3>3. f[x] = Nowhere("SymlinkLoop")
      BY <1>6, <2>2, <3>2, BodyIs DEF Nowhere
    <3>4. result' = [end |-> Rest.end, at |-> Rest.at] /\ result'.end # "none"
      BY <1>6, <2>2, <3>1, <3>3 DEF Error, Nowhere
    <3>5. links' \in Nat
      BY <1>2, <2>1
    <3> QED
      BY <1>1, <1>2, <2>1, <2>2, <3>1, <3>4, <3>5, EndsRight
  <2>6. CASE ~(links' > MaxSymlinks)
    <3>1. PICK g : g = tree.target[child]
      OBVIOUS
    <3>2. comps' = g.comps \o Tail(comps) /\ cur' = (IF g.absolute THEN Root ELSE cur) /\ result' = result
      BY <1>2, <1>13, <2>1, <2>6, <3>1 DEF FollowLink
    <3>3. g.comps \in Seq(Names) /\ cur' \in Inodes
      <4>1. child \in DOMAIN tree.target
        BY <1>2, <2>1, <2>2 DEF IsTree
      <4> QED
        BY <1>2, <3>1, <3>2, <4>1 DEF IsTree
    <3>4. n # 0 /\ n - 1 \in Nat /\ links' \in Nat /\ links' <= MaxSymlinks /\ MaxSymlinks - links' = n - 1
      BY <1>2, <2>1, <2>3, <2>4, <2>6
    <3>5. PICK y : y = Detour(tree, x)
      OBVIOUS
    <3>6. y = Asked(cur', g.comps, TRUE, n - 1)
      BY <1>8, <2>1, <2>2, <2>3, <3>1, <3>2, <3>5 DEF Detour
    <3>7. y \in Question
      BY <1>2, <1>6, <2>2, <2>3, <3>4, <3>5, DetourBelow
    <3>8. y.at = cur' /\ y.path = g.comps /\ y.last = TRUE /\ y.n = n - 1
      BY <3>6 DEF Asked
    <3>9. PICK q \in Seq(Names) : q = Tail(comps)
      BY <2>2
    <3>10. follow \/ q # <<>>
      <4>1. SUFFICES ASSUME ~follow, q = <<>> PROVE FALSE
        OBVIOUS
      <4>2. Len(comps) # 1
        BY <2>1, <4>1 DEF FinalAsItIs
      <4>3. Len(q) = Len(comps) - 1 /\ Len(q) = 0 /\ Len(comps) \in Nat
        BY <1>2, <1>8, <2>1, <3>9, <4>1, HeadTailProperties, EmptySeq
      <4> QED
        BY <4>2, <4>3
    <3>11. f[Longer(y, q, follow)] = After(f, f[y], q, follow)
      BY <1>2, <1>6, <2>2, <3>7, <3>8, <3>10, InParts
    <3>12. Meaning' = f
      BY <1>5, <2>1, MeaningStays
    <3>13. Rest' = f[Longer(y, q, follow)]
      BY <2>1, <3>2, <3>4, <3>8, <3>9, <3>12 DEF Rest, Longer
    <3>14. Via(tree, f, x) = f[y]
      BY <2>2, <2>3, <3>4, <3>5 DEF Via
    <3>15. x.last = follow /\ x.path = comps
      BY <1>4 DEF Asked
    <3>16. f[x] = After(f, f[y], q, follow)
      <4>1. CASE f[y].end # "ok"
        BY <1>6, <2>2, <3>14, <4>1, BodyIs DEF After
      <4>2. CASE f[y].end = "ok"
        <5>1. f[x] = f[Onward(f[y], x)]
          BY <1>6, <2>2, <3>14, <4>2, BodyIs
        <5> QED
          BY <3>9, <3>15, <4>2, <5>1 DEF Onward, After
      <4> QED
        BY <4>1, <4>2
    <3>17. Rest' = Rest
      BY <1>6, <2>2, <3>11, <3>13, <3>16
    <3>18. comps' \in Seq(Names)
      BY <2>2, <3>2, <3>3
    <3> QED
      BY <1>1, <2>1, <2>2, <3>2, <3>3, <3>4, <3>17, <3>18, GoesOnRight
  <2> QED
    BY <2>5, <2>6
<1> QED
  BY <1>1, <1>3, <1>7, <1>9, <1>11, <1>12, <1>13 DEF resolve

(* For every tree, path and limit on links: `resolve` of volume.rs, with   *)
(* its one queue of components into which the targets of links are put,    *)
(* comes to the inode or the error that the path means when every link is  *)
(* resolved in place; a loop of links is found and nothing else is one.    *)
THEOREM ResolvesWhatIsMeant == Spec => []ResolvesMeaning
<1>1. MeaningInv => ResolvesMeaning
  BY DEF MeaningInv
<1> QED
  BY <1>1, MeaningInvInit, MeaningInvNext, PTL DEF Spec
=============================================================================

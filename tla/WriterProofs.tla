----------------------------- MODULE WriterProofs ----------------------------
(***************************************************************************)
(* The write side of a volume keeps blocks, names, link counts and         *)
(* contents in agreement: for volumes of any size and any tree of files,   *)
(* through every call, every lack of space and every device error that     *)
(* loses no more than space.                                               *)
(***************************************************************************)
EXTENDS Writer, ExtentsProofs

-----------------------------------------------------------------------------
(* Choosing blocks.                                                        *)

(* A finite set has a subset of every size up to its own.                  *)
LEMMA SomeGives ==
    ASSUME NEW S, IsFiniteSet(S), NEW n \in Nat, n <= Cardinality(S)
    PROVE  Some(S, n) \subseteq S /\ Cardinality(Some(S, n)) = n
<1>1. PICK m \in Nat : m = Cardinality(S) /\ ExistsBijection(1..m, S)
  BY FS_CardinalityType
<1>2. PICK f : f \in Bijection(1..m, S)
  BY <1>1 DEF ExistsBijection
<1> DEFINE T == {f[k] : k \in 1..n}
           g == [k \in 1..n |-> f[k]]
<1>3. 1..n \subseteq 1..m /\ n <= m
  BY <1>1
<1>4. T \subseteq S
  BY <1>2, <1>3 DEF Bijection, Injection, Surjection
<1>5. g \in Bijection(1..n, T)
  <2>1. g \in [1..n -> T]
    OBVIOUS
  <2>2. \A a, b \in 1..n : g[a] = g[b] => a = b
    BY <1>2, <1>3 DEF Bijection, Injection, IsInjective
  <2>3. \A t \in T : \E a \in 1..n : g[a] = t
    OBVIOUS
  <2> QED
    BY <2>1, <2>2, <2>3 DEF Bijection, Injection, Surjection, IsInjective
<1>6. Cardinality(T) = n
  <2>1. ExistsBijection(1..n, T)
    BY <1>5 DEF ExistsBijection
  <2> QED
    BY <2>1, FS_CountingElements
<1>7. \E X \in SUBSET S : Cardinality(X) = n
  BY <1>4, <1>6
<1> QED
  BY <1>7 DEF Some

(* The groups are finite sets of blocks, none in two of them.              *)
LEMMA Groups ==
    /\ IsFiniteSet(Ags) /\ Ags \subseteq Nat /\ Ags # {} /\ IsFiniteSet(Blocks) /\ Blocks \subseteq Nat
    /\ \A a \in Ags : AgBlocks[a] \subseteq Blocks /\ IsFiniteSet(AgBlocks[a])
    /\ \A b \in Blocks : \E a \in Ags : b \in AgBlocks[a]
    /\ \A a, x \in Ags : a # x => AgBlocks[a] \cap AgBlocks[x] = {}
<1>1. /\ NAgs \in Nat \ {0} /\ \A a \in Ags : AgBlocks[a] \subseteq Nat /\ IsFiniteSet(AgBlocks[a])
      /\ \A a, x \in Ags : a # x => AgBlocks[a] \cap AgBlocks[x] = {}
  BY WriterAssumption
<1>2. Ags \subseteq Nat /\ Ags # {} /\ IsFiniteSet(Ags)
  <2>1. IsFiniteSet(0 .. (NAgs - 1))
    <3>1. NAgs - 1 \in Int
      BY <1>1
    <3> QED
      BY <3>1, FS_Interval
  <2>2. 0 \in 0 .. (NAgs - 1)
    BY <1>1
  <2> QED
    BY <1>1, <2>1, <2>2 DEF Ags
<1>3. IsFiniteSet({AgBlocks[a] : a \in Ags})
  <2> DEFINE g == [a \in Ags |-> AgBlocks[a]]
  <2>1. g \in Surjection(Ags, {AgBlocks[a] : a \in Ags})
    BY DEF Surjection
  <2> QED
    BY <1>2, <2>1, FS_Surjection
<1>4. IsFiniteSet(Blocks)
  BY <1>1, <1>3, FS_UNION DEF Blocks
<1> QED
  BY <1>1, <1>2, <1>4 DEF Blocks

(* Groups have numbers.                                                    *)
LEMMA GroupNumbers == \A a \in Ags : a \in Int
BY Groups

(* A block is of its group.                                                *)
LEMMA GroupOf ==
    ASSUME NEW b \in Blocks
    PROVE  AgOf(b) \in Ags /\ b \in AgBlocks[AgOf(b)] /\ \A a \in Ags : b \in AgBlocks[a] => a = AgOf(b)
<1>1. \E a \in Ags : b \in AgBlocks[a]
  BY Groups
<1>2. AgOf(b) \in Ags /\ b \in AgBlocks[AgOf(b)]
  BY <1>1 DEF AgOf
<1> QED
  BY <1>2, Groups

(* Blocks are of groups.                                                   *)
LEMMA GroupsOf ==
    ASSUME NEW bs, bs \subseteq Blocks
    PROVE  AgsOf(bs) \subseteq Ags /\ \A b \in bs : AgOf(b) \in AgsOf(bs)
BY GroupOf DEF AgsOf

(* An inode's number says which block it is in.                            *)
LEMMA InodeBlock ==
    ASSUME NEW b \in Blocks, NEW i \in InodesOf(b)
    PROVE  i \in Nat /\ i \div ChunkInodes = b /\ AgOfIno(i) = AgOf(b)
<1>1. PICK n \in Nat \ {0} : n = ChunkInodes
  BY WriterAssumption
<1>2. PICK k \in 0 .. (n - 1) : i = b * n + k
  BY <1>1 DEF InodesOf
<1>3. b \in Nat
  BY Groups
<1>4. \A m \in Nat \ {0}, c \in Nat : \A j \in 0 .. (m - 1) : c * m + j \in Nat /\ (c * m + j) \div m = c
  OBVIOUS
<1>5. i \in Nat /\ i \div n = b
  BY <1>1, <1>2, <1>3, <1>4, Zenon
<1> QED
  BY <1>1, <1>5 DEF AgOfIno

(* A group that is the first of some is one of them.                       *)
LEMMA FirstIs ==
    ASSUME NEW S, S \subseteq Ags, S # {}, NEW p \in Int
    PROVE  FirstOf(p, S) \in S
<1>1. PICK n \in Nat \ {0} : n = NAgs
  BY WriterAssumption
<1> DEFINE D == {(a - p) % n : a \in S}
<1>2. \A a \in S : (a - p) % n \in Nat
  <2>1. \A x \in Int : x % n \in Nat
    OBVIOUS
  <2>2. \A a \in S : a - p \in Int
    BY Groups
  <2> QED
    BY <2>1, <2>2
<1>3. D \subseteq Nat /\ D # {}
  BY <1>2
<1>4. Min(D) \in D /\ \A y \in D : Min(D) <= y
  BY <1>3, MinOfNats
<1>5. PICK a \in S : Min(D) = (a - p) % n
  BY <1>4
<1>6. \A x \in S : (a - p) % n <= (x - p) % n
  BY <1>4, <1>5
<1>7. \E c \in S : \A x \in S : (c - p) % NAgs <= (x - p) % NAgs
  BY <1>1, <1>6
<1> QED
  BY <1>7, Zenon DEF FirstOf

(* The smaller and the greater of two numbers.                             *)
LEMMA TwoNumbers ==
    ASSUME NEW x \in Int, NEW y \in Int
    PROVE  /\ Min({x, y}) \in {x, y} /\ Min({x, y}) <= x
           /\ Max({x, y}) \in {x, y} /\ Max({x, y}) >= x
<1>1. \E z \in {x, y} : \A w \in {x, y} : z <= w
  OBVIOUS
<1>2. \E z \in {x, y} : \A w \in {x, y} : z >= w
  OBVIOUS
<1> QED
  BY <1>1, <1>2 DEF Min, Max

(* What a group can spare it has.                                          *)
LEMMA Spared ==
    ASSUME NEW fr, NEW a \in Ags
    PROVE  /\ IsFiniteSet(fr \cap AgBlocks[a]) /\ Spare(fr, a) \in Nat
           /\ Spare(fr, a) <= Cardinality(fr \cap AgBlocks[a])
<1>1. IsFiniteSet(fr \cap AgBlocks[a])
  BY Groups, FS_Subset
<1>2. Cardinality(fr \cap AgBlocks[a]) \in Nat
  BY <1>1, FS_CardinalityType
<1>3. Reserve[a] \in Nat
  BY WriterAssumption
<1> QED
  BY <1>1, <1>2, <1>3 DEF Spare

(* How many blocks a set of groups can spare.                              *)
LEMMA SparedBy ==
    ASSUME NEW fr, NEW S, S \subseteq Ags
    PROVE  Cardinality(UNION {{x} \X (1 .. Spare(fr, x)) : x \in S}) \in Nat
<1> DEFINE P(x) == {x} \X (1 .. Spare(fr, x))
           g == [x \in S |-> P(x)]
<1>1. g \in Surjection(S, {P(x) : x \in S})
  BY DEF Surjection
<1>2. IsFiniteSet(S)
  BY Groups, FS_Subset
<1>3. IsFiniteSet({P(x) : x \in S})
  BY <1>1, <1>2, FS_Surjection
<1>4. ASSUME NEW x \in S
      PROVE  IsFiniteSet(P(x))
  <2>1. Spare(fr, x) \in Nat
    BY Spared
  <2>2. PICK k \in Int : k = Spare(fr, x)
    BY <2>1
  <2>3. IsFiniteSet(1 .. k)
    <3>1. PICK z \in Int : z = 1
      OBVIOUS
    <3>2. IsFiniteSet(z .. k)
      BY FS_Interval, Zenon
    <3> QED
      BY <3>1, <3>2
  <2>4. IsFiniteSet({x})
    BY FS_Singleton, Zenon
  <2> QED
    BY <2>2, <2>3, <2>4, FS_Product
<1> HIDE DEF P
<1>5. IsFiniteSet(UNION {P(x) : x \in S})
  BY <1>3, <1>4, FS_UNION
<1>6. Cardinality(UNION {P(x) : x \in S}) \in Nat
  BY <1>5, FS_CardinalityType
<1> QED
  BY <1>6 DEF P

(* `alloc_blocks` takes free blocks, all that are wanted or none.          *)
LEMMA AllocGives ==
    ASSUME NEW fr, fr \subseteq Blocks, NEW p, NEW n \in Nat
    PROVE  LET r == alloc_blocks(fr, p, n)
           IN  /\ r.ok \in BOOLEAN /\ r.blocks \subseteq fr
               /\ r.free = IF r.ok THEN fr \ r.blocks ELSE fr
<1> DEFINE part(a)   == Max({0, Min({Spare(fr, a), n - Before(fr, p, a)})})
           got       == IF n = 0 THEN {} ELSE UNION {Some(fr \cap AgBlocks[a], part(a)) : a \in Ags}
<1>1. ASSUME NEW a \in Ags
      PROVE  Some(fr \cap AgBlocks[a], part(a)) \subseteq fr
  <2>1. /\ IsFiniteSet(fr \cap AgBlocks[a]) /\ Spare(fr, a) \in Nat
        /\ Spare(fr, a) <= Cardinality(fr \cap AgBlocks[a])
    BY Spared
  <2>2. Before(fr, p, a) \in Nat
    BY SparedBy DEF Earlier, Before
  <2>3. PICK s \in Nat, x \in Int, c \in Nat :
            s = Spare(fr, a) /\ x = n - Before(fr, p, a) /\ c = Cardinality(fr \cap AgBlocks[a]) /\ s <= c
    BY <2>1, <2>2, FS_CardinalityType
  <2>4. part(a) \in Nat /\ part(a) <= c
    <3>1. PICK m \in Int : m = Min({s, x}) /\ m <= s
      BY TwoNumbers
    <3>2. PICK z \in Int : z = 0
      OBVIOUS
    <3>3. Max({z, m}) \in {z, m} /\ Max({z, m}) >= z
      BY TwoNumbers
    <3>4. part(a) = Max({z, m})
      BY <2>3, <3>1, <3>2
    <3> QED
      BY <2>3, <3>1, <3>2, <3>3, <3>4
  <2> HIDE DEF part
  <2> QED
    BY <2>1, <2>3, <2>4, SomeGives
<1>2. got \subseteq fr
  BY <1>1
<1>3. alloc_blocks(fr, p, n) =
        [ok |-> Cardinality(got) = n, blocks |-> got,
         free |-> IF Cardinality(got) = n THEN fr \ got ELSE fr]
  BY DEF alloc_blocks
<1> HIDE DEF got
<1>4. PICK ok \in BOOLEAN : ok = (Cardinality(got) = n)
  OBVIOUS
<1>5. PICK r : r = alloc_blocks(fr, p, n)
  OBVIOUS
<1>6. r = [ok |-> ok, blocks |-> got, free |-> IF ok THEN fr \ got ELSE fr]
  BY <1>3, <1>4, <1>5
<1>7. r.ok = ok /\ r.blocks = got /\ r.free = IF ok THEN fr \ got ELSE fr
  BY <1>6
<1> QED
  BY <1>2, <1>5, <1>7

(* What an allocation gives, for a named result.                           *)
Allocs(r, fr) == r.ok \in BOOLEAN /\ r.blocks \subseteq fr /\ r.free = IF r.ok THEN fr \ r.blocks ELSE fr

(* `alloc_blocks` gives free blocks, all that are wanted or none.          *)
LEMMA AllocIs ==
    ASSUME NEW fr, fr \subseteq Blocks, NEW p, NEW n \in Nat, NEW r, r = alloc_blocks(fr, p, n)
    PROVE  Allocs(r, fr)
BY AllocGives DEF Allocs

(* What it has taken when it comes to a group it cannot read was free.     *)
LEMMA StrandedFree ==
    ASSUME NEW fr, NEW read, NEW p, NEW n, NEW l \in Stranded(fr, read, p, n)
    PROVE  l \subseteq fr
<1>1. PICK a : l = UNION {Some(fr \cap AgBlocks[x], Spare(fr, x)) : x \in Earlier(p, a)}
  BY DEF Stranded
<1>2. ASSUME NEW x \in Earlier(p, a)
      PROVE  Some(fr \cap AgBlocks[x], Spare(fr, x)) \subseteq fr
  <2>1. x \in Ags
    BY DEF Earlier
  <2>2. /\ IsFiniteSet(fr \cap AgBlocks[x]) /\ Spare(fr, x) \in Nat
        /\ Spare(fr, x) <= Cardinality(fr \cap AgBlocks[x])
    BY <2>1, Spared
  <2> QED
    BY <2>2, SomeGives
<1> QED
  BY <1>1, <1>2

(* What has been given back of a fork is of the fork.                      *)
LEMMA PartFreedOf ==
    ASSUME NEW D, NEW B, NEW read, NEW S \in PartFreed(D, B, read)
    PROVE  S \subseteq D \cup B
BY DEF PartFreed

(* What a call takes from the free blocks: nothing unless all it wants,    *)
(* and it writes to what it takes.                                         *)
Gives(st, fr) ==
    /\ st.ok \in BOOLEAN /\ st.data \subseteq fr /\ st.bmbt \subseteq fr /\ st.wrote \subseteq fr
    /\ st.ok => st.data \cap st.bmbt = {} /\ st.wrote = st.data
    /\ st.free = IF st.ok THEN fr \ (st.data \cup st.bmbt) ELSE fr
    /\ st.touched \subseteq Ags /\ (st.ok => AgsOf(st.data \cup st.bmbt) \subseteq st.touched)

(* `store_data` takes the contents' blocks and those of the fork's tree.   *)
LEMMA StoreGives ==
    ASSUME NEW fr, fr \subseteq Blocks, NEW i, NEW n \in Nat, NEW nb \in Nat
    PROVE  Gives(store_data(fr, i, n, nb), fr)
<1>1. PICK d : d = alloc_blocks(fr, AgOfIno(i), n)
  OBVIOUS
<1>2. PICK t : t = alloc_blocks(d.free, AgOfIno(i), nb)
  OBVIOUS
<1>3. d.ok \in BOOLEAN /\ d.blocks \subseteq fr /\ d.free = IF d.ok THEN fr \ d.blocks ELSE fr
  BY <1>1, AllocGives
<1>4. d.free \subseteq fr /\ d.free \subseteq Blocks
  BY <1>3
<1>5. t.ok \in BOOLEAN /\ t.blocks \subseteq d.free /\ t.free = IF t.ok THEN d.free \ t.blocks ELSE d.free
  BY <1>2, <1>4, AllocGives
<1>6. PICK st : st = store_data(fr, i, n, nb)
  OBVIOUS
<1>7. st = [ok |-> d.ok /\ t.ok, data |-> d.blocks, bmbt |-> t.blocks,
            wrote |-> IF d.ok THEN d.blocks ELSE {},
            free |-> IF d.ok /\ t.ok THEN t.free ELSE fr,
            touched |-> AgsOf(d.blocks \cup (IF d.ok THEN t.blocks ELSE {}))]
  BY <1>1, <1>2, <1>6 DEF store_data
<1>8. /\ st.ok = (d.ok /\ t.ok) /\ st.data = d.blocks /\ st.bmbt = t.blocks
      /\ st.wrote = IF d.ok THEN d.blocks ELSE {}
      /\ st.free = IF d.ok /\ t.ok THEN t.free ELSE fr
      /\ st.touched = AgsOf(d.blocks \cup (IF d.ok THEN t.blocks ELSE {}))
  BY <1>7
<1>9. st.touched \subseteq Ags /\ (st.ok => AgsOf(st.data \cup st.bmbt) \subseteq st.touched)
  BY <1>3, <1>4, <1>5, <1>8, GroupsOf
<1>10. st.free = IF st.ok THEN fr \ (st.data \cup st.bmbt) ELSE fr
  BY <1>3, <1>5, <1>8
<1>11. /\ st.ok \in BOOLEAN /\ st.data \subseteq fr /\ st.bmbt \subseteq fr /\ st.wrote \subseteq fr
       /\ st.ok => st.data \cap st.bmbt = {} /\ st.wrote = st.data
  BY <1>3, <1>4, <1>5, <1>8
<1> QED
  BY <1>6, <1>9, <1>10, <1>11 DEF Gives

(* What is lost, and what is written, when taking blocks fails.            *)
LosesFree(f, fr) == f.lost \subseteq fr /\ f.wrote \subseteq fr

(* `store_data` loses and writes free blocks only.                         *)
LEMMA StoreLoses ==
    ASSUME NEW fr, fr \subseteq Blocks, NEW read, NEW i, NEW c \in Contents, NEW nb \in Nat,
           NEW f \in store_data_fails(fr, read, i, c, nb)
    PROVE  LosesFree(f, fr)
<1>1. PICK p, n, d : p = AgOfIno(i) /\ n = Size[c] /\ d = alloc_blocks(fr, p, n)
  OBVIOUS
<1>2. PICK t : t = alloc_blocks(d.free, p, nb)
  OBVIOUS
<1>3. PICK R : R = read \cup Visited(fr, p, n)
  OBVIOUS
<1>4. n \in Nat
  BY <1>1, WriterAssumption
<1>5. d.blocks \subseteq fr /\ d.free \subseteq fr
  <2>1. d = alloc_blocks(fr, p, n)
    BY <1>1
  <2>2. d.ok \in BOOLEAN /\ d.blocks \subseteq fr /\ d.free = IF d.ok THEN fr \ d.blocks ELSE fr
    BY <1>4, <2>1, AllocGives
  <2> QED
    BY <2>2
<1>6. t.blocks \subseteq fr
  <2>1. d.free \subseteq Blocks
    BY <1>5
  <2>2. t.blocks \subseteq d.free
    BY <1>2, <2>1, AllocGives
  <2> QED
    BY <1>5, <2>2
<1>7. \/ \E l \in Stranded(fr, read, p, n) : f = [lost |-> l, wrote |-> {}, body |-> c]
      \/ f = [lost |-> {}, wrote |-> d.blocks, body |-> "torn"]
      \/ \E l \in Stranded(d.free, R, p, nb) \cup {t.blocks} : f = [lost |-> l, wrote |-> d.blocks, body |-> c]
  BY <1>1, <1>2, <1>3 DEF store_data_fails
<1>8. \A l \in Stranded(fr, read, p, n) : l \subseteq fr
  BY StrandedFree
<1>9. \A l \in Stranded(d.free, R, p, nb) : l \subseteq fr
  BY <1>5, StrandedFree
<1> QED
  BY <1>5, <1>6, <1>7, <1>8, <1>9 DEF LosesFree

(* A block of a link is a free one.                                        *)
LEMMA LinkBlockGives ==
    ASSUME NEW fr, fr \subseteq Blocks, NEW p \in Int, NEW not
    PROVE  LinkBlock(fr, p, not) \subseteq fr
<1> DEFINE able == {a \in Ags : HasOne(fr, a, not)}
<1>1. CASE able = {}
  BY <1>1 DEF LinkBlock
<1>2. CASE able # {}
  <2>1. PICK a : a = FirstOf(p, able)
    OBVIOUS
  <2>2. a \in able
    BY <1>2, <2>1, FirstIs
  <2>3. PICK S : S = (fr \cap AgBlocks[a]) \ {not}
    OBVIOUS
  <2>4. IsFiniteSet(S) /\ S # {} /\ S \subseteq fr
    <3>1. IsFiniteSet(fr \cap AgBlocks[a])
      BY <2>2, Spared
    <3> QED
      BY <2>2, <2>3, <3>1, FS_Subset DEF HasOne
  <2>5. PICK n \in Nat : n = 1
    OBVIOUS
  <2>6. n <= Cardinality(S)
    BY <2>4, <2>5, FS_CardinalityType, FS_EmptySet
  <2>7. Some(S, n) \subseteq S
    BY <2>4, <2>6, SomeGives
  <2>8. LinkBlock(fr, p, not) = Some(S, n)
    BY <1>2, <2>1, <2>3, <2>5 DEF LinkBlock
  <2> QED
    BY <2>4, <2>7, <2>8
<1> QED
  BY <1>1, <1>2

(* So are all of them.                                                     *)
LEMMA LinkGives ==
    ASSUME NEW fr, fr \subseteq Blocks, NEW p \in Int, NEW n
    PROVE  LET l == link_blocks(fr, p, n)
           IN  /\ l.ok \in BOOLEAN /\ l.blocks \subseteq fr
               /\ l.free = IF l.ok THEN fr \ l.blocks ELSE fr
<1>1. PICK one : one = IF n > 0 THEN LinkBlock(fr, p, -1) ELSE {}
  OBVIOUS
<1>2. PICK two : two = IF n > 1 /\ one # {} THEN LinkBlock(fr \ one, p, (CHOOSE b \in one : TRUE) + 1) ELSE {}
  OBVIOUS
<1>3. one \subseteq fr
  BY <1>1, LinkBlockGives
<1>4. two \subseteq fr
  <2>1. fr \ one \subseteq Blocks
    OBVIOUS
  <2>2. \A x : LinkBlock(fr \ one, p, x) \subseteq fr \ one
    BY <2>1, LinkBlockGives
  <2> QED
    BY <1>2, <2>2
<1>5. PICK ok \in BOOLEAN : ok = (Cardinality(one \cup two) = n)
  OBVIOUS
<1>6. PICK l : l = link_blocks(fr, p, n)
  OBVIOUS
<1>7. l = [ok |-> ok, blocks |-> one \cup two, free |-> IF ok THEN fr \ (one \cup two) ELSE fr]
  BY <1>1, <1>2, <1>5, <1>6 DEF link_blocks
<1>8. l.ok = ok /\ l.blocks = one \cup two /\ l.free = IF ok THEN fr \ (one \cup two) ELSE fr
  BY <1>7
<1> QED
  BY <1>3, <1>4, <1>6, <1>8

(* And so is one that is lost.                                             *)
LEMMA LinkLoses ==
    ASSUME NEW fr, fr \subseteq Blocks, NEW read, NEW p \in Int, NEW n,
           NEW f \in link_blocks_fails(fr, read, p, n)
    PROVE  LosesFree(f, fr)
<1>1. PICK one : one = LinkBlock(fr, p, -1)
  OBVIOUS
<1>2. one \subseteq fr
  BY <1>1, LinkBlockGives
<1>3. \E l \in {{}, one} : f = [lost |-> l, wrote |-> {}, body |-> "none"]
  BY <1>1 DEF link_blocks_fails
<1> QED
  BY <1>2, <1>3 DEF LosesFree

(* Something without blocks takes none.                                    *)
LEMMA NothingGives ==
    ASSUME NEW fr
    PROVE  Gives(Nothing(fr), fr)
BY DEF Gives, Nothing, AgsOf

-----------------------------------------------------------------------------
(* The sets and inodes of the groups in memory and of the device.          *)

GroupsOK ==
    /\ free \subseteq Blocks /\ chunks \subseteq Blocks
    /\ DOMAIN inode = UNION {InodesOf(b) : b \in chunks} /\ ifree \subseteq DOMAIN inode

(* An inode is in a group.                                                 *)
LEMMA InodesIn ==
    ASSUME GroupsOK, NEW i \in DOMAIN inode
    PROVE  /\ i \in Nat /\ i \div ChunkInodes \in chunks /\ i \in InodesOf(i \div ChunkInodes)
           /\ AgOfIno(i) \in Ags
<1>1. PICK b \in chunks : i \in InodesOf(b)
  BY DEF GroupsOK
<1>2. b \in Blocks
  BY DEF GroupsOK
<1>3. i \in Nat /\ i \div ChunkInodes = b /\ AgOfIno(i) = AgOf(b)
  BY <1>1, <1>2, InodeBlock
<1> QED
  BY <1>1, <1>2, <1>3, GroupOf

(* What `alloc_ino` finds: a free inode, or one of a chunk made of a free  *)
(* block of the same group.                                                *)
Found(a) ==
    /\ a.chunk \subseteq free /\ IsFiniteSet(a.chunk)
    /\ a.chunk = {} => a.ino \in ifree
    /\ a.chunk # {} => a.ino \in UNION {InodesOf(b) : b \in a.chunk}
    /\ \A b \in a.chunk : AgOf(b) = AgOfIno(a.ino)

(* The inodes of a chunk are some numbers.                                 *)
LEMMA ChunkHasInodes ==
    ASSUME NEW b \in Blocks
    PROVE  InodesOf(b) # {} /\ InodesOf(b) \subseteq Nat
<1>1. ChunkInodes \in Nat \ {0}
  BY WriterAssumption
<1>2. 0 \in 0 .. (ChunkInodes - 1)
  BY <1>1
<1>3. b * ChunkInodes + 0 \in InodesOf(b)
  BY <1>2 DEF InodesOf
<1> QED
  BY <1>3, InodeBlock

(* It finds one.                                                           *)
LEMMA InodeFound ==
    ASSUME GroupsOK, NEW p \in Int, alloc_ino(p).ok
    PROVE  Found(alloc_ino(p))
<1> DEFINE ends == {a \in Ags : FreeIn(a) # {} \/ TooMany \/ Spare(free, a) > 0}
<1>1. PICK r : r = alloc_ino(p)
  OBVIOUS
<1>2. PICK a : a = FirstOf(p, ends)
  OBVIOUS
<1>3. PICK chunk : chunk = Some(free \cap AgBlocks[a], 1)
  OBVIOUS
<1>4. r = IF ends = {} \/ (FreeIn(a) = {} /\ TooMany)
          THEN [ok |-> FALSE, ino |-> 0, chunk |-> {}]
          ELSE IF FreeIn(a) # {} THEN [ok |-> TRUE, ino |-> Min(FreeIn(a)), chunk |-> {}]
          ELSE [ok |-> TRUE, ino |-> Min(UNION {InodesOf(b) : b \in chunk}), chunk |-> chunk]
  BY <1>1, <1>2, <1>3 DEF alloc_ino
<1>5. ends # {} /\ ~ (FreeIn(a) = {} /\ TooMany)
  BY <1>1, <1>4
<1>6. a \in ends
  BY <1>2, <1>5, FirstIs
<1>7. CASE FreeIn(a) # {}
  <2>1. r.ino = Min(FreeIn(a)) /\ r.chunk = {}
    BY <1>4, <1>5, <1>7
  <2>2. FreeIn(a) \subseteq ifree /\ FreeIn(a) \subseteq Nat
    BY InodesIn DEF FreeIn, GroupsOK
  <2>3. Min(FreeIn(a)) \in FreeIn(a)
    BY <1>7, <2>2, MinOfNats
  <2> QED
    BY <1>1, <2>1, <2>2, <2>3, FS_EmptySet DEF Found
<1>8. CASE FreeIn(a) = {}
  <2>1. r.ino = Min(UNION {InodesOf(b) : b \in chunk}) /\ r.chunk = chunk
    BY <1>4, <1>5, <1>8
  <2>2. PICK S, n : S = free \cap AgBlocks[a] /\ n = 1
    OBVIOUS
  <2>3. IsFiniteSet(S) /\ n <= Cardinality(S) /\ n \in Nat
    <3>1. Spare(free, a) > 0
      BY <1>5, <1>6, <1>8
    <3> QED
      BY <1>6, <2>2, <3>1, Spared, FS_CardinalityType
  <2>4. chunk \subseteq S /\ Cardinality(chunk) = n
    BY <1>3, <2>2, <2>3, SomeGives
  <2>5. IsFiniteSet(chunk) /\ chunk # {} /\ chunk \subseteq free
    BY <2>2, <2>3, <2>4, FS_Subset, FS_EmptySet
  <2>6. PICK I : I = UNION {InodesOf(b) : b \in chunk}
    OBVIOUS
  <2>7. I \subseteq Nat /\ I # {}
    BY <2>5, <2>6, ChunkHasInodes DEF GroupsOK
  <2>8. Min(I) \in I
    BY <2>7, MinOfNats
  <2>9. \A b \in chunk : AgOf(b) = a
    BY <1>6, <2>2, <2>4, GroupOf, Groups
  <2>10. PICK c \in chunk : r.ino \in InodesOf(c)
    BY <2>1, <2>6, <2>8
  <2>11. AgOfIno(r.ino) = a
    BY <2>5, <2>9, <2>10, InodeBlock DEF GroupsOK
  <2> QED
    BY <1>1, <2>1, <2>5, <2>6, <2>8, <2>9, <2>11 DEF Found
<1> QED
  BY <1>7, <1>8

-----------------------------------------------------------------------------
(* Inodes and lists of names, one changed at a time.                       *)

(* A function with one value changed.                                      *)
LEMMA Put ==
    ASSUME NEW f, NEW i \in DOMAIN f, NEW r
    PROVE  LET g == [f EXCEPT ![i] = r]
           IN  DOMAIN g = DOMAIN f /\ g[i] = r /\ \A j \in DOMAIN f \ {i} : g[j] = f[j]
BY Zenon

Shape(r) ==
    r = [kind |-> r.kind, nlink |-> r.nlink, data |-> r.data, bmbt |-> r.bmbt,
         attr |-> r.attr, body |-> r.body, perms |-> r.perms]

(* An inode as it is made.                                                 *)
LEMMA NewInodeIs ==
    ASSUME NEW k, NEW l, NEW D, NEW B, NEW c
    PROVE  LET r == NewInode(k, l, D, B, c)
           IN  /\ Shape(r) /\ r.kind = k /\ r.nlink = l /\ r.data = D /\ r.bmbt = B
               /\ r.attr = {} /\ r.body = c
<1>1. PICK p : p = CHOOSE x \in Perms : TRUE
  OBVIOUS
<1>2. PICK r : r = NewInode(k, l, D, B, c)
  OBVIOUS
<1>3. r = [kind |-> k, nlink |-> l, data |-> D, bmbt |-> B, attr |-> {}, body |-> c, perms |-> p]
  BY <1>1, <1>2 DEF NewInode
<1>4. /\ r.kind = k /\ r.nlink = l /\ r.data = D /\ r.bmbt = B
      /\ r.attr = {} /\ r.body = c /\ r.perms = p
  BY <1>3
<1> QED
  BY <1>2, <1>3, <1>4 DEF Shape

(* One with other contents, as `write_file` leaves it.                     *)
Rewrite(r, D, B, c, p) == [r EXCEPT !.data = D, !.bmbt = B, !.body = c, !.perms = p]
RewriteDir(r, D, B, c, l) == [r EXCEPT !.data = D, !.bmbt = B, !.body = c, !.nlink = l]
WithLinks(r, l) == [r EXCEPT !.nlink = l]
WithPerms(r, p) == [r EXCEPT !.perms = p]

(* It is an inode still.                                                   *)
LEMMA Rewritten ==
    ASSUME NEW r, Shape(r), NEW D, NEW B, NEW c, NEW p, NEW s, s = Rewrite(r, D, B, c, p)
    PROVE  /\ Shape(s) /\ s.kind = r.kind /\ s.nlink = r.nlink /\ s.data = D /\ s.bmbt = B
           /\ s.attr = r.attr /\ s.body = c
<1>1. PICK q : q = [kind |-> r.kind, nlink |-> r.nlink, data |-> r.data, bmbt |-> r.bmbt,
                    attr |-> r.attr, body |-> r.body, perms |-> r.perms] /\ q = r
  BY DEF Shape
<1>2. PICK t : t = [q EXCEPT !.data = D, !.bmbt = B, !.body = c, !.perms = p]
  OBVIOUS
<1>3. s = [kind |-> r.kind, nlink |-> r.nlink, data |-> D, bmbt |-> B, attr |-> r.attr, body |-> c, perms |-> p]
  <2>1. t = [kind |-> r.kind, nlink |-> r.nlink, data |-> D, bmbt |-> B, attr |-> r.attr, body |-> c, perms |-> p]
    BY <1>1, <1>2
  <2>2. s = t
    BY <1>1, <1>2 DEF Rewrite
  <2> QED
    BY <2>1, <2>2
<1>4. /\ s.kind = r.kind /\ s.nlink = r.nlink /\ s.data = D /\ s.bmbt = B /\ s.attr = r.attr /\ s.body = c
      /\ s.perms = p
  BY <1>3
<1> QED
  BY <1>3, <1>4 DEF Shape

(* And `write_dir`.                                                        *)
LEMMA RewrittenDir ==
    ASSUME NEW r, Shape(r), NEW D, NEW B, NEW c, NEW l, NEW s, s = RewriteDir(r, D, B, c, l)
    PROVE  /\ Shape(s) /\ s.kind = r.kind /\ s.nlink = l /\ s.data = D /\ s.bmbt = B
           /\ s.attr = r.attr /\ s.body = c
<1>1. PICK q : q = [kind |-> r.kind, nlink |-> r.nlink, data |-> r.data, bmbt |-> r.bmbt,
                    attr |-> r.attr, body |-> r.body, perms |-> r.perms] /\ q = r
  BY DEF Shape
<1>2. s = [q EXCEPT !.data = D, !.bmbt = B, !.body = c, !.nlink = l]
  BY <1>1 DEF RewriteDir
<1>3. s = [kind |-> r.kind, nlink |-> l, data |-> D, bmbt |-> B, attr |-> r.attr, body |-> c, perms |-> r.perms]
  BY <1>1, <1>2
<1>4. /\ s.kind = r.kind /\ s.nlink = l /\ s.data = D /\ s.bmbt = B /\ s.attr = r.attr /\ s.body = c
      /\ s.perms = r.perms
  BY <1>3
<1> QED
  BY <1>3, <1>4 DEF Shape

(* One with another number of links, or another mode.                      *)
LEMMA Marked ==
    ASSUME NEW r, Shape(r), NEW l, NEW p, NEW s, s = WithLinks(r, l) \/ s = WithPerms(r, p)
    PROVE  /\ Shape(s) /\ s.kind = r.kind /\ s.data = r.data /\ s.bmbt = r.bmbt
           /\ s.attr = r.attr /\ s.body = r.body
           /\ s.nlink = IF s = WithLinks(r, l) THEN l ELSE r.nlink
<1>1. PICK q : q = [kind |-> r.kind, nlink |-> r.nlink, data |-> r.data, bmbt |-> r.bmbt,
                    attr |-> r.attr, body |-> r.body, perms |-> r.perms] /\ q = r
  BY DEF Shape
<1>2. CASE s = WithLinks(r, l)
  <2>1. s = [q EXCEPT !.nlink = l]
    BY <1>1, <1>2 DEF WithLinks
  <2>2. s = [kind |-> r.kind, nlink |-> l, data |-> r.data, bmbt |-> r.bmbt, attr |-> r.attr, body |-> r.body,
             perms |-> r.perms]
    BY <1>1, <2>1
  <2>3. /\ s.kind = r.kind /\ s.nlink = l /\ s.data = r.data /\ s.bmbt = r.bmbt /\ s.attr = r.attr
        /\ s.body = r.body /\ s.perms = r.perms
    BY <2>2
  <2> QED
    BY <1>2, <2>2, <2>3 DEF Shape
<1>3. CASE s # WithLinks(r, l)
  <2>1. s = [q EXCEPT !.perms = p]
    BY <1>1, <1>3 DEF WithPerms
  <2>2. s = [kind |-> r.kind, nlink |-> r.nlink, data |-> r.data, bmbt |-> r.bmbt, attr |-> r.attr,
             body |-> r.body, perms |-> p]
    BY <1>1, <2>1
  <2>3. /\ s.kind = r.kind /\ s.nlink = r.nlink /\ s.data = r.data /\ s.bmbt = r.bmbt /\ s.attr = r.attr
        /\ s.body = r.body /\ s.perms = p
    BY <2>2
  <2> QED
    BY <1>3, <2>2, <2>3 DEF Shape
<1> QED
  BY <1>2, <1>3

(* A list of names with one more and with one less.                        *)
LEMMA NamedIs ==
    ASSUME NEW d, DirOf(d) = [parent |-> DirOf(d).parent, names |-> View(d)], NEW n, NEW i, NEW k
    PROVE  /\ LET s == AddName(d, n, i, k)
              IN  /\ s = [parent |-> s.parent, names |-> s.names] /\ s.parent = DirOf(d).parent
                  /\ DOMAIN s.names = DOMAIN View(d) \cup {n}
                  /\ s.names[n] = [ino |-> i, kind |-> k]
                  /\ \A x \in DOMAIN View(d) \ {n} : s.names[x] = View(d)[x]
           /\ LET s == DropName(d, n)
              IN  /\ s = [parent |-> s.parent, names |-> s.names] /\ s.parent = DirOf(d).parent
                  /\ DOMAIN s.names = DOMAIN View(d) \ {n}
                  /\ \A x \in DOMAIN View(d) \ {n} : s.names[x] = View(d)[x]
<1>1. PICK v, q : v = View(d) /\ q = DirOf(d).parent
  OBVIOUS
<1>2. PICK w : w = [x \in DOMAIN v \cup {n} |-> IF x = n THEN [ino |-> i, kind |-> k] ELSE v[x]]
  OBVIOUS
<1>3. PICK u : u = [x \in DOMAIN v \ {n} |-> v[x]]
  OBVIOUS
<1>4. DirOf(d) = [parent |-> q, names |-> v]
  BY <1>1
<1>5. AddName(d, n, i, k) = [parent |-> q, names |-> w]
  BY <1>2, <1>4 DEF AddName
<1>6. DropName(d, n) = [parent |-> q, names |-> u]
  BY <1>3, <1>4 DEF DropName
<1>7. /\ DOMAIN w = DOMAIN v \cup {n} /\ w[n] = [ino |-> i, kind |-> k]
      /\ \A x \in DOMAIN v \ {n} : w[x] = v[x]
  BY <1>2
<1>8. DOMAIN u = DOMAIN v \ {n} /\ \A x \in DOMAIN v \ {n} : u[x] = v[x]
  BY <1>3
<1> QED
  BY <1>1, <1>5, <1>6, <1>7, <1>8

-----------------------------------------------------------------------------
(* What the calls for a new name set out to make.                          *)

NodeOK(x, d) ==
    /\ Found(x.at) /\ Gives(x.st, free \ x.at.chunk) /\ \A f \in x.fails : LosesFree(f, free \ x.at.chunk)
    /\ x.kind \in {"file", "dir", "link", "special"} /\ x.nlink = IF x.kind = "dir" THEN 2 ELSE 1
    /\ x.kind = "dir" => x.body = EmptyDir(d) /\ x.st.data = {} /\ x.st.bmbt = {} /\ x.st.ok

(* The group of an inode that was found.                                   *)
LEMMA FoundIn ==
    ASSUME GroupsOK, NEW a, Found(a)
    PROVE  /\ a.ino \in Nat /\ AgOfIno(a.ino) \in Ags /\ a.ino \in IfreeWith(a.chunk)
           /\ a.ino \in DOMAIN inode \cup UNION {InodesOf(b) : b \in a.chunk}
<1>1. CASE a.chunk = {}
  <2>1. a.ino \in ifree
    BY <1>1 DEF Found
  <2>2. a.ino \in DOMAIN inode
    BY <2>1 DEF GroupsOK
  <2> QED
    BY <2>1, <2>2, InodesIn DEF IfreeWith
<1>2. CASE a.chunk # {}
  <2>1. PICK b \in a.chunk : a.ino \in InodesOf(b)
    BY <1>2 DEF Found
  <2>2. b \in Blocks
    BY DEF Found, GroupsOK
  <2>3. a.ino \in Nat /\ AgOfIno(a.ino) = AgOf(b)
    BY <2>1, <2>2, InodeBlock
  <2> QED
    BY <2>1, <2>2, <2>3, GroupOf DEF IfreeWith
<1> QED
  BY <1>1, <1>2

NewNodes(d) == (UNION {CreateFile(d, c) : c \in Contents}) \cup mkdir_with(d) \cup symlink(d) \cup mknod(d)

(* Each of them finds an inode and takes free blocks.                      *)
LEMMA NodesOK ==
    ASSUME GroupsOK, NEW d \in DOMAIN inode, NewNode(d).ok, NEW x \in NewNodes(d)
    PROVE  x.at = NewNode(d) /\ NodeOK(x, d)
<1>1. PICK a : a = NewNode(d)
  OBVIOUS
<1>2. Found(a)
  <2>1. AgOfIno(d) \in Ags
    BY InodesIn
  <2>2. PICK p \in Int : p = AgOfIno(d)
    BY <2>1, GroupNumbers
  <2>3. NewNode(d) = alloc_ino(p)
    BY <2>2 DEF NewNode
  <2>4. alloc_ino(p).ok
    BY <2>3
  <2> QED
    BY <1>1, <2>3, <2>4, InodeFound
<1>3. PICK fr : fr = FreeBeside(d) /\ fr = free \ a.chunk
  BY <1>1 DEF FreeBeside
<1>4. fr \subseteq Blocks
  BY <1>3 DEF GroupsOK
<1>5. \A k, l, b, st, fs : Node(d, k, l, b, st, fs) =
                              [at |-> a, kind |-> k, nlink |-> l, body |-> b, st |-> st, fails |-> fs]
  BY <1>1 DEF Node
<1>6. \A k, l, b, st, fs : LET y == Node(d, k, l, b, st, fs)
                           IN  y.at = a /\ y.kind = k /\ y.nlink = l /\ y.body = b /\ y.st = st /\ y.fails = fs
  BY <1>5
<1>7. ASSUME NEW c \in Contents, x \in CreateFile(d, c)
      PROVE  x.at = NewNode(d) /\ NodeOK(x, d)
  <2>6. PICK R : R = ReadFor(d)
    OBVIOUS
  <2>7. PICK nb \in BmbtSizes :
            x = Node(d, "file", 1, c, FileBlocks(d, c, nb), store_data_fails(FreeBeside(d), R, NewNode(d).ino, c, nb))
    BY <1>7, <2>6 DEF CreateFile
  <2>8. PICK fs : fs = store_data_fails(fr, R, a.ino, c, nb)
    OBVIOUS
  <2>1. x = Node(d, "file", 1, c, FileBlocks(d, c, nb), fs)
    BY <1>1, <1>3, <2>7, <2>8
  <2>2. nb \in Nat /\ Size[c] \in Nat
    BY WriterAssumption
  <2>3. Gives(store_data(fr, a.ino, Size[c], nb), fr)
    BY <1>4, <2>2, StoreGives
  <2>4. FileBlocks(d, c, nb) = store_data(fr, a.ino, Size[c], nb)
    BY <1>1, <1>3 DEF FileBlocks
  <2>5. x.at = a /\ x.kind = "file" /\ x.nlink = 1 /\ Gives(x.st, fr) /\ x.fails = fs
    BY <1>6, <2>1, <2>3, <2>4
  <2>9. \A f \in x.fails : LosesFree(f, fr)
    BY <1>4, <2>2, <2>5, <2>8, StoreLoses
  <2> QED
    BY <1>1, <1>2, <1>3, <2>5, <2>9 DEF NodeOK
<1>8. CASE x \in mkdir_with(d)
  <2>1. x = Node(d, "dir", 2, EmptyDir(d), Nothing(fr), {})
    BY <1>3, <1>8 DEF mkdir_with
  <2>2. PICK st : st = Nothing(fr)
    OBVIOUS
  <2>3. Gives(st, fr) /\ st.ok /\ st.data = {} /\ st.bmbt = {}
    BY <2>2, NothingGives DEF Nothing
  <2>4. x.at = a /\ x.kind = "dir" /\ x.nlink = 2 /\ x.body = EmptyDir(d) /\ x.st = st /\ x.fails = {}
    BY <1>6, <2>1, <2>2
  <2> QED
    BY <1>1, <1>2, <1>3, <2>3, <2>4 DEF NodeOK
<1>9. CASE x \in symlink(d)
  <2>11. PICK R : R = ReadFor(d)
    OBVIOUS
  <2>12. PICK k : x = Node(d, "link", 1, "target", TargetBlocks(d, k),
                           link_blocks_fails(FreeBeside(d), R, AgOfIno(NewNode(d).ino), k))
    BY <1>9, <2>11 DEF symlink
  <2>13. PICK fs : fs = link_blocks_fails(FreeBeside(d), R, AgOfIno(NewNode(d).ino), k)
    OBVIOUS
  <2>1. x = Node(d, "link", 1, "target", TargetBlocks(d, k), fs)
    BY <2>12, <2>13
  <2>2. PICK p \in Int : p = AgOfIno(a.ino)
    BY <1>2, FoundIn, GroupNumbers
  <2>3. PICK l : l = link_blocks(fr, p, k)
    OBVIOUS
  <2>4. l.ok \in BOOLEAN /\ l.blocks \subseteq fr /\ l.free = IF l.ok THEN fr \ l.blocks ELSE fr
    BY <1>4, <2>3, LinkGives
  <2>5. PICK st : st = TargetBlocks(d, k)
    OBVIOUS
  <2>6. st = [ok |-> l.ok, data |-> l.blocks, bmbt |-> {}, wrote |-> IF l.ok THEN l.blocks ELSE {},
              free |-> l.free, touched |-> AgsOf(l.blocks)]
    BY <1>1, <1>3, <2>2, <2>3, <2>5 DEF TargetBlocks
  <2>7. /\ st.ok = l.ok /\ st.data = l.blocks /\ st.bmbt = {}
        /\ st.wrote = IF l.ok THEN l.blocks ELSE {}
        /\ st.free = l.free /\ st.touched = AgsOf(l.blocks)
    BY <2>6
  <2>8. st.touched \subseteq Ags /\ AgsOf(st.data \cup st.bmbt) \subseteq st.touched
    <3>1. st.data \cup st.bmbt = l.blocks
      BY <2>7
    <3> QED
      BY <1>4, <2>4, <2>7, <3>1, GroupsOf
  <2>9. Gives(st, fr)
    BY <2>4, <2>7, <2>8 DEF Gives
  <2>10. x.at = a /\ x.kind = "link" /\ x.nlink = 1 /\ x.st = st /\ x.fails = fs
    BY <1>6, <2>1, <2>5
  <2>14. fs = link_blocks_fails(fr, R, p, k)
    BY <1>1, <1>3, <2>2, <2>13
  <2>15. \A f \in x.fails : LosesFree(f, fr)
    BY <1>4, <2>10, <2>14, LinkLoses
  <2> QED
    BY <1>1, <1>2, <1>3, <2>9, <2>10, <2>15 DEF NodeOK
<1>10. CASE x \in mknod(d)
  <2>1. x = Node(d, "special", 1, "device", Nothing(fr), {})
    BY <1>3, <1>10 DEF mknod
  <2>2. x.at = a /\ x.kind = "special" /\ x.nlink = 1 /\ x.st = Nothing(fr) /\ x.fails = {}
    BY <1>6, <2>1
  <2> QED
    BY <1>1, <1>2, <1>3, <2>2, NothingGives DEF NodeOK
<1>11. (\E c \in Contents : x \in CreateFile(d, c)) \/ x \in mkdir_with(d) \/ x \in symlink(d) \/ x \in mknod(d)
  BY DEF NewNodes
<1> QED
  BY <1>7, <1>8, <1>9, <1>10, <1>11

-----------------------------------------------------------------------------
(* A call changes one inode and makes at most a chunk of others.           *)

Idle == {"free", "garbage"}
Around(i, chunk) ==
    /\ chunk \subseteq free /\ chunks' = chunks \cup chunk
    /\ DOMAIN inode' = DOMAIN inode \cup UNION {InodesOf(b) : b \in chunk}
    /\ i \in DOMAIN inode'
    /\ \A j \in DOMAIN inode \ {i} : inode'[j] = inode[j]
    /\ \A j \in DOMAIN inode' \ (DOMAIN inode \cup {i}) :
          inode'[j].kind \in Idle /\ InodeOK(inode'[j], {})

(* The inodes of a chunk as it is written.                                 *)
LEMMA ChunkInodesOK ==
    ASSUME NEW k \in Idle
    PROVE  LET r == NewInode(k, 0, {}, {}, "none") IN r.kind = k /\ InodeOK(r, {})
<1>1. PICK r : r = NewInode(k, 0, {}, {}, "none")
  OBVIOUS
<1>2. Shape(r) /\ r.kind = k /\ r.nlink = 0 /\ r.data = {} /\ r.bmbt = {} /\ r.attr = {}
  BY <1>1, NewInodeIs
<1>3. k \in Kinds /\ k # "dir"
  BY DEF Idle, Kinds
<1> QED
  BY <1>1, <1>2, <1>3 DEF InodeOK, Shape, Forks

(* A chunk is made, and one inode of what is there then changes, or none.  *)
LEMMA AroundChunk ==
    ASSUME GroupsOK, NEW a, Found(a), chunks' = chunks \cup a.chunk,
           NEW k \in Idle, NEW new, new = NewInode(k, 0, {}, {}, "none"),
           NEW r, inode' = WithInodes(a.chunk, new) \/ inode' = [WithInodes(a.chunk, new) EXCEPT ![a.ino] = r]
    PROVE  /\ Around(a.ino, a.chunk)
           /\ inode' # WithInodes(a.chunk, new) => inode'[a.ino] = r
           /\ inode' = WithInodes(a.chunk, new) =>
                 inode'[a.ino] = IF a.ino \in DOMAIN inode THEN inode[a.ino] ELSE new
<1>1. PICK w : w = WithInodes(a.chunk, new)
  OBVIOUS
<1>2. PICK N : N = UNION {InodesOf(b) : b \in a.chunk}
  OBVIOUS
<1>3. w = [j \in DOMAIN inode \cup N |-> IF j \in DOMAIN inode THEN inode[j] ELSE new]
  BY <1>1, <1>2 DEF WithInodes
<1>4. /\ DOMAIN w = DOMAIN inode \cup N
      /\ \A j \in DOMAIN inode : w[j] = inode[j]
      /\ \A j \in N \ DOMAIN inode : w[j] = new
  BY <1>3
<1>5. a.ino \in DOMAIN w
  BY <1>2, <1>4, FoundIn
<1>6. DOMAIN inode' = DOMAIN w /\ \A j \in DOMAIN w \ {a.ino} : inode'[j] = w[j]
  BY <1>1, <1>5, Put, Zenon
<1>7. inode' # w => inode'[a.ino] = r
  BY <1>1, <1>5, Put, Zenon
<1>8. new.kind \in Idle /\ InodeOK(new, {})
  BY ChunkInodesOK
<1>9. Around(a.ino, a.chunk)
  BY <1>2, <1>4, <1>5, <1>6, <1>8 DEF Around, Found
<1>10. inode' = w => inode'[a.ino] = IF a.ino \in DOMAIN inode THEN inode[a.ino] ELSE new
  BY <1>4, <1>5
<1> QED
  BY <1>1, <1>7, <1>9, <1>10

(* None of them changes.                                                   *)
LEMMA AroundIdle ==
    ASSUME GroupsOK, NEW a, Found(a), chunks' = chunks \cup a.chunk,
           NEW k \in Idle, NEW new, new = NewInode(k, 0, {}, {}, "none"), inode' = WithInodes(a.chunk, new)
    PROVE  /\ Around(a.ino, a.chunk)
           /\ inode'[a.ino] = IF a.ino \in DOMAIN inode THEN inode[a.ino] ELSE new
BY AroundChunk

(* One inode that is there changes.                                        *)
LEMMA AroundOne ==
    ASSUME NEW i \in DOMAIN inode, NEW r, inode' = [inode EXCEPT ![i] = r], chunks' = chunks
    PROVE  Around(i, {}) /\ inode'[i] = r
<1>1. DOMAIN inode' = DOMAIN inode /\ inode'[i] = r /\ \A j \in DOMAIN inode \ {i} : inode'[j] = inode[j]
  BY Put, Zenon
<1> QED
  BY <1>1 DEF Around

(* Or none.                                                                *)
LEMMA AroundNone ==
    ASSUME NEW i \in DOMAIN inode, inode' = inode, chunks' = chunks
    PROVE  Around(i, {}) /\ inode'[i] = inode[i]
BY DEF Around

-----------------------------------------------------------------------------
(* What a call does to blocks and contents, and why that is sound.         *)

InodesOK == \A i \in DOMAIN inode : InodeOK(inode[i], DOMAIN inode)
Stored == \A i \in InUse : \A b \in inode[i].data : held[b] = <<i, inode[i].body>>
Owned(i) == IF i \in InUse THEN Forks(inode[i]) ELSE {}
Parted(r) == r.data \cap r.bmbt = {} /\ (r.data \cup r.bmbt) \cap r.attr = {}

(* The shape of what it leaves.                                            *)
Effect(i, chunk) ==
    /\ Around(i, chunk) /\ InodeOK(inode'[i], DOMAIN inode')
    /\ free' \subseteq Blocks /\ ifree' \subseteq DOMAIN inode' /\ dirty' \subseteq Ags
    /\ DOMAIN held' = Blocks

(* Blocks go from the free ones to the inode and back, all of them unless  *)
(* some are lost, and it writes to no other's.                             *)
Moves(i, chunk) ==
    /\ Owned(i)' \subseteq (free \ chunk) \cup Owned(i)
    /\ free' \subseteq ((free \ chunk) \cup Owned(i)) \ Owned(i)'
    /\ failed' = "no" => failed = "no" /\ free' = ((free \ chunk) \cup Owned(i)) \ Owned(i)'
    /\ i \in InUse' => Parted(inode'[i]) /\ \A b \in inode'[i].data : held'[b] = <<i, inode'[i].body>>
    /\ \A b \in Blocks \ (free \cup Owned(i)) : held'[b] = held[b]

(* It marks the groups of what it changes.                                 *)
Marks(chunk) ==
    /\ dirty \subseteq dirty'
    /\ \A b \in (free' \ free) \cup (free \ free') \cup chunk : AgOf(b) \in dirty'
    /\ \A j \in (ifree' \ ifree) \cup (ifree \ ifree') : AgOfIno(j) \in dirty'

(* More inodes do not make a list or an inode wrong.                       *)
LEMMA MoreInodes ==
    ASSUME NEW S, NEW T, S \subseteq T
    PROVE  /\ \A s : ListOK(s, S) => ListOK(s, T)
           /\ \A r : InodeOK(r, S) => InodeOK(r, T)
<1>1. ASSUME NEW s, ListOK(s, S)
      PROVE  ListOK(s, T)
  <2>1. /\ s = [parent |-> s.parent, names |-> s.names]
        /\ s.parent \in S /\ \A n \in DOMAIN s.names : s.names[n].ino \in S /\ s.names[n].kind \in Kinds
        /\ DOMAIN s.names \subseteq Names /\ IsFiniteSet(DOMAIN s.names)
    BY <1>1 DEF ListOK
  <2>2. s.parent \in T /\ \A n \in DOMAIN s.names : s.names[n].ino \in T /\ s.names[n].kind \in Kinds
    BY <2>1
  <2> QED
    BY <2>1, <2>2 DEF ListOK
<1>2. ASSUME NEW r, InodeOK(r, S)
      PROVE  InodeOK(r, T)
  <2>1. r.kind = "dir" => ListOK(r.body, T)
    BY <1>1, <1>2 DEF InodeOK
  <2> QED
    BY <1>2, <2>1 DEF InodeOK
<1> QED
  BY <1>1, <1>2

(* The groups and the inodes keep their shape.                             *)
LEMMA EffectShape ==
    ASSUME GroupsOK, InodesOK, NEW i, NEW chunk, Effect(i, chunk)
    PROVE  GroupsOK' /\ InodesOK' /\ DOMAIN inode \subseteq DOMAIN inode'
<1>1. /\ chunk \subseteq free /\ chunks' = chunks \cup chunk
      /\ DOMAIN inode' = DOMAIN inode \cup UNION {InodesOf(b) : b \in chunk}
      /\ \A j \in DOMAIN inode \ {i} : inode'[j] = inode[j]
      /\ \A j \in DOMAIN inode' \ (DOMAIN inode \cup {i}) : InodeOK(inode'[j], {})
  BY DEF Effect, Around
<1>2. GroupsOK'
  <2>1. DOMAIN inode' = UNION {InodesOf(b) : b \in chunks'}
    BY <1>1 DEF GroupsOK
  <2> QED
    BY <1>1, <2>1 DEF GroupsOK, Effect
<1>3. ASSUME NEW j \in DOMAIN inode'
      PROVE  InodeOK(inode'[j], DOMAIN inode')
  <2>1. CASE j = i
    BY <2>1 DEF Effect
  <2>2. CASE j \in DOMAIN inode \ {i}
    <3>1. InodeOK(inode[j], DOMAIN inode)
      BY <2>2 DEF InodesOK
    <3>2. InodeOK(inode[j], DOMAIN inode')
      BY <1>1, <3>1, MoreInodes
    <3> QED
      BY <1>1, <2>2, <3>2
  <2>3. CASE j \in DOMAIN inode' \ (DOMAIN inode \cup {i})
    BY <1>1, <2>3, MoreInodes
  <2> QED
    BY <2>1, <2>2, <2>3
<1> QED
  BY <1>1, <1>2, <1>3 DEF InodesOK

(* The inodes in use afterwards: those that were, but for the one changed. *)
LEMMA InUseAfter ==
    ASSUME NEW i, NEW chunk, Around(i, chunk)
    PROVE  /\ \A j \in InUse' \ {i} : j \in InUse /\ inode'[j] = inode[j]
           /\ \A j \in InUse \ {i} : j \in InUse' /\ inode'[j] = inode[j]
<1>1. ASSUME NEW j \in InUse' \ {i}
      PROVE  j \in InUse /\ inode'[j] = inode[j]
  <2>1. j \in DOMAIN inode' /\ inode'[j].kind \notin Idle
    BY <1>1 DEF InUse, UsedIn, Idle
  <2>2. j \in DOMAIN inode \ {i}
    BY <2>1 DEF Around
  <2>3. inode'[j] = inode[j]
    BY <2>2 DEF Around
  <2> QED
    BY <2>1, <2>2, <2>3 DEF InUse, UsedIn, Idle
<1>2. ASSUME NEW j \in InUse \ {i}
      PROVE  j \in InUse' /\ inode'[j] = inode[j]
  <2>1. j \in DOMAIN inode \ {i} /\ inode[j].kind \notin Idle
    BY <1>2 DEF InUse, UsedIn, Idle
  <2>2. inode'[j] = inode[j] /\ j \in DOMAIN inode'
    BY <2>1 DEF Around
  <2> QED
    BY <2>1, <2>2 DEF InUse, UsedIn, Idle
<1> QED
  BY <1>1, <1>2

(* A block has one owner, said inode by inode.                             *)
LEMMA OwnerIs ==
    ASSUME NEW ino, NEW cs, NEW fr
    PROVE  OneOwner(ino, cs, fr) <=>
              /\ fr \cap cs = {}
              /\ \A j \in UsedIn(ino) : (fr \cup cs) \cap Forks(ino[j]) = {} /\ Parted(ino[j])
              /\ \A j, k \in UsedIn(ino) : j # k => Forks(ino[j]) \cap Forks(ino[k]) = {}
<1>1. (fr \cup cs) \cap ForksIn(ino) = {}
         <=> \A j \in UsedIn(ino) : (fr \cup cs) \cap Forks(ino[j]) = {}
  BY DEF ForksIn
<1>2. \A j \in UsedIn(ino) : Parted(ino[j]) <=>
         ino[j].data \cap ino[j].bmbt = {} /\ (ino[j].data \cup ino[j].bmbt) \cap ino[j].attr = {}
  BY DEF Parted
<1> HIDE DEF Forks, Parted
<1> QED
  BY <1>1, <1>2 DEF OneOwner

(* Every block still has one owner, and none is lost that was not.         *)
LEMMA OwnerStays ==
    ASSUME GroupsOK, OneOwner(inode, chunks, free), NEW i, NEW chunk, Around(i, chunk), Moves(i, chunk)
    PROVE  /\ OneOwner(inode, chunks, free)'
           /\ failed' = "no" /\ free \cup chunks \cup AllForks = Blocks =>
                 free' \cup chunks' \cup AllForks' = Blocks
<1>1. PICK old, new : old = Owned(i) /\ new = Owned(i)'
  OBVIOUS
<1>2. /\ new \subseteq (free \ chunk) \cup old /\ free' \subseteq ((free \ chunk) \cup old) \ new
      /\ failed' = "no" => free' = ((free \ chunk) \cup old) \ new
      /\ i \in InUse' => Parted(inode'[i])
  BY <1>1 DEF Moves
<1>3. chunk \subseteq free /\ chunks' = chunks \cup chunk
  BY DEF Around
<1>4. /\ free \cap chunks = {}
      /\ \A j \in InUse : (free \cup chunks) \cap Forks(inode[j]) = {} /\ Parted(inode[j])
      /\ \A j, k \in InUse : j # k => Forks(inode[j]) \cap Forks(inode[k]) = {}
  BY OwnerIs DEF InUse
<1>5. /\ \A j \in InUse' \ {i} : j \in InUse /\ inode'[j] = inode[j]
      /\ \A j \in InUse \ {i} : j \in InUse' /\ inode'[j] = inode[j]
  BY InUseAfter
<1>6. (i \in InUse' => Forks(inode'[i]) = new) /\ (i \notin InUse' => new = {})
  BY <1>1 DEF Owned
<1>7. (i \in InUse => Forks(inode[i]) = old) /\ (i \notin InUse => old = {})
  BY <1>1 DEF Owned
<1>8. old \cap (free \cup chunks) = {} /\ \A j \in InUse \ {i} : old \cap Forks(inode[j]) = {}
  BY <1>4, <1>7
<1>9. free' \cap chunks' = {}
  BY <1>2, <1>3, <1>4, <1>8
<1>10. \A j \in InUse' : (free' \cup chunks') \cap Forks(inode'[j]) = {} /\ Parted(inode'[j])
  <2>1. ASSUME NEW j \in InUse' \ {i}
        PROVE  (free' \cup chunks') \cap Forks(inode'[j]) = {} /\ Parted(inode'[j])
    <3>1. PICK F : F = Forks(inode[j]) /\ F = Forks(inode'[j]) /\ Parted(inode'[j])
      BY <1>4, <1>5
    <3>2. (free \cup chunks \cup old) \cap F = {}
      BY <1>4, <1>5, <1>8, <3>1
    <3> QED
      BY <1>2, <1>3, <3>1, <3>2
  <2>2. ASSUME i \in InUse'
        PROVE  (free' \cup chunks') \cap Forks(inode'[i]) = {} /\ Parted(inode'[i])
    <3>1. (free' \cup chunks') \cap new = {}
      BY <1>2, <1>3, <1>4, <1>8
    <3> QED
      BY <1>2, <1>6, <2>2, <3>1
  <2> QED
    BY <2>1, <2>2
<1>11. \A j, k \in InUse' : j # k => Forks(inode'[j]) \cap Forks(inode'[k]) = {}
  <2>1. ASSUME NEW j \in InUse' \ {i}
        PROVE  new \cap Forks(inode'[j]) = {}
    BY <1>2, <1>4, <1>5, <1>8
  <2>2. ASSUME NEW j \in InUse' \ {i}, NEW k \in InUse' \ {i}, j # k
        PROVE  Forks(inode'[j]) \cap Forks(inode'[k]) = {}
    BY <1>4, <1>5, <2>2
  <2> QED
    BY <1>6, <2>1, <2>2
<1>12. OneOwner(inode, chunks, free)'
  <2>1. /\ free' \cap chunks' = {}
        /\ \A j \in InUse' : (free' \cup chunks') \cap Forks(inode'[j]) = {} /\ Parted(inode'[j])
        /\ \A j, k \in InUse' : j # k => Forks(inode'[j]) \cap Forks(inode'[k]) = {}
    BY <1>9, <1>10, <1>11
  <2> QED
    BY <2>1, OwnerIs DEF InUse
<1>13. ASSUME failed' = "no", free \cup chunks \cup AllForks = Blocks
       PROVE  free' \cup chunks' \cup AllForks' = Blocks
  <2>1. PICK O : O = UNION {Forks(inode[j]) : j \in InUse \ {i}}
    OBVIOUS
  <2>2. AllForks = O \cup old
    BY <1>7, <2>1 DEF AllForks, ForksIn, InUse
  <2>3. AllForks' = O \cup new
    BY <1>5, <1>6, <2>1 DEF AllForks, ForksIn, InUse
  <2>4. free' = ((free \ chunk) \cup old) \ new
    BY <1>2, <1>13
  <2> QED
    BY <1>2, <1>3, <1>13, <2>2, <2>3, <2>4
<1> QED
  BY <1>12, <1>13

(* What is stored stays.                                                   *)
LEMMA StoredStays ==
    ASSUME GroupsOK, InodesOK, OneOwner(inode, chunks, free), Stored,
           NEW i, NEW chunk, Around(i, chunk), Moves(i, chunk)
    PROVE  Stored'
<1>1. ASSUME NEW j \in InUse' \ {i}, NEW b \in inode'[j].data
      PROVE  held'[b] = <<j, inode'[j].body>>
  <2>1. j \in InUse /\ inode'[j] = inode[j] /\ b \in inode[j].data
    BY <1>1, InUseAfter
  <2>2. b \in Forks(inode[j]) /\ b \in Blocks
    BY <2>1 DEF Forks, InodesOK, InodeOK, InUse, UsedIn
  <2>3. b \notin free /\ b \notin Owned(i)
    BY <1>1, <2>1, <2>2, OwnerIs DEF Owned, InUse
  <2>4. held'[b] = held[b]
    BY <2>2, <2>3 DEF Moves
  <2> QED
    BY <2>1, <2>4 DEF Stored
<1>2. ASSUME i \in InUse', NEW b \in inode'[i].data
      PROVE  held'[b] = <<i, inode'[i].body>>
  BY <1>2 DEF Moves
<1> QED
  BY <1>1, <1>2 DEF Stored

-----------------------------------------------------------------------------
(* The calls, one by one: those that make something.                       *)

Ready ==
    /\ GroupsOK /\ InodesOK /\ dirty \subseteq Ags /\ DOMAIN held = Blocks
    /\ OneOwner(inode, chunks, free) /\ Stored /\ ifree \cap InUse = {}

(* What blocks hold after a write.                                         *)
LEMMA WrittenIs ==
    ASSUME NEW bs, NEW i, NEW c
    PROVE  LET h == Written(bs, i, c)
           IN  /\ DOMAIN h = Blocks
               /\ \A b \in Blocks : h[b] = IF b \in bs THEN <<i, c>> ELSE held[b]
BY DEF Written

(* One to free blocks touches no others.                                   *)
LEMMA WrittenFree ==
    ASSUME NEW w, w \subseteq free, NEW i, NEW c, held' = Written(w, i, c)
    PROVE  DOMAIN held' = Blocks /\ \A b \in Blocks \ free : held'[b] = held[b]
<1>1. PICK h : h = Written(w, i, c)
  OBVIOUS
<1>2. DOMAIN h = Blocks /\ \A b \in Blocks : h[b] = IF b \in w THEN <<i, c>> ELSE held[b]
  BY <1>1, WrittenIs
<1>3. held' = h
  BY <1>1
<1> QED
  BY <1>2, <1>3

(* An inode that was found is in nobody's use.                             *)
LEMMA FoundUnused ==
    ASSUME Ready, NEW a, Found(a)
    PROVE  a.ino \notin InUse /\ Owned(a.ino) = {} /\ (a.chunk # {} => a.ino \notin DOMAIN inode)
<1>1. CASE a.chunk = {}
  BY <1>1 DEF Found, Ready, Owned
<1>2. CASE a.chunk # {}
  <2>1. PICK b \in a.chunk : a.ino \in InodesOf(b)
    BY <1>2 DEF Found
  <2>2. b \in Blocks /\ b \notin chunks
    BY OwnerIs DEF Found, Ready, GroupsOK
  <2>3. a.ino \div ChunkInodes = b
    BY <2>1, <2>2, InodeBlock
  <2>4. a.ino \notin DOMAIN inode
    BY <2>2, <2>3, InodesIn DEF Ready
  <2> QED
    BY <2>4 DEF Owned, InUse, UsedIn
<1> QED
  BY <1>1, <1>2

(* The inode is not taken into use, or given back.                         *)
LEMMA UnusedEffect ==
    ASSUME Ready, NEW a, Found(a), chunks' = chunks \cup a.chunk,
           NEW k \in Idle, inode' = WithInodes(a.chunk, NewInode(k, 0, {}, {}, "none")),
           free' \subseteq free \ a.chunk, failed' = "no" => failed = "no" /\ free' = free \ a.chunk,
           ifree' \subseteq IfreeWith(a.chunk), dirty' \subseteq Ags,
           DOMAIN held' = Blocks, \A b \in Blocks \ free : held'[b] = held[b]
    PROVE  Effect(a.ino, a.chunk) /\ Moves(a.ino, a.chunk)
<1>1. PICK new : new = NewInode(k, 0, {}, {}, "none")
  OBVIOUS
<1>2. /\ Around(a.ino, a.chunk)
      /\ inode'[a.ino] = IF a.ino \in DOMAIN inode THEN inode[a.ino] ELSE new
  <2>1. GroupsOK /\ inode' = WithInodes(a.chunk, new)
    BY <1>1 DEF Ready
  <2> QED
    BY <1>1, <2>1, AroundIdle
<1>3. a.ino \notin InUse /\ Owned(a.ino) = {}
  BY FoundUnused
<1>4. new.kind \in Idle /\ InodeOK(new, {})
  BY <1>1, ChunkInodesOK
<1>5. DOMAIN inode \subseteq DOMAIN inode' /\ a.ino \in DOMAIN inode'
  BY <1>2 DEF Around
<1>6. inode'[a.ino].kind \in Idle /\ InodeOK(inode'[a.ino], DOMAIN inode')
  <2>1. CASE a.ino \in DOMAIN inode
    <3>1. inode[a.ino].kind \in Idle
      BY <1>3, <2>1 DEF InUse, UsedIn, Idle
    <3>2. InodeOK(inode[a.ino], DOMAIN inode)
      BY <2>1 DEF Ready, InodesOK
    <3> QED
      BY <1>2, <1>5, <2>1, <3>1, <3>2, MoreInodes
  <2>2. CASE a.ino \notin DOMAIN inode
    BY <1>2, <1>4, <2>2, MoreInodes
  <2> QED
    BY <2>1, <2>2
<1>7. a.ino \notin InUse' /\ Owned(a.ino)' = {}
  BY <1>6 DEF Owned, InUse, UsedIn, Idle
<1>8. ifree' \subseteq DOMAIN inode'
  BY <1>2 DEF Around, IfreeWith, Ready, GroupsOK
<1>9. free' \subseteq Blocks
  BY DEF Ready, GroupsOK
<1> QED
  BY <1>2, <1>3, <1>6, <1>7, <1>8, <1>9 DEF Effect, Moves

(* What was to be made is made.                                            *)
LEMMA MadeEffect ==
    ASSUME Ready, NEW d \in DOMAIN inode, NEW x, NodeOK(x, d), x.st.ok,
           chunks' = chunks \cup x.at.chunk, free' = x.st.free, failed' = "no" => failed = "no",
           inode' = [WithChunk(x.at.chunk) EXCEPT ![x.at.ino] =
                        NewInode(x.kind, x.nlink, x.st.data, x.st.bmbt, x.body)],
           held' = Written(x.st.wrote, x.at.ino, x.body),
           ifree' \subseteq IfreeWith(x.at.chunk), dirty' \subseteq Ags
    PROVE  /\ Effect(x.at.ino, x.at.chunk) /\ Moves(x.at.ino, x.at.chunk)
           /\ x.at.ino \in InUse' /\ inode'[x.at.ino].kind = x.kind /\ inode'[x.at.ino].nlink = x.nlink
<1>1. PICK a, st : a = x.at /\ st = x.st
  OBVIOUS
<1>2. PICK r : r = NewInode(x.kind, x.nlink, st.data, st.bmbt, x.body)
  OBVIOUS
<1>3. /\ Shape(r) /\ r.kind = x.kind /\ r.nlink = x.nlink /\ r.data = st.data /\ r.bmbt = st.bmbt
      /\ r.attr = {} /\ r.body = x.body
  BY <1>2, NewInodeIs
<1>4. Found(a) /\ Gives(st, free \ a.chunk)
  BY <1>1 DEF NodeOK
<1>5. Around(a.ino, a.chunk) /\ inode'[a.ino] = r
  <2>1. PICK k : k = "free"
    OBVIOUS
  <2>2. PICK new : new = NewInode(k, 0, {}, {}, "none")
    OBVIOUS
  <2>3. k \in Idle
    BY <2>1 DEF Idle
  <2>4. PICK w : w = WithInodes(a.chunk, new)
    OBVIOUS
  <2>5. w = WithChunk(a.chunk)
    BY <2>1, <2>2, <2>4 DEF WithChunk, FreeInode
  <2>6. inode' = [w EXCEPT ![a.ino] = r]
    BY <1>1, <1>2, <2>5
  <2>7. inode' = [WithInodes(a.chunk, new) EXCEPT ![a.ino] = r]
    BY <2>4, <2>6
  <2>8. Around(a.ino, a.chunk)
    BY <1>1, <1>4, <2>2, <2>3, <2>7, AroundChunk DEF Ready
  <2>9. a.ino \in DOMAIN w
    BY <1>4, <2>4, FoundIn DEF Ready, WithInodes
  <2> QED
    BY <2>6, <2>8, <2>9, Put
<1>6. a.ino \notin InUse /\ Owned(a.ino) = {}
  BY <1>4, FoundUnused
<1>7. DOMAIN inode \subseteq DOMAIN inode' /\ a.ino \in DOMAIN inode'
  BY <1>5 DEF Around
<1>8. x.kind \in {"file", "dir", "link", "special"} /\ x.nlink \in Nat
  BY DEF NodeOK
<1>9. Forks(r) = st.data \cup st.bmbt
  BY <1>3 DEF Forks
<1>10. /\ st.data \cup st.bmbt \subseteq free \ a.chunk /\ st.wrote \subseteq free
       /\ st.data \cap st.bmbt = {} /\ st.wrote = st.data
       /\ st.free = (free \ a.chunk) \ (st.data \cup st.bmbt)
  BY <1>1, <1>4 DEF Gives
<1>11. free \subseteq Blocks
  BY DEF Ready, GroupsOK
<1>12. InodeOK(r, DOMAIN inode')
  <2>1. ASSUME x.kind = "dir"
        PROVE  ListOK(x.body, DOMAIN inode')
    <3>1. PICK f : f = [y \in {} |-> 0] /\ DOMAIN f = {}
      OBVIOUS
    <3>2. x.body = [parent |-> d, names |-> f]
      BY <2>1, <3>1 DEF NodeOK, EmptyDir
    <3>3. x.body.parent = d /\ x.body.names = f
      BY <3>2
    <3> QED
      BY <1>7, <3>1, <3>2, <3>3, FS_EmptySet DEF ListOK
  <2>2. Forks(r) \subseteq Blocks
    BY <1>9, <1>10, <1>11
  <2>3. r.kind \in Kinds /\ r.nlink \in Nat
    BY <1>3, <1>8 DEF Kinds
  <2> QED
    BY <1>3, <2>1, <2>2, <2>3 DEF InodeOK, Shape
<1>13. a.ino \in InUse' /\ Owned(a.ino)' = st.data \cup st.bmbt
  <2>1. r.kind \notin {"free", "garbage"}
    BY <1>3, <1>8
  <2> QED
    BY <1>5, <1>7, <1>9, <2>1 DEF InUse, UsedIn, Owned
<1>14. DOMAIN held' = Blocks /\ \A b \in Blocks : held'[b] = IF b \in st.wrote THEN <<a.ino, x.body>> ELSE held[b]
  BY <1>1, WrittenIs
<1>15. Effect(a.ino, a.chunk)
  <2>1. ifree' \subseteq DOMAIN inode'
    BY <1>1, <1>5 DEF Around, IfreeWith, Ready, GroupsOK
  <2>2. free' \subseteq Blocks
    BY <1>1, <1>10, <1>11
  <2> QED
    BY <1>5, <1>12, <1>14, <2>1, <2>2 DEF Effect
<1>16. Moves(a.ino, a.chunk)
  <2>1. Parted(r)
    BY <1>3, <1>10 DEF Parted
  <2>2. \A b \in r.data : held'[b] = <<a.ino, r.body>>
    BY <1>3, <1>10, <1>11, <1>14
  <2>3. \A b \in Blocks \ free : held'[b] = held[b]
    BY <1>10, <1>14
  <2>4. free' = (free \ a.chunk) \ (st.data \cup st.bmbt)
    BY <1>1, <1>10
  <2> QED
    BY <1>5, <1>6, <1>10, <1>13, <2>1, <2>2, <2>3, <2>4 DEF Moves
<1> QED
  BY <1>1, <1>3, <1>5, <1>13, <1>15, <1>16

(* Their groups are marked.                                                *)
LEMMA NodeMarks ==
    ASSUME Ready, NEW a, Found(a), dirty \cup {AgOfIno(a.ino)} \subseteq dirty',
           NEW B, B \subseteq Blocks, AgsOf(B) \subseteq dirty',
           free' \subseteq free \ a.chunk, (free \ a.chunk) \ B \subseteq free',
           ifree' \subseteq IfreeWith(a.chunk), IfreeWith(a.chunk) \ {a.ino} \subseteq ifree'
    PROVE  Marks(a.chunk)
<1>1. \A b \in a.chunk : AgOf(b) = AgOfIno(a.ino) /\ b \in Blocks
  BY DEF Found, Ready, GroupsOK
<1>2. \A b \in (free' \ free) \cup (free \ free') \cup a.chunk : AgOf(b) \in dirty'
  BY <1>1, GroupsOf
<1>3. ASSUME NEW j \in (ifree' \ ifree) \cup (ifree \ ifree')
      PROVE  AgOfIno(j) \in dirty'
  <2>1. CASE j = a.ino
    BY <2>1
  <2>2. CASE j # a.ino
    <3>1. PICK b \in a.chunk : j \in InodesOf(b)
      BY <1>3, <2>2 DEF IfreeWith
    <3>2. AgOfIno(j) = AgOf(b)
      BY <1>1, <3>1, InodeBlock
    <3> QED
      BY <1>1, <3>2
  <2> QED
    BY <2>1, <2>2
<1> QED
  BY <1>2, <1>3 DEF Marks

(* A new name, in each of the ways it can end.                             *)
LEMMA CreateKeeps ==
    ASSUME Ready, NEW d \in DOMAIN inode, NEW n, NEW x, NodeOK(x, d),
           Create(d, n, x) \/ CreateFails(d, n, x)
    PROVE  Effect(x.at.ino, x.at.chunk) /\ Moves(x.at.ino, x.at.chunk) /\ Marks(x.at.chunk)
<1>1. PICK a, st : a = x.at /\ st = x.st
  OBVIOUS
<1>2. Found(a) /\ Gives(st, free \ a.chunk)
  BY <1>1 DEF NodeOK
<1>3. AgOfIno(a.ino) \in Ags /\ a.chunk \subseteq free /\ free \subseteq Blocks
  BY <1>2, FoundIn DEF Found, Ready, GroupsOK
<1>4. /\ st.ok \in BOOLEAN /\ st.data \cup st.bmbt \cup st.wrote \subseteq free \ a.chunk
      /\ st.free = IF st.ok THEN (free \ a.chunk) \ (st.data \cup st.bmbt) ELSE free \ a.chunk
      /\ st.touched \subseteq Ags /\ (st.ok => AgsOf(st.data \cup st.bmbt) \subseteq st.touched)
  BY <1>2 DEF Gives
<1>5. chunks' = chunks \cup a.chunk
  BY <1>1 DEF Create, CreateFails
<1>6. dirty \subseteq Ags /\ DOMAIN held = Blocks /\ AgsOf(st.data) \subseteq Ags /\ AgsOf({}) = {}
  BY <1>3, <1>4, GroupsOf DEF Ready, AgsOf
<1>7. \A w, i, c : w \subseteq free /\ held' = Written(w, i, c) =>
         DOMAIN held' = Blocks /\ \A b \in Blocks \ free : held'[b] = held[b]
  BY WrittenFree
<1>8. PICK k, new : k = "free" /\ new = NewInode(k, 0, {}, {}, "none")
  OBVIOUS
<1>9. k \in Idle /\ WithChunk(a.chunk) = WithInodes(a.chunk, new)
  BY <1>8 DEF Idle, WithChunk, FreeInode
<1>10. CASE Create(d, n, x)
  <2>1. /\ free' = st.free /\ held' = Written(st.wrote, a.ino, x.body) /\ failed' = failed
        /\ dirty' = dirty \cup {AgOfIno(a.ino)} \cup st.touched
    BY <1>1, <1>10 DEF Create, Call
  <2>2. CASE st.ok
    <3>1. ifree' = IfreeWith(a.chunk) \ {a.ino}
      BY <1>1, <1>10, <2>2 DEF Create
    <3>2. inode' = [WithChunk(x.at.chunk) EXCEPT ![x.at.ino] =
                        NewInode(x.kind, x.nlink, x.st.data, x.st.bmbt, x.body)]
      BY <1>1, <1>10, <2>2 DEF Create
    <3>3. Effect(a.ino, a.chunk) /\ Moves(a.ino, a.chunk)
      <4>1. dirty' \subseteq Ags /\ ifree' \subseteq IfreeWith(x.at.chunk) /\ x.st.ok
        BY <1>1, <1>3, <1>4, <1>6, <2>1, <2>2, <3>1
      <4>2. chunks' = chunks \cup x.at.chunk /\ free' = x.st.free /\ (failed' = "no" => failed = "no")
        BY <1>1, <1>5, <2>1
      <4>3. held' = Written(x.st.wrote, x.at.ino, x.body)
        BY <1>1, <2>1
      <4> QED
        BY <1>1, <3>2, <4>1, <4>2, <4>3, MadeEffect
    <3>4. Marks(a.chunk)
      <4>1. PICK B : B = st.data \cup st.bmbt
        OBVIOUS
      <4>2. B \subseteq Blocks /\ AgsOf(B) \subseteq dirty' /\ free' = (free \ a.chunk) \ B
        BY <1>3, <1>4, <2>1, <2>2, <4>1
      <4> QED
        BY <1>2, <2>1, <3>1, <4>2, NodeMarks
    <3> QED
      BY <1>1, <3>3, <3>4
  <2>3. CASE ~ st.ok
    <3>1. ifree' = IfreeWith(a.chunk) /\ inode' = WithInodes(a.chunk, new) /\ free' = free \ a.chunk
      BY <1>1, <1>4, <1>9, <1>10, <2>1, <2>3 DEF Create
    <3>2. Effect(a.ino, a.chunk) /\ Moves(a.ino, a.chunk)
      <4>1. dirty' \subseteq Ags
        BY <1>3, <1>4, <1>6, <2>1
      <4>2. DOMAIN held' = Blocks /\ \A b \in Blocks \ free : held'[b] = held[b]
        BY <1>4, <1>7, <2>1
      <4> QED
        BY <1>2, <1>5, <1>8, <1>9, <2>1, <3>1, <4>1, <4>2, UnusedEffect
    <3>3. Marks(a.chunk)
      BY <1>2, <1>6, <2>1, <3>1, NodeMarks
    <3> QED
      BY <1>1, <3>2, <3>3
  <2> QED
    BY <1>4, <2>2, <2>3
<1>11. ASSUME NEW k2 \in Idle, inode' = WithInodes(a.chunk, NewInode(k2, 0, {}, {}, "none")),
              failed' = "leak" \/ (failed' = failed /\ free' = free \ a.chunk),
              dirty' \subseteq Ags, dirty \cup {AgOfIno(a.ino)} \subseteq dirty',
              NEW B, B \subseteq Blocks, AgsOf(B) \subseteq dirty', free' = (free \ a.chunk) \ B,
              ifree' \in {IfreeWith(a.chunk), IfreeWith(a.chunk) \ {a.ino}},
              held' = held \/ \E w, i, c : w \subseteq free /\ held' = Written(w, i, c)
       PROVE  Effect(a.ino, a.chunk) /\ Moves(a.ino, a.chunk) /\ Marks(a.chunk)
  <2>1. DOMAIN held' = Blocks /\ \A b \in Blocks \ free : held'[b] = held[b]
    BY <1>6, <1>7, <1>11
  <2>2. failed' = "no" => failed = "no" /\ free' = free \ a.chunk
    BY <1>11
  <2>3. /\ free' \subseteq free \ a.chunk /\ (free \ a.chunk) \ B \subseteq free'
        /\ ifree' \subseteq IfreeWith(a.chunk) /\ IfreeWith(a.chunk) \ {a.ino} \subseteq ifree'
    BY <1>11
  <2>4. Effect(a.ino, a.chunk) /\ Moves(a.ino, a.chunk)
    BY <1>2, <1>5, <1>11, <2>1, <2>2, <2>3, UnusedEffect
  <2>5. Marks(a.chunk)
    BY <1>2, <1>11, <2>3, NodeMarks
  <2> QED
    BY <2>4, <2>5
<1>12. CASE CreateFails(d, n, x)
  <2> DEFINE
        F1 == /\ free' = free \ a.chunk /\ ifree' = IfreeWith(a.chunk) \ {a.ino}
              /\ inode' = WithInodes(a.chunk, NewInode("garbage", 0, {}, {}, "none"))
              /\ dirty' = dirty \cup {AgOfIno(a.ino)} /\ failed' = "leak" /\ held' = held
        F2(f) == /\ free' = (free \ a.chunk) \ f.lost /\ inode' = WithInodes(a.chunk, new)
                 /\ ifree' = IF x.kind = "file" THEN IfreeWith(a.chunk) ELSE IfreeWith(a.chunk) \ {a.ino}
                 /\ held' = Written(f.wrote, a.ino, f.body)
                 /\ dirty' = dirty \cup {AgOfIno(a.ino)} \cup AgsOf(f.lost \cup f.wrote)
                 /\ failed' = IF x.kind = "file" /\ f.lost = {} THEN failed ELSE "leak"
        F4 == /\ st.ok /\ free' = st.free /\ ifree' = IfreeWith(a.chunk) \ {a.ino}
              /\ inode' = WithInodes(a.chunk, new) /\ held' = Written(st.wrote, a.ino, x.body)
              /\ dirty' = dirty \cup ({AgOfIno(a.ino)} \cup st.touched) /\ failed' = "leak"
        F5 == /\ st.ok /\ free' = st.free /\ ifree' = IfreeWith(a.chunk) \ {a.ino}
              /\ inode' = [WithChunk(a.chunk) EXCEPT ![a.ino] =
                               NewInode(x.kind, x.nlink, st.data, st.bmbt, x.body)]
              /\ held' = Written(st.wrote, a.ino, x.body)
              /\ dirty' = dirty \cup ({AgOfIno(a.ino)} \cup st.touched) /\ failed' = "leak"
  <2>1. F1 \/ (\E f \in x.fails : F2(f)) \/ F4 \/ F5
    BY <1>1, <1>9, <1>12 DEF CreateFails, Lost
  <2>2. CASE F1
    <3>1. PICK g : g = "garbage" /\ g \in Idle
      BY DEF Idle
    <3>2. inode' = WithInodes(a.chunk, NewInode(g, 0, {}, {}, "none"))
      BY <2>2, <3>1
    <3>3. PICK B : B = {}
      OBVIOUS
    <3>4. B \subseteq Blocks /\ AgsOf(B) \subseteq dirty' /\ free' = (free \ a.chunk) \ B
      BY <1>6, <2>2, <3>3
    <3>5. dirty' \subseteq Ags /\ dirty \cup {AgOfIno(a.ino)} \subseteq dirty'
      BY <1>3, <1>6, <2>2
    <3> QED
      BY <1>1, <1>11, <2>2, <3>1, <3>2, <3>4, <3>5
  <2>3. ASSUME NEW f \in x.fails, F2(f)
        PROVE  Effect(a.ino, a.chunk) /\ Moves(a.ino, a.chunk) /\ Marks(a.chunk)
    <3>1. PICK B, W : B = f.lost /\ W = f.wrote
      OBVIOUS
    <3>2. B \cup W \subseteq free \ a.chunk /\ B \cup W \subseteq Blocks
      BY <1>1, <1>3, <2>3, <3>1 DEF NodeOK, LosesFree
    <3>3. AgsOf(B \cup W) \subseteq Ags /\ AgsOf(B) \subseteq AgsOf(B \cup W)
      BY <3>2, GroupsOf DEF AgsOf
    <3>4. dirty' = dirty \cup {AgOfIno(a.ino)} \cup AgsOf(B \cup W) /\ free' = (free \ a.chunk) \ B
      BY <2>3, <3>1
    <3>5. /\ dirty' \subseteq Ags /\ dirty \cup {AgOfIno(a.ino)} \subseteq dirty'
          /\ B \subseteq Blocks /\ AgsOf(B) \subseteq dirty'
      BY <1>3, <1>6, <3>2, <3>3, <3>4
    <3>6. \E w, i, c : w \subseteq free /\ held' = Written(w, i, c)
      BY <2>3, <3>1, <3>2
    <3>7. failed' = "leak" \/ (failed' = failed /\ free' = free \ a.chunk)
      BY <2>3
    <3>8. ifree' \in {IfreeWith(a.chunk), IfreeWith(a.chunk) \ {a.ino}}
      BY <2>3
    <3>9. inode' = WithInodes(a.chunk, NewInode(k, 0, {}, {}, "none"))
      BY <1>8, <2>3
    <3> QED
      BY <1>9, <1>11, <3>4, <3>5, <3>6, <3>7, <3>8, <3>9
  <2>5. CASE F4
    <3>1. PICK B : B = st.data \cup st.bmbt
      OBVIOUS
    <3>2. B \subseteq Blocks /\ AgsOf(B) \subseteq dirty' /\ free' = (free \ a.chunk) \ B
      BY <1>3, <1>4, <2>5, <3>1
    <3>3. dirty' \subseteq Ags /\ dirty \cup {AgOfIno(a.ino)} \subseteq dirty'
      BY <1>3, <1>4, <1>6, <2>5
    <3>4. \E w, i, c : w \subseteq free /\ held' = Written(w, i, c)
      BY <1>4, <2>5
    <3> QED
      BY <1>1, <1>8, <1>9, <1>11, <2>5, <3>2, <3>3, <3>4
  <2>6. CASE F5
    <3>1. Effect(a.ino, a.chunk) /\ Moves(a.ino, a.chunk)
      <4>1. dirty' \subseteq Ags /\ ifree' \subseteq IfreeWith(x.at.chunk) /\ x.st.ok
        BY <1>1, <1>3, <1>4, <1>6, <2>6
      <4>2. chunks' = chunks \cup x.at.chunk /\ free' = x.st.free /\ (failed' = "no" => failed = "no")
        BY <1>1, <1>5, <2>6
      <4>3. held' = Written(x.st.wrote, x.at.ino, x.body)
        BY <1>1, <2>6
      <4>4. inode' = [WithChunk(x.at.chunk) EXCEPT ![x.at.ino] =
                         NewInode(x.kind, x.nlink, x.st.data, x.st.bmbt, x.body)]
        BY <1>1, <2>6
      <4> QED
        BY <1>1, <4>1, <4>2, <4>3, <4>4, MadeEffect
    <3>2. Marks(a.chunk)
      <4>1. PICK B : B = st.data \cup st.bmbt
        OBVIOUS
      <4>2. B \subseteq Blocks /\ AgsOf(B) \subseteq dirty' /\ free' = (free \ a.chunk) \ B
        BY <1>3, <1>4, <2>6, <4>1
      <4>3. dirty \cup {AgOfIno(a.ino)} \subseteq dirty' /\ ifree' = IfreeWith(a.chunk) \ {a.ino}
        BY <2>6
      <4> QED
        BY <1>2, <4>2, <4>3, NodeMarks
    <3> QED
      BY <1>1, <3>1, <3>2
  <2> QED
    BY <1>1, <2>1, <2>2, <2>3, <2>5, <2>6
<1> QED
  BY <1>10, <1>12

-----------------------------------------------------------------------------
(* Those on an inode in use.                                               *)

(* An inode in use is there.                                               *)
LEMMA UsedIs ==
    ASSUME Ready, NEW i \in InUse
    PROVE  /\ i \in DOMAIN inode /\ InodeOK(inode[i], DOMAIN inode) /\ Shape(inode[i])
           /\ Owned(i) = Forks(inode[i]) /\ Parted(inode[i]) /\ Forks(inode[i]) \subseteq Blocks
           /\ Forks(inode[i]) \cap free = {}
           /\ inode[i].kind \in Kinds \ Idle /\ inode[i].nlink \in Nat
           /\ \A b \in inode[i].data : held[b] = <<i, inode[i].body>>
<1>1. i \in DOMAIN inode /\ inode[i].kind \notin Idle
  BY DEF InUse, UsedIn, Idle
<1>2. InodeOK(inode[i], DOMAIN inode)
  BY <1>1 DEF Ready, InodesOK
<1>3. Shape(inode[i]) /\ Forks(inode[i]) \subseteq Blocks /\ inode[i].kind \in Kinds /\ inode[i].nlink \in Nat
  BY <1>2 DEF InodeOK, Shape
<1>4. Parted(inode[i]) /\ (free \cup chunks) \cap Forks(inode[i]) = {}
  BY OwnerIs DEF Ready, InUse
<1> QED
  BY <1>1, <1>2, <1>3, <1>4 DEF Owned, Ready, Stored

(* Nothing of it is moved.                                                 *)
LEMMA UnmovedEffect ==
    ASSUME Ready, NEW i \in InUse, NEW r, Around(i, {}), inode'[i] = r,
           Shape(r), r.kind = inode[i].kind, r.nlink \in Nat, r.data = inode[i].data, r.bmbt = inode[i].bmbt,
           r.attr = inode[i].attr, r.body = inode[i].body,
           ifree' = ifree, dirty' \subseteq Ags, free' \subseteq free,
           failed' = "no" => failed = "no" /\ free' = free,
           DOMAIN held' = Blocks, \A b \in Blocks \ free : held'[b] = held[b]
    PROVE  Effect(i, {}) /\ Moves(i, {}) /\ i \in InUse'
<1>1. /\ i \in DOMAIN inode /\ InodeOK(inode[i], DOMAIN inode) /\ Owned(i) = Forks(inode[i])
      /\ Parted(inode[i]) /\ Forks(inode[i]) \subseteq Blocks /\ Forks(inode[i]) \cap free = {}
      /\ inode[i].kind \in Kinds \ Idle
      /\ \A b \in inode[i].data : held[b] = <<i, inode[i].body>>
  BY UsedIs
<1>2. DOMAIN inode' = DOMAIN inode
  BY DEF Around
<1>3. Forks(r) = Forks(inode[i]) /\ Parted(r)
  BY <1>1 DEF Forks, Parted
<1>4. InodeOK(r, DOMAIN inode')
  <2>1. r.kind = "dir" => ListOK(r.body, DOMAIN inode')
    BY <1>1, <1>2 DEF InodeOK
  <2> QED
    BY <1>1, <1>3, <2>1 DEF InodeOK, Shape
<1>5. i \in InUse' /\ Owned(i)' = Forks(r)
  BY <1>1, <1>2 DEF InUse, UsedIn, Idle, Owned
<1>6. Effect(i, {})
  <2>1. ifree' \subseteq DOMAIN inode' /\ free' \subseteq Blocks
    BY <1>2 DEF Ready, GroupsOK
  <2> QED
    BY <1>4, <2>1 DEF Effect
<1>7. Moves(i, {})
  <2>1. \A b \in Blocks \ (free \cup Owned(i)) : held'[b] = held[b]
    OBVIOUS
  <2>2. \A b \in r.data : held'[b] = <<i, r.body>>
    BY <1>1 DEF Forks
  <2>3. /\ Owned(i)' \subseteq (free \ {}) \cup Owned(i)
        /\ free' \subseteq ((free \ {}) \cup Owned(i)) \ Owned(i)'
    BY <1>1, <1>3, <1>5
  <2>4. failed' = "no" => failed = "no" /\ free' = ((free \ {}) \cup Owned(i)) \ Owned(i)'
    BY <1>1, <1>3, <1>5
  <2> QED
    BY <1>3, <1>5, <2>1, <2>2, <2>3, <2>4 DEF Moves
<1> QED
  BY <1>5, <1>6, <1>7

(* It gets other contents, its old blocks are given back.                  *)
LEMMA RewriteEffect ==
    ASSUME Ready, NEW i \in InUse, NEW r, Around(i, {}), inode'[i] = r,
           Shape(r), r.kind = inode[i].kind, r.nlink \in Nat, r.attr = inode[i].attr,
           r.kind = "dir" => ListOK(r.body, DOMAIN inode),
           r.data \cup r.bmbt \subseteq free \cup inode[i].data \cup inode[i].bmbt, r.data \cap r.bmbt = {},
           free' = (free \cup inode[i].data \cup inode[i].bmbt) \ (r.data \cup r.bmbt),
           held' = Written(r.data, i, r.body),
           ifree' = ifree, dirty' \subseteq Ags, failed' = failed
    PROVE  Effect(i, {}) /\ Moves(i, {}) /\ i \in InUse'
<1>1. /\ i \in DOMAIN inode /\ InodeOK(inode[i], DOMAIN inode) /\ Owned(i) = Forks(inode[i])
      /\ Parted(inode[i]) /\ Forks(inode[i]) \subseteq Blocks /\ Forks(inode[i]) \cap free = {}
      /\ inode[i].kind \in Kinds \ Idle
  BY UsedIs
<1>2. DOMAIN inode' = DOMAIN inode /\ free \subseteq Blocks
  BY DEF Around, Ready, GroupsOK
<1>3. PICK D, B, A, D0, B0 : /\ D = r.data /\ B = r.bmbt /\ A = r.attr
                             /\ D0 = inode[i].data /\ B0 = inode[i].bmbt
  OBVIOUS
<1>4. Owned(i) = D0 \cup B0 \cup A /\ Forks(r) = D \cup B \cup A
  BY <1>1, <1>3 DEF Forks
<1>5. (D0 \cup B0) \cap A = {} /\ (D0 \cup B0 \cup A) \cap free = {} /\ D0 \cup B0 \cup A \subseteq Blocks
  BY <1>1, <1>3, <1>4 DEF Parted
<1>6. /\ D \cup B \subseteq free \cup D0 \cup B0 /\ D \cap B = {}
      /\ free' = (free \cup D0 \cup B0) \ (D \cup B)
  BY <1>3
<1>7. i \in InUse' /\ Owned(i)' = D \cup B \cup A
  BY <1>1, <1>2, <1>4 DEF InUse, UsedIn, Idle, Owned
<1>8. DOMAIN held' = Blocks /\ \A b \in Blocks : held'[b] = IF b \in D THEN <<i, r.body>> ELSE held[b]
  <2>1. PICK h, c : h = Written(D, i, c) /\ h = held' /\ c = r.body
    BY <1>3
  <2>2. DOMAIN h = Blocks /\ \A b \in Blocks : h[b] = IF b \in D THEN <<i, c>> ELSE held[b]
    <3>1. h = [b \in Blocks |-> IF b \in D THEN <<i, c>> ELSE held[b]]
      BY <2>1 DEF Written
    <3> QED
      BY <3>1
  <2> QED
    BY <2>1, <2>2
<1>9. Effect(i, {})
  <2>1. InodeOK(r, DOMAIN inode')
    BY <1>1, <1>2, <1>4, <1>5, <1>6 DEF InodeOK, Shape
  <2>2. ifree' \subseteq DOMAIN inode'
    BY <1>2 DEF Ready, GroupsOK
  <2>3. free' \subseteq Blocks
    BY <1>2, <1>5, <1>6
  <2> QED
    BY <1>8, <2>1, <2>2, <2>3 DEF Effect
<1>10. Moves(i, {})
  <2>1. \A b \in Blocks \ (free \cup Owned(i)) : held'[b] = held[b]
    BY <1>4, <1>6, <1>8
  <2>2. \A b \in r.data : held'[b] = <<i, r.body>>
    BY <1>2, <1>3, <1>5, <1>6, <1>8
  <2>3. Parted(r)
    BY <1>3, <1>5, <1>6 DEF Parted
  <2>4. /\ Owned(i)' \subseteq (free \ {}) \cup Owned(i)
        /\ free' = ((free \ {}) \cup Owned(i)) \ Owned(i)'
    BY <1>4, <1>5, <1>6, <1>7
  <2> QED
    BY <1>7, <2>1, <2>2, <2>3, <2>4 DEF Moves
<1> QED
  BY <1>7, <1>9, <1>10

(* It goes.                                                                *)
LEMMA DestroyEffect ==
    ASSUME Ready, NEW i \in InUse, destroy(i), held' = held, chunks' = chunks, failed' = failed \/ failed' = "yes"
    PROVE  /\ Effect(i, {}) /\ Moves(i, {}) /\ Marks({})
           /\ InUse' = InUse \ {i} /\ ifree' = ifree \cup {i} /\ \A j \in DOMAIN inode \ {i} : inode'[j] = inode[j]
<1>1. /\ i \in DOMAIN inode /\ Owned(i) = Forks(inode[i]) /\ Forks(inode[i]) \subseteq Blocks
  BY UsedIs
<1>2. PICK r : r = FreeInode
  OBVIOUS
<1>3. r.kind = "free" /\ InodeOK(r, {})
  BY <1>2, ChunkInodesOK DEF FreeInode, Idle
<1>4. Around(i, {}) /\ inode'[i] = r
  BY <1>1, <1>2, AroundOne DEF destroy
<1>5. DOMAIN inode' = DOMAIN inode
  BY <1>4 DEF Around
<1>6. i \notin InUse' /\ Owned(i)' = {}
  BY <1>3, <1>4 DEF InUse, UsedIn, Owned
<1>7. /\ free' = free \cup Owned(i) /\ ifree' = ifree \cup {i}
      /\ dirty' = dirty \cup AgsOf(Owned(i)) \cup {AgOfIno(i)}
  BY <1>1 DEF destroy
<1>8. AgOfIno(i) \in Ags /\ AgsOf(Owned(i)) \subseteq Ags /\ \A b \in Owned(i) : AgOf(b) \in AgsOf(Owned(i))
  BY <1>1, InodesIn, GroupsOf DEF Ready
<1>9. Effect(i, {})
  <2>1. InodeOK(r, DOMAIN inode')
    BY <1>3, MoreInodes
  <2>2. free \subseteq Blocks /\ ifree \subseteq DOMAIN inode /\ dirty \subseteq Ags /\ DOMAIN held' = Blocks
    BY DEF Ready, GroupsOK
  <2>3. free' \subseteq Blocks /\ ifree' \subseteq DOMAIN inode' /\ dirty' \subseteq Ags
    BY <1>1, <1>5, <1>7, <1>8, <2>2
  <2> QED
    BY <1>4, <2>1, <2>2, <2>3 DEF Effect
<1>10. Moves(i, {})
  <2>1. free' = ((free \ {}) \cup Owned(i)) \ Owned(i)'
    BY <1>6, <1>7
  <2>2. failed' = "no" => failed = "no"
    OBVIOUS
  <2> QED
    BY <1>6, <2>1, <2>2 DEF Moves
<1>11. Marks({})
  BY <1>7, <1>8 DEF Marks
<1>12. InUse' = InUse \ {i}
  BY <1>4, <1>6, InUseAfter
<1> QED
  BY <1>4, <1>7, <1>9, <1>10, <1>11, <1>12 DEF Around

(* The groups of its blocks are marked.                                    *)
LEMMA BlocksMark ==
    ASSUME NEW B, B \subseteq Blocks, AgsOf(B) \subseteq dirty', dirty \subseteq dirty',
           (free' \ free) \cup (free \ free') \subseteq B, ifree' = ifree
    PROVE  Marks({})
BY GroupsOf DEF Marks

(* What a call leaves that costs no more than space.                       *)
Keeps(i) == Effect(i, {}) /\ (failed' # "yes" => Moves(i, {}) /\ Marks({}))

(* `write_file` of a file that is there, and how it can fail.              *)
LEMMA ReplaceKeeps ==
    ASSUME Ready, failed # "yes", NEW d, NEW n, NEW c \in Contents, NEW nb \in BmbtSizes, NEW p,
           NEW i \in InUse, i = View(d)[n].ino, inode[i].kind = "file",
           Replace(d, n, c, nb, p) \/ ReplaceFails(d, n, c, nb)
    PROVE  Keeps(i)
<1>1. PICK r, st : r = inode[i] /\ st = store_data(free, i, Size[c], nb)
  OBVIOUS
<1>2. /\ i \in DOMAIN inode /\ Shape(r) /\ Owned(i) = Forks(r) /\ Parted(r) /\ Forks(r) \subseteq Blocks
      /\ Forks(r) \cap free = {} /\ r.nlink \in Nat
  BY <1>1, UsedIs
<1>3. free \subseteq Blocks /\ dirty \subseteq Ags /\ DOMAIN held = Blocks
  BY DEF Ready, GroupsOK
<1>4. Gives(st, free)
  <2>1. nb \in Nat /\ Size[c] \in Nat
    BY WriterAssumption
  <2> QED
    BY <1>1, <1>3, <2>1, StoreGives
<1>5. /\ st.ok \in BOOLEAN /\ st.data \cup st.bmbt \cup st.wrote \subseteq free
      /\ st.ok => st.data \cap st.bmbt = {} /\ st.wrote = st.data
      /\ st.free = IF st.ok THEN free \ (st.data \cup st.bmbt) ELSE free
      /\ st.touched \subseteq Ags /\ (st.ok => AgsOf(st.data \cup st.bmbt) \subseteq st.touched)
  BY <1>4 DEF Gives
<1>6. r.data \cup r.bmbt \subseteq Blocks /\ (r.data \cup r.bmbt) \cap free = {}
  BY <1>2 DEF Forks
<1>7. AgsOf(r.data \cup r.bmbt) \subseteq Ags /\ AgsOf(st.data) \subseteq Ags /\ AgsOf({}) = {}
  BY <1>3, <1>5, <1>6, GroupsOf DEF AgsOf
<1>8. chunks' = chunks /\ ifree' = ifree
  BY DEF Replace, ReplaceFails
<1>9. ASSUME NEW B, B \subseteq Blocks, AgsOf(B) \subseteq dirty', dirty \subseteq dirty', dirty' \subseteq Ags,
             inode' = inode, free' = free \ B,
             failed' = "leak" \/ (failed' = failed /\ free' = free),
             NEW w, w \subseteq free, NEW y, NEW z, held' = Written(w, y, z)
      PROVE  Keeps(i)
  <2>1. Around(i, {}) /\ inode'[i] = r
    BY <1>1, <1>2, <1>8, <1>9, AroundNone
  <2>2. DOMAIN held' = Blocks /\ \A b \in Blocks \ free : held'[b] = held[b]
    BY <1>9, WrittenFree
  <2>3. /\ r.kind = inode[i].kind /\ r.data = inode[i].data /\ r.bmbt = inode[i].bmbt
        /\ r.attr = inode[i].attr /\ r.body = inode[i].body
    BY <1>1
  <2>4. free' \subseteq free /\ (failed' = "no" => failed = "no" /\ free' = free)
    BY <1>9
  <2>5. Effect(i, {}) /\ Moves(i, {})
    BY <1>2, <1>8, <1>9, <2>1, <2>2, <2>3, <2>4, UnmovedEffect
  <2>6. Marks({})
    <3>1. (free' \ free) \cup (free \ free') \subseteq B
      BY <1>9
    <3> QED
      BY <1>8, <1>9, <3>1, BlocksMark
  <2> QED
    BY <2>5, <2>6 DEF Keeps
<1>10. PICK N : N = {}
  OBVIOUS
<1>11. N \subseteq Blocks /\ AgsOf(N) \subseteq dirty' /\ free = free \ N
  BY <1>7, <1>10
<1>12. CASE Replace(d, n, c, nb, p)
  <2>1. held' = Written(st.wrote, i, c) /\ failed' = failed
    BY <1>1, <1>12 DEF Replace, Call
  <2>2. CASE st.ok
    <3>1. /\ free' = st.free \cup r.data \cup r.bmbt
          /\ dirty' = dirty \cup st.touched \cup AgsOf(r.data \cup r.bmbt)
      BY <1>1, <1>12, <2>2 DEF Replace
    <3>6. PICK D, B, D0, B0 : D = st.data /\ B = st.bmbt /\ D0 = r.data /\ B0 = r.bmbt
      OBVIOUS
    <3>2. PICK s : s = Rewrite(r, D, B, c, p)
      OBVIOUS
    <3>3. inode' = [inode EXCEPT ![i] = s]
      BY <1>1, <1>12, <2>2, <3>2, <3>6 DEF Replace, Rewrite
    <3>4. /\ Shape(s) /\ s.kind = r.kind /\ s.nlink = r.nlink /\ s.data = st.data /\ s.bmbt = st.bmbt
          /\ s.attr = r.attr /\ s.body = c
      <4>1. Shape(r)
        BY <1>2
      <4>2. /\ Shape(s) /\ s.kind = r.kind /\ s.nlink = r.nlink /\ s.data = D /\ s.bmbt = B
            /\ s.attr = r.attr /\ s.body = c
        BY <3>2, <4>1, Rewritten
      <4> QED
        BY <3>6, <4>2
    <3>5. Around(i, {}) /\ inode'[i] = s
      BY <1>2, <1>8, <3>3, AroundOne
    <3>7. /\ D \cup B \subseteq free \cup D0 \cup B0 /\ D \cap B = {}
          /\ free' = (free \cup D0 \cup B0) \ (D \cup B)
      BY <1>5, <1>6, <2>2, <3>1, <3>6
    <3>8. /\ s.data \cup s.bmbt \subseteq free \cup inode[i].data \cup inode[i].bmbt /\ s.data \cap s.bmbt = {}
          /\ free' = (free \cup inode[i].data \cup inode[i].bmbt) \ (s.data \cup s.bmbt)
      BY <1>1, <3>4, <3>6, <3>7
    <3>9. s.kind = inode[i].kind /\ s.attr = inode[i].attr /\ s.nlink \in Nat /\ s.kind # "dir"
      BY <1>1, <1>2, <3>4
    <3>10. held' = Written(s.data, i, s.body)
      BY <1>5, <2>1, <2>2, <3>4
    <3>11. dirty' \subseteq Ags
      BY <1>3, <1>5, <1>7, <3>1
    <3>12. Effect(i, {}) /\ Moves(i, {})
      BY <1>8, <2>1, <3>4, <3>5, <3>8, <3>9, <3>10, <3>11, RewriteEffect
    <3>13. PICK B2 : B2 = D \cup B \cup D0 \cup B0
      OBVIOUS
    <3>14. B2 \subseteq Blocks /\ (free' \ free) \cup (free \ free') \subseteq B2
      BY <1>3, <1>5, <1>6, <3>6, <3>7, <3>13
    <3>15. AgsOf(B2) \subseteq dirty'
      BY <1>5, <2>2, <3>1, <3>6, <3>13 DEF AgsOf
    <3>16. Marks({})
      BY <1>8, <3>1, <3>14, <3>15, BlocksMark
    <3> QED
      BY <3>12, <3>16 DEF Keeps
  <2>3. CASE ~ st.ok
    <3>1. free' = free /\ inode' = inode /\ dirty' = dirty \cup st.touched
      BY <1>1, <1>12, <2>3 DEF Replace
    <3>2. dirty' \subseteq Ags /\ st.wrote \subseteq free
      BY <1>3, <1>5, <3>1
    <3> QED
      BY <1>9, <1>11, <2>1, <3>1, <3>2
  <2> QED
    BY <1>5, <2>2, <2>3
<1>13. CASE ReplaceFails(d, n, c, nb)
  <2> DEFINE
        F1(f) == /\ free' = free \ f.lost /\ held' = Written(f.wrote, i, f.body)
                 /\ dirty' = dirty \cup AgsOf(f.lost \cup f.wrote)
                 /\ failed' = IF f.lost = {} THEN failed ELSE "leak"
        F3(S) == /\ st.ok /\ free' = st.free \cup S /\ held' = Written(st.wrote, i, c)
                 /\ dirty' = dirty \cup st.touched \cup AgsOf(S)
                 /\ failed' = IF S = {} THEN "leak" ELSE "yes"
        F4 == /\ st.ok /\ free' = st.free \cup r.data \cup r.bmbt /\ held' = Written(st.wrote, i, c)
              /\ dirty' = dirty \cup st.touched \cup AgsOf(r.data \cup r.bmbt) /\ failed' = "yes"
  <2>1. /\ inode' = inode
        /\ \/ \E f \in store_data_fails(free, dirty, i, c, nb) : F1(f)
           \/ \E S \in SUBSET (r.data \cup r.bmbt) : F3(S)
           \/ F4
    <3>1. PICK R : R = dirty \cup Visited(free, AgOfIno(i), Size[c] + nb)
      OBVIOUS
    <3>2. \A S \in PartFreed(r.data, r.bmbt, R) \cup {bs \in {{}} : r.bmbt # {}} : S \subseteq r.data \cup r.bmbt
      BY PartFreedOf
    <3>3. /\ inode' = inode
          /\ \/ \E f \in store_data_fails(free, dirty, i, c, nb) : F1(f)
             \/ \E S \in PartFreed(r.data, r.bmbt, R) \cup {bs \in {{}} : r.bmbt # {}} : F3(S)
             \/ F4
      BY <1>1, <1>13, <3>1 DEF ReplaceFails
    <3> HIDE DEF F1, F3, F4
    <3> QED
      BY <3>2, <3>3
  <2>2. st.wrote \subseteq free
    BY <1>5
  <2>3. ASSUME NEW f \in store_data_fails(free, dirty, i, c, nb), F1(f)
        PROVE  Keeps(i)
    <3>1. nb \in Nat
      BY WriterAssumption
    <3>2. LosesFree(f, free)
      BY <1>3, <2>3, <3>1, StoreLoses
    <3>3. PICK B, W : B = f.lost /\ W = f.wrote
      OBVIOUS
    <3>4. B \subseteq free /\ W \subseteq free /\ B \cup W \subseteq Blocks
      BY <1>3, <3>2, <3>3 DEF LosesFree
    <3>5. AgsOf(B \cup W) \subseteq Ags /\ AgsOf(B) \subseteq AgsOf(B \cup W)
      BY <3>4, GroupsOf DEF AgsOf
    <3>6. /\ dirty' = dirty \cup AgsOf(B \cup W) /\ free' = free \ B /\ held' = Written(W, i, f.body)
          /\ failed' = "leak" \/ (failed' = failed /\ free' = free)
      BY <2>3, <3>3
    <3>7. B \subseteq Blocks /\ AgsOf(B) \subseteq dirty' /\ dirty \subseteq dirty' /\ dirty' \subseteq Ags
      BY <1>3, <3>4, <3>5, <3>6
    <3> QED
      BY <1>9, <2>1, <3>4, <3>6, <3>7
  <2>4. ASSUME NEW S \in SUBSET (r.data \cup r.bmbt), F3(S)
        PROVE  Keeps(i)
    <3>1. CASE S = {}
      <4>1. PICK B : B = st.data \cup st.bmbt
        OBVIOUS
      <4>2. dirty' \subseteq Ags /\ B \subseteq Blocks /\ AgsOf(B) \subseteq dirty' /\ free' = free \ B
        BY <1>3, <1>5, <1>7, <2>4, <3>1, <4>1
      <4>3. dirty \subseteq dirty' /\ failed' = "leak" /\ held' = Written(st.wrote, i, c)
        BY <2>4, <3>1
      <4> QED
        BY <1>9, <2>1, <2>2, <4>2, <4>3
    <3>2. CASE S # {}
      <4>1. S \subseteq Blocks /\ AgsOf(S) \subseteq Ags
        BY <1>6, GroupsOf
      <4>2. free' \subseteq Blocks /\ dirty' \subseteq Ags /\ failed' = "yes"
        BY <1>3, <1>5, <2>4, <3>2, <4>1
      <4>3. DOMAIN held' = Blocks
        BY <2>2, <2>4, WrittenFree
      <4>4. Around(i, {}) /\ inode'[i] = r
        BY <1>1, <1>2, <1>8, <2>1, AroundNone
      <4>5. ifree' \subseteq DOMAIN inode' /\ InodeOK(r, DOMAIN inode')
        BY <1>1, <1>8, <2>1, UsedIs DEF Ready, GroupsOK
      <4> QED
        BY <4>2, <4>3, <4>4, <4>5 DEF Keeps, Effect
    <3> QED
      BY <3>1, <3>2
  <2>6. CASE F4
    <3>1. Around(i, {}) /\ inode'[i] = r
      BY <1>1, <1>2, <1>8, <2>1, AroundNone
    <3>2. DOMAIN held' = Blocks
      BY <2>2, <2>6, WrittenFree
    <3>3. free' \subseteq Blocks /\ dirty' \subseteq Ags
      BY <1>3, <1>5, <1>6, <1>7, <2>6
    <3>4. ifree' \subseteq DOMAIN inode' /\ InodeOK(r, DOMAIN inode')
      BY <1>1, <1>8, <2>1, UsedIs DEF Ready, GroupsOK
    <3> QED
      BY <2>6, <3>1, <3>2, <3>3, <3>4 DEF Keeps, Effect
  <2> QED
    BY <2>1, <2>3, <2>4, <2>6
<1> QED
  BY <1>12, <1>13

(* Only its links, its mode or its owner change.                           *)
LEMMA MarkKeeps ==
    ASSUME Ready, NEW i \in InUse, NEW l \in Nat, NEW p,
           inode' = [inode EXCEPT ![i] = WithLinks(inode[i], l)]
              \/ inode' = [inode EXCEPT ![i] = WithPerms(inode[i], p)],
           UNCHANGED <<held, agVars>>, failed' = "no" => failed = "no"
    PROVE  /\ Keeps(i) /\ i \in InUse' /\ inode'[i].kind = inode[i].kind /\ inode'[i].body = inode[i].body
           /\ inode' = [inode EXCEPT ![i] = WithLinks(inode[i], l)] => inode'[i].nlink = l
           /\ inode' # [inode EXCEPT ![i] = WithLinks(inode[i], l)] => inode'[i].nlink = inode[i].nlink
<1>1. i \in DOMAIN inode /\ Shape(inode[i]) /\ inode[i].nlink \in Nat
  BY UsedIs
<1>2. /\ free' = free /\ chunks' = chunks /\ ifree' = ifree /\ dirty' = dirty /\ held' = held
      /\ dirty' \subseteq Ags /\ DOMAIN held' = Blocks
  BY DEF agVars, Ready
<1>3. PICK r : r = inode[i]
  OBVIOUS
<1>4. PICK s : /\ s = WithLinks(r, l) \/ s = WithPerms(r, p)
               /\ inode' = [inode EXCEPT ![i] = s]
               /\ inode' = [inode EXCEPT ![i] = WithLinks(inode[i], l)] => s = WithLinks(r, l)
               /\ inode' # [inode EXCEPT ![i] = WithLinks(inode[i], l)] => s # WithLinks(r, l)
  <2>1. CASE inode' = [inode EXCEPT ![i] = WithLinks(inode[i], l)]
    BY <1>3, <2>1
  <2>2. CASE inode' # [inode EXCEPT ![i] = WithLinks(inode[i], l)]
    BY <1>3, <2>2
  <2> QED
    BY <2>1, <2>2
<1>5. Around(i, {}) /\ inode'[i] = s
  BY <1>1, <1>2, <1>4, AroundOne
<1>6. /\ Shape(s) /\ s.kind = r.kind /\ s.data = r.data /\ s.bmbt = r.bmbt
      /\ s.attr = r.attr /\ s.body = r.body /\ s.nlink = IF s = WithLinks(r, l) THEN l ELSE r.nlink
  <2>1. Shape(r)
    BY <1>1, <1>3
  <2> QED
    BY <1>4, <2>1, Marked
<1>7. s.nlink \in Nat
  BY <1>1, <1>3, <1>6
<1>8. failed' = "no" => failed = "no"
  OBVIOUS
<1>9. Effect(i, {}) /\ Moves(i, {}) /\ i \in InUse'
  BY <1>2, <1>3, <1>5, <1>6, <1>7, <1>8, UnmovedEffect
<1>10. Marks({})
  BY <1>2 DEF Marks
<1> QED
  BY <1>3, <1>4, <1>5, <1>6, <1>9, <1>10 DEF Keeps

(* `link`, `chmod` and `unlink` of one name of several change a field.     *)
LEMMA FieldIs ==
    ASSUME NEW i, NEW p
    PROVE  /\ [inode EXCEPT ![i].nlink = @ + 1] = [inode EXCEPT ![i] = WithLinks(inode[i], inode[i].nlink + 1)]
           /\ [inode EXCEPT ![i].nlink = @ - 1] = [inode EXCEPT ![i] = WithLinks(inode[i], inode[i].nlink - 1)]
           /\ [inode EXCEPT ![i].perms = p] = [inode EXCEPT ![i] = WithPerms(inode[i], p)]
BY DEF WithLinks, WithPerms

(* Something is removed, and the device fails half way.                    *)
LEMMA RemoveFailsKeeps ==
    ASSUME Ready, NEW d, NEW n, NEW i \in InUse, i = View(d)[n].ino, RemoveFails(d, n)
    PROVE  Keeps(i) /\ failed' = "yes"
<1>1. held' = held /\ chunks' = chunks /\ failed' = "yes"
  BY DEF RemoveFails
<1>2. PICK r : r = inode[i]
  OBVIOUS
<1>3. /\ i \in DOMAIN inode /\ InodeOK(r, DOMAIN inode) /\ r.nlink \in Nat
      /\ Forks(r) \subseteq Blocks /\ AgsOf(Forks(r)) \subseteq Ags
  BY <1>2, UsedIs, GroupsOf
<1>4. free \subseteq Blocks /\ dirty \subseteq Ags /\ DOMAIN held = Blocks /\ ifree \subseteq DOMAIN inode
  BY DEF Ready, GroupsOK
<1> DEFINE
      F1(bs) == free' = free \cup bs /\ dirty' = dirty \cup AgsOf(bs) /\ inode' = inode /\ ifree' = ifree
      F2 == /\ free' = free \cup Forks(r) /\ dirty' = dirty \cup AgsOf(Forks(r))
            /\ inode' = [inode EXCEPT ![i] = FreeInode] /\ ifree' = ifree
      F4 == /\ r.nlink > 1 /\ inode' = [inode EXCEPT ![i].nlink = @ - 1]
            /\ free' = free /\ ifree' = ifree /\ dirty' = dirty
<1>5. (\E bs \in SUBSET Forks(r) : F1(bs)) \/ F2 \/ destroy(i) \/ F4
  <2>1. PICK m, R1, R2 : m = r.data \cup r.bmbt /\ R1 = dirty /\ R2 = dirty \cup AgsOf(m)
    OBVIOUS
  <2>2. PICK freed : freed = PartFreed(r.data, r.bmbt, R1) \cup {m, Forks(r)}
                             \cup {m \cup S : S \in PartFreed(r.attr, {}, R2)}
    OBVIOUS
  <2>3. \A bs \in freed : bs \subseteq Forks(r)
    <3>1. \A S \in PartFreed(r.data, r.bmbt, R1) : S \subseteq m
      BY <2>1, PartFreedOf
    <3>2. \A S \in PartFreed(r.attr, {}, R2) : S \subseteq r.attr
      BY PartFreedOf
    <3>3. Forks(r) = m \cup r.attr
      BY <2>1 DEF Forks
    <3>4. SUFFICES ASSUME NEW bs \in freed PROVE bs \subseteq m \cup r.attr
      BY <3>3
    <3>5. CASE bs \in PartFreed(r.data, r.bmbt, R1)
      BY <3>1, <3>5
    <3>6. CASE bs \in {m, Forks(r)}
      BY <3>3, <3>6
    <3>7. CASE bs \in {m \cup S : S \in PartFreed(r.attr, {}, R2)}
      BY <3>2, <3>7
    <3> QED
      BY <2>2, <3>5, <3>6, <3>7
  <2>4. \/ \E bs \in freed : F1(bs)
        \/ F2 \/ destroy(i)
        \/ /\ ~ (r.nlink <= 1) /\ inode' = [inode EXCEPT ![i].nlink = @ - 1]
           /\ free' = free /\ ifree' = ifree /\ dirty' = dirty
    BY <1>2, <2>1, <2>2 DEF RemoveFails
  <2>5. ~ (r.nlink <= 1) => r.nlink > 1
    BY <1>3
  <2> HIDE DEF F1, F2
  <2> QED
    BY <2>3, <2>4, <2>5
<1>6. ASSUME NEW bs \in SUBSET Forks(r), F1(bs)
      PROVE  Keeps(i)
  <2>1. bs \subseteq Blocks /\ AgsOf(bs) \subseteq Ags
    BY <1>3, GroupsOf
  <2>2. Around(i, {}) /\ inode'[i] = r
    BY <1>1, <1>2, <1>3, <1>6, AroundNone
  <2>3. free' \subseteq Blocks /\ dirty' \subseteq Ags /\ DOMAIN held' = Blocks /\ ifree' \subseteq DOMAIN inode'
    BY <1>1, <1>4, <1>6, <2>1
  <2>4. InodeOK(inode'[i], DOMAIN inode')
    BY <1>3, <1>6, <2>2
  <2> QED
    BY <1>1, <2>2, <2>3, <2>4 DEF Keeps, Effect
<1>7. CASE F2
  <2>1. PICK q : q = FreeInode
    OBVIOUS
  <2>2. InodeOK(q, {})
    BY <2>1, ChunkInodesOK DEF FreeInode, Idle
  <2>3. Around(i, {}) /\ inode'[i] = q
    BY <1>1, <1>3, <1>7, <2>1, AroundOne
  <2>4. InodeOK(q, DOMAIN inode')
    BY <2>2, MoreInodes
  <2>5. DOMAIN inode' = DOMAIN inode
    BY <2>3 DEF Around
  <2>6. free' \subseteq Blocks /\ dirty' \subseteq Ags /\ DOMAIN held' = Blocks /\ ifree' \subseteq DOMAIN inode'
    BY <1>1, <1>3, <1>4, <1>7, <2>5
  <2> QED
    BY <1>1, <2>3, <2>4, <2>6 DEF Keeps, Effect
<1>8. CASE destroy(i)
  BY <1>1, <1>8, DestroyEffect DEF Keeps
<1>9. CASE F4
  <2>1. PICK l \in Nat : l = r.nlink - 1
    BY <1>3, <1>9
  <2>2. inode' = [inode EXCEPT ![i] = WithLinks(inode[i], l)]
    BY <1>2, <1>9, <2>1, FieldIs
  <2>3. UNCHANGED <<held, agVars>>
    BY <1>1, <1>9 DEF agVars
  <2> QED
    BY <1>1, <2>2, <2>3, MarkKeeps
<1> QED
  BY <1>1, <1>5, <1>6, <1>7, <1>8, <1>9

-----------------------------------------------------------------------------
(* A directory is written.                                                 *)

(* The runs of its blocks and its B+tree's.                                *)
DirAllocs(r1, r2, t, f0) ==
    /\ r1.ok \in BOOLEAN /\ r2.ok \in BOOLEAN /\ t.ok \in BOOLEAN
    /\ r1.free \cup r2.free \cup t.free \subseteq f0 /\ r1.blocks \cup r2.blocks \cup t.blocks \subseteq f0
    /\ r1.ok /\ r2.ok /\ t.ok =>
          /\ (r1.blocks \cup r2.blocks) \cap t.blocks = {}
          /\ t.free = f0 \ ((r1.blocks \cup r2.blocks) \cup t.blocks)

(* They are allocated one after the other.                                 *)
LEMMA DirBlocksGive ==
    ASSUME NEW f0, f0 \subseteq Blocks, NEW p, NEW n1 \in Nat, NEW n2 \in Nat, NEW nb \in Nat,
           NEW r1, NEW r2, NEW t, NEW g1, NEW g2, g1 = r1.free, g2 = r2.free,
           r1 = alloc_blocks(f0, p, n1), r2 = alloc_blocks(g1, p, n2), t = alloc_blocks(g2, p, nb)
    PROVE  DirAllocs(r1, r2, t, f0)
<1>1. Allocs(r1, f0)
  BY AllocIs
<1>2. r1.ok \in BOOLEAN /\ r1.blocks \subseteq f0 /\ r1.free = IF r1.ok THEN f0 \ r1.blocks ELSE f0
  BY <1>1 DEF Allocs
<1>3. g1 \subseteq Blocks /\ Allocs(r2, g1)
  <2>1. g1 \subseteq Blocks
    BY <1>2
  <2> QED
    BY <2>1, AllocIs
<1>4. r2.ok \in BOOLEAN /\ r2.blocks \subseteq g1 /\ r2.free = IF r2.ok THEN g1 \ r2.blocks ELSE g1
  BY <1>3 DEF Allocs
<1>5. Allocs(t, g2)
  <2>1. g2 \subseteq Blocks
    BY <1>3, <1>4
  <2> QED
    BY <2>1, AllocIs
<1>6. t.ok \in BOOLEAN /\ t.blocks \subseteq g2 /\ t.free = IF t.ok THEN g2 \ t.blocks ELSE g2
  BY <1>5 DEF Allocs
<1>7. PICK B1, B2, B3, f1, f2, f3 :
          /\ B1 = r1.blocks /\ B2 = r2.blocks /\ B3 = t.blocks
          /\ f1 = r1.free /\ f2 = r2.free /\ f3 = t.free
  OBVIOUS
<1>8. B1 \subseteq f0 /\ f1 \subseteq f0 /\ (r1.ok => f1 = f0 \ B1)
  BY <1>2, <1>7
<1>9. B2 \subseteq f1 /\ f2 \subseteq f1 /\ (r2.ok => f2 = f1 \ B2)
  BY <1>4, <1>7
<1>10. B3 \subseteq f2 /\ f3 \subseteq f2 /\ (t.ok => f3 = f2 \ B3)
  BY <1>6, <1>7
<1>11. f1 \cup f2 \cup f3 \subseteq f0 /\ B1 \cup B2 \cup B3 \subseteq f0
  BY <1>8, <1>9, <1>10
<1>12. r1.ok /\ r2.ok /\ t.ok => (B1 \cup B2) \cap B3 = {} /\ f3 = f0 \ ((B1 \cup B2) \cup B3)
  BY <1>8, <1>9, <1>10
<1> QED
  BY <1>2, <1>4, <1>6, <1>7, <1>11, <1>12 DEF DirAllocs

Fit == GroupsOK /\ InodesOK /\ dirty \subseteq Ags /\ DOMAIN held = Blocks

(* What `write_dir` does when all goes well, and what it leaves otherwise. *)
DirDone(d, D, B) ==
    LET r  == inode[d]
        f0 == free \cup r.data \cup r.bmbt IN
    /\ r.kind = "dir" /\ D \cup B \subseteq f0 /\ D \cap B = {} /\ free' = f0 \ (D \cup B)
    /\ held' = Written(D, d, fl.todo[d])
    /\ inode' = [inode EXCEPT ![d] =
                     RewriteDir(r, D, B, fl.todo[d], 2 + Cardinality(SubDirNames(fl.todo[d])))]
    /\ dirty' = dirty \cup AgsOf(r.data \cup r.bmbt \cup D \cup B)
    /\ fl' = [fl EXCEPT !.todo = Uncached(@, d)] /\ UNCHANGED <<last, failed>>
DirBad ==
    /\ inode' = inode /\ free' \subseteq Blocks /\ dirty' \subseteq Ags /\ DOMAIN held' = Blocks
    /\ FlushError
Lined ==
    /\ DOMAIN fl.todo \subseteq DOMAIN inode
    /\ \A d \in DOMAIN fl.todo : ListOK(fl.todo[d], DOMAIN inode)

(* The next list to write is one of them.                                  *)
LEMMA NextList ==
    ASSUME GroupsOK, Lined, DOMAIN fl.todo # {}
    PROVE  Min(DOMAIN fl.todo) \in DOMAIN fl.todo
<1>1. DOMAIN fl.todo \subseteq Nat
  BY InodesIn DEF Lined
<1> QED
  BY <1>1, MinOfNats

(* How writing a directory fails, with all it computes given.              *)
DirFails(d, r, st, p, f0, r1, r2, t, k1, k2, nb) ==
    LET old  == r.data \cup r.bmbt
        data == r1.blocks \cup r2.blocks
        read(x) == dirty \cup AgsOf(old) \cup Visited(f0, p, x) IN
    \/ free' = free /\ dirty' = dirty /\ held' = held
    \/ /\ held' = held
       /\ \E S \in PartFreed(r.data, r.bmbt, dirty) : free' = free \cup S /\ dirty' = dirty \cup AgsOf(S)
    \/ /\ held' = held
       /\ \E l \in {{}} \cup Stranded(f0, read(0), p, k1) : free' = f0 \ l /\ dirty' = dirty \cup AgsOf(old \cup l)
    \/ /\ held' = held
       /\ \E l \in Stranded(r1.free, read(k1), p, k2) :
             free' = r1.free \ l /\ dirty' = dirty \cup AgsOf(old \cup r1.blocks \cup l)
    \/ /\ free' = r2.free /\ dirty' = dirty \cup AgsOf(r.data \cup r.bmbt \cup data)
       /\ held' = Written(data, -1, "torn")
    \/ /\ held' = Written(data, d, st)
       /\ \E l \in Stranded(r2.free, read(k1 + k2), p, nb) :
             free' = r2.free \ l /\ dirty' = dirty \cup AgsOf(old \cup data \cup l)
    \/ /\ free' = t.free /\ dirty' = dirty \cup AgsOf(r.data \cup r.bmbt \cup data \cup t.blocks)
       /\ held' = Written(data, d, st)

(* It is one or the other.                                                 *)
LEMMA WriteDirIs ==
    ASSUME Fit, Lined, NEW nb \in BmbtSizes, write_dir(nb) \/ write_dir_fails(nb),
           NEW d, d = Min(DOMAIN fl.todo)
    PROVE  d \in DOMAIN fl.todo /\ (DirBad \/ \E D, B : DirDone(d, D, B))
<1>1. DOMAIN fl.todo # {}
  BY DEF write_dir, write_dir_fails
<1>2. d \in DOMAIN fl.todo /\ d \in DOMAIN inode
  BY <1>1, NextList DEF Fit, Lined
<1>3. PICK r, st, p, f0 : /\ r = inode[d] /\ st = fl.todo[d] /\ p = AgOfIno(d)
                          /\ f0 = free \cup r.data \cup r.bmbt
  OBVIOUS
<1>4. PICK ns : ns = DOMAIN st.names
  OBVIOUS
<1>5. PICK r1 : r1 = alloc_blocks(f0, p, DirRun(ns, 1))
  OBVIOUS
<1>6. PICK r2 : r2 = alloc_blocks(r1.free, p, DirRun(ns, 2))
  OBVIOUS
<1>7. PICK t : t = alloc_blocks(r2.free, p, nb)
  OBVIOUS
<1>8. r.data \cup r.bmbt \subseteq Blocks /\ free \subseteq Blocks /\ dirty \subseteq Ags /\ DOMAIN held = Blocks
  <2>1. InodeOK(r, DOMAIN inode)
    BY <1>2, <1>3 DEF Fit, InodesOK
  <2> QED
    BY <2>1 DEF InodeOK, Forks, Fit, GroupsOK
<1>9. /\ r1.ok \in BOOLEAN /\ r2.ok \in BOOLEAN /\ t.ok \in BOOLEAN
      /\ r1.free \cup r2.free \cup t.free \subseteq f0 /\ r1.blocks \cup r2.blocks \cup t.blocks \subseteq f0
      /\ r1.ok /\ r2.ok /\ t.ok =>
            /\ (r1.blocks \cup r2.blocks) \cap t.blocks = {}
            /\ t.free = f0 \ ((r1.blocks \cup r2.blocks) \cup t.blocks)
  <2>1. f0 \subseteq Blocks /\ nb \in Nat
    BY <1>3, <1>8, WriterAssumption
  <2>2. PICK n1 \in Nat, n2 \in Nat : n1 = DirRun(ns, 1) /\ n2 = DirRun(ns, 2)
    BY DEF DirRun
  <2>3. PICK g1, g2 : g1 = r1.free /\ g2 = r2.free
    OBVIOUS
  <2>4. r1 = alloc_blocks(f0, p, n1) /\ r2 = alloc_blocks(g1, p, n2) /\ t = alloc_blocks(g2, p, nb)
    BY <1>5, <1>6, <1>7, <2>2, <2>3
  <2>5. DirAllocs(r1, r2, t, f0)
    BY <2>1, <2>2, <2>3, <2>4, DirBlocksGive
  <2> QED
    BY <2>5 DEF DirAllocs
<1>10. PICK D, B : D = r1.blocks \cup r2.blocks /\ B = t.blocks
  OBVIOUS
<1>11. D \cup B \subseteq f0 /\ f0 \subseteq Blocks
  BY <1>3, <1>8, <1>9, <1>10
<1>12. \A S : S \subseteq Blocks => AgsOf(S) \subseteq Ags
  BY GroupsOf
<1>13. \A w, y, z : DOMAIN Written(w, y, z) = Blocks
  BY DEF Written
<1>14. CASE write_dir(nb)
  <2>1. dirty' = IF r.kind = "dir"
                 THEN dirty \cup AgsOf(r.data \cup r.bmbt \cup D \cup (IF r1.ok /\ r2.ok THEN B ELSE {}))
                 ELSE dirty
    BY <1>3, <1>4, <1>5, <1>6, <1>7, <1>10, <1>14 DEF write_dir
  <2>2. CASE r.kind = "dir" /\ r1.ok /\ r2.ok /\ t.ok
    <3>1. /\ free' = t.free /\ held' = Written(D, d, st)
          /\ fl' = [fl EXCEPT !.todo = Uncached(@, d)] /\ UNCHANGED <<last, failed>>
      BY <1>3, <1>4, <1>5, <1>6, <1>7, <1>10, <1>14, <2>2 DEF write_dir
    <3>2. inode' = [inode EXCEPT ![d] = RewriteDir(r, D, B, st, 2 + Cardinality(SubDirNames(st)))]
      BY <1>3, <1>4, <1>5, <1>6, <1>7, <1>10, <1>14, <2>2 DEF write_dir, RewriteDir
    <3>3. dirty' = dirty \cup AgsOf(r.data \cup r.bmbt \cup D \cup B)
      BY <2>1, <2>2
    <3>4. D \cap B = {} /\ free' = f0 \ (D \cup B)
      BY <1>9, <1>10, <2>2, <3>1
    <3>5. DirDone(d, D, B)
      BY <1>3, <1>11, <2>2, <3>1, <3>2, <3>3, <3>4 DEF DirDone
    <3> QED
      BY <1>2, <3>5
  <2>3. CASE ~ (r.kind = "dir" /\ r1.ok /\ r2.ok /\ t.ok)
    <3>1. /\ free' \in {free, f0, r1.free, r2.free} /\ inode' = inode /\ FlushError
          /\ held' \in {held, Written(D, d, st)}
      BY <1>3, <1>4, <1>5, <1>6, <1>7, <1>10, <1>14, <2>3 DEF write_dir
    <3>2. free' \subseteq Blocks
      BY <1>8, <1>9, <1>11, <3>1
    <3>3. dirty' \subseteq Ags
      <4>1. PICK S : S = r.data \cup r.bmbt \cup D \cup (IF r1.ok /\ r2.ok THEN B ELSE {})
        OBVIOUS
      <4>2. S \subseteq Blocks
        BY <1>8, <1>11, <4>1
      <4> QED
        BY <1>8, <1>12, <2>1, <4>1, <4>2
    <3>4. DOMAIN held' = Blocks
      BY <1>8, <1>13, <3>1
    <3> QED
      BY <1>2, <3>1, <3>2, <3>3, <3>4 DEF DirBad
  <2> QED
    BY <2>2, <2>3
<1>15. CASE write_dir_fails(nb)
  <2>1. inode' = inode /\ FlushError
    BY <1>15 DEF write_dir_fails
  <2>2. PICK k1, k2, R, R0, R1, R2 :
           /\ k1 = DirRun(ns, 1) /\ k2 = DirRun(ns, 2) /\ R = dirty
           /\ R0 = dirty \cup AgsOf(r.data \cup r.bmbt) \cup Visited(f0, p, 0)
           /\ R1 = dirty \cup AgsOf(r.data \cup r.bmbt) \cup Visited(f0, p, k1)
           /\ R2 = dirty \cup AgsOf(r.data \cup r.bmbt) \cup Visited(f0, p, k1 + k2)
    BY Zenon
  <2>3. \A l \in {{}} \cup Stranded(f0, R0, p, k1) : l \subseteq f0
    BY StrandedFree
  <2>4. \A l \in Stranded(r1.free, R1, p, k2) : l \subseteq f0
    <3>1. \A l \in Stranded(r1.free, R1, p, k2) : l \subseteq r1.free
      BY StrandedFree
    <3> QED
      BY <1>9, <3>1
  <2>5. \A l \in Stranded(r2.free, R2, p, nb) : l \subseteq f0
    <3>1. \A l \in Stranded(r2.free, R2, p, nb) : l \subseteq r2.free
      BY StrandedFree
    <3> QED
      BY <1>9, <3>1
  <2>6. \A S \in PartFreed(r.data, r.bmbt, R) : S \subseteq r.data \cup r.bmbt
    BY PartFreedOf
  <2>7. \/ free' = free /\ dirty' = dirty /\ held' = held
        \/ /\ held' = held
           /\ \E S \in PartFreed(r.data, r.bmbt, R) : free' = free \cup S /\ dirty' = dirty \cup AgsOf(S)
        \/ /\ held' = held
           /\ \E l \in {{}} \cup Stranded(f0, R0, p, k1) :
                 free' = f0 \ l /\ dirty' = dirty \cup AgsOf(r.data \cup r.bmbt \cup l)
        \/ /\ held' = held
           /\ \E l \in Stranded(r1.free, R1, p, k2) :
                 free' = r1.free \ l /\ dirty' = dirty \cup AgsOf(r.data \cup r.bmbt \cup r1.blocks \cup l)
        \/ free' = r2.free /\ dirty' = dirty \cup AgsOf(r.data \cup r.bmbt \cup D) /\ held' = Written(D, -1, "torn")
        \/ /\ held' = Written(D, d, st)
           /\ \E l \in Stranded(r2.free, R2, p, nb) :
                 free' = r2.free \ l /\ dirty' = dirty \cup AgsOf(r.data \cup r.bmbt \cup D \cup l)
        \/ free' = t.free /\ dirty' = dirty \cup AgsOf(r.data \cup r.bmbt \cup D \cup B) /\ held' = Written(D, d, st)
    <3>1. LET x  == Min(DOMAIN fl.todo)
              g0 == free \cup inode[x].data \cup inode[x].bmbt
              q  == AgOfIno(x)
              h1 == DirRun(DOMAIN fl.todo[x].names, 1)
              h2 == DirRun(DOMAIN fl.todo[x].names, 2)
              a1 == alloc_blocks(g0, q, h1)
              a2 == alloc_blocks(a1.free, q, h2) IN
          DirFails(x, inode[x], fl.todo[x], q, g0, a1, a2, alloc_blocks(a2.free, q, nb), h1, h2, nb)
      BY <1>15 DEF write_dir_fails, DirFails
    <3>2. DirFails(d, r, st, p, f0, r1, r2, t, k1, k2, nb)
      BY <1>3, <1>4, <1>5, <1>6, <1>7, <2>2, <3>1
    <3> QED
      BY <1>10, <2>2, <3>2 DEF DirFails
  <2>8. DOMAIN held' = Blocks
    BY <1>8, <1>13, <2>7
  <2>9. free' \subseteq Blocks /\ \E S \in SUBSET Blocks : dirty' = dirty \cup AgsOf(S)
    <3>1. CASE free' = free /\ dirty' = dirty
      <4>1. AgsOf({}) = {}
        BY DEF AgsOf
      <4> QED
        BY <1>8, <3>1, <4>1
    <3>2. CASE \E S \in PartFreed(r.data, r.bmbt, R) : free' = free \cup S /\ dirty' = dirty \cup AgsOf(S)
      <4>1. PICK S \in PartFreed(r.data, r.bmbt, R) : free' = free \cup S /\ dirty' = dirty \cup AgsOf(S)
        BY <3>2
      <4>2. S \subseteq Blocks /\ free \cup S \subseteq Blocks
        BY <1>8, <2>6
      <4> QED
        BY <4>1, <4>2
    <3>3. CASE \E l \in {{}} \cup Stranded(f0, R0, p, k1) :
                 free' = f0 \ l /\ dirty' = dirty \cup AgsOf(r.data \cup r.bmbt \cup l)
      <4>1. PICK l \in {{}} \cup Stranded(f0, R0, p, k1) :
                 free' = f0 \ l /\ dirty' = dirty \cup AgsOf(r.data \cup r.bmbt \cup l)
        BY <3>3
      <4>2. r.data \cup r.bmbt \cup l \subseteq Blocks /\ f0 \ l \subseteq Blocks
        BY <1>8, <1>11, <2>3
      <4> QED
        BY <4>1, <4>2
    <3>4. CASE free' = r2.free /\ dirty' = dirty \cup AgsOf(r.data \cup r.bmbt \cup D)
      <4>1. r.data \cup r.bmbt \cup D \subseteq Blocks /\ r2.free \subseteq Blocks
        BY <1>8, <1>9, <1>11
      <4> QED
        BY <3>4, <4>1
    <3>5. CASE \E l \in Stranded(r2.free, R2, p, nb) :
                 free' = r2.free \ l /\ dirty' = dirty \cup AgsOf(r.data \cup r.bmbt \cup D \cup l)
      <4>1. PICK l \in Stranded(r2.free, R2, p, nb) :
                 free' = r2.free \ l /\ dirty' = dirty \cup AgsOf(r.data \cup r.bmbt \cup D \cup l)
        BY <3>5
      <4>2. r.data \cup r.bmbt \cup D \cup l \subseteq Blocks /\ r2.free \ l \subseteq Blocks
        BY <1>8, <1>9, <1>11, <2>5
      <4> QED
        BY <4>1, <4>2
    <3>6. CASE free' = t.free /\ dirty' = dirty \cup AgsOf(r.data \cup r.bmbt \cup D \cup B)
      <4>1. r.data \cup r.bmbt \cup D \cup B \subseteq Blocks /\ t.free \subseteq Blocks
        BY <1>8, <1>9, <1>11
      <4> QED
        BY <3>6, <4>1
    <3>7. CASE \E l \in Stranded(r1.free, R1, p, k2) :
                 free' = r1.free \ l /\ dirty' = dirty \cup AgsOf(r.data \cup r.bmbt \cup r1.blocks \cup l)
      <4>1. PICK l \in Stranded(r1.free, R1, p, k2) :
                 free' = r1.free \ l /\ dirty' = dirty \cup AgsOf(r.data \cup r.bmbt \cup r1.blocks \cup l)
        BY <3>7
      <4>2. r.data \cup r.bmbt \cup r1.blocks \cup l \subseteq Blocks /\ r1.free \ l \subseteq Blocks
        BY <1>8, <1>9, <1>11, <2>4
      <4> QED
        BY <4>1, <4>2
    <3> QED
      BY <2>7, <3>1, <3>2, <3>3, <3>4, <3>5, <3>6, <3>7
  <2>10. dirty' \subseteq Ags /\ free' \subseteq Blocks
    BY <1>8, <1>12, <2>9
  <2> QED
    BY <1>2, <2>1, <2>8, <2>10 DEF DirBad
<1> QED
  BY <1>14, <1>15

(* The inode of a directory that is written.                               *)
LEMMA DirDoneIs ==
    ASSUME Fit, Lined, NEW d \in DOMAIN fl.todo, NEW D, NEW B, DirDone(d, D, B), chunks' = chunks, ifree' = ifree
    PROVE  /\ Effect(d, {}) /\ d \in DOMAIN inode /\ inode[d].kind = "dir"
           /\ LET s == inode'[d]
              IN  /\ Shape(s) /\ s.kind = "dir" /\ s.data = D /\ s.bmbt = B /\ s.attr = inode[d].attr
                  /\ s.body = fl.todo[d] /\ s.nlink = 2 + Cardinality(SubDirNames(fl.todo[d])) /\ s.nlink \in Nat
<1>1. d \in DOMAIN inode /\ ListOK(fl.todo[d], DOMAIN inode)
  BY DEF Lined
<1>2. PICK r, c : r = inode[d] /\ c = fl.todo[d]
  OBVIOUS
<1>3. PICK l : l = 2 + Cardinality(SubDirNames(c))
  OBVIOUS
<1>4. InodeOK(r, DOMAIN inode) /\ Shape(r) /\ Forks(r) \subseteq Blocks
  BY <1>1, <1>2 DEF Fit, InodesOK, InodeOK, Shape
<1>5. l \in Nat
  <2>1. IsFiniteSet(SubDirNames(c))
    <3>1. IsFiniteSet(DOMAIN c.names)
      BY <1>1, <1>2 DEF ListOK
    <3> QED
      BY <3>1, FS_Subset DEF SubDirNames
  <2> QED
    BY <1>3, <2>1, FS_CardinalityType
<1>6. PICK s : s = RewriteDir(r, D, B, c, l)
  OBVIOUS
<1>7. /\ Shape(s) /\ s.kind = r.kind /\ s.nlink = l /\ s.data = D /\ s.bmbt = B
      /\ s.attr = r.attr /\ s.body = c
  BY <1>4, <1>6, RewrittenDir
<1>8. inode' = [inode EXCEPT ![d] = s]
  BY <1>2, <1>3, <1>6 DEF DirDone
<1>9. Around(d, {}) /\ inode'[d] = s
  BY <1>1, <1>8, AroundOne
<1>10. DOMAIN inode' = DOMAIN inode
  BY <1>9 DEF Around
<1>11. r.kind = "dir" /\ D \cup B \subseteq Blocks /\ free' \subseteq Blocks
  BY <1>2, <1>4 DEF DirDone, Forks, Fit, GroupsOK
<1>12. InodeOK(s, DOMAIN inode')
  <2>1. Forks(s) \subseteq Blocks
    BY <1>4, <1>7, <1>11 DEF Forks
  <2>2. ListOK(s.body, DOMAIN inode') /\ s.kind \in Kinds /\ s.nlink \in Nat
    BY <1>1, <1>2, <1>5, <1>7, <1>10, <1>11 DEF Kinds
  <2> QED
    BY <1>7, <2>1, <2>2 DEF InodeOK, Shape
<1>13. dirty' \subseteq Ags
  <2>1. PICK S : S = r.data \cup r.bmbt \cup D \cup B
    OBVIOUS
  <2>2. S \subseteq Blocks /\ dirty' = dirty \cup AgsOf(S)
    BY <1>2, <1>4, <1>11, <2>1 DEF DirDone, Forks
  <2> QED
    BY <2>2, GroupsOf DEF Fit
<1>14. DOMAIN held' = Blocks
  BY DEF DirDone, Written
<1>15. ifree' \subseteq DOMAIN inode'
  BY <1>10 DEF Fit, GroupsOK
<1> QED
  BY <1>1, <1>2, <1>3, <1>5, <1>7, <1>9, <1>11, <1>12, <1>13, <1>14, <1>15 DEF Effect

(* Its blocks.                                                             *)
LEMMA DirDoneKeeps ==
    ASSUME Ready, Lined, NEW d \in DOMAIN fl.todo, NEW D, NEW B, DirDone(d, D, B), chunks' = chunks, ifree' = ifree
    PROVE  Keeps(d) /\ d \in InUse /\ d \in InUse'
<1>1. Fit
  BY DEF Ready, Fit
<1>2. PICK s : s = inode'[d]
  OBVIOUS
<1>3. /\ Effect(d, {}) /\ d \in DOMAIN inode /\ inode[d].kind = "dir"
      /\ Shape(s) /\ s.kind = "dir" /\ s.data = D /\ s.bmbt = B /\ s.attr = inode[d].attr
      /\ s.body = fl.todo[d] /\ s.nlink \in Nat
  BY <1>1, <1>2, DirDoneIs
<1>4. d \in InUse /\ Around(d, {}) /\ dirty' \subseteq Ags
  BY <1>3 DEF InUse, UsedIn, Effect
<1>5. ListOK(s.body, DOMAIN inode)
  BY <1>3 DEF Lined
<1>6. PICK r : r = inode[d]
  OBVIOUS
<1>7. /\ D \cup B \subseteq free \cup r.data \cup r.bmbt /\ D \cap B = {}
      /\ free' = (free \cup r.data \cup r.bmbt) \ (D \cup B)
      /\ held' = Written(D, d, s.body) /\ failed' = failed
      /\ dirty' = dirty \cup AgsOf(r.data \cup r.bmbt \cup D \cup B)
  BY <1>3, <1>6 DEF DirDone
<1>8. Moves(d, {}) /\ d \in InUse'
  BY <1>2, <1>3, <1>4, <1>5, <1>6, <1>7, RewriteEffect
<1>9. Marks({})
  <2>1. PICK S : S = r.data \cup r.bmbt \cup D \cup B
    OBVIOUS
  <2>2. r.data \cup r.bmbt \subseteq Blocks /\ free \subseteq Blocks
    BY <1>4, <1>6, UsedIs DEF Forks, Ready, GroupsOK
  <2>3. S \subseteq Blocks /\ (free' \ free) \cup (free \ free') \subseteq S
    BY <1>7, <2>1, <2>2
  <2> QED
    BY <1>7, <2>1, <2>3, BlocksMark
<1> QED
  BY <1>3, <1>4, <1>8, <1>9 DEF Keeps

-----------------------------------------------------------------------------
(* The groups as they are in memory, as they were rebuilt and on disk.     *)

GroupsKept ==
    /\ \A a \in Ags \ dirty : hdr[a] = Snapshot(a)
    /\ \A a \in Ags \ fl.pending : dag[a] = hdr[a]
    /\ fl.pc = "ags" => dirty \subseteq fl.ags
    /\ fl.pc = "write" => dirty = {}

(* A group that no change marks is as it was.                              *)
LEMMA MarksKeep ==
    ASSUME GroupsOK, GroupsOK', NEW chunk, chunk \subseteq free, chunks' = chunks \cup chunk, Marks(chunk),
           NEW a \in Ags \ dirty'
    PROVE  Snapshot(a)' = Snapshot(a)
<1>1. \A b \in Blocks : b \in AgBlocks[a] => AgOf(b) = a
  BY GroupOf
<1>2. free \subseteq Blocks /\ free' \subseteq Blocks /\ chunks \subseteq Blocks
  BY DEF GroupsOK
<1>3. \A b \in (free' \ free) \cup (free \ free') \cup chunk : AgOf(b) # a
  BY DEF Marks
<1>4. (free \cap AgBlocks[a])' = free \cap AgBlocks[a]
  BY <1>1, <1>2, <1>3
<1>5. (chunks \cap AgBlocks[a])' = chunks \cap AgBlocks[a]
  BY <1>1, <1>2, <1>3
<1>6. \A j \in (ifree' \ ifree) \cup (ifree \ ifree') : AgOfIno(j) # a
  BY DEF Marks
<1>7. {j \in ifree : AgOfIno(j) = a}' = {j \in ifree : AgOfIno(j) = a}
  BY <1>6
<1> QED
  BY <1>4, <1>5, <1>7 DEF Snapshot

(* What is counted group by group is counted once.                         *)
LEMMA SumIs ==
    ASSUME NEW S, IsFiniteSet(S), NEW F, \A a \in Ags : F[a] \subseteq S,
           \A s \in S : \E a \in Ags : s \in F[a], \A a, x \in Ags : a # x => F[a] \cap F[x] = {}
    PROVE  SumOver(F) = Cardinality(S)
<1> DEFINE at(s) == CHOOSE a \in Ags : s \in F[a]
           U == UNION {{a} \X F[a] : a \in Ags}
           f == [s \in S |-> <<at(s), s>>]
<1>1. \A s \in S : at(s) \in Ags /\ s \in F[at(s)]
  OBVIOUS
<1>2. \A s \in S, a \in Ags : s \in F[a] => a = at(s)
  BY <1>1
<1> HIDE DEF at
<1>3. f \in [S -> U]
  BY <1>1
<1>4. \A s, t \in S : f[s] = f[t] => s = t
  OBVIOUS
<1>5. \A u \in U : \E s \in S : f[s] = u
  <2>1. TAKE u \in U
  <2>2. PICK a \in Ags : u \in {a} \X F[a]
    OBVIOUS
  <2>3. u[2] \in F[a] /\ u = <<a, u[2]>>
    BY <2>2
  <2>4. u[2] \in S /\ f[u[2]] = u
    BY <1>2, <2>3
  <2> QED
    BY <2>4
<1> HIDE DEF f, U
<1>6. f \in Bijection(S, U)
  BY <1>3, <1>4, <1>5 DEF Bijection, Injection, Surjection, IsInjective
<1>7. Cardinality(S) = Cardinality(U)
  BY <1>6, FS_Bijection DEF ExistsBijection
<1> QED
  BY <1>7 DEF SumOver, U

(* The inodes of the chunks, counted.                                      *)
LEMMA InodesCount ==
    ASSUME NEW C, C \subseteq Blocks
    PROVE  LET I == UNION {InodesOf(b) : b \in C}
           IN  IsFiniteSet(I) /\ Cardinality(I) = Cardinality(C) * ChunkInodes
<1>1. PICK n \in Nat \ {0} : n = ChunkInodes
  BY WriterAssumption
<1>2. PICK K, I : K = 0 .. (n - 1) /\ I = UNION {InodesOf(b) : b \in C}
  OBVIOUS
<1>3. IsFiniteSet(C)
  BY Groups, FS_Subset
<1>4. IsFiniteSet(K) /\ Cardinality(K) = n
  <2>1. PICK x \in Int, y \in Int : x = 0 /\ y = n - 1
    OBVIOUS
  <2>2. IsFiniteSet(x .. y) /\ Cardinality(x .. y) = IF x > y THEN 0 ELSE y - x + 1
    BY FS_Interval, Zenon
  <2> QED
    BY <1>2, <2>1, <2>2
<1>5. IsFiniteSet(C \X K) /\ Cardinality(C \X K) = Cardinality(C) * Cardinality(K)
  BY <1>3, <1>4, FS_Product
<1> DEFINE f == [e \in C \X K |-> e[1] * n + e[2]]
<1>6. ASSUME NEW b \in C, NEW k \in K
      PROVE  f[<<b, k>>] = b * n + k /\ b * n + k \in InodesOf(b) /\ b * n + k \in I
  <2>1. b * n + k \in InodesOf(b)
    BY <1>1, <1>2 DEF InodesOf
  <2> QED
    BY <1>2, <2>1
<1>7. f \in [C \X K -> I]
  BY <1>6
<1>8. \A i \in I : \E e \in C \X K : f[e] = i
  <2>1. SUFFICES ASSUME NEW b \in C, NEW i \in InodesOf(b)
                 PROVE  \E e \in C \X K : f[e] = i
    BY <1>2
  <2>2. PICK k \in K : i = b * n + k
    BY <1>1, <1>2 DEF InodesOf
  <2>3. <<b, k>> \in C \X K /\ f[<<b, k>>] = i
    BY <1>6, <2>2
  <2> QED
    BY <2>3
<1>9. \A e, g \in C \X K : f[e] = f[g] => e = g
  <2>1. SUFFICES ASSUME NEW e \in C \X K, NEW g \in C \X K, f[e] = f[g]
                 PROVE  e = g
    OBVIOUS
  <2>5. PICK b \in C, k \in K : e = <<b, k>>
    OBVIOUS
  <2>6. PICK c \in C, l \in K : g = <<c, l>>
    OBVIOUS
  <2>2. b * n + k = c * n + l
    BY <1>6, <2>1, <2>5, <2>6
  <2>3. b = c
    <3>1. (b * n + k) \div ChunkInodes = b /\ (c * n + l) \div ChunkInodes = c
      BY <1>6, InodeBlock
    <3> QED
      BY <2>2, <3>1
  <2>4. k = l
    <3>1. b \in Nat /\ k \in Nat /\ l \in Nat
      <4>1. Blocks \subseteq Nat
        BY Groups
      <4>2. k \in Nat /\ l \in Nat
        BY <1>2
      <4> QED
        BY <4>1, <4>2
    <3>2. \A x, y, z, m \in Nat : x * m + y = x * m + z => y = z
      OBVIOUS
    <3>3. b * n + k = b * n + l /\ n \in Nat
      BY <2>2, <2>3
    <3> QED
      BY <3>1, <3>2, <3>3, Zenon
  <2> QED
    BY <2>3, <2>4, <2>5, <2>6
<1> HIDE DEF f
<1>10. f \in Bijection(C \X K, I)
  BY <1>7, <1>8, <1>9 DEF Bijection, Injection, Surjection, IsInjective
<1>11. IsFiniteSet(I) /\ Cardinality(I) = Cardinality(C \X K)
  BY <1>5, <1>10, FS_Bijection DEF ExistsBijection
<1> QED
  BY <1>1, <1>2, <1>4, <1>5, <1>11

(* Groups that are as they are in memory hold, together, all there is.     *)
LEMMA GroupsHold ==
    ASSUME GroupsOK, NEW G, \A a \in Ags : G[a] = Snapshot(a)
    PROVE  /\ UNION {G[a].free : a \in Ags} = free /\ UNION {G[a].chunks : a \in Ags} = chunks
           /\ UNION {G[a].ifree : a \in Ags} = ifree
           /\ SumOver([a \in Ags |-> G[a].free]) = Cardinality(free)
           /\ SumOver([a \in Ags |-> G[a].ifree]) = Cardinality(ifree)
           /\ SumOver([a \in Ags |-> G[a].chunks]) * ChunkInodes = Cardinality(DOMAIN inode)
<1>1. \A a \in Ags : /\ G[a].free = free \cap AgBlocks[a] /\ G[a].chunks = chunks \cap AgBlocks[a]
                     /\ G[a].ifree = {i \in ifree : AgOfIno(i) = a}
  <2>1. SUFFICES ASSUME NEW a \in Ags
                 PROVE  /\ G[a].free = free \cap AgBlocks[a] /\ G[a].chunks = chunks \cap AgBlocks[a]
                        /\ G[a].ifree = {i \in ifree : AgOfIno(i) = a}
    OBVIOUS
  <2>2. PICK x, y, z : x = free \cap AgBlocks[a] /\ y = chunks \cap AgBlocks[a] /\ z = {i \in ifree : AgOfIno(i) = a}
    OBVIOUS
  <2>3. G[a] = [free |-> x, chunks |-> y, ifree |-> z]
    BY <2>2 DEF Snapshot
  <2> QED
    BY <2>2, <2>3
<1>2. free \subseteq Blocks /\ chunks \subseteq Blocks /\ ifree \subseteq DOMAIN inode
  BY DEF GroupsOK
<1>3. \A i \in ifree : AgOfIno(i) \in Ags
  BY <1>2, InodesIn
<1>4. \A b \in Blocks : \E a \in Ags : b \in AgBlocks[a]
  BY Groups
<1>5. \A a, x \in Ags : a # x => AgBlocks[a] \cap AgBlocks[x] = {}
  BY Groups
<1>6. /\ UNION {G[a].free : a \in Ags} = free /\ UNION {G[a].chunks : a \in Ags} = chunks
  BY <1>1, <1>2, <1>4
<1>7. UNION {G[a].ifree : a \in Ags} = ifree
  BY <1>1, <1>3
<1>8. /\ IsFiniteSet(free) /\ IsFiniteSet(chunks) /\ IsFiniteSet(DOMAIN inode) /\ IsFiniteSet(ifree)
      /\ Cardinality(DOMAIN inode) = Cardinality(chunks) * ChunkInodes
  <2>1. IsFiniteSet(free) /\ IsFiniteSet(chunks)
    BY <1>2, Groups, FS_Subset
  <2>2. IsFiniteSet(DOMAIN inode) /\ Cardinality(DOMAIN inode) = Cardinality(chunks) * ChunkInodes
    BY <1>2, InodesCount DEF GroupsOK
  <2> QED
    BY <1>2, <2>1, <2>2, FS_Subset
<1>9. PICK F1, F2, F3 : /\ F1 = [a \in Ags |-> G[a].free] /\ F2 = [a \in Ags |-> G[a].ifree]
                        /\ F3 = [a \in Ags |-> G[a].chunks]
  OBVIOUS
<1>10. \A a \in Ags : F1[a] = G[a].free /\ F2[a] = G[a].ifree /\ F3[a] = G[a].chunks
  BY <1>9
<1>11. SumOver(F1) = Cardinality(free)
  <2>1. \A a \in Ags : F1[a] \subseteq free
    BY <1>1, <1>10
  <2>2. \A s \in free : \E a \in Ags : s \in F1[a]
    BY <1>1, <1>2, <1>4, <1>10
  <2>3. \A a, x \in Ags : a # x => F1[a] \cap F1[x] = {}
    BY <1>1, <1>5, <1>10
  <2> QED
    BY <1>8, <2>1, <2>2, <2>3, SumIs
<1>12. SumOver(F2) = Cardinality(ifree)
  <2>1. \A a \in Ags : F2[a] \subseteq ifree
    BY <1>1, <1>10
  <2>2. \A s \in ifree : \E a \in Ags : s \in F2[a]
    BY <1>1, <1>3, <1>10
  <2>3. \A a, x \in Ags : a # x => F2[a] \cap F2[x] = {}
    BY <1>1, <1>10
  <2> QED
    BY <1>8, <2>1, <2>2, <2>3, SumIs
<1>13. SumOver(F3) = Cardinality(chunks)
  <2>1. \A a \in Ags : F3[a] \subseteq chunks
    BY <1>1, <1>10
  <2>2. \A s \in chunks : \E a \in Ags : s \in F3[a]
    BY <1>1, <1>2, <1>4, <1>10
  <2>3. \A a, x \in Ags : a # x => F3[a] \cap F3[x] = {}
    BY <1>1, <1>5, <1>10
  <2> QED
    BY <1>8, <2>1, <2>2, <2>3, SumIs
<1> QED
  BY <1>6, <1>7, <1>8, <1>9, <1>11, <1>12, <1>13

-----------------------------------------------------------------------------
(* Lists of names: L is a function from directories to their lists.        *)

All(L) == UNION {{<<d, n>> : n \in DOMAIN L[d].names} : d \in DOMAIN L}
Its(L, e) == L[e[1]].names[e[2]]
To(L, i) == {e \in All(L) : Its(L, e).ino = i}
Most(ino, i) == IF ino[i].kind = "dir" THEN 1 ELSE ino[i].nlink

(* A name is of an inode in use, of the kind the name says, and the parent *)
(* of a directory is where its name is.                                    *)
NameOK(ino, L, e) ==
    /\ Its(L, e).ino \in UsedIn(ino) \ {Root} /\ ino[Its(L, e).ino].kind = Its(L, e).kind
    /\ Its(L, e).kind = "dir" => L[Its(L, e).ino].parent = e[1]

(* No name is wrong and none is uncounted.                                 *)
NamesKept(ino, L) ==
    /\ DOMAIN L = DirsIn(ino) /\ Root \in DOMAIN L
    /\ \A e \in All(L) : NameOK(ino, L, e)
    /\ \A i \in UsedIn(ino) : Cardinality(To(L, i)) <= Most(ino, i)

(* Every inode in use has its names, and no directory is below itself.     *)
Rooted(L) == \A S \in SUBSET (DOMAIN L \ {Root}) : S # {} => \E d \in S : L[d].parent \notin S
NamesAll(ino, L) ==
    /\ \A i \in UsedIn(ino) \ {Root} :
          To(L, i) # {} /\ (ino[i].kind # "dir" => Cardinality(To(L, i)) = ino[i].nlink)
    /\ Rooted(L)

(* A name is in the list of its directory.                                 *)
LEMMA AllIs ==
    ASSUME NEW L
    PROVE  /\ \A e \in All(L) : e = <<e[1], e[2]>> /\ e[1] \in DOMAIN L /\ e[2] \in DOMAIN L[e[1]].names
           /\ \A d \in DOMAIN L : \A n \in DOMAIN L[d].names : <<d, n>> \in All(L)
BY DEF All

(* There are finitely many.                                                *)
LEMMA AllFinite ==
    ASSUME NEW L, IsFiniteSet(DOMAIN L), \A d \in DOMAIN L : IsFiniteSet(DOMAIN L[d].names)
    PROVE  IsFiniteSet(All(L)) /\ \A i : IsFiniteSet(To(L, i))
<1> DEFINE P(d) == {<<d, n>> : n \in DOMAIN L[d].names}
           g == [d \in DOMAIN L |-> P(d)]
<1>1. g \in Surjection(DOMAIN L, {P(d) : d \in DOMAIN L})
  BY DEF Surjection
<1>2. IsFiniteSet({P(d) : d \in DOMAIN L})
  BY <1>1, FS_Surjection
<1>3. ASSUME NEW d \in DOMAIN L
      PROVE  IsFiniteSet(P(d))
  <2>1. PICK N : N = DOMAIN L[d].names
    OBVIOUS
  <2> DEFINE f == [n \in N |-> <<d, n>>]
  <2>2. f \in Surjection(N, P(d))
    BY <2>1 DEF Surjection
  <2>3. IsFiniteSet(N)
    BY <2>1
  <2> QED
    BY <2>2, <2>3, FS_Surjection
<1> HIDE DEF P
<1>4. IsFiniteSet(UNION {P(d) : d \in DOMAIN L})
  BY <1>2, <1>3, FS_UNION
<1>5. IsFiniteSet(All(L))
  BY <1>4 DEF All, P
<1>6. \A i : IsFiniteSet(To(L, i))
  <2>1. \A i : To(L, i) \subseteq All(L)
    BY DEF To
  <2> QED
    BY <1>5, <2>1, FS_Subset
<1> QED
  BY <1>5, <1>6

(* Nothing has the names of what is not in use.                            *)
LEMMA Unnamed ==
    ASSUME NEW ino, NEW L, NamesKept(ino, L), NEW i, i \notin UsedIn(ino)
    PROVE  To(L, i) = {}
BY DEF NamesKept, NameOK, To

(* Links are numbers.                                                      *)
Numbers(ino) == \A i \in UsedIn(ino) : ino[i].nlink \in Nat

(* The names stay; directories without names, or other inodes, may come.   *)
LEMMA NamesStay ==
    ASSUME NEW ino, NEW ino2, NEW L, NEW L2, NamesKept(ino, L), Numbers(ino), Numbers(ino2),
           \A i : IsFiniteSet(To(L, i)),
           \A i \in UsedIn(ino) : /\ i \in UsedIn(ino2) /\ ino2[i].kind = ino[i].kind
                                  /\ ino[i].kind # "dir" => ino2[i].nlink >= ino[i].nlink,
           DOMAIN L2 = DirsIn(ino2), \A d \in DOMAIN L : d \in DOMAIN L2 /\ L2[d] = L[d],
           \A d \in DOMAIN L2 \ DOMAIN L : DOMAIN L2[d].names = {}
    PROVE  /\ NamesKept(ino2, L2)
           /\ NamesAll(ino, L) /\ DOMAIN L2 = DOMAIN L /\ UsedIn(ino2) \subseteq UsedIn(ino)
                 /\ (\A i \in UsedIn(ino) : ino[i].kind # "dir" => ino2[i].nlink = ino[i].nlink)
              => NamesAll(ino2, L2)
<1>1. All(L2) = All(L)
  BY AllIs
<1>2. \A e \in All(L) : Its(L2, e) = Its(L, e)
  BY AllIs DEF Its
<1>3. \A i : To(L2, i) = To(L, i)
  BY <1>1, <1>2 DEF To
<1>4. /\ \A e \in All(L) : NameOK(ino, L, e)
      /\ \A i \in UsedIn(ino) : Cardinality(To(L, i)) <= Most(ino, i)
      /\ DOMAIN L = DirsIn(ino) /\ Root \in DOMAIN L
  BY DEF NamesKept
<1>5. ASSUME NEW e \in All(L2)
      PROVE  NameOK(ino2, L2, e)
  <2>1. PICK t : t = Its(L, e) /\ t = Its(L2, e)
    BY <1>1, <1>2
  <2>2. /\ t.ino \in UsedIn(ino) \ {Root} /\ ino[t.ino].kind = t.kind
        /\ t.kind = "dir" => L[t.ino].parent = e[1]
    BY <1>1, <1>4, <2>1 DEF NameOK
  <2>3. t.kind = "dir" => t.ino \in DOMAIN L
    BY <1>4, <2>2 DEF DirsIn, UsedIn
  <2> QED
    BY <2>1, <2>2, <2>3 DEF NameOK
<1>6. ASSUME NEW i \in UsedIn(ino2)
      PROVE  Cardinality(To(L2, i)) <= Most(ino2, i)
  <2>1. CASE i \in UsedIn(ino)
    <3>1. PICK c \in Nat : c = Cardinality(To(L, i)) /\ c <= Most(ino, i)
      BY <1>4, <2>1, FS_CardinalityType
    <3>2. Most(ino, i) \in Nat /\ Most(ino2, i) \in Nat /\ Most(ino, i) <= Most(ino2, i)
      BY <1>6, <2>1 DEF Most, Numbers
    <3> QED
      BY <1>3, <3>1, <3>2
  <2>2. CASE i \notin UsedIn(ino)
    <3>1. To(L2, i) = {}
      BY <1>3, <2>2, Unnamed
    <3>2. Cardinality(To(L2, i)) = 0
      BY <3>1, FS_EmptySet
    <3>3. Most(ino2, i) \in Nat
      BY <1>6 DEF Most, Numbers
    <3> QED
      BY <3>2, <3>3
  <2> QED
    BY <2>1, <2>2
<1>7. NamesKept(ino2, L2)
  BY <1>4, <1>5, <1>6 DEF NamesKept
<1>8. ASSUME NamesAll(ino, L), DOMAIN L2 = DOMAIN L, UsedIn(ino2) \subseteq UsedIn(ino),
             \A i \in UsedIn(ino) : ino[i].kind # "dir" => ino2[i].nlink = ino[i].nlink
      PROVE  NamesAll(ino2, L2)
  <2>1. \A i \in UsedIn(ino2) \ {Root} :
          To(L2, i) # {} /\ (ino2[i].kind # "dir" => Cardinality(To(L2, i)) = ino2[i].nlink)
    BY <1>3, <1>8 DEF NamesAll
  <2>2. \A d \in DOMAIN L2 : L2[d].parent = L[d].parent
    BY <1>8
  <2>3. Rooted(L2)
    BY <1>8, <2>2 DEF NamesAll, Rooted
  <2> QED
    BY <2>1, <2>3 DEF NamesAll
<1> QED
  BY <1>7, <1>8

(* A name n of t, of kind k, more in directory d.                          *)
Added(L, L2, d, n, t, k) ==
    /\ d \in DOMAIN L /\ n \notin DOMAIN L[d].names
    /\ DOMAIN L2 = DOMAIN L \cup (IF k = "dir" THEN {t} ELSE {})
    /\ L2[d].parent = L[d].parent /\ DOMAIN L2[d].names = DOMAIN L[d].names \cup {n}
    /\ L2[d].names[n].ino = t /\ L2[d].names[n].kind = k
    /\ \A x \in DOMAIN L[d].names : L2[d].names[x] = L[d].names[x]
    /\ \A x \in DOMAIN L \ {d} : L2[x] = L[x]
    /\ k = "dir" => t \notin DOMAIN L /\ L2[t].parent = d /\ DOMAIN L2[t].names = {}

(* There is one name e0 more, and the others are as they were.             *)
OneMore(L, L2, e0, t, k) ==
    /\ All(L2) = All(L) \cup {e0} /\ e0 \notin All(L)
    /\ Its(L2, e0).ino = t /\ Its(L2, e0).kind = k
    /\ \A e \in All(L) : Its(L2, e) = Its(L, e)
    /\ To(L2, t) = To(L, t) \cup {e0} /\ e0 \notin To(L, t)
    /\ \A i : i # t => To(L2, i) = To(L, i)
    /\ \A x \in DOMAIN L : x \in DOMAIN L2 /\ L2[x].parent = L[x].parent

(* A name put in is one more.                                              *)
LEMMA AddedIs ==
    ASSUME NEW L, NEW L2, NEW d, NEW n, NEW t, NEW k, Added(L, L2, d, n, t, k)
    PROVE  OneMore(L, L2, <<d, n>>, t, k)
<1>0. PICK e0 : e0 = <<d, n>>
  OBVIOUS
<1>1. e0 = <<d, n>> /\ e0[1] = d /\ e0[2] = n
  BY <1>0
<1>2. /\ d \in DOMAIN L /\ n \notin DOMAIN L[d].names
      /\ DOMAIN L2[d].names = DOMAIN L[d].names \cup {n}
      /\ \A x \in DOMAIN L[d].names : L2[d].names[x] = L[d].names[x]
      /\ \A x \in DOMAIN L \ {d} : L2[x] = L[x]
      /\ L2[d].parent = L[d].parent
      /\ \A x \in DOMAIN L2 \ DOMAIN L : DOMAIN L2[x].names = {}
      /\ DOMAIN L \subseteq DOMAIN L2
  BY DEF Added
<1>3. /\ \A e \in All(L) : e = <<e[1], e[2]>> /\ e[1] \in DOMAIN L /\ e[2] \in DOMAIN L[e[1]].names
      /\ \A x \in DOMAIN L : \A m \in DOMAIN L[x].names : <<x, m>> \in All(L)
  BY AllIs
<1>4. /\ \A e \in All(L2) : e = <<e[1], e[2]>> /\ e[1] \in DOMAIN L2 /\ e[2] \in DOMAIN L2[e[1]].names
      /\ \A x \in DOMAIN L2 : \A m \in DOMAIN L2[x].names : <<x, m>> \in All(L2)
  BY AllIs
<1>5. e0 \notin All(L) /\ e0 \in All(L2)
  BY <1>1, <1>2, <1>3, <1>4
<1>6. ASSUME NEW e \in All(L2), e # e0
      PROVE  e \in All(L)
  <2>1. e = <<e[1], e[2]>> /\ e[1] \in DOMAIN L2 /\ e[2] \in DOMAIN L2[e[1]].names
    BY <1>4
  <2>2. e[1] \in DOMAIN L
    BY <1>2, <2>1
  <2>3. e[2] \in DOMAIN L[e[1]].names
    <3>1. CASE e[1] = d
      BY <1>1, <1>2, <1>6, <2>1, <3>1
    <3>2. CASE e[1] # d
      BY <1>2, <2>1, <2>2, <3>2
    <3> QED
      BY <3>1, <3>2
  <2> QED
    BY <1>3, <2>1, <2>2, <2>3
<1>7. ASSUME NEW e \in All(L)
      PROVE  e \in All(L2) /\ Its(L2, e) = Its(L, e)
  <2>1. e = <<e[1], e[2]>> /\ e[1] \in DOMAIN L /\ e[2] \in DOMAIN L[e[1]].names
    BY <1>3
  <2>2. CASE e[1] = d
    BY <1>2, <1>4, <2>1, <2>2 DEF Its
  <2>3. CASE e[1] # d
    BY <1>2, <1>4, <2>1, <2>3 DEF Its
  <2> QED
    BY <2>2, <2>3
<1>8. All(L2) = All(L) \cup {e0}
  BY <1>5, <1>6, <1>7
<1>9. Its(L2, e0).ino = t /\ Its(L2, e0).kind = k
  BY <1>1 DEF Its, Added
<1>10. To(L2, t) = To(L, t) \cup {e0} /\ e0 \notin To(L, t) /\ \A i : i # t => To(L2, i) = To(L, i)
  BY <1>5, <1>7, <1>8, <1>9 DEF To
<1>11. \A x \in DOMAIN L : x \in DOMAIN L2 /\ L2[x].parent = L[x].parent
  BY <1>2
<1> QED
  BY <1>1, <1>5, <1>7, <1>8, <1>9, <1>10, <1>11 DEF OneMore

(* Inode t is new, or is not a directory and has one link more.            *)
MoreIn(ino, ino2, t, k) ==
    /\ t \in UsedIn(ino2) \ {Root} /\ ino2[t].kind = k
    /\ \A i \in UsedIn(ino) : i \in UsedIn(ino2) /\ ino2[i].kind = ino[i].kind
    /\ \A i \in UsedIn(ino2) \ {t} : i \in UsedIn(ino) /\ ino2[i].nlink = ino[i].nlink
    /\ t \notin UsedIn(ino) => k = "dir" \/ ino2[t].nlink = 1
    /\ t \in UsedIn(ino) => k # "dir" /\ ino2[t].nlink = ino[t].nlink + 1

(* A name is put in for it.                                                *)
LEMMA NamesAdd ==
    ASSUME NEW ino, NEW ino2, NEW L, NEW L2, NamesKept(ino, L), Numbers(ino), Numbers(ino2),
           \A i : IsFiniteSet(To(L, i)),
           NEW d, NEW n, NEW t, NEW k, Added(L, L2, d, n, t, k), DOMAIN L2 = DirsIn(ino2), MoreIn(ino, ino2, t, k)
    PROVE  NamesKept(ino2, L2) /\ (NamesAll(ino, L) => NamesAll(ino2, L2))
<1>0. PICK e0 : e0 = <<d, n>>
  OBVIOUS
<1> t \in UsedIn(ino2) \ {Root} /\ ino2[t].kind = k
  BY DEF MoreIn
<1> \A i \in UsedIn(ino) : i \in UsedIn(ino2) /\ ino2[i].kind = ino[i].kind
  BY DEF MoreIn
<1> \A i \in UsedIn(ino2) \ {t} : i \in UsedIn(ino) /\ ino2[i].nlink = ino[i].nlink
  BY DEF MoreIn
<1> t \notin UsedIn(ino) => k = "dir" \/ ino2[t].nlink = 1
  BY DEF MoreIn
<1> t \in UsedIn(ino) => k # "dir" /\ ino2[t].nlink = ino[t].nlink + 1
  BY DEF MoreIn
<1>1. OneMore(L, L2, e0, t, k) /\ e0[1] = d
  BY <1>0, AddedIs
<1>2. /\ All(L2) = All(L) \cup {e0} /\ Its(L2, e0).ino = t /\ Its(L2, e0).kind = k
      /\ \A e \in All(L) : Its(L2, e) = Its(L, e)
      /\ To(L2, t) = To(L, t) \cup {e0} /\ e0 \notin To(L, t)
      /\ \A i : i # t => To(L2, i) = To(L, i)
      /\ \A x \in DOMAIN L : x \in DOMAIN L2 /\ L2[x].parent = L[x].parent
  BY <1>1 DEF OneMore
<1>3. /\ \A e \in All(L) : NameOK(ino, L, e)
      /\ \A i \in UsedIn(ino) : Cardinality(To(L, i)) <= Most(ino, i)
      /\ DOMAIN L = DirsIn(ino) /\ Root \in DOMAIN L
  BY DEF NamesKept
<1>4. ASSUME NEW e \in All(L)
      PROVE  NameOK(ino2, L2, e)
  <2>1. PICK y : y = Its(L, e) /\ y = Its(L2, e)
    BY <1>2
  <2>2. /\ y.ino \in UsedIn(ino) \ {Root} /\ ino[y.ino].kind = y.kind
        /\ y.kind = "dir" => L[y.ino].parent = e[1]
    BY <1>3, <2>1 DEF NameOK
  <2>3. y.kind = "dir" => y.ino \in DOMAIN L
    BY <1>3, <2>2 DEF DirsIn, UsedIn
  <2> QED
    BY <1>2, <2>1, <2>2, <2>3 DEF NameOK
<1>5. NameOK(ino2, L2, e0)
  <2>1. k = "dir" => L2[t].parent = d
    BY DEF Added
  <2> QED
    BY <1>1, <1>2, <2>1 DEF NameOK
<1>6. PICK c \in Nat : c = Cardinality(To(L, t))
  BY FS_CardinalityType
<1>7. Cardinality(To(L2, t)) = c + 1
  <2>1. PICK T : T = To(L, t)
    OBVIOUS
  <2>2. IsFiniteSet(T) /\ e0 \notin T /\ To(L2, t) = T \cup {e0} /\ c = Cardinality(T)
    BY <1>2, <1>6, <2>1
  <2> QED
    BY <2>2, FS_AddElement
<1>8. t \notin UsedIn(ino) => c = 0
  BY <1>6, Unnamed, FS_EmptySet
<1>9. ASSUME NEW i \in UsedIn(ino2)
      PROVE  Cardinality(To(L2, i)) <= Most(ino2, i)
  <2>1. CASE i # t
    BY <1>2, <1>3, <1>9, <2>1 DEF Most
  <2>2. CASE i = t /\ t \in UsedIn(ino)
    <3>1. ino[t].nlink \in Nat /\ c <= ino[t].nlink /\ ino2[t].nlink = ino[t].nlink + 1
      BY <1>3, <1>6, <2>2 DEF Numbers, Most
    <3>2. Most(ino2, t) = ino2[t].nlink
      BY <2>2 DEF Most
    <3> QED
      BY <1>7, <2>2, <3>1, <3>2
  <2>3. CASE i = t /\ t \notin UsedIn(ino)
    <3>1. Most(ino2, t) = 1
      BY <2>3 DEF Most
    <3> QED
      BY <1>7, <1>8, <2>3, <3>1
  <2> QED
    BY <2>1, <2>2, <2>3
<1>10. NamesKept(ino2, L2)
  BY <1>2, <1>3, <1>4, <1>5, <1>9 DEF NamesKept
<1>11. ASSUME NamesAll(ino, L)
       PROVE  NamesAll(ino2, L2)
  <2>1. ASSUME NEW i \in UsedIn(ino2) \ {Root}
        PROVE  To(L2, i) # {} /\ (ino2[i].kind # "dir" => Cardinality(To(L2, i)) = ino2[i].nlink)
    <3>1. CASE i # t
      BY <1>2, <1>11, <2>1, <3>1 DEF NamesAll
    <3>2. CASE i = t /\ t \in UsedIn(ino)
      <4>1. c = ino[t].nlink
        BY <1>6, <1>11, <2>1, <3>2 DEF NamesAll
      <4> QED
        BY <1>2, <1>7, <3>2, <4>1
    <3>3. CASE i = t /\ t \notin UsedIn(ino)
      <4>1. To(L2, i) # {} /\ Cardinality(To(L2, i)) = 1
        <5>1. To(L2, t) # {}
          BY <1>2
        <5>2. c = 0
          BY <1>8, <3>3
        <5>3. Cardinality(To(L2, t)) = 1
          BY <1>7, <5>2
        <5> QED
          BY <3>3, <5>1, <5>3
      <4>2. t \notin UsedIn(ino) /\ ino2[t].kind # "dir" => ino2[t].nlink = 1
        OBVIOUS
      <4> QED
        BY <3>3, <4>1, <4>2
    <3> QED
      BY <3>1, <3>2, <3>3
  <2>2. ASSUME NEW x \in DOMAIN L \ {Root}
        PROVE  L[x].parent \in DOMAIN L
    <3>1. x \in UsedIn(ino) /\ ino[x].kind = "dir"
      BY <1>3, <2>2 DEF DirsIn, UsedIn
    <3>2. PICK e : e \in To(L, x)
      BY <1>11, <2>2, <3>1 DEF NamesAll
    <3>3. e \in All(L) /\ Its(L, e).ino = x
      BY <3>2 DEF To
    <3>4. L[x].parent = e[1]
      BY <1>3, <3>1, <3>3 DEF NameOK
    <3> QED
      BY <3>3, <3>4, AllIs
  <2>3. ASSUME NEW S \in SUBSET (DOMAIN L2 \ {Root}), S # {}
        PROVE  \E x \in S : L2[x].parent \notin S
    <3>1. CASE S \cap DOMAIN L # {}
      <4>1. PICK x \in S \cap DOMAIN L : L[x].parent \notin S \cap DOMAIN L
        <5>1. S \cap DOMAIN L \in SUBSET (DOMAIN L \ {Root})
          OBVIOUS
        <5> QED
          BY <1>11, <3>1, <5>1 DEF NamesAll, Rooted
      <4>2. L[x].parent \in DOMAIN L
        BY <2>2
      <4> QED
        BY <1>2, <4>1, <4>2
    <3>2. CASE S \cap DOMAIN L = {}
      <4>1. k = "dir" /\ S = {t} /\ t \notin DOMAIN L /\ L2[t].parent = d /\ d \in DOMAIN L
        BY <2>3, <3>2 DEF Added
      <4> QED
        BY <4>1
    <3> QED
      BY <3>1, <3>2
  <2> QED
    BY <2>1, <2>3 DEF NamesAll, Rooted
<1> QED
  BY <1>10, <1>11

(* Name n of directory d is gone, and so are the directories in G, which   *)
(* have no names.                                                          *)
Dropped(L, L2, d, n, G, t) ==
    /\ d \in DOMAIN L \ G /\ n \in DOMAIN L[d].names /\ L[d].names[n].ino = t /\ DOMAIN L2 = DOMAIN L \ G
    /\ \A x \in G : DOMAIN L[x].names = {}
    /\ L2[d].parent = L[d].parent /\ DOMAIN L2[d].names = DOMAIN L[d].names \ {n}
    /\ \A x \in DOMAIN L[d].names \ {n} : L2[d].names[x] = L[d].names[x]
    /\ \A x \in DOMAIN L \ (G \cup {d}) : L2[x] = L[x]

(* There is one name e0 less, and the others are as they were.             *)
OneLess(L, L2, e0) ==
    /\ All(L2) = All(L) \ {e0} /\ e0 \in All(L)
    /\ \A e \in All(L2) : Its(L2, e) = Its(L, e)
    /\ \A i : To(L2, i) = To(L, i) \ {e0}
    /\ \A x \in DOMAIN L2 : x \in DOMAIN L /\ L2[x].parent = L[x].parent

(* A name taken out is one less.                                           *)
LEMMA DroppedIs ==
    ASSUME NEW L, NEW L2, NEW d, NEW n, NEW G, NEW t, Dropped(L, L2, d, n, G, t)
    PROVE  OneLess(L, L2, <<d, n>>)
<1>1. PICK e0 : e0 = <<d, n>>
  OBVIOUS
<1>2. e0[1] = d /\ e0[2] = n
  BY <1>1
<1>3. /\ d \in DOMAIN L \ G /\ n \in DOMAIN L[d].names /\ DOMAIN L2 = DOMAIN L \ G
      /\ \A x \in G : DOMAIN L[x].names = {}
      /\ L2[d].parent = L[d].parent /\ DOMAIN L2[d].names = DOMAIN L[d].names \ {n}
      /\ \A x \in DOMAIN L[d].names \ {n} : L2[d].names[x] = L[d].names[x]
      /\ \A x \in DOMAIN L \ (G \cup {d}) : L2[x] = L[x]
  BY DEF Dropped
<1>4. /\ \A e \in All(L) : e = <<e[1], e[2]>> /\ e[1] \in DOMAIN L /\ e[2] \in DOMAIN L[e[1]].names
      /\ \A x \in DOMAIN L : \A m \in DOMAIN L[x].names : <<x, m>> \in All(L)
  BY AllIs
<1>5. /\ \A e \in All(L2) : e = <<e[1], e[2]>> /\ e[1] \in DOMAIN L2 /\ e[2] \in DOMAIN L2[e[1]].names
      /\ \A x \in DOMAIN L2 : \A m \in DOMAIN L2[x].names : <<x, m>> \in All(L2)
  BY AllIs
<1>6. e0 \in All(L) /\ e0 \notin All(L2)
  BY <1>1, <1>2, <1>3, <1>4, <1>5
<1>7. ASSUME NEW e \in All(L2)
      PROVE  e \in All(L) /\ Its(L2, e) = Its(L, e)
  <2>1. e = <<e[1], e[2]>> /\ e[1] \in DOMAIN L2 /\ e[2] \in DOMAIN L2[e[1]].names
    BY <1>5
  <2>2. CASE e[1] = d
    BY <1>3, <1>4, <2>1, <2>2 DEF Its
  <2>3. CASE e[1] # d
    BY <1>3, <1>4, <2>1, <2>3 DEF Its
  <2> QED
    BY <2>2, <2>3
<1>8. ASSUME NEW e \in All(L), e # e0
      PROVE  e \in All(L2)
  <2>1. e = <<e[1], e[2]>> /\ e[1] \in DOMAIN L /\ e[2] \in DOMAIN L[e[1]].names
    BY <1>4
  <2>2. e[1] \in DOMAIN L2
    BY <1>3, <2>1
  <2>3. e[2] \in DOMAIN L2[e[1]].names
    <3>1. CASE e[1] = d
      BY <1>1, <1>3, <1>8, <2>1, <3>1
    <3>2. CASE e[1] # d
      BY <1>3, <2>1, <2>2, <3>2
    <3> QED
      BY <3>1, <3>2
  <2> QED
    BY <1>5, <2>1, <2>2, <2>3
<1>9. All(L2) = All(L) \ {e0}
  BY <1>6, <1>7, <1>8
<1>10. \A i : To(L2, i) = To(L, i) \ {e0}
  BY <1>7, <1>9 DEF To
<1>11. \A x \in DOMAIN L2 : x \in DOMAIN L /\ L2[x].parent = L[x].parent
  BY <1>3
<1> QED
  BY <1>1, <1>6, <1>7, <1>9, <1>10, <1>11 DEF OneLess

(* Inode t has one link less, or is gone when it had no other.             *)
LessIn(ino, ino2, t) ==
    /\ \A i \in UsedIn(ino2) : i \in UsedIn(ino) /\ ino2[i].kind = ino[i].kind
    /\ \A i \in UsedIn(ino) \ {t} : i \in UsedIn(ino2) /\ ino2[i].nlink = ino[i].nlink
    /\ t \in UsedIn(ino2) => ino[t].kind # "dir" /\ ino[t].nlink > 1 /\ ino2[t].nlink = ino[t].nlink - 1
    /\ t \notin UsedIn(ino2) => ino[t].kind = "dir" \/ ino[t].nlink <= 1

(* The name of something is taken out, and with it a link.                 *)
LEMMA NamesDrop ==
    ASSUME NEW ino, NEW ino2, NEW L, NEW L2, NamesKept(ino, L), Numbers(ino),
           \A i : IsFiniteSet(To(L, i)),
           NEW d, NEW n, NEW G, NEW t, Dropped(L, L2, d, n, G, t),
           DOMAIN L2 = DirsIn(ino2), LessIn(ino, ino2, t)
    PROVE  NamesKept(ino2, L2) /\ (NamesAll(ino, L) => NamesAll(ino2, L2))
<1>0. /\ \A i \in UsedIn(ino2) : i \in UsedIn(ino) /\ ino2[i].kind = ino[i].kind
      /\ \A i \in UsedIn(ino) \ {t} : i \in UsedIn(ino2) /\ ino2[i].nlink = ino[i].nlink
      /\ t \in UsedIn(ino2) => ino[t].kind # "dir" /\ ino[t].nlink > 1 /\ ino2[t].nlink = ino[t].nlink - 1
      /\ t \notin UsedIn(ino2) => ino[t].kind = "dir" \/ ino[t].nlink <= 1
  BY DEF LessIn
<1>1. PICK e0 : e0 = <<d, n>>
  OBVIOUS
<1>2. OneLess(L, L2, e0) /\ t = Its(L, e0).ino
  <2>1. OneLess(L, L2, e0)
    BY <1>1, DroppedIs
  <2>2. t = Its(L, e0).ino
    BY <1>1 DEF Its, Dropped
  <2> QED
    BY <2>1, <2>2
<1>3. /\ All(L2) = All(L) \ {e0} /\ e0 \in All(L)
      /\ \A e \in All(L2) : Its(L2, e) = Its(L, e)
      /\ \A i : To(L2, i) = To(L, i) \ {e0}
      /\ \A x \in DOMAIN L2 : x \in DOMAIN L /\ L2[x].parent = L[x].parent
  BY <1>2 DEF OneLess
<1>4. /\ \A e \in All(L) : NameOK(ino, L, e)
      /\ \A i \in UsedIn(ino) : Cardinality(To(L, i)) <= Most(ino, i)
      /\ DOMAIN L = DirsIn(ino) /\ Root \in DOMAIN L
  BY DEF NamesKept
<1>5. t \in UsedIn(ino) \ {Root} /\ e0 \in To(L, t)
  BY <1>2, <1>3, <1>4 DEF NameOK, To
<1>6. PICK c \in Nat : c = Cardinality(To(L, t)) /\ c <= Most(ino, t)
  BY <1>4, <1>5, FS_CardinalityType
<1>7. Cardinality(To(L2, t)) = c - 1
  <2>1. PICK T : T = To(L, t)
    OBVIOUS
  <2>2. IsFiniteSet(T) /\ e0 \in T /\ To(L2, t) = T \ {e0} /\ c = Cardinality(T)
    BY <1>3, <1>5, <1>6, <2>1
  <2> QED
    BY <2>2, FS_RemoveElement
<1>8. ASSUME t \notin UsedIn(ino2)
      PROVE  To(L2, t) = {}
  <2>1. c <= 1
    <3>1. ino[t].nlink \in Nat
      BY <1>5 DEF Numbers
    <3>2. Most(ino, t) \in Nat /\ Most(ino, t) <= 1
      BY <1>0, <1>8, <3>1 DEF Most
    <3> QED
      BY <1>6, <3>2
  <2>2. IsFiniteSet(To(L2, t))
    BY <1>3, FS_Subset
  <2>3. PICK T : T = To(L2, t)
    OBVIOUS
  <2>4. IsFiniteSet(T) /\ Cardinality(T) = c - 1 /\ Cardinality(T) \in Nat
    BY <1>7, <2>2, <2>3, FS_CardinalityType
  <2>5. Cardinality(T) = 0
    BY <2>1, <2>4
  <2> QED
    BY <2>3, <2>4, <2>5, FS_EmptySet
<1>9. \A i : i # t => To(L2, i) = To(L, i)
  BY <1>2, <1>3 DEF To
<1>10. Root \in DOMAIN L2
  <2>1. Root \in UsedIn(ino) /\ ino[Root].kind = "dir"
    BY <1>4 DEF DirsIn, UsedIn
  <2>2. Root \in UsedIn(ino2) /\ ino2[Root].kind = "dir"
    BY <1>0, <1>5, <2>1
  <2> QED
    BY <2>2 DEF DirsIn, UsedIn
<1>11. ASSUME NEW e \in All(L2)
       PROVE  NameOK(ino2, L2, e)
  <2>1. PICK y : y = Its(L, e) /\ y = Its(L2, e)
    BY <1>3
  <2>2. /\ y.ino \in UsedIn(ino) \ {Root} /\ ino[y.ino].kind = y.kind
        /\ y.kind = "dir" => L[y.ino].parent = e[1]
    BY <1>3, <1>4, <2>1 DEF NameOK
  <2>3. y.ino \in UsedIn(ino2)
    <3>1. CASE y.ino # t
      BY <1>0, <2>2, <3>1
    <3>2. CASE y.ino = t
      <4>1. e \in To(L2, t)
        BY <2>1, <3>2 DEF To
      <4> QED
        BY <1>8, <3>2, <4>1
    <3> QED
      BY <3>1, <3>2
  <2>4. ino2[y.ino].kind = y.kind
    BY <1>0, <2>2, <2>3
  <2>5. y.kind = "dir" => y.ino \in DOMAIN L2
    BY <2>3, <2>4 DEF DirsIn, UsedIn
  <2> QED
    BY <1>3, <2>1, <2>2, <2>3, <2>4, <2>5 DEF NameOK
<1>12. ASSUME NEW i \in UsedIn(ino2)
       PROVE  Cardinality(To(L2, i)) <= Most(ino2, i)
  <2>1. CASE i # t
    BY <1>0, <1>4, <1>9, <1>12, <2>1 DEF Most
  <2>2. CASE i = t
    <3>1. ino[t].nlink \in Nat /\ c <= ino[t].nlink /\ ino2[t].nlink = ino[t].nlink - 1
      BY <1>0, <1>5, <1>6, <1>12, <2>2 DEF Numbers, Most
    <3>2. Most(ino2, t) = ino2[t].nlink
      BY <1>0, <1>12, <2>2 DEF Most
    <3> QED
      BY <1>7, <2>2, <3>1, <3>2
  <2> QED
    BY <2>1, <2>2
<1>13. NamesKept(ino2, L2)
  BY <1>10, <1>11, <1>12 DEF NamesKept
<1>14. ASSUME NamesAll(ino, L)
       PROVE  NamesAll(ino2, L2)
  <2>1. ASSUME NEW i \in UsedIn(ino2) \ {Root}
        PROVE  To(L2, i) # {} /\ (ino2[i].kind # "dir" => Cardinality(To(L2, i)) = ino2[i].nlink)
    <3>1. CASE i # t
      BY <1>0, <1>9, <1>14, <2>1, <3>1 DEF NamesAll
    <3>2. CASE i = t
      <4>1. ino[t].nlink \in Nat /\ ino[t].nlink > 1 /\ ino2[t].nlink = ino[t].nlink - 1 /\ ino[t].kind # "dir"
        BY <1>0, <1>5, <2>1, <3>2 DEF Numbers
      <4>2. c = ino[t].nlink
        BY <1>5, <1>6, <1>14, <4>1 DEF NamesAll
      <4>3. Cardinality(To(L2, t)) = ino2[t].nlink /\ Cardinality(To(L2, t)) # 0
        BY <1>7, <4>1, <4>2
      <4> QED
        BY <3>2, <4>3, FS_EmptySet
    <3> QED
      BY <3>1, <3>2
  <2>2. ASSUME NEW S \in SUBSET (DOMAIN L2 \ {Root}), S # {}
        PROVE  \E x \in S : L2[x].parent \notin S
    <3>1. S \in SUBSET (DOMAIN L \ {Root})
      BY <1>3, <2>2
    <3>2. PICK x \in S : L[x].parent \notin S
      BY <1>14, <2>2, <3>1 DEF NamesAll, Rooted
    <3>3. L2[x].parent = L[x].parent
      BY <1>3, <2>2
    <3> QED
      BY <3>2, <3>3
  <2> QED
    BY <2>1, <2>2 DEF NamesAll, Rooted
<1> QED
  BY <1>13, <1>14

-----------------------------------------------------------------------------
(* The lists that readers see, and the invariant.                          *)

Listing == [d \in DirsIn(inode) |-> DirOf(d)]
Listed == DOMAIN dirs \subseteq DOMAIN inode /\ \A d \in DOMAIN dirs : ListOK(dirs[d], DOMAIN inode)

(* Lists are held for directories; the others' link counts are right.      *)
ListsKept ==
    /\ DOMAIN dirs \cup DOMAIN fl.todo \subseteq DirsIn(inode)
    /\ \A d \in DirsIn(inode) \ (DOMAIN dirs \cup DOMAIN fl.todo) :
          inode[d].nlink = 2 + Cardinality(SubDirNames(inode[d].body))

(* What a flush has in hand.                                               *)
FlushPart ==
    /\ fl.pc = "idle" => fl = IdleFlush
    /\ fl.pc # "idle" => DOMAIN dirs = {}
    /\ fl.pc \in {"ags", "write"} => DOMAIN fl.todo = {}

(* What holds unless an error has cost more than space, ...                *)
Sound ==
    /\ OneOwner(inode, chunks, free) /\ Stored /\ ifree \cap InUse = {}
    /\ NamesKept(inode, Listing) /\ ListsKept /\ GroupsKept

(* ... what holds unless one has cost anything, ...                        *)
Whole ==
    /\ free \cup chunks \cup AllForks = Blocks /\ ifree = DOMAIN inode \ InUse
    /\ NamesAll(inode, Listing)

(* ... and what a flush leaves.                                            *)
Flushed ==
    /\ fl.pc = "idle" /\ dirty = {} /\ DOMAIN dirs = {}
    /\ sbc = [free |-> SumOver([a \in Ags |-> hdr[a].free]),
              icount |-> SumOver([a \in Ags |-> hdr[a].chunks]) * ChunkInodes,
              ifree |-> SumOver([a \in Ags |-> hdr[a].ifree])]

IInv ==
    /\ TypeOK /\ FlushPart
    /\ failed # "yes" => Sound /\ (last = "ok" => Flushed)
    /\ failed = "no" => Whole

(* What a step does to what readers see.  An inode in use stays what it    *)
(* is; nothing changes but for directories that have no name; one inode    *)
(* changes and the lists stay; a name more, and a name less, with the      *)
(* directory that it was for.                                              *)
GoneWith(i) == IF inode[i].kind = "dir" THEN {i} ELSE {}
Stays(j) ==
    /\ j \in InUse' /\ inode'[j].kind = inode[j].kind /\ inode'[j].perms = inode[j].perms
    /\ inode[j].kind # "dir" => inode'[j].body = inode[j].body
Quiet ==
    /\ \A j \in InUse : Stays(j)
    /\ \A d \in DOMAIN Listing : d \in DOMAIN Listing' /\ Listing'[d] = Listing[d]
Touches(i) ==
    /\ InUse' = InUse /\ inode'[i].kind = inode[i].kind /\ (\A j \in InUse \ {i} : Stays(j))
    /\ Listing' = Listing
Gains(d, n, i, k) ==
    /\ Added(Listing, Listing', d, n, i, k) /\ (\A j \in InUse : Stays(j))
    /\ i \in InUse' /\ (i \in InUse => k # "dir")
Loses(e, i) ==
    /\ Dropped(Listing, Listing', e[1], e[2], GoneWith(i), i)
    /\ (\A j \in InUse \ {i} : Stays(j)) /\ (i \in InUse' => Stays(i))
Seen ==
    \/ Quiet
    \/ /\ fl' = fl /\ fl.pc = "idle"
       /\ \/ \E i \in {Root} \cup {Entry(e).ino : e \in Entries} : Touches(i)
          \/ \E d \in LiveDirs : \E n, i, k : Gains(d, n, i, k)
          \/ \E e \in Entries : \E i : Loses(e, i)

(* The parts of the shape.                                                 *)
LEMMA Typed ==
    ASSUME TypeOK
    PROVE  Fit /\ Listed /\ Lined
BY DEF TypeOK, Fit, Listed, Lined, GroupsOK, InodesOK

(* Every directory has its list.                                           *)
LEMMA ListingOK ==
    ASSUME Fit, Listed, Lined
    PROVE  /\ DOMAIN Listing = DirsIn(inode)
           /\ \A d \in DirsIn(inode) : Listing[d] = DirOf(d) /\ ListOK(DirOf(d), DOMAIN inode)
           /\ \A i : IsFiniteSet(To(Listing, i))
           /\ Numbers(inode)
<1>1. DOMAIN Listing = DirsIn(inode) /\ \A d \in DirsIn(inode) : Listing[d] = DirOf(d)
  BY DEF Listing
<1>2. ASSUME NEW d \in DirsIn(inode)
      PROVE  ListOK(DirOf(d), DOMAIN inode)
  <2>1. d \in DOMAIN inode /\ inode[d].kind = "dir"
    BY DEF DirsIn
  <2>2. InodeOK(inode[d], DOMAIN inode)
    BY <2>1 DEF Fit, InodesOK
  <2>3. ListOK(inode[d].body, DOMAIN inode)
    BY <2>1, <2>2 DEF InodeOK
  <2> QED
    BY <2>3 DEF Listed, Lined, DirOf
<1>3. \A d \in DirsIn(inode) : IsFiniteSet(DOMAIN Listing[d].names)
  BY <1>1, <1>2 DEF ListOK
<1>4. IsFiniteSet(DirsIn(inode))
  <2>1. chunks \subseteq Blocks /\ DOMAIN inode = UNION {InodesOf(b) : b \in chunks}
    BY DEF Fit, GroupsOK
  <2>2. IsFiniteSet(DOMAIN inode)
    BY <2>1, InodesCount
  <2>3. DirsIn(inode) \subseteq DOMAIN inode
    BY DEF DirsIn
  <2> QED
    BY <2>2, <2>3, FS_Subset
<1>5. \A i : IsFiniteSet(To(Listing, i))
  <2>1. PICK L : L = Listing
    OBVIOUS
  <2>2. IsFiniteSet(DOMAIN L) /\ \A d \in DOMAIN L : IsFiniteSet(DOMAIN L[d].names)
    BY <1>1, <1>3, <1>4, <2>1
  <2>3. \A i : IsFiniteSet(To(L, i))
    BY <2>2, AllFinite
  <2> QED
    BY <2>1, <2>3
<1>6. Numbers(inode)
  BY DEF Fit, InodesOK, InodeOK, Numbers, UsedIn
<1> QED
  BY <1>1, <1>2, <1>5, <1>6

(* The directories and names that a path can lead to are some of them.     *)
LEMMA LiveIs ==
    /\ LiveDirs \subseteq DirsIn(inode)
    /\ \A e \in Entries : /\ e \in All(Listing) /\ e = <<e[1], e[2]>> /\ e[1] \in DirsIn(inode)
                          /\ e[2] \in DOMAIN View(e[1]) /\ Its(Listing, e) = View(e[1])[e[2]]
<1>1. LiveDirs \subseteq DirsIn(inode)
  BY DEF LiveDirs
<1>2. ASSUME NEW e \in Entries
      PROVE  /\ e \in All(Listing) /\ e = <<e[1], e[2]>> /\ e[1] \in DirsIn(inode)
             /\ e[2] \in DOMAIN View(e[1]) /\ Its(Listing, e) = View(e[1])[e[2]]
  <2>1. PICK d \in LiveDirs : \E n \in DOMAIN View(d) : e = <<d, n>>
    BY DEF Entries
  <2> PICK n \in DOMAIN View(d) : e = <<d, n>>
    BY <2>1
  <2>2. d \in DirsIn(inode) /\ e[1] = d /\ e[2] = n
    BY <1>1
  <2>3. Listing[d] = DirOf(d) /\ d \in DOMAIN Listing
    BY <2>2 DEF Listing
  <2>4. n \in DOMAIN Listing[d].names
    BY <2>3 DEF View
  <2>5. e \in All(Listing)
    BY <2>1, <2>3, <2>4, AllIs
  <2>6. Its(Listing, e) = View(d)[n]
    BY <2>2, <2>3 DEF Its, View
  <2> QED
    BY <2>1, <2>2, <2>5, <2>6
<1> QED
  BY <1>1, <1>2

(* What a name that a call is given stands for.                            *)
LEMMA EntryIs ==
    ASSUME NamesKept(inode, Listing), NEW e \in Entries, NEW y, y = View(e[1])[e[2]]
    PROVE  /\ y.ino \in InUse \ {Root} /\ inode[y.ino].kind = y.kind
           /\ y.kind = "dir" => y.ino \in DirsIn(inode) /\ DirOf(y.ino).parent = e[1]
<1>1. NameOK(inode, Listing, e) /\ y = Its(Listing, e)
  BY LiveIs DEF NamesKept
<1>2. /\ y.ino \in UsedIn(inode) \ {Root} /\ inode[y.ino].kind = y.kind
      /\ y.kind = "dir" => Listing[y.ino].parent = e[1]
  BY <1>1 DEF NameOK
<1>3. y.kind = "dir" => y.ino \in DirsIn(inode)
  BY <1>2 DEF DirsIn, UsedIn
<1>4. \A d \in DirsIn(inode) : Listing[d] = DirOf(d)
  BY DEF Listing
<1> QED
  BY <1>2, <1>3, <1>4 DEF InUse

-----------------------------------------------------------------------------
(* Calls.                                                                  *)

(* What each of them does to the rest of the state.                        *)
Counts ==
    /\ calls' \in 0 .. MaxCalls /\ faults' \in 0 .. MaxFaults /\ last' = "none" /\ new_chunks' \in Nat
    /\ UNCHANGED <<diskVars, fl, icount>>
    /\ failed' \in {"no", "leak", "yes"} /\ (failed' = "no" => failed = "no")

(* A call is made between flushes, when nothing is wrong.                  *)
LEMMA CallReady ==
    ASSUME IInv, MayCall
    PROVE  /\ failed # "yes" /\ fl = IdleFlush /\ DOMAIN fl.todo = {} /\ fl.pc = "idle"
           /\ Sound /\ Ready /\ Fit /\ Listed /\ Lined
<1>1. failed # "yes" /\ fl = IdleFlush /\ fl.pc = "idle" /\ Sound
  BY DEF IInv, MayCall, FlushPart
<1>2. DOMAIN fl.todo = {}
  BY <1>1 DEF IdleFlush
<1>3. Fit /\ Listed /\ Lined
  BY Typed DEF IInv
<1>4. Ready
  BY <1>1, <1>3 DEF Sound, Fit, Ready
<1> QED
  BY <1>1, <1>2, <1>3, <1>4

(* It keeps the invariant when it keeps the names.                         *)
LEMMA CallKeeps ==
    ASSUME IInv, MayCall, NEW i, NEW chunk, Effect(i, chunk), failed' # "yes" => Moves(i, chunk) /\ Marks(chunk),
           Counts, Listed',
           failed' # "yes" => (ifree \cap InUse = {} /\ NamesKept(inode, Listing) /\ ListsKept)',
           failed' = "no" => (ifree = DOMAIN inode \ InUse /\ NamesAll(inode, Listing))'
    PROVE  IInv'
<1>1. /\ failed # "yes" /\ fl = IdleFlush /\ DOMAIN fl.todo = {} /\ fl.pc = "idle"
      /\ Sound /\ Ready /\ Fit /\ Listed /\ Lined
  BY CallReady
<1>2. GroupsOK' /\ InodesOK' /\ DOMAIN inode \subseteq DOMAIN inode'
  BY <1>1, EffectShape DEF Fit
<1>3. fl' = fl /\ hdr' = hdr /\ dag' = dag /\ sbc' = sbc /\ icount' = icount
  BY DEF Counts, diskVars
<1>4. TypeOK'
  <2>1. /\ free' \subseteq Blocks /\ chunks' \subseteq Blocks /\ dirty' \subseteq Ags
        /\ DOMAIN inode' = UNION {InodesOf(b) : b \in chunks'} /\ ifree' \subseteq DOMAIN inode'
        /\ DOMAIN held' = Blocks
    BY <1>2 DEF GroupsOK, Effect
  <2>2. \A j \in DOMAIN inode' : InodeOK(inode'[j], DOMAIN inode')
    BY <1>2 DEF InodesOK
  <2>3. DOMAIN dirs' \subseteq DOMAIN inode' /\ \A d \in DOMAIN dirs' : ListOK(dirs'[d], DOMAIN inode')
    BY DEF Listed
  <2>4. /\ fl' = [pc |-> fl'.pc, todo |-> fl'.todo, ags |-> fl'.ags, pending |-> fl'.pending]
        /\ fl'.pc \in {"idle", "dirs", "ags", "write"} /\ fl'.ags \subseteq Ags /\ fl'.pending \subseteq Ags
    BY <1>3 DEF IInv, TypeOK
  <2>5. /\ DOMAIN fl'.todo \subseteq DOMAIN inode'
        /\ \A d \in DOMAIN fl'.todo : ListOK(fl'.todo[d], DOMAIN inode')
    BY <1>1, <1>3
  <2>6. DOMAIN hdr' = Ags /\ DOMAIN dag' = Ags /\ \A a \in Ags : AgImageOK(hdr[a])' /\ AgImageOK(dag[a])'
    <3>1. DOMAIN hdr = Ags /\ DOMAIN dag = Ags /\ \A a \in Ags : AgImageOK(hdr[a]) /\ AgImageOK(dag[a])
      BY DEF IInv, TypeOK
    <3> QED
      BY <1>2, <1>3, <3>1 DEF AgImageOK
  <2>7. icount' \in Nat
    BY <1>3 DEF IInv, TypeOK
  <2>8. /\ new_chunks' \in Nat /\ calls' \in 0 .. MaxCalls /\ faults' \in 0 .. MaxFaults
        /\ last' \in {"none", "ok", "err"} /\ failed' \in {"no", "leak", "yes"}
    BY DEF Counts
  <2> QED
    BY <2>1, <2>2, <2>3, <2>4, <2>5, <2>6, <2>7, <2>8 DEF TypeOK
<1>5. FlushPart'
  BY <1>1, <1>3 DEF FlushPart, IdleFlush
<1>6. ASSUME failed' # "yes"
      PROVE  Sound'
  <2>1. Moves(i, chunk) /\ Marks(chunk) /\ Around(i, chunk)
    BY <1>6 DEF Effect
  <2>2. OneOwner(inode, chunks, free)'
    BY <1>1, <2>1, OwnerStays DEF Sound, Fit
  <2>3. Stored'
    BY <1>1, <2>1, StoredStays DEF Sound, Fit
  <2>4. GroupsKept'
    <3>1. dirty \subseteq dirty' /\ chunk \subseteq free /\ chunks' = chunks \cup chunk
      BY <2>1 DEF Marks, Around
    <3>2. ASSUME NEW a \in Ags \ dirty'
          PROVE  hdr'[a] = Snapshot(a)'
      <4>1. Snapshot(a)' = Snapshot(a)
        BY <1>1, <1>2, <2>1, <3>1, MarksKeep DEF Fit
      <4>2. hdr[a] = Snapshot(a)
        BY <1>1, <3>1 DEF Sound, GroupsKept
      <4> QED
        BY <1>3, <4>1, <4>2
    <3>3. \A a \in Ags \ fl'.pending : dag'[a] = hdr'[a]
      BY <1>1, <1>3 DEF Sound, GroupsKept
    <3> QED
      BY <1>1, <1>3, <3>2, <3>3 DEF GroupsKept
  <2> QED
    BY <1>6, <2>2, <2>3, <2>4 DEF Sound
<1>7. ASSUME failed' = "no"
      PROVE  Whole'
  <2>1. failed = "no" /\ Moves(i, chunk) /\ Around(i, chunk)
    BY <1>7 DEF Counts, Effect
  <2>2. free \cup chunks \cup AllForks = Blocks
    BY <2>1 DEF IInv, Whole
  <2>3. (free \cup chunks \cup AllForks)' = Blocks
    BY <1>1, <1>7, <2>1, <2>2, OwnerStays DEF Sound, Fit
  <2> QED
    BY <1>7, <2>3 DEF Whole
<1>8. last' # "ok"
  BY DEF Counts
<1> QED
  BY <1>4, <1>5, <1>6, <1>7, <1>8 DEF IInv

(* The lists of a call: those in memory, then those on the device.         *)
LEMMA IdleLists ==
    ASSUME DOMAIN fl.todo = {}, fl' = fl
    PROVE  /\ \A d : DirOf(d) = IF d \in DOMAIN dirs THEN dirs[d] ELSE inode[d].body
           /\ \A d : DirOf(d)' = IF d \in DOMAIN dirs' THEN dirs'[d] ELSE inode'[d].body
<1>1. \A d : DirOf(d) = IF d \in DOMAIN dirs THEN dirs[d] ELSE inode[d].body
  BY DEF DirOf
<1>2. DOMAIN fl'.todo = {}
  OBVIOUS
<1>3. \A d : DirOf(d)' = IF d \in DOMAIN dirs' THEN dirs'[d] ELSE inode'[d].body
  BY <1>2 DEF DirOf
<1> QED
  BY <1>1, <1>3

(* They are held for directories still.                                    *)
LEMMA ListsStay ==
    ASSUME ListsKept, DOMAIN fl.todo = {}, fl' = fl, NEW i, NEW chunk, Around(i, chunk),
           DOMAIN dirs' \subseteq DirsIn(inode'), DOMAIN dirs \subseteq DOMAIN dirs' \cup {i},
           i \in DirsIn(inode') =>
              \/ i \in DOMAIN dirs'
              \/ /\ i \in DirsIn(inode) \ DOMAIN dirs
                 /\ inode'[i].nlink = inode[i].nlink /\ inode'[i].body = inode[i].body
    PROVE  ListsKept'
<1>1. DOMAIN fl'.todo = {}
  OBVIOUS
<1>2. ASSUME NEW d \in DirsIn(inode') \ DOMAIN dirs'
      PROVE  inode'[d].nlink = 2 + Cardinality(SubDirNames(inode'[d].body))
  <2>1. d \in DirsIn(inode) \ DOMAIN dirs /\ inode'[d].nlink = inode[d].nlink /\ inode'[d].body = inode[d].body
    <3>1. CASE d = i
      BY <1>2, <3>1
    <3>2. CASE d # i
      <4>1. d \in DOMAIN inode' /\ inode'[d].kind = "dir"
        BY <1>2 DEF DirsIn
      <4>2. d \in DOMAIN inode
        BY <3>2, <4>1 DEF Around, Idle
      <4>3. inode'[d] = inode[d]
        BY <3>2, <4>2 DEF Around
      <4> QED
        BY <1>2, <3>2, <4>1, <4>2, <4>3 DEF DirsIn
    <3> QED
      BY <3>1, <3>2
  <2> QED
    BY <2>1 DEF ListsKept
<1> QED
  BY <1>1, <1>2 DEF ListsKept

(* One inode in use changes and is what it was: so are the others.         *)
LEMMA SameKinds ==
    ASSUME NEW i \in InUse, Around(i, {}), inode'[i].kind = inode[i].kind
    PROVE  DOMAIN inode' = DOMAIN inode /\ InUse' = InUse /\ DirsIn(inode') = DirsIn(inode)
<1>1. DOMAIN inode' = DOMAIN inode /\ i \in DOMAIN inode
  BY DEF Around, InUse, UsedIn
<1>2. \A j \in DOMAIN inode : inode'[j].kind = inode[j].kind
  BY <1>1 DEF Around
<1> QED
  BY <1>1, <1>2 DEF InUse, UsedIn, DirsIn

(* A call that names nothing and removes no name.                          *)
LEMMA PlainCall ==
    ASSUME IInv, MayCall, NEW i \in InUse, Keeps(i), Counts, dirs' = dirs, ifree' = ifree,
           inode'[i].kind = inode[i].kind, inode'[i].nlink >= inode[i].nlink,
           inode[i].kind = "dir" => inode'[i].nlink = inode[i].nlink /\ inode'[i].body = inode[i].body,
           failed' = "no" => inode'[i].nlink = inode[i].nlink
    PROVE  IInv' /\ Touches(i)
<1>1. /\ failed # "yes" /\ fl = IdleFlush /\ DOMAIN fl.todo = {} /\ fl.pc = "idle"
      /\ Sound /\ Ready /\ Fit /\ Listed /\ Lined
  BY CallReady
<1>2. Effect(i, {}) /\ Around(i, {}) /\ fl' = fl
  BY DEF Keeps, Effect, Counts
<1>3. DOMAIN inode' = DOMAIN inode /\ InUse' = InUse /\ DirsIn(inode') = DirsIn(inode)
  BY <1>2, SameKinds
<1>4. \A j \in DOMAIN inode \ {i} : inode'[j] = inode[j]
  BY <1>2 DEF Around
<1>5. ASSUME NEW d \in DirsIn(inode)
      PROVE  inode'[d].body = inode[d].body /\ inode'[d].nlink = inode[d].nlink
  <2>1. d \in DOMAIN inode /\ inode[d].kind = "dir"
    BY DEF DirsIn
  <2> QED
    BY <1>4, <2>1
<1>6. Listing' = Listing
  <2>1. \A d \in DirsIn(inode) : DirOf(d)' = DirOf(d)
    BY <1>1, <1>2, <1>5, IdleLists
  <2> QED
    BY <1>3, <2>1 DEF Listing
<1>7. Listed'
  BY <1>1, <1>3 DEF Listed
<1>8. ListsKept'
  BY <1>1, <1>2, <1>3, <1>5 DEF ListsKept, Sound
<1>9. PICK L : L = Listing
  OBVIOUS
<1>10. Numbers(inode) /\ (\A x : IsFiniteSet(To(L, x))) /\ DOMAIN L = DirsIn(inode)
  BY <1>1, <1>9, ListingOK
<1>11. Numbers(inode')
  <2>1. InodesOK'
    BY <1>1, <1>2, EffectShape DEF Fit
  <2> QED
    BY <2>1 DEF InodesOK, InodeOK, Numbers, UsedIn
<1>12. \A j \in UsedIn(inode) : /\ j \in UsedIn(inode') /\ inode'[j].kind = inode[j].kind
                                /\ inode[j].kind # "dir" => inode'[j].nlink >= inode[j].nlink
  <2>1. \A j \in UsedIn(inode) : j \in UsedIn(inode') /\ j \in DOMAIN inode /\ inode[j].nlink \in Nat
    BY <1>3, <1>10 DEF InUse, Numbers, UsedIn
  <2> QED
    BY <1>4, <2>1
<1>13. NamesKept(inode', L) /\ (failed' = "no" => NamesAll(inode', L))
  <2>1. NamesKept(inode, L) /\ (failed = "no" => NamesAll(inode, L))
    BY <1>1, <1>9 DEF Sound, IInv, Whole
  <2>2. UsedIn(inode') \subseteq UsedIn(inode) /\ DOMAIN L = DirsIn(inode')
    BY <1>3, <1>10 DEF InUse
  <2>3. /\ NamesKept(inode', L)
        /\ NamesAll(inode, L) /\ (\A j \in UsedIn(inode) : inode[j].kind # "dir" => inode'[j].nlink = inode[j].nlink)
              => NamesAll(inode', L)
    BY <1>10, <1>11, <1>12, <2>1, <2>2, NamesStay
  <2>4. failed' = "no" => \A j \in UsedIn(inode) : inode'[j].nlink = inode[j].nlink
    BY <1>4 DEF UsedIn
  <2>5. failed' = "no" => failed = "no"
    BY DEF Counts
  <2> QED
    BY <2>1, <2>3, <2>4, <2>5
<1>14. NamesKept(inode, Listing)' /\ (failed' = "no" => NamesAll(inode, Listing)')
  BY <1>6, <1>9, <1>13
<1>15. (ifree \cap InUse = {})'
  BY <1>1, <1>3 DEF Sound
<1>16. failed' = "no" => (ifree = DOMAIN inode \ InUse)'
  BY <1>3 DEF Counts, IInv, Whole
<1>17. failed' # "yes" => Moves(i, {}) /\ Marks({})
  BY DEF Keeps
<1>18. IInv'
  BY <1>2, <1>7, <1>8, <1>14, <1>15, <1>16, <1>17, CallKeeps
<1>19. \A j \in InUse \ {i} : inode'[j] = inode[j]
  BY <1>4 DEF InUse, UsedIn
<1> QED
  BY <1>3, <1>6, <1>18, <1>19 DEF Touches, Stays

(* It is made between flushes, and touches an inode that has a name.       *)
LEMMA CallSeen ==
    ASSUME MayCall, Counts, NEW i, Touches(i), i = Root \/ \E e \in Entries : i = Entry(e).ino
    PROVE  Seen
BY DEF MayCall, Counts, Seen

(* What a call counts.                                                     *)
LEMMA CallCounts ==
    ASSUME TypeOK, icount' = icount, new_chunks' = new_chunks \/ new_chunks' \in Nat
    PROVE  /\ Call => Counts
           /\ CallFails /\ failed' \in {"leak", "yes"} => Counts
           /\ CallFails /\ failed' = failed => Counts
<1>1. MaxCalls \in Nat /\ MaxFaults \in Nat
  BY WriterAssumption
<1>2. calls \in 0 .. MaxCalls /\ faults \in 0 .. MaxFaults /\ new_chunks \in Nat /\ failed \in {"no", "leak", "yes"}
  BY DEF TypeOK
<1>3. Call => Counts
  <2>1. SUFFICES ASSUME Call PROVE Counts
    OBVIOUS
  <2>2. calls' \in 0 .. MaxCalls
    BY <1>1, <1>2, <2>1 DEF Call, MayCall
  <2> QED
    BY <1>2, <2>1, <2>2 DEF Call, Counts
<1>4. ASSUME CallFails, failed' \in {"leak", "yes"} \/ failed' = failed
      PROVE  Counts
  <2>1. calls' \in 0 .. MaxCalls /\ faults' \in 0 .. MaxFaults
    BY <1>1, <1>2, <1>4 DEF CallFails, MayCall
  <2>2. failed' \in {"no", "leak", "yes"} /\ (failed' = "no" => failed = "no")
    BY <1>2, <1>4
  <2> QED
    BY <1>2, <1>4, <2>1, <2>2 DEF CallFails, Counts
<1> QED
  BY <1>3, <1>4

(* `write_file` of a file that is there.                                   *)
LEMMA ReplaceStep ==
    ASSUME IInv, MayCall, NEW e \in Entries, NEW c \in Contents, NEW nb \in BmbtSizes, NEW p,
           Replace(e[1], e[2], c, nb, p) \/ ReplaceFails(e[1], e[2], c, nb)
    PROVE  IInv' /\ Seen
<1>1. failed # "yes" /\ Sound /\ Ready
  BY CallReady
<1>2. PICK y : y = View(e[1])[e[2]]
  OBVIOUS
<1>3. PICK i : i = y.ino
  OBVIOUS
<1>4. i \in InUse \ {Root} /\ inode[i].kind = y.kind
  BY <1>1, <1>2, <1>3, EntryIs DEF Sound
<1>5. y.kind = "file"
  BY <1>2 DEF Replace, ReplaceFails
<1>6. Keeps(i)
  BY <1>1, <1>2, <1>3, <1>4, <1>5, ReplaceKeeps
<1>7. dirs' = dirs /\ ifree' = ifree /\ icount' = icount /\ new_chunks' = new_chunks
  BY DEF Replace, ReplaceFails, memVars, CallFails
<1>8. Counts
  <2>1. CASE Replace(e[1], e[2], c, nb, p)
    BY <1>7, <2>1, CallCounts DEF Replace, IInv
  <2>2. CASE ReplaceFails(e[1], e[2], c, nb)
    <3>1. CallFails /\ (failed' \in {"leak", "yes"} \/ failed' = failed)
      BY <2>2 DEF ReplaceFails
    <3> QED
      BY <1>7, <3>1, CallCounts DEF IInv
  <2> QED
    BY <2>1, <2>2
<1>9. inode' = inode \/ \E D, B : inode' = [inode EXCEPT ![i] = Rewrite(inode[i], D, B, c, p)]
  BY <1>2, <1>3 DEF Replace, ReplaceFails, Rewrite
<1>10. inode'[i].kind = inode[i].kind /\ inode'[i].nlink = inode[i].nlink /\ inode[i].nlink \in Nat
  <2>1. i \in DOMAIN inode /\ Shape(inode[i]) /\ inode[i].nlink \in Nat
    BY <1>1, <1>4, UsedIs
  <2>2. ASSUME NEW D, NEW B, inode' = [inode EXCEPT ![i] = Rewrite(inode[i], D, B, c, p)]
        PROVE  inode'[i].kind = inode[i].kind /\ inode'[i].nlink = inode[i].nlink
    <3>1. inode'[i] = Rewrite(inode[i], D, B, c, p)
      BY <2>1, <2>2
    <3>2. PICK r : r = inode[i]
      OBVIOUS
    <3>3. PICK s : s = inode'[i]
      OBVIOUS
    <3>4. s.kind = r.kind /\ s.nlink = r.nlink
      BY <2>1, <3>1, <3>2, <3>3, Rewritten
    <3> QED
      BY <3>2, <3>3, <3>4
  <2> QED
    BY <1>9, <2>1, <2>2
<1>11. inode[i].kind # "dir" /\ inode'[i].nlink >= inode[i].nlink
  BY <1>4, <1>5, <1>10
<1>12. IInv' /\ Touches(i)
  BY <1>4, <1>6, <1>7, <1>8, <1>10, <1>11, PlainCall
<1> QED
  BY <1>2, <1>3, <1>8, <1>12, CallSeen DEF Entry

(* `chmod`, and a `link` that is counted and not made.                     *)
LEMMA MarkStep ==
    ASSUME IInv, MayCall, NEW i \in InUse, NEW p,
           \/ chmod(i, p)
           \/ /\ CallFails /\ inode' = [inode EXCEPT ![i].nlink = @ + 1] /\ Lost /\ inode[i].kind # "dir"
              /\ UNCHANGED <<held, agVars, dirs, new_chunks>>
    PROVE  IInv' /\ Counts /\ Touches(i)
<1>1. Sound /\ Ready
  BY CallReady
<1>2. PICK l : l = inode[i].nlink + 1
  OBVIOUS
<1>3. i \in DOMAIN inode /\ inode[i].nlink \in Nat /\ l \in Nat
  BY <1>1, <1>2, UsedIs
<1>4. /\ dirs' = dirs /\ ifree' = ifree /\ icount' = icount /\ new_chunks' = new_chunks
      /\ UNCHANGED <<held, agVars>> /\ (failed' = failed \/ failed' = "leak")
  BY DEF chmod, Call, CallFails, Lost, agVars, memVars
<1>5. Counts
  <2>1. CASE chmod(i, p)
    BY <1>4, <2>1, CallCounts DEF chmod, IInv
  <2>2. CASE CallFails /\ Lost
    BY <1>4, <2>2, CallCounts DEF Lost, IInv
  <2> QED
    BY <2>1, <2>2
<1>6. \/ inode' = [inode EXCEPT ![i] = WithPerms(inode[i], p)]
      \/ inode' = [inode EXCEPT ![i] = WithLinks(inode[i], l)] /\ failed' = "leak" /\ inode[i].kind # "dir"
  BY <1>2, FieldIs DEF chmod, Lost
<1>7. /\ Keeps(i) /\ inode'[i].kind = inode[i].kind /\ inode'[i].body = inode[i].body
      /\ inode' = [inode EXCEPT ![i] = WithLinks(inode[i], l)] => inode'[i].nlink = l
      /\ inode' # [inode EXCEPT ![i] = WithLinks(inode[i], l)] => inode'[i].nlink = inode[i].nlink
  BY <1>1, <1>3, <1>4, <1>6, MarkKeeps
<1>8. inode'[i].nlink >= inode[i].nlink
  BY <1>2, <1>3, <1>7
<1>9. \/ inode'[i].nlink = inode[i].nlink
      \/ failed' = "leak" /\ inode[i].kind # "dir"
  <2>1. CASE inode' = [inode EXCEPT ![i] = WithLinks(inode[i], l)] /\ failed' = "leak" /\ inode[i].kind # "dir"
    BY <2>1
  <2>2. CASE inode' = [inode EXCEPT ![i] = WithPerms(inode[i], p)]
    <3>1. inode'[i] = WithPerms(inode[i], p)
      BY <1>3, <2>2
    <3>2. PICK r : r = inode[i]
      OBVIOUS
    <3>3. PICK s : s = inode'[i]
      OBVIOUS
    <3>4. s.nlink = r.nlink
      BY <3>1, <3>2, <3>3 DEF WithPerms
    <3> QED
      BY <3>2, <3>3, <3>4
  <2> QED
    BY <1>6, <2>1, <2>2
<1> QED
  BY <1>4, <1>5, <1>7, <1>8, <1>9, PlainCall

(* A list s2 that has name n, of i, more than s1, and one that has it less.*)
Grown(s1, s2, n, i, k) ==
    /\ s2.parent = s1.parent /\ DOMAIN s2.names = DOMAIN s1.names \cup {n}
    /\ s2.names[n].ino = i /\ s2.names[n].kind = k
    /\ \A x \in DOMAIN s1.names \ {n} : s2.names[x] = s1.names[x]
Shrunk(s1, s2, n) ==
    /\ s2.parent = s1.parent /\ DOMAIN s2.names = DOMAIN s1.names \ {n}
    /\ \A x \in DOMAIN s1.names \ {n} : s2.names[x] = s1.names[x]

(* The list of a directory with one name more is one.                      *)
LEMMA GrownOK ==
    ASSUME NEW d, NEW inos, NEW J, inos \subseteq J, ListOK(DirOf(d), inos),
           NEW n \in Names, NEW i, NEW k, NEW s, s = AddName(d, n, i, k)
    PROVE  Grown(DirOf(d), s, n, i, k) /\ (i \in J /\ k \in Kinds => ListOK(s, J))
<1>0. PICK s1 : s1 = DirOf(d)
  OBVIOUS
<1>1. /\ s1 = [parent |-> s1.parent, names |-> s1.names] /\ s1.parent \in inos
      /\ DOMAIN s1.names \subseteq Names /\ IsFiniteSet(DOMAIN s1.names)
      /\ \A m \in DOMAIN s1.names : s1.names[m].ino \in inos /\ s1.names[m].kind \in Kinds
  BY <1>0 DEF ListOK
<1>2. PICK N : N = DOMAIN s1.names
  OBVIOUS
<1>3. View(d) = s1.names /\ DirOf(d) = [parent |-> DirOf(d).parent, names |-> View(d)]
  BY <1>0, <1>1 DEF View
<1>4. /\ s = [parent |-> s.parent, names |-> s.names] /\ s.parent = s1.parent
      /\ DOMAIN s.names = N \cup {n} /\ s.names[n] = [ino |-> i, kind |-> k]
      /\ \A x \in N \ {n} : s.names[x] = s1.names[x]
  BY <1>0, <1>2, <1>3, NamedIs
<1>5. s.names[n].ino = i /\ s.names[n].kind = k
  BY <1>4
<1>6. Grown(s1, s, n, i, k)
  BY <1>2, <1>4, <1>5 DEF Grown
<1>7. ASSUME i \in J, k \in Kinds
      PROVE  ListOK(s, J)
  <2>1. IsFiniteSet(N \cup {n})
    BY <1>1, <1>2, FS_AddElement
  <2>2. \A m \in DOMAIN s.names : s.names[m].ino \in J /\ s.names[m].kind \in Kinds
    BY <1>1, <1>2, <1>4, <1>5, <1>7
  <2> QED
    BY <1>1, <1>2, <1>4, <2>1, <2>2 DEF ListOK
<1> QED
  BY <1>0, <1>6, <1>7

(* And with one name less.                                                 *)
LEMMA ShrunkOK ==
    ASSUME NEW d, NEW inos, ListOK(DirOf(d), inos), NEW n, NEW s, s = DropName(d, n)
    PROVE  Shrunk(DirOf(d), s, n) /\ ListOK(s, inos)
<1>0. PICK s1 : s1 = DirOf(d)
  OBVIOUS
<1>1. /\ s1 = [parent |-> s1.parent, names |-> s1.names] /\ s1.parent \in inos
      /\ DOMAIN s1.names \subseteq Names /\ IsFiniteSet(DOMAIN s1.names)
      /\ \A m \in DOMAIN s1.names : s1.names[m].ino \in inos /\ s1.names[m].kind \in Kinds
  BY <1>0 DEF ListOK
<1>2. PICK N : N = DOMAIN s1.names
  OBVIOUS
<1>3. View(d) = s1.names /\ DirOf(d) = [parent |-> DirOf(d).parent, names |-> View(d)]
  BY <1>0, <1>1 DEF View
<1>4. /\ s = [parent |-> s.parent, names |-> s.names] /\ s.parent = s1.parent
      /\ DOMAIN s.names = N \ {n} /\ \A x \in N \ {n} : s.names[x] = s1.names[x]
  <2>1. LET z == DropName(d, n)
        IN  /\ z = [parent |-> z.parent, names |-> z.names] /\ z.parent = DirOf(d).parent
            /\ DOMAIN z.names = DOMAIN View(d) \ {n}
            /\ \A x \in DOMAIN View(d) \ {n} : z.names[x] = View(d)[x]
    BY <1>3, NamedIs
  <2> QED
    BY <1>0, <1>2, <1>3, <2>1
<1>5. Shrunk(s1, s, n)
  BY <1>2, <1>4 DEF Shrunk
<1>6. IsFiniteSet(N \ {n})
  BY <1>1, <1>2, FS_Subset
<1>7. \A m \in DOMAIN s.names : s.names[m].ino \in inos /\ s.names[m].kind \in Kinds
  BY <1>1, <1>2, <1>4
<1> QED
  BY <1>0, <1>1, <1>2, <1>4, <1>5, <1>6, <1>7 DEF ListOK

(* Something is removed half way: the lists are still lists.               *)
LEMMA RemoveFailsStep ==
    ASSUME IInv, MayCall, NEW e \in Entries, RemoveFails(e[1], e[2])
    PROVE  IInv' /\ failed' = "yes"
<1>1. Sound /\ Ready /\ Listed
  BY CallReady
<1>2. PICK y : y = View(e[1])[e[2]]
  OBVIOUS
<1>3. PICK i : i = y.ino
  OBVIOUS
<1>4. i \in InUse
  BY <1>1, <1>2, <1>3, EntryIs DEF Sound
<1>5. Keeps(i) /\ failed' = "yes"
  BY <1>1, <1>2, <1>3, <1>4, RemoveFailsKeeps
<1>6. Effect(i, {}) /\ DOMAIN inode' = DOMAIN inode
  BY <1>5 DEF Keeps, Effect, Around
<1>7. Counts
  <2>1. CallFails /\ icount' = icount /\ new_chunks' = new_chunks
    BY DEF RemoveFails, CallFails
  <2> QED
    BY <1>5, <2>1, CallCounts DEF IInv
<1>8. dirs' = dirs \/ dirs' = Uncached(dirs, i)
  BY <1>2, <1>3 DEF RemoveFails
<1>9. Listed'
  <2>1. DOMAIN dirs' \subseteq DOMAIN dirs /\ \A d \in DOMAIN dirs' : dirs'[d] = dirs[d]
    BY <1>8 DEF Uncached
  <2> QED
    BY <1>1, <1>6, <2>1 DEF Listed
<1> QED
  BY <1>5, <1>6, <1>7, <1>9, CallKeeps

(* `link`: a name more for something that is not a directory.              *)
LEMMA LinkStep ==
    ASSUME IInv, MayCall, NEW e \in Entries, NEW d \in LiveDirs, NEW n \in Names, link(e, d, n)
    PROVE  IInv' /\ Seen
<1>1. /\ failed # "yes" /\ fl = IdleFlush /\ DOMAIN fl.todo = {} /\ fl.pc = "idle"
      /\ Sound /\ Ready /\ Fit /\ Listed /\ Lined
  BY CallReady
<1>2. PICK y : y = View(e[1])[e[2]]
  OBVIOUS
<1>3. PICK i : i = y.ino
  OBVIOUS
<1>4. i \in InUse \ {Root} /\ inode[i].kind = y.kind
  BY <1>1, <1>2, <1>3, EntryIs DEF Sound
<1>5. PICK k : k = inode[i].kind
  OBVIOUS
<1>6. PICK l : l = inode[i].nlink + 1
  OBVIOUS
<1>7. i \in DOMAIN inode /\ inode[i].nlink \in Nat /\ l \in Nat /\ k \in Kinds
  BY <1>1, <1>4, <1>5, <1>6, UsedIs
<1>8. PICK s : s = AddName(d, n, i, k)
  OBVIOUS
<1>9. /\ Call /\ k # "dir" /\ n \notin DOMAIN View(d)
      /\ inode' = [inode EXCEPT ![i].nlink = @ + 1] /\ dirs' = Cached(dirs, d, s)
      /\ UNCHANGED <<held, agVars, icount, new_chunks>>
  BY <1>2, <1>3, <1>4, <1>5, <1>8 DEF link
<1>10. inode' = [inode EXCEPT ![i] = WithLinks(inode[i], l)]
  BY <1>6, <1>9, FieldIs
<1>11. UNCHANGED <<held, agVars>> /\ failed' = failed /\ fl' = fl /\ ifree' = ifree
  BY <1>9 DEF Call, agVars
<1>12. Keeps(i) /\ inode'[i].kind = k /\ inode'[i].nlink = l
  BY <1>1, <1>4, <1>5, <1>7, <1>10, <1>11, MarkKeeps
<1>13. Counts
  BY <1>9, CallCounts DEF IInv
<1>14. Effect(i, {}) /\ Around(i, {}) /\ Moves(i, {}) /\ Marks({})
  BY <1>1, <1>11, <1>12 DEF Keeps, Effect
<1>15. DOMAIN inode' = DOMAIN inode /\ InUse' = InUse /\ DirsIn(inode') = DirsIn(inode)
  BY <1>4, <1>5, <1>12, <1>14, SameKinds
<1>16. \A j \in DOMAIN inode \ {i} : inode'[j] = inode[j]
  BY <1>14 DEF Around
<1>17. d \in DirsIn(inode) /\ i \notin DirsIn(inode) /\ DirsIn(inode) \subseteq DOMAIN inode
  BY <1>5, <1>9, LiveIs DEF DirsIn
<1>18. ListOK(DirOf(d), DOMAIN inode)
  BY <1>1, <1>17, ListingOK
<1>19. Grown(DirOf(d), s, n, i, k) /\ ListOK(s, DOMAIN inode)
  BY <1>7, <1>8, <1>18, GrownOK
<1>20. DOMAIN dirs' = DOMAIN dirs \cup {d} /\ dirs'[d] = s /\ \A x \in DOMAIN dirs \ {d} : dirs'[x] = dirs[x]
  <2>1. dirs' = Cached(dirs, d, s)
    BY <1>9
  <2> QED
    BY <2>1 DEF Cached
<1>21. Listed'
  BY <1>1, <1>15, <1>17, <1>19, <1>20 DEF Listed
<1>22. ListsKept'
  <2>1. ListsKept /\ DOMAIN dirs \subseteq DirsIn(inode)
    BY <1>1 DEF Sound, ListsKept
  <2>2. DOMAIN dirs' \subseteq DirsIn(inode')
    BY <1>15, <1>17, <1>20, <2>1
  <2>3. DOMAIN dirs \subseteq DOMAIN dirs' \cup {i} /\ i \notin DirsIn(inode')
    BY <1>15, <1>17, <1>20
  <2> QED
    BY <1>1, <1>11, <1>14, <2>1, <2>2, <2>3, ListsStay
<1>23. PICK L : L = Listing
  OBVIOUS
<1>24. PICK L2 : L2 = Listing'
  OBVIOUS
<1>25. /\ DOMAIN L = DirsIn(inode) /\ Numbers(inode) /\ (\A x : IsFiniteSet(To(L, x)))
       /\ \A x \in DirsIn(inode) : L[x] = DirOf(x)
  BY <1>1, <1>23, ListingOK
<1>26. DOMAIN L2 = DirsIn(inode) /\ \A x \in DirsIn(inode) : L2[x] = DirOf(x)'
  BY <1>15, <1>24 DEF Listing
<1>27. L2[d] = s
  BY <1>1, <1>11, <1>17, <1>20, <1>26, IdleLists
<1>28. ASSUME NEW x \in DirsIn(inode) \ {d}
       PROVE  L2[x] = L[x]
  <2>1. inode'[x] = inode[x]
    BY <1>16, <1>17, <1>28
  <2>2. x \in DOMAIN dirs' <=> x \in DOMAIN dirs
    BY <1>20, <1>28
  <2> QED
    BY <1>1, <1>11, <1>20, <1>25, <1>26, <1>28, <2>1, <2>2, IdleLists
<1>29. Added(L, L2, d, n, i, k)
  <2>1. n \notin DOMAIN L[d].names
    BY <1>9, <1>17, <1>25 DEF View
  <2>2. Grown(L[d], L2[d], n, i, k)
    BY <1>17, <1>19, <1>25, <1>27
  <2> QED
    BY <1>9, <1>17, <1>25, <1>26, <1>28, <2>1, <2>2 DEF Added, Grown
<1>30. Numbers(inode')
  <2>1. InodesOK'
    BY <1>1, <1>14, EffectShape DEF Fit
  <2> QED
    BY <2>1 DEF InodesOK, InodeOK, Numbers, UsedIn
<1>31. \A j \in UsedIn(inode) : j \in UsedIn(inode') /\ inode'[j].kind = inode[j].kind
  BY <1>5, <1>12, <1>15, <1>16 DEF InUse, UsedIn
<1>32. \A j \in UsedIn(inode') \ {i} : j \in UsedIn(inode) /\ inode'[j].nlink = inode[j].nlink
  BY <1>15, <1>16 DEF InUse, UsedIn
<1>33. i \in UsedIn(inode') \ {Root} /\ inode'[i].nlink = inode[i].nlink + 1 /\ i \in UsedIn(inode)
  BY <1>4, <1>6, <1>12, <1>15 DEF InUse
<1>34. NamesKept(inode, L) /\ (failed = "no" => NamesAll(inode, L))
  BY <1>1, <1>23 DEF Sound, IInv, Whole
<1>35. NamesKept(inode', L2) /\ (NamesAll(inode, L) => NamesAll(inode', L2))
  <2>1. DOMAIN L2 = DirsIn(inode') /\ inode'[i].kind = k
    BY <1>12, <1>15, <1>26
  <2>2. /\ i \notin UsedIn(inode) => k = "dir" \/ inode'[i].nlink = 1
        /\ i \in UsedIn(inode) => k # "dir" /\ inode'[i].nlink = inode[i].nlink + 1
    BY <1>9, <1>33
  <2> QED
    <3>1. MoreIn(inode, inode', i, k)
      BY <1>31, <1>32, <1>33, <2>1, <2>2 DEF MoreIn
    <3> QED
      BY <1>25, <1>29, <1>30, <1>34, <2>1, <3>1, NamesAdd
<1>36. NamesKept(inode, Listing)' /\ (failed' = "no" => NamesAll(inode, Listing)')
  BY <1>11, <1>24, <1>34, <1>35
<1>37. (ifree \cap InUse = {})' /\ (failed' = "no" => (ifree = DOMAIN inode \ InUse)')
  BY <1>1, <1>11, <1>15 DEF Sound, IInv, Whole
<1>38. IInv'
  BY <1>13, <1>14, <1>21, <1>22, <1>36, <1>37, CallKeeps
<1>39. \A j \in InUse : Stays(j)
  <2>1. inode'[i].perms = inode[i].perms /\ inode'[i].body = inode[i].body
    <3>1. inode'[i] = WithLinks(inode[i], l)
      BY <1>7, <1>10
    <3> QED
      BY <3>1 DEF WithLinks
  <2>2. \A j \in InUse \ {i} : inode'[j] = inode[j]
    BY <1>16 DEF InUse, UsedIn
  <2> QED
    BY <1>5, <1>12, <1>15, <2>1, <2>2 DEF Stays
<1>40. Gains(d, n, i, k)
  BY <1>4, <1>9, <1>15, <1>23, <1>24, <1>29, <1>39 DEF Gains
<1> QED
  BY <1>1, <1>11, <1>38, <1>40 DEF Seen

(* What becomes of an inode when a name is taken out.                      *)
Gone(i) == InUse' = InUse \ {i} /\ ifree' = ifree \cup {i} /\ (inode[i].kind = "dir" \/ inode[i].nlink <= 1)
OneLinkLess(i) ==
    /\ i \in InUse' /\ ifree' = ifree /\ inode'[i].kind = inode[i].kind /\ inode[i].kind # "dir"
    /\ inode[i].nlink > 1 /\ inode'[i].nlink = inode[i].nlink - 1

(* A name is taken out.                                                    *)
LEMMA DropStep ==
    ASSUME IInv, MayCall, NEW e \in Entries, NEW d, d = e[1], NEW n, n = e[2],
           NEW i, i = View(d)[n].ino, NEW s, s = DropName(d, n), Counts, failed' = failed, Keeps(i),
           Gone(i) \/ OneLinkLess(i), i \in InUse' => Stays(i), inode[i].kind = "dir" => DOMAIN View(i) = {},
           DOMAIN dirs' = (DOMAIN dirs \ GoneWith(i)) \cup {d}, dirs'[d] = s,
           \A x \in DOMAIN dirs \ (GoneWith(i) \cup {d}) : dirs'[x] = dirs[x]
    PROVE  IInv' /\ Seen
<1>1. /\ failed # "yes" /\ fl = IdleFlush /\ DOMAIN fl.todo = {} /\ fl.pc = "idle"
      /\ Sound /\ Ready /\ Fit /\ Listed /\ Lined
  BY CallReady
<1>2. i \in InUse \ {Root}
  BY <1>1, EntryIs DEF Sound
<1>3. /\ d \in DirsIn(inode) /\ n \in DOMAIN View(d) /\ e = <<d, n>> /\ e \in All(Listing)
      /\ Its(Listing, e).ino = i
  BY LiveIs
<1>4. PICK G : G = GoneWith(i)
  OBVIOUS
<1>5. d \notin G
  BY <1>3, <1>4 DEF GoneWith
<1>6. Effect(i, {}) /\ Around(i, {}) /\ Moves(i, {}) /\ Marks({}) /\ fl' = fl
  BY <1>1 DEF Keeps, Effect, Counts
<1>7. DOMAIN inode' = DOMAIN inode /\ i \in DOMAIN inode /\ \A j \in DOMAIN inode \ {i} : inode'[j] = inode[j]
  BY <1>2, <1>6 DEF Around, InUse, UsedIn
<1>8. DirsIn(inode') = DirsIn(inode) \ G
  <2>1. \A j \in DOMAIN inode \ {i} : j \in DirsIn(inode') <=> j \in DirsIn(inode)
    BY <1>7 DEF DirsIn
  <2>2. i \in DirsIn(inode) <=> inode[i].kind = "dir"
    BY <1>7 DEF DirsIn
  <2>3. i \notin DirsIn(inode')
    <3>1. CASE Gone(i)
      <4>1. i \notin InUse'
        BY <3>1 DEF Gone
      <4> QED
        BY <4>1 DEF InUse, UsedIn, DirsIn
    <3>2. CASE OneLinkLess(i)
      BY <3>2 DEF OneLinkLess, DirsIn
    <3> QED
      BY <3>1, <3>2
  <2>4. DirsIn(inode') \subseteq DOMAIN inode /\ DirsIn(inode) \subseteq DOMAIN inode
    BY <1>7 DEF DirsIn
  <2> QED
    BY <1>4, <2>1, <2>2, <2>3, <2>4 DEF GoneWith
<1>9. ListOK(DirOf(d), DOMAIN inode) /\ n \in Names
  <2>1. ListOK(DirOf(d), DOMAIN inode)
    BY <1>1, <1>3, ListingOK
  <2> QED
    BY <1>3, <2>1 DEF ListOK, View
<1>10. Shrunk(DirOf(d), s, n) /\ ListOK(s, DOMAIN inode)
  BY <1>9, ShrunkOK
<1>11. /\ DOMAIN dirs' = (DOMAIN dirs \ G) \cup {d} /\ dirs'[d] = s
       /\ \A x \in DOMAIN dirs \ (G \cup {d}) : dirs'[x] = dirs[x]
  BY <1>4
<1>12. d \in DOMAIN inode
  BY <1>3 DEF DirsIn
<1>13. Listed'
  BY <1>1, <1>7, <1>10, <1>11, <1>12 DEF Listed
<1>14. ListsKept'
  <2>1. ListsKept /\ DOMAIN dirs \subseteq DirsIn(inode)
    BY <1>1 DEF Sound, ListsKept
  <2>2. DOMAIN dirs' \subseteq DirsIn(inode')
    BY <1>3, <1>5, <1>8, <1>11, <2>1
  <2>3. G \subseteq {i} /\ (i \in DirsIn(inode) => i \in G)
    BY <1>4 DEF GoneWith, DirsIn
  <2>4. DOMAIN dirs \subseteq DOMAIN dirs' \cup {i} /\ i \notin DirsIn(inode')
    BY <1>8, <1>11, <2>3
  <2> QED
    BY <1>1, <1>6, <2>1, <2>2, <2>4, ListsStay
<1>15. PICK L : L = Listing
  OBVIOUS
<1>16. PICK L2 : L2 = Listing'
  OBVIOUS
<1>17. /\ DOMAIN L = DirsIn(inode) /\ Numbers(inode) /\ (\A x : IsFiniteSet(To(L, x)))
       /\ \A x \in DirsIn(inode) : L[x] = DirOf(x)
  BY <1>1, <1>15, ListingOK
<1>18. DOMAIN L2 = DirsIn(inode') /\ \A x \in DirsIn(inode') : L2[x] = DirOf(x)'
  BY <1>16 DEF Listing
<1>19. L2[d] = s
  BY <1>1, <1>3, <1>5, <1>6, <1>8, <1>11, <1>18, IdleLists
<1>20. ASSUME NEW x \in DirsIn(inode) \ (G \cup {d})
       PROVE  L2[x] = L[x]
  <2>1. x # i /\ x \in DOMAIN inode
    BY <1>4, <1>20 DEF GoneWith, DirsIn
  <2>2. inode'[x] = inode[x]
    BY <1>7, <2>1
  <2>3. x \in DOMAIN dirs' <=> x \in DOMAIN dirs
    BY <1>11, <1>20
  <2>4. x \in DirsIn(inode')
    BY <1>8, <1>20
  <2> QED
    BY <1>1, <1>6, <1>11, <1>17, <1>18, <1>20, <2>2, <2>3, <2>4, IdleLists
<1>21. Dropped(L, L2, d, n, G, i)
  <2>1. n \in DOMAIN L[d].names
    BY <1>3, <1>17 DEF View
  <2>2. Shrunk(L[d], L2[d], n)
    BY <1>3, <1>10, <1>17, <1>19
  <2>3. \A x \in G : DOMAIN L[x].names = {}
    <3>1. \A x \in G : x = i /\ inode[i].kind = "dir" /\ i \in DirsIn(inode)
      BY <1>4, <1>7 DEF GoneWith, DirsIn
    <3> QED
      BY <1>17, <3>1 DEF View
  <2>4. L[d].names[n].ino = i
    BY <1>3, <1>17 DEF View
  <2> QED
    BY <1>3, <1>5, <1>8, <1>17, <1>18, <1>20, <2>1, <2>2, <2>3, <2>4 DEF Dropped, Shrunk
<1>23. \A j \in UsedIn(inode') : j \in UsedIn(inode) /\ inode'[j].kind = inode[j].kind
  <2>1. \A j \in InUse' : j \in InUse
    BY <1>2, <1>6, InUseAfter
  <2>2. i \in InUse' => inode'[i].kind = inode[i].kind
    BY DEF Gone, OneLinkLess
  <2> QED
    BY <1>7, <2>1, <2>2 DEF InUse, UsedIn
<1>24. \A j \in UsedIn(inode) \ {i} : j \in UsedIn(inode') /\ inode'[j].nlink = inode[j].nlink
  BY <1>6, InUseAfter DEF InUse
<1>25. /\ i \in UsedIn(inode') =>
             inode[i].kind # "dir" /\ inode[i].nlink > 1 /\ inode'[i].nlink = inode[i].nlink - 1
       /\ i \notin UsedIn(inode') => inode[i].kind = "dir" \/ inode[i].nlink <= 1
  <2>1. CASE Gone(i)
    BY <2>1 DEF Gone, InUse
  <2>2. CASE OneLinkLess(i)
    BY <2>2 DEF OneLinkLess, InUse
  <2> QED
    BY <2>1, <2>2
<1>26. NamesKept(inode, L) /\ (failed = "no" => NamesAll(inode, L))
  BY <1>1, <1>15 DEF Sound, IInv, Whole
<1>27. NamesKept(inode', L2) /\ (NamesAll(inode, L) => NamesAll(inode', L2))
  <2>1. LessIn(inode, inode', i)
    BY <1>23, <1>24, <1>25 DEF LessIn
  <2> QED
    BY <1>17, <1>18, <1>21, <1>26, <2>1, NamesDrop
<1>28. NamesKept(inode, Listing)' /\ (failed' = "no" => NamesAll(inode, Listing)')
  BY <1>16, <1>26, <1>27
<1>29. (ifree \cap InUse = {})' /\ (failed' = "no" => (ifree = DOMAIN inode \ InUse)')
  <2>1. ifree \cap InUse = {} /\ (failed = "no" => ifree = DOMAIN inode \ InUse)
    BY <1>1 DEF Sound, IInv, Whole
  <2>2. CASE Gone(i)
    BY <1>7, <2>1, <2>2 DEF Gone
  <2>3. CASE OneLinkLess(i)
    <3>1. InUse' = InUse
      <4>1. \A j \in InUse' : j \in InUse
        BY <1>2, <1>6, InUseAfter
      <4>2. \A j \in InUse : j \in InUse'
        BY <1>6, <2>3, InUseAfter DEF OneLinkLess
      <4> QED
        BY <4>1, <4>2
    <3> QED
      BY <1>7, <2>1, <2>3, <3>1 DEF OneLinkLess
  <2> QED
    BY <2>2, <2>3
<1>30. IInv'
  BY <1>6, <1>13, <1>14, <1>28, <1>29, CallKeeps
<1>31. \A j \in InUse \ {i} : Stays(j)
  <2>1. \A j \in InUse \ {i} : j \in DOMAIN inode /\ inode'[j] = inode[j]
    BY <1>7 DEF InUse, UsedIn
  <2>2. \A j \in InUse \ {i} : j \in InUse'
    BY <1>24 DEF InUse
  <2> QED
    BY <2>1, <2>2 DEF Stays
<1>32. Loses(e, i)
  BY <1>4, <1>15, <1>16, <1>21, <1>31 DEF Loses
<1> QED
  BY <1>1, <1>6, <1>30, <1>32 DEF Seen

(* `unlink` and `rmdir`.                                                   *)
LEMMA RemoveStep ==
    ASSUME IInv, MayCall, NEW e \in Entries, unlink(e[1], e[2]) \/ rmdir(e[1], e[2])
    PROVE  IInv' /\ Seen
<1>1. failed # "yes" /\ Sound /\ Ready
  BY CallReady
<1>2. PICK d : d = e[1]
  OBVIOUS
<1>3. PICK n : n = e[2]
  OBVIOUS
<1>4. PICK i : i = View(d)[n].ino
  OBVIOUS
<1>5. PICK s : s = DropName(d, n)
  OBVIOUS
<1>6. i \in InUse /\ inode[i].kind = View(d)[n].kind
  BY <1>1, <1>2, <1>3, <1>4, EntryIs DEF Sound
<1>7. i \in DOMAIN inode /\ inode[i].nlink \in Nat
  BY <1>1, <1>6, UsedIs
<1>8. Call /\ UNCHANGED <<held, chunks, icount, new_chunks>> /\ failed' = failed
  BY DEF unlink, rmdir, Call
<1>9. Counts
  BY <1>8, CallCounts DEF IInv
<1>10. /\ inode[i].kind = "dir" => DOMAIN View(i) = {}
       /\ inode[i].kind = "dir" => destroy(i) /\ dirs' = Cached(Uncached(dirs, i), d, s)
       /\ inode[i].kind # "dir" => dirs' = Cached(dirs, d, s)
       /\ inode[i].kind # "dir" /\ inode[i].nlink <= 1 => destroy(i)
       /\ inode[i].kind # "dir" /\ ~ (inode[i].nlink <= 1) =>
             inode' = [inode EXCEPT ![i].nlink = @ - 1] /\ UNCHANGED <<free, ifree, dirty>>
  BY <1>2, <1>3, <1>4, <1>5, <1>6 DEF unlink, rmdir
<1>11. /\ DOMAIN dirs' = (DOMAIN dirs \ GoneWith(i)) \cup {d} /\ dirs'[d] = s
       /\ \A x \in DOMAIN dirs \ (GoneWith(i) \cup {d}) : dirs'[x] = dirs[x]
  <2>1. CASE inode[i].kind = "dir"
    <3>1. dirs' = Cached(Uncached(dirs, i), d, s) /\ GoneWith(i) = {i}
      BY <1>10, <2>1 DEF GoneWith
    <3> QED
      BY <3>1 DEF Cached, Uncached
  <2>2. CASE inode[i].kind # "dir"
    <3>1. dirs' = Cached(dirs, d, s) /\ GoneWith(i) = {}
      BY <1>10, <2>2 DEF GoneWith
    <3> QED
      BY <3>1 DEF Cached
  <2> QED
    BY <2>1, <2>2
<1>12. Keeps(i) /\ (Gone(i) \/ OneLinkLess(i)) /\ (i \in InUse' => Stays(i))
  <2>1. CASE destroy(i) /\ (inode[i].kind = "dir" \/ inode[i].nlink <= 1)
    <3>1. /\ Effect(i, {}) /\ Moves(i, {}) /\ Marks({})
          /\ InUse' = InUse \ {i} /\ ifree' = ifree \cup {i}
      BY <1>1, <1>6, <1>8, <2>1, DestroyEffect
    <3> QED
      BY <2>1, <3>1 DEF Keeps, Gone
  <2>2. CASE inode[i].kind # "dir" /\ ~ (inode[i].nlink <= 1)
    <3>1. PICK l : l = inode[i].nlink - 1
      OBVIOUS
    <3>2. l \in Nat /\ inode[i].nlink > 1
      BY <1>7, <2>2, <3>1
    <3>3. inode' = [inode EXCEPT ![i] = WithLinks(inode[i], l)] /\ UNCHANGED <<free, ifree, dirty>>
      BY <1>10, <2>2, <3>1, FieldIs
    <3>4. UNCHANGED <<held, agVars>>
      BY <1>8, <3>3 DEF agVars
    <3>5. Keeps(i) /\ i \in InUse' /\ inode'[i].kind = inode[i].kind /\ inode'[i].nlink = l
      BY <1>1, <1>6, <1>8, <3>2, <3>3, <3>4, MarkKeeps
    <3>6. inode'[i].perms = inode[i].perms /\ inode'[i].body = inode[i].body
      <4>1. inode'[i] = WithLinks(inode[i], l)
        BY <1>7, <3>3
      <4> QED
        BY <4>1 DEF WithLinks
    <3>7. Stays(i)
      BY <3>5, <3>6 DEF Stays
    <3> QED
      BY <2>2, <3>1, <3>2, <3>3, <3>5, <3>7 DEF OneLinkLess
  <2> QED
    BY <1>10, <2>1, <2>2
<1> QED
  BY <1>2, <1>3, <1>4, <1>5, <1>8, <1>9, <1>10, <1>11, <1>12, DropStep

(* The inodes of a chunk that is made are new.                             *)
LEMMA Fresh ==
    ASSUME Ready, NEW C, C \subseteq free
    PROVE  (UNION {InodesOf(b) : b \in C}) \cap DOMAIN inode = {}
<1>1. SUFFICES ASSUME NEW b \in C, NEW j \in InodesOf(b), j \in DOMAIN inode
               PROVE  FALSE
  OBVIOUS
<1>2. b \in Blocks /\ b \notin chunks
  BY OwnerIs DEF Ready, GroupsOK
<1>3. j \div ChunkInodes = b
  BY <1>1, <1>2, InodeBlock
<1> QED
  BY <1>1, <1>2, <1>3, InodesIn DEF Ready

(* What a call for a new name leaves alone.                                *)
NewAt(i, I) ==
    /\ i \notin InUse /\ DirsIn(inode) \subseteq InUse /\ I \cap DOMAIN inode = {}
    /\ DOMAIN inode' = DOMAIN inode \cup I
    /\ \A j \in InUse : j # i /\ j \in InUse' /\ inode'[j] = inode[j]
    /\ \A j \in InUse' : j = i \/ j \in InUse
    /\ \A j \in DirsIn(inode) : j \in DirsIn(inode')
    /\ \A j \in DirsIn(inode') : j = i \/ j \in DirsIn(inode)

(* It changes no inode in use.                                             *)
LEMMA NewLeaves ==
    ASSUME Ready, NEW i, i \notin InUse, NEW C, C \subseteq free, Around(i, C),
           NEW I, I = UNION {InodesOf(b) : b \in C}
    PROVE  NewAt(i, I)
<1>1. DirsIn(inode) \subseteq InUse /\ DirsIn(inode') \subseteq InUse'
  BY DEF DirsIn, InUse, UsedIn
<1>2. I \cap DOMAIN inode = {} /\ DOMAIN inode' = DOMAIN inode \cup I
  BY Fresh DEF Around
<1>3. /\ \A j \in InUse' \ {i} : j \in InUse /\ inode'[j] = inode[j]
      /\ \A j \in InUse \ {i} : j \in InUse' /\ inode'[j] = inode[j]
  BY InUseAfter
<1>4. \A j \in DirsIn(inode) : j \in DirsIn(inode')
  BY <1>1, <1>2, <1>3 DEF DirsIn
<1>5. \A j \in DirsIn(inode') : j = i \/ j \in DirsIn(inode)
  <2>1. SUFFICES ASSUME NEW j \in DirsIn(inode'), j # i
                 PROVE  j \in DirsIn(inode)
    OBVIOUS
  <2>2. j \in InUse /\ inode'[j] = inode[j]
    BY <1>1, <1>3, <2>1
  <2> QED
    BY <2>1, <2>2 DEF DirsIn, InUse, UsedIn
<1> QED
  BY <1>1, <1>2, <1>3, <1>4, <1>5 DEF NewAt

(* Lists stay lists when inodes come.                                      *)
LEMMA ListedStays ==
    ASSUME Listed, DOMAIN inode \subseteq DOMAIN inode', NEW d
    PROVE  \A x \in DOMAIN dirs : x \in DOMAIN inode' /\ ListOK(dirs[x], DOMAIN inode')
BY MoreInodes DEF Listed

(* Nothing was made, or nothing that has a name.                           *)
LEMMA NamelessStep ==
    ASSUME IInv, MayCall, NEW i, NEW C, C \subseteq free, i \notin InUse, Effect(i, C), Moves(i, C), Marks(C), Counts,
           NEW I, I = UNION {InodesOf(b) : b \in C},
           i \in InUse' => i \notin ifree', ifree' \subseteq ifree \cup I, failed' # "yes",
           \A x \in DOMAIN dirs : x \in DOMAIN dirs' /\ dirs'[x] = dirs[x],
           DOMAIN dirs' = DOMAIN dirs \cup (IF i \in DirsIn(inode') THEN {i} ELSE {}),
           i \in DirsIn(inode') => ListOK(dirs'[i], DOMAIN inode') /\ DOMAIN dirs'[i].names = {},
           failed' = "no" => ifree' = ifree \cup I /\ i \notin InUse'
    PROVE  IInv' /\ Seen
<1>1. /\ failed # "yes" /\ fl = IdleFlush /\ DOMAIN fl.todo = {} /\ fl.pc = "idle"
      /\ Sound /\ Ready /\ Fit /\ Listed /\ Lined
  BY CallReady
<1>2. Around(i, C) /\ fl' = fl
  BY DEF Effect, Counts
<1>3. NewAt(i, I)
  BY <1>1, <1>2, NewLeaves
<1>4. /\ DirsIn(inode) \subseteq InUse /\ I \cap DOMAIN inode = {}
      /\ DOMAIN inode' = DOMAIN inode \cup I
      /\ \A j \in InUse : j # i /\ j \in InUse' /\ inode'[j] = inode[j]
      /\ \A j \in InUse' : j = i \/ j \in InUse
      /\ \A j \in DirsIn(inode) : j \in DirsIn(inode')
      /\ \A j \in DirsIn(inode') : j = i \/ j \in DirsIn(inode)
  BY <1>3 DEF NewAt
<1>5. Listed'
  <2>1. \A x \in DOMAIN dirs : x \in DOMAIN inode' /\ ListOK(dirs[x], DOMAIN inode')
    BY <1>1, <1>4, ListedStays
  <2>2. i \in DirsIn(inode') => i \in DOMAIN inode'
    BY DEF DirsIn
  <2> QED
    BY <2>1, <2>2 DEF Listed
<1>6. ListsKept'
  <2>1. ListsKept /\ DOMAIN dirs \subseteq DirsIn(inode)
    BY <1>1 DEF Sound, ListsKept
  <2>2. DOMAIN dirs' \subseteq DirsIn(inode')
    BY <1>4, <2>1
  <2>3. DOMAIN dirs \subseteq DOMAIN dirs' \cup {i} /\ (i \in DirsIn(inode') => i \in DOMAIN dirs')
    OBVIOUS
  <2> QED
    BY <1>1, <1>2, <2>1, <2>2, <2>3, ListsStay
<1>7. PICK L : L = Listing
  OBVIOUS
<1>8. PICK L2 : L2 = Listing'
  OBVIOUS
<1>9. /\ DOMAIN L = DirsIn(inode) /\ Numbers(inode) /\ (\A x : IsFiniteSet(To(L, x)))
      /\ \A x \in DirsIn(inode) : L[x] = DirOf(x)
  BY <1>1, <1>7, ListingOK
<1>10. DOMAIN L2 = DirsIn(inode') /\ \A x \in DirsIn(inode') : L2[x] = DirOf(x)'
  BY <1>8 DEF Listing
<1>11. \A x \in DOMAIN L : x \in DOMAIN L2 /\ L2[x] = L[x]
  <2>1. SUFFICES ASSUME NEW x \in DirsIn(inode)
                 PROVE  x \in DirsIn(inode') /\ L2[x] = L[x]
    BY <1>9, <1>10
  <2>2. x \in DirsIn(inode') /\ inode'[x] = inode[x] /\ x # i
    BY <1>4
  <2>3. x \in DOMAIN dirs' <=> x \in DOMAIN dirs
    BY <2>2
  <2> QED
    BY <1>1, <1>2, <1>9, <1>10, <2>2, <2>3, IdleLists
<1>12. \A x \in DOMAIN L2 \ DOMAIN L : DOMAIN L2[x].names = {}
  <2>1. SUFFICES ASSUME NEW x \in DirsIn(inode'), x \notin DirsIn(inode)
                 PROVE  DOMAIN L2[x].names = {}
    BY <1>9, <1>10
  <2>2. x = i /\ x \in DOMAIN dirs'
    BY <1>4, <2>1
  <2>3. L2[x] = dirs'[x]
    BY <1>1, <1>2, <1>10, <2>1, <2>2, IdleLists
  <2> QED
    BY <2>1, <2>2, <2>3
<1>13. Numbers(inode')
  <2>1. InodesOK'
    BY <1>1, EffectShape DEF Fit
  <2> QED
    BY <2>1 DEF InodesOK, InodeOK, Numbers, UsedIn
<1>14. NamesKept(inode, L) /\ (failed = "no" => NamesAll(inode, L))
  BY <1>1, <1>7 DEF Sound, IInv, Whole
<1>15. \A j \in UsedIn(inode) : /\ j \in UsedIn(inode') /\ inode'[j].kind = inode[j].kind
                                /\ inode'[j].nlink = inode[j].nlink
                                /\ inode[j].kind # "dir" => inode'[j].nlink >= inode[j].nlink
  BY <1>4, <1>9 DEF InUse, Numbers
<1>16. /\ NamesKept(inode', L2)
       /\ NamesAll(inode, L) /\ DOMAIN L2 = DOMAIN L /\ UsedIn(inode') \subseteq UsedIn(inode)
              /\ (\A j \in UsedIn(inode) : inode[j].kind # "dir" => inode'[j].nlink = inode[j].nlink)
           => NamesAll(inode', L2)
  BY <1>9, <1>10, <1>11, <1>12, <1>13, <1>14, <1>15, NamesStay
<1>17. ASSUME failed' = "no"
       PROVE  DOMAIN L2 = DOMAIN L /\ UsedIn(inode') \subseteq UsedIn(inode) /\ failed = "no"
  <2>1. i \notin InUse' /\ failed = "no"
    BY <1>17 DEF Counts
  <2>2. i \notin DirsIn(inode')
    BY <2>1 DEF DirsIn, InUse, UsedIn
  <2> QED
    BY <1>4, <1>9, <1>10, <2>1, <2>2 DEF InUse
<1>18. failed' = "no" => NamesAll(inode', L2)
  BY <1>14, <1>15, <1>16, <1>17
<1>19. NamesKept(inode, Listing)' /\ (failed' = "no" => NamesAll(inode, Listing)')
  BY <1>8, <1>16, <1>18
<1>20. (ifree \cap InUse = {})'
  <2>1. ifree \cap InUse = {} /\ InUse \subseteq DOMAIN inode
    BY <1>1 DEF Sound, InUse, UsedIn
  <2> QED
    BY <1>4, <2>1
<1>21. failed' = "no" => (ifree = DOMAIN inode \ InUse)'
  <2>1. SUFFICES ASSUME failed' = "no"
                 PROVE  ifree' = DOMAIN inode' \ InUse'
    OBVIOUS
  <2>2. ifree = DOMAIN inode \ InUse /\ InUse \subseteq DOMAIN inode
    BY <1>17, <2>1 DEF IInv, Whole, InUse, UsedIn
  <2>3. InUse' = InUse
    <3>1. i \notin InUse'
      BY <2>1
    <3> QED
      BY <1>4, <3>1
  <2> QED
    BY <1>4, <2>1, <2>2, <2>3
<1>22. IInv'
  BY <1>5, <1>6, <1>19, <1>20, <1>21, CallKeeps
<1>23. \A j \in InUse : Stays(j)
  BY <1>4 DEF Stays
<1>24. Quiet
  BY <1>7, <1>8, <1>11, <1>23 DEF Quiet
<1> QED
  BY <1>22, <1>24 DEF Seen

(* Directory d gets name n for inode i of kind k: its list is s.           *)
NameMade(i, I, d, n, k, s) ==
    /\ s = AddName(d, n, i, k) /\ i \in InUse' /\ inode'[i].kind = k
    /\ k # "dir" => inode'[i].nlink = 1
    /\ ifree' = (ifree \cup I) \ {i} /\ failed' = failed
    /\ DOMAIN dirs' = DOMAIN dirs \cup {d} \cup (IF k = "dir" THEN {i} ELSE {})
    /\ dirs'[d] = s /\ (k = "dir" => dirs'[i] = EmptyDir(d))
    /\ \A x \in DOMAIN dirs \ {d, i} : dirs'[x] = dirs[x]

(* Something was made, and has its name.                                   *)
LEMMA NamedStep ==
    ASSUME IInv, MayCall, NEW i, NEW C, C \subseteq free, i \notin InUse, Effect(i, C), Moves(i, C), Marks(C), Counts,
           NEW I, I = UNION {InodesOf(b) : b \in C}, NEW d \in LiveDirs, d \in DirsIn(inode), NEW n \in Names, n \notin DOMAIN View(d),
           NEW k, NEW s, NameMade(i, I, d, n, k, s)
    PROVE  IInv' /\ Seen
<1> SUFFICES ASSUME s = AddName(d, n, i, k), i \in InUse', inode'[i].kind = k,
                    k # "dir" => inode'[i].nlink = 1,
                    ifree' = (ifree \cup I) \ {i}, failed' = failed,
                    DOMAIN dirs' = DOMAIN dirs \cup {d} \cup (IF k = "dir" THEN {i} ELSE {}),
                    dirs'[d] = s, k = "dir" => dirs'[i] = EmptyDir(d),
                    \A x \in DOMAIN dirs \ {d, i} : dirs'[x] = dirs[x]
             PROVE  IInv' /\ Seen
  BY DEF NameMade
<1>1. /\ failed # "yes" /\ fl = IdleFlush /\ DOMAIN fl.todo = {} /\ fl.pc = "idle"
      /\ Sound /\ Ready /\ Fit /\ Listed /\ Lined
  BY CallReady
<1>2. Around(i, C) /\ fl' = fl
  BY DEF Effect, Counts
<1>3. NewAt(i, I)
  BY <1>1, <1>2, NewLeaves
<1>4. /\ DirsIn(inode) \subseteq InUse /\ I \cap DOMAIN inode = {}
      /\ DOMAIN inode' = DOMAIN inode \cup I
      /\ \A j \in InUse : j # i /\ j \in InUse' /\ inode'[j] = inode[j]
      /\ \A j \in InUse' : j = i \/ j \in InUse
      /\ \A j \in DirsIn(inode) : j \in DirsIn(inode')
      /\ \A j \in DirsIn(inode') : j = i \/ j \in DirsIn(inode)
  BY <1>3 DEF NewAt
<1>5. i \in DOMAIN inode' /\ d \in DOMAIN inode /\ d # i /\ (i \in DirsIn(inode') <=> k = "dir")
  BY <1>4 DEF InUse, UsedIn, DirsIn
<1>6. k \in Kinds
  <2>1. InodesOK'
    BY <1>1, EffectShape DEF Fit
  <2> QED
    BY <1>5, <2>1 DEF InodesOK, InodeOK
<1>7. ListOK(DirOf(d), DOMAIN inode)
  BY <1>1, ListingOK
<1>8. Grown(DirOf(d), s, n, i, k) /\ ListOK(s, DOMAIN inode')
  <2>1. PICK J : J = DOMAIN inode'
    OBVIOUS
  <2>2. DOMAIN inode \subseteq J /\ i \in J
    BY <1>4, <1>5, <2>1
  <2>3. Grown(DirOf(d), s, n, i, k) /\ ListOK(s, J)
    BY <1>6, <1>7, <2>2, GrownOK
  <2> QED
    BY <2>1, <2>3
<1>9. ListOK(EmptyDir(d), DOMAIN inode') /\ EmptyDir(d).parent = d /\ DOMAIN EmptyDir(d).names = {}
  <2>1. EmptyDir(d).parent = d /\ DOMAIN EmptyDir(d).names = {}
    BY DEF EmptyDir
  <2>2. IsFiniteSet({})
    BY FS_EmptySet
  <2>3. EmptyDir(d) = [parent |-> EmptyDir(d).parent, names |-> EmptyDir(d).names]
    BY DEF EmptyDir
  <2> QED
    BY <1>4, <1>5, <2>1, <2>2, <2>3 DEF ListOK
<1>10. DOMAIN dirs \subseteq DirsIn(inode) /\ i \notin DOMAIN dirs
  BY <1>1, <1>4 DEF Sound, ListsKept
<1>11. Listed'
  <2>1. \A x \in DOMAIN dirs : x \in DOMAIN inode' /\ ListOK(dirs[x], DOMAIN inode')
    BY <1>1, <1>4, ListedStays
  <2>2. ASSUME NEW x \in DOMAIN dirs'
        PROVE  x \in DOMAIN inode' /\ ListOK(dirs'[x], DOMAIN inode')
    <3>1. CASE x = d
      BY <1>4, <1>5, <1>8, <3>1
    <3>2. CASE x = i /\ k = "dir"
      BY <1>5, <1>9, <3>2
    <3>3. CASE x \in DOMAIN dirs \ {d, i}
      BY <2>1, <3>3
    <3> QED
      BY <1>10, <2>2, <3>1, <3>2, <3>3
  <2> QED
    BY <2>2 DEF Listed
<1>12. ListsKept'
  <2>1. DOMAIN dirs' \subseteq DirsIn(inode')
    BY <1>4, <1>5, <1>10
  <2>2. DOMAIN dirs \subseteq DOMAIN dirs' \cup {i} /\ (i \in DirsIn(inode') => i \in DOMAIN dirs')
    BY <1>5
  <2> QED
    BY <1>1, <1>2, <2>1, <2>2, ListsStay DEF Sound
<1>13. PICK L : L = Listing
  OBVIOUS
<1>14. PICK L2 : L2 = Listing'
  OBVIOUS
<1>15. /\ DOMAIN L = DirsIn(inode) /\ Numbers(inode) /\ (\A x : IsFiniteSet(To(L, x)))
       /\ \A x \in DirsIn(inode) : L[x] = DirOf(x)
  BY <1>1, <1>13, ListingOK
<1>16. DOMAIN L2 = DirsIn(inode') /\ \A x \in DirsIn(inode') : L2[x] = DirOf(x)'
  BY <1>14 DEF Listing
<1>17. L2[d] = s /\ (k = "dir" => L2[i] = EmptyDir(d))
  BY <1>1, <1>2, <1>4, <1>5, <1>16, IdleLists
<1>18. ASSUME NEW x \in DirsIn(inode) \ {d}
       PROVE  L2[x] = L[x]
  <2>1. x \in DirsIn(inode') /\ inode'[x] = inode[x] /\ x # i
    BY <1>4, <1>18
  <2>2. x \in DOMAIN dirs' <=> x \in DOMAIN dirs
    BY <1>18, <2>1
  <2> QED
    BY <1>1, <1>2, <1>15, <1>16, <1>18, <2>1, <2>2, IdleLists
<1>19. Added(L, L2, d, n, i, k)
  <2>1. n \notin DOMAIN L[d].names
    BY <1>15 DEF View
  <2>2. Grown(L[d], L2[d], n, i, k)
    BY <1>8, <1>15, <1>17
  <2>3. DOMAIN L2 = DOMAIN L \cup (IF k = "dir" THEN {i} ELSE {})
    BY <1>4, <1>5, <1>15, <1>16
  <2>4. k = "dir" => i \notin DOMAIN L /\ L2[i].parent = d /\ DOMAIN L2[i].names = {}
    BY <1>4, <1>9, <1>15, <1>17
  <2> QED
    BY <1>15, <1>18, <2>1, <2>2, <2>3, <2>4 DEF Added, Grown
<1>20. Numbers(inode')
  <2>1. InodesOK'
    BY <1>1, EffectShape DEF Fit
  <2> QED
    BY <2>1 DEF InodesOK, InodeOK, Numbers, UsedIn
<1>21. \A j \in UsedIn(inode) : j \in UsedIn(inode') /\ inode'[j].kind = inode[j].kind
  BY <1>4 DEF InUse
<1>22. \A j \in UsedIn(inode') \ {i} : j \in UsedIn(inode) /\ inode'[j].nlink = inode[j].nlink
  BY <1>4 DEF InUse
<1>23. NamesKept(inode, L) /\ (failed = "no" => NamesAll(inode, L))
  BY <1>1, <1>13 DEF Sound, IInv, Whole
<1>24. i \in UsedIn(inode') \ {Root} /\ i \notin UsedIn(inode)
  <2>1. Root \in InUse
    BY <1>4, <1>15, <1>23 DEF NamesKept
  <2> QED
    BY <2>1 DEF InUse
<1>25. NamesKept(inode', L2) /\ (NamesAll(inode, L) => NamesAll(inode', L2))
  <2>1. /\ i \notin UsedIn(inode) => k = "dir" \/ inode'[i].nlink = 1
        /\ i \in UsedIn(inode) => k # "dir" /\ inode'[i].nlink = inode[i].nlink + 1
    BY <1>24
  <2> QED
    <3>1. MoreIn(inode, inode', i, k)
      BY <1>21, <1>22, <1>24, <2>1 DEF MoreIn
    <3> QED
      BY <1>15, <1>16, <1>19, <1>20, <1>23, <3>1, NamesAdd
<1>26. NamesKept(inode, Listing)' /\ (failed' = "no" => NamesAll(inode, Listing)')
  BY <1>14, <1>23, <1>25
<1>27. (ifree \cap InUse = {})' /\ (failed' = "no" => (ifree = DOMAIN inode \ InUse)')
  <2>1. ifree \cap InUse = {} /\ (failed = "no" => ifree = DOMAIN inode \ InUse) /\ InUse \subseteq DOMAIN inode
    BY <1>1 DEF Sound, IInv, Whole, InUse, UsedIn
  <2>2. InUse' = InUse \cup {i}
    BY <1>4
  <2>3. (ifree \cap InUse = {})'
    BY <1>4, <2>1, <2>2
  <2>4. failed = "no" => ifree' = DOMAIN inode' \ InUse'
    BY <1>4, <2>1, <2>2
  <2> QED
    BY <2>3, <2>4
<1>28. IInv'
  BY <1>11, <1>12, <1>26, <1>27, CallKeeps
<1>29. \A j \in InUse : Stays(j)
  BY <1>4 DEF Stays
<1>30. Gains(d, n, i, k)
  BY <1>13, <1>14, <1>19, <1>29 DEF Gains
<1> QED
  BY <1>1, <1>2, <1>28, <1>30 DEF Seen

(* How a call for a new name can end.                                      *)
Unmade(x) ==
    /\ \E k \in Idle : inode' = WithInodes(x.at.chunk, NewInode(k, 0, {}, {}, "none"))
    /\ dirs' = dirs /\ ifree' \subseteq IfreeWith(x.at.chunk)
    /\ failed' = "no" => ifree' = IfreeWith(x.at.chunk)
Made(x) ==
    /\ x.st.ok /\ free' = x.st.free /\ held' = Written(x.st.wrote, x.at.ino, x.body)
    /\ inode' = [WithChunk(x.at.chunk) EXCEPT ![x.at.ino] =
                    NewInode(x.kind, x.nlink, x.st.data, x.st.bmbt, x.body)]
    /\ ifree' = IfreeWith(x.at.chunk) \ {x.at.ino}
WithName(d, n, x) == Cached(dirs, d, AddName(d, n, x.at.ino, x.kind))
Named(d, n, x) ==
    /\ failed' = failed
    /\ dirs' = IF x.kind = "dir" THEN Cached(WithName(d, n, x), x.at.ino, x.body) ELSE WithName(d, n, x)
Nameless(x) ==
    /\ failed' = "leak"
    /\ dirs' = IF x.kind = "dir" THEN Cached(dirs, x.at.ino, x.body) ELSE dirs

(* It ends in one of these ways.                                           *)
LEMMA CreateEnds ==
    ASSUME NEW d, NEW n, NEW x, x.st.ok \in BOOLEAN, Create(d, n, x) \/ CreateFails(d, n, x)
    PROVE  Unmade(x) \/ (Made(x) /\ (Named(d, n, x) \/ Nameless(x)))
<1>1. \E k \in Idle : WithChunk(x.at.chunk) = WithInodes(x.at.chunk, NewInode(k, 0, {}, {}, "none"))
  BY DEF WithChunk, FreeInode, Idle
<1>2. \E k \in Idle : NewInode("garbage", 0, {}, {}, "none") = NewInode(k, 0, {}, {}, "none")
  BY DEF Idle
<1>3. CASE Create(d, n, x)
  <2>1. CASE x.st.ok
    <3>1. Made(x)
      BY <1>3, <2>1 DEF Create, Made
    <3>2. Named(d, n, x)
      BY <1>3, <2>1 DEF Create, Call, Named, WithName
    <3> QED
      BY <3>1, <3>2
  <2>2. CASE ~ x.st.ok
    <3>1. inode' = WithChunk(x.at.chunk) /\ dirs' = dirs /\ ifree' = IfreeWith(x.at.chunk)
      BY <1>3, <2>2 DEF Create
    <3> QED
      BY <1>1, <3>1 DEF Unmade
  <2> QED
    BY <2>1, <2>2
<1>4. CASE CreateFails(d, n, x)
  <2>1. CASE /\ ifree' = IfreeWith(x.at.chunk) \ {x.at.ino} /\ Lost /\ dirs' = dirs
             /\ inode' = WithInodes(x.at.chunk, NewInode("garbage", 0, {}, {}, "none"))
    <3>1. \E k \in Idle : inode' = WithInodes(x.at.chunk, NewInode(k, 0, {}, {}, "none"))
      BY <2>1 DEF Idle
    <3> QED
      BY <2>1, <3>1 DEF Unmade, Lost
  <2>2. CASE /\ ifree' = IfreeWith(x.at.chunk) \/ (ifree' = IfreeWith(x.at.chunk) \ {x.at.ino} /\ Lost)
             /\ dirs' = dirs /\ inode' = WithChunk(x.at.chunk)
    <3>1. \E k \in Idle : inode' = WithInodes(x.at.chunk, NewInode(k, 0, {}, {}, "none"))
      BY <1>1, <2>2
    <3> QED
      BY <2>2, <3>1 DEF Unmade, Lost
  <2>3. CASE Made(x) /\ Nameless(x)
    BY <2>3
  <2> QED
    BY <1>4, <2>1, <2>2, <2>3 DEF CreateFails, Made, Nameless, Lost
<1> QED
  BY <1>3, <1>4

(* A call for a new name.                                                  *)
LEMMA CreateStep ==
    ASSUME IInv, MayCall, NEW d \in LiveDirs, NEW n \in Names, n \notin DOMAIN View(d),
           NEW x \in NewNodes(d), Create(d, n, x) \/ CreateFails(d, n, x)
    PROVE  IInv' /\ Seen
<1>1. failed # "yes" /\ Sound /\ Ready /\ Fit
  BY CallReady
<1>2. d \in DirsIn(inode) /\ d \in DOMAIN inode
  BY LiveIs DEF DirsIn
<1>3. NodeOK(x, d)
  <2>1. x.at = NewNode(d)
    <3>1. \A k, l, b, st, fs : Node(d, k, l, b, st, fs).at = NewNode(d)
      BY DEF Node
    <3>2. ASSUME NEW c \in Contents, x \in CreateFile(d, c)
          PROVE  \E k, l, b, st, fs : x = Node(d, k, l, b, st, fs)
      BY <3>2 DEF CreateFile
    <3>3. x \in mkdir_with(d) \/ x \in symlink(d) \/ x \in mknod(d) => \E k, l, b, st, fs : x = Node(d, k, l, b, st, fs)
      BY DEF mkdir_with, symlink, mknod
    <3>4. (\E c \in Contents : x \in CreateFile(d, c)) \/ x \in mkdir_with(d) \/ x \in symlink(d) \/ x \in mknod(d)
      BY DEF NewNodes
    <3> QED
      BY <3>1, <3>2, <3>3, <3>4
  <2>2. NewNode(d).ok
    BY <2>1 DEF Create, CreateFails
  <2> QED
    BY <1>1, <1>2, <2>2, NodesOK DEF Fit
<1>4. PICK i : i = x.at.ino
  OBVIOUS
<1>5. PICK C : C = x.at.chunk
  OBVIOUS
<1>6. PICK I : I = UNION {InodesOf(b) : b \in C}
  OBVIOUS
<1>7. Effect(i, C) /\ Moves(i, C) /\ Marks(C)
  BY <1>1, <1>2, <1>3, <1>4, <1>5, CreateKeeps
<1>8. Found(x.at) /\ x.st.ok \in BOOLEAN /\ IsFiniteSet(C) /\ C \subseteq free
  BY <1>3, <1>5 DEF NodeOK, Gives, Found
<1>9. i \notin InUse
  BY <1>1, <1>4, <1>8, FoundUnused
<1>10. IfreeWith(x.at.chunk) = ifree \cup I
  BY <1>5, <1>6 DEF IfreeWith
<1>11. Counts /\ failed' # "yes"
  <2>1. icount' = icount /\ new_chunks' = new_chunks + Cardinality(C)
    BY <1>5 DEF Create, CreateFails, CallFails
  <2>2. new_chunks' \in Nat
    BY <1>8, <2>1, FS_CardinalityType DEF IInv, TypeOK
  <2>3. CASE Create(d, n, x)
    BY <1>1, <2>1, <2>2, <2>3, CallCounts DEF Create, Call, IInv
  <2>4. CASE CreateFails(d, n, x)
    <3>1. CallFails /\ (failed' = "leak" \/ failed' = failed)
      BY <2>4 DEF CreateFails, Lost
    <3> QED
      BY <1>1, <2>1, <2>2, <3>1, CallCounts DEF IInv
  <2> QED
    BY <2>3, <2>4
<1>12. CASE Unmade(x)
  <2>1. PICK k \in Idle : inode' = WithInodes(x.at.chunk, NewInode(k, 0, {}, {}, "none"))
    BY <1>12 DEF Unmade
  <2>2. chunks' = chunks \cup x.at.chunk
    BY <1>5, <1>7 DEF Effect, Around
  <2>3. PICK new : new = NewInode(k, 0, {}, {}, "none")
    OBVIOUS
  <2>4. inode'[x.at.ino] = IF x.at.ino \in DOMAIN inode THEN inode[x.at.ino] ELSE new
    BY <1>1, <1>8, <2>1, <2>2, <2>3, AroundIdle DEF Fit
  <2>5. new.kind = k
    BY <2>1, <2>3, ChunkInodesOK
  <2>6. i \notin InUse'
    BY <1>4, <1>9, <2>1, <2>4, <2>5 DEF InUse, UsedIn, Idle
  <2>7. i \notin DirsIn(inode')
    BY <2>6 DEF DirsIn, InUse, UsedIn
  <2>8. dirs' = dirs /\ ifree' \subseteq ifree \cup I /\ (failed' = "no" => ifree' = ifree \cup I)
    BY <1>10, <1>12 DEF Unmade
  <2> QED
    BY <1>6, <1>7, <1>8, <1>9, <1>11, <2>6, <2>7, <2>8, NamelessStep
<1>13. ASSUME Made(x)
       PROVE  /\ i \in InUse' /\ inode'[i].kind = x.kind /\ inode'[i].nlink = x.nlink
              /\ ifree' = (ifree \cup I) \ {i} /\ (i \in DirsIn(inode') <=> x.kind = "dir")
  <2>1. chunks' = chunks \cup x.at.chunk /\ dirty' \subseteq Ags
    BY <1>5, <1>7 DEF Effect, Around
  <2>2. /\ x.st.ok /\ free' = x.st.free /\ held' = Written(x.st.wrote, x.at.ino, x.body)
        /\ inode' = [WithChunk(x.at.chunk) EXCEPT ![x.at.ino] =
                        NewInode(x.kind, x.nlink, x.st.data, x.st.bmbt, x.body)]
        /\ ifree' = IfreeWith(x.at.chunk) \ {x.at.ino}
    BY <1>13 DEF Made
  <2>3. failed' = "no" => failed = "no"
    BY <1>11 DEF Counts
  <2>4. i \in InUse' /\ inode'[i].kind = x.kind /\ inode'[i].nlink = x.nlink
    BY <1>1, <1>2, <1>3, <1>4, <2>1, <2>2, <2>3, MadeEffect
  <2>5. i \in DirsIn(inode') <=> x.kind = "dir"
    BY <2>4 DEF DirsIn, InUse, UsedIn
  <2> QED
    BY <1>4, <1>10, <2>2, <2>4, <2>5
<1>14. PICK k : k = x.kind
  OBVIOUS
<1>15. (k = "dir" => x.body = EmptyDir(d)) /\ (k # "dir" => x.nlink = 1)
  BY <1>3, <1>14 DEF NodeOK
<1>16. DOMAIN dirs \subseteq DirsIn(inode) /\ i \notin DOMAIN dirs /\ i # d
  <2>1. DOMAIN dirs \subseteq DirsIn(inode) /\ DirsIn(inode) \subseteq InUse
    BY <1>1 DEF Sound, ListsKept, DirsIn, InUse, UsedIn
  <2> QED
    BY <1>2, <1>9, <2>1
<1>17. CASE Made(x) /\ Nameless(x)
  <2>1. /\ i \in InUse' /\ ifree' = (ifree \cup I) \ {i} /\ (i \in DirsIn(inode') <=> k = "dir")
    BY <1>13, <1>14, <1>17
  <2>2. failed' = "leak" /\ dirs' = IF k = "dir" THEN Cached(dirs, i, x.body) ELSE dirs
    BY <1>4, <1>14, <1>17 DEF Nameless
  <2>3. /\ \A y \in DOMAIN dirs : y \in DOMAIN dirs' /\ dirs'[y] = dirs[y]
        /\ DOMAIN dirs' = DOMAIN dirs \cup (IF i \in DirsIn(inode') THEN {i} ELSE {})
        /\ k = "dir" => dirs'[i] = x.body
    <3>1. CASE k = "dir"
      BY <1>16, <2>1, <2>2, <3>1 DEF Cached
    <3>2. CASE k # "dir"
      BY <2>1, <2>2, <3>2
    <3> QED
      BY <3>1, <3>2
  <2>4. ListOK(EmptyDir(d), DOMAIN inode') /\ DOMAIN EmptyDir(d).names = {}
    <3>1. EmptyDir(d).parent = d /\ DOMAIN EmptyDir(d).names = {}
      BY DEF EmptyDir
    <3>2. IsFiniteSet({})
      BY FS_EmptySet
    <3>3. EmptyDir(d) = [parent |-> EmptyDir(d).parent, names |-> EmptyDir(d).names]
      BY DEF EmptyDir
    <3>4. d \in DOMAIN inode'
      BY <1>2, <1>7 DEF Effect, Around
    <3> QED
      BY <3>1, <3>2, <3>3, <3>4 DEF ListOK
  <2>5. i \in DirsIn(inode') => ListOK(dirs'[i], DOMAIN inode') /\ DOMAIN dirs'[i].names = {}
    BY <1>15, <2>1, <2>3, <2>4
  <2>6. i \notin ifree' /\ ifree' \subseteq ifree \cup I /\ failed' # "no"
    BY <2>1, <2>2
  <2> QED
    BY <1>6, <1>7, <1>8, <1>9, <1>11, <2>3, <2>5, <2>6, NamelessStep
<1>18. CASE Made(x) /\ Named(d, n, x)
  <2>1. i \in InUse' /\ inode'[i].kind = k /\ inode'[i].nlink = x.nlink /\ ifree' = (ifree \cup I) \ {i}
    BY <1>13, <1>14, <1>18
  <2>2. PICK s : s = AddName(d, n, i, k)
    OBVIOUS
  <2>3. /\ failed' = failed
        /\ dirs' = IF k = "dir" THEN Cached(Cached(dirs, d, s), i, x.body) ELSE Cached(dirs, d, s)
    BY <1>4, <1>14, <1>18, <2>2 DEF Named, WithName
  <2>4. /\ DOMAIN dirs' = DOMAIN dirs \cup {d} \cup (IF k = "dir" THEN {i} ELSE {})
        /\ dirs'[d] = s /\ (k = "dir" => dirs'[i] = x.body)
        /\ \A y \in DOMAIN dirs \ {d, i} : dirs'[y] = dirs[y]
    <3>1. CASE k = "dir"
      BY <1>16, <2>3, <3>1 DEF Cached
    <3>2. CASE k # "dir"
      BY <2>3, <3>2 DEF Cached
    <3> QED
      BY <3>1, <3>2
  <2>5. (k # "dir" => inode'[i].nlink = 1) /\ (k = "dir" => dirs'[i] = EmptyDir(d))
    BY <1>15, <2>1, <2>4
  <2>6. NameMade(i, I, d, n, k, s)
    BY <2>1, <2>2, <2>3, <2>4, <2>5 DEF NameMade
  <2> QED
    BY <1>2, <1>6, <1>7, <1>8, <1>9, <1>11, <2>6, NamedStep
<1>19. Unmade(x) \/ (Made(x) /\ (Named(d, n, x) \/ Nameless(x)))
  BY <1>8, CreateEnds
<1> QED
  BY <1>12, <1>17, <1>18, <1>19

-----------------------------------------------------------------------------
(* Flushes.                                                                *)

FlShape ==
    /\ fl = [pc |-> fl.pc, todo |-> fl.todo, ags |-> fl.ags, pending |-> fl.pending]
    /\ fl.pc \in {"idle", "dirs", "ags", "write"} /\ fl.ags \subseteq Ags /\ fl.pending \subseteq Ags
Images ==
    /\ DOMAIN hdr = Ags /\ DOMAIN dag = Ags
    /\ \A a \in Ags : AgImageOK(hdr[a]) /\ AgImageOK(dag[a])
Counters ==
    /\ icount \in Nat /\ new_chunks \in Nat /\ calls \in 0 .. MaxCalls /\ faults \in 0 .. MaxFaults
    /\ last \in {"none", "ok", "err"} /\ failed \in {"no", "leak", "yes"}

(* The shape of the state, by its parts.                                   *)
LEMMA TypedIs == TypeOK <=> Fit /\ Listed /\ Lined /\ FlShape /\ Images /\ Counters
BY DEF TypeOK, Fit, Listed, Lined, GroupsOK, InodesOK, FlShape, Images, Counters

(* A step that leaves the inodes and the groups' sets alone.               *)
LEMMA FlushKeeps ==
    ASSUME IInv, UNCHANGED <<inode, held, free, chunks, ifree, failed>>, dirty' \subseteq Ags,
           (Listed /\ Lined /\ FlShape /\ Images /\ Counters)', FlushPart',
           failed # "yes" => Listing' = Listing /\ ListsKept' /\ GroupsKept' /\ (last' = "ok" => Flushed')
    PROVE  IInv' /\ (failed' # "yes" => Quiet)
<1>1. Fit'
  BY Typed DEF IInv, Fit, GroupsOK, InodesOK
<1>2. TypeOK'
  BY <1>1, TypedIs, PTL
<1>3. InUse' = InUse /\ AllForks' = AllForks
  BY DEF InUse, AllForks
<1>4. failed # "yes" => Sound'
  BY <1>3 DEF IInv, Sound, Stored
<1>5. failed = "no" => Whole'
  BY <1>3 DEF IInv, Whole
<1>6. IInv'
  BY <1>2, <1>4, <1>5 DEF IInv
<1>7. \A j \in InUse : Stays(j)
  BY <1>3 DEF Stays
<1> QED
  BY <1>6, <1>7 DEF Quiet

(* A flush that fails.                                                     *)
LEMMA ErrorKeeps ==
    ASSUME IInv, inode' = inode, chunks' = chunks, ifree' = ifree, free' \subseteq Blocks, dirty' \subseteq Ags,
           DOMAIN held' = Blocks, FlushError, UNCHANGED <<dirs, hdr, dag, calls>>,
           icount' \in Nat, new_chunks' \in Nat, faults' \in 0 .. MaxFaults
    PROVE  IInv' /\ failed' = "yes"
<1>1. Fit'
  BY Typed DEF IInv, Fit, GroupsOK, InodesOK
<1>2. fl' = IdleFlush /\ failed' = "yes" /\ last' = "err"
  BY DEF FlushError
<1>3. Listed' /\ Counters' /\ Images'
  <2>1. Listed /\ Counters /\ Images
    BY TypedIs DEF IInv
  <2>2. Listed'
    BY <2>1 DEF Listed
  <2>3. Counters'
    BY <1>2, <2>1 DEF Counters
  <2>4. Images'
    BY <2>1 DEF Images, AgImageOK
  <2> QED
    BY <2>2, <2>3, <2>4
<1>4. Lined' /\ FlShape' /\ FlushPart'
  <2>1. DOMAIN fl'.todo = {} /\ fl'.pc = "idle" /\ fl'.ags = {} /\ fl'.pending = {}
    BY <1>2 DEF IdleFlush
  <2>2. Lined'
    BY <2>1 DEF Lined
  <2>3. fl' = [pc |-> fl'.pc, todo |-> fl'.todo, ags |-> fl'.ags, pending |-> fl'.pending]
    BY <1>2 DEF IdleFlush
  <2>4. FlShape'
    BY <2>1, <2>3 DEF FlShape
  <2>5. FlushPart'
    BY <1>2, <2>1 DEF FlushPart
  <2> QED
    BY <2>2, <2>4, <2>5
<1>5. TypeOK'
  BY <1>1, <1>3, <1>4, TypedIs, PTL
<1> QED
  BY <1>2, <1>4, <1>5 DEF IInv

(* The first of a set of groups is one of them.                            *)
LEMMA FirstGroup ==
    ASSUME NEW S, S \subseteq Ags, S # {}
    PROVE  Min(S) \in S
<1>1. Ags \subseteq Nat
  BY WriterAssumption DEF Ags
<1> QED
  BY <1>1, MinOfNats

(* Sums over the groups are numbers.                                       *)
LEMMA SumNat ==
    ASSUME NEW F, \A a \in Ags : F[a] \subseteq Blocks
    PROVE  SumOver(F) \in Nat
<1> DEFINE P(a) == {a} \X F[a]
           g == [a \in Ags |-> P(a)]
<1>1. IsFiniteSet(Ags) /\ IsFiniteSet(Blocks)
  BY Groups
<1>2. g \in Surjection(Ags, {P(a) : a \in Ags})
  BY DEF Surjection
<1>3. IsFiniteSet({P(a) : a \in Ags})
  BY <1>1, <1>2, FS_Surjection
<1>4. ASSUME NEW a \in Ags
      PROVE  IsFiniteSet(P(a))
  <2>1. IsFiniteSet(F[a]) /\ IsFiniteSet({a})
    BY <1>1, <1>4, FS_Subset, FS_Singleton
  <2> QED
    BY <2>1, FS_Product
<1> HIDE DEF P
<1>5. IsFiniteSet(UNION {P(a) : a \in Ags})
  BY <1>3, <1>4, FS_UNION
<1>6. Cardinality(UNION {P(a) : a \in Ags}) \in Nat
  BY <1>5, FS_CardinalityType
<1> QED
  BY <1>6 DEF SumOver, P

(* `flush` begins: the lists in memory are in its hands.                   *)
LEMMA StartStep ==
    ASSUME IInv, FlushStart
    PROVE  IInv' /\ (failed' # "yes" => Quiet)
<1>1. fl = IdleFlush /\ fl.pc = "idle" /\ DOMAIN fl.todo = {} /\ calls < MaxCalls
  <2>1. fl = IdleFlush /\ fl.pc = "idle" /\ calls < MaxCalls
    BY DEF FlushStart, IInv, FlushPart
  <2> QED
    BY <2>1 DEF IdleFlush
<1>2. /\ fl' = [pc |-> "dirs", todo |-> dirs, ags |-> {}, pending |-> {}] /\ DOMAIN dirs' = {}
      /\ calls' = calls + 1 /\ last' = "none"
      /\ UNCHANGED <<inode, held, agVars, icount, new_chunks, diskVars, faults, failed>>
  BY DEF FlushStart, IdleFlush
<1>3. fl'.pc = "dirs" /\ fl'.todo = dirs /\ fl'.ags = {} /\ fl'.pending = {} /\ fl.pending = {}
  BY <1>1, <1>2 DEF IdleFlush
<1>4. Listed /\ Counters /\ Images /\ dirty \subseteq Ags
  BY TypedIs DEF IInv, Fit
<1>5. UNCHANGED <<inode, held, free, chunks, ifree, failed, dirty, hdr, dag>>
  BY <1>2 DEF agVars, diskVars
<1>6. Listed' /\ Lined'
  <2>1. Listed'
    BY <1>2 DEF Listed
  <2>2. Lined'
    BY <1>3, <1>4, <1>5 DEF Listed, Lined
  <2> QED
    BY <2>1, <2>2
<1>7. FlShape'
  BY <1>2, <1>3 DEF FlShape
<1>8. Images'
  BY <1>4, <1>5 DEF Images, AgImageOK
<1>9. Counters'
  <2>1. MaxCalls \in Nat
    BY WriterAssumption
  <2>2. calls' \in 0 .. MaxCalls
    BY <1>1, <1>2, <1>4, <2>1 DEF Counters
  <2> QED
    BY <1>2, <1>4, <2>2 DEF Counters
<1>10. FlushPart'
  BY <1>2, <1>3 DEF FlushPart
<1>11. Listing' = Listing
  <2>1. \A d : DirOf(d) = IF d \in DOMAIN dirs THEN dirs[d] ELSE inode[d].body
    BY <1>1 DEF DirOf
  <2>2. \A d : DirOf(d)' = IF d \in DOMAIN dirs THEN dirs[d] ELSE inode[d].body
    BY <1>2, <1>3, <1>5 DEF DirOf
  <2> QED
    BY <1>5, <2>1, <2>2 DEF Listing
<1>12. ASSUME failed # "yes"
       PROVE  ListsKept' /\ GroupsKept' /\ (last' = "ok" => Flushed')
  <2>1. ListsKept /\ GroupsKept
    BY <1>12 DEF IInv, Sound
  <2>2. DOMAIN dirs' \cup DOMAIN fl'.todo = DOMAIN dirs \cup DOMAIN fl.todo
    BY <1>1, <1>2, <1>3
  <2>3. ListsKept'
    BY <1>5, <2>1, <2>2 DEF ListsKept
  <2>4. \A a \in Ags : Snapshot(a)' = Snapshot(a)
    BY <1>5 DEF Snapshot
  <2>5. GroupsKept'
    BY <1>3, <1>5, <2>1, <2>4 DEF GroupsKept
  <2> QED
    BY <1>2, <2>3, <2>5
<1> QED
  BY <1>4, <1>5, <1>6, <1>7, <1>8, <1>9, <1>10, <1>11, <1>12, FlushKeeps

(* What `flush` counts is numbers.                                         *)
LEMMA CountersNat ==
    ASSUME IInv, SetCounters
    PROVE  icount' \in Nat /\ new_chunks' \in Nat
<1>1. PICK F : F = [a \in Ags |-> hdr[a].chunks]
  OBVIOUS
<1>2. \A a \in Ags : F[a] \subseteq Blocks
  BY <1>1, TypedIs DEF IInv, Images, AgImageOK
<1>3. SumOver(F) \in Nat /\ ChunkInodes \in Nat
  BY <1>2, SumNat, WriterAssumption
<1>4. icount' = SumOver(F) * ChunkInodes /\ new_chunks' = 0
  BY <1>1 DEF SetCounters
<1> QED
  BY <1>3, <1>4

(* The steps of `flush` after the directories.                             *)
LEMMA LaterStep ==
    ASSUME IInv, FlushDirsDone \/ FlushRebuild \/ FlushRebuilt \/ FlushWrite \/ FlushSuper
    PROVE  IInv' /\ (failed' # "yes" => Quiet)
<1>1. /\ Listed /\ Lined /\ FlShape /\ Counters /\ Images /\ dirty \subseteq Ags /\ FlushPart
      /\ free \subseteq Blocks /\ chunks \subseteq Blocks /\ ifree \subseteq DOMAIN inode
  BY TypedIs DEF IInv, Fit, GroupsOK
<1>2. /\ UNCHANGED <<inode, held, free, chunks, ifree, failed, dirs, calls, faults>>
      /\ fl.pc # "idle" /\ DOMAIN fl.todo = {} /\ DOMAIN dirs = {}
  <2>1. UNCHANGED <<inode, held, free, chunks, ifree, failed, dirs, calls, faults>>
    BY DEF FlushDirsDone, FlushRebuild, FlushRebuilt, FlushWrite, FlushSuper, SetCounters, agVars, memVars
  <2>2. (fl.pc = "dirs" /\ DOMAIN fl.todo = {}) \/ fl.pc \in {"ags", "write"}
    BY DEF FlushDirsDone, FlushRebuild, FlushRebuilt, FlushWrite, FlushSuper, SetCounters
  <2> QED
    BY <1>1, <2>1, <2>2 DEF FlushPart
<1>3. DOMAIN fl'.todo = {}
  <2>1. CASE FlushSuper
    BY <2>1 DEF FlushSuper, IdleFlush
  <2>2. CASE ~ FlushSuper
    <3>1. fl'.todo = fl.todo
      <4>1. fl = [pc |-> fl.pc, todo |-> fl.todo, ags |-> fl.ags, pending |-> fl.pending]
        BY <1>1 DEF FlShape
      <4> QED
        BY <2>2, <4>1 DEF FlushDirsDone, FlushRebuild, FlushRebuilt, FlushWrite
    <3> QED
      BY <1>2, <3>1
  <2> QED
    BY <2>1, <2>2
<1>4. Listed' /\ Lined'
  BY <1>2, <1>3 DEF Listed, Lined
<1>5. Listing' = Listing
  <2>1. \A d : DirOf(d) = inode[d].body
    BY <1>2 DEF DirOf
  <2>2. \A d : DirOf(d)' = inode[d].body
    BY <1>2, <1>3 DEF DirOf
  <2> QED
    BY <1>2, <2>1, <2>2 DEF Listing
<1>6. failed # "yes" => ListsKept'
  BY <1>2, <1>3 DEF IInv, Sound, ListsKept
<1>7. \A a \in Ags : Snapshot(a)' = Snapshot(a)
  BY <1>2 DEF Snapshot
<1>8. failed # "yes" => GroupsKept /\ last # "ok"
  BY <1>2 DEF IInv, Sound, Flushed
<1>9. CASE FlushDirsDone
  <2>1. /\ fl' = [fl EXCEPT !.pc = "ags", !.ags = dirty] /\ fl.pc = "dirs"
        /\ UNCHANGED <<dirty, hdr, dag, icount, new_chunks, last>>
    BY <1>9 DEF FlushDirsDone, agVars, memVars, diskVars
  <2>2. FlShape' /\ fl'.pc = "ags" /\ fl'.ags = dirty /\ fl'.pending = fl.pending
    BY <1>1, <2>1 DEF FlShape
  <2>3. Images' /\ Counters' /\ FlushPart'
    <3>1. Images'
      BY <1>1, <1>2, <2>1 DEF Images, AgImageOK
    <3>2. Counters'
      BY <1>1, <1>2, <2>1 DEF Counters
    <3>3. FlushPart'
      BY <1>2, <1>3, <2>2 DEF FlushPart
    <3> QED
      BY <3>1, <3>2, <3>3
  <2>4. failed # "yes" => GroupsKept' /\ last' # "ok"
    BY <1>7, <1>8, <2>1, <2>2 DEF GroupsKept
  <2> QED
    BY <1>1, <1>2, <1>4, <1>5, <1>6, <2>1, <2>2, <2>3, <2>4, FlushKeeps
<1>10. CASE FlushRebuild
  <2>1. PICK a : a = Min(fl.ags)
    OBVIOUS
  <2>2. /\ fl.pc = "ags" /\ fl.ags # {} /\ hdr' = [hdr EXCEPT ![a] = Snapshot(a)] /\ dirty' = dirty \ {a}
        /\ fl' = [fl EXCEPT !.ags = @ \ {a}, !.pending = @ \cup {a}]
        /\ UNCHANGED <<dag, icount, new_chunks, last>>
    BY <1>10, <2>1 DEF FlushRebuild, memVars
  <2>3. a \in fl.ags /\ a \in Ags
    BY <1>1, <2>1, <2>2, FirstGroup DEF FlShape
  <2>4. FlShape' /\ fl'.pc = "ags" /\ fl'.ags = fl.ags \ {a} /\ fl'.pending = fl.pending \cup {a}
    BY <1>1, <2>2, <2>3 DEF FlShape
  <2>5. DOMAIN hdr' = Ags /\ hdr'[a] = Snapshot(a) /\ \A x \in Ags \ {a} : hdr'[x] = hdr[x]
    BY <1>1, <2>2, <2>3 DEF Images
  <2>6. Images' /\ Counters' /\ FlushPart'
    <3>1. AgImageOK(Snapshot(a))
      BY <1>1 DEF AgImageOK, Snapshot
    <3>2. ASSUME NEW x \in Ags
          PROVE  AgImageOK(hdr[x])' /\ AgImageOK(dag[x])'
      <4>1. AgImageOK(hdr[x]) /\ AgImageOK(dag[x])
        BY <1>1, <3>2 DEF Images
      <4> QED
        BY <1>2, <2>2, <2>5, <3>1, <4>1 DEF AgImageOK
    <3>3. Images'
      BY <1>1, <2>2, <2>5, <3>2 DEF Images
    <3>4. Counters'
      BY <1>1, <1>2, <2>2 DEF Counters
    <3>5. FlushPart'
      BY <1>2, <1>3, <2>4 DEF FlushPart
    <3> QED
      BY <3>3, <3>4, <3>5
  <2>7. failed # "yes" => GroupsKept' /\ last' # "ok"
    <3>1. SUFFICES ASSUME failed # "yes"
                   PROVE  GroupsKept'
      BY <1>8, <2>2
    <3>2. GroupsKept
      BY <1>8, <3>1
    <3>3. \A x \in Ags \ dirty' : hdr'[x] = Snapshot(x)'
      BY <1>7, <2>2, <2>5, <3>2 DEF GroupsKept
    <3>4. \A x \in Ags \ fl'.pending : dag'[x] = hdr'[x]
      BY <2>2, <2>4, <2>5, <3>2 DEF GroupsKept
    <3> QED
      BY <2>2, <2>4, <3>2, <3>3, <3>4 DEF GroupsKept
  <2> QED
    BY <1>1, <1>2, <1>4, <1>5, <1>6, <2>2, <2>4, <2>6, <2>7, FlushKeeps
<1>11. CASE FlushRebuilt
  <2>1. /\ fl' = [fl EXCEPT !.pc = "write"] /\ fl.pc = "ags" /\ fl.ags = {}
        /\ UNCHANGED <<dirty, hdr, dag, icount, new_chunks, last>>
    BY <1>11 DEF FlushRebuilt, agVars, memVars, diskVars
  <2>2. FlShape' /\ fl'.pc = "write" /\ fl'.pending = fl.pending
    BY <1>1, <2>1 DEF FlShape
  <2>3. Images' /\ Counters' /\ FlushPart'
    <3>1. Images'
      BY <1>1, <1>2, <2>1 DEF Images, AgImageOK
    <3>2. Counters'
      BY <1>1, <1>2, <2>1 DEF Counters
    <3>3. FlushPart'
      BY <1>2, <1>3, <2>2 DEF FlushPart
    <3> QED
      BY <3>1, <3>2, <3>3
  <2>4. failed # "yes" => GroupsKept' /\ last' # "ok"
    BY <1>7, <1>8, <2>1, <2>2 DEF GroupsKept
  <2> QED
    BY <1>1, <1>2, <1>4, <1>5, <1>6, <2>1, <2>2, <2>3, <2>4, FlushKeeps
<1>12. CASE FlushWrite
  <2>1. PICK a : a = Min(fl.pending)
    OBVIOUS
  <2>2. /\ fl.pc = "write" /\ fl.pending # {} /\ dag' = [dag EXCEPT ![a] = hdr[a]]
        /\ fl' = [fl EXCEPT !.pending = @ \ {a}]
        /\ UNCHANGED <<dirty, hdr, icount, new_chunks, last>>
    BY <1>12, <2>1 DEF FlushWrite, agVars, memVars
  <2>3. a \in fl.pending /\ a \in Ags
    BY <1>1, <2>1, <2>2, FirstGroup DEF FlShape
  <2>4. FlShape' /\ fl'.pc = "write" /\ fl'.pending = fl.pending \ {a}
    BY <1>1, <2>2, <2>3 DEF FlShape
  <2>5. DOMAIN dag' = Ags /\ dag'[a] = hdr[a] /\ \A x \in Ags \ {a} : dag'[x] = dag[x]
    BY <1>1, <2>2, <2>3 DEF Images
  <2>6. Images' /\ Counters' /\ FlushPart'
    <3>1. ASSUME NEW x \in Ags
          PROVE  AgImageOK(hdr[x])' /\ AgImageOK(dag[x])'
      <4>1. AgImageOK(hdr[x]) /\ AgImageOK(dag[x])
        BY <1>1, <3>1 DEF Images
      <4> QED
        BY <1>2, <2>2, <2>5, <4>1 DEF AgImageOK
    <3>2. Images'
      BY <1>1, <2>2, <2>5, <3>1 DEF Images
    <3>3. Counters'
      BY <1>1, <1>2, <2>2 DEF Counters
    <3>4. FlushPart'
      BY <1>2, <1>3, <2>4 DEF FlushPart
    <3> QED
      BY <3>2, <3>3, <3>4
  <2>7. failed # "yes" => GroupsKept' /\ last' # "ok"
    <3>1. SUFFICES ASSUME failed # "yes"
                   PROVE  GroupsKept'
      BY <1>8, <2>2
    <3>2. GroupsKept
      BY <1>8, <3>1
    <3>3. \A x \in Ags \ dirty' : hdr'[x] = Snapshot(x)'
      BY <1>7, <2>2, <3>2 DEF GroupsKept
    <3>4. \A x \in Ags \ fl'.pending : dag'[x] = hdr'[x]
      BY <2>2, <2>4, <2>5, <3>2 DEF GroupsKept
    <3> QED
      BY <2>2, <2>4, <3>2, <3>3, <3>4 DEF GroupsKept
  <2> QED
    BY <1>1, <1>2, <1>4, <1>5, <1>6, <2>2, <2>4, <2>6, <2>7, FlushKeeps
<1>13. CASE FlushSuper
  <2>1. PICK m : m = SumOver([a \in Ags |-> hdr[a].chunks]) * ChunkInodes
    OBVIOUS
  <2>2. /\ fl.pc = "write" /\ fl.pending = {} /\ fl' = IdleFlush /\ last' = "ok"
        /\ icount' = m /\ new_chunks' = 0 /\ UNCHANGED <<dirty, hdr, dag>>
        /\ sbc' = [free |-> SumOver([a \in Ags |-> hdr[a].free]), icount |-> m,
                   ifree |-> SumOver([a \in Ags |-> hdr[a].ifree])]
    BY <1>13, <2>1 DEF FlushSuper, SetCounters, agVars
  <2>3. FlShape' /\ fl'.pc = "idle" /\ fl'.pending = {}
    BY <2>2 DEF FlShape, IdleFlush
  <2>4. m \in Nat
    BY <1>13, <2>2, CountersNat DEF FlushSuper
  <2>5. Images' /\ Counters' /\ FlushPart'
    <3>1. Images'
      BY <1>1, <1>2, <2>2 DEF Images, AgImageOK
    <3>2. Counters'
      BY <1>1, <1>2, <2>2, <2>4 DEF Counters
    <3>3. FlushPart'
      BY <2>2, <2>3 DEF FlushPart
    <3> QED
      BY <3>1, <3>2, <3>3
  <2>6. ASSUME failed # "yes"
        PROVE  GroupsKept' /\ Flushed'
    <3>1. GroupsKept /\ dirty = {}
      BY <1>8, <2>2, <2>6 DEF GroupsKept
    <3>2. GroupsKept'
      BY <1>7, <2>2, <2>3, <3>1 DEF GroupsKept
    <3>3. Flushed'
      BY <1>2, <2>1, <2>2, <2>3, <3>1 DEF Flushed
    <3> QED
      BY <3>2, <3>3
  <2> QED
    BY <1>1, <1>2, <1>4, <1>5, <1>6, <2>2, <2>3, <2>5, <2>6, FlushKeeps
<1> QED
  BY <1>9, <1>10, <1>11, <1>12, <1>13

(* A directory is written: readers see the same list, and its links count. *)
LEMMA DirDoneStep ==
    ASSUME IInv, fl.pc = "dirs", NEW d \in DOMAIN fl.todo, NEW D, NEW B, DirDone(d, D, B),
           UNCHANGED <<chunks, ifree, memVars, diskVars, calls>>, faults' \in 0 .. MaxFaults
    PROVE  IInv' /\ (failed' # "yes" => Quiet)
<1>1. /\ Fit /\ Listed /\ Lined /\ FlShape /\ Counters /\ Images /\ FlushPart /\ DOMAIN dirs = {}
  BY TypedIs DEF IInv, FlushPart
<1>2. /\ Effect(d, {}) /\ d \in DOMAIN inode /\ inode[d].kind = "dir" /\ inode'[d].kind = "dir"
      /\ inode'[d].body = fl.todo[d] /\ inode'[d].nlink = 2 + Cardinality(SubDirNames(fl.todo[d]))
  BY <1>1, DirDoneIs
<1>3. /\ fl' = [fl EXCEPT !.todo = Uncached(@, d)] /\ last' = last /\ failed' = failed /\ dirs' = dirs
      /\ hdr' = hdr /\ dag' = dag /\ icount' = icount /\ new_chunks' = new_chunks
  BY DEF DirDone, memVars, diskVars
<1>4. /\ FlShape' /\ fl'.pc = "dirs" /\ fl'.pending = fl.pending /\ fl'.todo = Uncached(fl.todo, d)
  BY <1>1, <1>3 DEF FlShape
<1>5. DOMAIN fl'.todo = DOMAIN fl.todo \ {d} /\ \A x \in DOMAIN fl'.todo : fl'.todo[x] = fl.todo[x]
  BY <1>4 DEF Uncached
<1>6. GroupsOK' /\ InodesOK' /\ Around(d, {}) /\ dirty' \subseteq Ags /\ DOMAIN held' = Blocks
  BY <1>1, <1>2, EffectShape DEF Fit, Effect
<1>7. DOMAIN inode' = DOMAIN inode /\ \A j \in DOMAIN inode \ {d} : inode'[j] = inode[j]
  BY <1>6 DEF Around
<1>8. TypeOK'
  <2>1. Fit'
    BY <1>6 DEF Fit
  <2>2. Listed' /\ Lined'
    BY <1>1, <1>3, <1>5, <1>7 DEF Listed, Lined
  <2>3. Images'
    BY <1>1, <1>3, <1>7 DEF Images, AgImageOK
  <2>4. Counters'
    BY <1>1, <1>3 DEF Counters
  <2> QED
    BY <1>4, <2>1, <2>2, <2>3, <2>4, TypedIs, PTL
<1>9. FlushPart'
  BY <1>1, <1>3, <1>4 DEF FlushPart
<1>10. d \in InUse
  BY <1>2 DEF InUse, UsedIn
<1>11. InUse' = InUse /\ DirsIn(inode') = DirsIn(inode)
  BY <1>2, <1>6, <1>10, SameKinds
<1>12. Listing' = Listing
  <2>1. \A x : DirOf(x) = IF x \in DOMAIN fl.todo THEN fl.todo[x] ELSE inode[x].body
    BY <1>1 DEF DirOf
  <2>2. \A x : DirOf(x)' = IF x \in DOMAIN fl'.todo THEN fl'.todo[x] ELSE inode'[x].body
    BY <1>1, <1>3 DEF DirOf
  <2>3. DirOf(d)' = DirOf(d)
    BY <1>2, <1>5, <2>1, <2>2
  <2>4. \A x \in DOMAIN inode \ {d} : DirOf(x)' = DirOf(x)
    BY <1>5, <1>7, <2>1, <2>2
  <2>5. \A x \in DirsIn(inode) : DirOf(x)' = DirOf(x)
    BY <2>3, <2>4 DEF DirsIn
  <2> QED
    BY <1>11, <2>5 DEF Listing
<1>13. ASSUME failed # "yes"
       PROVE  Sound' /\ last' # "ok" /\ (failed = "no" => Whole')
  <2>1. Sound /\ Ready
    BY <1>1, <1>13 DEF IInv, Sound, Ready, Fit
  <2>2. Moves(d, {}) /\ Marks({})
    <3>1. chunks' = chunks /\ ifree' = ifree
      OBVIOUS
    <3>2. Keeps(d)
      BY <1>1, <2>1, <3>1, DirDoneKeeps
    <3> QED
      BY <1>3, <1>13, <3>2 DEF Keeps
  <2>3. OneOwner(inode, chunks, free)' /\ Stored'
    BY <1>1, <1>6, <2>1, <2>2, OwnerStays, StoredStays DEF Sound, Fit
  <2>4. ListsKept'
    <3>1. ListsKept /\ DOMAIN dirs' = {}
      BY <1>1, <1>3, <2>1 DEF Sound
    <3>2. DOMAIN dirs' \cup DOMAIN fl'.todo \subseteq DirsIn(inode')
      BY <1>5, <1>11, <3>1 DEF ListsKept
    <3>3. ASSUME NEW x \in DirsIn(inode') \ (DOMAIN dirs' \cup DOMAIN fl'.todo)
          PROVE  inode'[x].nlink = 2 + Cardinality(SubDirNames(inode'[x].body))
      <4>1. CASE x = d
        BY <1>2, <4>1
      <4>2. CASE x # d
        <5>1. x \in DirsIn(inode) \ (DOMAIN dirs \cup DOMAIN fl.todo) /\ x \in DOMAIN inode
          BY <1>1, <1>5, <1>11, <3>3, <4>2 DEF DirsIn
        <5>2. inode'[x] = inode[x]
          BY <1>7, <4>2, <5>1
        <5> QED
          BY <3>1, <5>1, <5>2 DEF ListsKept
      <4> QED
        BY <4>1, <4>2
    <3> QED
      BY <3>2, <3>3 DEF ListsKept
  <2>5. GroupsKept'
    <3>1. GroupsKept /\ dirty \subseteq dirty'
      BY <2>1, <2>2 DEF Sound, Marks
    <3>2. ASSUME NEW a \in Ags \ dirty'
          PROVE  hdr'[a] = Snapshot(a)'
      <4>1. Snapshot(a)' = Snapshot(a)
        BY <1>1, <1>6, <2>2, MarksKeep DEF Fit
      <4> QED
        BY <1>3, <3>1, <4>1 DEF GroupsKept
    <3> QED
      BY <1>3, <1>4, <3>1, <3>2 DEF GroupsKept
  <2>6. PICK L : L = Listing
    OBVIOUS
  <2>7. /\ DOMAIN L = DirsIn(inode) /\ Numbers(inode) /\ (\A x : IsFiniteSet(To(L, x)))
    BY <1>1, <2>6, ListingOK
  <2>8. Numbers(inode')
    BY <1>6 DEF InodesOK, InodeOK, Numbers, UsedIn
  <2>9. \A j \in UsedIn(inode) : /\ j \in UsedIn(inode') /\ inode'[j].kind = inode[j].kind
                                 /\ inode[j].kind # "dir" => inode'[j].nlink = inode[j].nlink
    BY <1>2, <1>7, <1>11 DEF InUse, UsedIn
  <2>10. \A j \in UsedIn(inode) : /\ j \in UsedIn(inode') /\ inode'[j].kind = inode[j].kind
                                  /\ inode[j].kind # "dir" => inode'[j].nlink >= inode[j].nlink
    BY <2>7, <2>9 DEF Numbers
  <2>11. NamesKept(inode, L) /\ (failed = "no" => NamesAll(inode, L))
    BY <2>1, <2>6 DEF Sound, IInv, Whole
  <2>12. DOMAIN L = DirsIn(inode') /\ UsedIn(inode') \subseteq UsedIn(inode)
    BY <1>11, <2>7 DEF InUse
  <2>13. /\ NamesKept(inode', L)
         /\ NamesAll(inode, L) /\ (\A j \in UsedIn(inode) : inode[j].kind # "dir" => inode'[j].nlink = inode[j].nlink)
               => NamesAll(inode', L)
    BY <2>7, <2>8, <2>10, <2>11, <2>12, NamesStay
  <2>14. NamesKept(inode, Listing)' /\ (failed = "no" => NamesAll(inode, Listing)')
    BY <1>12, <2>6, <2>9, <2>11, <2>13
  <2>15. Sound'
    BY <1>11, <2>1, <2>3, <2>4, <2>5, <2>14 DEF Sound
  <2>16. failed = "no" => Whole'
    <3>1. failed = "no" => (free \cup chunks \cup AllForks = Blocks /\ ifree = DOMAIN inode \ InUse)
      BY DEF IInv, Whole
    <3>2. failed = "no" => (free \cup chunks \cup AllForks)' = Blocks
      BY <1>1, <1>3, <1>6, <2>1, <2>2, <3>1, OwnerStays DEF Sound, Fit
    <3> QED
      BY <1>7, <1>11, <2>14, <3>1, <3>2 DEF Whole
  <2>17. last # "ok"
    BY <1>13 DEF IInv, Flushed
  <2> QED
    BY <1>3, <2>15, <2>16, <2>17
<1>14. IInv'
  BY <1>3, <1>8, <1>9, <1>13 DEF IInv
<1>15. \A j \in InUse : Stays(j)
  <2>1. inode'[d].perms = inode[d].perms
    <3>1. PICK r, c, l : r = inode[d] /\ c = fl.todo[d] /\ l = 2 + Cardinality(SubDirNames(fl.todo[d]))
      OBVIOUS
    <3>2. inode' = [inode EXCEPT ![d] = RewriteDir(r, D, B, c, l)]
      BY <3>1 DEF DirDone
    <3>3. inode'[d] = RewriteDir(r, D, B, c, l)
      BY <1>2, <3>2
    <3> QED
      BY <3>1, <3>3 DEF RewriteDir
  <2>2. \A j \in InUse \ {d} : inode'[j] = inode[j]
    BY <1>7 DEF InUse, UsedIn
  <2> QED
    BY <1>2, <1>11, <2>1, <2>2 DEF Stays
<1> QED
  BY <1>12, <1>14, <1>15 DEF Quiet

(* A step of `flush`.                                                      *)
LEMMA FlushStep ==
    ASSUME IInv, flush
    PROVE  IInv' /\ (failed' # "yes" => Quiet)
<1>1. Fit /\ Lined /\ Counters
  BY TypedIs DEF IInv
<1>2. MaxFaults \in Nat
  BY WriterAssumption
<1>3. CASE FlushStart
  BY <1>3, StartStep
<1>4. CASE FlushDirsDone \/ FlushRebuild \/ FlushRebuilt \/ FlushWrite \/ FlushSuper
  BY <1>4, LaterStep
<1>5. CASE FlushRebuildFails \/ FlushWriteFails
  <2>1. /\ faults < MaxFaults /\ faults' = faults + 1 /\ FlushError
        /\ UNCHANGED <<inode, held, agVars, dirs, hdr, dag, calls>>
        /\ SetCounters \/ UNCHANGED <<icount, new_chunks>>
    BY <1>5 DEF FlushRebuildFails, FlushWriteFails, memVars, diskVars
  <2>2. faults' \in 0 .. MaxFaults
    BY <1>1, <1>2, <2>1 DEF Counters
  <2>3. UNCHANGED <<inode, held, free, chunks, ifree, dirty>>
    BY <2>1 DEF agVars
  <2>4. free' \subseteq Blocks /\ dirty' \subseteq Ags /\ DOMAIN held' = Blocks
    BY <1>1, <2>3 DEF Fit, GroupsOK
  <2>5. icount' \in Nat /\ new_chunks' \in Nat
    BY <1>1, <2>1, CountersNat DEF Counters
  <2> QED
    BY <2>1, <2>2, <2>3, <2>4, <2>5, ErrorKeeps
<1>6. ASSUME NEW nb \in BmbtSizes, write_dir(nb) \/ write_dir_fails(nb)
      PROVE  IInv' /\ (failed' # "yes" => Quiet)
  <2>1. PICK d : d = Min(DOMAIN fl.todo)
    OBVIOUS
  <2>2. /\ fl.pc = "dirs" /\ UNCHANGED <<chunks, ifree, memVars, diskVars, calls>>
        /\ (faults' = faults \/ (faults < MaxFaults /\ faults' = faults + 1))
    BY <1>6 DEF write_dir, write_dir_fails
  <2>3. faults' \in 0 .. MaxFaults
    BY <1>1, <1>2, <2>2 DEF Counters
  <2>4. d \in DOMAIN fl.todo /\ (DirBad \/ \E D, B : DirDone(d, D, B))
    BY <1>1, <1>6, <2>1, WriteDirIs
  <2>5. CASE DirBad
    <3>1. UNCHANGED <<dirs, hdr, dag, calls>> /\ icount' \in Nat /\ new_chunks' \in Nat
      BY <1>1, <2>2 DEF memVars, diskVars, Counters
    <3> QED
      BY <2>3, <2>5, <3>1, <2>2, ErrorKeeps DEF DirBad
  <2>6. CASE \E D, B : DirDone(d, D, B)
    <3>1. PICK D, B : DirDone(d, D, B)
      BY <2>6
    <3> QED
      BY <2>2, <2>3, <2>4, <3>1, DirDoneStep
  <2> QED
    BY <2>4, <2>5, <2>6
<1> QED
  BY <1>3, <1>4, <1>5, <1>6 DEF flush

(* A step that changes nothing.                                            *)
LEMMA StutterStep ==
    ASSUME IInv, UNCHANGED vars
    PROVE  IInv' /\ (failed' # "yes" => Quiet)
<1>1. /\ UNCHANGED <<inode, held, free, chunks, ifree, dirty, dirs, fl>>
      /\ UNCHANGED <<icount, new_chunks, hdr, dag, sbc, calls, faults, last, failed>>
  BY DEF vars, agVars, memVars, diskVars
<1>2. Fit /\ Listed /\ Lined /\ FlShape /\ Counters /\ Images /\ FlushPart
  BY TypedIs DEF IInv
<1>3. Listed' /\ Lined' /\ FlShape'
  BY <1>1, <1>2 DEF Listed, Lined, FlShape
<1>4. Images'
  BY <1>1, <1>2 DEF Images, AgImageOK
<1>5. Counters'
  BY <1>1, <1>2 DEF Counters
<1>6. FlushPart' /\ dirty' \subseteq Ags
  BY <1>1, <1>2 DEF FlushPart, Fit
<1>7. Listing' = Listing
  BY <1>1 DEF Listing, DirOf
<1>8. \A a \in Ags : Snapshot(a)' = Snapshot(a)
  BY <1>1 DEF Snapshot
<1>9. ASSUME failed # "yes"
      PROVE  ListsKept' /\ GroupsKept' /\ (last' = "ok" => Flushed')
  <2>1. ListsKept /\ GroupsKept /\ (last = "ok" => Flushed)
    BY <1>9 DEF IInv, Sound
  <2>2. ListsKept'
    BY <1>1, <2>1 DEF ListsKept
  <2>3. GroupsKept'
    BY <1>1, <1>8, <2>1 DEF GroupsKept
  <2>4. last' = "ok" => Flushed'
    BY <1>1, <2>1 DEF Flushed
  <2> QED
    BY <2>2, <2>3, <2>4
<1> QED
  BY <1>1, <1>3, <1>4, <1>5, <1>6, <1>7, <1>9, FlushKeeps

-----------------------------------------------------------------------------
(* The whole.                                                              *)

(* Every step keeps the invariant.                                         *)
LEMMA NextStep ==
    ASSUME IInv, Next
    PROVE  IInv' /\ (failed' # "yes" => Seen)
<1>1. ASSUME MayCall, NEW d \in LiveDirs, NEW n \in Names, NewName(d, n)
      PROVE  IInv' /\ (failed' # "yes" => Seen)
  <2>1. \E x \in NewNodes(d) : Create(d, n, x) \/ CreateFails(d, n, x)
    <3>1. \A c \in Contents : CreateFile(d, c) \subseteq NewNodes(d)
      BY DEF NewNodes
    <3>2. mkdir_with(d) \subseteq NewNodes(d) /\ symlink(d) \subseteq NewNodes(d) /\ mknod(d) \subseteq NewNodes(d)
      BY DEF NewNodes
    <3> QED
      BY <1>1, <3>1, <3>2 DEF NewName
  <2>2. n \notin DOMAIN View(d)
    BY <1>1 DEF NewName
  <2> QED
    BY <1>1, <2>1, <2>2, CreateStep
<1>2. ASSUME MayCall, NEW e \in Entries, OnName(e)
      PROVE  IInv' /\ (failed' # "yes" => Seen)
  <2>1. ASSUME NEW c \in Contents, NEW nb \in BmbtSizes, NEW p,
               Replace(e[1], e[2], c, nb, p) \/ ReplaceFails(e[1], e[2], c, nb)
        PROVE  IInv' /\ (failed' # "yes" => Seen)
    BY <1>2, <2>1, ReplaceStep
  <2>2. CASE unlink(e[1], e[2]) \/ rmdir(e[1], e[2])
    BY <1>2, <2>2, RemoveStep
  <2>3. CASE RemoveFails(e[1], e[2])
    BY <1>2, <2>3, RemoveFailsStep
  <2>4. ASSUME NEW p \in Perms, chmod(View(e[1])[e[2]].ino, p)
        PROVE  IInv' /\ (failed' # "yes" => Seen)
    <3>1. PICK y : y = View(e[1])[e[2]]
      OBVIOUS
    <3>2. PICK i : i = y.ino
      OBVIOUS
    <3>3. i \in InUse /\ chmod(i, p)
      <4>1. NamesKept(inode, Listing)
        BY <1>2, CallReady DEF Sound
      <4> QED
        BY <2>4, <3>1, <3>2, <4>1, EntryIs
    <3>4. IInv' /\ Counts /\ Touches(i)
      BY <1>2, <3>3, MarkStep
    <3> QED
      BY <1>2, <3>1, <3>2, <3>4, CallSeen DEF Entry
  <2>5. ASSUME NEW c \in Contents, NEW nb \in BmbtSizes, ReplaceFails(e[1], e[2], c, nb)
        PROVE  IInv' /\ (failed' # "yes" => Seen)
    <3>1. PICK p : p = 0
      OBVIOUS
    <3> QED
      BY <2>1, <2>5
  <2> QED
    BY <1>2, <2>1, <2>2, <2>3, <2>4, <2>5 DEF OnName
<1>3. ASSUME MayCall, NEW e \in Entries, NEW d \in LiveDirs, NEW n \in Names, link(e, d, n) \/ LinkFails(e, d, n)
      PROVE  IInv' /\ (failed' # "yes" => Seen)
  <2>1. CASE link(e, d, n)
    BY <1>3, <2>1, LinkStep
  <2>2. CASE LinkFails(e, d, n)
    <3>1. PICK y : y = View(e[1])[e[2]]
      OBVIOUS
    <3>2. PICK i : i = y.ino
      OBVIOUS
    <3>3. i \in InUse /\ inode[i].kind = y.kind
      <4>1. NamesKept(inode, Listing)
        BY <1>3, CallReady DEF Sound
      <4> QED
        BY <3>1, <3>2, <4>1, EntryIs
    <3>4. /\ CallFails /\ inode' = [inode EXCEPT ![i].nlink = @ + 1] /\ Lost /\ inode[i].kind # "dir"
          /\ UNCHANGED <<held, agVars, dirs, new_chunks>>
      BY <2>2, <3>1, <3>2, <3>3 DEF LinkFails
    <3>5. IInv' /\ Counts /\ Touches(i)
      BY <1>3, <3>3, <3>4, MarkStep
    <3> QED
      BY <1>3, <3>1, <3>2, <3>5, CallSeen DEF Entry
  <2> QED
    BY <1>3, <2>1, <2>2
<1>4. ASSUME MayCall, NEW p \in Perms, chmod(Root, p)
      PROVE  IInv' /\ (failed' # "yes" => Seen)
  <2>1. NamesKept(inode, Listing)
    BY <1>4, CallReady DEF Sound
  <2>2. Root \in InUse
    BY <2>1 DEF NamesKept, DirsIn, InUse, UsedIn
  <2>3. IInv' /\ Counts /\ Touches(Root)
    BY <1>4, <2>2, MarkStep
  <2> QED
    BY <1>4, <2>3, CallSeen
<1>5. CASE flush
  BY <1>5, FlushStep DEF Seen
<1> QED
  BY <1>1, <1>2, <1>3, <1>4, <1>5 DEF Next

(* The names on a device that the kernel keeps are those of the listing.   *)
LEMMA KernelNames ==
    ASSUME NEW ino, NEW L, DOMAIN L = DirsIn(ino), \A d \in DirsIn(ino) : L[d] = ino[d].body
    PROVE  /\ All(L) = NamesOn(ino) /\ (\A e \in All(L) : Its(L, e) = At(ino, e))
           /\ \A i : To(L, i) = NamesOf(ino, i)
<1>1. All(L) = NamesOn(ino)
  BY DEF All, NamesOn
<1>2. \A e \in All(L) : Its(L, e) = At(ino, e)
  BY AllIs DEF Its, At
<1>3. \A i : To(L, i) = NamesOf(ino, i)
  BY <1>1, <1>2 DEF To, NamesOf
<1> QED
  BY <1>1, <1>2, <1>3

(* A volume that the kernel keeps is a good one to start from.             *)
LEMMA KernelKeepsNames ==
    ASSUME NEW v, KernelKeeps(v), NEW ino, ino = v.inode, NEW L, DOMAIN L = DirsIn(ino),
           \A d \in DirsIn(ino) : L[d] = ino[d].body
    PROVE  /\ NamesKept(ino, L) /\ NamesAll(ino, L)
           /\ \A d \in DirsIn(ino) : ino[d].nlink = 2 + Cardinality(SubDirNames(ino[d].body))
<1>1. /\ All(L) = NamesOn(ino) /\ (\A e \in All(L) : Its(L, e) = At(ino, e))
      /\ \A i : To(L, i) = NamesOf(ino, i)
  BY KernelNames
<1>2. Root \in DirsIn(ino)
  BY DEF KernelKeeps
<1>3. ASSUME NEW e \in NamesOn(ino)
      PROVE  /\ At(ino, e).ino \in UsedIn(ino) \ {Root} /\ ino[At(ino, e).ino].kind = At(ino, e).kind
             /\ At(ino, e).kind = "dir" => ino[At(ino, e).ino].body.parent = e[1]
  BY DEF KernelKeeps
<1>4. \A i \in UsedIn(ino) : ino[i].nlink = LinksOf(ino, i)
  BY DEF KernelKeeps
<1>5. \A i \in UsedIn(ino) \ {Root} : NamesOf(ino, i) # {}
  BY DEF KernelKeeps
<1>6. \A i \in DirsIn(ino) : Cardinality(NamesOf(ino, i)) <= 1
  BY DEF KernelKeeps
<1>7. \A S \in SUBSET (DirsIn(ino) \ {Root}) : S # {} => \E d \in S : ino[d].body.parent \notin S
  BY DEF KernelKeeps
<1>8. ASSUME NEW e \in All(L)
      PROVE  NameOK(ino, L, e)
  <2>1. PICK y : y = Its(L, e) /\ y = At(ino, e)
    BY <1>1
  <2>2. /\ y.ino \in UsedIn(ino) \ {Root} /\ ino[y.ino].kind = y.kind
        /\ y.kind = "dir" => ino[y.ino].body.parent = e[1]
    BY <1>1, <1>3, <2>1
  <2>3. y.kind = "dir" => y.ino \in DirsIn(ino)
    BY <2>2 DEF DirsIn, UsedIn
  <2> QED
    BY <2>1, <2>2, <2>3 DEF NameOK
<1>9. ASSUME NEW i \in UsedIn(ino)
      PROVE  /\ Cardinality(To(L, i)) <= Most(ino, i)
             /\ ino[i].kind # "dir" => Cardinality(To(L, i)) = ino[i].nlink
  <2>1. CASE ino[i].kind = "dir"
    <3>1. i \in DirsIn(ino)
      BY <2>1 DEF DirsIn, UsedIn
    <3> QED
      BY <1>1, <1>6, <2>1, <3>1 DEF Most
  <2>2. CASE ino[i].kind # "dir"
    <3>1. Cardinality(To(L, i)) = ino[i].nlink
      BY <1>1, <1>4, <2>2 DEF LinksOf
    <3>2. ino[i].nlink \in Nat
      BY DEF KernelKeeps, InodeOK, UsedIn
    <3> QED
      BY <2>2, <3>1, <3>2 DEF Most
  <2> QED
    BY <2>1, <2>2
<1>10. NamesKept(ino, L)
  BY <1>2, <1>8, <1>9 DEF NamesKept
<1>11. Rooted(L)
  BY <1>7 DEF Rooted
<1>12. NamesAll(ino, L)
  BY <1>1, <1>5, <1>9, <1>11 DEF NamesAll
<1>13. \A d \in DirsIn(ino) : ino[d].nlink = 2 + Cardinality(SubDirNames(ino[d].body))
  BY <1>4 DEF LinksOf, DirsIn, UsedIn
<1> QED
  BY <1>10, <1>12, <1>13

(* A session starts in the invariant.                                      *)
LEMMA InitStep == Init => IInv
<1> SUFFICES ASSUME Init
             PROVE  IInv
  OBVIOUS
<1>1. PICK v \in Volumes :
          /\ inode = v.inode /\ held = v.held /\ free = v.free /\ chunks = v.chunks
          /\ ifree = {i \in DOMAIN v.inode : v.inode[i].kind = "free"}
          /\ icount = Cardinality(DOMAIN v.inode)
  BY DEF Init
<1>2. KernelKeeps(v)
  BY VolumesAssumption
<1>3. /\ dirty = {} /\ DOMAIN dirs = {} /\ new_chunks = 0 /\ hdr = [a \in Ags |-> Snapshot(a)] /\ dag = hdr
      /\ fl = IdleFlush /\ calls = 0 /\ faults = 0 /\ last = "none" /\ failed = "no"
  BY DEF Init
<1>4. fl.pc = "idle" /\ DOMAIN fl.todo = {} /\ fl.ags = {} /\ fl.pending = {}
  BY <1>3 DEF IdleFlush
<1>5. Fit
  <2>1. /\ free \subseteq Blocks /\ chunks \subseteq Blocks /\ DOMAIN held = Blocks
        /\ DOMAIN inode = UNION {InodesOf(b) : b \in chunks}
    BY <1>1, <1>2 DEF KernelKeeps
  <2>2. InodesOK
    BY <1>1, <1>2 DEF KernelKeeps, InodesOK
  <2>3. ifree \subseteq DOMAIN inode
    BY <1>1
  <2> QED
    BY <1>3, <2>1, <2>2, <2>3 DEF Fit, GroupsOK
<1>6. Listed /\ Lined
  BY <1>3, <1>4 DEF Listed, Lined
<1>7. FlShape
  BY <1>3, <1>4 DEF FlShape, IdleFlush
<1>8. Images
  <2>1. \A a \in Ags : AgImageOK(Snapshot(a))
    BY <1>5 DEF AgImageOK, Snapshot, Fit, GroupsOK
  <2> QED
    BY <1>3, <2>1 DEF Images
<1>9. Counters
  <2>1. icount \in Nat
    <3>1. chunks \subseteq Blocks /\ DOMAIN inode = UNION {InodesOf(b) : b \in chunks}
      BY <1>5 DEF Fit, GroupsOK
    <3>2. IsFiniteSet(DOMAIN inode)
      BY <3>1, InodesCount
    <3> QED
      BY <1>1, <3>2, FS_CardinalityType
  <2>2. 0 \in 0 .. MaxCalls /\ 0 \in 0 .. MaxFaults
    BY WriterAssumption
  <2> QED
    BY <1>3, <2>1, <2>2 DEF Counters
<1>10. TypeOK
  BY <1>5, <1>6, <1>7, <1>8, <1>9, TypedIs
<1>11. FlushPart
  BY <1>3, <1>4 DEF FlushPart
<1>12. ifree = DOMAIN inode \ InUse
  <2>1. \A i \in DOMAIN inode : inode[i].kind # "garbage"
    BY <1>1, <1>2 DEF KernelKeeps
  <2> QED
    BY <1>1, <2>1 DEF InUse, UsedIn
<1>13. /\ OneOwner(inode, chunks, free) /\ free \cup chunks \cup AllForks = Blocks
       /\ Stored
  BY <1>1, <1>2 DEF KernelKeeps, Stored, AllForks, InUse
<1>14. DOMAIN Listing = DirsIn(inode) /\ \A d \in DirsIn(inode) : Listing[d] = inode[d].body
  BY <1>3, <1>4 DEF Listing, DirOf
<1>15. /\ NamesKept(inode, Listing) /\ NamesAll(inode, Listing)
       /\ \A d \in DirsIn(inode) : inode[d].nlink = 2 + Cardinality(SubDirNames(inode[d].body))
  <2>1. PICK ino, L : ino = inode /\ L = Listing
    OBVIOUS
  <2> QED
    BY <1>1, <1>2, <1>14, <2>1, KernelKeepsNames
<1>16. ListsKept
  BY <1>3, <1>4, <1>15 DEF ListsKept
<1>17. GroupsKept
  BY <1>3, <1>4 DEF GroupsKept
<1>18. Sound
  BY <1>12, <1>13, <1>15, <1>16, <1>17 DEF Sound
<1>19. Whole
  BY <1>12, <1>13, <1>15 DEF Whole
<1> QED
  BY <1>3, <1>10, <1>11, <1>18, <1>19 DEF IInv

(* The inductive invariant of a volume that is written to: the shape of    *)
(* the state, what a flush has in hand, and how blocks, inodes, lists and  *)
(* groups' images hang together, as far as errors have left them.          *)
THEOREM Invariant == Spec => []IInv
<1>1. IInv /\ [Next]_vars => IInv'
  BY NextStep, StutterStep
<1> QED
  BY InitStep, <1>1, PTL DEF Spec

-----------------------------------------------------------------------------
(* What follows.                                                           *)

(* The shape of the state holds in every state of every session.           *)
THEOREM TypeCorrect == Spec => []TypeOK
<1>1. IInv => TypeOK
  BY DEF IInv
<1> QED
  BY Invariant, <1>1, PTL

(* Every block has one owner after every call, and while no error has lost *)
(* space every block has an owner, whatever runs out of room half way.     *)
THEOREM BlocksAreOwned == Spec => []BlocksOwned
<1>1. IInv => BlocksOwned
  BY DEF IInv, Sound, Whole, BlocksOwned
<1> QED
  BY Invariant, <1>1, PTL

(* What an inode in use says is stored in its blocks is there: no call     *)
(* writes over the contents of another file or directory.                  *)
THEOREM DataStaysIntact == Spec => []DataIntact
<1>1. IInv => DataIntact
  BY DEF IInv, Sound, Stored, DataIntact
<1> QED
  BY Invariant, <1>1, PTL

(* Every directory can be reached from the root while no error has cost    *)
(* anything.                                                               *)
LEMMA AllLive ==
    ASSUME NamesKept(inode, Listing), NamesAll(inode, Listing)
    PROVE  LiveDirs = DirsIn(inode) /\ Entries = All(Listing)
<1>1. LiveDirs \subseteq DirsIn(inode) /\ DOMAIN Listing = DirsIn(inode) /\ \A d \in DirsIn(inode) : Listing[d] = DirOf(d)
  BY DEF LiveDirs, Listing
<1>2. Root \in LiveDirs
  BY <1>1 DEF LiveDirs, NamesKept
<1>3. ASSUME NEW d \in DirsIn(inode), NEW p \in LiveDirs, d \in SubDirs(p)
      PROVE  d \in LiveDirs
  BY <1>3 DEF LiveDirs
<1>4. ASSUME NEW S, S = DirsIn(inode) \ LiveDirs, S # {}
      PROVE  FALSE
  <2>1. S \subseteq DOMAIN Listing \ {Root}
    BY <1>1, <1>2, <1>4
  <2>2. PICK d \in S : Listing[d].parent \notin S
    BY <1>4, <2>1 DEF NamesAll, Rooted
  <2>3. d \in DirsIn(inode) /\ d # Root /\ inode[d].kind = "dir" /\ d \in UsedIn(inode)
    BY <1>1, <2>1, <2>2 DEF DirsIn, UsedIn
  <2>4. PICK e \in To(Listing, d) : TRUE
    BY <2>3 DEF NamesAll
  <2>5. e \in All(Listing) /\ Its(Listing, e).ino = d
    BY <2>4 DEF To
  <2>6. e[1] \in DOMAIN Listing /\ e[2] \in DOMAIN Listing[e[1]].names
    BY <2>5, AllIs
  <2>7. Its(Listing, e).kind = "dir" /\ Listing[d].parent = e[1]
    BY <2>3, <2>5 DEF NamesKept, NameOK
  <2>8. e[1] \in LiveDirs
    BY <1>1, <1>4, <2>2, <2>6, <2>7
  <2>9. PICK V : V = View(e[1])
    OBVIOUS
  <2>10. V = Listing[e[1]].names /\ e[2] \in DOMAIN V /\ V[e[2]].ino = d /\ V[e[2]].kind = "dir"
    BY <1>1, <2>5, <2>6, <2>7, <2>9 DEF View, Its
  <2>11. d \in SubDirs(e[1])
    BY <2>3, <2>9, <2>10 DEF SubDirs
  <2> QED
    BY <1>3, <1>4, <2>2, <2>3, <2>8, <2>11
<1>5. LiveDirs = DirsIn(inode)
  BY <1>1, <1>4
<1>6. Entries = All(Listing)
  BY <1>1, <1>5 DEF Entries, All, View
<1> QED
  BY <1>5, <1>6

(* The names that readers see and the inodes agree.                        *)
LEMMA NamesAgree ==
    ASSUME IInv
    PROVE  NamesRight
<1>1. Fit /\ Listed /\ Lined
  BY Typed DEF IInv
<1>2. (\A i : IsFiniteSet(To(Listing, i))) /\ Numbers(inode)
  BY <1>1, ListingOK
<1>3. \A e \in Entries : e \in All(Listing) /\ Its(Listing, e) = Entry(e)
  BY LiveIs DEF Entry
<1>4. \A i : NamesIn(Entries, i) \subseteq To(Listing, i)
  BY <1>3 DEF NamesIn, To
<1> DEFINE most == [i \in InUse |-> IF inode[i].kind = "dir" THEN 1 ELSE inode[i].nlink]
<1>5. \A i \in InUse : most[i] = Most(inode, i)
  BY DEF Most
<1>6. ASSUME failed # "yes"
      PROVE  /\ ifree \cap InUse = {}
             /\ \A e \in Entries : inode[Entry(e).ino].kind = Entry(e).kind
             /\ \A i \in InUse \ {Root} : Cardinality(NamesIn(Entries, i)) <= most[i]
             /\ \A e \in Entries : Entry(e).kind = "dir" => DirOf(Entry(e).ino).parent = e[1]
  <2>1. NamesKept(inode, Listing) /\ ifree \cap InUse = {}
    BY <1>6 DEF IInv, Sound
  <2>2. ASSUME NEW e \in Entries
        PROVE  /\ inode[Entry(e).ino].kind = Entry(e).kind
               /\ Entry(e).kind = "dir" => DirOf(Entry(e).ino).parent = e[1]
    <3>1. PICK y : y = View(e[1])[e[2]]
      OBVIOUS
    <3> QED
      BY <2>1, <3>1, EntryIs DEF Entry
  <2>3. ASSUME NEW i \in InUse
        PROVE  Cardinality(NamesIn(Entries, i)) <= most[i]
    <3>1. Cardinality(To(Listing, i)) <= Most(inode, i) /\ Most(inode, i) \in Nat
      BY <1>2, <2>1 DEF NamesKept, Most, Numbers, InUse
    <3>2. PICK S, T : S = NamesIn(Entries, i) /\ T = To(Listing, i)
      OBVIOUS
    <3>3. IsFiniteSet(T) /\ S \subseteq T
      BY <1>2, <1>4, <3>2
    <3>4. Cardinality(S) <= Cardinality(T) /\ Cardinality(S) \in Nat /\ Cardinality(T) \in Nat
      BY <3>3, FS_Subset, FS_CardinalityType
    <3> QED
      BY <1>5, <3>1, <3>2, <3>4
  <2> HIDE DEF most
  <2> QED
    BY <2>1, <2>2, <2>3
<1>7. ASSUME failed = "no"
      PROVE  /\ ifree = DOMAIN inode \ InUse
             /\ \A i \in InUse \ {Root} : Cardinality(NamesIn(Entries, i)) = most[i]
             /\ (DOMAIN dirs \cup DOMAIN fl.todo) \ {Root} \subseteq {Entry(e).ino : e \in Entries}
  <2>1. /\ NamesKept(inode, Listing) /\ NamesAll(inode, Listing) /\ ifree = DOMAIN inode \ InUse
        /\ DOMAIN dirs \cup DOMAIN fl.todo \subseteq DirsIn(inode)
    BY <1>7 DEF IInv, Sound, Whole, ListsKept
  <2>2. Entries = All(Listing)
    BY <2>1, AllLive
  <2>3. \A i : NamesIn(Entries, i) = To(Listing, i)
    BY <1>3, <2>2 DEF NamesIn, To
  <2>4. ASSUME NEW i \in InUse \ {Root}
        PROVE  Cardinality(To(Listing, i)) = Most(inode, i)
    <3>1. /\ To(Listing, i) # {} /\ Cardinality(To(Listing, i)) <= Most(inode, i)
          /\ inode[i].kind # "dir" => Cardinality(To(Listing, i)) = inode[i].nlink
      BY <2>1 DEF NamesKept, NamesAll, InUse
    <3>2. PICK T : T = To(Listing, i)
      OBVIOUS
    <3>3. IsFiniteSet(T)
      BY <1>2, <3>2
    <3>4. Cardinality(T) \in Nat /\ (Cardinality(T) = 0 <=> T = {})
      BY <3>3, FS_CardinalityType, FS_EmptySet
    <3> QED
      BY <3>1, <3>2, <3>4 DEF Most
  <2>5. \A i \in DirsIn(inode) \ {Root} : \E e \in Entries : Entry(e).ino = i
    <3>1. \A i \in UsedIn(inode) \ {Root} : To(Listing, i) # {}
      BY <2>1 DEF NamesAll
    <3>2. DirsIn(inode) \subseteq UsedIn(inode)
      BY DEF DirsIn, UsedIn
    <3> QED
      BY <2>3, <3>1, <3>2 DEF NamesIn
  <2> HIDE DEF most
  <2> QED
    BY <1>5, <2>1, <2>3, <2>4, <2>5
<1> QED
  BY <1>6, <1>7 DEF NamesRight

(* The names a reader sees and the inodes agree, after every call and in   *)
(* every flush, also when an inode's number is used again.                 *)
THEOREM NamesStayRight == Spec => []NamesRight
<1>1. IInv => NamesRight
  BY NamesAgree
<1> QED
  BY Invariant, <1>1, PTL

(* What a flush that succeeds leaves on the device.                        *)
LEMMA FlushLeaves ==
    ASSUME IInv, last = "ok", failed # "yes"
    PROVE  FlushedIsConsistent
<1>1. Fit /\ Listed /\ Lined
  BY Typed DEF IInv
<1>2. Flushed /\ Sound
  BY DEF IInv
<1>3. fl.pending = {} /\ DOMAIN fl.todo = {} /\ dirty = {} /\ DOMAIN dirs = {}
  BY <1>2 DEF IInv, FlushPart, Flushed, IdleFlush
<1>4. \A a \in Ags : hdr[a] = Snapshot(a) /\ dag[a] = Snapshot(a)
  BY <1>2, <1>3 DEF Sound, GroupsKept
<1>5. PICK df, di : df = UNION {dag[a].free : a \in Ags} /\ di = UNION {dag[a].ifree : a \in Ags}
  OBVIOUS
<1>6. df = free /\ di = ifree /\ UNION {dag[a].chunks : a \in Ags} = chunks
  BY <1>1, <1>4, <1>5, GroupsHold DEF Fit
<1>7. sbc = [free |-> Cardinality(df), icount |-> Cardinality(DOMAIN inode), ifree |-> Cardinality(di)]
  <2>1. /\ SumOver([a \in Ags |-> hdr[a].free]) = Cardinality(free)
        /\ SumOver([a \in Ags |-> hdr[a].ifree]) = Cardinality(ifree)
        /\ SumOver([a \in Ags |-> hdr[a].chunks]) * ChunkInodes = Cardinality(DOMAIN inode)
    BY <1>1, <1>4, GroupsHold DEF Fit
  <2> QED
    BY <1>2, <1>6, <2>1 DEF Flushed
<1>8. DOMAIN Listing = DirsIn(inode) /\ \A d \in DirsIn(inode) : Listing[d] = inode[d].body
  BY <1>3 DEF Listing, DirOf
<1>9. /\ All(Listing) = NamesOn(inode) /\ (\A e \in All(Listing) : Its(Listing, e) = At(inode, e))
      /\ \A i : To(Listing, i) = NamesOf(inode, i)
  <2>1. PICK ino, L : ino = inode /\ L = Listing
    OBVIOUS
  <2>2. DOMAIN L = DirsIn(ino) /\ \A d \in DirsIn(ino) : L[d] = ino[d].body
    BY <1>8, <2>1
  <2> QED
    BY <2>1, <2>2, KernelNames
<1>10. \A e \in NamesOn(inode) : inode[At(inode, e).ino].kind = At(inode, e).kind
  BY <1>2, <1>9 DEF Sound, NamesKept, NameOK
<1>11. \A d \in DirsIn(inode) : inode[d].nlink = LinksOf(inode, d)
  BY <1>2, <1>3 DEF Sound, ListsKept, LinksOf, DirsIn
<1>12. Numbers(inode)
  BY <1>1, ListingOK
<1>13. ASSUME NEW i \in InUse
       PROVE  inode[i].nlink >= LinksOf(inode, i)
  <2>1. inode[i].nlink \in Nat
    BY <1>12 DEF Numbers, InUse
  <2>2. CASE inode[i].kind = "dir"
    <3>1. i \in DirsIn(inode)
      BY <2>2 DEF InUse, UsedIn, DirsIn
    <3> QED
      BY <1>11, <2>1, <3>1
  <2>3. CASE inode[i].kind # "dir"
    <3>1. Cardinality(To(Listing, i)) <= inode[i].nlink
      BY <1>2, <2>3 DEF Sound, NamesKept, Most, InUse
    <3>2. LinksOf(inode, i) = Cardinality(To(Listing, i))
      BY <1>9, <2>3 DEF LinksOf
    <3>3. Cardinality(To(Listing, i)) \in Nat
      BY <1>1, ListingOK, FS_CardinalityType
    <3> QED
      BY <2>1, <3>1, <3>2, <3>3
  <2> QED
    BY <2>2, <2>3
<1>14. ASSUME failed = "no"
       PROVE  /\ df \cup chunks \cup AllForks = Blocks /\ di = DOMAIN inode \ InUse
              /\ \A i \in InUse : inode[i].nlink = LinksOf(inode, i)
              /\ \A i \in InUse \ {Root} : NamesOf(inode, i) # {}
  <2>1. Whole
    BY <1>14 DEF IInv
  <2>2. /\ df \cup chunks \cup AllForks = Blocks /\ di = DOMAIN inode \ InUse
    BY <1>6, <2>1 DEF Whole
  <2>3. \A i \in InUse \ {Root} : NamesOf(inode, i) # {}
    BY <1>9, <2>1 DEF Whole, NamesAll, InUse
  <2>4. ASSUME NEW i \in InUse
        PROVE  inode[i].nlink = LinksOf(inode, i)
    <3>1. CASE inode[i].kind = "dir"
      BY <1>11, <3>1 DEF InUse, UsedIn, DirsIn
    <3>2. CASE inode[i].kind # "dir"
      <4>1. i # Root
        BY <1>2, <3>2 DEF Sound, NamesKept, DirsIn
      <4>2. Cardinality(To(Listing, i)) = inode[i].nlink
        BY <2>1, <3>2, <4>1 DEF Whole, NamesAll, InUse
      <4> QED
        BY <1>9, <3>2, <4>2 DEF LinksOf
    <3> QED
      BY <3>1, <3>2
  <2> QED
    BY <2>2, <2>3, <2>4
<1>15. OneOwner(inode, chunks, df) /\ di \cap InUse = {}
  BY <1>2, <1>6 DEF Sound
<1> QED
  BY <1>5, <1>6, <1>7, <1>10, <1>13, <1>14, <1>15 DEF FlushedIsConsistent

(* After a flush that succeeds the device holds a consistent filesystem,   *)
(* but for what an earlier error has lost.                                 *)
THEOREM FlushLeavesConsistent == Spec => []FlushedIsConsistent
<1>1. IInv => FlushedIsConsistent
  <2>1. ~ (last = "ok" /\ failed # "yes") => FlushedIsConsistent
    BY DEF FlushedIsConsistent
  <2> QED
    BY <2>1, FlushLeaves
<1> QED
  BY Invariant, <1>1, PTL

-----------------------------------------------------------------------------
(* What readers see: the directories that names lead to from the root, and *)
(* the names in them.                                                      *)

Closed(L, S) ==
    /\ S \subseteq DOMAIN L /\ Root \in S
    /\ \A e \in All(L) : e[1] \in S /\ Its(L, e).kind = "dir" => Its(L, e).ino \in S
Reached(L) == {d \in DOMAIN L : \A S : Closed(L, S) => d \in S}
Shown(L) == {e \in All(L) : e[1] \in Reached(L)}

(* Names of directories are of directories.                                *)
Leads(L) == Root \in DOMAIN L /\ \A e \in All(L) : Its(L, e).kind = "dir" => Its(L, e).ino \in DOMAIN L

(* They are the least of the sets that no name leads out of.               *)
LEMMA ReachedIs ==
    ASSUME NEW L, Leads(L)
    PROVE  Closed(L, Reached(L)) /\ \A S : Closed(L, S) => Reached(L) \subseteq S
<1>1. \A S : Closed(L, S) => Reached(L) \subseteq S
  BY DEF Reached
<1>2. Reached(L) \subseteq DOMAIN L /\ Root \in Reached(L)
  BY DEF Reached, Leads, Closed
<1>3. ASSUME NEW e \in All(L), e[1] \in Reached(L), Its(L, e).kind = "dir"
      PROVE  Its(L, e).ino \in Reached(L)
  <2>1. Its(L, e).ino \in DOMAIN L
    BY <1>3 DEF Leads
  <2>2. ASSUME NEW S, Closed(L, S)
        PROVE  Its(L, e).ino \in S
    <3>1. e[1] \in S
      BY <1>1, <1>3, <2>2
    <3> QED
      BY <1>3, <2>2, <3>1 DEF Closed
  <2> QED
    BY <2>1, <2>2 DEF Reached
<1>4. Closed(L, Reached(L))
  BY <1>2, <1>3 DEF Closed
<1> QED
  BY <1>1, <1>4

(* Directories that no name leads to are not seen.                         *)
LEMMA ReachedSame ==
    ASSUME NEW L, NEW L2, Leads(L), Leads(L2), \A d \in DOMAIN L : d \in DOMAIN L2 /\ L2[d] = L[d]
    PROVE  Reached(L2) = Reached(L) /\ Shown(L2) = Shown(L) /\ \A e \in Shown(L) : Its(L2, e) = Its(L, e)
<1>1. Closed(L, Reached(L)) /\ (\A S : Closed(L, S) => Reached(L) \subseteq S)
  BY ReachedIs
<1>2. Closed(L2, Reached(L2)) /\ (\A S : Closed(L2, S) => Reached(L2) \subseteq S)
  BY ReachedIs
<1>3. \A e \in All(L) : e \in All(L2) /\ e[1] \in DOMAIN L /\ Its(L2, e) = Its(L, e)
  <2>1. SUFFICES ASSUME NEW e \in All(L)
                 PROVE  e \in All(L2) /\ e[1] \in DOMAIN L /\ Its(L2, e) = Its(L, e)
    OBVIOUS
  <2>2. e = <<e[1], e[2]>> /\ e[1] \in DOMAIN L /\ e[2] \in DOMAIN L[e[1]].names
    BY AllIs
  <2>3. e[1] \in DOMAIN L2 /\ L2[e[1]] = L[e[1]]
    BY <2>2
  <2> QED
    BY <2>2, <2>3, AllIs DEF Its
<1>4. \A e \in All(L2) : e[1] \in DOMAIN L => e \in All(L)
  <2>1. SUFFICES ASSUME NEW e \in All(L2), e[1] \in DOMAIN L
                 PROVE  e \in All(L)
    OBVIOUS
  <2>2. e = <<e[1], e[2]>> /\ e[2] \in DOMAIN L2[e[1]].names
    BY AllIs
  <2>3. L2[e[1]] = L[e[1]]
    BY <2>1
  <2> QED
    BY <2>1, <2>2, <2>3, AllIs
<1>5. Reached(L) \subseteq DOMAIN L /\ DOMAIN L \subseteq DOMAIN L2
  BY DEF Reached
<1>6. Closed(L2, Reached(L))
  BY <1>1, <1>3, <1>4, <1>5 DEF Closed
<1>7. Reached(L2) \subseteq Reached(L)
  BY <1>2, <1>6
<1>8. Closed(L, Reached(L2))
  BY <1>2, <1>3, <1>5, <1>7 DEF Closed
<1>9. Reached(L2) = Reached(L)
  BY <1>1, <1>7, <1>8
<1>10. Shown(L2) = Shown(L)
  BY <1>3, <1>4, <1>5, <1>9 DEF Shown
<1> QED
  BY <1>3, <1>9, <1>10 DEF Shown

(* A name more, in a directory that is seen, is seen.                      *)
LEMMA ReachedMore ==
    ASSUME NEW L, NEW L2, Leads(L), Leads(L2), NEW d \in Reached(L), NEW n, NEW t, NEW k, Added(L, L2, d, n, t, k)
    PROVE  Shown(L2) = Shown(L) \cup {<<d, n>>}
<1>1. Closed(L, Reached(L)) /\ (\A S : Closed(L, S) => Reached(L) \subseteq S)
  BY ReachedIs
<1>2. Closed(L2, Reached(L2)) /\ (\A S : Closed(L2, S) => Reached(L2) \subseteq S)
  BY ReachedIs
<1>3. PICK e0 : e0 = <<d, n>>
  OBVIOUS
<1>4. e0[1] = d
  BY <1>3
<1>5. /\ All(L2) = All(L) \cup {e0} /\ e0 \notin All(L) /\ Its(L2, e0).ino = t /\ Its(L2, e0).kind = k
      /\ \A e \in All(L) : Its(L2, e) = Its(L, e)
  <2>1. OneMore(L, L2, <<d, n>>, t, k)
    BY AddedIs
  <2>2. OneMore(L, L2, e0, t, k)
    BY <1>3, <2>1
  <2> QED
    BY <2>2 DEF OneMore
<1>6. PICK G : G = IF k = "dir" THEN {t} ELSE {}
  OBVIOUS
<1>7. DOMAIN L2 = DOMAIN L \cup G /\ G \cap DOMAIN L = {}
  BY <1>6 DEF Added
<1>8. \A e \in All(L) : e[1] \in DOMAIN L
  BY AllIs
<1>9. Closed(L2, Reached(L) \cup G)
  <2>1. Reached(L) \cup G \subseteq DOMAIN L2 /\ Root \in Reached(L) \cup G
    BY <1>1, <1>7 DEF Closed
  <2>2. ASSUME NEW e \in All(L2), e[1] \in Reached(L) \cup G, Its(L2, e).kind = "dir"
        PROVE  Its(L2, e).ino \in Reached(L) \cup G
    <3>1. CASE e = e0
      BY <1>5, <1>6, <2>2, <3>1
    <3>2. CASE e # e0
      <4>1. e \in All(L) /\ Its(L2, e) = Its(L, e) /\ e[1] \in Reached(L)
        BY <1>5, <1>7, <1>8, <2>2, <3>2
      <4> QED
        BY <1>1, <2>2, <4>1 DEF Closed
    <3> QED
      BY <3>1, <3>2
  <2> QED
    BY <2>1, <2>2 DEF Closed
<1>10. Closed(L, Reached(L2) \cap DOMAIN L)
  <2>1. \A e \in All(L) : Its(L, e).kind = "dir" => Its(L, e).ino \in DOMAIN L
    BY DEF Leads
  <2>2. Root \in Reached(L2) \cap DOMAIN L
    BY <1>2 DEF Closed, Leads
  <2>3. \A e \in All(L) : e[1] \in Reached(L2) /\ Its(L, e).kind = "dir" => Its(L, e).ino \in Reached(L2)
    BY <1>2, <1>5 DEF Closed
  <2> QED
    BY <2>1, <2>2, <2>3 DEF Closed
<1>11. Reached(L2) \subseteq Reached(L) \cup G /\ Reached(L) \subseteq Reached(L2)
  BY <1>1, <1>2, <1>9, <1>10
<1>12. \A e \in All(L2) : e[1] \in Reached(L2) <=> e = e0 \/ e[1] \in Reached(L)
  BY <1>4, <1>5, <1>7, <1>8, <1>11
<1> QED
  BY <1>3, <1>4, <1>5, <1>12 DEF Shown

(* A name less, of something that has no name but this if it is a          *)
(* directory, and what else is seen stays.                                 *)
LEMMA ReachedLess ==
    ASSUME NEW L, NEW L2, Leads(L), Leads(L2), NEW d \in Reached(L), NEW n, NEW t, NEW G, Dropped(L, L2, d, n, G, t),
           NEW k, k = L[d].names[n].kind, G = IF k = "dir" THEN {t} ELSE {}, t # Root,
           k = "dir" => To(L, t) = {<<d, n>>}
    PROVE  Shown(L2) = Shown(L) \ {<<d, n>>}
<1>1. Closed(L, Reached(L)) /\ (\A S : Closed(L, S) => Reached(L) \subseteq S)
  BY ReachedIs
<1>2. Closed(L2, Reached(L2)) /\ (\A S : Closed(L2, S) => Reached(L2) \subseteq S)
  BY ReachedIs
<1>3. PICK e0 : e0 = <<d, n>>
  OBVIOUS
<1>4. e0[1] = d /\ e0[2] = n
  BY <1>3
<1>5. All(L2) = All(L) \ {e0} /\ e0 \in All(L) /\ \A e \in All(L2) : Its(L2, e) = Its(L, e)
  BY <1>3, DroppedIs DEF OneLess
<1>6. Its(L, e0).kind = k /\ Its(L, e0).ino = t
  BY <1>4 DEF Its, Dropped
<1>7. DOMAIN L2 = DOMAIN L \ G /\ (\A x \in G : DOMAIN L[x].names = {}) /\ d \notin G
  BY DEF Dropped
<1>8. \A e \in All(L) : e[1] \notin G
  BY <1>7, AllIs
<1>9. \A e \in All(L2) : Its(L, e).ino \notin G
  <2>1. SUFFICES ASSUME NEW e \in All(L2), Its(L, e).ino \in G
                 PROVE  FALSE
    OBVIOUS
  <2>2. k = "dir" /\ Its(L, e).ino = t /\ To(L, t) = {e0}
    BY <1>3, <2>1
  <2>3. e \in To(L, t)
    BY <1>5, <2>1, <2>2 DEF To
  <2> QED
    BY <1>5, <2>1, <2>2, <2>3
<1>10. Closed(L2, Reached(L) \ G)
  <2>1. Reached(L) \ G \subseteq DOMAIN L2 /\ Root \in Reached(L) \ G
    BY <1>1, <1>7 DEF Closed
  <2>2. \A e \in All(L2) : e[1] \in Reached(L) /\ Its(L2, e).kind = "dir" => Its(L2, e).ino \in Reached(L)
    BY <1>1, <1>5 DEF Closed
  <2> QED
    BY <1>5, <1>9, <2>1, <2>2 DEF Closed
<1>11. Closed(L, Reached(L2) \cup G)
  <2>1. G \subseteq DOMAIN L
    <3>1. k = "dir" => t \in DOMAIN L
      BY <1>5, <1>6 DEF Leads
    <3> QED
      BY <3>1
  <2>2. Reached(L2) \cup G \subseteq DOMAIN L /\ Root \in Reached(L2) \cup G
    BY <1>2, <1>7, <2>1 DEF Closed
  <2>3. ASSUME NEW e \in All(L), e[1] \in Reached(L2) \cup G, Its(L, e).kind = "dir"
        PROVE  Its(L, e).ino \in Reached(L2) \cup G
    <3>1. CASE e = e0
      BY <1>6, <2>3, <3>1
    <3>2. CASE e # e0
      <4>1. e \in All(L2) /\ Its(L2, e) = Its(L, e) /\ e[1] \in Reached(L2)
        BY <1>5, <1>8, <2>3, <3>2
      <4> QED
        BY <1>2, <2>3, <4>1 DEF Closed
    <3> QED
      BY <3>1, <3>2
  <2> QED
    BY <2>2, <2>3 DEF Closed
<1>12. Reached(L2) \subseteq Reached(L) \ G /\ Reached(L) \subseteq Reached(L2) \cup G
  BY <1>1, <1>2, <1>10, <1>11
<1>13. \A e \in All(L2) : e[1] \in Reached(L2) <=> e[1] \in Reached(L)
  BY <1>5, <1>8, <1>12
<1> QED
  BY <1>3, <1>4, <1>5, <1>13 DEF Shown

(* What readers see, in terms of the lists.                                *)
BodyOf(i) == [perms |-> inode[i].perms, body |-> IF inode[i].kind = "dir" THEN "dir" ELSE inode[i].body]
Known(L) == {Root} \cup {Its(L, e).ino : e \in Shown(L)}
TreeIn(L) == [e \in Shown(L) |-> [at |-> Its(L, e).ino, kind |-> Its(L, e).kind]]

SeenRight ==
    /\ Leads(Listing) /\ LiveDirs = Reached(Listing) /\ Entries = Shown(Listing)
    /\ Tree = TreeIn(Listing) /\ Known(Listing) \subseteq InUse /\ Bodies = [i \in Known(Listing) |-> BodyOf(i)]

(* They are so when the names are right.                                   *)
LEMMA SeenIs == NamesKept(inode, Listing) => SeenRight
<1> SUFFICES ASSUME NamesKept(inode, Listing)
             PROVE  SeenRight
  OBVIOUS
<1>1. PICK L : L = Listing
  OBVIOUS
<1>2. /\ DOMAIN L = DirsIn(inode) /\ Root \in DOMAIN L /\ (\A d \in DirsIn(inode) : L[d].names = View(d))
      /\ \A e \in All(L) : NameOK(inode, L, e)
  BY <1>1 DEF NamesKept, Listing, View
<1>3. \A e \in All(L) : /\ Its(L, e).ino \in InUse \ {Root} /\ inode[Its(L, e).ino].kind = Its(L, e).kind
                        /\ Its(L, e).kind = "dir" => Its(L, e).ino \in DOMAIN L
  BY <1>2 DEF NameOK, InUse, UsedIn, DirsIn
<1>4. Leads(L)
  BY <1>2, <1>3 DEF Leads
<1>5. ASSUME NEW S
      PROVE  Closed(L, S) <=> S \in SUBSET DirsIn(inode) /\ Root \in S /\ \A d \in S : SubDirs(d) \subseteq S
  <2>1. ASSUME Closed(L, S), NEW d \in S, NEW i \in SubDirs(d)
        PROVE  i \in S
    <3>1. d \in DirsIn(inode) /\ L[d].names = View(d)
      BY <1>2, <2>1 DEF Closed
    <3>2. PICK n \in DOMAIN View(d) : View(d)[n].kind = "dir" /\ View(d)[n].ino = i
      BY DEF SubDirs
    <3>3. PICK e : e = <<d, n>>
      OBVIOUS
    <3>4. e \in All(L) /\ e[1] = d /\ e[2] = n
      BY <1>2, <3>1, <3>2, <3>3, AllIs
    <3>5. Its(L, e).kind = "dir" /\ Its(L, e).ino = i
      BY <3>1, <3>2, <3>4 DEF Its
    <3> QED
      BY <2>1, <3>4, <3>5 DEF Closed
  <2>2. ASSUME S \subseteq DirsIn(inode), \A d \in S : SubDirs(d) \subseteq S,
               NEW e \in All(L), e[1] \in S, Its(L, e).kind = "dir"
        PROVE  Its(L, e).ino \in S
    <3>1. PICK d, n : d = e[1] /\ n = e[2]
      OBVIOUS
    <3>2. d \in DirsIn(inode) /\ L[d].names = View(d) /\ n \in DOMAIN View(d)
      BY <1>2, <3>1, AllIs
    <3>3. View(d)[n].kind = "dir" /\ View(d)[n].ino = Its(L, e).ino
      BY <2>2, <3>1, <3>2 DEF Its
    <3>4. inode[Its(L, e).ino].kind = "dir"
      BY <1>3, <2>2
    <3>5. Its(L, e).ino \in SubDirs(d)
      BY <3>2, <3>3, <3>4 DEF SubDirs
    <3> QED
      BY <2>2, <3>1, <3>5
  <2> QED
    BY <1>2, <2>1, <2>2 DEF Closed
<1>6. LiveDirs = Reached(L)
  <2>1. \A d : d \in LiveDirs <=>
               /\ d \in DirsIn(inode)
               /\ \A S \in SUBSET DirsIn(inode) : Root \in S /\ (\A x \in S : SubDirs(x) \subseteq S) => d \in S
    BY DEF LiveDirs
  <2>2. \A d : d \in Reached(L) <=> d \in DirsIn(inode) /\ \A S : Closed(L, S) => d \in S
    BY <1>2 DEF Reached
  <2> QED
    BY <1>5, <2>1, <2>2
<1>7. Entries = Shown(L)
  <2>1. \A e \in Entries : e \in All(L) /\ e[1] \in LiveDirs
    <3>1. SUFFICES ASSUME NEW e \in Entries
                   PROVE  e \in All(L) /\ e[1] \in LiveDirs
      OBVIOUS
    <3>2. PICK d \in LiveDirs : \E n \in DOMAIN View(d) : e = <<d, n>>
      BY DEF Entries
    <3>3. e[1] = d
      BY <3>2
    <3> QED
      BY <1>1, <3>3, LiveIs
  <2>2. \A e \in All(L) : e[1] \in LiveDirs => e \in Entries
    <3>1. SUFFICES ASSUME NEW e \in All(L), e[1] \in LiveDirs
                   PROVE  e \in Entries
      OBVIOUS
    <3>2. e = <<e[1], e[2]>> /\ e[1] \in DirsIn(inode) /\ e[2] \in DOMAIN View(e[1])
      BY <1>2, AllIs
    <3> QED
      BY <3>1, <3>2 DEF Entries
  <2> QED
    BY <1>6, <2>1, <2>2 DEF Shown
<1>8. \A e \in Entries : Entry(e) = Its(L, e)
  BY <1>1, LiveIs DEF Entry
<1>9. Tree = TreeIn(L)
  BY <1>7, <1>8 DEF Tree, TreeIn
<1>10. Known(L) \subseteq InUse
  <2>1. Root \in InUse
    BY <1>2 DEF InUse, UsedIn, DirsIn
  <2>2. Shown(L) \subseteq All(L)
    BY DEF Shown
  <2> QED
    BY <1>3, <2>1, <2>2 DEF Known
<1>11. Bodies = [i \in Known(L) |-> BodyOf(i)]
  <2>1. InUse \cap ({Root} \cup {Entry(e).ino : e \in Entries}) = Known(L)
    BY <1>7, <1>8, <1>10 DEF Known
  <2> QED
    BY <2>1 DEF Bodies, BodyOf
<1> QED
  BY <1>1, <1>4, <1>6, <1>7, <1>9, <1>10, <1>11 DEF SeenRight

(* The body of an inode that stays does.                                   *)
LEMMA BodyStays ==
    ASSUME NEW i, Stays(i)
    PROVE  BodyOf(i)' = BodyOf(i)
BY DEF Stays, BodyOf

(* A step that is quiet changes nothing that a reader sees.                *)
LEMMA QuietUnseen ==
    ASSUME NamesKept(inode, Listing), NamesKept(inode, Listing)', Quiet
    PROVE  Tree' = Tree /\ Bodies' = Bodies
<1>1. PICK L : L = Listing
  OBVIOUS
<1>2. PICK L2 : L2 = Listing'
  OBVIOUS
<1>3. /\ Leads(L) /\ Tree = TreeIn(L) /\ Known(L) \subseteq InUse /\ Bodies = [i \in Known(L) |-> BodyOf(i)]
  BY <1>1, SeenIs DEF SeenRight
<1>4. SeenRight'
  BY SeenIs, PTL
<1>5. /\ Leads(L2) /\ Tree' = TreeIn(L2) /\ Bodies' = [i \in Known(L2) |-> BodyOf(i)']
  BY <1>2, <1>4 DEF SeenRight
<1>6. /\ Reached(L2) = Reached(L) /\ Shown(L2) = Shown(L) /\ \A e \in Shown(L) : Its(L2, e) = Its(L, e)
  <2>1. \A d \in DOMAIN L : d \in DOMAIN L2 /\ L2[d] = L[d]
    BY <1>1, <1>2 DEF Quiet
  <2> QED
    BY <1>3, <1>5, <2>1, ReachedSame
<1>7. TreeIn(L2) = TreeIn(L) /\ Known(L2) = Known(L)
  BY <1>6 DEF TreeIn, Known
<1>8. \A i \in Known(L) : BodyOf(i)' = BodyOf(i)
  BY <1>3, BodyStays DEF Quiet
<1> QED
  BY <1>3, <1>5, <1>7, <1>8

(* What an error has cost stays so.                                        *)
LEMMA FailedStays ==
    ASSUME [Next]_vars, failed = "yes"
    PROVE  failed' = "yes"
<1>1. ~ MayCall
  BY DEF MayCall
<1>2. CASE UNCHANGED vars
  BY <1>2 DEF vars
<1>3. CASE flush
  <2>1. FlushStart \/ FlushDirsDone \/ FlushRebuild \/ FlushRebuilt \/ FlushWrite \/ FlushSuper => failed' = failed
    BY DEF FlushStart, FlushDirsDone, FlushRebuild, FlushRebuilt, FlushWrite, FlushSuper
  <2>2. FlushRebuildFails \/ FlushWriteFails => failed' = "yes"
    BY DEF FlushRebuildFails, FlushWriteFails, FlushError
  <2>3. ASSUME NEW nb \in BmbtSizes, write_dir(nb) \/ write_dir_fails(nb)
        PROVE  failed' = "yes" \/ failed' = failed
    <3>1. CASE write_dir_fails(nb)
      BY <3>1 DEF write_dir_fails, FlushError
    <3>2. CASE write_dir(nb)
      BY <3>2 DEF write_dir, FlushError
    <3> QED
      BY <2>3, <3>1, <3>2
  <2> QED
    BY <1>3, <2>1, <2>2, <2>3 DEF flush
<1> QED
  BY <1>1, <1>2, <1>3 DEF Next

(* A flush that does not fail changes nothing that a reader sees, in any   *)
(* of its steps: the lists it has still to write count, and the ones it    *)
(* has written are on the device.                                          *)
THEOREM FlushesAreUnseen == Spec => FlushUnseen
<1>1. ASSUME IInv, IInv', [Next]_vars
      PROVE  [InFlush /\ failed' # "yes" => Tree' = Tree /\ Bodies' = Bodies]_vars
  <2>1. SUFFICES ASSUME InFlush, failed' # "yes"
                 PROVE  Tree' = Tree /\ Bodies' = Bodies
    OBVIOUS
  <2>2. Seen
    BY <1>1, <2>1, NextStep, StutterStep DEF Seen
  <2>3. Quiet
    BY <2>1, <2>2 DEF Seen, InFlush
  <2>4. failed # "yes"
    BY <1>1, <2>1, FailedStays
  <2>5. NamesKept(inode, Listing) /\ NamesKept(inode, Listing)'
    BY <1>1, <2>1, <2>4 DEF IInv, Sound
  <2> QED
    BY <2>3, <2>5, QuietUnseen
<1> QED
  BY Invariant, <1>1, PTL DEF Spec, FlushUnseen

-----------------------------------------------------------------------------
(* The tree that readers see is the abstract one of module FileTree.       *)

(* What is seen, by its parts.                                             *)
Pictures(L, t, b) ==
    /\ DOMAIN t = Shown(L) /\ (\A e \in Shown(L) : t[e].at = Its(L, e).ino /\ t[e].kind = Its(L, e).kind)
    /\ DOMAIN b = Known(L)

(* The tree and the bodies are pictures of the lists.                      *)
LEMMA PictureIs ==
    ASSUME NEW L, NEW t, t = TreeIn(L), NEW b, DOMAIN b = Known(L)
    PROVE  Pictures(L, t, b)
<1>1. ASSUME NEW e \in Shown(L)
      PROVE  t[e].at = Its(L, e).ino /\ t[e].kind = Its(L, e).kind
  <2>1. t[e] = [at |-> Its(L, e).ino, kind |-> Its(L, e).kind]
    BY DEF TreeIn
  <2> QED
    BY <2>1
<1> QED
  BY <1>1 DEF Pictures, TreeIn

(* Before and after a step.                                                *)
LEMMA TwoPictures ==
    ASSUME NamesKept(inode, Listing), NamesKept(inode, Listing)', NEW L, L = Listing, NEW L2, L2 = Listing'
    PROVE  /\ Leads(L) /\ Leads(L2) /\ LiveDirs = Reached(L) /\ Entries = Shown(L)
           /\ Tree = TreeIn(L) /\ Tree' = TreeIn(L2)
           /\ Pictures(L, Tree, Bodies) /\ Pictures(L2, Tree', Bodies') /\ Known(L) \subseteq InUse
           /\ \A i \in Known(L) : Bodies[i] = BodyOf(i)
           /\ \A i \in Known(L2) : Bodies'[i] = BodyOf(i)'
           /\ Bodies = [i \in Known(L) |-> Bodies[i]] /\ Bodies' = [i \in Known(L2) |-> Bodies'[i]]
           /\ Known(L2) \subseteq InUse'
<1>1. /\ Leads(L) /\ LiveDirs = Reached(L) /\ Entries = Shown(L) /\ Tree = TreeIn(L) /\ Known(L) \subseteq InUse
      /\ Bodies = [i \in Known(L) |-> BodyOf(i)]
  BY SeenIs DEF SeenRight
<1>2. SeenRight'
  BY SeenIs, PTL
<1>3. /\ Leads(L2) /\ Tree' = TreeIn(L2) /\ Bodies' = [i \in Known(L2) |-> BodyOf(i)'] /\ Known(L2) \subseteq InUse'
  BY <1>2 DEF SeenRight
<1>4. Pictures(L, Tree, Bodies)
  <2>1. PICK t, b : t = Tree /\ b = Bodies
    OBVIOUS
  <2>2. DOMAIN b = Known(L) /\ t = TreeIn(L)
    BY <1>1, <2>1
  <2> QED
    BY <2>1, <2>2, PictureIs
<1>5. Pictures(L2, Tree', Bodies')
  <2>1. PICK t : t = Tree'
    OBVIOUS
  <2>2. PICK b : b = Bodies'
    OBVIOUS
  <2>3. DOMAIN b = Known(L2) /\ t = TreeIn(L2)
    BY <1>3, <2>1, <2>2
  <2> QED
    BY <2>1, <2>2, <2>3, PictureIs
<1> QED
  BY <1>1, <1>3, <1>4, <1>5

(* An inode is changed.                                                    *)
LEMMA TouchMaps ==
    ASSUME NamesKept(inode, Listing), NamesKept(inode, Listing)',
           NEW i, i = Root \/ \E e \in Entries : i = Entry(e).ino, Touches(i)
    PROVE  Files!Rewrite(Tree, Tree', Bodies, Bodies')
<1>1. PICK L : L = Listing /\ L = Listing'
  BY DEF Touches
<1>2. /\ Entries = Shown(L) /\ Tree = TreeIn(L) /\ Tree' = TreeIn(L) /\ Known(L) \subseteq InUse
      /\ Pictures(L, Tree, Bodies) /\ Pictures(L, Tree', Bodies')
      /\ \A j \in Known(L) : Bodies[j] = BodyOf(j) /\ Bodies'[j] = BodyOf(j)'
  BY <1>1, TwoPictures
<1>3. i \in Known(L)
  <2>1. \A e \in Entries : Entry(e) = Its(L, e)
    BY <1>1, LiveIs DEF Entry
  <2> QED
    BY <1>2, <2>1 DEF Known
<1>4. \A j \in Known(L) \ {i} : Bodies'[j] = Bodies[j]
  BY <1>2, BodyStays DEF Touches
<1> QED
  BY <1>2, <1>3, <1>4 DEF Files!Rewrite, Files!Same, Pictures

(* A name is made.                                                         *)
LEMMA GainMaps ==
    ASSUME NamesKept(inode, Listing), NamesKept(inode, Listing)',
           NEW d \in LiveDirs, NEW n, NEW i, NEW k, Gains(d, n, i, k)
    PROVE  Files!Add(Tree, Tree', Bodies, Bodies')
<1>1. PICK L : L = Listing
  OBVIOUS
<1>2. PICK L2 : L2 = Listing'
  OBVIOUS
<1>3. PICK t, b : t = Tree /\ b = Bodies
  OBVIOUS
<1>4. PICK u : u = Tree'
  OBVIOUS
<1>5. PICK c : c = Bodies'
  OBVIOUS
<1>6. /\ Leads(L) /\ Leads(L2) /\ LiveDirs = Reached(L)
      /\ Pictures(L, t, b) /\ Pictures(L2, u, c) /\ t = TreeIn(L) /\ u = TreeIn(L2) /\ Known(L) \subseteq InUse
      /\ \A j \in Known(L) : b[j] = BodyOf(j)
      /\ \A j \in Known(L2) : c[j] = BodyOf(j)'
      /\ b = [j \in Known(L) |-> b[j]] /\ c = [j \in Known(L2) |-> c[j]]
  BY <1>1, <1>2, <1>3, <1>4, <1>5, TwoPictures
<1>7. Added(L, L2, d, n, i, k) /\ (\A j \in InUse : Stays(j)) /\ (i \in InUse => k # "dir")
  BY <1>1, <1>2 DEF Gains
<1>8. PICK e0 : e0 = <<d, n>>
  OBVIOUS
<1>9. Shown(L2) = Shown(L) \cup {e0}
  BY <1>6, <1>7, <1>8, ReachedMore
<1>10. e0 \notin All(L) /\ Its(L2, e0).ino = i /\ Its(L2, e0).kind = k /\ \A e \in All(L) : Its(L2, e) = Its(L, e)
  <2>1. OneMore(L, L2, <<d, n>>, i, k)
    BY <1>7, AddedIs
  <2>2. OneMore(L, L2, e0, i, k)
    BY <1>8, <2>1
  <2> QED
    BY <2>2 DEF OneMore
<1>11. Shown(L) \subseteq All(L)
  BY DEF Shown
<1>12. e0 \in DOMAIN u \ DOMAIN t /\ DOMAIN u = DOMAIN t \cup {e0}
  BY <1>6, <1>9, <1>10, <1>11 DEF Pictures
<1>13. \A e \in DOMAIN t : u[e] = t[e]
  BY <1>6, <1>9, <1>10, <1>11 DEF TreeIn
<1>14. Known(L2) = Known(L) \cup {i}
  <2>1. \A e \in Shown(L) : Its(L2, e) = Its(L, e)
    BY <1>10, <1>11
  <2> QED
    BY <1>9, <1>10, <2>1 DEF Known
<1>15. \A j \in Known(L) : c[j] = b[j]
  BY <1>6, <1>7, <1>14, BodyStays
<1>16. u[e0].at = i /\ u[e0].kind = k
  BY <1>6, <1>9, <1>10 DEF Pictures
<1>17. DOMAIN b = Known(L) /\ DOMAIN c = Known(L2)
  BY <1>6 DEF Pictures
<1>18. i \in Files!Named(t) => k # "dir" /\ c = b
  <2>1. SUFFICES ASSUME i \in Files!Named(t)
                 PROVE  k # "dir" /\ c = b
    OBVIOUS
  <2>2. i \in Known(L)
    BY <1>6, <2>1 DEF Files!Named, Pictures, Known
  <2>3. k # "dir"
    BY <1>6, <1>7, <2>2
  <2>4. Known(L2) = Known(L)
    BY <1>14, <2>2
  <2>5. c = b
    BY <1>6, <1>15, <2>4
  <2> QED
    BY <2>3, <2>5
<1>19. Files!Add(t, u, b, c)
  BY <1>12, <1>13, <1>14, <1>15, <1>16, <1>17, <1>18 DEF Files!Add, Files!Same
<1> QED
  BY <1>3, <1>4, <1>5, <1>19

(* A set of at most one element.                                           *)
LEMMA AtMostOne ==
    ASSUME NEW T, IsFiniteSet(T), Cardinality(T) <= 1, NEW x \in T
    PROVE  T = {x}
<1>1. /\ IsFiniteSet(T \ {x}) /\ Cardinality(T \ {x}) = Cardinality(T) - 1
      /\ Cardinality(T) \in Nat /\ Cardinality(T \ {x}) \in Nat
  BY FS_RemoveElement, FS_CardinalityType
<1>2. Cardinality(T \ {x}) = 0
  BY <1>1
<1>3. T \ {x} = {}
  BY <1>1, <1>2, FS_EmptySet
<1> QED
  BY <1>3

(* A name is taken out.                                                    *)
LEMMA LoseMaps ==
    ASSUME NamesKept(inode, Listing), NamesKept(inode, Listing)', NEW e0 \in Entries, NEW i, Loses(e0, i),
           IsFiniteSet(To(Listing, i))
    PROVE  Files!Remove(Tree, Tree', Bodies, Bodies')
<1>1. PICK L : L = Listing
  OBVIOUS
<1>2. PICK L2 : L2 = Listing'
  OBVIOUS
<1>3. PICK t, b : t = Tree /\ b = Bodies
  OBVIOUS
<1>4. PICK u : u = Tree'
  OBVIOUS
<1>5. PICK c : c = Bodies'
  OBVIOUS
<1>6. /\ Leads(L) /\ Leads(L2) /\ LiveDirs = Reached(L) /\ Entries = Shown(L)
      /\ Pictures(L, t, b) /\ Pictures(L2, u, c) /\ t = TreeIn(L) /\ u = TreeIn(L2) /\ Known(L) \subseteq InUse
      /\ \A j \in Known(L) : b[j] = BodyOf(j)
      /\ \A j \in Known(L2) : c[j] = BodyOf(j)'
      /\ Known(L2) \subseteq InUse'
  BY <1>1, <1>2, <1>3, <1>4, <1>5, TwoPictures
<1>7. PICK G : G = GoneWith(i)
  OBVIOUS
<1>8. PICK d, n : d = e0[1] /\ n = e0[2]
  OBVIOUS
<1>9. /\ Dropped(L, L2, d, n, G, i) /\ (\A j \in InUse \ {i} : Stays(j)) /\ (i \in InUse' => Stays(i))
  BY <1>1, <1>2, <1>7, <1>8 DEF Loses
<1>10. e0 = <<d, n>> /\ e0 \in All(L) /\ d \in Reached(L)
  BY <1>6, <1>8, AllIs DEF Shown
<1>11. Its(L, e0).ino = i /\ Its(L, e0) = L[d].names[n]
  BY <1>8, <1>9 DEF Dropped, Its
<1>12. PICK k : k = L[d].names[n].kind
  OBVIOUS
<1>13. i \in InUse \ {Root} /\ inode[i].kind = k
  BY <1>1, <1>10, <1>11, <1>12 DEF NamesKept, NameOK, InUse
<1>14. G = IF k = "dir" THEN {i} ELSE {}
  BY <1>7, <1>13 DEF GoneWith
<1>15. k = "dir" => To(L, i) = {e0}
  <2>1. SUFFICES ASSUME k = "dir"
                 PROVE  To(L, i) = {e0}
    OBVIOUS
  <2>2. PICK T : T = To(L, i)
    OBVIOUS
  <2>3. IsFiniteSet(T) /\ Cardinality(T) <= 1 /\ e0 \in T
    <3>1. Cardinality(T) <= 1
      BY <1>1, <1>13, <2>1, <2>2 DEF NamesKept, Most, InUse
    <3>2. e0 \in T
      BY <1>10, <1>11, <2>2 DEF To
    <3> QED
      BY <1>1, <2>2, <3>1, <3>2
  <2> QED
    BY <2>2, <2>3, AtMostOne
<1>16. Shown(L2) = Shown(L) \ {e0}
  BY <1>6, <1>9, <1>10, <1>12, <1>13, <1>14, <1>15, ReachedLess
<1>17. \A e \in Shown(L2) : Its(L2, e) = Its(L, e)
  <2>1. OneLess(L, L2, <<d, n>>)
    BY <1>9, DroppedIs
  <2> QED
    BY <2>1 DEF OneLess, Shown
<1>18. e0 \in DOMAIN t \ DOMAIN u /\ DOMAIN u = DOMAIN t \ {e0}
  BY <1>6, <1>16 DEF Pictures
<1>19. \A e \in DOMAIN u : u[e] = t[e]
  BY <1>6, <1>16, <1>17 DEF TreeIn
<1>20. t[e0].at = i /\ t[e0].kind = k
  BY <1>6, <1>11, <1>12 DEF Pictures
<1>21. k = "dir" => \A x \in DOMAIN t : x[1] # i
  <2>1. k = "dir" => DOMAIN L[i].names = {}
    BY <1>9, <1>14 DEF Dropped
  <2>2. \A x \in DOMAIN t : x[2] \in DOMAIN L[x[1]].names
    BY <1>6, AllIs DEF Pictures, Shown
  <2> QED
    BY <2>1, <2>2
<1>22. Known(L2) = Known(L) \ ({i} \ Files!Named(u))
  <2>1. Files!Named(u) = {Its(L2, e).ino : e \in Shown(L2)}
    BY <1>6 DEF Files!Named, Pictures
  <2>2. Known(L2) = {Root} \cup Files!Named(u)
    BY <2>1 DEF Known
  <2>3. Files!Named(u) = {Its(L, e).ino : e \in Shown(L) \ {e0}}
    BY <1>16, <1>17, <2>1
  <2>4. Known(L) = {Root, i} \cup Files!Named(u)
    BY <1>6, <1>11, <2>3 DEF Known
  <2> QED
    BY <1>13, <2>2, <2>4
<1>23. \A j \in Known(L2) : c[j] = b[j]
  <2>1. SUFFICES ASSUME NEW j \in Known(L2)
                 PROVE  c[j] = b[j]
    OBVIOUS
  <2>2. j \in Known(L) /\ j \in InUse /\ j \in InUse'
    BY <1>6, <1>22
  <2>3. Stays(j)
    BY <1>9, <2>2
  <2> QED
    BY <1>6, <2>2, <2>3, BodyStays
<1>24. DOMAIN b = Known(L) /\ DOMAIN c = Known(L2)
  BY <1>6 DEF Pictures
<1>25. Files!Remove(t, u, b, c)
  BY <1>18, <1>19, <1>20, <1>21, <1>22, <1>23, <1>24 DEF Files!Remove, Files!Same
<1> QED
  BY <1>3, <1>4, <1>5, <1>25

(* What readers see of a volume that is written to is the abstract tree of *)
(* files: each call changes one name or what is behind one, or nothing,    *)
(* and a flush nothing, until an error costs more than space.              *)
THEOREM FilesRefined == Spec => FilesSpec
<1>1. Init => Files!Init
  <2>1. SUFFICES ASSUME Init
                 PROVE  Files!Init
    OBVIOUS
  <2>2. IInv /\ failed = "no"
    BY <2>1, InitStep DEF Init
  <2>3. NamesKept(inode, Listing)
    BY <2>2 DEF IInv, Sound
  <2>4. PICK L : L = Listing
    OBVIOUS
  <2>5. Tree = TreeIn(L) /\ DOMAIN Bodies = Known(L)
    BY <2>3, <2>4, SeenIs DEF SeenRight
  <2>6. Pictures(L, Tree, Bodies)
    <3>1. PICK t, b : t = Tree /\ b = Bodies
      OBVIOUS
    <3> QED
      BY <2>5, <3>1, PictureIs
  <2>7. Files!Named(Tree) \subseteq DOMAIN Bodies
    BY <2>6 DEF Files!Named, Pictures, Known
  <2> QED
    BY <2>2, <2>7 DEF Files!Init
<1>2. ASSUME IInv, IInv', [Next]_vars
      PROVE  [Files!Next]_(Files!vars)
  <2>1. CASE failed' = "yes"
    BY <2>1 DEF Files!Next, Files!Break
  <2>2. CASE failed' # "yes"
    <3>1. failed # "yes"
      BY <1>2, <2>2, FailedStays
    <3>2. NamesKept(inode, Listing) /\ NamesKept(inode, Listing)'
      BY <1>2, <2>2, <3>1 DEF IInv, Sound
    <3>3. Seen
      BY <1>2, <2>2, NextStep, StutterStep DEF Seen
    <3>4. (failed = "yes") = (failed = "yes")'
      BY <2>2, <3>1
    <3>5. CASE Quiet
      BY <3>2, <3>4, <3>5, QuietUnseen DEF Files!vars
    <3>6. ASSUME NEW i \in {Root} \cup {Entry(e).ino : e \in Entries}, Touches(i)
          PROVE  Files!Next
      BY <3>2, <3>4, <3>6, TouchMaps DEF Files!Next
    <3>7. ASSUME NEW d \in LiveDirs, NEW n, NEW i, NEW k, Gains(d, n, i, k)
          PROVE  Files!Next
      BY <3>2, <3>4, <3>7, GainMaps DEF Files!Next
    <3>8. ASSUME NEW e \in Entries, NEW i, Loses(e, i)
          PROVE  Files!Next
      <4>1. IsFiniteSet(To(Listing, i))
        BY <1>2, Typed, ListingOK DEF IInv
      <4> QED
        BY <3>2, <3>4, <3>8, <4>1, LoseMaps DEF Files!Next
    <3> QED
      BY <3>3, <3>5, <3>6, <3>7, <3>8 DEF Seen
  <2> QED
    BY <2>1, <2>2
<1> QED
  BY Invariant, <1>1, <1>2, PTL DEF Spec, FilesSpec, Files!Spec
=============================================================================

--------------------------- MODULE BlockFileProofs ---------------------------
(***************************************************************************)
(* Proofs about BlockFile, for every number of direct blocks, of entries   *)
(* in an index block, of data blocks and of files.                         *)
(*                                                                         *)
(* First arithmetic: the nodes on the way to a block of a file.  Then      *)
(* trees by themselves: what one more node, or a block that becomes a      *)
(* leaf, does to the places of all others.  The loops of add and of        *)
(* truncate are reduced to those steps, and the invariant is kept by each  *)
(* action.                                                                 *)
(***************************************************************************)
EXTENDS BlockFile, Induction, SequenceTheorems

-----------------------------------------------------------------------------
(* Numbers of nodes.                                                       *)

LEMMA Division ==
  ASSUME NEW d \in Nat \ {0}
  PROVE  /\ \A n \in Nat : /\ n \div d \in Nat /\ n % d \in 0 .. d - 1
                           /\ n = d * (n \div d) + (n % d)
         /\ \A q \in Nat : \A r \in 0 .. d - 1 :
               (d * q + r) \div d = q /\ (d * q + r) % d = r
<1>1. ASSUME NEW n \in Nat
      PROVE  /\ n \div d \in Nat /\ n % d \in 0 .. d - 1
             /\ n = d * (n \div d) + (n % d)
  OBVIOUS
<1>2. ASSUME NEW q \in Nat, NEW r \in 0 .. d - 1
      PROVE  (d * q + r) \div d = q /\ (d * q + r) % d = r
  <2> DEFINE n == d * q + r
             p == n \div d
             s == n % d
  <2>1. n \in Nat /\ p \in Nat /\ s \in 0 .. d - 1 /\ n = d * p + s
    OBVIOUS
  <2> HIDE DEF p, s
  <2>2. p = q
    <3>1. CASE p < q
      <4>1. d * p + d <= d * q
        BY <2>1, <3>1
      <4>2. QED BY <2>1, <4>1
    <3>2. CASE q < p
      <4>1. d * q + d <= d * p
        BY <2>1, <3>2
      <4>2. QED BY <2>1, <4>1
    <3>3. QED BY <2>1, <3>1, <3>2
  <2>3. QED BY <2>1, <2>2 DEF p, s
<1>3. QED BY <1>1, <1>2

\* To divide twice is to divide by the product, and a number is divided by
\* the product when it is by one factor and the quotient by the other.
LEMMA TwiceDivided ==
  ASSUME NEW a \in Nat \ {0}, NEW b \in Nat \ {0}, NEW n \in Nat
  PROVE  /\ a * b \in Nat \ {0}
         /\ (n \div a) \div b = n \div (a * b)
         /\ n % (a * b) = 0 <=> n % a = 0 /\ (n \div a) % b = 0
<1> DEFINE q == n \div a
           r == n % a
           p == q \div b
           s == q % b
<1>1. q \in Nat /\ r \in 0 .. a - 1 /\ n = a * q + r
  BY Division
<1>2. p \in Nat /\ s \in 0 .. b - 1 /\ q = b * p + s
  <2> HIDE DEF q
  <2>1. QED BY <1>1, Division
<1> HIDE DEF q, r, p, s
<1>3. a * b \in Nat \ {0}
  OBVIOUS
<1>4. n = (a * b) * p + (a * s + r)
  <2>1. a * q = a * (b * p) + a * s
    BY <1>1, <1>2
  <2>2. a * (b * p) = (a * b) * p
    BY <1>2
  <2>3. QED BY <1>1, <1>2, <2>1, <2>2
<1>5. a * s + r \in 0 .. a * b - 1
  <2>1. a * s \in Nat /\ a * s + a <= a * b
    <3>1. s \in Nat /\ s + 1 <= b /\ a * (s + 1) = a * s + a
      BY <1>2
    <3>2. \A x, y, z \in Nat : x <= y => z * x <= z * y
      OBVIOUS
    <3>3. a * (s + 1) <= a * b
      BY <3>1, <3>2
    <3>4. QED BY <3>1, <3>3
  <2>2. QED BY <1>1, <1>3, <2>1
<1> DEFINE c == a * b
           t == a * s + r
<1>6. n \div c = p /\ n % c = t
  <2>1. n = c * p + t /\ c \in Nat \ {0} /\ p \in Nat /\ t \in 0 .. c - 1
    BY <1>2, <1>3, <1>4, <1>5
  <2> HIDE DEF c, t
  <2>2. QED BY <2>1, Division
<1>7. t = 0 <=> r = 0 /\ s = 0
  <2>1. s # 0 => a * s >= a
    BY <1>2
  <2>2. s = 0 => a * s = 0
    BY <1>2
  <2>3. a * s \in Nat
    BY <1>2
  <2>4. QED BY <1>1, <1>2, <2>1, <2>2, <2>3
<1>8. QED BY <1>3, <1>6, <1>7 DEF p, q, r, s

LEMMA WidthIs ==
  /\ \A i \in 0 .. 3 : Width(i) \in Nat \ {0}
  /\ Width(0) = 1
  /\ \A i \in 0 .. 2 : Width(i + 1) = Width(i) * PerIndex
  /\ PerIndex \in Nat \ {0, 1}
<1>1. PerIndex \in Nat \ {0, 1} /\ PerIndex * PerIndex \in Nat \ {0}
  BY PerIndexAssumption
<1>2. PerIndex * PerIndex * PerIndex \in Nat \ {0}
  <2> DEFINE x == PerIndex * PerIndex
  <2> HIDE DEF x
  <2>1. x \in Nat \ {0} => x * PerIndex \in Nat \ {0}
    BY <1>1
  <2>2. QED BY <1>1, <2>1 DEF x
<1>3. Width(0) = 1 /\ Width(1) = PerIndex /\ Width(2) = PerIndex * PerIndex
      /\ Width(3) = PerIndex * PerIndex * PerIndex
  BY DEF Width
<1>4. \A i \in 0 .. 3 : i = 0 \/ i = 1 \/ i = 2 \/ i = 3
  OBVIOUS
<1>5. 1 * PerIndex = PerIndex /\ 0 + 1 = 1 /\ 1 + 1 = 2 /\ 2 + 1 = 3
  BY <1>1
<1>6. ASSUME NEW i \in 0 .. 2 PROVE Width(i + 1) = Width(i) * PerIndex
  <2>1. CASE i = 0
    BY <1>3, <1>5, <2>1
  <2>2. CASE i = 1
    BY <1>3, <1>5, <2>2
  <2>3. CASE i = 2
    BY <1>3, <1>5, <2>3
  <2>4. QED BY <2>1, <2>2, <2>3
<1>7. ASSUME NEW i \in 0 .. 3 PROVE Width(i) \in Nat \ {0}
  BY <1>1, <1>2, <1>3, <1>4
<1>8. QED BY <1>1, <1>3, <1>6, <1>7

\* Each level begins where the one before ends.
LEMMA Bases ==
  /\ \A i \in 0 .. 4 : Base(i) \in Nat
  /\ Base(0) = 0 /\ Base(1) = Direct /\ Direct \in Nat \ {0}
  /\ \A i \in 1 .. 3 : Base(i + 1) = Base(i) + Width(i)
  /\ \A i, j \in 0 .. 4 : i <= j => Base(i) <= Base(j)
<1>1. Direct \in Nat \ {0} /\ Width(1) \in Nat /\ Width(2) \in Nat /\ Width(3) \in Nat
  BY WidthIs, DirectAssumption
<1>2. /\ Base(0) = 0 /\ Base(1) = Direct /\ Base(2) = Base(1) + Width(1)
      /\ Base(3) = Base(2) + Width(2) /\ Base(4) = Base(3) + Width(3)
  BY DEF Base
<1>3. /\ Base(0) \in Nat /\ Base(1) \in Nat /\ Base(2) \in Nat /\ Base(3) \in Nat /\ Base(4) \in Nat
      /\ Base(0) <= Base(1) /\ Base(1) <= Base(2) /\ Base(2) <= Base(3) /\ Base(3) <= Base(4)
  BY <1>1, <1>2
<1>4. \A i \in 0 .. 4 : i = 0 \/ i = 1 \/ i = 2 \/ i = 3 \/ i = 4
  OBVIOUS
<1>5. \A i \in 0 .. 4 : Base(i) \in Nat
  BY <1>3, <1>4
<1>6. ASSUME NEW i \in 1 .. 3 PROVE Base(i + 1) = Base(i) + Width(i)
  <2>1. CASE i = 1
    BY <1>2, <2>1
  <2>2. CASE i = 2
    BY <1>2, <2>2
  <2>3. CASE i = 3
    BY <1>2, <2>3
  <2>4. QED BY <2>1, <2>2, <2>3
<1>7. ASSUME NEW i \in 0 .. 4, NEW j \in 0 .. 4, i <= j PROVE Base(i) <= Base(j)
  BY <1>3, <1>4, <1>7
<1>8. QED BY <1>1, <1>2, <1>5, <1>6, <1>7

\* Every block that a file may have is on one level.
LEMMA LevelIs ==
  ASSUME NEW k \in Nat, k < Base(4)
  PROVE  /\ LevelOf(k) \in 0 .. 3
         /\ Base(LevelOf(k)) <= k /\ k < Base(LevelOf(k) + 1)
         /\ \A l \in 0 .. 3 : Base(l) <= k /\ k < Base(l + 1) => LevelOf(k) = l
<1> DEFINE P(l) == Base(l) <= k /\ k < Base(l + 1)
<1>1. \E l \in 0 .. 3 : P(l)
  <2>1. 0 + 1 = 1 /\ 1 + 1 = 2 /\ 2 + 1 = 3 /\ 3 + 1 = 4
    OBVIOUS
  <2>2. /\ Base(0) = 0 /\ Base(1) \in Nat /\ Base(2) \in Nat /\ Base(3) \in Nat
    BY Bases
  <2>3. P(0) \/ P(1) \/ P(2) \/ P(3)
    BY <2>1, <2>2
  <2>4. QED BY <2>3
<1>2. LevelOf(k) \in 0 .. 3 /\ P(LevelOf(k))
  <2>1. LevelOf(k) = CHOOSE l \in 0 .. 3 : P(l)
    BY DEF LevelOf
  <2> HIDE DEF P
  <2>2. QED BY <1>1, <2>1
<1>3. ASSUME NEW i \in 0 .. 3, NEW j \in 0 .. 3, P(i), P(j) PROVE ~(i < j)
  <2>1. i < j => Base(i + 1) <= Base(j) /\ Base(i + 1) \in Nat /\ Base(j) \in Nat
    BY Bases
  <2>2. QED BY <1>3, <2>1
<1>4. \A l \in 0 .. 3 : P(l) => LevelOf(k) = l
  <2>1. TAKE l \in 0 .. 3
  <2>2. HAVE P(l)
  <2>3. ~(l < LevelOf(k)) /\ ~(LevelOf(k) < l)
    <3> HIDE DEF P
    <3>1. QED BY <1>2, <1>3, <2>2
  <2>4. QED BY <1>2, <2>3
<1>5. QED BY <1>2, <1>4

-----------------------------------------------------------------------------
(* Nodes and paths.                                                        *)

\* The node at depth d on the way to file block k.
At(k, d) == <<LevelOf(k), d, (k - Base(LevelOf(k))) \div Width(LevelOf(k) - d)>>

\* The node above.
Up(node) == <<node[1], node[2] - 1, node[3] \div PerIndex>>

\* All nodes that a file can have.  A direct block is a tree of one node.
AllNodes == {node \in (0 .. 3) \X (0 .. 3) \X Nat :
                /\ node[2] <= node[1]
                /\ node[2] = 0 /\ node[1] # 0 => node[3] = 0
                /\ node[1] = 0 => node[3] < Direct}

\* The nodes of a file of n blocks.
NodesUpTo(n) == UNION {Path(k) : k \in 0 .. n - 1}

LEMMA AtIs ==
  ASSUME NEW k \in Nat, k < Base(4), NEW d \in 0 .. LevelOf(k)
  PROVE  /\ LevelOf(k) \in 0 .. 3
         /\ k - Base(LevelOf(k)) \in Nat
         /\ LevelOf(k) - d \in 0 .. 3 /\ Width(LevelOf(k) - d) \in Nat \ {0}
         /\ At(k, d)[1] = LevelOf(k) /\ At(k, d)[2] = d
         /\ At(k, d)[3] = (k - Base(LevelOf(k))) \div Width(LevelOf(k) - d)
         /\ At(k, d) \in AllNodes
         /\ d # 0 => Up(At(k, d)) = At(k, d - 1)
         /\ d = LevelOf(k) => At(k, d)[3] = k - Base(LevelOf(k))
         /\ LevelOf(k) = 0 => At(k, d)[3] = k
<1> DEFINE l == LevelOf(k)
           q == k - Base(l)
           w == Width(l - d)
<1>1. l \in 0 .. 3 /\ Base(l) <= k /\ k < Base(l + 1)
  BY LevelIs
<1>2. q \in Nat /\ l - d \in 0 .. 3 /\ w \in Nat \ {0}
  <2> HIDE DEF l
  <2>1. Base(l) \in Nat
    BY <1>1, Bases
  <2>2. d \in 0 .. l
    BY DEF l
  <2>3. l - d \in 0 .. 3
    BY <1>1, <2>2
  <2>4. QED BY <1>1, <2>1, <2>3, WidthIs
<1>3. /\ At(k, d)[1] = l /\ At(k, d)[2] = d /\ At(k, d)[3] = q \div w
      /\ At(k, d) \in Int \X Int \X {q \div w}
  BY <1>1 DEF At
<1> HIDE DEF q, w
<1>4. q \div w \in Nat
  BY <1>2, Division
<1>5. d = l => q \div w = q
  <2>1. d = l => w = 1
    BY <1>1, WidthIs DEF w
  <2>2. QED BY <1>2, <2>1
<1>6. l = 0 => q = k /\ d = l
  <2>1. l = 0 => q = k
    BY Bases DEF q
  <2>2. l = 0 => d = l
    OBVIOUS
  <2>3. QED BY <2>1, <2>2
<1>7. d = 0 /\ l # 0 => q \div w = 0
  <2>1. HAVE d = 0 /\ l # 0
  <2>2. l \in 1 .. 3 /\ w = Width(l)
    <3> HIDE DEF l
    <3>1. QED BY <1>1, <2>1 DEF w
  <2>3. q < w
    <3>1. Base(l + 1) = Base(l) + Width(l)
      <4> HIDE DEF l
      <4>1. QED BY <2>2, Bases
    <3>2. Base(l) \in Nat
      <4> HIDE DEF l
      <4>1. QED BY <1>1, Bases
    <3>3. QED BY <1>1, <1>2, <2>2, <3>1, <3>2 DEF q
  <2>4. QED BY <1>2, <2>3
<1>8. l = 0 => k < Direct
  BY <1>1, Bases
<1>9. At(k, d) \in AllNodes
  <2>1. d \in 0 .. 3 /\ d <= l
    BY <1>1
  <2>2. At(k, d) \in (0 .. 3) \X (0 .. 3) \X Nat
    BY <1>1, <1>4, <2>1 DEF At, q, w
  <2>3. /\ At(k, d)[2] <= At(k, d)[1]
        /\ At(k, d)[2] = 0 /\ At(k, d)[1] # 0 => At(k, d)[3] = 0
        /\ At(k, d)[1] = 0 => At(k, d)[3] < Direct
    BY <1>3, <1>5, <1>6, <1>7, <1>8, <2>1
  <2>4. QED BY <2>2, <2>3 DEF AllNodes
<1>10. d # 0 => Up(At(k, d)) = At(k, d - 1)
  <2>1. HAVE d # 0
  <2>2. l - (d - 1) = (l - d) + 1 /\ l - d \in 0 .. 2 /\ d - 1 \in Nat
    <3> HIDE DEF l
    <3>1. d \in 0 .. l
      BY DEF l
    <3>2. QED BY <1>1, <2>1, <3>1
  <2>3. Width(l - (d - 1)) = w * PerIndex /\ PerIndex \in Nat \ {0}
    <3>1. Width((l - d) + 1) = Width(l - d) * PerIndex /\ PerIndex \in Nat \ {0}
      <4> HIDE DEF l
      <4>1. QED BY <2>2, WidthIs
    <3>2. QED BY <2>2, <3>1 DEF w
  <2>4. (q \div w) \div PerIndex = q \div (w * PerIndex)
    BY <1>2, <2>3, TwiceDivided
  <2>5. At(k, d - 1) = <<l, d - 1, q \div (w * PerIndex)>>
    BY <2>3 DEF At, q
  <2>6. Up(At(k, d)) = <<l, d - 1, (q \div w) \div PerIndex>>
    BY <1>3 DEF Up
  <2>7. QED BY <2>4, <2>5, <2>6
<1>11. d = l => At(k, d)[3] = q
  BY <1>3, <1>5
<1>12. l = 0 => At(k, d)[3] = k
  BY <1>6, <1>11
<1>13. QED BY <1>1, <1>2, <1>3, <1>9, <1>10, <1>11, <1>12 DEF q, w

LEMMA PathIs ==
  ASSUME NEW k
  PROVE  Path(k) = {At(k, d) : d \in 0 .. LevelOf(k)}
BY DEF Path, At

LEMMA NodesStep ==
  ASSUME NEW n \in Nat
  PROVE  /\ NodesUpTo(0) = {}
         /\ NodesUpTo(n + 1) = NodesUpTo(n) \cup Path(n)
         /\ \A m \in 0 .. n : NodesUpTo(m) \subseteq NodesUpTo(n)
BY DEF NodesUpTo

\* A node on the way to block k is new when all below it are.
LEMMA NewWhen ==
  ASSUME NEW k \in Nat, k < Base(4), NEW d \in 0 .. LevelOf(k)
  PROVE  At(k, d) \in NodesUpTo(k) <=> (k - Base(LevelOf(k))) % Width(LevelOf(k) - d) # 0
<1> DEFINE l == LevelOf(k)
           q == k - Base(l)
           w == Width(l - d)
<1>1. /\ l \in 0 .. 3 /\ q \in Nat /\ w \in Nat \ {0}
      /\ At(k, d)[1] = l /\ At(k, d)[2] = d /\ At(k, d)[3] = q \div w
  BY AtIs
<1>2. Base(l) \in Nat /\ q = k - Base(l) /\ Base(l) <= k /\ k < Base(l + 1)
  <2>1. l \in 0 .. 4
    BY <1>1
  <2>2. Base(l) \in Nat
    <3> HIDE DEF l
    <3>1. QED BY <2>1, Bases
  <2>3. QED BY <2>2, LevelIs
<1>3. q = w * (q \div w) + (q % w) /\ q \div w \in Nat /\ q % w \in 0 .. w - 1
  <2> HIDE DEF q, w
  <2>1. QED BY <1>1, Division
<1>4. ASSUME At(k, d) \in NodesUpTo(k), q % w = 0 PROVE FALSE
  <2>1. PICK j \in 0 .. k - 1 : At(k, d) \in Path(j)
    BY <1>4 DEF NodesUpTo
  <2>2. PICK e \in 0 .. LevelOf(j) : At(k, d) = At(j, e)
    BY <2>1, PathIs
  <2>3. j \in Nat /\ j < Base(4) /\ j < k
    <3>1. Base(4) \in Nat
      BY Bases
    <3>2. QED BY <2>1, <3>1
  <2>4. /\ At(j, e)[1] = LevelOf(j) /\ At(j, e)[2] = e
        /\ At(j, e)[3] = (j - Base(LevelOf(j))) \div Width(LevelOf(j) - e)
        /\ j - Base(LevelOf(j)) \in Nat
    BY <2>3, AtIs
  <2>5. LevelOf(j) = l /\ e = d
    BY <1>1, <2>2, <2>4
  <2> DEFINE r == j - Base(l)
  <2>6. r \in Nat /\ r \div w = q \div w
    BY <1>1, <2>2, <2>4, <2>5
  <2>7. r < q
    BY <1>2, <2>3, <2>6
  <2> HIDE DEF q, w, r
  <2>8. r = w * (r \div w) + (r % w) /\ r % w \in 0 .. w - 1 /\ r \div w \in Nat
    BY <1>1, <2>6, Division
  <2> DEFINE c == w * (q \div w)
  <2>9. q = c /\ r = c + (r % w) /\ c \in Nat
    BY <1>1, <1>3, <1>4, <2>6, <2>8
  <2>10. QED BY <2>7, <2>8, <2>9
<1>5. ASSUME q % w # 0 PROVE At(k, d) \in NodesUpTo(k)
  <2> DEFINE j == k - 1
             c == q \div w
             t == q % w
  <2>1. q # 0 /\ j \in 0 .. k - 1 /\ j \in Nat
    <3>1. q # 0
      <4> HIDE DEF q, w
      <4>1. QED BY <1>1, <1>5
    <3>2. QED BY <1>2, <3>1
  <2>2. Base(l) <= j /\ j < Base(l + 1) /\ j < Base(4)
    <3>1. l + 1 \in 0 .. 4 /\ Base(l + 1) \in Nat /\ Base(4) \in Nat
      <4>1. l + 1 \in 0 .. 4 /\ 4 \in 0 .. 4
        BY <1>1
      <4> HIDE DEF l
      <4>2. QED BY <4>1, Bases
    <3>2. QED BY <1>1, <1>2, <2>1, <3>1
  <2>3. LevelOf(j) = l
    <3> HIDE DEF l, j
    <3>1. QED BY <1>1, <2>1, <2>2, LevelIs
  <2>4. (q - 1) \div w = c
    <3> HIDE DEF q, w
    <3>1. q - 1 = w * c + (t - 1) /\ c \in Nat /\ t - 1 \in 0 .. w - 1
      <4> DEFINE v == w * c
      <4>1. v \in Nat /\ q = v + t /\ c \in Nat /\ t \in 0 .. w - 1 /\ t # 0
        BY <1>1, <1>3, <1>5
      <4> HIDE DEF v, t, c
      <4>2. q - 1 = v + (t - 1) /\ c \in Nat /\ t - 1 \in 0 .. w - 1
        BY <1>1, <4>1
      <4>3. QED BY <4>2 DEF v
    <3> HIDE DEF t, c
    <3> DEFINE u == q - 1
               r == t - 1
    <3>2. u = w * c + r /\ c \in Nat /\ r \in 0 .. w - 1 /\ w \in Nat \ {0}
      BY <1>1, <3>1
    <3> HIDE DEF u, r
    <3>3. u \div w = c
      BY <3>2, Division
    <3>4. QED BY <3>3 DEF u
  <2>5. j - Base(l) = q - 1
    BY <1>2
  <2>6. At(j, d) = At(k, d)
    BY <2>3, <2>4, <2>5 DEF At
  <2>7. At(j, d) \in Path(j)
    BY <2>3, PathIs
  <2>8. QED BY <2>1, <2>6, <2>7 DEF NodesUpTo
<1>6. QED BY <1>4, <1>5

\* What the nodes of a file of n blocks have in common.
LEMMA NodesAre ==
  ASSUME NEW n \in Nat, n <= Base(4)
  PROVE  /\ NodesUpTo(n) \subseteq AllNodes
         /\ \A node \in NodesUpTo(n) : node[2] # 0 => Up(node) \in NodesUpTo(n)
<1>1. ASSUME NEW node \in NodesUpTo(n)
      PROVE  node \in AllNodes /\ (node[2] # 0 => Up(node) \in NodesUpTo(n))
  <2>1. PICK k \in 0 .. n - 1 : node \in Path(k)
    BY DEF NodesUpTo
  <2>2. PICK d \in 0 .. LevelOf(k) : node = At(k, d)
    BY <2>1, PathIs
  <2>3. k \in Nat /\ k < Base(4)
    <3>1. Base(4) \in Nat
      BY Bases
    <3>2. QED BY <3>1
  <2>4. LevelOf(k) \in 0 .. 3 /\ node \in AllNodes /\ node[2] = d /\ (d # 0 => Up(node) = At(k, d - 1))
    BY <2>2, <2>3, AtIs
  <2>5. d # 0 => d - 1 \in 0 .. LevelOf(k)
    BY <2>4
  <2>6. d # 0 => At(k, d - 1) \in NodesUpTo(n)
    BY <2>5, PathIs DEF NodesUpTo
  <2>7. QED BY <2>4, <2>6
<1>2. QED BY <1>1

-----------------------------------------------------------------------------
(* locate: one level of the tree after the other.                          *)

LEMMA LocatingRuns ==
  ASSUME NEW device, NEW first, NEW level \in 0 .. 3, NEW no
  PROVE  /\ Locating(device, first, level, no)[0] = first
         /\ \A d \in 1 .. level :
               Locating(device, first, level, no)[d]
                 = device[Locating(device, first, level, no)[d - 1]][Slot(no \div Width(level - d))]
<1> DEFINE Turn(g, d) == IF d = 0 THEN first
                         ELSE device[g[d - 1]][Slot(no \div Width(level - d))]
           Runs(g) == g = [d \in 0 .. level |-> Turn(g, d)]
           Next1(b, d) == device[b][Slot(no \div Width(level - d))]
           b1 == Next1(first, 1)
           b2 == Next1(b1, 2)
           b3 == Next1(b2, 3)
           g == [d \in 0 .. level |-> IF d = 0 THEN first ELSE IF d = 1 THEN b1
                                      ELSE IF d = 2 THEN b2 ELSE b3]
<1>1. \A d \in 0 .. level : d = 0 \/ d = 1 \/ d = 2 \/ d = 3
  OBVIOUS
<1>2. ASSUME NEW d \in 0 .. level PROVE g[d] = Turn(g, d)
  <2>1. d # 0 => Turn(g, d) = Next1(g[d - 1], d)
    <3> HIDE DEF g
    <3>1. QED OBVIOUS
  <2>1a. d # 0 => d - 1 \in 0 .. level
    OBVIOUS
  <2>2. CASE d = 0
    BY <2>2
  <2>3. CASE d = 1
    <3>1. g[d - 1] = first /\ g[d] = b1
      <4> HIDE DEF b1, b2, b3
      <4>1. QED BY <2>1a, <2>3
    <3> HIDE DEF g, Turn
    <3>2. QED BY <2>1, <2>3, <3>1
  <2>4. CASE d = 2
    <3>1. g[d - 1] = b1 /\ g[d] = b2
      <4> HIDE DEF b1, b2, b3
      <4>1. QED BY <2>1a, <2>4
    <3> HIDE DEF g, Turn
    <3>2. QED BY <2>1, <2>4, <3>1
  <2>5. CASE d = 3
    <3>1. g[d - 1] = b2 /\ g[d] = b3
      <4> HIDE DEF b1, b2, b3
      <4>1. QED BY <2>1a, <2>5
    <3> HIDE DEF g, Turn
    <3>2. QED BY <2>1, <2>5, <3>1, SMTT(30)
  <2>6. QED BY <1>1, <2>2, <2>3, <2>4, <2>5
<1>3. Runs(g)
  <2>1. DOMAIN g = 0 .. level /\ g = [d \in 0 .. level |-> g[d]]
    OBVIOUS
  <2> HIDE DEF g, Turn
  <2>2. QED BY <1>2, <2>1
<1>4. \E h : Runs(h)
  <2> HIDE DEF Runs, g
  <2>1. QED BY <1>3
<1>5. Locating(device, first, level, no) = CHOOSE h : Runs(h)
  BY DEF Locating
<1>6. Runs(Locating(device, first, level, no))
  <2> HIDE DEF Runs
  <2>1. QED BY <1>4, <1>5
<1>7. \A d \in 0 .. level :
         Locating(device, first, level, no)[d] = Turn(Locating(device, first, level, no), d)
  <2> HIDE DEF Turn
  <2>1. QED BY <1>6
<1>8. 0 \in 0 .. level /\ \A d \in 1 .. level : d \in 0 .. level /\ d # 0
  OBVIOUS
<1>9. QED BY <1>7, <1>8

\* The recursion of locate: the block of a node is an entry of the index
\* block of the node above.
LEMMA LocateIs ==
  ASSUME NEW device, NEW first, NEW no \in Nat
  PROVE  /\ Locate(device, first, 0, no) = first
         /\ \A d \in 1 .. 3 : Locate(device, first, d, no)
                 = device[Locate(device, first, d - 1, no \div PerIndex)][Slot(no)]
<1>1. Locate(device, first, 0, no) = first
  BY LocatingRuns DEF Locate
<1>2. ASSUME NEW d \in 1 .. 3
      PROVE  Locate(device, first, d, no) = device[Locate(device, first, d - 1, no \div PerIndex)][Slot(no)]
  <2> DEFINE g == Locating(device, first, d, no)
             h == Locating(device, first, d - 1, no \div PerIndex)
             same == {j \in 0 .. d - 1 : g[j] = h[j]}
  <2>0. d \in 0 .. 3 /\ d - 1 \in 0 .. 3 /\ d - 1 \in Nat /\ d - d = 0
    OBVIOUS
  <2>1. /\ g[0] = first /\ h[0] = first
        /\ \A j \in 1 .. d : g[j] = device[g[j - 1]][Slot(no \div Width(d - j))]
        /\ \A j \in 1 .. d - 1 :
              h[j] = device[h[j - 1]][Slot((no \div PerIndex) \div Width((d - 1) - j))]
    BY <2>0, LocatingRuns
  <2>2. \A j \in 1 .. d - 1 : (no \div PerIndex) \div Width((d - 1) - j) = no \div Width(d - j)
    <3>1. TAKE j \in 1 .. d - 1
    <3>2. (d - 1) - j \in 0 .. 2 /\ (d - 1) - j \in 0 .. 3 /\ ((d - 1) - j) + 1 = d - j
      OBVIOUS
    <3>3. /\ Width(d - j) = Width((d - 1) - j) * PerIndex
          /\ Width((d - 1) - j) \in Nat \ {0} /\ PerIndex \in Nat \ {0}
      BY <3>2, WidthIs
    <3>4. Width(d - j) = PerIndex * Width((d - 1) - j)
      BY <3>3
    <3> DEFINE w == Width((d - 1) - j)
    <3> HIDE DEF w
    <3>5. (no \div PerIndex) \div w = no \div (PerIndex * w)
      BY <3>3, TwiceDivided DEF w
    <3>6. QED BY <3>4, <3>5 DEF w
  <2> HIDE DEF g, h
  <2>3. \A j \in 0 .. d - 1 : j \in same
    <3>1. 0 \in same
      BY <2>1
    <3>2. \A j \in 0 .. (d - 1) - 1 : j \in same => j + 1 \in same
      <4>1. TAKE j \in 0 .. (d - 1) - 1
      <4>2. HAVE j \in same
      <4>3. j + 1 \in 1 .. d /\ j + 1 \in 1 .. d - 1 /\ (j + 1) - 1 = j /\ j + 1 \in 0 .. d - 1
        OBVIOUS
      <4>4. g[j] = h[j]
        BY <4>2
      <4>5. g[j + 1] = h[j + 1]
        BY <2>1, <2>2, <4>3, <4>4
      <4>6. QED BY <4>3, <4>5
    <3> HIDE DEF same
    <3>3. 0 \in Nat
      OBVIOUS
    <3>4. QED BY <2>0, <3>1, <3>2, <3>3, Upwards
  <2>4. d \in 1 .. d /\ d - 1 \in 0 .. d - 1
    OBVIOUS
  <2>5. g[d - 1] = h[d - 1]
    BY <2>3, <2>4
  <2>6. no \div Width(d - d) = no
    BY <2>0, WidthIs
  <2>7. g[d] = device[h[d - 1]][Slot(no)]
    BY <2>1, <2>4, <2>5, <2>6
  <2>8. QED BY <2>7 DEF Locate, g, h
<1>3. QED BY <1>1, <1>2

-----------------------------------------------------------------------------
(* Trees.  A node is held by a file, and its block is found through the    *)
(* inodes and the index blocks.                                            *)

Devices == [Blocks -> [0 .. PerIndex - 1 -> Blocks \cup {NoBlock}]]

BlockOf(ino, device, x) ==
    IF x[2][1] = 0 THEN ino[x[1]].direct[x[2][3]]
    ELSE Locate(device, ino[x[1]].root[x[2][1]], x[2][2], x[2][3])

Above(x) == <<x[1], Up(x[2])>>

Held(S, ino, device) == {BlockOf(ino, device, x) : x \in S}

\* The blocks that are not lost.
Whole(S, ino, device, list) == Held(S, ino, device) \cup ToSet(list)

\* No node of S moved.
Still(S, ino, device, ino2, device2) ==
    \A x \in S : BlockOf(ino2, device2, x) = BlockOf(ino, device, x)

\* A number is put into an index block.
Entered(device, b, slot, no) == [device EXCEPT ![b][slot] = no]

\* With each node the one above.
Closed(S) ==
    /\ S \subseteq Files \X AllNodes
    /\ \A x \in S : x[2][2] # 0 => Above(x) \in S

\* No block plays two parts.
Apart(S, ino, device, list) ==
    /\ list \in Seq(Blocks) /\ IsInjective(list)
    /\ \A x \in S : BlockOf(ino, device, x) \in Blocks \ ToSet(list)
    /\ \A x, y \in S : BlockOf(ino, device, x) = BlockOf(ino, device, y) => x = y

LEMMA NodeIs ==
  ASSUME NEW x \in Files \X AllNodes
  PROVE  /\ x[1] \in Files /\ x = <<x[1], x[2]>> /\ x[2] = <<x[2][1], x[2][2], x[2][3]>>
         /\ x[2] \in AllNodes
         /\ x[2][1] \in 0 .. 3 /\ x[2][2] \in 0 .. x[2][1] /\ x[2][3] \in Nat
         /\ x[2][2] = 0 /\ x[2][1] # 0 => x[2][3] = 0
         /\ x[2][1] = 0 => x[2][2] = 0 /\ x[2][3] < Direct
<1>1. x[1] \in Files /\ x[2] \in AllNodes /\ x = <<x[1], x[2]>>
  OBVIOUS
<1>2. x[2] \in (0 .. 3) \X (0 .. 3) \X Nat
  BY <1>1 DEF AllNodes
<1>3. /\ x[2] = <<x[2][1], x[2][2], x[2][3]>>
      /\ x[2][1] \in 0 .. 3 /\ x[2][2] \in 0 .. 3 /\ x[2][3] \in Nat
  BY <1>2
<1>4. /\ x[2][2] <= x[2][1]
      /\ x[2][2] = 0 /\ x[2][1] # 0 => x[2][3] = 0
      /\ x[2][1] = 0 => x[2][3] < Direct
  BY <1>1 DEF AllNodes
<1>5. QED BY <1>1, <1>3, <1>4

LEMMA AboveIs ==
  ASSUME NEW x
  PROVE  /\ Above(x)[1] = x[1] /\ Above(x)[2][1] = x[2][1]
         /\ Above(x)[2][2] = x[2][2] - 1 /\ Above(x)[2][3] = x[2][3] \div PerIndex
BY DEF Above, Up

\* A block is named in the inode, or in the block of the node above.
LEMMA BlockIs ==
  ASSUME NEW ino, NEW device, NEW x \in Files \X AllNodes
  PROVE  /\ x[2][1] = 0 => BlockOf(ino, device, x) = ino[x[1]].direct[x[2][3]]
         /\ x[2][1] # 0 /\ x[2][2] = 0 => BlockOf(ino, device, x) = ino[x[1]].root[x[2][1]]
         /\ x[2][2] # 0 => BlockOf(ino, device, x) = device[BlockOf(ino, device, Above(x))][Slot(x[2][3])]
<1>1. /\ x[2][1] \in 0 .. 3 /\ x[2][2] \in 0 .. x[2][1] /\ x[2][3] \in Nat
  BY NodeIs
<1>2. x[2][1] = 0 => BlockOf(ino, device, x) = ino[x[1]].direct[x[2][3]]
  BY DEF BlockOf
<1>3. x[2][1] # 0 => BlockOf(ino, device, x) = Locate(device, ino[x[1]].root[x[2][1]], x[2][2], x[2][3])
  BY DEF BlockOf
<1>4. ASSUME x[2][2] # 0
      PROVE  BlockOf(ino, device, x) = device[BlockOf(ino, device, Above(x))][Slot(x[2][3])]
  <2>1. x[2][1] # 0 /\ x[2][2] \in 1 .. 3
    BY <1>1, <1>4
  <2>2. BlockOf(ino, device, Above(x))
          = Locate(device, ino[x[1]].root[x[2][1]], x[2][2] - 1, x[2][3] \div PerIndex)
    BY <2>1, AboveIs DEF BlockOf
  <2> DEFINE first == ino[x[1]].root[x[2][1]]
             d == x[2][2]
             no == x[2][3]
  <2>3. Locate(device, first, d, no) = device[Locate(device, first, d - 1, no \div PerIndex)][Slot(no)]
    <3> HIDE DEF first, d, no
    <3>1. d \in 1 .. 3 /\ no \in Nat
      BY <1>1, <2>1 DEF d, no
    <3>2. QED BY <3>1, LocateIs
  <2>4. QED BY <1>3, <2>1, <2>2, <2>3
<1>5. x[2][1] # 0 /\ x[2][2] = 0 => BlockOf(ino, device, x) = ino[x[1]].root[x[2][1]]
  BY <1>1, <1>3, LocateIs
<1>6. QED BY <1>2, <1>4, <1>5

\* Blocks stay where they are when the inodes name the same ones and so do
\* the entries on the way.
LEMMA Unmoved ==
  ASSUME NEW S, Closed(S), NEW ino, NEW device, NEW ino2, NEW device2,
         \A x \in S : x[2][2] = 0 => BlockOf(ino2, device2, x) = BlockOf(ino, device, x),
         \A x \in S : x[2][2] # 0 =>
            device2[BlockOf(ino, device, Above(x))][Slot(x[2][3])]
              = device[BlockOf(ino, device, Above(x))][Slot(x[2][3])]
  PROVE  \A x \in S : BlockOf(ino2, device2, x) = BlockOf(ino, device, x)
<1> DEFINE done == {d \in 0 .. 3 : \A x \in S : x[2][2] = d =>
                        BlockOf(ino2, device2, x) = BlockOf(ino, device, x)}
<1>1. 0 \in done
  OBVIOUS
<1>2. \A d \in 0 .. 3 - 1 : d \in done => d + 1 \in done
  <2>1. TAKE d \in 0 .. 3 - 1
  <2>2. HAVE d \in done
  <2>3. d + 1 \in 0 .. 3 /\ d + 1 # 0
    OBVIOUS
  <2>4. ASSUME NEW x \in S, x[2][2] = d + 1
        PROVE  BlockOf(ino2, device2, x) = BlockOf(ino, device, x)
    <3>1. x \in Files \X AllNodes /\ x[2][2] # 0 /\ Above(x) \in S
      BY <2>3, <2>4 DEF Closed
    <3>2. Above(x)[2][2] = d
      BY <2>4, AboveIs
    <3>3. BlockOf(ino2, device2, Above(x)) = BlockOf(ino, device, Above(x))
      BY <2>2, <3>1, <3>2
    <3>4. BlockOf(ino, device, x) = device[BlockOf(ino, device, Above(x))][Slot(x[2][3])]
      BY <3>1, BlockIs
    <3>5. BlockOf(ino2, device2, x) = device2[BlockOf(ino2, device2, Above(x))][Slot(x[2][3])]
      BY <3>1, BlockIs
    <3>6. QED BY <3>1, <3>3, <3>4, <3>5
  <2>5. QED BY <2>3, <2>4
<1>3. \A d \in 0 .. 3 : d \in done
  <2> HIDE DEF done
  <2>1. 0 \in Nat /\ 3 \in Nat
    OBVIOUS
  <2>2. QED BY <1>1, <1>2, <2>1, Upwards
<1>4. TAKE x \in S
<1>5. x[2][2] \in 0 .. 3
  <2>1. x \in Files \X AllNodes
    BY DEF Closed
  <2>2. x[2][1] \in 0 .. 3 /\ x[2][2] \in 0 .. x[2][1]
    BY <2>1, NodeIs
  <2>3. QED BY <2>2
<1>6. QED BY <1>3, <1>5

\* What data_block_alloc takes off the list.
LEMMA Taken ==
  ASSUME NEW list \in Seq(Blocks), list # << >>
  PROVE  /\ Front(list) \in Seq(Blocks) /\ Len(Front(list)) = Len(list) - 1
         /\ Len(list) \in Nat \ {0}
         /\ Last(list) \in Blocks
         /\ ToSet(list) = ToSet(Front(list)) \cup {Last(list)}
         /\ IsInjective(list) => IsInjective(Front(list)) /\ Last(list) \notin ToSet(Front(list))
<1> DEFINE n == Len(list)
           g == Front(list)
<1>1. n \in Nat \ {0} /\ DOMAIN list = 1 .. n /\ \A i \in 1 .. n : list[i] \in Blocks
  BY LenProperties, EmptySeq, ElementOfSeq
<1>2. g = SubSeq(list, 1, n - 1) /\ Last(list) = list[n]
  BY DEF Front, Last
<1>3. g \in Seq(Blocks) /\ Len(g) = n - 1 /\ \A i \in 1 .. n - 1 : g[i] = list[i]
  BY <1>1, <1>2, SubSeqProperties
<1> HIDE DEF g
<1>4. DOMAIN g = 1 .. n - 1
  BY <1>1, <1>3, LenProperties
<1>5. ToSet(list) = {list[i] : i \in 1 .. n} /\ ToSet(g) = {g[i] : i \in 1 .. n - 1}
  BY <1>1, <1>4 DEF ToSet
<1> HIDE DEF n
<1>6. \A i \in 1 .. n : i = n \/ i \in 1 .. n - 1
  BY <1>1
<1>7. n \in 1 .. n /\ \A i \in 1 .. n - 1 : i \in 1 .. n /\ i # n
  BY <1>1
<1>8. ToSet(list) = ToSet(g) \cup {list[n]}
  BY <1>3, <1>5, <1>6, <1>7
<1>9. ASSUME IsInjective(list)
      PROVE  IsInjective(g) /\ list[n] \notin ToSet(g)
  <2>1. \A i, j \in 1 .. n : list[i] = list[j] => i = j
    BY <1>1, <1>9 DEF IsInjective, n
  <2>2. QED BY <1>3, <1>4, <1>5, <1>7, <2>1 DEF IsInjective
<1>10. QED BY <1>1, <1>2, <1>3, <1>8, <1>9 DEF g, n

\* One more node, at the block that data_block_alloc hands out.
LEMMA Extended ==
  ASSUME NEW S, NEW ino, NEW device, NEW list, Apart(S, ino, device, list), list # << >>,
         NEW x, NEW ino2, NEW device2,
         Still(S, ino, device, ino2, device2),
         BlockOf(ino2, device2, x) = Last(list)
  PROVE  /\ Apart(S \cup {x}, ino2, device2, Front(list))
         /\ Whole(S \cup {x}, ino2, device2, Front(list)) = Whole(S, ino, device, list)
<1> DEFINE B(y) == BlockOf(ino, device, y)
           C(y) == BlockOf(ino2, device2, y)
<1>1. /\ list \in Seq(Blocks) /\ IsInjective(list)
      /\ \A y \in S : B(y) \in Blocks \ ToSet(list)
      /\ \A y, z \in S : B(y) = B(z) => y = z
  BY DEF Apart
<1>2. /\ Front(list) \in Seq(Blocks) /\ IsInjective(Front(list))
      /\ Last(list) \in Blocks /\ Last(list) \notin ToSet(Front(list))
      /\ ToSet(list) = ToSet(Front(list)) \cup {Last(list)}
  BY <1>1, Taken
<1>3. (\A y \in S : C(y) = B(y)) /\ C(x) = Last(list)
  BY DEF Still
<1> HIDE DEF B, C
<1>4. \A y \in S \cup {x} : C(y) \in Blocks \ ToSet(Front(list))
  BY <1>1, <1>2, <1>3
<1>5. \A y, z \in S \cup {x} : C(y) = C(z) => y = z
  BY <1>1, <1>2, <1>3
<1>6. Apart(S \cup {x}, ino2, device2, Front(list))
  BY <1>2, <1>4, <1>5 DEF Apart, C
<1>7. {C(y) : y \in S \cup {x}} = {B(y) : y \in S} \cup {Last(list)}
  BY <1>3
<1>8. QED BY <1>2, <1>6, <1>7 DEF Whole, Held, B, C

\* A number goes into an entry of the index block above, that no other node
\* uses: all nodes stay where they are.
LEMMA Attached ==
  ASSUME NEW S, Closed(S), NEW ino, NEW device \in Devices, NEW list,
         Apart(S, ino, device, list), NEW b \in Blocks,
         NEW x \in Files \X AllNodes, x \notin S, x[2][2] # 0, Above(x) \in S,
         NEW parent, parent = BlockOf(ino, device, Above(x))
  PROVE  LET device2 == Entered(device, parent, Slot(x[2][3]), b)
         IN  /\ device2 \in Devices
             /\ Closed(S \cup {x})
             /\ Still(S, ino, device, ino, device2)
             /\ BlockOf(ino, device2, x) = b
<1> DEFINE s == Slot(x[2][3])
           device2 == Entered(device, parent, s, b)
<1>1. \A y \in S : /\ y \in Files \X AllNodes /\ BlockOf(ino, device, y) \in Blocks
                   /\ (y[2][2] # 0 => Above(y) \in S)
  BY DEF Closed, Apart
<1>2. PerIndex \in Nat \ {0} /\ x[2][3] \in Nat
  BY WidthIs, NodeIs
<1>3. \A y \in Files \X AllNodes : Slot(y[2][3]) \in 0 .. PerIndex - 1
  <2>1. TAKE y \in Files \X AllNodes
  <2>2. y[2][3] \in Nat
    BY NodeIs
  <2>3. QED BY <1>2, <2>2, Division DEF Slot
<1>4. parent \in Blocks /\ s \in 0 .. PerIndex - 1
  BY <1>1, <1>3
<1> HIDE DEF s
<1>5. device2 \in Devices
  BY <1>4 DEF Devices, Entered
<1>6. /\ device2[parent][s] = b
      /\ \A c \in Blocks : \A i \in 0 .. PerIndex - 1 :
            c # parent \/ i # s => device2[c][i] = device[c][i]
  BY <1>4 DEF Devices, Entered
<1> HIDE DEF device2
<1>7. ASSUME NEW y \in S, y[2][2] # 0
      PROVE  device2[BlockOf(ino, device, Above(y))][Slot(y[2][3])]
               = device[BlockOf(ino, device, Above(y))][Slot(y[2][3])]
  <2>1. y \in Files \X AllNodes /\ Above(y) \in S /\ BlockOf(ino, device, Above(y)) \in Blocks
    BY <1>1, <1>7
  <2>2. Slot(y[2][3]) \in 0 .. PerIndex - 1
    BY <1>3, <2>1
  <2>3. SUFFICES ASSUME BlockOf(ino, device, Above(y)) = parent, Slot(y[2][3]) = s PROVE FALSE
    BY <1>6, <2>1, <2>2
  <2>4. Above(y) = Above(x)
    BY <2>1, <2>3 DEF Apart
  <2>5. /\ y[1] = x[1] /\ y[2][1] = x[2][1] /\ y[2][2] - 1 = x[2][2] - 1
        /\ y[2][3] \div PerIndex = x[2][3] \div PerIndex
    BY <2>4, AboveIs
  <2>6. /\ y = <<y[1], y[2]>> /\ y[2] = <<y[2][1], y[2][2], y[2][3]>>
        /\ y[2][3] \in Nat /\ y[2][2] \in Int
    <3>1. /\ y = <<y[1], y[2]>> /\ y[2] = <<y[2][1], y[2][2], y[2][3]>>
          /\ y[2][3] \in Nat /\ y[2][2] \in 0 .. y[2][1]
      BY <2>1, NodeIs
    <3>2. QED BY <3>1
  <2>7. /\ x = <<x[1], x[2]>> /\ x[2] = <<x[2][1], x[2][2], x[2][3]>>
        /\ x[2][3] \in Nat /\ x[2][2] \in Int
    <3>1. /\ x = <<x[1], x[2]>> /\ x[2] = <<x[2][1], x[2][2], x[2][3]>>
          /\ x[2][3] \in Nat /\ x[2][2] \in 0 .. x[2][1]
      BY NodeIs
    <3>2. QED BY <3>1
  <2>8. y[2][3] = x[2][3]
    <3> DEFINE m == y[2][3]
               n == x[2][3]
    <3>1. m \div PerIndex = n \div PerIndex /\ m % PerIndex = n % PerIndex /\ m \in Nat /\ n \in Nat
      BY <2>3, <2>5, <2>6, <2>7 DEF Slot, s
    <3> HIDE DEF m, n
    <3>2. /\ m = PerIndex * (m \div PerIndex) + (m % PerIndex)
          /\ n = PerIndex * (n \div PerIndex) + (n % PerIndex)
      BY <1>2, <3>1, Division
    <3>3. m = n
      BY <3>1, <3>2
    <3>4. QED BY <3>3 DEF m, n
  <2>9. y[2][2] = x[2][2]
    BY <2>5, <2>6, <2>7
  <2>10. y = x
    BY <2>5, <2>6, <2>7, <2>8, <2>9
  <2>11. QED BY <2>10
<1>8. \A y \in S : y[2][2] = 0 => BlockOf(ino, device2, y) = BlockOf(ino, device, y)
  <2>1. TAKE y \in S
  <2>2. HAVE y[2][2] = 0
  <2>3. y \in Files \X AllNodes
    BY <1>1
  <2>4. CASE y[2][1] = 0
    BY <2>3, <2>4, BlockIs
  <2>5. CASE y[2][1] # 0
    BY <2>2, <2>3, <2>5, BlockIs, ZenonT(60)
  <2>6. QED BY <2>4, <2>5
<1>9. \A y \in S : BlockOf(ino, device2, y) = BlockOf(ino, device, y)
  BY <1>7, <1>8, Unmoved
<1>10. BlockOf(ino, device2, x) = b
  <2>1. BlockOf(ino, device2, x) = device2[BlockOf(ino, device2, Above(x))][Slot(x[2][3])]
    BY BlockIs
  <2>2. QED BY <1>6, <1>9, <2>1 DEF s
<1>11. Closed(S \cup {x})
  BY DEF Closed
<1>12. Still(S, ino, device, ino, device2)
  BY <1>9 DEF Still
<1>13. QED BY <1>5, <1>10, <1>11, <1>12 DEF device2, s

\* A block that is no longer, or not yet, an index block: what is written to
\* a leaf moves no node.
LEMMA Scribbled ==
  ASSUME NEW S, Closed(S), NEW ino, NEW device \in Devices, NEW list,
         Apart(S, ino, device, list), NEW x \in S, x[2][2] = x[2][1], NEW bytes
  PROVE  Still(S, ino, device, ino, [device EXCEPT ![BlockOf(ino, device, x)] = bytes])
<1> DEFINE b == BlockOf(ino, device, x)
           device2 == [device EXCEPT ![b] = bytes]
<1>1. \A y \in S : y \in Files \X AllNodes /\ (y[2][2] # 0 => Above(y) \in S)
  BY DEF Closed
<1>2. \A c \in Blocks : c # b => device2[c] = device[c]
  BY DEF Devices
<1> HIDE DEF device2
<1>3. ASSUME NEW y \in S, y[2][2] # 0
      PROVE  device2[BlockOf(ino, device, Above(y))][Slot(y[2][3])]
               = device[BlockOf(ino, device, Above(y))][Slot(y[2][3])]
  <2>1. Above(y) \in S /\ BlockOf(ino, device, Above(y)) \in Blocks
    BY <1>1, <1>3 DEF Apart
  <2>2. Above(y) # x
    <3>1. y[2][2] \in 0 .. y[2][1] /\ y[2][1] \in 0 .. 3
      BY <1>1, NodeIs
    <3>2. Above(y)[2][1] = y[2][1] /\ Above(y)[2][2] = y[2][2] - 1
      BY AboveIs
    <3>3. Above(y) = x => y[2][2] - 1 = y[2][1]
      BY <3>2
    <3>4. QED BY <3>1, <3>3
  <2>3. BlockOf(ino, device, Above(y)) # b
    BY <2>1, <2>2 DEF Apart
  <2>4. QED BY <1>2, <2>1, <2>3
<1>4. \A y \in S : y[2][2] = 0 => BlockOf(ino, device2, y) = BlockOf(ino, device, y)
  <2>1. TAKE y \in S
  <2>2. HAVE y[2][2] = 0
  <2>3. y \in Files \X AllNodes
    BY <1>1
  <2>4. CASE y[2][1] = 0
    BY <2>3, <2>4, BlockIs
  <2>5. CASE y[2][1] # 0
    BY <2>2, <2>3, <2>5, BlockIs
  <2>6. QED BY <2>4, <2>5
<1>5. \A y \in S : BlockOf(ino, device2, y) = BlockOf(ino, device, y)
  BY <1>3, <1>4, Unmoved
<1>6. QED BY <1>5 DEF device2, Still

\* Fewer nodes, at the same places.
LEMMA ApartLess ==
  ASSUME NEW S, NEW ino, NEW device, NEW list, Apart(S, ino, device, list),
         NEW R \in SUBSET S, NEW ino2, NEW device2, Still(R, ino, device, ino2, device2)
  PROVE  Apart(R, ino2, device2, list)
BY DEF Apart, Still

-----------------------------------------------------------------------------
(* add: from the store of one depth to that of the next.                   *)

Inodes == [Files -> [size : 0 .. MaxSize, direct : [0 .. Direct - 1 -> Blocks \cup {NoBlock}],
                     root : [Levels -> Blocks \cup {NoBlock}]]]

Shape == inode \in Inodes /\ index \in Devices /\ pool \in Seq(Blocks)

StoreOK(s) ==
    /\ s = [ok |-> s.ok, block |-> s.block, root |-> s.root, index |-> s.index,
            pool |-> s.pool, used |-> s.used]
    /\ s.ok \in BOOLEAN /\ s.root \in Blocks \cup {NoBlock}
    /\ s.index \in Devices /\ s.pool \in Seq(Blocks)

\* A turn of add: the root, the store in which the parent is found, and the
\* new number in the parent.
Planted(f, level) ==
    LET s == Take(Store(f, level)) IN IF s.ok THEN [s EXCEPT !.root = s.block] ELSE s

Parent(f, level, n, d, before) ==
    IF Slot(n) = 0 THEN before
    ELSE [Store(f, level) EXCEPT !.block =
             Locate(index, inode[f].root[level], d - 1, (n - 1) \div PerIndex)]

Grafted(parent, n) ==
    LET child == Take(parent)
    IN  IF ~parent.ok THEN parent
        ELSE IF ~child.ok THEN child
        ELSE [child EXCEPT !.index[parent.block][Slot(n)] = child.block]

LEMMA GrowingRuns ==
  ASSUME NEW f, NEW level \in 1 .. 3, NEW size
  PROVE  /\ Growing(f, level, size)[0] = Planted(f, level)
         /\ \A d \in 1 .. level :
               LET n == size \div Width(level - d)
               IN  Growing(f, level, size)[d]
                     = Grafted(Parent(f, level, n, d, Growing(f, level, size)[d - 1]), n)
<1> DEFINE Number(d) == size \div Width(level - d)
           Turn(g, d) == IF d = 0 THEN Planted(f, level)
                         ELSE Grafted(Parent(f, level, Number(d), d, g[d - 1]), Number(d))
           Runs(g) == g = [d \in 0 .. level |-> Turn(g, d)]
           Next1(s, d) == Grafted(Parent(f, level, Number(d), d, s), Number(d))
           s0 == Planted(f, level)
           s1 == Next1(s0, 1)
           s2 == Next1(s1, 2)
           s3 == Next1(s2, 3)
           g == [d \in 0 .. level |-> IF d = 0 THEN s0 ELSE IF d = 1 THEN s1
                                      ELSE IF d = 2 THEN s2 ELSE s3]
<1>1. \A d \in 0 .. level : d = 0 \/ d = 1 \/ d = 2 \/ d = 3
  OBVIOUS
<1>2. ASSUME NEW d \in 0 .. level PROVE g[d] = Turn(g, d)
  <2>1. d # 0 => Turn(g, d) = Next1(g[d - 1], d)
    <3> HIDE DEF g
    <3>1. QED OBVIOUS
  <2>2. d # 0 => d - 1 \in 0 .. level
    OBVIOUS
  <2>3. CASE d = 0
    <3>1. g[d] = s0
      <4> HIDE DEF s0, s1, s2, s3
      <4>1. QED BY <2>3
    <3> HIDE DEF g
    <3>2. QED BY <2>3, <3>1
  <2>4. CASE d = 1
    <3>1. g[d - 1] = s0 /\ g[d] = s1
      <4> HIDE DEF s0, s1, s2, s3
      <4>1. QED BY <2>2, <2>4
    <3> HIDE DEF g, Turn
    <3>2. QED BY <2>1, <2>4, <3>1
  <2>5. CASE d = 2
    <3>1. g[d - 1] = s1 /\ g[d] = s2
      <4> HIDE DEF s0, s1, s2, s3
      <4>1. QED BY <2>2, <2>5
    <3> HIDE DEF g, Turn
    <3>2. QED BY <2>1, <2>5, <3>1
  <2>6. CASE d = 3
    <3>1. g[d - 1] = s2 /\ g[d] = s3
      <4> HIDE DEF s0, s1, s2, s3
      <4>1. QED BY <2>2, <2>6
    <3> HIDE DEF g, Turn
    <3>2. QED BY <2>1, <2>6, <3>1
  <2>7. QED BY <1>1, <2>3, <2>4, <2>5, <2>6
<1>3. Runs(g)
  <2>1. DOMAIN g = 0 .. level /\ g = [d \in 0 .. level |-> g[d]]
    OBVIOUS
  <2> HIDE DEF g, Turn
  <2>2. QED BY <1>2, <2>1
<1>4. \E h : Runs(h)
  <2> HIDE DEF Runs, g
  <2>1. QED BY <1>3
<1>5. Growing(f, level, size) = CHOOSE h : Runs(h)
  BY ZenonT(60) DEF Growing, Planted, Grafted, Parent
<1>6. Runs(Growing(f, level, size))
  <2> HIDE DEF Runs
  <2>1. QED BY <1>4, <1>5
<1>7. \A d \in 0 .. level :
         Growing(f, level, size)[d] = Turn(Growing(f, level, size), d)
  <2> HIDE DEF Turn
  <2>1. QED BY <1>6
<1>8. 0 \in 0 .. level /\ \A d \in 1 .. level : d \in 0 .. level /\ d # 0
  OBVIOUS
<1>9. QED BY <1>7, <1>8

LEMMA StoreIs ==
  ASSUME Shape, NEW f \in Files, NEW level \in Levels, NEW b
  PROVE  LET s == Store(f, level)
             t == [s EXCEPT !.block = b]
         IN  /\ StoreOK(s)
             /\ s.ok /\ s.root = inode[f].root[level] /\ s.index = index
             /\ s.pool = pool /\ s.used = used
             /\ StoreOK(t)
             /\ t.ok /\ t.root = inode[f].root[level] /\ t.index = index
             /\ t.pool = pool /\ t.used = used /\ t.block = b
<1>1. inode[f].root[level] \in Blocks \cup {NoBlock}
  BY DEF Shape, Inodes
<1>2. index \in Devices /\ pool \in Seq(Blocks)
  BY DEF Shape
<1> DEFINE s == Store(f, level)
           t == [s EXCEPT !.block = b]
<1>3. s = [ok |-> TRUE, block |-> NoBlock, root |-> inode[f].root[level],
           index |-> index, pool |-> pool, used |-> used]
  BY DEF Store
<1>4. t = [ok |-> TRUE, block |-> b, root |-> inode[f].root[level],
           index |-> index, pool |-> pool, used |-> used]
  <2>1. t = [s EXCEPT !.block = b]
    OBVIOUS
  <2> HIDE DEF s, t
  <2>2. QED BY <1>3, <2>1
<1> HIDE DEF s, t
<1>5. /\ StoreOK(s)
      /\ s.ok /\ s.root = inode[f].root[level] /\ s.index = index
      /\ s.pool = pool /\ s.used = used
  BY <1>1, <1>2, <1>3 DEF StoreOK
<1>6. /\ StoreOK(t)
      /\ t.ok /\ t.root = inode[f].root[level] /\ t.index = index
      /\ t.pool = pool /\ t.used = used /\ t.block = b
  BY <1>1, <1>2, <1>4 DEF StoreOK
<1>7. QED BY <1>5, <1>6 DEF s, t

LEMMA TakeIs ==
  ASSUME NEW s, StoreOK(s)
  PROVE  /\ StoreOK(Take(s)) /\ Take(s).root = s.root /\ Take(s).index = s.index
         /\ s.pool = << >> => ~Take(s).ok /\ Take(s).pool = s.pool /\ Take(s).used = s.used
         /\ s.pool # << >> =>
              /\ Take(s).ok = s.ok /\ Take(s).block = Last(s.pool) /\ Last(s.pool) \in Blocks
              /\ Take(s).pool = Front(s.pool) /\ Take(s).used = s.used + 1
<1>1. s.pool \in Seq(Blocks)
  BY DEF StoreOK
<1>2. s.pool # << >> => Last(s.pool) \in Blocks /\ Front(s.pool) \in Seq(Blocks)
  BY <1>1, Taken
<1>3. s = [ok |-> s.ok, block |-> s.block, root |-> s.root, index |-> s.index,
           pool |-> s.pool, used |-> s.used]
  BY DEF StoreOK
<1>4. CASE s.pool = << >>
  <2>1. Take(s) = [ok |-> FALSE, block |-> s.block, root |-> s.root, index |-> s.index,
                   pool |-> s.pool, used |-> s.used]
    BY <1>3, <1>4 DEF Take
  <2>2. QED BY <1>4, <2>1 DEF StoreOK
<1>5. CASE s.pool # << >>
  <2>1. Take(s) = [ok |-> s.ok, block |-> Last(s.pool), root |-> s.root, index |-> s.index,
                   pool |-> Front(s.pool), used |-> s.used + 1]
    BY <1>3, <1>5 DEF Take
  <2>2. QED BY <1>2, <1>5, <2>1 DEF StoreOK
<1>6. QED BY <1>4, <1>5

LEMMA PlantedIs ==
  ASSUME Shape, NEW f \in Files, NEW level \in Levels
  PROVE  LET s == Planted(f, level)
         IN  /\ StoreOK(s) /\ s.index = index
             /\ pool = << >> => /\ ~s.ok /\ s.root = inode[f].root[level]
                                /\ s.pool = pool /\ s.used = used
             /\ pool # << >> => /\ s.ok /\ s.root = Last(pool) /\ s.block = Last(pool)
                                /\ s.root \in Blocks
                                /\ s.pool = Front(pool) /\ s.used = used + 1
<1> DEFINE t == Store(f, level)
           u == Take(t)
           s == Planted(f, level)
<1>1. /\ StoreOK(t) /\ t.ok /\ t.root = inode[f].root[level] /\ t.index = index
      /\ t.pool = pool /\ t.used = used
  BY StoreIs
<1> HIDE DEF t
<1>2. /\ StoreOK(u) /\ u.root = t.root /\ u.index = t.index
      /\ t.pool = << >> => ~u.ok /\ u.pool = t.pool /\ u.used = t.used
      /\ t.pool # << >> =>
           /\ u.ok = t.ok /\ u.block = Last(t.pool) /\ Last(t.pool) \in Blocks
           /\ u.pool = Front(t.pool) /\ u.used = t.used + 1
  BY <1>1, TakeIs
<1>3. s = IF u.ok THEN [u EXCEPT !.root = u.block] ELSE u
  BY DEF Planted, t
<1> HIDE DEF u, s
<1>4. CASE pool = << >>
  BY <1>1, <1>2, <1>3, <1>4 DEF s
<1>5. CASE pool # << >>
  <2>1. s = [u EXCEPT !.root = u.block]
    BY <1>1, <1>2, <1>3, <1>5
  <2>2. s = [ok |-> u.ok, block |-> u.block, root |-> u.block, index |-> u.index,
             pool |-> u.pool, used |-> u.used]
    BY <1>2, <2>1 DEF StoreOK
  <2>3. StoreOK(s)
    <3>1. u.block \in Blocks
      BY <1>1, <1>2, <1>5
    <3>2. QED BY <1>2, <2>2, <3>1 DEF StoreOK
  <2>4. /\ s.index = index /\ s.ok /\ s.root = Last(pool) /\ s.block = Last(pool)
        /\ s.root \in Blocks /\ s.pool = Front(pool) /\ s.used = used + 1
    BY <1>1, <1>2, <1>5, <2>2
  <2>5. QED BY <1>5, <2>3, <2>4 DEF s
<1>6. QED BY <1>4, <1>5

LEMMA GraftedIs ==
  ASSUME NEW p, StoreOK(p), NEW n \in Nat
  PROVE  LET s == Grafted(p, n)
         IN  /\ StoreOK(s) /\ s.root = p.root
             /\ ~p.ok => s = p
             /\ p.ok /\ p.pool = << >> => /\ ~s.ok /\ s.index = p.index
                                          /\ s.pool = p.pool /\ s.used = p.used
             /\ p.ok /\ p.pool # << >> =>
                  /\ s.ok /\ s.block = Last(p.pool) /\ s.block \in Blocks
                  /\ s.index = Entered(p.index, p.block, Slot(n), Last(p.pool))
                  /\ s.pool = Front(p.pool) /\ s.used = p.used + 1
<1> DEFINE u == Take(p)
           s == Grafted(p, n)
<1>1. /\ StoreOK(u) /\ u.root = p.root /\ u.index = p.index
      /\ p.pool = << >> => ~u.ok /\ u.pool = p.pool /\ u.used = p.used
      /\ p.pool # << >> =>
           /\ u.ok = p.ok /\ u.block = Last(p.pool) /\ Last(p.pool) \in Blocks
           /\ u.pool = Front(p.pool) /\ u.used = p.used + 1
  BY TakeIs
<1>2. s = IF ~p.ok THEN p ELSE IF ~u.ok THEN u
          ELSE [u EXCEPT !.index[p.block][Slot(n)] = u.block]
  BY DEF Grafted
<1> HIDE DEF u, s
<1>3. CASE ~p.ok
  BY <1>2, <1>3 DEF s
<1>4. CASE p.ok /\ p.pool = << >>
  BY <1>1, <1>2, <1>4 DEF s
<1>5. CASE p.ok /\ p.pool # << >>
  <2> DEFINE device2 == [u.index EXCEPT ![p.block][Slot(n)] = u.block]
  <2>1. s = [u EXCEPT !.index = device2]
    <3>1. s = [u EXCEPT !.index[p.block][Slot(n)] = u.block]
      BY <1>1, <1>2, <1>5
    <3>2. QED BY <3>1
  <2>2. device2 \in Devices
    <3>1. u.index \in Devices /\ u.block \in Blocks
      BY <1>1, <1>5 DEF StoreOK
    <3>2. QED BY <3>1 DEF Devices
  <2>3. device2 = Entered(p.index, p.block, Slot(n), Last(p.pool))
    BY <1>1, <1>5 DEF Entered
  <2> HIDE DEF device2
  <2>4. s = [ok |-> u.ok, block |-> u.block, root |-> u.root, index |-> device2,
             pool |-> u.pool, used |-> u.used]
    BY <1>1, <2>1 DEF StoreOK
  <2>5. StoreOK(s)
    BY <1>1, <2>2, <2>4 DEF StoreOK
  <2>6. /\ s.root = p.root /\ s.ok /\ s.block = Last(p.pool) /\ s.block \in Blocks
        /\ s.index = device2 /\ s.pool = Front(p.pool) /\ s.used = p.used + 1
    BY <1>1, <1>5, <2>4
  <2>7. QED BY <1>5, <2>3, <2>5, <2>6 DEF s
<1>6. QED BY <1>3, <1>4, <1>5 DEF StoreOK

\* What add returns is well typed in all histories, and a tree with leaves
\* has a root.
LEMMA AddLeafTyped ==
  ASSUME Shape, NEW f \in Files, NEW level \in 1 .. 3, NEW size \in Nat
  PROVE  LET s == AddLeaf(f, level, size)
         IN  /\ StoreOK(s) /\ (s.ok => s.block \in Blocks)
             /\ (s.root = inode[f].root[level] \/ s.root \in Blocks)
             /\ s.ok /\ size = 0 => s.root \in Blocks
<1> DEFINE g == Growing(f, level, size)
           Fine(s) == /\ StoreOK(s) /\ (s.ok => s.block \in Blocks)
                      /\ (s.root = inode[f].root[level] \/ s.root \in Blocks)
                      /\ s.ok /\ size = 0 => s.root \in Blocks
           done == {d \in 0 .. level : Fine(g[d])}
<1>1. level \in Levels
  BY DEF Levels
<1>2. 0 \in done
  <2>1. g[0] = Planted(f, level)
    BY GrowingRuns
  <2> DEFINE s == Planted(f, level)
  <2>2. /\ StoreOK(s) /\ s.index = index
        /\ pool = << >> => /\ ~s.ok /\ s.root = inode[f].root[level]
        /\ pool # << >> => /\ s.ok /\ s.root = Last(pool) /\ s.block = Last(pool)
                           /\ s.root \in Blocks
    BY <1>1, PlantedIs
  <2> HIDE DEF s
  <2>3. Fine(s)
    BY <2>2
  <2> HIDE DEF Fine, g
  <2>4. QED BY <2>1, <2>3 DEF s
<1>3. \A d \in 0 .. level - 1 : d \in done => d + 1 \in done
  <2>1. TAKE d \in 0 .. level - 1
  <2>2. HAVE d \in done
  <2> DEFINE n == size \div Width(level - (d + 1))
             p == Parent(f, level, n, d + 1, g[d])
             s == Grafted(p, n)
  <2>3. d + 1 \in 1 .. level /\ (d + 1) - 1 = d /\ d + 1 \in 0 .. level
        /\ level - (d + 1) \in 0 .. 3
    OBVIOUS
  <2>4. g[d + 1] = s
    BY <2>3, GrowingRuns
  <2>5. n \in Nat /\ (size = 0 => n = 0)
    <3> DEFINE w == Width(level - (d + 1))
    <3>1. w \in Nat \ {0}
      BY <2>3, WidthIs
    <3> HIDE DEF w
    <3>2. size \div w \in Nat /\ (size = 0 => size \div w = 0)
      BY <3>1, Division
    <3>3. QED BY <3>2 DEF w
  <2>6. size = 0 => Slot(n) = 0
    <3>1. PerIndex \in Nat \ {0}
      BY WidthIs
    <3> HIDE DEF n
    <3>2. QED BY <2>5, <3>1 DEF Slot
  <2>7. /\ StoreOK(p)
        /\ (p.root = inode[f].root[level] \/ p.root \in Blocks)
        /\ p.ok /\ size = 0 => p.root \in Blocks
        /\ Slot(n) = 0 => p = g[d]
    <3>1. CASE Slot(n) = 0
      <4>1. p = g[d]
        BY <3>1 DEF Parent
      <4>2. Fine(g[d])
        BY <2>2
      <4> HIDE DEF p, g
      <4>3. QED BY <4>1, <4>2
    <3>2. CASE Slot(n) # 0
      <4> DEFINE b == Locate(index, inode[f].root[level], (d + 1) - 1, (n - 1) \div PerIndex)
      <4>1. p = [Store(f, level) EXCEPT !.block = b]
        BY <3>2 DEF Parent
      <4> HIDE DEF p, b, n
      <4>2. StoreOK(p) /\ p.root = inode[f].root[level]
        BY <1>1, <4>1, StoreIs
      <4>3. QED BY <2>6, <3>2, <4>2
    <3>3. QED BY <3>1, <3>2
  <2>8. /\ StoreOK(s) /\ s.root = p.root
        /\ ~p.ok => s = p
        /\ p.ok /\ p.pool = << >> => ~s.ok
        /\ p.ok /\ p.pool # << >> => s.ok /\ s.block \in Blocks
    <3> HIDE DEF p, n
    <3>1. QED BY <2>5, <2>7, GraftedIs
  <2>9. Fine(s)
    <3> HIDE DEF s, p, n, g
    <3>1. StoreOK(s) /\ (s.ok => s.block \in Blocks)
      BY <2>8
    <3>2. s.root = inode[f].root[level] \/ s.root \in Blocks
      BY <2>7, <2>8
    <3>3. s.ok /\ size = 0 => s.root \in Blocks
      BY <2>7, <2>8
    <3>4. QED BY <3>1, <3>2, <3>3
  <2> HIDE DEF Fine, g, s
  <2>10. QED BY <2>3, <2>4, <2>9
<1>4. \A d \in 0 .. level : d \in done
  <2> HIDE DEF done
  <2>1. 0 \in Nat /\ level \in Nat
    OBVIOUS
  <2>2. QED BY <1>2, <1>3, <2>1, Upwards
<1>5. Fine(g[level])
  BY <1>4
<1>6. QED BY <1>5 DEF AddLeaf

-----------------------------------------------------------------------------
(* add: the tree that grows.                                               *)

WithRoot(f, level, root) == [inode EXCEPT ![f].root[level] = root]

\* The nodes on the way to block k of f, down to depth d.
Way(f, k, d) == {<<f, At(k, j)>> : j \in 0 .. d}

\* A store in which the nodes S are where they were, and no block was lost
\* or counted wrong.
Kept(S, f, k, s) ==
    /\ StoreOK(s)
    /\ Still(S, inode, index, WithRoot(f, LevelOf(k), s.root), s.index)
    /\ Apart(S, WithRoot(f, LevelOf(k), s.root), s.index, s.pool)
    /\ ToSet(s.pool) \subseteq ToSet(pool)
    /\ s.used \in Int /\ s.used + Len(s.pool) = used + Len(pool)

\* A store in which the way to block k is there down to depth d.
Reaches(S, f, k, d, s) ==
    /\ s.ok
    /\ Closed(S \cup Way(f, k, d))
    /\ Apart(S \cup Way(f, k, d), WithRoot(f, LevelOf(k), s.root), s.index, s.pool)
    /\ Whole(S \cup Way(f, k, d), WithRoot(f, LevelOf(k), s.root), s.index, s.pool)
         = Whole(S, inode, index, pool)
    /\ s.block = BlockOf(WithRoot(f, LevelOf(k), s.root), s.index, <<f, At(k, d)>>)

\* What the lemmas on add start from: S are the nodes in use.
Growable(S, f, k) ==
    /\ Shape /\ used \in Int /\ f \in Files
    /\ k \in Nat /\ k < Base(4) /\ LevelOf(k) # 0
    /\ Closed(S) /\ Apart(S, inode, index, pool)
    /\ \A d \in 0 .. LevelOf(k) :
          <<f, At(k, d)>> \in S <=> (k - Base(LevelOf(k))) % Width(LevelOf(k) - d) # 0

LEMMA WithRootIs ==
  ASSUME Shape, NEW f \in Files, NEW level \in Levels, NEW root
  PROVE  /\ \A g \in Files : /\ WithRoot(f, level, root)[g].direct = inode[g].direct
                             /\ WithRoot(f, level, root)[g].size = inode[g].size
         /\ \A g \in Files : \A l \in Levels :
               WithRoot(f, level, root)[g].root[l]
                 = IF g = f /\ l = level THEN root ELSE inode[g].root[l]
         /\ WithRoot(f, level, inode[f].root[level]) = inode
<1> DEFINE ino == WithRoot(f, level, root)
<1>1. /\ inode = [g \in Files |-> inode[g]]
      /\ \A g \in Files : /\ inode[g] = [size |-> inode[g].size, direct |-> inode[g].direct,
                                         root |-> inode[g].root]
                          /\ inode[g].root = [l \in Levels |-> inode[g].root[l]]
  BY DEF Shape, Inodes
<1>2. \A g \in Files :
         ino[g] = IF g = f THEN [inode[f] EXCEPT !.root = [inode[f].root EXCEPT ![level] = root]]
                  ELSE inode[g]
  BY <1>1 DEF WithRoot
<1>3. ASSUME NEW g \in Files
      PROVE  /\ ino[g].direct = inode[g].direct /\ ino[g].size = inode[g].size
             /\ \A l \in Levels : ino[g].root[l] = IF g = f /\ l = level THEN root ELSE inode[g].root[l]
  <2> HIDE DEF ino
  <2>1. CASE g = f
    <3>1. ino[g] = [size |-> inode[f].size, direct |-> inode[f].direct,
                    root |-> [inode[f].root EXCEPT ![level] = root]]
      BY <1>1, <1>2, <2>1
    <3>2. \A l \in Levels : [inode[f].root EXCEPT ![level] = root][l]
                              = IF l = level THEN root ELSE inode[f].root[l]
      BY <1>1
    <3>3. QED BY <2>1, <3>1, <3>2
  <2>2. CASE g # f
    BY <1>2, <2>2
  <2>3. QED BY <2>1, <2>2
<1>4. WithRoot(f, level, inode[f].root[level]) = inode
  <2>1. [inode[f].root EXCEPT ![level] = inode[f].root[level]] = inode[f].root
    BY <1>1
  <2>2. [inode[f] EXCEPT !.root = inode[f].root] = inode[f]
    BY <1>1
  <2>3. WithRoot(f, level, inode[f].root[level])
          = [inode EXCEPT ![f] = [inode[f] EXCEPT !.root =
                [inode[f].root EXCEPT ![level] = inode[f].root[level]]]]
    BY DEF WithRoot
  <2>4. [inode EXCEPT ![f] = inode[f]] = inode
    BY <1>1
  <2>5. QED BY <2>1, <2>2, <2>3, <2>4
<1>5. QED BY <1>3, <1>4

LEMMA WayIs ==
  ASSUME NEW f \in Files, NEW k \in Nat, k < Base(4), NEW d \in 0 .. LevelOf(k)
  PROVE  LET x == <<f, At(k, d)>>
         IN  /\ x \in Files \X AllNodes
             /\ x[1] = f /\ x[2][1] = LevelOf(k) /\ x[2][2] = d
             /\ x[2][3] = (k - Base(LevelOf(k))) \div Width(LevelOf(k) - d)
             /\ d # 0 => Above(x) = <<f, At(k, d - 1)>>
             /\ x \in Way(f, k, d)
             /\ Way(f, k, 0) = {<<f, At(k, 0)>>}
             /\ d # 0 => Way(f, k, d) = Way(f, k, d - 1) \cup {x}
             /\ \A y \in Way(f, k, d) : y \in Files \X AllNodes /\ y[2][2] \in 0 .. d
<1> DEFINE x == <<f, At(k, d)>>
<1>1. /\ At(k, d)[1] = LevelOf(k) /\ At(k, d)[2] = d
      /\ At(k, d)[3] = (k - Base(LevelOf(k))) \div Width(LevelOf(k) - d)
      /\ At(k, d) \in AllNodes
      /\ d # 0 => Up(At(k, d)) = At(k, d - 1)
      /\ LevelOf(k) \in 0 .. 3
  BY AtIs
<1>2. x[1] = f /\ x[2] = At(k, d) /\ x \in Files \X AllNodes
  BY <1>1
<1>3. d # 0 => Above(x) = <<f, At(k, d - 1)>>
  BY <1>1, <1>2 DEF Above
<1>4. x \in Way(f, k, d)
  BY <1>1 DEF Way
<1>5. Way(f, k, 0) = {<<f, At(k, 0)>>}
  BY DEF Way
<1>6. d # 0 => Way(f, k, d) = Way(f, k, d - 1) \cup {x}
  <2>1. HAVE d # 0
  <2>2. 0 .. d = 0 .. d - 1 \cup {d}
    BY <1>1, <2>1
  <2>3. QED BY <2>2 DEF Way
<1>7. ASSUME NEW j \in 0 .. d
      PROVE  <<f, At(k, j)>> \in Files \X AllNodes /\ <<f, At(k, j)>>[2][2] \in 0 .. d
  <2>1. j \in 0 .. LevelOf(k)
    BY <1>1
  <2>2. At(k, j) \in AllNodes /\ At(k, j)[2] = j
    BY <2>1, AtIs
  <2>3. QED BY <2>2
<1>8. QED BY <1>1, <1>2, <1>3, <1>4, <1>5, <1>6, <1>7 DEF Way

\* The root of a level that has no nodes yet.
LEMMA PlantedFits ==
  ASSUME NEW S, NEW f, NEW k, Growable(S, f, k), <<f, At(k, 0)>> \notin S
  PROVE  LET s == Planted(f, LevelOf(k))
         IN  Kept(S, f, k, s) /\ (s.ok => Reaches(S, f, k, 0, s))
<1> DEFINE level == LevelOf(k)
           s == Planted(f, level)
           x == <<f, At(k, 0)>>
           ino == WithRoot(f, level, s.root)
<1>1. /\ Shape /\ used \in Int /\ f \in Files /\ k \in Nat /\ k < Base(4) /\ level # 0
      /\ Closed(S) /\ Apart(S, inode, index, pool)
  BY DEF Growable
<1>2. level \in 1 .. 3 /\ level \in Levels /\ 0 \in 0 .. level
  <2>1. level \in 0 .. 3
    BY <1>1, LevelIs
  <2>2. QED BY <1>1, <2>1 DEF Levels
<1>3. /\ StoreOK(s) /\ s.index = index
      /\ pool = << >> => /\ ~s.ok /\ s.root = inode[f].root[level]
                         /\ s.pool = pool /\ s.used = used
      /\ pool # << >> => /\ s.ok /\ s.root = Last(pool) /\ s.block = Last(pool)
                         /\ s.root \in Blocks
                         /\ s.pool = Front(pool) /\ s.used = used + 1
  BY <1>1, <1>2, PlantedIs
<1>4. /\ x \in Files \X AllNodes /\ x[1] = f /\ x[2][1] = level /\ x[2][2] = 0
      /\ Way(f, k, 0) = {x}
  BY <1>1, <1>2, WayIs
<1>5. pool \in Seq(Blocks)
  BY <1>1 DEF Shape
<1>6. CASE pool = << >>
  <2>1. ino = inode
    BY <1>1, <1>2, <1>3, <1>6, WithRootIs
  <2> HIDE DEF s, ino
  <2>2. Kept(S, f, k, s)
    BY <1>1, <1>3, <1>6, <2>1 DEF Kept, ino, Still
  <2>3. QED BY <1>3, <1>6, <2>2 DEF s
<1>7. CASE pool # << >>
  <2>1. /\ \A g \in Files : ino[g].direct = inode[g].direct
        /\ \A g \in Files : \A l \in Levels :
              ino[g].root[l] = IF g = f /\ l = level THEN s.root ELSE inode[g].root[l]
    BY <1>1, <1>2, WithRootIs
  <2> HIDE DEF s, ino, x
  <2>2. \A y \in S : y[2][2] = 0 => BlockOf(ino, index, y) = BlockOf(inode, index, y)
    <3>1. TAKE y \in S
    <3>2. HAVE y[2][2] = 0
    <3>3. y \in Files \X AllNodes
      BY <1>1 DEF Closed
    <3>4. /\ y[1] \in Files /\ y = <<y[1], y[2]>> /\ y[2] = <<y[2][1], y[2][2], y[2][3]>>
          /\ y[2][1] \in 0 .. 3 /\ (y[2][1] # 0 => y[2][3] = 0)
      BY <3>2, <3>3, NodeIs
    <3>5. /\ x = <<x[1], x[2]>> /\ x[2] = <<x[2][1], x[2][2], x[2][3]>> /\ x[2][3] = 0
      BY <1>1, <1>4, NodeIs
    <3>6. ~(y[1] = f /\ y[2][1] = level)
      <4>1. SUFFICES ASSUME y[1] = f, y[2][1] = level PROVE FALSE
        OBVIOUS
      <4>2. y[2] = x[2]
        BY <1>1, <1>4, <3>2, <3>4, <3>5, <4>1
      <4>3. y = x
        BY <1>4, <3>4, <3>5, <4>1, <4>2
      <4>4. QED BY <4>3 DEF x
    <3>7. CASE y[2][1] = 0
      BY <2>1, <3>3, <3>4, <3>7, BlockIs
    <3>8. CASE y[2][1] # 0
      <4>1. y[2][1] \in Levels
        BY <3>4, <3>8 DEF Levels
      <4>2. ino[y[1]].root[y[2][1]] = inode[y[1]].root[y[2][1]]
        BY <2>1, <3>4, <3>6, <4>1
      <4>3. QED BY <3>2, <3>3, <3>8, <4>2, BlockIs
    <3>9. QED BY <3>7, <3>8
  <2>3. Still(S, inode, index, ino, index)
    BY <1>1, <2>2, Unmoved DEF Still
  <2>4. BlockOf(ino, index, x) = Last(pool)
    <3>1. BlockOf(ino, index, x) = ino[x[1]].root[x[2][1]]
      BY <1>1, <1>4, BlockIs
    <3>2. QED BY <1>1, <1>2, <1>3, <1>4, <1>7, <2>1, <3>1
  <2>5. /\ Apart(S \cup {x}, ino, index, Front(pool))
        /\ Whole(S \cup {x}, ino, index, Front(pool)) = Whole(S, inode, index, pool)
    <3>1. Apart(S, inode, index, pool) /\ pool # << >>
      BY <1>1, <1>7
    <3>2. QED BY <2>3, <2>4, <3>1, Extended
  <2>6. Closed(S \cup {x})
    BY <1>1, <1>4 DEF Closed
  <2>7. Apart(S, ino, index, Front(pool))
    BY <1>1, <2>3, <2>5 DEF Apart, Still
  <2>8. ToSet(Front(pool)) \subseteq ToSet(pool) /\ Len(Front(pool)) = Len(pool) - 1 /\ Len(pool) \in Nat
    BY <1>5, <1>7, Taken
  <2>9. Kept(S, f, k, s)
    <3>1. s.used \in Int /\ s.used + Len(s.pool) = used + Len(pool)
      BY <1>1, <1>3, <1>7, <2>8
    <3>2. QED BY <1>3, <1>7, <2>3, <2>7, <2>8, <3>1 DEF Kept, ino
  <2>10. Reaches(S, f, k, 0, s)
    BY <1>3, <1>4, <1>7, <2>4, <2>5, <2>6 DEF Reaches, ino, x
  <2>11. QED BY <2>9, <2>10 DEF s
<1>8. QED BY <1>6, <1>7

\* One level down: the new node's number goes into the node above.
LEMMA GraftedFits ==
  ASSUME NEW S, NEW f, NEW k, Growable(S, f, k),
         NEW d \in 0 .. LevelOf(k), d + 1 \in 0 .. LevelOf(k), <<f, At(k, d + 1)>> \notin S,
         NEW p, Kept(S, f, k, p), p.ok => Reaches(S, f, k, d, p)
  PROVE  LET s == Grafted(p, (k - Base(LevelOf(k))) \div Width(LevelOf(k) - (d + 1)))
         IN  Kept(S, f, k, s) /\ (s.ok => Reaches(S, f, k, d + 1, s))
<1> DEFINE level == LevelOf(k)
           x == <<f, At(k, d + 1)>>
           n == (k - Base(level)) \div Width(level - (d + 1))
           s == Grafted(p, n)
           T == S \cup Way(f, k, d)
           ino == WithRoot(f, level, p.root)
<1>1. /\ Shape /\ f \in Files /\ k \in Nat /\ k < Base(4) /\ level # 0
      /\ Closed(S) /\ Apart(S, inode, index, pool)
  BY DEF Growable
<1>2. level \in 1 .. 3 /\ d \in Nat /\ d + 1 # 0 /\ (d + 1) - 1 = d
  <2>1. level \in 0 .. 3
    BY <1>1, LevelIs
  <2>2. QED BY <1>1, <2>1
<1>3. /\ x \in Files \X AllNodes /\ x[1] = f /\ x[2][1] = level /\ x[2][2] = d + 1
      /\ x[2][3] = n /\ Above(x) = <<f, At(k, d)>>
      /\ Way(f, k, d + 1) = Way(f, k, d) \cup {x}
  BY <1>1, <1>2, WayIs
<1>4. n \in Nat
  BY <1>1, <1>3, NodeIs
<1> HIDE DEF n
<1>5. /\ StoreOK(p) /\ p.used \in Int /\ p.used + Len(p.pool) = used + Len(pool)
      /\ Still(S, inode, index, ino, p.index)
      /\ Apart(S, ino, p.index, p.pool) /\ ToSet(p.pool) \subseteq ToSet(pool)
  BY DEF Kept
<1>6. /\ StoreOK(s) /\ s.root = p.root
      /\ ~p.ok => s = p
      /\ p.ok /\ p.pool = << >> => /\ ~s.ok /\ s.index = p.index
                                   /\ s.pool = p.pool /\ s.used = p.used
      /\ p.ok /\ p.pool # << >> =>
           /\ s.ok /\ s.block = Last(p.pool) /\ s.block \in Blocks
           /\ s.index = Entered(p.index, p.block, Slot(n), Last(p.pool))
           /\ s.pool = Front(p.pool) /\ s.used = p.used + 1
  BY <1>4, <1>5, GraftedIs
<1>7. WithRoot(f, LevelOf(k), s.root) = ino
  BY <1>6
<1>8. p.index \in Devices /\ p.pool \in Seq(Blocks)
  BY <1>5 DEF StoreOK
<1> HIDE DEF s, ino, x, T
<1>9. CASE ~p.ok
  BY <1>6, <1>9 DEF s, n
<1>10. CASE p.ok /\ p.pool = << >>
  <2>1. Kept(S, f, k, s)
    BY <1>5, <1>6, <1>7, <1>10 DEF Kept
  <2>2. QED BY <1>6, <1>10, <2>1 DEF s, n
<1>11. CASE p.ok /\ p.pool # << >>
  <2>1. /\ Closed(T) /\ Apart(T, ino, p.index, p.pool)
        /\ Whole(T, ino, p.index, p.pool) = Whole(S, inode, index, pool)
        /\ p.block = BlockOf(ino, p.index, Above(x))
    BY <1>3, <1>11 DEF Reaches, T, ino
  <2>2. Above(x) \in T /\ x \notin T /\ S \subseteq T
    <3>1. \A y \in Way(f, k, d) : y[2][2] \in 0 .. d
      BY <1>1, WayIs
    <3>2. x \notin Way(f, k, d)
      BY <1>2, <1>3, <3>1
    <3>3. Above(x) \in Way(f, k, d)
      BY <1>1, <1>3, WayIs
    <3>4. QED BY <3>2, <3>3 DEF T, x
  <2>3. Last(p.pool) \in Blocks /\ s.index = Entered(p.index, p.block, Slot(x[2][3]), Last(p.pool))
    BY <1>3, <1>6, <1>11
  <2>4. /\ s.index \in Devices /\ Closed(T \cup {x})
        /\ Still(T, ino, p.index, ino, s.index)
        /\ BlockOf(ino, s.index, x) = Last(p.pool)
    <3> DEFINE b == Last(p.pool)
               parent == p.block
               device == p.index
               device2 == Entered(device, parent, Slot(x[2][3]), b)
    <3>1. /\ Closed(T) /\ device \in Devices /\ Apart(T, ino, device, p.pool) /\ b \in Blocks
          /\ x \in Files \X AllNodes /\ x \notin T /\ x[2][2] # 0 /\ Above(x) \in T
          /\ parent = BlockOf(ino, device, Above(x))
      BY <1>2, <1>3, <1>8, <2>1, <2>2, <2>3
    <3> HIDE DEF b, parent, device
    <3>2. /\ device2 \in Devices /\ Closed(T \cup {x})
          /\ Still(T, ino, device, ino, device2) /\ BlockOf(ino, device2, x) = b
      BY <3>1, Attached
    <3>3. s.index = device2
      BY <2>3 DEF b, parent, device
    <3> HIDE DEF device2
    <3>4. QED BY <3>2, <3>3 DEF b, device
  <2>5. /\ Apart(T \cup {x}, ino, s.index, Front(p.pool))
        /\ Whole(T \cup {x}, ino, s.index, Front(p.pool)) = Whole(T, ino, p.index, p.pool)
    <3>1. Apart(T, ino, p.index, p.pool) /\ p.pool # << >>
      BY <1>11, <2>1
    <3>2. QED BY <2>4, <3>1, Extended
  <2>6. T \cup {x} = S \cup Way(f, k, d + 1)
    BY <1>3 DEF T
  <2>7. Reaches(S, f, k, d + 1, s)
    BY <1>6, <1>7, <1>11, <2>1, <2>4, <2>5, <2>6 DEF Reaches, x
  <2>8. Kept(S, f, k, s)
    <3>1. Apart(S, ino, s.index, s.pool)
      BY <1>6, <1>11, <2>2, <2>5 DEF Apart
    <3>2. /\ ToSet(Front(p.pool)) \subseteq ToSet(p.pool) /\ Len(Front(p.pool)) = Len(p.pool) - 1
          /\ Len(p.pool) \in Nat
      BY <1>8, <1>11, Taken
    <3>3. s.used \in Int /\ s.used + Len(s.pool) = used + Len(pool)
      BY <1>5, <1>6, <1>11, <3>2, SMTT(30)
    <3>4. ToSet(s.pool) \subseteq ToSet(pool)
      BY <1>5, <1>6, <1>11, <3>2
    <3>5. Still(S, inode, index, ino, s.index)
      BY <1>5, <2>2, <2>4 DEF Still
    <3>6. QED BY <1>6, <1>7, <3>1, <3>3, <3>4, <3>5 DEF Kept
  <2>9. QED BY <2>7, <2>8 DEF s, n
<1>12. QED BY <1>9, <1>10, <1>11

\* A parent that was there already: nothing has happened yet.
LEMMA ParentThere ==
  ASSUME NEW S, NEW f, NEW k, Growable(S, f, k),
         NEW d \in 0 .. LevelOf(k), <<f, At(k, d)>> \in S,
         NEW n \in Nat, At(k, d)[3] = n \div PerIndex, Slot(n) # 0,
         NEW before
  PROVE  LET p == Parent(f, LevelOf(k), n, d + 1, before)
         IN  Kept(S, f, k, p) /\ Reaches(S, f, k, d, p)
<1> DEFINE level == LevelOf(k)
           b == Locate(index, inode[f].root[level], d, (n - 1) \div PerIndex)
           p == [Store(f, level) EXCEPT !.block = b]
           ino == WithRoot(f, level, p.root)
<1>1. /\ Shape /\ used \in Int /\ f \in Files /\ k \in Nat /\ k < Base(4) /\ level # 0
      /\ Closed(S) /\ Apart(S, inode, index, pool)
  BY DEF Growable
<1>2. level \in 0 .. 3 /\ level \in Levels /\ (d + 1) - 1 = d
  <2>1. level \in 0 .. 3
    BY <1>1, LevelIs
  <2>2. QED BY <1>1, <2>1 DEF Levels
<1>3. Parent(f, level, n, d + 1, before) = p
  BY <1>2 DEF Parent
<1>4. /\ StoreOK(p) /\ p.ok /\ p.root = inode[f].root[level] /\ p.index = index
      /\ p.pool = pool /\ p.used = used /\ p.block = b
  <2> HIDE DEF b
  <2>1. QED BY <1>1, <1>2, StoreIs
<1> HIDE DEF p
<1>5. ino = inode
  BY <1>1, <1>2, <1>4, WithRootIs
<1>6. Way(f, k, d) \subseteq S
  <2> DEFINE there == {j \in 0 .. d : <<f, At(k, j)>> \in S}
  <2>1. d \in Nat /\ d \in there
    BY <1>2
  <2>2. \A j \in 0 + 1 .. d : j \in there => j - 1 \in there
    <3>1. TAKE j \in 0 + 1 .. d
    <3>2. HAVE j \in there
    <3>3. j \in 0 .. level /\ j # 0 /\ j - 1 \in 0 .. d
      BY <1>2
    <3>4. /\ <<f, At(k, j)>>[2][2] = j /\ Above(<<f, At(k, j)>>) = <<f, At(k, j - 1)>>
      BY <1>1, <3>3, WayIs
    <3>5. <<f, At(k, j - 1)>> \in S
      BY <1>1, <3>2, <3>3, <3>4 DEF Closed
    <3>6. QED BY <3>3, <3>5
  <2>3. \A j \in 0 .. d : j \in there
    <3> HIDE DEF there
    <3>1. 0 \in Nat
      OBVIOUS
    <3>2. QED BY <2>1, <2>2, <3>1, Downwards
  <2>4. QED BY <2>3 DEF Way
<1>7. S \cup Way(f, k, d) = S
  BY <1>6
<1>8. (n - 1) \div PerIndex = n \div PerIndex
  <2> DEFINE q == n \div PerIndex
             r == n % PerIndex
             m == n - 1
             t == r - 1
  <2>1. PerIndex \in Nat \ {0}
    BY WidthIs
  <2>2. q \in Nat /\ r \in 0 .. PerIndex - 1 /\ n = PerIndex * q + r /\ r # 0
    BY <2>1, Division DEF Slot
  <2> HIDE DEF q, r
  <2> DEFINE v == PerIndex * q
  <2>3. v \in Int
    BY <2>1, <2>2
  <2>4. m = v + t /\ t \in 0 .. PerIndex - 1
    <3>1. n = v + r
      BY <2>2
    <3> HIDE DEF v
    <3>2. m = n - 1 /\ t = r - 1
      OBVIOUS
    <3> HIDE DEF m, t
    <3>3. n = v + r /\ n \in Int /\ r \in 0 .. PerIndex - 1 /\ r # 0 /\ PerIndex \in Nat /\ v \in Int
      BY <2>1, <2>2, <2>3, <3>1
    <3>4. r - 1 \in 0 .. PerIndex - 1
      BY <3>3
    <3>5. n - 1 = v + (r - 1)
      BY <3>3
    <3>6. QED BY <3>2, <3>4, <3>5
  <2> HIDE DEF m, t
  <2>5. m \div PerIndex = q
    BY <2>1, <2>2, <2>4, Division
  <2>6. QED BY <2>5 DEF m, q
<1>9. BlockOf(inode, index, <<f, At(k, d)>>) = b
  <2>1. At(k, d)[1] = level /\ At(k, d)[2] = d
    BY <1>1, AtIs
  <2>2. QED BY <1>1, <1>8, <2>1 DEF BlockOf
<1> HIDE DEF b
<1>10. Kept(S, f, k, p)
  <2>1. Still(S, inode, index, inode, index)
    BY DEF Still
  <2>2. QED BY <1>1, <1>4, <1>5, <2>1 DEF Kept, ino
<1>11. Reaches(S, f, k, d, p)
  BY <1>1, <1>4, <1>5, <1>7, <1>9 DEF Reaches, ino
<1>12. QED BY <1>3, <1>10, <1>11

\* What add returns: no node in use has moved, and if no block was missing the
\* way to the new leaf is there.
LEMMA AddLeafFits ==
  ASSUME NEW S, NEW f, NEW k, Growable(S, f, k)
  PROVE  LET s == AddLeaf(f, LevelOf(k), k - Base(LevelOf(k)))
         IN  Kept(S, f, k, s) /\ (s.ok => Reaches(S, f, k, LevelOf(k), s))
<1> DEFINE level == LevelOf(k)
           q == k - Base(level)
           g == Growing(f, level, q)
           Fits(d) == Kept(S, f, k, g[d]) /\ (g[d].ok => Reaches(S, f, k, d, g[d]))
           done == {d \in 0 .. level : <<f, At(k, d)>> \notin S => Fits(d)}
<1>1. /\ f \in Files /\ k \in Nat /\ k < Base(4) /\ level # 0
      /\ \A d \in 0 .. level : <<f, At(k, d)>> \in S <=> q % Width(level - d) # 0
  BY DEF Growable
<1>2. level \in 1 .. 3 /\ q \in Nat
  <2>1. level \in 0 .. 3 /\ 0 \in 0 .. level
    BY <1>1, LevelIs
  <2>2. q \in Nat
    BY <1>1, <2>1, AtIs
  <2>3. QED BY <1>1, <2>1, <2>2
<1> HIDE DEF g, q
<1>3. 0 \in done
  <2>1. g[0] = Planted(f, level)
    BY <1>2, GrowingRuns DEF g
  <2>2. 0 \in 0 .. level
    BY <1>2
  <2>3. ASSUME <<f, At(k, 0)>> \notin S PROVE Fits(0)
    BY <2>1, <2>3, PlantedFits
  <2>4. QED BY <2>2, <2>3
<1>4. \A d \in 0 .. level - 1 : d \in done => d + 1 \in done
  <2>1. TAKE d \in 0 .. level - 1
  <2>2. HAVE d \in done
  <2> DEFINE w == Width(level - (d + 1))
             n == q \div w
             p == Parent(f, level, n, d + 1, g[d])
  <2>3. /\ d + 1 \in 1 .. level /\ (d + 1) - 1 = d /\ d + 1 \in 0 .. level /\ d \in 0 .. level
        /\ level - (d + 1) \in 0 .. 2 /\ level - (d + 1) \in 0 .. 3
        /\ (level - (d + 1)) + 1 = level - d /\ d + 1 # 0
    BY <1>2
  <2>4. g[d + 1] = Grafted(p, n)
    <3>1. g[d + 1] = Grafted(Parent(f, level, q \div Width(level - (d + 1)), d + 1, g[(d + 1) - 1]),
                             q \div Width(level - (d + 1)))
      <4> DEFINE e == d + 1
      <4>1. e \in 1 .. level
        BY <2>3
      <4> HIDE DEF e, level
      <4>2. g[e] = Grafted(Parent(f, level, q \div Width(level - e), e, g[e - 1]),
                           q \div Width(level - e))
        BY <1>2, <4>1, GrowingRuns DEF g
      <4>3. QED BY <4>2 DEF e
    <3>2. QED BY <2>3, <3>1
  <2>5. SUFFICES ASSUME <<f, At(k, d + 1)>> \notin S PROVE Fits(d + 1)
    BY <2>3
  <2>6. w \in Nat \ {0} /\ Width(level - d) = w * PerIndex /\ PerIndex \in Nat \ {0}
    BY <2>3, WidthIs
  <2>7. n \in Nat
    <3> HIDE DEF w
    <3>1. QED BY <1>2, <2>6, Division
  <2>8. q % w = 0
    BY <1>1, <2>3, <2>5
  <2>9. Kept(S, f, k, p) /\ (p.ok => Reaches(S, f, k, d, p))
    <3>1. CASE Slot(n) = 0
      <4>1. p = g[d]
        BY <3>1 DEF Parent
      <4>2. q % (w * PerIndex) = 0
        <5> HIDE DEF w
        <5>1. QED BY <1>2, <2>6, <2>8, <3>1, TwiceDivided DEF Slot
      <4>3. <<f, At(k, d)>> \notin S
        BY <1>1, <2>3, <2>6, <4>2
      <4>4. Fits(d)
        BY <2>2, <4>3
      <4> HIDE DEF p
      <4>5. QED BY <4>1, <4>4
    <3>2. CASE Slot(n) # 0
      <4>1. q % (w * PerIndex) # 0
        <5> HIDE DEF w
        <5>1. QED BY <1>2, <2>6, <2>8, <3>2, TwiceDivided DEF Slot
      <4>2. <<f, At(k, d)>> \in S
        BY <1>1, <2>3, <2>6, <4>1
      <4>3. At(k, d)[3] = n \div PerIndex
        <5>1. At(k, d)[3] = q \div (w * PerIndex)
          BY <1>1, <2>3, <2>6, AtIs DEF q
        <5> HIDE DEF w
        <5>2. QED BY <1>2, <2>6, <5>1, TwiceDivided
      <4> HIDE DEF n
      <4>4. QED BY <2>3, <2>7, <3>2, <4>2, <4>3, ParentThere
    <3>3. QED BY <3>1, <3>2
  <2>10. LET s == Grafted(p, n)
         IN  Kept(S, f, k, s) /\ (s.ok => Reaches(S, f, k, d + 1, s))
    <3> HIDE DEF p
    <3>1. n = (k - Base(LevelOf(k))) \div Width(LevelOf(k) - (d + 1))
      BY DEF q
    <3> HIDE DEF n
    <3>2. QED BY <2>3, <2>5, <2>9, <3>1, GraftedFits
  <2>11. QED BY <2>4, <2>10
<1>5. level \in done
  <2>1. 0 \in Nat /\ level \in Nat
    BY <1>2
  <2>2. \A d \in 0 .. level : d \in done
    <3> HIDE DEF done
    <3>1. QED BY <1>3, <1>4, <2>1, Upwards
  <2>3. level \in 0 .. level
    BY <1>2
  <2>4. QED BY <2>2, <2>3
<1>6. <<f, At(k, level)>> \notin S
  <2>1. level - level = 0 /\ level \in 0 .. level
    BY <1>2
  <2>2. Width(level - level) = 1
    BY <2>1, WidthIs
  <2>3. q % 1 = 0
    BY <1>2
  <2>4. QED BY <1>1, <2>1, <2>2, <2>3
<1>7. Fits(level)
  BY <1>5, <1>6
<1>8. QED BY <1>7 DEF AddLeaf, g, q

-----------------------------------------------------------------------------
(* Nodes in use.                                                           *)

InUse(ino) == {x \in Files \X AllNodes : x[2] \in NodesUpTo(ino[x[1]].size)}

\* The leaf of a file block.
Leaf(f, k) == <<f, At(k, LevelOf(k))>>

\* Two inode tables that differ in sizes only, and in one size by one block.
SameNames(ino, ino2) == \A g \in Files : ino2[g].direct = ino[g].direct /\ ino2[g].root = ino[g].root
Longer(ino, ino2, f) == /\ ino2[f].size = ino[f].size + 1
                        /\ \A g \in Files : g # f => ino2[g].size = ino[g].size
Sized(ino) == \A g \in Files : ino[g].size \in 0 .. Base(4)

LEMMA StillByNames ==
  ASSUME NEW S \in SUBSET (Files \X AllNodes), NEW ino, NEW ino2, NEW device, SameNames(ino, ino2)
  PROVE  Still(S, ino, device, ino2, device)
<1>1. SUFFICES ASSUME NEW x \in S
               PROVE  BlockOf(ino2, device, x) = BlockOf(ino, device, x)
  BY DEF Still
<1>2. x[1] \in Files
  OBVIOUS
<1>3. ino2[x[1]].direct = ino[x[1]].direct /\ ino2[x[1]].root = ino[x[1]].root
  BY <1>2 DEF SameNames
<1>4. BlockOf(ino2, device, x) = BlockOf(ino, device, x)
  BY <1>3 DEF BlockOf
<1>5. QED BY <1>4

LEMMA StillOn ==
  ASSUME NEW S, NEW ino, NEW device, NEW ino2, NEW device2, Still(S, ino, device, ino2, device2),
         NEW ino3, NEW device3, Still(S, ino2, device2, ino3, device3)
  PROVE  Still(S, ino, device, ino3, device3)
BY DEF Still

LEMMA StillWhole ==
  ASSUME NEW S, NEW ino, NEW device, NEW ino2, NEW device2, Still(S, ino, device, ino2, device2),
         NEW list, Apart(S, ino, device, list)
  PROVE  /\ Apart(S, ino2, device2, list)
         /\ Whole(S, ino2, device2, list) = Whole(S, ino, device, list)
<1>1. Apart(S, ino2, device2, list)
  BY DEF Apart, Still
<1>2. Held(S, ino2, device2) = Held(S, ino, device)
  BY DEF Held, Still
<1>3. QED BY <1>1, <1>2 DEF Whole

LEMMA InUseIs ==
  ASSUME NEW ino, Sized(ino)
  PROVE  /\ InUse(ino) \in SUBSET (Files \X AllNodes)
         /\ Closed(InUse(ino))
         /\ \A f \in Files : \A k \in Nat : k < Base(4) => \A d \in 0 .. LevelOf(k) :
               <<f, At(k, d)>> \in InUse(ino) <=> At(k, d) \in NodesUpTo(ino[f].size)
<1>1. InUse(ino) \in SUBSET (Files \X AllNodes)
  BY DEF InUse
<1>2. ASSUME NEW x \in InUse(ino), x[2][2] # 0 PROVE Above(x) \in InUse(ino)
  <2>1. x[1] \in Files /\ x[2] \in NodesUpTo(ino[x[1]].size)
    BY DEF InUse
  <2>2. ino[x[1]].size \in Nat /\ ino[x[1]].size <= Base(4)
    <3>1. ino[x[1]].size \in 0 .. Base(4) /\ Base(4) \in Nat
      BY <2>1, Bases DEF Sized
    <3>2. QED BY <3>1
  <2>3. Up(x[2]) \in NodesUpTo(ino[x[1]].size) /\ NodesUpTo(ino[x[1]].size) \subseteq AllNodes
    BY <1>2, <2>1, <2>2, NodesAre
  <2>4. Above(x) = <<x[1], Up(x[2])>> /\ Above(x)[1] = x[1] /\ Above(x)[2] = Up(x[2])
    BY DEF Above
  <2>5. QED BY <2>1, <2>3, <2>4 DEF InUse
<1>3. ASSUME NEW f \in Files, NEW k \in Nat, k < Base(4), NEW d \in 0 .. LevelOf(k)
      PROVE  <<f, At(k, d)>> \in InUse(ino) <=> At(k, d) \in NodesUpTo(ino[f].size)
  <2>1. At(k, d) \in AllNodes
    BY <1>3, AtIs
  <2>2. QED BY <2>1 DEF InUse
<1>4. QED BY <1>1, <1>2, <1>3 DEF Closed

\* A file of one more block has the nodes on the way to it in use too.
LEMMA OneMore ==
  ASSUME NEW ino, NEW ino2, NEW f \in Files, Sized(ino), Sized(ino2), Longer(ino, ino2, f)
  PROVE  LET k == ino[f].size
         IN  /\ k \in Nat /\ k < Base(4)
             /\ LevelOf(k) \in 0 .. 3
             /\ InUse(ino2) = InUse(ino) \cup Way(f, k, LevelOf(k))
             /\ Leaf(f, k) \notin InUse(ino)
             /\ \A d \in 0 .. LevelOf(k) :
                   <<f, At(k, d)>> \in InUse(ino) <=> (k - Base(LevelOf(k))) % Width(LevelOf(k) - d) # 0
<1> DEFINE k == ino[f].size
           level == LevelOf(k)
<1>1. k \in Nat /\ k < Base(4) /\ k + 1 = ino2[f].size
  <2>1. /\ ino[f].size \in 0 .. Base(4) /\ ino2[f].size \in 0 .. Base(4)
        /\ Base(4) \in Nat /\ ino2[f].size = ino[f].size + 1
    BY Bases DEF Sized, Longer
  <2>2. QED BY <2>1
<1>2. level \in 0 .. 3 /\ level \in 0 .. level
  <2>1. level \in 0 .. 3
    BY <1>1, LevelIs
  <2>2. QED BY <2>1
<1>3. \A d \in 0 .. level : <<f, At(k, d)>> \in InUse(ino) <=> (k - Base(level)) % Width(level - d) # 0
  BY <1>1, InUseIs, NewWhen
<1>4. Leaf(f, k) \notin InUse(ino)
  <2>1. Width(level - level) = 1
    BY <1>2, WidthIs
  <2>2. (k - Base(level)) % 1 = 0
    <3>1. k - Base(level) \in Nat
      BY <1>1, <1>2, AtIs
    <3> DEFINE q == k - Base(level)
    <3> HIDE DEF q
    <3>2. q % 1 = 0
      BY <3>1 DEF q
    <3>3. QED BY <3>2 DEF q
  <2>3. QED BY <1>2, <1>3, <2>1, <2>2 DEF Leaf
<1>5. NodesUpTo(ino2[f].size) = NodesUpTo(k) \cup Path(k)
  BY <1>1, NodesStep
<1>6. Path(k) = {At(k, d) : d \in 0 .. level}
  BY PathIs
<1>7. \A d \in 0 .. level : At(k, d) \in AllNodes
  BY <1>1, AtIs
<1> HIDE DEF k, level
<1>8. ASSUME NEW x \in InUse(ino2) PROVE x \in InUse(ino) \cup Way(f, k, level)
  <2>1. x \in Files \X AllNodes /\ x[1] \in Files /\ x[2] \in AllNodes /\ x = <<x[1], x[2]>>
        /\ x[2] \in NodesUpTo(ino2[x[1]].size)
    BY DEF InUse
  <2>2. CASE x[1] = f /\ x[2] \in Path(k)
    <3>1. PICK d \in 0 .. level : x[2] = At(k, d)
      BY <1>6, <2>2
    <3>2. x = <<f, At(k, d)>>
      BY <2>1, <2>2, <3>1
    <3>3. QED BY <3>2 DEF Way
  <2>3. CASE x[1] = f /\ x[2] \notin Path(k)
    BY <1>5, <2>1, <2>3 DEF InUse, k
  <2>4. CASE x[1] # f
    BY <2>1, <2>4 DEF InUse, Longer
  <2>5. QED BY <2>2, <2>3, <2>4
<1>9. ASSUME NEW x \in InUse(ino) PROVE x \in InUse(ino2)
  <2>1. x \in Files \X AllNodes /\ x[1] \in Files /\ x[2] \in NodesUpTo(ino[x[1]].size)
    BY DEF InUse
  <2>2. x[2] \in NodesUpTo(ino2[x[1]].size)
    BY <1>5, <2>1 DEF Longer, k
  <2>3. QED BY <2>1, <2>2 DEF InUse
<1>10. ASSUME NEW x \in Way(f, k, level) PROVE x \in InUse(ino2)
  <2>1. PICK d \in 0 .. level : x = <<f, At(k, d)>>
    BY DEF Way
  <2>2. x[1] = f /\ x[2] = At(k, d) /\ x \in Files \X AllNodes /\ x[2] \in NodesUpTo(ino2[f].size)
    BY <1>5, <1>6, <1>7, <2>1
  <2>3. QED BY <2>2 DEF InUse
<1>11. InUse(ino2) = InUse(ino) \cup Way(f, k, level)
  BY <1>8, <1>9, <1>10
<1>12. QED BY <1>1, <1>2, <1>3, <1>4, <1>11 DEF k, level

\* No two file blocks have the same leaf, and a read finds its block.
LEMMA LeafIs ==
  ASSUME NEW f \in Files, NEW k \in Nat, k < Base(4)
  PROVE  /\ Leaf(f, k) \in Files \X AllNodes /\ Leaf(f, k)[2][1] = Leaf(f, k)[2][2]
         /\ Leaf(f, k)[1] = f /\ Leaf(f, k)[2] \in Path(k)
         /\ BlockAt(f, k) = BlockOf(inode, index, Leaf(f, k))
         /\ \A g \in Files : \A j \in Nat : j < Base(4) /\ Leaf(g, j) = Leaf(f, k) => g = f /\ j = k
<1> DEFINE level == LevelOf(k)
           x == Leaf(f, k)
<1>1. level \in 0 .. 3 /\ level \in 0 .. level
  <2>1. level \in 0 .. 3
    BY LevelIs
  <2>2. QED BY <2>1
<1>2. /\ At(k, level)[1] = level /\ At(k, level)[2] = level
      /\ At(k, level)[3] = k - Base(level) /\ (level = 0 => At(k, level)[3] = k)
      /\ At(k, level) \in AllNodes
  BY <1>1, AtIs
<1>3. x[1] = f /\ x[2] = At(k, level) /\ x \in Files \X AllNodes
  BY <1>2 DEF Leaf
<1>4. x[2] \in Path(k)
  BY <1>1, <1>3, PathIs
<1>5. BlockAt(f, k) = BlockOf(inode, index, x)
  BY <1>2, <1>3 DEF BlockAt, BlockOf
<1>6. ASSUME NEW g \in Files, NEW j \in Nat, j < Base(4), Leaf(g, j) = Leaf(f, k)
      PROVE  g = f /\ j = k
  <2>1. LevelOf(j) \in 0 .. 3 /\ LevelOf(j) \in 0 .. LevelOf(j)
    <3>1. LevelOf(j) \in 0 .. 3
      BY <1>6, LevelIs
    <3>2. QED BY <3>1
  <2>2. /\ At(j, LevelOf(j))[1] = LevelOf(j)
        /\ At(j, LevelOf(j))[3] = j - Base(LevelOf(j))
    BY <1>6, <2>1, AtIs
  <2>3. g = f /\ At(j, LevelOf(j)) = At(k, level)
    BY <1>6 DEF Leaf
  <2>4. LevelOf(j) = level /\ j - Base(level) = k - Base(level)
    BY <1>2, <2>2, <2>3
  <2>5. Base(level) \in Nat
    <3>1. level \in 0 .. 4
      BY <1>1
    <3> HIDE DEF level
    <3>2. QED BY <3>1, Bases
  <2> HIDE DEF level
  <2>6. QED BY <2>3, <2>4, <2>5
<1>7. QED BY <1>2, <1>3, <1>4, <1>5, <1>6

-----------------------------------------------------------------------------
(* pop and truncate.                                                       *)

\* What data_block_free puts on the list.
LEMMA Added ==
  ASSUME NEW list \in Seq(Blocks), NEW b \in Blocks
  PROVE  LET g == list \o <<b>>
         IN  /\ g \in Seq(Blocks) /\ Len(g) = Len(list) + 1 /\ Len(list) \in Nat
             /\ ToSet(g) = ToSet(list) \cup {b}
             /\ IsInjective(list) /\ b \notin ToSet(list) => IsInjective(g)
<1> DEFINE g == list \o <<b>>
           n == Len(list)
<1>1. n \in Nat /\ DOMAIN list = 1 .. n /\ <<b>> \in Seq(Blocks) /\ Len(<<b>>) = 1 /\ <<b>>[1] = b
  BY LenProperties
<1>2. /\ g \in Seq(Blocks) /\ Len(g) = n + 1
      /\ \A i \in 1 .. n + 1 : g[i] = IF i <= n THEN list[i] ELSE <<b>>[i - n]
  BY <1>1, ConcatProperties
<1>3. DOMAIN g = 1 .. n + 1
  BY <1>2, LenProperties
<1> HIDE DEF g, n
<1>4. (\A i \in 1 .. n : g[i] = list[i]) /\ g[n + 1] = b
  <2>1. \A i \in 1 .. n : i \in 1 .. n + 1 /\ i <= n
    BY <1>1
  <2>2. n + 1 \in 1 .. n + 1 /\ ~(n + 1 <= n) /\ (n + 1) - n = 1
    BY <1>1
  <2>3. QED BY <1>1, <1>2, <2>1, <2>2
<1>5. \A i \in 1 .. n + 1 : i = n + 1 \/ i \in 1 .. n
  BY <1>1
<1>6. n + 1 \in 1 .. n + 1 /\ \A i \in 1 .. n : i \in 1 .. n + 1
  BY <1>1
<1>7. ToSet(g) = {g[i] : i \in 1 .. n + 1} /\ ToSet(list) = {list[i] : i \in 1 .. n}
  BY <1>1, <1>3 DEF ToSet
<1>8. ToSet(g) = ToSet(list) \cup {b}
  BY <1>4, <1>5, <1>6, <1>7
<1>9. IsInjective(list) /\ b \notin ToSet(list) => IsInjective(g)
  BY <1>1, <1>3, <1>4, <1>5, <1>7 DEF IsInjective
<1>10. QED BY <1>1, <1>2, <1>8, <1>9 DEF g, n

\* A node that is given up goes to the list.
LEMMA Returned ==
  ASSUME NEW S, NEW x, x \notin S, NEW ino, NEW device, NEW list,
         Apart(S \cup {x}, ino, device, list), NEW b, b = BlockOf(ino, device, x)
  PROVE  /\ Apart(S, ino, device, list \o <<b>>)
         /\ Whole(S, ino, device, list \o <<b>>) = Whole(S \cup {x}, ino, device, list)
         /\ Len(list \o <<b>>) = Len(list) + 1
<1> DEFINE B(y) == BlockOf(ino, device, y)
           g == list \o <<b>>
<1>1. /\ list \in Seq(Blocks) /\ IsInjective(list)
      /\ \A y \in S \cup {x} : B(y) \in Blocks \ ToSet(list)
      /\ \A y, z \in S \cup {x} : B(y) = B(z) => y = z
  BY DEF Apart
<1>2. B(x) = b /\ b \in Blocks \ ToSet(list)
  BY <1>1
<1>3. /\ g \in Seq(Blocks) /\ Len(g) = Len(list) + 1
      /\ ToSet(g) = ToSet(list) \cup {b} /\ IsInjective(g)
  BY <1>1, <1>2, Added
<1> HIDE DEF B, g
<1>4. (\A y \in S : B(y) \in Blocks \ ToSet(g)) /\ (\A y, z \in S : B(y) = B(z) => y = z)
  BY <1>1, <1>2, <1>3
<1>5. Apart(S, ino, device, g)
  BY <1>3, <1>4 DEF Apart, B
<1>6. {B(y) : y \in S \cup {x}} = {B(y) : y \in S} \cup {b}
  BY <1>2
<1>7. Whole(S, ino, device, g) = Whole(S \cup {x}, ino, device, list)
  BY <1>3, <1>6 DEF Whole, Held, B
<1>8. QED BY <1>3, <1>5, <1>7 DEF g

\* The recursion of pop: only the root is ever given back.
LEMMA PoppedTyped ==
  ASSUME NEW f, NEW level \in 1 .. 3, NEW size, inode[f].root[level] \in Blocks
  PROVE  Popped(f, level, size) \in Seq(Blocks)
<1> DEFINE r == inode[f].root[level]
           Number(d) == (size - 1) \div Width(level - d) + 1
           First(d) == (Number(d) - 1) \div PerIndex = 0
           Next1(s, d) == IF First(d) THEN Append(s, r) ELSE <<r>>
           Turn(g, d) == IF d = 0 THEN <<r>> ELSE Next1(g[d - 1], d)
           Runs(g) == g = [d \in 0 .. level |-> Turn(g, d)]
           s0 == <<r>>
           s1 == Next1(s0, 1)
           s2 == Next1(s1, 2)
           s3 == Next1(s2, 3)
           g == [d \in 0 .. level |-> IF d = 0 THEN s0 ELSE IF d = 1 THEN s1
                                      ELSE IF d = 2 THEN s2 ELSE s3]
<1>1. \A d \in 0 .. level : d = 0 \/ d = 1 \/ d = 2 \/ d = 3
  OBVIOUS
<1>2. \A d \in 0 .. level : d # 0 => d - 1 \in 0 .. level
  OBVIOUS
<1>3. ASSUME NEW d \in 0 .. level PROVE g[d] = Turn(g, d)
  <2> HIDE DEF Next1
  <2>1. CASE d = 0
    BY <2>1
  <2>2. CASE d = 1
    <3>1. g[d - 1] = s0 /\ g[d] = s1
      BY <1>2, <2>2
    <3> HIDE DEF g
    <3>2. QED BY <2>2, <3>1
  <2>3. CASE d = 2
    <3>1. g[d - 1] = s1 /\ g[d] = s2
      <4> HIDE DEF s0, s1, s2, s3
      <4>1. QED BY <1>2, <2>3
    <3> HIDE DEF g
    <3>2. QED BY <2>3, <3>1
  <2>4. CASE d = 3
    <3>1. g[d - 1] = s2 /\ g[d] = s3
      <4> HIDE DEF s0, s1, s2, s3
      <4>1. QED BY <1>2, <2>4
    <3> HIDE DEF g
    <3>2. QED BY <2>4, <3>1
  <2>5. QED BY <1>1, <2>1, <2>2, <2>3, <2>4
<1>4. Runs(g)
  <2>1. g = [d \in 0 .. level |-> g[d]]
    OBVIOUS
  <2> HIDE DEF g, Turn
  <2>2. QED BY <1>3, <2>1
<1>5. \E h : Runs(h)
  <2> HIDE DEF Runs, g
  <2>1. QED BY <1>4
<1>6. Popping(f, level, size) = CHOOSE h : Runs(h)
  BY DEF Popping
<1>7. Runs(Popping(f, level, size))
  <2> HIDE DEF Runs
  <2>1. QED BY <1>5, <1>6
<1> DEFINE h == Popping(f, level, size)
           done == {d \in 0 .. level : h[d] \in Seq(Blocks)}
<1>8. \A d \in 0 .. level : h[d] = Turn(h, d)
  <2> HIDE DEF Turn
  <2>1. QED BY <1>7
<1> HIDE DEF h, g, First
<1>9. r \in Blocks /\ <<r>> \in Seq(Blocks)
  OBVIOUS
<1> HIDE DEF r
<1>10. 0 \in done
  <2>1. 0 \in 0 .. level
    OBVIOUS
  <2>2. h[0] = <<r>>
    BY <1>8, <2>1
  <2>3. QED BY <1>9, <2>1, <2>2
<1>11. \A d \in 0 .. level - 1 : d \in done => d + 1 \in done
  <2>1. TAKE d \in 0 .. level - 1
  <2>2. HAVE d \in done
  <2>3. d + 1 \in 0 .. level /\ (d + 1) - 1 = d /\ d + 1 # 0
    OBVIOUS
  <2>4. h[d + 1] = Next1(h[d], d + 1)
    BY <1>8, <2>3
  <2>5. h[d] \in Seq(Blocks) => Append(h[d], r) \in Seq(Blocks)
    BY <1>9, AppendProperties
  <2>6. QED BY <1>9, <2>2, <2>3, <2>4, <2>5
<1>12. \A d \in 0 .. level : d \in done
  <2> HIDE DEF done
  <2>1. 0 \in Nat /\ level \in Nat
    OBVIOUS
  <2>2. QED BY <1>10, <1>11, <2>1, Upwards
<1>13. h[level] \in Seq(Blocks)
  BY <1>12
<1>14. QED BY <1>13 DEF Popped, h

\* The loop of truncate, from the last block of the file down.
LEMMA CuttingRuns ==
  ASSUME NEW f, inode[f].size \in Nat, NEW n \in 0 .. inode[f].size
  PROVE  /\ Cutting(f, n)[inode[f].size] = << >>
         /\ \A i \in n .. inode[f].size - 1 :
               Cutting(f, n)[i] = Cutting(f, n)[i + 1] \o FreedByPop(f, i + 1)
<1> DEFINE size == inode[f].size
           Turn(g, i) == IF i = size THEN << >> ELSE g[i + 1] \o FreedByPop(f, i + 1)
           Runs(m, g) == g = [i \in m .. size |-> Turn(g, i)]
           done == {m \in n .. size : \E g : Runs(m, g)}
<1> HIDE DEF size
<1>1. size \in Nat /\ n \in Nat /\ n \in n .. size /\ size \in n .. size
  BY DEF size
<1>2. size \in done
  <2> DEFINE g == [i \in size .. size |-> << >>]
  <2>1. \A i \in size .. size : i = size
    BY <1>1
  <2>2. g = [i \in size .. size |-> Turn(g, i)]
    BY <2>1
  <2> HIDE DEF g
  <2>3. QED BY <1>1, <2>2
<1>3. \A m \in n + 1 .. size : m \in done => m - 1 \in done
  <2>1. TAKE m \in n + 1 .. size
  <2>2. HAVE m \in done
  <2>3. PICK g : Runs(m, g)
    BY <2>2
  <2> DEFINE h == [i \in m - 1 .. size |-> IF i = m - 1 THEN g[m] \o FreedByPop(f, m) ELSE g[i]]
  <2>4. /\ m - 1 \in n .. size /\ m - 1 # size /\ (m - 1) + 1 = m /\ m \in m - 1 .. size /\ m # m - 1
        /\ \A i \in m - 1 .. size : i # m - 1 => i \in m .. size
        /\ \A i \in m .. size : i # size => i + 1 \in m - 1 .. size /\ i + 1 # m - 1
    BY <1>1
  <2>5. \A i \in m .. size : g[i] = Turn(g, i)
    <3> HIDE DEF Turn
    <3>1. QED BY <2>3
  <2>6. ASSUME NEW i \in m - 1 .. size PROVE h[i] = Turn(h, i)
    <3>1. CASE i = m - 1
      <4>1. h[m] = g[m] /\ h[m - 1] = g[m] \o FreedByPop(f, m)
        BY <2>4, <3>1
      <4> HIDE DEF h
      <4>2. QED BY <2>4, <3>1, <4>1
    <3>2. CASE i # m - 1
      <4>1. i \in m .. size /\ h[i] = g[i]
        BY <2>4, <3>2
      <4>2. i # size => h[i + 1] = g[i + 1]
        BY <2>4, <4>1
      <4> HIDE DEF h
      <4>3. QED BY <2>5, <4>1, <4>2
    <3>3. QED BY <3>1, <3>2
  <2>7. Runs(m - 1, h)
    <3>1. h = [i \in m - 1 .. size |-> h[i]]
      OBVIOUS
    <3> HIDE DEF h, Turn
    <3>2. QED BY <2>6, <3>1
  <2> HIDE DEF Runs, h
  <2>8. QED BY <2>4, <2>7
<1>4. n \in done
  <2> HIDE DEF done
  <2>1. \A m \in n .. size : m \in done
    BY <1>1, <1>2, <1>3, Downwards
  <2>2. QED BY <1>1, <2>1
<1>5. Cutting(f, n) = CHOOSE g : Runs(n, g)
  BY DEF Cutting, size
<1>6. Runs(n, Cutting(f, n))
  <2> HIDE DEF Runs
  <2>1. QED BY <1>4, <1>5
<1>7. \A i \in n .. size : Cutting(f, n)[i] = Turn(Cutting(f, n), i)
  <2> HIDE DEF Turn
  <2>1. QED BY <1>6
<1>8. \A i \in n .. size - 1 : i \in n .. size /\ i # size
  BY <1>1
<1>9. QED BY <1>1, <1>7, <1>8 DEF size

\* The inode table with another size for one file.
Resized(ino, f, n) == [ino EXCEPT ![f].size = n]

\* Where there are blocks, there are numbers: the direct blocks in use, and
\* the root of every tree with a leaf.
Rooted ==
    \A f \in Files :
       /\ \A k \in 0 .. inode[f].size - 1 : k < Direct => inode[f].direct[k] \in Blocks
       /\ \A l \in Levels : Base(l) < inode[f].size => inode[f].root[l] \in Blocks

LEMMA ResizedIs ==
  ASSUME NEW ino \in Inodes, NEW f \in Files, NEW n \in 0 .. MaxSize
  PROVE  /\ Resized(ino, f, n) \in Inodes
         /\ SameNames(ino, Resized(ino, f, n))
         /\ Resized(ino, f, n)[f].size = n
         /\ \A g \in Files : g # f => Resized(ino, f, n)[g] = ino[g]
         /\ Sized(Resized(ino, f, n)) /\ Sized(ino)
         /\ Resized(ino, f, ino[f].size) = ino
<1> DEFINE two == Resized(ino, f, n)
<1>1. /\ ino = [g \in Files |-> ino[g]]
      /\ \A g \in Files : /\ ino[g] = [size |-> ino[g].size, direct |-> ino[g].direct, root |-> ino[g].root]
                          /\ ino[g].size \in 0 .. MaxSize
  BY DEF Inodes
<1>2. two \in Inodes
  BY DEF Inodes, Resized
<1>3. /\ two[f].size = n /\ two[f].direct = ino[f].direct /\ two[f].root = ino[f].root
      /\ \A g \in Files : g # f => two[g] = ino[g]
  BY <1>1 DEF Resized
<1>4. SameNames(ino, two)
  <2> HIDE DEF two
  <2>1. QED BY <1>3 DEF SameNames
<1>5. Sized(two) /\ Sized(ino)
  <2>1. \A s \in 0 .. MaxSize : s \in 0 .. Base(4)
    <3>1. MaxSize \in 0 .. Base(4) /\ Base(4) \in Nat
      BY SizeAssumption, Bases
    <3>2. QED BY <3>1
  <2> HIDE DEF two
  <2>2. \A g \in Files : two[g].size \in 0 .. MaxSize
    BY <1>1, <1>3
  <2>3. QED BY <1>1, <2>1, <2>2 DEF Sized
<1>6. Resized(ino, f, ino[f].size) = ino
  <2>1. [ino[f] EXCEPT !.size = ino[f].size] = ino[f]
    BY <1>1
  <2>2. Resized(ino, f, ino[f].size) = [ino EXCEPT ![f] = [ino[f] EXCEPT !.size = ino[f].size]]
    BY DEF Resized
  <2>3. [ino EXCEPT ![f] = ino[f]] = ino
    BY <1>1
  <2>4. QED BY <2>1, <2>2, <2>3
<1>7. QED BY <1>2, <1>3, <1>4, <1>5, <1>6

\* Only block numbers come back, also when a tree is pruned.
LEMMA CutTyped ==
  ASSUME Shape, Rooted, NEW f \in Files, NEW n \in 0 .. inode[f].size
  PROVE  FreedByCut(f, n) \in Seq(Blocks)
<1> DEFINE size == inode[f].size
           c == Cutting(f, n)
           done == {i \in n .. size : c[i] \in Seq(Blocks)}
<1>1. size \in Nat /\ size \in 0 .. Base(4) /\ Base(4) \in Nat
  <2>1. size \in 0 .. MaxSize /\ MaxSize \in 0 .. Base(4) /\ Base(4) \in Nat
    BY SizeAssumption, Bases DEF Shape, Inodes
  <2>2. QED BY <2>1
<1>2. ASSUME NEW i \in 0 .. size - 1
      PROVE  FreedByPop(f, i + 1) \in Seq(Blocks)
  <2>1. i \in Nat /\ i < Base(4) /\ (i + 1) - 1 = i
    BY <1>1
  <2> DEFINE level == LevelOf(i)
  <2>2. level \in 0 .. 3 /\ Base(level) <= i /\ i < Base(level + 1)
    BY <2>1, LevelIs
  <2>3. CASE level = 0
    <3>1. i < Direct
      BY <2>2, <2>3, Bases
    <3>2. inode[f].direct[i] \in Blocks
      BY <3>1 DEF Rooted
    <3>3. QED BY <2>1, <2>3, <3>2 DEF FreedByPop
  <2>4. CASE level # 0
    <3>1. level \in 1 .. 3 /\ level \in Levels /\ Base(level) \in Nat
      <4>1. level \in 1 .. 3 /\ level \in 0 .. 4
        BY <2>2, <2>4
      <4> HIDE DEF level
      <4>2. QED BY <4>1, Bases DEF Levels
    <3>2. Base(level) < size
      <4> HIDE DEF level
      <4>1. QED BY <1>1, <2>2, <3>1
    <3>3. inode[f].root[level] \in Blocks
      <4> HIDE DEF level
      <4>1. QED BY <3>1, <3>2 DEF Rooted
    <3>4. FreedByPop(f, i + 1) = Popped(f, level, (i + 1) - Base(level))
      BY <2>1, <2>4 DEF FreedByPop
    <3> HIDE DEF level
    <3>5. QED BY <3>1, <3>3, <3>4, PoppedTyped
  <2>5. QED BY <2>3, <2>4
<1>3. c[size] = << >> /\ \A i \in n .. size - 1 : c[i] = c[i + 1] \o FreedByPop(f, i + 1)
  BY <1>1, CuttingRuns
<1> HIDE DEF c, size
<1>4. n \in Nat /\ n \in n .. size /\ size \in n .. size
  BY <1>1 DEF size
<1>5. size \in done
  BY <1>3, <1>4, EmptySeq
<1>6. \A i \in n + 1 .. size : i \in done => i - 1 \in done
  <2>1. TAKE i \in n + 1 .. size
  <2>2. HAVE i \in done
  <2>3. i - 1 \in n .. size /\ i - 1 \in n .. size - 1 /\ i - 1 \in 0 .. size - 1 /\ (i - 1) + 1 = i
    BY <1>1, <1>4
  <2>4. c[i - 1] = c[i] \o FreedByPop(f, i) /\ FreedByPop(f, i) \in Seq(Blocks)
    BY <1>2, <1>3, <2>3
  <2>5. c[i - 1] \in Seq(Blocks)
    BY <2>2, <2>4, ConcatProperties
  <2>6. QED BY <2>3, <2>5
<1>7. \A i \in n .. size : i \in done
  <2> HIDE DEF done
  <2>1. QED BY <1>1, <1>4, <1>5, <1>6, Downwards
<1>8. QED BY <1>4, <1>7 DEF FreedByCut, c

\* A file without trees gives back exactly the blocks it loses.
LEMMA CutFits ==
  ASSUME Shape, Apart(InUse(inode), inode, index, pool),
         NEW f \in Files, inode[f].size <= Direct, NEW n \in 0 .. inode[f].size
  PROVE  LET list == pool \o FreedByCut(f, n)
             ino == Resized(inode, f, n)
         IN  /\ Apart(InUse(ino), ino, index, list)
             /\ Whole(InUse(ino), ino, index, list) = Whole(InUse(inode), inode, index, pool)
             /\ Len(list) + n = Len(pool) + inode[f].size
             /\ Len(FreedByCut(f, n)) + n = inode[f].size
             /\ InUse(ino) \subseteq InUse(inode)
<1> DEFINE size == inode[f].size
           c == Cutting(f, n)
           ino(i) == Resized(inode, f, i)
           all == Whole(InUse(inode), inode, index, pool)
           Fits(i) == /\ c[i] \in Seq(Blocks) /\ Len(c[i]) + i = size
                      /\ Apart(InUse(ino(i)), ino(i), index, pool \o c[i])
                      /\ Whole(InUse(ino(i)), ino(i), index, pool \o c[i]) = all
                      /\ InUse(ino(i)) \subseteq InUse(inode)
           done == {i \in n .. size : Fits(i)}
<1>1. /\ inode \in Inodes /\ pool \in Seq(Blocks)
      /\ size \in 0 .. MaxSize /\ MaxSize \in 0 .. Base(4) /\ Base(4) \in Nat
      /\ Direct \in Nat /\ size <= Direct /\ Base(0) = 0 /\ Base(1) = Direct
  BY SizeAssumption, Bases DEF Shape, Inodes
<1>2. c[size] = << >> /\ \A i \in n .. size - 1 : c[i] = c[i + 1] \o FreedByPop(f, i + 1)
  <2>1. size \in Nat
    BY <1>1
  <2>2. QED BY <2>1, CuttingRuns
<1> HIDE DEF c
<1>3. n \in Nat /\ n \in n .. size /\ size \in n .. size /\ size \in Nat
  BY <1>1
<1>4. ino(size) = inode /\ \A i \in 0 .. size :
         /\ ino(i) \in Inodes /\ SameNames(inode, ino(i)) /\ ino(i)[f].size = i
         /\ Sized(ino(i)) /\ \A g \in Files : g # f => ino(i)[g] = inode[g]
  <2>1. \A i \in 0 .. size : i \in 0 .. MaxSize
    BY <1>1
  <2>2. QED BY <1>1, <2>1, ResizedIs
<1> HIDE DEF size, ino, all
<1>5. size \in done
  <2>1. << >> \in Seq(Blocks) /\ pool \o << >> = pool
    BY <1>1, EmptySeq, ConcatEmptySeq
  <2>2. Len(<< >>) = 0
    BY EmptySeq
  <2>3. Fits(size)
    BY <1>2, <1>3, <1>4, <2>1, <2>2 DEF all
  <2>4. QED BY <1>3, <2>3
<1>6. \A i \in n + 1 .. size : i \in done => i - 1 \in done
  <2>1. TAKE i \in n + 1 .. size
  <2>2. HAVE i \in done
  <2> DEFINE j == i - 1
             x == <<f, At(j, 0)>>
             b == inode[f].direct[j]
  <2>3. /\ j \in n .. size /\ j \in n .. size - 1 /\ j \in 0 .. size /\ j + 1 = i /\ i \in 0 .. size
        /\ j \in Nat /\ j < Direct /\ j < Base(4)
    BY <1>1, <1>3
  <2>4. LevelOf(j) = 0 /\ 0 \in 0 .. LevelOf(j)
    <3> HIDE DEF j
    <3>1. 0 + 1 = 1 /\ 0 \in 0 .. 3 /\ Base(0) <= j
      BY <1>1, <2>3
    <3>2. LevelOf(j) = 0
      BY <1>1, <2>3, <3>1, LevelIs
    <3>3. QED BY <3>2
  <2>5. At(j, 0)[1] = 0 /\ At(j, 0)[3] = j
    <3> HIDE DEF j
    <3>1. QED BY <2>3, <2>4, AtIs
  <2> HIDE DEF j
  <2>6. c[j] = c[i] \o <<b>>
    <3>1. FreedByPop(f, i) = <<b>>
      <4>1. i - 1 = j
        BY DEF j
      <4>2. QED BY <2>4, <4>1 DEF FreedByPop
    <3>2. QED BY <1>2, <2>3, <3>1
  <2>7. Longer(ino(j), ino(i), f)
    BY <1>4, <2>3 DEF Longer
  <2>8. InUse(ino(i)) = InUse(ino(j)) \cup {x} /\ x \notin InUse(ino(j))
    <3>1. ino(j)[f].size = j
      BY <1>4, <2>3
    <3>2. InUse(ino(i)) = InUse(ino(j)) \cup Way(f, j, LevelOf(j)) /\ Leaf(f, j) \notin InUse(ino(j))
      BY <1>4, <2>3, <2>7, <3>1, OneMore
    <3>3. Way(f, j, 0) = {x} /\ Leaf(f, j) = x
      <4>1. Way(f, j, 0) = {x}
        BY <2>3, <2>4, WayIs
      <4>2. QED BY <2>4, <4>1 DEF Leaf
    <3>4. QED BY <2>4, <3>2, <3>3
  <2>9. b = BlockOf(ino(i), index, x)
    <3>1. ino(i)[f].direct = inode[f].direct
      BY <1>4, <2>3 DEF SameNames
    <3>2. QED BY <2>5, <3>1 DEF BlockOf
  <2>10. Fits(i)
    BY <2>2
  <2> DEFINE list == pool \o c[i]
  <2>11. Apart(InUse(ino(j)) \cup {x}, ino(i), index, list)
         /\ Whole(InUse(ino(j)) \cup {x}, ino(i), index, list) = all
    BY <2>8, <2>10
  <2>12. b \in Blocks
    BY <2>9, <2>11 DEF Apart
  <2>13. c[j] \in Seq(Blocks) /\ Len(c[j]) = Len(c[i]) + 1 /\ Len(c[i]) \in Nat
         /\ pool \o c[j] = list \o <<b>>
    <3>1. c[i] \in Seq(Blocks) /\ <<b>> \in Seq(Blocks)
      BY <2>10, <2>12
    <3>2. pool \o (c[i] \o <<b>>) = (pool \o c[i]) \o <<b>>
      <4>1. ASSUME NEW s \in Seq(Blocks), NEW t \in Seq(Blocks), NEW u \in Seq(Blocks)
            PROVE  (s \o t) \o u = s \o (t \o u)
        BY ConcatAssociative, Z3T(30)
      <4> HIDE DEF b
      <4>2. QED BY <1>1, <3>1, <4>1
    <3>3. QED BY <2>6, <2>12, <3>1, <3>2, Added
  <2> HIDE DEF list, b, x
  <2>14. Apart(InUse(ino(j)), ino(i), index, list \o <<b>>)
         /\ Whole(InUse(ino(j)), ino(i), index, list \o <<b>>) = all
    BY <2>8, <2>9, <2>11, Returned
  <2>15. Still(InUse(ino(j)), ino(i), index, ino(j), index)
    <3>1. SameNames(ino(i), ino(j))
      BY <1>4, <2>3 DEF SameNames
    <3>2. InUse(ino(j)) \in SUBSET (Files \X AllNodes)
      BY DEF InUse
    <3>3. QED BY <3>1, <3>2, StillByNames
  <2>16. Apart(InUse(ino(j)), ino(j), index, pool \o c[j])
         /\ Whole(InUse(ino(j)), ino(j), index, pool \o c[j]) = all
    BY <2>13, <2>14, <2>15, StillWhole
  <2>17. Len(c[j]) + j = size
    <3>1. Len(c[i]) + i = size
      BY <2>10
    <3>2. Len(c[j]) = Len(c[i]) + 1 /\ Len(c[i]) \in Nat /\ j + 1 = i /\ j \in Nat
      BY <2>3, <2>13
    <3> DEFINE v == Len(c[i])
               w == Len(c[j])
    <3> HIDE DEF v, w
    <3>3. v + i = size /\ w = v + 1 /\ v \in Nat /\ j + 1 = i /\ j \in Nat
      BY <3>1, <3>2 DEF v, w
    <3>4. w + j = size
      BY <3>3
    <3>5. QED BY <3>4 DEF w
  <2>18. InUse(ino(j)) \subseteq InUse(inode)
    BY <2>8, <2>10
  <2>19. j \in done
    BY <2>3, <2>13, <2>16, <2>17, <2>18
  <2>20. QED BY <2>19 DEF j
<1>7. n \in done
  <2> HIDE DEF done
  <2>1. \A i \in n .. size : i \in done
    BY <1>3, <1>5, <1>6, Downwards
  <2>2. QED BY <1>3, <2>1
<1>8. Fits(n)
  BY <1>7
<1>9. Len(pool \o c[n]) = Len(pool) + Len(c[n]) /\ Len(pool) \in Nat /\ Len(c[n]) \in Nat
  BY <1>1, <1>8, ConcatProperties, LenProperties
<1>10. Len(pool \o c[n]) + n = Len(pool) + size
  BY <1>3, <1>8, <1>9
<1>11. QED BY <1>8, <1>10 DEF FreedByCut, c, ino, all, size

-----------------------------------------------------------------------------
(* The invariant.                                                          *)

\* Every file block is read where it was written.
Reads(ino, device, dat) ==
    \A f \in Files : \A k \in 0 .. ino[f].size - 1 :
       dat[BlockOf(ino, device, Leaf(f, k))] = <<f, k>>

Typed ==
    /\ Shape /\ Rooted
    /\ data \in [Blocks -> (Files \X (0 .. MaxSize - 1)) \cup {NoData}]
    /\ refused \in BOOLEAN /\ pruned \in BOOLEAN

Sound ==
    /\ Apart(InUse(inode), inode, index, pool)
    /\ used \in Int /\ used + Len(pool) = Count
    /\ Reads(inode, index, data)
    /\ refused \/ Whole(InUse(inode), inode, index, pool) = Blocks

Inv == Typed /\ (pruned \/ Sound)

\* What an action does not do: move a node that is in use.
Steady == ~pruned' => Still(InUse(inode), inode, index, inode', index')

LEMMA LeafInUse ==
  ASSUME NEW ino, Sized(ino), NEW f \in Files, NEW k \in 0 .. ino[f].size - 1
  PROVE  k \in Nat /\ k < Base(4) /\ Leaf(f, k) \in InUse(ino)
<1>1. k \in Nat /\ k < Base(4)
  <2>1. ino[f].size \in 0 .. Base(4) /\ Base(4) \in Nat
    BY Bases DEF Sized
  <2>2. QED BY <2>1
<1>2. Leaf(f, k) \in Files \X AllNodes /\ Leaf(f, k)[1] = f /\ Leaf(f, k)[2] \in Path(k)
  BY <1>1, LeafIs
<1>3. Leaf(f, k)[2] \in NodesUpTo(ino[f].size)
  BY <1>2 DEF NodesUpTo
<1>4. QED BY <1>1, <1>2, <1>3 DEF InUse

\* A file grows by one block, whose data are written, and no other block that
\* is in use is written to.
Untouched(S, ino, device, dat, dat2) ==
    \A x \in S : dat2[BlockOf(ino, device, x)] = dat[BlockOf(ino, device, x)]

LEMMA ReadsMore ==
  ASSUME NEW ino, NEW ino2, NEW f \in Files, Sized(ino), Sized(ino2), Longer(ino, ino2, f),
         NEW device, NEW device2, NEW dat, NEW dat2, Reads(ino, device, dat),
         Still(InUse(ino), ino, device, ino2, device2),
         Untouched(InUse(ino), ino, device, dat, dat2),
         dat2[BlockOf(ino2, device2, Leaf(f, ino[f].size))] = <<f, ino[f].size>>
  PROVE  Reads(ino2, device2, dat2)
<1>1. SUFFICES ASSUME NEW g \in Files, NEW k \in 0 .. ino2[g].size - 1
               PROVE  dat2[BlockOf(ino2, device2, Leaf(g, k))] = <<g, k>>
  BY DEF Reads
<1>2. CASE g = f /\ k = ino[f].size
  BY <1>2
<1>3. CASE k \in 0 .. ino[g].size - 1
  <2>1. Leaf(g, k) \in InUse(ino)
    BY <1>3, LeafInUse
  <2>2. dat[BlockOf(ino, device, Leaf(g, k))] = <<g, k>>
    BY <1>3 DEF Reads
  <2>3. BlockOf(ino2, device2, Leaf(g, k)) = BlockOf(ino, device, Leaf(g, k))
    BY <2>1 DEF Still
  <2>4. QED BY <2>1, <2>2, <2>3 DEF Untouched
<1>4. (g = f /\ k = ino[f].size) \/ k \in 0 .. ino[g].size - 1
  <2>1. ino[g].size \in Nat /\ ino2[g].size = IF g = f THEN ino[f].size + 1 ELSE ino[g].size
    <3>1. ino[g].size \in 0 .. Base(4) /\ Base(4) \in Nat
      BY Bases DEF Sized
    <3>2. QED BY <3>1 DEF Longer
  <2>2. QED BY <2>1
<1>5. QED BY <1>2, <1>3, <1>4

LEMMA ReadsSame ==
  ASSUME NEW ino, NEW ino2, Sized(ino), \A g \in Files : ino2[g].size = ino[g].size,
         NEW device, NEW device2, NEW dat, NEW dat2, Reads(ino, device, dat),
         Still(InUse(ino), ino, device, ino2, device2),
         Untouched(InUse(ino), ino, device, dat, dat2)
  PROVE  Reads(ino2, device2, dat2) /\ InUse(ino2) = InUse(ino)
<1>1. ASSUME NEW g \in Files, NEW k \in 0 .. ino2[g].size - 1
      PROVE  dat2[BlockOf(ino2, device2, Leaf(g, k))] = <<g, k>>
  <2>1. k \in 0 .. ino[g].size - 1
    OBVIOUS
  <2>2. Leaf(g, k) \in InUse(ino)
    BY <2>1, LeafInUse
  <2>3. dat[BlockOf(ino, device, Leaf(g, k))] = <<g, k>>
    BY <2>1 DEF Reads
  <2>4. BlockOf(ino2, device2, Leaf(g, k)) = BlockOf(ino, device, Leaf(g, k))
    BY <2>2 DEF Still
  <2>5. QED BY <2>2, <2>3, <2>4 DEF Untouched
<1>2. InUse(ino2) = InUse(ino)
  <2>1. \A x \in Files \X AllNodes : ino2[x[1]].size = ino[x[1]].size
    OBVIOUS
  <2>2. QED BY <2>1 DEF InUse
<1>3. QED BY <1>1, <1>2 DEF Reads

LEMMA InitKeeps == Init => Inv
<1> SUFFICES ASSUME Init PROVE Inv
  OBVIOUS
<1>1. /\ inode \in Inodes /\ index \in Devices
      /\ data \in [Blocks -> (Files \X (0 .. MaxSize - 1)) \cup {NoData}]
      /\ used = 0 /\ refused = FALSE /\ pruned = FALSE
      /\ \A f \in Files : inode[f].size = 0
  <2>1. 0 \in 0 .. MaxSize
    <3>1. MaxSize \in 0 .. Base(4) /\ Base(4) \in Nat
      BY SizeAssumption, Bases
    <3>2. QED BY <3>1
  <2>2. inode \in Inodes
    BY <2>1 DEF Init, Inodes
  <2>3. index \in Devices
    BY DEF Init, Devices, Junk
  <2>4. QED BY <2>2, <2>3 DEF Init
<1>2. pool \in Seq(Blocks) /\ Len(pool) = Count /\ DOMAIN pool = Blocks /\ \A i \in Blocks : pool[i] = i
  <2>1. pool = [i \in 1 .. Count |-> i] /\ Count \in Nat
    BY CountAssumption DEF Init, Blocks
  <2>2. QED BY <2>1 DEF Blocks
<1>3. IsInjective(pool) /\ ToSet(pool) = Blocks
  BY <1>2 DEF IsInjective, ToSet
<1>4. InUse(inode) = {}
  <2>1. NodesUpTo(0) = {}
    BY NodesStep
  <2>2. QED BY <1>1, <2>1 DEF InUse
<1>5. Rooted
  <2>1. \A l \in Levels : ~(Base(l) < 0)
    <3>1. \A l \in Levels : Base(l) \in Nat
      BY Bases DEF Levels
    <3>2. QED BY <3>1
  <2>2. QED BY <1>1, <2>1 DEF Rooted
<1>6. Reads(inode, index, data)
  BY <1>1 DEF Reads
<1>7. Apart(InUse(inode), inode, index, pool)
  BY <1>2, <1>3, <1>4 DEF Apart
<1>8. Whole(InUse(inode), inode, index, pool) = Blocks
  BY <1>3, <1>4 DEF Whole, Held
<1>9. used + Len(pool) = Count
  BY <1>1, <1>2, CountAssumption
<1>10. used \in Int /\ refused \in BOOLEAN /\ pruned \in BOOLEAN
  <2>1. used = 0 /\ refused = FALSE /\ pruned = FALSE
    BY <1>1
  <2>2. used \in Int
    BY <2>1
  <2>3. refused \in BOOLEAN /\ pruned \in BOOLEAN
    BY <2>1
  <2>4. QED BY <2>2, <2>3
<1>11. Typed
  BY <1>1, <1>2, <1>5, <1>10 DEF Typed, Shape
<1>12. Sound
  BY <1>6, <1>7, <1>8, <1>9, <1>10 DEF Sound
<1>13. QED BY <1>11, <1>12 DEF Inv

-----------------------------------------------------------------------------
(* base_file_write at the end of a file without trees.                     *)

WithDirect(f, k, b) == [inode EXCEPT ![f].direct[k] = b]

LEMMA DirectIs ==
  ASSUME Shape, NEW f \in Files, NEW k \in 0 .. Direct - 1, NEW b \in Blocks \cup {NoBlock}
  PROVE  LET ino == WithDirect(f, k, b)
         IN  /\ ino \in Inodes
             /\ \A g \in Files : ino[g].size = inode[g].size /\ ino[g].root = inode[g].root
             /\ \A g \in Files : g # f => ino[g] = inode[g]
             /\ \A i \in 0 .. Direct - 1 :
                   ino[f].direct[i] = IF i = k THEN b ELSE inode[f].direct[i]
<1> DEFINE ino == WithDirect(f, k, b)
           dir == [inode[f].direct EXCEPT ![k] = b]
<1>1. /\ inode = [g \in Files |-> inode[g]]
      /\ \A g \in Files : /\ inode[g] = [size |-> inode[g].size, direct |-> inode[g].direct,
                                         root |-> inode[g].root]
                          /\ inode[g].direct \in [0 .. Direct - 1 -> Blocks \cup {NoBlock}]
                          /\ inode[g].root \in [Levels -> Blocks \cup {NoBlock}]
                          /\ inode[g].size \in 0 .. MaxSize
  BY DEF Shape, Inodes
<1>2. /\ dir \in [0 .. Direct - 1 -> Blocks \cup {NoBlock}]
      /\ \A i \in 0 .. Direct - 1 : dir[i] = IF i = k THEN b ELSE inode[f].direct[i]
  BY <1>1
<1>3. ino = [inode EXCEPT ![f] = [inode[f] EXCEPT !.direct = dir]]
  BY DEF WithDirect
<1> HIDE DEF dir, ino
<1>4. [inode[f] EXCEPT !.direct = dir] = [size |-> inode[f].size, direct |-> dir, root |-> inode[f].root]
  BY <1>1
<1>5. /\ ino[f].direct = dir /\ ino[f].size = inode[f].size /\ ino[f].root = inode[f].root
      /\ \A g \in Files : g # f => ino[g] = inode[g]
  BY <1>1, <1>3, <1>4
<1>6. ino \in Inodes
  BY <1>1, <1>2, <1>3, <1>4 DEF Inodes
<1>7. \A g \in Files : ino[g].size = inode[g].size /\ ino[g].root = inode[g].root
  BY <1>5
<1>8. QED BY <1>2, <1>5, <1>6, <1>7 DEF ino

\* A number that is put into an inode where no node in use has its place.
LEMMA DirectStays ==
  ASSUME Shape, NEW S \in SUBSET (Files \X AllNodes), NEW f \in Files, NEW k \in 0 .. Direct - 1,
         NEW b \in Blocks \cup {NoBlock}, <<f, <<0, 0, k>>>> \notin S
  PROVE  Still(S, inode, index, WithDirect(f, k, b), index)
<1> DEFINE ino == WithDirect(f, k, b)
<1>1. /\ \A g \in Files : ino[g].size = inode[g].size /\ ino[g].root = inode[g].root
      /\ \A g \in Files : g # f => ino[g] = inode[g]
      /\ \A i \in 0 .. Direct - 1 :
            ino[f].direct[i] = IF i = k THEN b ELSE inode[f].direct[i]
  BY DirectIs
<1> HIDE DEF ino
<1>2. ASSUME NEW x \in S PROVE BlockOf(ino, index, x) = BlockOf(inode, index, x)
  <2>1. /\ x \in Files \X AllNodes /\ x[1] \in Files /\ x = <<x[1], x[2]>>
        /\ x[2] = <<x[2][1], x[2][2], x[2][3]>>
        /\ x[2][1] \in 0 .. 3 /\ x[2][3] \in Nat
        /\ (x[2][1] = 0 => x[2][2] = 0 /\ x[2][3] < Direct)
    <3>1. x \in Files \X AllNodes
      OBVIOUS
    <3>2. QED BY <3>1, NodeIs
  <2>2. CASE x[2][1] # 0
    BY <1>1, <2>1, <2>2 DEF BlockOf
  <2>3. CASE x[2][1] = 0
    <3>1. x = <<x[1], <<0, 0, x[2][3]>>>>
      BY <2>1, <2>3
    <3>2. x[1] # f \/ x[2][3] # k
      BY <3>1
    <3>3. x[2][3] \in 0 .. Direct - 1
      <4>1. Direct \in Nat
        BY DirectAssumption
      <4>2. QED BY <2>1, <2>3, <4>1
    <3>4. ino[x[1]].direct[x[2][3]] = inode[x[1]].direct[x[2][3]]
      BY <1>1, <2>1, <3>2, <3>3
    <3>5. QED BY <2>3, <3>4 DEF BlockOf
  <2>4. QED BY <2>2, <2>3
<1>3. QED BY <1>2 DEF Still, ino

\* The first facts about an append: what it takes, and what becomes of the
\* inode.  n is the size that follows.
LEMMA TakeDirect ==
  ASSUME Shape, NEW f \in Files
  PROVE  LET s == Take(Store(f, 1))
         IN  /\ pool = << >> => ~s.ok /\ s.pool = pool /\ s.used = used /\ s.block = NoBlock
             /\ pool # << >> => /\ s.ok /\ s.block = Last(pool) /\ s.block \in Blocks
                                /\ s.pool = Front(pool) /\ s.used = used + 1
             /\ s.pool \in Seq(Blocks) /\ s.ok \in BOOLEAN
<1> DEFINE t == Store(f, 1)
           s == Take(t)
<1>1. 1 \in Levels
  BY DEF Levels
<1>2. StoreOK(t) /\ t.ok /\ t.pool = pool /\ t.used = used
  BY <1>1, StoreIs
<1>3. t.block = NoBlock
  BY DEF Store
<1>4. t = [ok |-> t.ok, block |-> t.block, root |-> t.root, index |-> t.index,
           pool |-> t.pool, used |-> t.used]
  BY <1>2 DEF StoreOK
<1> HIDE DEF t
<1>5. pool = << >> => s.block = NoBlock
  BY <1>2, <1>3, <1>4 DEF Take
<1>6. /\ StoreOK(s)
      /\ t.pool = << >> => ~s.ok /\ s.pool = t.pool /\ s.used = t.used
      /\ t.pool # << >> =>
           /\ s.ok = t.ok /\ s.block = Last(t.pool) /\ Last(t.pool) \in Blocks
           /\ s.pool = Front(t.pool) /\ s.used = t.used + 1
  BY <1>2, TakeIs
<1> HIDE DEF s
<1>7. s.pool \in Seq(Blocks) /\ s.ok \in BOOLEAN
  BY <1>6 DEF StoreOK
<1>8. QED BY <1>2, <1>5, <1>6, <1>7 DEF s, t

\* The next block of a file.
LEMMA NextIs ==
  ASSUME Shape, NEW f \in Files, inode[f].size < MaxSize
  PROVE  LET k == inode[f].size
         IN  /\ k \in Nat /\ k < Base(4) /\ k \in 0 .. MaxSize - 1 /\ k + 1 \in 0 .. MaxSize
             /\ Sized(inode) /\ inode \in Inodes
             /\ LevelOf(k) \in 0 .. 3
             /\ Leaf(f, k) \notin InUse(inode)
             /\ \A d \in 0 .. LevelOf(k) :
                   <<f, At(k, d)>> \in InUse(inode)
                     <=> (k - Base(LevelOf(k))) % Width(LevelOf(k) - d) # 0
<1> DEFINE k == inode[f].size
           ino == Resized(inode, f, k + 1)
<1>1. inode \in Inodes /\ k \in 0 .. MaxSize /\ MaxSize \in Nat
  <2>1. inode \in Inodes /\ k \in 0 .. MaxSize
    BY DEF Shape, Inodes
  <2>2. MaxSize \in 0 .. Base(4) /\ Base(4) \in Nat
    BY SizeAssumption, Bases
  <2>3. QED BY <2>1, <2>2
<1>2. k \in 0 .. MaxSize - 1 /\ k + 1 \in 0 .. MaxSize
  BY <1>1
<1>3. /\ Sized(inode) /\ Sized(ino) /\ ino[f].size = k + 1
      /\ \A g \in Files : g # f => ino[g] = inode[g]
  <2> HIDE DEF k
  <2>1. QED BY <1>1, <1>2, ResizedIs
<1>4. Longer(inode, ino, f)
  <2> HIDE DEF ino
  <2>1. QED BY <1>3 DEF Longer
<1> HIDE DEF ino
<1>5. QED BY <1>1, <1>2, <1>3, <1>4, OneMore

\* The data of the new block are written to it.
LEMMA Appended ==
  ASSUME Shape, Sound, NEW f \in Files, inode[f].size < MaxSize,
         NEW ino2 \in Inodes, Longer(inode, ino2, f),
         NEW device \in Devices, NEW list, NEW b, NEW dat2,
         Still(InUse(inode), inode, index, ino2, device),
         Apart(InUse(inode) \cup Way(f, inode[f].size, LevelOf(inode[f].size)), ino2, device, list),
         Whole(InUse(inode) \cup Way(f, inode[f].size, LevelOf(inode[f].size)), ino2, device, list)
           = Whole(InUse(inode), inode, index, pool),
         b = BlockOf(ino2, device, Leaf(f, inode[f].size)),
         dat2[b] = <<f, inode[f].size>>,
         Untouched(InUse(inode), inode, index, data, dat2)
  PROVE  LET device2 == [device EXCEPT ![b] = Junk]
         IN  /\ Apart(InUse(ino2), ino2, device2, list)
             /\ Whole(InUse(ino2), ino2, device2, list) = Whole(InUse(inode), inode, index, pool)
             /\ Reads(ino2, device2, dat2)
             /\ Still(InUse(inode), inode, index, ino2, device2)
<1> DEFINE S == InUse(inode)
           k == inode[f].size
           x == Leaf(f, k)
           T == S \cup Way(f, k, LevelOf(k))
           device2 == [device EXCEPT ![b] = Junk]
<1>1. Sized(inode) /\ Sized(ino2)
  <2>1. Sized(inode)
    BY NextIs
  <2>2. \A g \in Files : ino2[g].size \in 0 .. MaxSize
    BY DEF Inodes
  <2>3. MaxSize \in 0 .. Base(4) /\ Base(4) \in Nat
    BY SizeAssumption, Bases
  <2>4. QED BY <2>1, <2>2, <2>3 DEF Sized
<1>2. InUse(ino2) = T /\ k \in Nat /\ k < Base(4) /\ k + 1 = ino2[f].size
  <2>1. ino2[f].size = k + 1
    BY DEF Longer
  <2>2. QED BY <1>1, <2>1, OneMore
<1>3. Closed(T) /\ x \in T /\ x[2][2] = x[2][1]
  <2>1. Closed(InUse(ino2))
    BY <1>1, InUseIs
  <2>2. x[2][2] = x[2][1]
    BY <1>2, LeafIs
  <2>3. k \in 0 .. ino2[f].size - 1
    BY <1>2
  <2>4. x \in InUse(ino2)
    BY <1>1, <2>3, LeafInUse
  <2>5. QED BY <1>2, <2>1, <2>2, <2>4
<1> HIDE DEF x, T, k
<1>4. Apart(T, ino2, device, list) /\ b = BlockOf(ino2, device, x)
      /\ Whole(T, ino2, device, list) = Whole(S, inode, index, pool)
  BY DEF T, k, x
<1>5. Still(T, ino2, device, ino2, device2)
  BY <1>3, <1>4, Scribbled
<1> HIDE DEF device2
<1>6. Apart(T, ino2, device2, list) /\ Whole(T, ino2, device2, list) = Whole(S, inode, index, pool)
  BY <1>4, <1>5, StillWhole
<1>7. Still(S, ino2, device, ino2, device2)
  BY <1>5 DEF Still, T
<1> HIDE DEF S
<1>8. Still(S, inode, index, ino2, device) /\ Untouched(S, inode, index, data, dat2)
  BY DEF S
<1>9. Still(S, inode, index, ino2, device2)
  BY <1>7, <1>8, StillOn
<1>10. BlockOf(ino2, device2, x) = b
  BY <1>3, <1>4, <1>5 DEF Still
<1>11. Reads(ino2, device2, dat2)
  <2>1. Reads(inode, index, data)
    BY DEF Sound
  <2>2. dat2[BlockOf(ino2, device2, Leaf(f, inode[f].size))] = <<f, inode[f].size>>
    BY <1>10 DEF x, k
  <2>3. Still(InUse(inode), inode, index, ino2, device2)
    BY <1>9 DEF S
  <2> HIDE DEF S
  <2>4. QED BY <1>1, <2>1, <2>2, <2>3, ReadsMore
<1>12. QED BY <1>2, <1>6, <1>9, <1>11 DEF device2, S

\* What AppendDirect makes of the inode table.
LEMMA AppendDirectIs ==
  ASSUME Shape, NEW f \in Files, AppendDirect(f)
  PROVE  LET k == inode[f].size
             s == Take(Store(f, 1))
             ino == WithDirect(f, k, s.block)
             n == IF s.ok THEN k + 1 ELSE k
         IN  /\ k < Direct /\ k \in 0 .. Direct - 1 /\ k < MaxSize /\ k \in 0 .. MaxSize - 1 /\ k + 1 \in 0 .. MaxSize
             /\ k \in Nat /\ LevelOf(k) = 0
             /\ s.block \in Blocks \cup {NoBlock} /\ n \in 0 .. MaxSize
             /\ inode' = Resized(ino, f, n)
             /\ inode' \in Inodes /\ SameNames(ino, inode')
             /\ inode'[f].size = n
             /\ \A g \in Files : g # f => inode'[g] = inode[g]
             /\ \A i \in 0 .. Direct - 1 :
                   inode'[f].direct[i] = IF i = k THEN s.block ELSE inode[f].direct[i]
             /\ inode'[f].root = inode[f].root
<1> DEFINE k == inode[f].size
           s == Take(Store(f, 1))
           ino == WithDirect(f, k, s.block)
           n == IF s.ok THEN k + 1 ELSE k
<1>1. k < Direct /\ k < MaxSize /\ inode' = Resized(ino, f, n)
  BY DEF AppendDirect, WithDirect, Resized
<1>2. s.block \in Blocks \cup {NoBlock} /\ s.ok \in BOOLEAN
  BY TakeDirect
<1>3. k \in Nat /\ k \in 0 .. MaxSize - 1 /\ k + 1 \in 0 .. MaxSize /\ k < Base(4)
  BY <1>1, NextIs
<1>4. k \in 0 .. Direct - 1
  <2>1. Direct \in Nat
    BY DirectAssumption
  <2>2. QED BY <1>1, <1>3, <2>1
<1>5. LevelOf(k) = 0
  <2>1. Base(0) = 0 /\ Base(0 + 1) = Direct /\ 0 \in 0 .. 3
    <3>1. 0 + 1 = 1
      OBVIOUS
    <3>2. QED BY <3>1, Bases
  <2> HIDE DEF k
  <2>2. Base(0) <= k /\ k < Base(0 + 1)
    BY <1>1, <1>3, <2>1
  <2>3. QED BY <1>3, <2>1, <2>2, LevelIs
<1> HIDE DEF s
<1>6. n \in 0 .. MaxSize
  <2>1. k \in 0 .. MaxSize
    BY DEF Shape, Inodes
  <2>2. n = k + 1 \/ n = k
    OBVIOUS
  <2>3. QED BY <1>3, <2>1, <2>2
<1>7. /\ ino \in Inodes /\ ino[f].root = inode[f].root
      /\ \A g \in Files : g # f => ino[g] = inode[g]
      /\ \A i \in 0 .. Direct - 1 : ino[f].direct[i] = IF i = k THEN s.block ELSE inode[f].direct[i]
  BY <1>2, <1>4, DirectIs
<1> HIDE DEF ino, n, k
<1>8. /\ inode' \in Inodes /\ SameNames(ino, inode') /\ inode'[f].size = n
      /\ \A g \in Files : g # f => inode'[g] = ino[g]
  BY <1>1, <1>6, <1>7, ResizedIs
<1>9. inode'[f].direct = ino[f].direct /\ inode'[f].root = ino[f].root
  BY <1>8 DEF SameNames
<1>10. /\ \A g \in Files : g # f => inode'[g] = inode[g]
       /\ \A i \in 0 .. Direct - 1 : inode'[f].direct[i] = IF i = k THEN s.block ELSE inode[f].direct[i]
       /\ inode'[f].root = inode[f].root
  BY <1>7, <1>8, <1>9
<1>11. QED BY <1>1, <1>2, <1>3, <1>4, <1>5, <1>6, <1>8, <1>10 DEF k, s, n, ino

LEMMA AppendDirectTyped ==
  ASSUME Typed, NEW f \in Files, AppendDirect(f)
  PROVE  Typed'
<1> DEFINE k == inode[f].size
           s == Take(Store(f, 1))
<1>1. /\ Shape /\ Rooted /\ refused \in BOOLEAN /\ pruned \in BOOLEAN
      /\ index \in Devices /\ data \in [Blocks -> (Files \X (0 .. MaxSize - 1)) \cup {NoData}]
  BY DEF Typed, Shape
<1>2. /\ k < Direct /\ k \in 0 .. Direct - 1 /\ k \in 0 .. MaxSize - 1 /\ k \in Nat
      /\ inode' \in Inodes /\ inode'[f].size = IF s.ok THEN k + 1 ELSE k
      /\ \A g \in Files : g # f => inode'[g] = inode[g]
      /\ \A i \in 0 .. Direct - 1 :
            inode'[f].direct[i] = IF i = k THEN s.block ELSE inode[f].direct[i]
      /\ inode'[f].root = inode[f].root
  BY <1>1, AppendDirectIs
<1>3. /\ s.pool \in Seq(Blocks) /\ s.ok \in BOOLEAN
      /\ (s.ok => s.block \in Blocks)
  BY <1>1, TakeDirect
<1>4. /\ index' = IF s.ok THEN [index EXCEPT ![s.block] = Junk] ELSE index
      /\ data' = IF s.ok THEN [data EXCEPT ![s.block] = <<f, k>>] ELSE data
      /\ pool' = s.pool /\ refused' = (refused \/ ~s.ok) /\ pruned' = pruned
  BY DEF AppendDirect
<1> HIDE DEF s
<1>5. index' \in Devices
  <2>1. Junk \in [0 .. PerIndex - 1 -> Blocks \cup {NoBlock}]
    BY DEF Junk
  <2>2. QED BY <1>1, <1>4, <2>1 DEF Devices
<1>6. data' \in [Blocks -> (Files \X (0 .. MaxSize - 1)) \cup {NoData}]
  BY <1>1, <1>2, <1>4
<1>7. Rooted'
  <2>1. SUFFICES ASSUME NEW g \in Files
                 PROVE  /\ \A i \in 0 .. inode'[g].size - 1 : i < Direct => inode'[g].direct[i] \in Blocks
                        /\ \A l \in Levels : Base(l) < inode'[g].size => inode'[g].root[l] \in Blocks
    BY DEF Rooted
  <2>2. /\ \A i \in 0 .. inode[g].size - 1 : i < Direct => inode[g].direct[i] \in Blocks
        /\ \A l \in Levels : Base(l) < inode[g].size => inode[g].root[l] \in Blocks
    BY <1>1 DEF Rooted
  <2>3. CASE g # f
    BY <1>2, <2>2, <2>3
  <2>4. CASE g = f
    <3>1. ASSUME NEW i \in 0 .. inode'[f].size - 1, i < Direct
          PROVE  inode'[f].direct[i] \in Blocks
      <4>1. i \in 0 .. Direct - 1 /\ (i = k => s.ok) /\ (i # k => i \in 0 .. k - 1)
        <5>1. Direct \in Nat
          BY DirectAssumption
        <5> HIDE DEF k
        <5>2. QED BY <1>2, <3>1, <5>1
      <4>2. QED BY <1>2, <1>3, <2>2, <2>4, <3>1, <4>1
    <3>2. ASSUME NEW l \in Levels, Base(l) < inode'[f].size
          PROVE  inode'[f].root[l] \in Blocks
      <4>1. Base(l) >= Direct
        <5>1. l \in 0 .. 4 /\ 1 \in 0 .. 4 /\ 1 <= l
          BY DEF Levels
        <5>2. Base(1) = Direct /\ Base(1) <= Base(l)
          BY <5>1, Bases
        <5>3. QED BY <5>2
      <4>2. Base(l) \in Nat
        BY Bases DEF Levels
      <4>3. inode'[f].size <= Direct /\ inode'[f].size \in Nat /\ Direct \in Nat
        <5>1. Direct \in Nat
          BY DirectAssumption
        <5> HIDE DEF k
        <5>2. QED BY <1>2, <1>3, <5>1
      <4>4. FALSE
        BY <3>2, <4>1, <4>2, <4>3
      <4>5. QED BY <4>4
    <3>3. QED BY <2>4, <3>1, <3>2
  <2>5. QED BY <2>3, <2>4
<1>8. Shape'
  BY <1>2, <1>3, <1>4, <1>5 DEF Shape
<1>9. refused' \in BOOLEAN /\ pruned' \in BOOLEAN
  BY <1>1, <1>4
<1>10. QED BY <1>6, <1>7, <1>8, <1>9 DEF Typed

LEMMA AppendDirectSound ==
  ASSUME Typed, Sound, NEW f \in Files, AppendDirect(f)
  PROVE  Sound' /\ Steady
<1> DEFINE k == inode[f].size
           s == Take(Store(f, 1))
           S == InUse(inode)
           x == Leaf(f, k)
           ino == WithDirect(f, k, s.block)
<1>1. /\ Shape /\ used \in Int
  BY DEF Typed, Sound
<1>2. /\ k \in 0 .. Direct - 1 /\ k \in Nat /\ k < MaxSize /\ LevelOf(k) = 0
      /\ s.block \in Blocks \cup {NoBlock}
      /\ inode' \in Inodes /\ SameNames(ino, inode') /\ inode'[f].size = IF s.ok THEN k + 1 ELSE k
      /\ \A g \in Files : g # f => inode'[g] = inode[g]
      /\ \A i \in 0 .. Direct - 1 :
            inode'[f].direct[i] = IF i = k THEN s.block ELSE inode[f].direct[i]
  BY <1>1, AppendDirectIs
<1>3. /\ pool = << >> => ~s.ok /\ s.pool = pool /\ s.used = used
      /\ pool # << >> => /\ s.ok /\ s.block = Last(pool) /\ s.block \in Blocks
                         /\ s.pool = Front(pool) /\ s.used = used + 1
  BY <1>1, TakeDirect
<1>4. /\ index' = IF s.ok THEN [index EXCEPT ![s.block] = Junk] ELSE index
      /\ data' = IF s.ok THEN [data EXCEPT ![s.block] = <<f, k>>] ELSE data
      /\ pool' = s.pool /\ used' = s.used /\ refused' = (refused \/ ~s.ok) /\ pruned' = pruned
  BY DEF AppendDirect
<1>5. /\ Apart(S, inode, index, pool) /\ used + Len(pool) = Count /\ Reads(inode, index, data)
      /\ refused \/ Whole(S, inode, index, pool) = Blocks
      /\ Sized(inode) /\ x \notin S /\ S \in SUBSET (Files \X AllNodes)
      /\ k < Base(4) /\ index \in Devices /\ data \in [Blocks -> (Files \X (0 .. MaxSize - 1)) \cup {NoData}]
  <2>1. /\ Apart(S, inode, index, pool) /\ used + Len(pool) = Count /\ Reads(inode, index, data)
        /\ refused \/ Whole(S, inode, index, pool) = Blocks
    BY DEF Sound
  <2>2. Sized(inode) /\ x \notin S /\ k < Base(4)
    BY <1>1, <1>2, NextIs
  <2>3. QED BY <2>1, <2>2 DEF InUse, Typed, Shape
<1> HIDE DEF s
<1>6. x = <<f, <<0, 0, k>>>>
  <2>1. 0 \in 0 .. LevelOf(k)
    BY <1>2
  <2>2. At(k, 0)[1] = 0 /\ At(k, 0)[2] = 0 /\ At(k, 0)[3] = k
    BY <1>2, <1>5, <2>1, AtIs
  <2>3. At(k, 0) = <<0, 0, k>>
    BY <2>2 DEF At
  <2>4. QED BY <1>2, <2>3 DEF Leaf
<1>7. Still(S, inode, index, inode', index)
  <2>1. Still(S, inode, index, ino, index)
    BY <1>1, <1>2, <1>5, <1>6, DirectStays
  <2> HIDE DEF ino, S
  <2>2. Still(S, ino, index, inode', index)
    BY <1>2, <1>5, StillByNames
  <2>3. QED BY <2>1, <2>2, StillOn
<1> HIDE DEF ino, x
<1>8. CASE pool = << >>
  <2>1. \A g \in Files : inode'[g].size = inode[g].size
    BY <1>2, <1>3, <1>8
  <2>2. index' = index /\ data' = data /\ pool' = pool /\ used' = used /\ refused' = TRUE
    BY <1>3, <1>4, <1>8
  <2>3. Untouched(S, inode, index, data, data)
    BY DEF Untouched
  <2>4. Reads(inode', index, data) /\ InUse(inode') = S
    BY <1>5, <1>7, <2>1, <2>3, ReadsSame
  <2>5. Apart(S, inode', index, pool)
    BY <1>5, <1>7, StillWhole
  <2> HIDE DEF S
  <2>6. Sound'
    BY <1>1, <1>5, <2>2, <2>4, <2>5 DEF Sound
  <2>7. QED BY <1>7, <2>2, <2>6 DEF Steady, S
<1>9. CASE pool # << >>
  <2> DEFINE b == Last(pool)
             T == S \cup {x}
  <2>1. /\ s.ok /\ s.block = b /\ b \in Blocks /\ pool' = Front(pool) /\ used' = used + 1
        /\ index' = [index EXCEPT ![b] = Junk] /\ data' = [data EXCEPT ![b] = <<f, k>>]
        /\ inode'[f].size = k + 1 /\ pruned' = pruned
    BY <1>2, <1>3, <1>4, <1>9
  <2>2. refused' = refused
    <3>1. refused \in BOOLEAN /\ refused' = (refused \/ ~s.ok) /\ s.ok
      BY <1>4, <2>1 DEF Typed
    <3>2. QED BY <3>1
  <2>3. Longer(inode, inode', f)
    BY <1>2, <2>1 DEF Longer
  <2>4. BlockOf(inode', index, x) = b
    <3>1. x[1] = f /\ x[2][1] = 0 /\ x[2][3] = k
      BY <1>6
    <3>2. inode'[f].direct[k] = b
      BY <1>2, <2>1
    <3>3. QED BY <3>1, <3>2 DEF BlockOf
  <2>5. /\ Apart(T, inode', index, Front(pool))
        /\ Whole(T, inode', index, Front(pool)) = Whole(S, inode, index, pool)
    BY <1>5, <1>7, <1>9, <2>4, Extended
  <2>6. T = S \cup Way(f, k, LevelOf(k))
    <3>1. 0 \in 0 .. LevelOf(k)
      BY <1>2
    <3>2. Way(f, k, 0) = {<<f, At(k, 0)>>}
      <4>1. k \in Nat /\ k < Base(4)
        BY <1>2, <1>5
      <4> HIDE DEF k
      <4>2. QED BY <3>1, <4>1, WayIs
    <3>3. QED BY <1>2, <3>2 DEF Leaf, x
  <2>7. Untouched(S, inode, index, data, data')
    <3>1. \A y \in S : BlockOf(inode, index, y) \in Blocks \ ToSet(pool)
      BY <1>5 DEF Apart
    <3>2. b \in ToSet(pool)
      BY <1>1, <1>9, Taken DEF Shape
    <3>3. \A c \in Blocks : c # b => data'[c] = data[c]
      BY <1>5, <2>1
    <3> HIDE DEF b
    <3>4. QED BY <3>1, <3>2, <3>3 DEF Untouched
  <2>8. data'[b] = <<f, k>>
    BY <1>5, <2>1
  <2>9. /\ Apart(InUse(inode'), inode', index', Front(pool))
        /\ Whole(InUse(inode'), inode', index', Front(pool)) = Whole(S, inode, index, pool)
        /\ Reads(inode', index', data')
        /\ Still(S, inode, index, inode', index')
    <3> DEFINE ino2 == inode'
               dat2 == data'
    <3>1. /\ ino2 \in Inodes /\ Longer(inode, ino2, f)
          /\ Still(InUse(inode), inode, index, ino2, index)
          /\ Apart(InUse(inode) \cup Way(f, inode[f].size, LevelOf(inode[f].size)), ino2, index, Front(pool))
          /\ Whole(InUse(inode) \cup Way(f, inode[f].size, LevelOf(inode[f].size)), ino2, index, Front(pool))
               = Whole(InUse(inode), inode, index, pool)
          /\ b = BlockOf(ino2, index, Leaf(f, inode[f].size))
          /\ dat2[b] = <<f, inode[f].size>>
          /\ Untouched(InUse(inode), inode, index, data, dat2)
      BY <1>2, <1>7, <2>3, <2>4, <2>5, <2>6, <2>7, <2>8 DEF x
    <3>2. inode[f].size < MaxSize /\ Shape /\ Sound /\ index \in Devices
      BY <1>1, <1>2, <1>5
    <3> HIDE DEF ino2, dat2, b
    <3>3. LET device2 == [index EXCEPT ![b] = Junk]
          IN  /\ Apart(InUse(ino2), ino2, device2, Front(pool))
              /\ Whole(InUse(ino2), ino2, device2, Front(pool)) = Whole(InUse(inode), inode, index, pool)
              /\ Reads(ino2, device2, dat2)
              /\ Still(InUse(inode), inode, index, ino2, device2)
      BY <3>1, <3>2, Appended
    <3>4. QED BY <2>1, <3>3 DEF ino2, dat2
  <2>10. used' \in Int /\ used' + Len(pool') = Count
    <3>1. Len(Front(pool)) = Len(pool) - 1 /\ Len(pool) \in Nat
      BY <1>1, <1>9, Taken DEF Shape
    <3>2. Count \in Nat
      BY CountAssumption
    <3>3. QED BY <1>1, <1>5, <2>1, <3>1, <3>2
  <2>11. Sound'
    <3> HIDE DEF S, b
    <3>1. refused' \/ Whole(InUse(inode'), inode', index', pool') = Blocks
      BY <1>5, <2>1, <2>2, <2>9
    <3>2. Apart(InUse(inode'), inode', index', pool')
      BY <2>1, <2>9
    <3>3. QED BY <2>9, <2>10, <3>1, <3>2 DEF Sound
  <2>12. QED BY <2>9, <2>11 DEF Steady
<1>10. QED BY <1>8, <1>9

-----------------------------------------------------------------------------
(* base_file_write at the end of a file with trees.                        *)

\* What AppendIndirect makes of the state, with what add returns.
LEMMA AppendIndirectIs ==
  ASSUME Shape, NEW f \in Files, AppendIndirect(f)
  PROVE  LET k == inode[f].size
             level == LevelOf(k)
             s == AddLeaf(f, level, k - Base(level))
             ino == WithRoot(f, level, s.root)
             n == IF s.ok THEN k + 1 ELSE k
         IN  /\ k < MaxSize /\ k \in 0 .. MaxSize - 1 /\ k \in Nat /\ k < Base(4)
             /\ level \in 1 .. 3 /\ level \in Levels /\ Base(level) <= k /\ k - Base(level) \in Nat
             /\ k < Base(level + 1)
             /\ StoreOK(s) /\ (s.ok => s.block \in Blocks)
             /\ (s.root = inode[f].root[level] \/ s.root \in Blocks)
             /\ (s.ok /\ k = Base(level) => s.root \in Blocks)
             /\ inode' \in Inodes /\ SameNames(ino, inode')
             /\ inode'[f].size = n /\ inode'[f].direct = inode[f].direct
             /\ \A g \in Files : g # f => inode'[g] = inode[g]
             /\ \A l \in Levels :
                   inode'[f].root[l] = IF l = level THEN s.root ELSE inode[f].root[l]
<1> DEFINE k == inode[f].size
           level == LevelOf(k)
           q == k - Base(level)
           s == AddLeaf(f, level, q)
           ino == WithRoot(f, level, s.root)
           n == IF s.ok THEN k + 1 ELSE k
<1>1. k >= Direct /\ k < MaxSize /\ inode' = Resized(ino, f, n)
  BY DEF AppendIndirect, WithRoot, Resized
<1>2. k \in Nat /\ k \in 0 .. MaxSize - 1 /\ k + 1 \in 0 .. MaxSize /\ k \in 0 .. MaxSize
      /\ k < Base(4) /\ inode \in Inodes
  <2>1. k \in 0 .. MaxSize
    BY DEF Shape, Inodes
  <2>2. QED BY <1>1, <2>1, NextIs
<1>3. level \in 0 .. 3 /\ Base(level) <= k /\ k < Base(level + 1)
  <2> HIDE DEF k
  <2>1. QED BY <1>2, LevelIs
<1>4. level \in 1 .. 3 /\ level \in Levels /\ q \in Nat
  <2>1. level # 0
    <3>1. Base(0 + 1) = Direct /\ Direct \in Nat
      <4>1. 0 + 1 = 1
        OBVIOUS
      <4>2. QED BY <4>1, Bases
    <3> HIDE DEF k
    <3>2. QED BY <1>1, <1>2, <1>3, <3>1
  <2>2. level \in 1 .. 3 /\ level \in 0 .. 4
    <3> HIDE DEF level
    <3>1. QED BY <1>3, <2>1
  <2> HIDE DEF level, k
  <2>3. Base(level) \in Nat
    BY <2>2, Bases
  <2>4. QED BY <1>2, <1>3, <2>2, <2>3 DEF Levels
<1> HIDE DEF q, k, level
<1>5. /\ StoreOK(s) /\ (s.ok => s.block \in Blocks)
      /\ (s.root = inode[f].root[level] \/ s.root \in Blocks)
      /\ s.ok /\ q = 0 => s.root \in Blocks
  BY <1>4, AddLeafTyped
<1> HIDE DEF s
<1>6. k = Base(level) => q = 0
  BY <1>2 DEF q
<1>7. /\ ino[f].direct = inode[f].direct /\ ino[f].size = inode[f].size
      /\ \A g \in Files : g # f => ino[g] = inode[g]
      /\ \A l \in Levels : ino[f].root[l] = IF l = level THEN s.root ELSE inode[f].root[l]
  <2>1. \A g \in Files : g # f => ino[g] = inode[g]
    BY <1>2 DEF WithRoot, Inodes
  <2>2. QED BY <1>4, <2>1, WithRootIs
<1>8. ino \in Inodes
  <2> DEFINE root == [inode[f].root EXCEPT ![level] = s.root]
  <2>1. s.root \in Blocks \cup {NoBlock}
    BY <1>5 DEF StoreOK
  <2>2. root \in [Levels -> Blocks \cup {NoBlock}]
    <3>1. inode[f].root \in [Levels -> Blocks \cup {NoBlock}]
      BY <1>2 DEF Inodes
    <3>2. QED BY <2>1, <3>1
  <2>3. ino = [inode EXCEPT ![f] = [inode[f] EXCEPT !.root = root]]
    BY DEF WithRoot
  <2> HIDE DEF root, ino
  <2>4. [inode[f] EXCEPT !.root = root] = [size |-> inode[f].size, direct |-> inode[f].direct, root |-> root]
    BY <1>2 DEF Inodes
  <2>5. QED BY <1>2, <2>2, <2>3, <2>4 DEF Inodes
<1> HIDE DEF ino
<1>9. n \in 0 .. MaxSize
  <2>1. n = k + 1 \/ n = k
    OBVIOUS
  <2>2. QED BY <1>2, <2>1
<1> HIDE DEF n
<1>10. /\ inode' \in Inodes /\ SameNames(ino, inode') /\ inode'[f].size = n
       /\ \A g \in Files : g # f => inode'[g] = ino[g]
  BY <1>1, <1>8, <1>9, ResizedIs
<1>11. inode'[f].direct = ino[f].direct /\ inode'[f].root = ino[f].root
  BY <1>10 DEF SameNames
<1>12. /\ inode'[f].direct = inode[f].direct
       /\ \A g \in Files : g # f => inode'[g] = inode[g]
       /\ \A l \in Levels : inode'[f].root[l] = IF l = level THEN s.root ELSE inode[f].root[l]
  BY <1>7, <1>10, <1>11
<1>13. QED BY <1>1, <1>2, <1>3, <1>4, <1>5, <1>6, <1>10, <1>12 DEF k, level, s, n, ino, q

LEMMA AppendIndirectTyped ==
  ASSUME Typed, NEW f \in Files, AppendIndirect(f)
  PROVE  Typed'
<1> DEFINE k == inode[f].size
           level == LevelOf(k)
           s == AddLeaf(f, level, k - Base(level))
<1>1. /\ Shape /\ Rooted /\ refused \in BOOLEAN /\ pruned \in BOOLEAN
      /\ index \in Devices /\ data \in [Blocks -> (Files \X (0 .. MaxSize - 1)) \cup {NoData}]
  BY DEF Typed, Shape
<1>2. /\ k \in 0 .. MaxSize - 1 /\ k \in Nat /\ k >= Direct /\ k < Base(4)
      /\ level \in 1 .. 3 /\ level \in Levels /\ Base(level) <= k /\ k < Base(level + 1)
      /\ StoreOK(s) /\ (s.ok => s.block \in Blocks)
      /\ (s.root = inode[f].root[level] \/ s.root \in Blocks)
      /\ (s.ok /\ k = Base(level) => s.root \in Blocks)
      /\ inode' \in Inodes
      /\ inode'[f].size = IF s.ok THEN k + 1 ELSE k
      /\ inode'[f].direct = inode[f].direct
      /\ \A g \in Files : g # f => inode'[g] = inode[g]
      /\ \A l \in Levels :
            inode'[f].root[l] = IF l = level THEN s.root ELSE inode[f].root[l]
  <2>1. k >= Direct
    BY DEF AppendIndirect
  <2>2. QED BY <1>1, <2>1, AppendIndirectIs
<1>3. /\ index' = IF s.ok THEN [s.index EXCEPT ![s.block] = Junk] ELSE s.index
      /\ data' = [b \in Blocks |-> IF s.ok /\ b = s.block THEN <<f, k>>
                                   ELSE IF b \in (ToSet(pool) \ ToSet(s.pool)) /\ s.index[b] # index[b]
                                        THEN NoData ELSE data[b]]
      /\ pool' = s.pool /\ refused' = (refused \/ ~s.ok) /\ pruned' = pruned
  BY DEF AppendIndirect
<1> HIDE DEF s, level
<1>4. s.index \in Devices /\ s.pool \in Seq(Blocks) /\ s.ok \in BOOLEAN
  BY <1>2 DEF StoreOK
<1>5. index' \in Devices
  <2>1. Junk \in [0 .. PerIndex - 1 -> Blocks \cup {NoBlock}]
    BY DEF Junk
  <2>2. QED BY <1>3, <1>4, <2>1 DEF Devices
<1>6. data' \in [Blocks -> (Files \X (0 .. MaxSize - 1)) \cup {NoData}]
  <2> HIDE DEF k
  <2>1. ASSUME NEW b \in Blocks
        PROVE  data'[b] \in (Files \X (0 .. MaxSize - 1)) \cup {NoData}
    <3>1. data[b] \in (Files \X (0 .. MaxSize - 1)) \cup {NoData}
      BY <1>1
    <3>2. <<f, k>> \in Files \X (0 .. MaxSize - 1)
      BY <1>2
    <3>3. data'[b] = <<f, k>> \/ data'[b] = NoData \/ data'[b] = data[b]
      BY <1>3
    <3>4. QED BY <3>1, <3>2, <3>3
  <2>2. data' = [b \in Blocks |-> data'[b]]
    BY <1>3
  <2>3. QED BY <2>1, <2>2
<1>7. Rooted'
  <2>1. SUFFICES ASSUME NEW g \in Files
                 PROVE  /\ \A i \in 0 .. inode'[g].size - 1 : i < Direct => inode'[g].direct[i] \in Blocks
                        /\ \A l \in Levels : Base(l) < inode'[g].size => inode'[g].root[l] \in Blocks
    BY DEF Rooted
  <2>2. /\ \A i \in 0 .. inode[g].size - 1 : i < Direct => inode[g].direct[i] \in Blocks
        /\ \A l \in Levels : Base(l) < inode[g].size => inode[g].root[l] \in Blocks
    BY <1>1 DEF Rooted
  <2>3. CASE g # f
    BY <1>2, <2>2, <2>3
  <2>4. CASE g = f
    <3>0. Direct \in Nat
      BY DirectAssumption
    <3>1. ASSUME NEW i \in 0 .. inode'[f].size - 1, i < Direct
          PROVE  inode'[f].direct[i] \in Blocks
      <4>1. i \in 0 .. k - 1
        <5> HIDE DEF k
        <5>1. QED BY <1>2, <3>0, <3>1
      <4>2. QED BY <1>2, <2>2, <2>4, <3>1, <4>1
    <3>2. ASSUME NEW l \in Levels, Base(l) < inode'[f].size
          PROVE  inode'[f].root[l] \in Blocks
      <4>1. Base(l) \in Nat /\ Base(level) \in Nat
        BY <1>2, Bases DEF Levels
      <4>2. inode'[f].size \in Nat /\ inode'[f].size <= k + 1
        <5> HIDE DEF k
        <5>1. QED BY <1>2
      <4>3. CASE Base(l) < k
        <5>1. inode[f].root[l] \in Blocks
          BY <2>2, <2>4, <4>3
        <5>2. QED BY <1>2, <5>1
      <4>4. CASE Base(l) = k
        <5>1. s.ok
          <6> HIDE DEF k
          <6>1. QED BY <1>2, <3>2, <4>1, <4>4
        <5>2. LevelOf(k) = l
          <6>1. Base(l + 1) = Base(l) + Width(l) /\ Width(l) \in Nat \ {0} /\ l \in 0 .. 3
            <7>1. l \in 1 .. 3 /\ l \in 0 .. 3
              BY DEF Levels
            <7>2. Base(l + 1) = Base(l) + Width(l)
              BY <7>1, Bases
            <7>3. Width(l) \in Nat \ {0}
              BY <7>1, WidthIs
            <7>4. QED BY <7>1, <7>2, <7>3
          <6>2. k < Base(4)
            BY <1>2
          <6>3. Base(l) <= k /\ k < Base(l + 1)
            <7> HIDE DEF k
            <7>1. QED BY <1>2, <4>1, <4>4, <6>1
          <6> HIDE DEF k
          <6>4. QED BY <1>2, <6>1, <6>2, <6>3, LevelIs
        <5>3. level = l
          BY <5>2 DEF level
        <5>4. QED BY <1>2, <4>4, <5>1, <5>3
      <4>5. Base(l) < k \/ Base(l) = k
        <5> HIDE DEF k
        <5>1. QED BY <1>2, <3>2, <4>1, <4>2
      <4>6. QED BY <4>3, <4>4, <4>5
    <3>3. QED BY <2>4, <3>1, <3>2
  <2>5. QED BY <2>3, <2>4
<1>8. Shape'
  BY <1>2, <1>3, <1>4, <1>5 DEF Shape
<1>9. refused' \in BOOLEAN /\ pruned' \in BOOLEAN
  BY <1>1, <1>3
<1>10. QED BY <1>6, <1>7, <1>8, <1>9 DEF Typed

LEMMA AppendIndirectSound ==
  ASSUME Typed, Sound, NEW f \in Files, AppendIndirect(f)
  PROVE  Sound' /\ Steady
<1> DEFINE k == inode[f].size
           level == LevelOf(k)
           s == AddLeaf(f, level, k - Base(level))
           S == InUse(inode)
           x == Leaf(f, k)
           T == S \cup Way(f, k, level)
           ino == WithRoot(f, level, s.root)
<1>1. /\ Shape /\ used \in Int /\ refused \in BOOLEAN /\ index \in Devices
      /\ data \in [Blocks -> (Files \X (0 .. MaxSize - 1)) \cup {NoData}]
      /\ Apart(S, inode, index, pool) /\ used + Len(pool) = Count /\ Reads(inode, index, data)
      /\ refused \/ Whole(S, inode, index, pool) = Blocks
  BY DEF Typed, Sound, Shape
<1>2. /\ k \in Nat /\ k < Base(4) /\ k < MaxSize /\ level \in 1 .. 3 /\ level \in Levels
      /\ StoreOK(s) /\ (s.ok => s.block \in Blocks)
      /\ inode' \in Inodes /\ SameNames(ino, inode')
      /\ inode'[f].size = IF s.ok THEN k + 1 ELSE k
      /\ \A g \in Files : g # f => inode'[g] = inode[g]
  BY <1>1, AppendIndirectIs
<1>3. /\ index' = IF s.ok THEN [s.index EXCEPT ![s.block] = Junk] ELSE s.index
      /\ data' = [b \in Blocks |-> IF s.ok /\ b = s.block THEN <<f, k>>
                                   ELSE IF b \in (ToSet(pool) \ ToSet(s.pool)) /\ s.index[b] # index[b]
                                        THEN NoData ELSE data[b]]
      /\ pool' = s.pool /\ used' = s.used /\ refused' = (refused \/ ~s.ok) /\ pruned' = pruned
  BY DEF AppendIndirect
<1>4. Sized(inode) /\ x \notin S /\ S \in SUBSET (Files \X AllNodes) /\ Closed(S)
  <2>1. Sized(inode) /\ x \notin S
    BY <1>1, <1>2, NextIs
  <2>2. QED BY <2>1, InUseIs
<1>5. Growable(S, f, k)
  <2>1. \A d \in 0 .. level : <<f, At(k, d)>> \in S <=> (k - Base(level)) % Width(level - d) # 0
    BY <1>1, <1>2, NextIs
  <2>2. level # 0
    BY <1>2
  <2> HIDE DEF S, k
  <2>3. QED BY <1>1, <1>2, <1>4, <2>1, <2>2 DEF Growable, level
<1>6. Kept(S, f, k, s) /\ (s.ok => Reaches(S, f, k, level, s))
  <2> HIDE DEF S, k
  <2>1. QED BY <1>5, AddLeafFits DEF s, level
<1>7. x = <<f, At(k, level)>>
  BY DEF Leaf
<1> HIDE DEF s, x, k
<1>8. /\ Still(S, inode, index, ino, s.index) /\ Apart(S, ino, s.index, s.pool)
      /\ ToSet(s.pool) \subseteq ToSet(pool)
      /\ s.used \in Int /\ s.used + Len(s.pool) = used + Len(pool)
      /\ s.index \in Devices /\ s.ok \in BOOLEAN
  BY <1>2, <1>6 DEF Kept, level, StoreOK
<1> HIDE DEF level
<1>9. Still(S, ino, s.index, inode', s.index)
  <2> HIDE DEF S, ino
  <2>1. QED BY <1>2, <1>4, StillByNames
<1>10. Still(S, inode, index, inode', s.index)
  <2> HIDE DEF S, ino
  <2>1. QED BY <1>8, <1>9, StillOn
<1>11. \A y \in S : /\ BlockOf(inode, index, y) \in Blocks \ ToSet(pool)
                    /\ BlockOf(inode', s.index, y) = BlockOf(inode, index, y)
  BY <1>1, <1>10 DEF Apart, Still
<1>12. used' \in Int /\ used' + Len(pool') = Count
  BY <1>1, <1>3, <1>8
<1>13. CASE ~s.ok
  <2>1. index' = s.index /\ refused' = TRUE /\ pool' = s.pool /\ pruned' = pruned
    BY <1>3, <1>13
  <2>2. \A g \in Files : inode'[g].size = inode[g].size
    BY <1>2, <1>13 DEF k
  <2>3. Untouched(S, inode, index, data, data')
    <3>1. ASSUME NEW b \in Blocks, b \notin ToSet(pool) PROVE data'[b] = data[b]
      BY <1>3, <1>13, <3>1
    <3> HIDE DEF S
    <3>2. QED BY <1>11, <3>1 DEF Untouched
  <2>4. Reads(inode', s.index, data') /\ InUse(inode') = S
    <3> DEFINE ino2 == inode'
               dat2 == data'
    <3>1. /\ \A g \in Files : ino2[g].size = inode[g].size
          /\ Still(InUse(inode), inode, index, ino2, s.index)
          /\ Untouched(InUse(inode), inode, index, data, dat2)
      BY <1>10, <2>2, <2>3
    <3> HIDE DEF ino2, dat2
    <3>2. Reads(ino2, s.index, dat2) /\ InUse(ino2) = InUse(inode)
      BY <1>1, <1>4, <3>1, ReadsSame
    <3>3. QED BY <3>2 DEF ino2, dat2
  <2>5. Apart(S, inode', s.index, s.pool)
    <3> HIDE DEF S, ino
    <3>1. QED BY <1>8, <1>9, StillWhole
  <2> HIDE DEF S
  <2>6. Sound'
    BY <1>12, <2>1, <2>4, <2>5 DEF Sound
  <2>7. QED BY <1>10, <2>1, <2>6 DEF Steady, S
<1>14. CASE s.ok
  <2> DEFINE b == s.block
             list == s.pool
  <2>1. /\ Apart(T, ino, s.index, list) /\ Closed(T)
        /\ Whole(T, ino, s.index, list) = Whole(S, inode, index, pool)
        /\ b = BlockOf(ino, s.index, x)
    BY <1>6, <1>7, <1>14 DEF Reaches, level
  <2>2. x \in T /\ S \subseteq T
    <3>1. level \in 0 .. level
      BY <1>2
    <3>2. QED BY <1>7, <3>1 DEF Way
  <2>3. Still(T, ino, s.index, inode', s.index)
    <3>1. T \in SUBSET (Files \X AllNodes)
      BY <2>1 DEF Closed
    <3> HIDE DEF T, ino
    <3>2. QED BY <1>2, <3>1, StillByNames
  <2>4. /\ Apart(T, inode', s.index, list)
        /\ Whole(T, inode', s.index, list) = Whole(S, inode, index, pool)
        /\ b = BlockOf(inode', s.index, x)
    <3> HIDE DEF T, S, ino, list, b
    <3>1. Apart(T, inode', s.index, list) /\ Whole(T, inode', s.index, list) = Whole(T, ino, s.index, list)
      BY <2>1, <2>3, StillWhole
    <3>2. BlockOf(inode', s.index, x) = BlockOf(ino, s.index, x)
      BY <2>2, <2>3 DEF Still
    <3>3. QED BY <2>1, <3>1, <3>2
  <2>5. Untouched(S, inode, index, data, data')
    <3>1. ASSUME NEW c \in Blocks, c \notin ToSet(pool), c # b PROVE data'[c] = data[c]
      BY <1>3, <3>1
    <3>2. ASSUME NEW y \in S PROVE BlockOf(inode, index, y) # b
      <4>1. y \in T /\ y # x
        BY <1>4, <2>2
      <4>2. BlockOf(inode', s.index, y) # b
        BY <2>2, <2>4, <4>1 DEF Apart
      <4>3. QED BY <1>11, <4>2
    <3> HIDE DEF S, b
    <3>3. QED BY <1>11, <3>1, <3>2 DEF Untouched
  <2>6. data'[b] = <<f, k>>
    BY <1>2, <1>3, <1>14
  <2>7. Longer(inode, inode', f)
    BY <1>2, <1>14 DEF Longer, k
  <2>8. /\ index' = [s.index EXCEPT ![b] = Junk] /\ pool' = list /\ pruned' = pruned
        /\ refused' = refused
    <3>1. refused' = (refused \/ ~s.ok)
      BY <1>3
    <3>2. refused' = refused
      BY <1>1, <1>14, <3>1
    <3>3. QED BY <1>3, <1>14, <3>2
  <2>9. /\ Apart(InUse(inode'), inode', index', list)
        /\ Whole(InUse(inode'), inode', index', list) = Whole(S, inode, index, pool)
        /\ Reads(inode', index', data')
        /\ Still(S, inode, index, inode', index')
    <3> DEFINE ino2 == inode'
               dat2 == data'
               device == s.index
    <3>1. /\ ino2 \in Inodes /\ Longer(inode, ino2, f) /\ device \in Devices
          /\ Still(InUse(inode), inode, index, ino2, device)
          /\ Apart(InUse(inode) \cup Way(f, inode[f].size, LevelOf(inode[f].size)), ino2, device, list)
          /\ Whole(InUse(inode) \cup Way(f, inode[f].size, LevelOf(inode[f].size)), ino2, device, list)
               = Whole(InUse(inode), inode, index, pool)
          /\ b = BlockOf(ino2, device, Leaf(f, inode[f].size))
          /\ dat2[b] = <<f, inode[f].size>>
          /\ Untouched(InUse(inode), inode, index, data, dat2)
      BY <1>2, <1>8, <1>10, <2>4, <2>5, <2>6, <2>7 DEF x, k, level
    <3>2. inode[f].size < MaxSize /\ Shape /\ Sound
      BY <1>1, <1>2 DEF k
    <3>3. index' = [device EXCEPT ![b] = Junk]
      BY <2>8
    <3> HIDE DEF ino2, dat2, b, device, list, S
    <3>4. LET device2 == [device EXCEPT ![b] = Junk]
          IN  /\ Apart(InUse(ino2), ino2, device2, list)
              /\ Whole(InUse(ino2), ino2, device2, list) = Whole(InUse(inode), inode, index, pool)
              /\ Reads(ino2, device2, dat2)
              /\ Still(InUse(inode), inode, index, ino2, device2)
      BY <3>1, <3>2, Appended
    <3>5. QED BY <3>3, <3>4 DEF ino2, dat2, S
  <2>10. Sound'
    <3> HIDE DEF S, b, list
    <3>1. refused' \/ Whole(InUse(inode'), inode', index', pool') = Blocks
      BY <1>1, <2>8, <2>9
    <3>2. Apart(InUse(inode'), inode', index', pool')
      BY <2>8, <2>9
    <3>3. QED BY <1>12, <2>9, <3>1, <3>2 DEF Sound
  <2>11. QED BY <2>9, <2>10 DEF Steady
<1>15. QED BY <1>8, <1>13, <1>14

-----------------------------------------------------------------------------
(* base_file_write below the end of a file.                                *)

LEMMA OverwriteKeeps ==
  ASSUME Inv, NEW f \in Files, NEW k \in 0 .. MaxSize, Overwrite(f, k)
  PROVE  Inv' /\ Steady
<1> DEFINE S == InUse(inode)
           x == Leaf(f, k)
           b == BlockAt(f, k)
<1>1. /\ Typed /\ Shape /\ Rooted /\ refused \in BOOLEAN /\ pruned \in BOOLEAN
      /\ inode \in Inodes /\ index \in Devices /\ pool \in Seq(Blocks)
      /\ data \in [Blocks -> (Files \X (0 .. MaxSize - 1)) \cup {NoData}]
      /\ (pruned \/ Sound)
  BY DEF Inv, Typed, Shape
<1>2. /\ k < inode[f].size /\ index' = [index EXCEPT ![b] = Junk] /\ data' = [data EXCEPT ![b] = <<f, k>>]
      /\ inode' = inode /\ pool' = pool /\ used' = used /\ refused' = refused /\ pruned' = pruned
  BY DEF Overwrite
<1>3. k \in 0 .. inode[f].size - 1 /\ k \in 0 .. MaxSize - 1 /\ Sized(inode)
  <2>1. inode[f].size \in 0 .. MaxSize
    BY <1>1 DEF Inodes
  <2>2. Sized(inode)
    BY <1>1, <2>1, ResizedIs
  <2>3. k \in 0 .. inode[f].size - 1 /\ k \in 0 .. MaxSize - 1
    <3> DEFINE size == inode[f].size
    <3>1. k < size /\ size \in 0 .. MaxSize /\ k \in 0 .. MaxSize /\ MaxSize \in Nat
      <4>1. MaxSize \in 0 .. Base(4) /\ Base(4) \in Nat
        BY SizeAssumption, Bases
      <4>2. QED BY <1>2, <2>1, <4>1
    <3> HIDE DEF size
    <3>2. k \in 0 .. size - 1 /\ k \in 0 .. MaxSize - 1
      BY <3>1
    <3>3. QED BY <3>2 DEF size
  <2>4. QED BY <2>2, <2>3
<1>4. k \in Nat /\ k < Base(4) /\ x \in S
  BY <1>3, LeafInUse
<1>5. b = BlockOf(inode, index, x) /\ x[2][1] = x[2][2]
      /\ \A g \in Files : \A j \in Nat : j < Base(4) /\ Leaf(g, j) = x => g = f /\ j = k
  BY <1>4, LeafIs
<1> HIDE DEF b, x
<1>6. index' \in Devices
  <2>1. Junk \in [0 .. PerIndex - 1 -> Blocks \cup {NoBlock}]
    BY DEF Junk
  <2>2. QED BY <1>1, <1>2, <2>1 DEF Devices
<1>7. data' \in [Blocks -> (Files \X (0 .. MaxSize - 1)) \cup {NoData}]
  BY <1>1, <1>2, <1>3
<1>8. Rooted'
  BY <1>1, <1>2 DEF Rooted
<1>9. Typed'
  <2>1. Shape'
    BY <1>1, <1>2, <1>6 DEF Shape
  <2>2. refused' \in BOOLEAN /\ pruned' \in BOOLEAN
    BY <1>1, <1>2
  <2>3. QED BY <1>7, <1>8, <2>1, <2>2 DEF Typed
<1>10. ASSUME Sound PROVE Sound' /\ Still(S, inode, index, inode', index')
  <2>1. /\ Apart(S, inode, index, pool) /\ used \in Int /\ used + Len(pool) = Count
        /\ Reads(inode, index, data) /\ (refused \/ Whole(S, inode, index, pool) = Blocks)
    BY <1>10 DEF Sound
  <2>2. Closed(S)
    BY <1>3, InUseIs
  <2>3. Still(S, inode, index, inode, index')
    <3> HIDE DEF S
    <3>1. QED BY <1>1, <1>2, <1>4, <1>5, <2>1, <2>2, Scribbled
  <2>4. Apart(S, inode, index', pool) /\ Whole(S, inode, index', pool) = Whole(S, inode, index, pool)
    <3> HIDE DEF S
    <3>1. QED BY <2>1, <2>3, StillWhole
  <2>5. b \in Blocks
    BY <1>4, <1>5, <2>1 DEF Apart
  <2>6. ASSUME NEW g \in Files, NEW j \in 0 .. inode[g].size - 1
        PROVE  data'[BlockOf(inode, index', Leaf(g, j))] = <<g, j>>
    <3>1. j \in Nat /\ j < Base(4) /\ Leaf(g, j) \in S
      BY <1>3, LeafInUse
    <3> DEFINE y == Leaf(g, j)
               c == BlockOf(inode, index, y)
    <3>2. BlockOf(inode, index', y) = c /\ c \in Blocks /\ data[c] = <<g, j>>
      BY <2>1, <2>3, <3>1 DEF Still, Apart, Reads
    <3>3. CASE y = x
      <4>1. g = f /\ j = k
        BY <1>5, <3>1, <3>3
      <4>2. c = b
        BY <1>5, <3>3
      <4> HIDE DEF c, y
      <4>3. data'[c] = <<g, j>>
        BY <1>1, <1>2, <2>5, <4>1, <4>2
      <4>4. QED BY <3>2, <4>3 DEF y
    <3>4. CASE y # x
      <4>1. c # b
        BY <1>4, <1>5, <2>1, <3>1, <3>4 DEF Apart
      <4> HIDE DEF c, y
      <4>2. data'[c] = <<g, j>>
        BY <1>1, <1>2, <3>2, <4>1
      <4>3. QED BY <3>2, <4>2 DEF y
    <3>5. QED BY <3>3, <3>4
  <2>7. Reads(inode', index', data')
    BY <1>2, <2>6 DEF Reads
  <2>8. Sound'
    BY <1>2, <2>1, <2>4, <2>7 DEF Sound
  <2>9. QED BY <1>2, <2>3, <2>8
<1> HIDE DEF S
<1>11. Inv'
  BY <1>1, <1>2, <1>9, <1>10 DEF Inv
<1>12. Steady
  BY <1>1, <1>2, <1>10 DEF Steady, S
<1>13. QED BY <1>11, <1>12

-----------------------------------------------------------------------------
(* base_file_truncate.                                                     *)

LEMMA TruncateIs ==
  ASSUME Typed, NEW f \in Files, NEW n \in 0 .. MaxSize, Truncate(f, n)
  PROVE  /\ n \in 0 .. inode[f].size /\ n \in 0 .. inode[f].size - 1
         /\ inode[f].size \in Nat
         /\ inode' = Resized(inode, f, n) /\ inode' \in Inodes
         /\ SameNames(inode, inode') /\ inode'[f].size = n /\ Sized(inode) /\ Sized(inode')
         /\ \A g \in Files : g # f => inode'[g] = inode[g]
         /\ Typed'
<1>1. /\ inode \in Inodes /\ Shape /\ Rooted /\ inode[f].size \in 0 .. MaxSize
      /\ refused \in BOOLEAN /\ pruned \in BOOLEAN /\ pool \in Seq(Blocks) /\ index \in Devices
      /\ data \in [Blocks -> (Files \X (0 .. MaxSize - 1)) \cup {NoData}]
  BY DEF Typed, Shape, Inodes
<1>2. /\ n < inode[f].size /\ pool' = pool \o FreedByCut(f, n) /\ pruned' = (pruned \/ inode[f].size > Direct)
      /\ index' = index /\ data' = data /\ refused' = refused
  BY DEF Truncate
<1>3. inode' = Resized(inode, f, n)
  BY DEF Truncate, Resized
<1>4. n \in 0 .. inode[f].size /\ n \in 0 .. inode[f].size - 1 /\ inode[f].size \in Nat
  BY <1>1, <1>2
<1>5. /\ inode' \in Inodes /\ SameNames(inode, inode') /\ inode'[f].size = n
      /\ Sized(inode) /\ Sized(inode')
      /\ \A g \in Files : g # f => inode'[g] = inode[g]
  BY <1>1, <1>3, ResizedIs
<1>6. pool' \in Seq(Blocks)
  <2>1. FreedByCut(f, n) \in Seq(Blocks)
    BY <1>1, <1>4, CutTyped
  <2>2. QED BY <1>1, <1>2, <2>1, ConcatProperties
<1>7. Rooted'
  <2>1. SUFFICES ASSUME NEW g \in Files
                 PROVE  /\ \A i \in 0 .. inode'[g].size - 1 : i < Direct => inode'[g].direct[i] \in Blocks
                        /\ \A l \in Levels : Base(l) < inode'[g].size => inode'[g].root[l] \in Blocks
    BY DEF Rooted
  <2>2. /\ \A i \in 0 .. inode[g].size - 1 : i < Direct => inode[g].direct[i] \in Blocks
        /\ \A l \in Levels : Base(l) < inode[g].size => inode[g].root[l] \in Blocks
    BY <1>1 DEF Rooted
  <2>3. inode'[g].direct = inode[g].direct /\ inode'[g].root = inode[g].root
    BY <1>5 DEF SameNames
  <2>4. inode'[g].size <= inode[g].size /\ inode[g].size \in Nat /\ inode'[g].size \in Nat
    <3>1. inode[g].size \in 0 .. MaxSize
      BY <1>1 DEF Inodes
    <3>2. CASE g = f
      BY <1>1, <1>2, <1>5, <3>2
    <3>3. CASE g # f
      BY <1>5, <3>1, <3>3
    <3>4. QED BY <3>2, <3>3
  <2>5. \A l \in Levels : Base(l) \in Nat
    BY Bases DEF Levels
  <2>6. \A i \in 0 .. inode'[g].size - 1 : i \in 0 .. inode[g].size - 1
    BY <2>4
  <2>7. \A l \in Levels : Base(l) < inode'[g].size => Base(l) < inode[g].size
    BY <2>4, <2>5
  <2>8. QED BY <2>2, <2>3, <2>6, <2>7
<1>8. Shape'
  BY <1>1, <1>2, <1>5, <1>6 DEF Shape
<1>9. refused' \in BOOLEAN /\ pruned' \in BOOLEAN
  BY <1>1, <1>2
<1>10. Typed'
  BY <1>1, <1>2, <1>7, <1>8, <1>9 DEF Typed
<1>11. QED BY <1>3, <1>4, <1>5, <1>10

LEMMA TruncateKeeps ==
  ASSUME Inv, NEW f \in Files, NEW n \in 0 .. MaxSize, Truncate(f, n)
  PROVE  Inv' /\ Steady
<1>1. Typed /\ (pruned \/ Sound) /\ Shape /\ pool \in Seq(Blocks) /\ inode \in Inodes
  BY DEF Inv, Typed, Shape
<1>2. /\ n \in 0 .. inode[f].size /\ n \in 0 .. inode[f].size - 1 /\ inode[f].size \in Nat
      /\ inode' = Resized(inode, f, n) /\ inode' \in Inodes
      /\ SameNames(inode, inode') /\ inode'[f].size = n /\ Sized(inode) /\ Sized(inode')
      /\ \A g \in Files : g # f => inode'[g] = inode[g]
      /\ Typed'
  BY <1>1, TruncateIs
<1>3. /\ pool' = pool \o FreedByCut(f, n) /\ used' = used - Len(FreedByCut(f, n))
      /\ pruned' = (pruned \/ inode[f].size > Direct)
      /\ index' = index /\ data' = data /\ refused' = refused
  BY DEF Truncate
<1>4. Still(InUse(inode), inode, index, inode', index')
  <2>1. InUse(inode) \in SUBSET (Files \X AllNodes)
    BY DEF InUse
  <2>2. QED BY <1>2, <1>3, <2>1, StillByNames
<1>5. ASSUME Sound, inode[f].size <= Direct PROVE Sound'
  <2> DEFINE list == pool \o FreedByCut(f, n)
             ino == Resized(inode, f, n)
  <2>1. /\ Apart(InUse(inode), inode, index, pool) /\ used \in Int /\ used + Len(pool) = Count
        /\ Reads(inode, index, data) /\ (refused \/ Whole(InUse(inode), inode, index, pool) = Blocks)
    BY <1>5 DEF Sound
  <2>2. /\ Apart(InUse(ino), ino, index, list)
        /\ Whole(InUse(ino), ino, index, list) = Whole(InUse(inode), inode, index, pool)
        /\ Len(list) + n = Len(pool) + inode[f].size
        /\ Len(FreedByCut(f, n)) + n = inode[f].size
    BY <1>1, <1>2, <1>5, <2>1, CutFits
  <2>3. used' \in Int /\ used' + Len(pool') = Count
    <3>1. Len(pool) \in Nat /\ Count \in Nat /\ n \in Nat
      BY <1>1, <1>2, LenProperties, CountAssumption
    <3> DEFINE u == Len(FreedByCut(f, n))
               v == Len(list)
    <3>2. v + n = Len(pool) + inode[f].size /\ u + n = inode[f].size /\ used' = used - u /\ pool' = list
      BY <1>3, <2>2
    <3>3. u \in Nat /\ v \in Nat
      <4>1. FreedByCut(f, n) \in Seq(Blocks)
        BY <1>1, <1>2, CutTyped DEF Typed
      <4>2. list \in Seq(Blocks)
        BY <1>1, <4>1, ConcatProperties
      <4> HIDE DEF list
      <4>3. QED BY <4>1, <4>2, LenProperties
    <3>4. Len(pool') = v
      BY <3>2
    <3> HIDE DEF u, v, list
    <3>5. QED BY <1>2, <2>1, <3>1, <3>2, <3>3, <3>4, SMTT(30)
  <2>4. Reads(inode', index', data')
    <3>1. SUFFICES ASSUME NEW g \in Files, NEW k \in 0 .. inode'[g].size - 1
                   PROVE  data'[BlockOf(inode', index', Leaf(g, k))] = <<g, k>>
      BY DEF Reads
    <3>2. k \in 0 .. inode[g].size - 1
      BY <1>2
    <3>3. Leaf(g, k) \in InUse(inode)
      BY <1>2, <3>2, LeafInUse
    <3>4. BlockOf(inode', index', Leaf(g, k)) = BlockOf(inode, index, Leaf(g, k))
      BY <1>4, <3>3 DEF Still
    <3>5. QED BY <1>3, <2>1, <3>2, <3>4 DEF Reads
  <2>5. Apart(InUse(inode'), inode', index', pool')
    BY <1>2, <1>3, <2>2
  <2>6. refused' \/ Whole(InUse(inode'), inode', index', pool') = Blocks
    BY <1>2, <1>3, <2>1, <2>2
  <2>7. QED BY <2>3, <2>4, <2>5, <2>6 DEF Sound
<1>6. pruned' \/ (Sound /\ inode[f].size <= Direct)
  <2>1. inode[f].size > Direct \/ inode[f].size <= Direct
    <3>1. Direct \in Nat
      BY DirectAssumption
    <3>2. QED BY <1>2, <3>1
  <2>2. QED BY <1>1, <1>3, <2>1
<1>7. QED BY <1>2, <1>4, <1>5, <1>6 DEF Inv, Steady

LEMMA NextKeeps ==
  ASSUME Inv, [Next]_vars
  PROVE  Inv' /\ Steady
<1>1. Typed /\ (pruned \/ Sound)
  BY DEF Inv
<1>2. CASE UNCHANGED vars
  <2>1. Inv'
    BY <1>2 DEF Inv, Typed, Sound, Shape, Rooted, vars
  <2>2. Steady
    BY <1>2 DEF Steady, Still, vars
  <2>3. QED BY <2>1, <2>2
<1>3. ASSUME NEW f \in Files, AppendDirect(f) PROVE Inv' /\ Steady
  <2>1. Typed' /\ pruned' = pruned
    BY <1>1, <1>3, AppendDirectTyped DEF AppendDirect
  <2>2. Sound => Sound' /\ Steady
    BY <1>1, <1>3, AppendDirectSound
  <2>3. QED BY <1>1, <2>1, <2>2 DEF Inv, Steady
<1>4. ASSUME NEW f \in Files, AppendIndirect(f) PROVE Inv' /\ Steady
  <2>1. Typed' /\ pruned' = pruned
    BY <1>1, <1>4, AppendIndirectTyped DEF AppendIndirect
  <2>2. Sound => Sound' /\ Steady
    BY <1>1, <1>4, AppendIndirectSound
  <2>3. QED BY <1>1, <2>1, <2>2 DEF Inv, Steady
<1>5. ASSUME NEW f \in Files, NEW k \in 0 .. MaxSize, Overwrite(f, k) \/ Truncate(f, k)
      PROVE  Inv' /\ Steady
  BY <1>5, OverwriteKeeps, TruncateKeeps
<1>6. QED BY <1>2, <1>3, <1>4, <1>5 DEF Next

\* However files grow, shrink and are overwritten, the state is well typed, and
\* until an index tree is pruned the blocks of all trees lie apart from each
\* other and from the free list, hold what was written, and are all counted.
THEOREM Invariance == Spec => []Inv
<1>1. Inv /\ [Next]_vars => Inv'
  BY NextKeeps
<1>2. QED BY InitKeeps, <1>1, PTL DEF Spec

-----------------------------------------------------------------------------
(* The properties of the runs.                                             *)

LEMMA NodesFinite ==
  ASSUME NEW n \in Nat, n <= Base(4)
  PROVE  IsFiniteSet(NodesUpTo(n))
<1> DEFINE done == {m \in 0 .. n : IsFiniteSet(NodesUpTo(m))}
<1>1. 0 \in done
  BY NodesStep, FS_EmptySet
<1>2. \A m \in 0 .. n - 1 : m \in done => m + 1 \in done
  <2>1. TAKE m \in 0 .. n - 1
  <2>2. HAVE m \in done
  <2>3. m + 1 \in 0 .. n /\ m \in Nat /\ m < Base(4)
    <3>1. Base(4) \in Nat
      BY Bases
    <3>2. QED BY <3>1
  <2> DEFINE l == LevelOf(m)
             g == [d \in 0 .. l |-> At(m, d)]
  <2>4. l \in 0 .. 3
    BY <2>3, LevelIs
  <2>5. IsFiniteSet(0 .. l)
    <3> HIDE DEF l
    <3>1. 0 \in Int /\ l \in Int
      BY <2>4
    <3>2. QED BY <3>1, FS_Interval
  <2>6. g \in Surjection(0 .. l, Path(m))
    <3>1. Path(m) = {At(m, d) : d \in 0 .. l}
      BY PathIs
    <3> HIDE DEF l
    <3>2. QED BY <3>1 DEF Surjection
  <2>7. IsFiniteSet(Path(m))
    <3> HIDE DEF g, l
    <3>1. QED BY <2>5, <2>6, FS_Surjection
  <2>8. NodesUpTo(m + 1) = NodesUpTo(m) \cup Path(m)
    BY <2>3, NodesStep
  <2>9. IsFiniteSet(NodesUpTo(m + 1))
    <3>1. IsFiniteSet(NodesUpTo(m))
      BY <2>2
    <3> DEFINE A == NodesUpTo(m)
               B == Path(m)
    <3> HIDE DEF A, B
    <3>2. IsFiniteSet(A) /\ IsFiniteSet(B)
      BY <2>7, <3>1 DEF A, B
    <3>3. IsFiniteSet(A \cup B)
      BY <3>2, FS_Union
    <3>4. QED BY <2>8, <3>3 DEF A, B
  <2>10. QED BY <2>3, <2>9
<1>3. \A m \in 0 .. n : m \in done
  <2> HIDE DEF done
  <2>1. 0 \in Nat
    OBVIOUS
  <2>2. QED BY <1>1, <1>2, <2>1, Upwards
<1>4. n \in 0 .. n
  OBVIOUS
<1>5. QED BY <1>3, <1>4

\* The nodes and the blocks of a file, in the words of the properties.
LEMMA OwnedIs ==
  ASSUME Typed, NEW f \in Files
  PROVE  /\ inode[f].size \in Nat /\ inode[f].size <= Base(4)
         /\ Nodes(f) = NodesUpTo(inode[f].size)
         /\ \A node \in Nodes(f) : /\ <<f, node>> \in InUse(inode)
                                   /\ NodeBlock(f, node) = BlockOf(inode, index, <<f, node>>)
         /\ Owned(f) = {BlockOf(inode, index, <<f, node>>) : node \in Nodes(f)}
<1>1. inode[f].size \in Nat /\ inode[f].size <= Base(4)
  <2>1. inode[f].size \in 0 .. MaxSize
    BY DEF Typed, Shape, Inodes
  <2>2. MaxSize \in 0 .. Base(4) /\ Base(4) \in Nat
    BY SizeAssumption, Bases
  <2>3. QED BY <2>1, <2>2
<1>2. Nodes(f) = NodesUpTo(inode[f].size)
  BY DEF Nodes, NodesUpTo
<1>3. ASSUME NEW node \in Nodes(f)
      PROVE  /\ <<f, node>> \in InUse(inode)
             /\ NodeBlock(f, node) = BlockOf(inode, index, <<f, node>>)
  <2>1. node \in AllNodes
    BY <1>1, <1>2, NodesAre
  <2>2. <<f, node>>[1] = f /\ <<f, node>>[2] = node
    OBVIOUS
  <2>3. QED BY <1>2, <2>1, <2>2 DEF InUse, NodeBlock, BlockOf
<1>4. Owned(f) = {BlockOf(inode, index, <<f, node>>) : node \in Nodes(f)}
  BY <1>3 DEF Owned
<1>5. QED BY <1>1, <1>2, <1>3, <1>4

LEMMA CountBounds ==
  ASSUME Typed, Sound
  PROVE  used \in 0 .. Count /\ used = Count - Len(pool)
<1>1. used \in Int /\ used + Len(pool) = Count /\ IsInjective(pool) /\ pool \in Seq(Blocks)
  BY DEF Sound, Apart
<1>2. Len(pool) \in Nat /\ DOMAIN pool = 1 .. Len(pool) /\ pool \in [1 .. Len(pool) -> Blocks] /\ Count \in Nat
  BY <1>1, CountAssumption, LenProperties
<1> DEFINE n == Len(pool)
<1> HIDE DEF n
<1>3. pool \in Injection(1 .. n, Blocks)
  BY <1>1, <1>2 DEF Injection, IsInjective, n
<1>4. IsFiniteSet(Blocks) /\ Cardinality(Blocks) = Count
  <2>1. 1 \in Int /\ Count \in Int /\ ~(1 > Count /\ Count # 0)
    BY <1>2
  <2>2. IsFiniteSet(1 .. Count) /\ Cardinality(1 .. Count) = IF 1 > Count THEN 0 ELSE Count - 1 + 1
    BY <2>1, FS_Interval
  <2>3. QED BY <1>2, <2>1, <2>2 DEF Blocks
<1>5. Cardinality(1 .. n) <= Count
  BY <1>3, <1>4, FS_Injection
<1>6. n \in Nat /\ used + n = Count
  BY <1>1, <1>2 DEF n
<1>7. Cardinality(1 .. n) = n
  <2>1. Cardinality(1 .. n) = IF 1 > n THEN 0 ELSE n - 1 + 1
    BY <1>6, FS_Interval
  <2>2. QED BY <1>6, <2>1
<1>8. n <= Count
  BY <1>5, <1>7
<1>9. QED BY <1>1, <1>2, <1>6, <1>8 DEF n

\* A file has as many blocks as nodes in use.
LEMMA AsManyBlocks ==
  ASSUME Typed, Sound, NEW f \in Files
  PROVE  Cardinality(Owned(f)) = Cardinality(Nodes(f))
<1>1. /\ inode[f].size \in Nat /\ inode[f].size <= Base(4)
      /\ Nodes(f) = NodesUpTo(inode[f].size)
      /\ \A node \in Nodes(f) : <<f, node>> \in InUse(inode)
      /\ Owned(f) = {BlockOf(inode, index, <<f, node>>) : node \in Nodes(f)}
  BY OwnedIs
<1>2. IsFiniteSet(Nodes(f))
  BY <1>1, NodesFinite
<1> DEFINE g == [node \in Nodes(f) |-> BlockOf(inode, index, <<f, node>>)]
<1>3. \A m, n \in Nodes(f) : g[m] = g[n] => m = n
  <2>1. TAKE m, n \in Nodes(f)
  <2>2. HAVE g[m] = g[n]
  <2>3. BlockOf(inode, index, <<f, m>>) = BlockOf(inode, index, <<f, n>>)
    BY <2>2
  <2>4. <<f, m>> = <<f, n>>
    BY <1>1, <2>3 DEF Sound, Apart
  <2>5. QED BY <2>4
<1>4. /\ g \in [Nodes(f) -> Owned(f)] /\ \A b \in Owned(f) : \E node \in Nodes(f) : g[node] = b
  BY <1>1
<1> HIDE DEF g
<1>5. g \in Bijection(Nodes(f), Owned(f))
  BY <1>3, <1>4 DEF Bijection, Injection, Surjection, IsInjective
<1>6. QED BY <1>2, <1>5, FS_Bijection DEF ExistsBijection

\* The state of base_block_file.c stays well typed, also after an index tree
\* was pruned, and the count kept for the superblock never leaves the range
\* of the data area while none was.
THEOREM TypeCorrect == Spec => []TypeOK
<1>1. Inv => TypeOK
  <2>1. SUFFICES ASSUME Inv PROVE TypeOK
    OBVIOUS
  <2>2. Typed /\ (pruned \/ Sound)
    BY <2>1 DEF Inv
  <2>3. ASSUME NEW f \in Files
        PROVE  /\ inode[f].size \in 0 .. MaxSize
               /\ inode[f].direct \in [0 .. Direct - 1 -> Blocks \cup {NoBlock}]
               /\ inode[f].root \in [Levels -> Blocks \cup {NoBlock}]
    BY <2>2 DEF Typed, Shape, Inodes
  <2>4. pruned \/ used \in 0 .. Count
    BY <2>2, CountBounds
  <2>5. QED BY <2>2, <2>3, <2>4 DEF TypeOK, Typed, Shape, Devices
<1>2. QED BY Invariance, <1>1, PTL

\* Whatever the order in which files grow, shrink and are overwritten, in all
\* three levels of index blocks, locate leads to the block that push added for
\* that place, and its data are those written there.
THEOREM DataIsReadBack == Spec => []ReadBack
<1>1. Inv => ReadBack
  <2>1. SUFFICES ASSUME Inv, ~pruned, NEW f \in Files, NEW k \in 0 .. inode[f].size - 1
                 PROVE  data[BlockAt(f, k)] = <<f, k>>
    BY DEF ReadBack
  <2>2. Typed /\ Sound
    BY <2>1 DEF Inv
  <2>3. k \in Nat /\ k < Base(4)
    <3>1. inode[f].size \in Nat /\ inode[f].size <= Base(4) /\ Base(4) \in Nat
      BY <2>2, OwnedIs, Bases
    <3> DEFINE size == inode[f].size
    <3> HIDE DEF size
    <3>2. size \in Nat /\ k \in 0 .. size - 1 /\ size <= Base(4) /\ Base(4) \in Nat
      BY <3>1 DEF size
    <3>3. QED BY <3>2
  <2>4. BlockAt(f, k) = BlockOf(inode, index, Leaf(f, k))
    BY <2>3, LeafIs
  <2>5. QED BY <2>2, <2>4 DEF Sound, Reads
<1>2. QED BY Invariance, <1>1, PTL

\* add and data_block_free never give one block two parts: not of two files,
\* not of a leaf and an index block, and not of a file and the free list.
THEOREM OwnedIsOnce == Spec => []OwnedOnce
<1>1. Inv => OwnedOnce
  <2>1. SUFFICES ASSUME Inv, ~pruned PROVE OwnedOnce
    BY DEF OwnedOnce
  <2>2. Typed /\ Sound
    BY <2>1 DEF Inv
  <2>3. \A f \in Files : Cardinality(Owned(f)) = Cardinality(Nodes(f))
    BY <2>2, AsManyBlocks
  <2>4. \A f \in Files : /\ \A node \in Nodes(f) : <<f, node>> \in InUse(inode)
                         /\ Owned(f) = {BlockOf(inode, index, <<f, node>>) : node \in Nodes(f)}
    BY <2>2, OwnedIs
  <2>5. ASSUME NEW f \in Files, NEW g \in Files, f # g PROVE Owned(f) \cap Owned(g) = {}
    <3>1. SUFFICES ASSUME NEW b \in Owned(f), b \in Owned(g) PROVE FALSE
      OBVIOUS
    <3>2. PICK m \in Nodes(f) : b = BlockOf(inode, index, <<f, m>>)
      BY <2>4, <3>1
    <3>3. PICK n \in Nodes(g) : b = BlockOf(inode, index, <<g, n>>)
      BY <2>4, <3>1
    <3>4. <<f, m>> = <<g, n>>
      BY <2>2, <2>4, <3>2, <3>3 DEF Sound, Apart
    <3>5. QED BY <2>5, <3>4
  <2>6. ASSUME NEW f \in Files PROVE Owned(f) \cap ToSet(pool) = {}
    <3>1. \A x \in InUse(inode) : BlockOf(inode, index, x) \notin ToSet(pool)
      BY <2>2 DEF Sound, Apart
    <3>2. ASSUME NEW b \in Owned(f) PROVE b \notin ToSet(pool)
      <4>1. PICK node \in Nodes(f) : b = BlockOf(inode, index, <<f, node>>)
        BY <2>4
      <4>2. <<f, node>> \in InUse(inode)
        BY <2>4
      <4>3. QED BY <3>1, <4>1, <4>2
    <3>3. QED BY <3>2
  <2>7. IsInjective(pool)
    BY <2>2 DEF Sound, Apart
  <2>8. QED BY <2>3, <2>5, <2>6, <2>7 DEF OwnedOnce
<1>2. QED BY Invariance, <1>1, PTL

\* As long as no append was refused for want of space, each data block is
\* either reached from an inode or free.
THEOREM NothingIsLost == Spec => []NothingLeaked
<1>1. Inv => NothingLeaked
  <2>1. SUFFICES ASSUME Inv, ~pruned, ~refused
                 PROVE  (UNION {Owned(f) : f \in Files}) \cup ToSet(pool) = Blocks
    BY DEF NothingLeaked
  <2>2. Typed /\ Sound
    BY <2>1 DEF Inv
  <2>3. Held(InUse(inode), inode, index) \cup ToSet(pool) = Blocks
    BY <2>1, <2>2 DEF Sound, Whole
  <2>4. \A f \in Files : /\ Nodes(f) = NodesUpTo(inode[f].size)
                         /\ \A node \in Nodes(f) : <<f, node>> \in InUse(inode)
                         /\ Owned(f) = {BlockOf(inode, index, <<f, node>>) : node \in Nodes(f)}
    BY <2>2, OwnedIs
  <2>5. ASSUME NEW b \in UNION {Owned(f) : f \in Files} PROVE b \in Held(InUse(inode), inode, index)
    <3>1. PICK f \in Files : b \in Owned(f)
      OBVIOUS
    <3>2. PICK node \in Nodes(f) : b = BlockOf(inode, index, <<f, node>>)
      BY <2>4, <3>1
    <3>3. <<f, node>> \in InUse(inode)
      BY <2>4
    <3>4. QED BY <3>2, <3>3 DEF Held
  <2>6. ASSUME NEW b \in Held(InUse(inode), inode, index) PROVE b \in UNION {Owned(f) : f \in Files}
    <3>1. PICK x \in InUse(inode) : b = BlockOf(inode, index, x)
      BY DEF Held
    <3>2. x[1] \in Files /\ x[2] \in NodesUpTo(inode[x[1]].size) /\ x = <<x[1], x[2]>>
      BY DEF InUse
    <3>3. b \in Owned(x[1])
      BY <2>4, <3>1, <3>2
    <3>4. QED BY <3>2, <3>3
  <2>7. UNION {Owned(f) : f \in Files} = Held(InUse(inode), inode, index)
    <3> DEFINE all == UNION {Owned(f) : f \in Files}
    <3>1. all \subseteq Held(InUse(inode), inode, index)
      BY <2>5
    <3>2. Held(InUse(inode), inode, index) \subseteq all
      BY <2>6
    <3> HIDE DEF all
    <3>3. all = Held(InUse(inode), inode, index)
      BY <3>1, <3>2
    <3>4. QED BY <3>3 DEF all
  <2> DEFINE all == UNION {Owned(f) : f \in Files}
  <2>8. all = Held(InUse(inode), inode, index)
    BY <2>7
  <2> HIDE DEF all
  <2>9. all \cup ToSet(pool) = Blocks
    BY <2>3, <2>8
  <2>10. QED BY <2>9 DEF all
<1>2. QED BY Invariance, <1>1, PTL

\* What data_block_alloc and data_block_free count is the number of blocks
\* off the free list, also when an append fails halfway.
THEOREM UsedDoesMatch == Spec => []UsedMatches
<1>1. Inv => UsedMatches
  BY CountBounds DEF Inv, UsedMatches
<1>2. QED BY Invariance, <1>1, PTL

\* A tree that grows, the growth of another file, a truncation without trees:
\* none moves a block that a file keeps.
THEOREM BlocksDoStay == Spec => BlocksStay
<1> DEFINE Stays == ~pruned' => \A f \in Files : \A k \in 0 .. inode[f].size - 1 :
                       k < inode'[f].size => BlockAt(f, k)' = BlockAt(f, k)
<1>1. Inv /\ [Next]_vars => [Stays]_vars
  <2>1. SUFFICES ASSUME Inv, [Next]_vars, ~pruned', NEW f \in Files, NEW k \in 0 .. inode[f].size - 1,
                        k < inode'[f].size
                 PROVE  BlockAt(f, k)' = BlockAt(f, k)
    OBVIOUS
  <2>2. Inv' /\ Steady
    BY <2>1, NextKeeps
  <2>3. Still(InUse(inode), inode, index, inode', index')
    BY <2>1, <2>2 DEF Steady
  <2>4. Sized(inode)
    <3>1. \A g \in Files : inode[g].size \in Nat /\ inode[g].size <= Base(4)
      BY <2>1, OwnedIs DEF Inv
    <3>2. Base(4) \in Nat
      BY Bases
    <3>3. QED BY <3>1, <3>2 DEF Sized
  <2>5. k \in Nat /\ k < Base(4) /\ Leaf(f, k) \in InUse(inode)
    BY <2>4, LeafInUse
  <2>6. BlockAt(f, k) = BlockOf(inode, index, Leaf(f, k))
    BY <2>5, LeafIs
  <2>7. BlockAt(f, k)' = BlockOf(inode', index', Leaf(f, k))
    <3>1. At(k, LevelOf(k))[1] = LevelOf(k) /\ At(k, LevelOf(k))[2] = LevelOf(k)
          /\ At(k, LevelOf(k))[3] = k - Base(LevelOf(k)) /\ (LevelOf(k) = 0 => At(k, LevelOf(k))[3] = k)
      <4>1. LevelOf(k) \in 0 .. LevelOf(k)
        <5>1. LevelOf(k) \in 0 .. 3
          BY <2>5, LevelIs
        <5>2. QED BY <5>1
      <4>2. QED BY <2>5, <4>1, AtIs
    <3>2. QED BY <3>1 DEF BlockAt, BlockOf, Leaf
  <2>8. QED BY <2>3, <2>5, <2>6, <2>7 DEF Still
<1>2. QED BY Invariance, <1>1, PTL DEF Spec, BlocksStay
=============================================================================

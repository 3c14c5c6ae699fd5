----------------------------- MODULE FileIOProofs -----------------------------
(***************************************************************************)
(* Proofs about FileIO, for every set of files, handles and blocks and     *)
(* every size of a block, a buffer and an entry.                           *)
(*                                                                         *)
(* First arithmetic, and one inode and its bytes: in which block a byte    *)
(* lies, and what a turn of a write does to the bytes of its file.  Then   *)
(* what the calls do to tables and handles, and three invariants, each     *)
(* used by the next: Sound (every file has the blocks its size asks for,   *)
(* and how far calls and commands are), BooksOK (no block is in two files  *)
(* or free as well, as the open handles show them), Exact (how far cp is   *)
(* the target has the bytes of the source).  Last, FileIO implements       *)
(* ByteFiles: an action at a time, from the first two.                     *)
(***************************************************************************)
EXTENDS FileIO, Induction, SequenceTheorems

-----------------------------------------------------------------------------
(* Blocks and offsets.                                                     *)

\* Division: the remainder is smaller than the divisor.
LEMMA Division ==
  ASSUME NEW d \in Nat \ {0}
  PROVE  /\ \A n \in Nat : /\ n \div d \in Nat /\ n % d \in 0 .. d - 1
                           /\ n = d * (n \div d) + (n % d)
         /\ \A q \in Nat : \A r \in 0 .. d - 1 :
               (d * q + r) \div d = q /\ (d * q + r) % d = r
<1>1. ASSUME NEW n \in Nat
      PROVE  /\ n \div d \in Nat /\ n % d \in 0 .. d - 1
             /\ n = d * (n \div d) + (n % d)
  OBVIOUS
<1>2. ASSUME NEW q \in Nat, NEW r \in 0 .. d - 1
      PROVE  (d * q + r) \div d = q /\ (d * q + r) % d = r
  <2> DEFINE n == d * q + r
             p == n \div d
             s == n % d
  <2>1. n \in Nat /\ p \in Nat /\ s \in 0 .. d - 1 /\ n = d * p + s
    OBVIOUS
  <2> HIDE DEF p, s
  <2>2. p = q
    <3>1. CASE p < q
      <4>1. d * p + d <= d * q
        BY <2>1, <3>1
      <4>2. QED BY <2>1, <4>1
    <3>2. CASE q < p
      <4>1. d * q + d <= d * p
        BY <2>1, <3>2
      <4>2. QED BY <2>1, <4>1
    <3>3. QED BY <2>1, <3>1, <3>2
  <2>3. QED BY <2>1, <2>2 DEF p, s
<1>3. QED BY <1>1, <1>2

LEMMA Sizes ==
  /\ BlockBytes \in Nat \ {0} /\ EntryBytes \in Nat \ {0} /\ Buffer \in Nat \ {0}
  /\ MaxSize \in Nat \ {0} /\ MaxOpen \in Nat \ {0} /\ MaxSlots \in Nat \ {0}
BY SizesAssumption

\* A block number and an offset make a place, and a place has only those.
LEMMA Place ==
  ASSUME NEW k \in Nat
  PROVE  /\ k \div BlockBytes \in Nat /\ k % BlockBytes \in 0 .. BlockBytes - 1
         /\ k = BlockBytes * (k \div BlockBytes) + (k % BlockBytes)
BY Sizes, Division

LEMMA PlaceIs ==
  ASSUME NEW q \in Nat, NEW r \in 0 .. BlockBytes - 1
  PROVE  /\ BlockBytes * q \in Nat /\ BlockBytes * q + r \in Nat
         /\ (BlockBytes * q + r) \div BlockBytes = q
         /\ (BlockBytes * q + r) % BlockBytes = r
<1>1. (BlockBytes * q + r) \div BlockBytes = q /\ (BlockBytes * q + r) % BlockBytes = r
  BY Sizes, Division
<1>2. QED BY <1>1, Sizes

\* Blocks are in the order of their numbers.
LEMMA Steps ==
  ASSUME NEW p \in Nat, NEW q \in Nat
  PROVE  /\ BlockBytes * p \in Nat /\ BlockBytes * (p + 1) = BlockBytes * p + BlockBytes
         /\ p < q => BlockBytes * p + BlockBytes <= BlockBytes * q
         /\ p <= q <=> BlockBytes * p <= BlockBytes * q
BY Sizes

\* count_groups: as many blocks as it takes, and not one more.
LEMMA GroupsHold ==
  ASSUME NEW n \in Nat
  PROVE  /\ Groups(n) \in Nat
         /\ n <= BlockBytes * Groups(n) /\ BlockBytes * Groups(n) < n + BlockBytes
         /\ \A k \in Nat : k < n => k \div BlockBytes < Groups(n)
<1> DEFINE m == n + BlockBytes - 1
<1>1. m \in Nat
  BY Sizes
<1>2. /\ Groups(n) \in Nat /\ m % BlockBytes \in 0 .. BlockBytes - 1
      /\ m = BlockBytes * Groups(n) + (m % BlockBytes)
  BY <1>1, Place DEF Groups
<1>3. BlockBytes * Groups(n) \in Nat
  BY <1>2, Steps
<1>4. n <= BlockBytes * Groups(n) /\ BlockBytes * Groups(n) < n + BlockBytes
  <2> DEFINE g == BlockBytes * Groups(n)
             r == m % BlockBytes
  <2>1. g \in Nat /\ r \in 0 .. BlockBytes - 1 /\ n + BlockBytes - 1 = g + r
    BY <1>2, <1>3
  <2> HIDE DEF g, r
  <2>2. n <= g /\ g < n + BlockBytes
    BY <2>1, Sizes
  <2>3. QED BY <2>2 DEF g
<1>5. ASSUME NEW k \in Nat, k < n PROVE k \div BlockBytes < Groups(n)
  <2> DEFINE q == k \div BlockBytes
             r == k % BlockBytes
             G == Groups(n)
  <2>1. q \in Nat /\ r \in 0 .. BlockBytes - 1 /\ k = BlockBytes * q + r
    BY Place
  <2> HIDE DEF q, r, G
  <2>2. G \in Nat /\ BlockBytes * q + r < BlockBytes * G
    BY <1>2, <1>3, <1>4, <1>5, <2>1 DEF G
  <2>3. ~(G <= q)
    <3>1. G <= q => BlockBytes * G <= BlockBytes * q
      BY <2>1, <2>2, Steps
    <3>2. BlockBytes * q \in Nat /\ BlockBytes * G \in Nat
      BY <2>1, <2>2, Steps
    <3>3. QED BY <2>1, <2>2, <3>1, <3>2
  <2>4. QED BY <2>1, <2>2, <2>3 DEF q, G
<1>6. QED BY <1>2, <1>4, <1>5

LEMMA GroupsIs ==
  ASSUME NEW n \in Nat, NEW g \in Nat,
         n <= BlockBytes * g, BlockBytes * g < n + BlockBytes
  PROVE  Groups(n) = g
<1> DEFINE h == Groups(n)
<1>1. h \in Nat /\ n <= BlockBytes * h /\ BlockBytes * h < n + BlockBytes
  BY GroupsHold
<1> HIDE DEF h
<1>2. /\ BlockBytes * h \in Nat /\ BlockBytes * g \in Nat
      /\ h < g => BlockBytes * h + BlockBytes <= BlockBytes * g
      /\ g < h => BlockBytes * g + BlockBytes <= BlockBytes * h
  BY <1>1, Steps
<1>3. ~(h < g) /\ ~(g < h)
  BY <1>1, <1>2, Sizes
<1>4. QED BY <1>1, <1>3 DEF h

\* A bigger file has as many blocks at least.
LEMMA GroupsGrow ==
  ASSUME NEW n \in Nat, NEW m \in Nat, m <= n
  PROVE  Groups(m) <= Groups(n)
<1> DEFINE g == Groups(m)
           h == Groups(n)
<1>1. /\ g \in Nat /\ BlockBytes * g < m + BlockBytes
      /\ h \in Nat /\ n <= BlockBytes * h
  BY GroupsHold
<1> HIDE DEF g, h
<1>2. /\ BlockBytes * h \in Nat /\ BlockBytes * g \in Nat
      /\ h < g => BlockBytes * h + BlockBytes <= BlockBytes * g
  BY <1>1, Steps
<1>3. ~(h < g)
  BY <1>1, <1>2, Sizes
<1>4. QED BY <1>1, <1>3 DEF g, h

-----------------------------------------------------------------------------
(* Minima, and pieces of sequences.                                        *)

\* So the minimum that a free handle and a free block are chosen by is there.
LEMMA LeastIsMin ==
  ASSUME NEW S \in SUBSET Nat, S # {}
  PROVE  Min(S) \in S
BY Least DEF Min

LEMMA MinOfTwo ==
  ASSUME NEW a \in Int, NEW b \in Int
  PROVE  Min({a, b}) = IF a <= b THEN a ELSE b
<1> DEFINE m == IF a <= b THEN a ELSE b
<1>1. m \in {a, b} /\ \A y \in {a, b} : m <= y
  OBVIOUS
<1>2. \A x \in {a, b} : (\A y \in {a, b} : x <= y) => x = m
  OBVIOUS
<1> HIDE DEF m
<1>3. Min({a, b}) \in {a, b} /\ \A y \in {a, b} : Min({a, b}) <= y
  BY <1>1 DEF Min
<1>4. Min({a, b}) = m
  BY <1>2, <1>3
<1>5. QED BY <1>4 DEF m

LEMMA MaxOfTwo ==
  ASSUME NEW a \in Int, NEW b \in Int
  PROVE  Max({a, b}) = IF a <= b THEN b ELSE a
<1> DEFINE m == IF a <= b THEN b ELSE a
<1>1. m \in {a, b} /\ \A y \in {a, b} : m >= y
  OBVIOUS
<1>2. \A x \in {a, b} : (\A y \in {a, b} : x >= y) => x = m
  OBVIOUS
<1> HIDE DEF m
<1>3. Max({a, b}) \in {a, b} /\ \A y \in {a, b} : Max({a, b}) >= y
  BY <1>1 DEF Max
<1>4. Max({a, b}) = m
  BY <1>2, <1>3
<1>5. QED BY <1>4 DEF m

\* The pieces of a sequence.
LEMMA PieceIs ==
  ASSUME NEW S, NEW s \in Seq(S), NEW a \in Nat, NEW b \in Nat, b <= Len(s)
  PROVE  /\ SubSeq(s, a + 1, b) \in Seq(S)
         /\ Len(SubSeq(s, a + 1, b)) = IF a < b THEN b - a ELSE 0
         /\ \A k \in 1 .. b - a : SubSeq(s, a + 1, b)[k] = s[a + k]
<1>1. Len(s) \in Nat /\ \A k \in 1 .. Len(s) : s[k] \in S
  BY LenProperties, ElementOfSeq
<1>2. a + 1 \in Int /\ b \in Int /\ \A k \in a + 1 .. b : s[k] \in S
  BY <1>1
<1>3. /\ SubSeq(s, a + 1, b) \in Seq(S)
      /\ Len(SubSeq(s, a + 1, b)) = IF a + 1 <= b THEN b - (a + 1) + 1 ELSE 0
      /\ \A k \in 1 .. b - (a + 1) + 1 : SubSeq(s, a + 1, b)[k] = s[(a + 1) + k - 1]
  BY <1>2, SubSeqProperties
<1>4. b - (a + 1) + 1 = b - a /\ \A k \in 1 .. b - a : (a + 1) + k - 1 = a + k
  OBVIOUS
<1>5. QED BY <1>3, <1>4

\* A piece laid over a sequence from place a on.
LEMMA LaidOver ==
  ASSUME NEW S, NEW s \in Seq(S), NEW t \in Seq(S), NEW a \in 0 .. Len(s)
  PROVE  LET o == SubSeq(s, 1, a) \o t \o SubSeq(s, a + Len(t) + 1, Len(s))
         IN  /\ o \in Seq(S)
             /\ Len(o) = IF a + Len(t) <= Len(s) THEN Len(s) ELSE a + Len(t)
             /\ \A k \in 1 .. a : o[k] = s[k]
             /\ \A k \in 1 .. Len(t) : o[a + k] = t[k]
             /\ \A k \in a + Len(t) + 1 .. Len(s) : o[k] = s[k]
<1> DEFINE l == Len(s)
           m == Len(t)
           x == SubSeq(s, 1, a)
           y == SubSeq(s, a + m + 1, l)
<1>1. l \in Nat /\ m \in Nat /\ a \in 0 .. l
  BY LenProperties
<1>2. x \in Seq(S) /\ Len(x) = a /\ \A k \in 1 .. a : x[k] = s[k]
  <2>1. 0 \in Nat /\ a \in Nat /\ a <= Len(s) /\ 0 + 1 = 1
    BY <1>1
  <2>2. /\ SubSeq(s, 0 + 1, a) \in Seq(S)
        /\ Len(SubSeq(s, 0 + 1, a)) = IF 0 < a THEN a - 0 ELSE 0
        /\ \A k \in 1 .. a - 0 : SubSeq(s, 0 + 1, a)[k] = s[0 + k]
    BY <2>1, PieceIs
  <2>3. QED BY <1>1, <2>1, <2>2
<1>3. /\ y \in Seq(S) /\ Len(y) = IF a + m < l THEN l - (a + m) ELSE 0
      /\ \A k \in 1 .. l - (a + m) : y[k] = s[a + m + k]
  <2>1. a + m \in Nat /\ l \in Nat /\ l <= Len(s)
    BY <1>1
  <2>2. QED BY <2>1, PieceIs
<1> HIDE DEF x, y, l, m
<1>4. /\ x \o t \in Seq(S) /\ Len(x \o t) = a + m
      /\ \A k \in 1 .. a + m : (x \o t)[k] = IF k <= a THEN x[k] ELSE t[k - a]
  BY <1>2, ConcatProperties DEF m
<1> DEFINE z == x \o t
           o == z \o y
<1>5. /\ o \in Seq(S) /\ Len(o) = Len(z) + Len(y)
      /\ \A k \in 1 .. Len(z) + Len(y) : o[k] = IF k <= Len(z) THEN z[k] ELSE y[k - Len(z)]
  <2> HIDE DEF z
  <2>1. z \in Seq(S)
    BY <1>4 DEF z
  <2>2. QED BY <1>3, <2>1, ConcatProperties
<1>6. Len(z) = a + m /\ \A k \in 1 .. a + m : z[k] = IF k <= a THEN x[k] ELSE t[k - a]
  BY <1>4
<1> HIDE DEF z, o
<1>7. Len(o) = IF a + m <= l THEN l ELSE a + m
  BY <1>1, <1>3, <1>5, <1>6
<1>8. ASSUME NEW k \in 1 .. a PROVE o[k] = s[k]
  <2>1. k \in 1 .. a + m /\ k \in 1 .. Len(z) + Len(y) /\ k <= a /\ k <= Len(z)
    BY <1>1, <1>3, <1>6
  <2>2. QED BY <1>2, <1>5, <1>6, <2>1
<1>9. ASSUME NEW k \in 1 .. m PROVE o[a + k] = t[k]
  <2>1. a + k \in 1 .. a + m /\ a + k \in 1 .. Len(z) + Len(y) /\ ~(a + k <= a) /\ a + k - a = k
    BY <1>1, <1>3, <1>6
  <2>2. QED BY <1>5, <1>6, <2>1
<1>10. ASSUME NEW k \in a + m + 1 .. l PROVE o[k] = s[k]
  <2>1. k \in 1 .. Len(z) + Len(y) /\ ~(k <= Len(z)) /\ k - Len(z) \in 1 .. l - (a + m)
        /\ a + m + (k - Len(z)) = k
    BY <1>1, <1>3, <1>6
  <2>2. QED BY <1>3, <1>5, <2>1
<1>11. QED BY <1>5, <1>7, <1>8, <1>9, <1>10 DEF o, z, x, y, l, m

-----------------------------------------------------------------------------
(* One inode and its bytes.                                                *)

Values == Byte \cup {Junk}
Data   == [Blocks -> [1 .. BlockBytes -> Values]]
Inode  == [size : 0 .. MaxSize, blocks : Seq(Blocks)]

\* An inode has the blocks that its size needs.
Fit(n) == n \in Inode /\ Len(n.blocks) = Groups(n.size)

Bytes(d, n) ==
    [k \in 1 .. n.size |-> d[n.blocks[(k - 1) \div BlockBytes + 1]][((k - 1) % BlockBytes) + 1]]

LEMMA InodeFacts ==
  ASSUME NEW n, Fit(n)
  PROVE  /\ n.size \in 0 .. MaxSize /\ n.size \in Nat /\ n.blocks \in Seq(Blocks)
         /\ Len(n.blocks) \in Nat /\ Len(n.blocks) = Groups(n.size)
         /\ \A k \in 1 .. Len(n.blocks) : n.blocks[k] \in Blocks
         /\ n = [size |-> n.size, blocks |-> n.blocks]
         /\ n # NoInode
<1>1. n \in Inode /\ Len(n.blocks) = Groups(n.size)
  BY DEF Fit
<1>2. n.size \in 0 .. MaxSize /\ n.blocks \in Seq(Blocks) /\ n = [size |-> n.size, blocks |-> n.blocks]
  BY <1>1 DEF Inode
<1>3. Len(n.blocks) \in Nat /\ \A k \in 1 .. Len(n.blocks) : n.blocks[k] \in Blocks
  BY <1>2, LenProperties, ElementOfSeq
<1>4. n # NoInode
  BY <1>2 DEF NoInode
<1>5. QED BY <1>1, <1>2, <1>3, <1>4, Sizes

\* Every byte of a file is in one of its blocks.
LEMMA ByteInBlock ==
  ASSUME NEW n, Fit(n), NEW k \in 1 .. n.size
  PROVE  /\ (k - 1) \div BlockBytes + 1 \in 1 .. Len(n.blocks)
         /\ ((k - 1) % BlockBytes) + 1 \in 1 .. BlockBytes
<1>1. n.size \in Nat /\ Len(n.blocks) = Groups(n.size)
  BY InodeFacts
<1>2. k - 1 \in Nat /\ k - 1 < n.size
  BY <1>1
<1>3. (k - 1) \div BlockBytes \in Nat /\ (k - 1) % BlockBytes \in 0 .. BlockBytes - 1
  BY <1>2, Place
<1>4. Groups(n.size) \in Nat /\ (k - 1) \div BlockBytes < Groups(n.size)
  BY <1>1, <1>2, GroupsHold
<1>5. QED BY <1>1, <1>3, <1>4, Sizes

\* The bytes of a file are a sequence as long as its size.
LEMMA BytesAre ==
  ASSUME NEW d \in Data, NEW n, Fit(n)
  PROVE  /\ Bytes(d, n) \in Seq(Values) /\ Len(Bytes(d, n)) = n.size
         /\ \A k \in 1 .. n.size : Bytes(d, n)[k] =
               d[n.blocks[(k - 1) \div BlockBytes + 1]][((k - 1) % BlockBytes) + 1]
<1> DEFINE x(k) == d[n.blocks[(k - 1) \div BlockBytes + 1]][((k - 1) % BlockBytes) + 1]
<1>1. n.size \in Nat /\ \A k \in 1 .. Len(n.blocks) : n.blocks[k] \in Blocks
  BY InodeFacts
<1>2. ASSUME NEW k \in 1 .. n.size PROVE x(k) \in Values
  <2>1. /\ (k - 1) \div BlockBytes + 1 \in 1 .. Len(n.blocks)
        /\ ((k - 1) % BlockBytes) + 1 \in 1 .. BlockBytes
    BY ByteInBlock
  <2>2. d[n.blocks[(k - 1) \div BlockBytes + 1]] \in [1 .. BlockBytes -> Values]
    BY <1>1, <2>1 DEF Data
  <2>3. QED BY <2>1, <2>2
<1>3. Bytes(d, n) = [k \in 1 .. n.size |-> x(k)]
  BY DEF Bytes
<1> HIDE DEF x
<1>4. [k \in 1 .. n.size |-> x(k)] \in [1 .. n.size -> Values]
  BY <1>2
<1>5. \A k \in 1 .. n.size : Bytes(d, n)[k] = x(k)
  BY <1>3
<1>6. Bytes(d, n) \in Seq(Values) /\ Len(Bytes(d, n)) = n.size
  BY <1>1, <1>3, <1>4, SeqDef
<1>7. QED BY <1>5, <1>6 DEF x

\* Inodes with the same blocks show the same bytes, where both have any.
LEMMA SameBlocks ==
  ASSUME NEW d \in Data, NEW e \in Data, NEW n, NEW m, Fit(n), Fit(m),
         NEW l \in 0 .. n.size, l <= m.size,
         \A k \in 1 .. Groups(l) : e[m.blocks[k]] = d[n.blocks[k]]
  PROVE  \A k \in 1 .. l : Bytes(e, m)[k] = Bytes(d, n)[k]
<1>1. n.size \in Nat /\ m.size \in Nat
  BY InodeFacts
<1>2. TAKE k \in 1 .. l
<1>3. k \in 1 .. n.size /\ k \in 1 .. m.size /\ k - 1 \in Nat /\ k - 1 < l /\ l \in Nat
  BY <1>1
<1>4. (k - 1) \div BlockBytes \in Nat /\ Groups(l) \in Nat /\ (k - 1) \div BlockBytes < Groups(l)
  BY <1>3, Place, GroupsHold
<1>5. (k - 1) \div BlockBytes + 1 \in 1 .. Groups(l)
  BY <1>4
<1>6. /\ Bytes(d, n)[k] = d[n.blocks[(k - 1) \div BlockBytes + 1]][((k - 1) % BlockBytes) + 1]
      /\ Bytes(e, m)[k] = e[m.blocks[(k - 1) \div BlockBytes + 1]][((k - 1) % BlockBytes) + 1]
  BY <1>3, BytesAre
<1>7. QED BY <1>5, <1>6

-----------------------------------------------------------------------------
(* One turn: a piece of a block.                                           *)

\* The places of a piece that lies in one block.
LEMMA PieceInBlock ==
  ASSUME NEW pos \in Nat, NEW l \in Nat, (pos % BlockBytes) + l <= BlockBytes, NEW k \in 0 .. l - 1
  PROVE  /\ (pos + k) \div BlockBytes = pos \div BlockBytes
         /\ (pos + k) % BlockBytes = (pos % BlockBytes) + k
<1> DEFINE q == pos \div BlockBytes
           o == pos % BlockBytes
<1>1. q \in Nat /\ o \in 0 .. BlockBytes - 1 /\ pos = BlockBytes * q + o /\ BlockBytes * q \in Nat
  BY Place, Steps
<1> HIDE DEF q, o
<1>2. o + k \in 0 .. BlockBytes - 1 /\ pos + k = BlockBytes * q + (o + k)
  BY <1>1, Sizes DEF o
<1>3. /\ (BlockBytes * q + (o + k)) \div BlockBytes = q
      /\ (BlockBytes * q + (o + k)) % BlockBytes = o + k
  BY <1>1, <1>2, PlaceIs
<1>4. QED BY <1>2, <1>3 DEF q, o

\* A block is a sequence of bytes.
LEMMA BlockIsSeq ==
  ASSUME NEW x \in [1 .. BlockBytes -> Values]
  PROVE  x \in Seq(Values) /\ Len(x) = BlockBytes
BY Sizes, SeqDef

\* What one turn of base_file_read takes out of a block.
LEMMA ReadPiece ==
  ASSUME NEW d \in Data, NEW n, Fit(n), NEW pos \in Nat, NEW l \in Nat \ {0},
         pos + l <= n.size, (pos % BlockBytes) + l <= BlockBytes
  PROVE  LET b == n.blocks[pos \div BlockBytes + 1]
             o == pos % BlockBytes
         IN  /\ b \in Blocks
             /\ SubSeq(d[b], o + 1, o + l) \in Seq(Values)
             /\ Len(SubSeq(d[b], o + 1, o + l)) = l
             /\ \A k \in 1 .. l : SubSeq(d[b], o + 1, o + l)[k] = Bytes(d, n)[pos + k]
<1> DEFINE q == pos \div BlockBytes
           o == pos % BlockBytes
           b == n.blocks[q + 1]
           t == SubSeq(d[b], o + 1, o + l)
<1>1. n.size \in Nat /\ \A k \in 1 .. Len(n.blocks) : n.blocks[k] \in Blocks
  BY InodeFacts
<1>2. \A k \in 1 .. l : /\ pos + k \in 1 .. n.size
                        /\ q + 1 \in 1 .. Len(n.blocks)
                        /\ Bytes(d, n)[pos + k] = d[b][o + k]
  <2>1. TAKE k \in 1 .. l
  <2> DEFINE m == pos + k
  <2>2. m \in 1 .. n.size /\ m - 1 = pos + (k - 1) /\ k - 1 \in 0 .. l - 1
    BY <1>1
  <2>3. (pos + (k - 1)) \div BlockBytes = q /\ (pos + (k - 1)) % BlockBytes = o + (k - 1)
    BY <2>2, PieceInBlock
  <2>4. o \in Nat
    BY Place
  <2> HIDE DEF m, q, o
  <2>5. Bytes(d, n)[m] = d[n.blocks[(m - 1) \div BlockBytes + 1]][((m - 1) % BlockBytes) + 1]
    BY <2>2, BytesAre
  <2>6. (m - 1) \div BlockBytes + 1 \in 1 .. Len(n.blocks)
    BY <2>2, ByteInBlock
  <2>7. o + (k - 1) + 1 = o + k
    BY <2>4
  <2>8. QED BY <2>2, <2>3, <2>5, <2>6, <2>7 DEF m
<1>3. q + 1 \in 1 .. Len(n.blocks) /\ b \in Blocks
  <2>1. 1 \in 1 .. l
    OBVIOUS
  <2>2. QED BY <1>1, <1>2, <2>1
<1>4. d[b] \in Seq(Values) /\ Len(d[b]) = BlockBytes
  <2>1. d[b] \in [1 .. BlockBytes -> Values]
    BY <1>3 DEF Data
  <2>2. QED BY <2>1, BlockIsSeq
<1>5. o \in Nat /\ o + l \in Nat /\ o + l <= Len(d[b]) /\ o + l - o = l /\ o < o + l
  <2>1. o \in Nat /\ o + l <= BlockBytes
    BY Place
  <2> HIDE DEF o
  <2>2. QED BY <1>4, <2>1
<1> HIDE DEF q, o, b
<1>6. t \in Seq(Values) /\ Len(t) = l /\ \A k \in 1 .. l : t[k] = d[b][o + k]
  <2> DEFINE e == o + l
             s == d[b]
  <2>1. /\ s \in Seq(Values) /\ o \in Nat /\ e \in Nat /\ e <= Len(s)
        /\ e - o = l /\ o < e
    BY <1>4, <1>5
  <2>2. t = SubSeq(s, o + 1, e)
    BY DEF t
  <2> HIDE DEF e, s, t
  <2>3. /\ t \in Seq(Values) /\ Len(t) = (IF o < e THEN e - o ELSE 0)
        /\ \A k \in 1 .. e - o : t[k] = s[o + k]
    BY <2>1, <2>2, PieceIs
  <2>4. t \in Seq(Values) /\ Len(t) = l /\ \A k \in 1 .. l : t[k] = s[o + k]
    BY <2>1, <2>3
  <2>5. QED BY <2>4 DEF s
<1>7. QED BY <1>2, <1>3, <1>6 DEF q, o, b

\* What base_file_write makes of a block.
LEMMA PatchIs ==
  ASSUME NEW x \in [1 .. BlockBytes -> Values], NEW o \in Nat, NEW piece \in Seq(Values),
         o + Len(piece) <= BlockBytes
  PROVE  /\ Patch(x, o, piece) \in [1 .. BlockBytes -> Values]
         /\ \A k \in 1 .. BlockBytes : Patch(x, o, piece)[k] =
               IF o < k /\ k <= o + Len(piece) THEN piece[k - o] ELSE x[k]
<1> DEFINE y == Patch(x, o, piece)
           l == Len(piece)
<1>1. x \in Seq(Values) /\ Len(x) = BlockBytes /\ l \in Nat
  BY BlockIsSeq, LenProperties
<1>2. o \in 0 .. Len(x)
  BY <1>1, Sizes
<1>3. /\ y \in Seq(Values)
      /\ Len(y) = IF o + Len(piece) <= Len(x) THEN Len(x) ELSE o + Len(piece)
      /\ \A k \in 1 .. o : y[k] = x[k]
      /\ \A k \in 1 .. Len(piece) : y[o + k] = piece[k]
      /\ \A k \in o + Len(piece) + 1 .. Len(x) : y[k] = x[k]
  BY <1>1, <1>2, LaidOver DEF Patch
<1>4. y \in [1 .. BlockBytes -> Values]
  BY <1>1, <1>3, LenProperties
<1> HIDE DEF y, l
<1>5. ASSUME NEW k \in 1 .. BlockBytes
      PROVE  y[k] = IF o < k /\ k <= o + l THEN piece[k - o] ELSE x[k]
  <2>1. CASE k <= o
    <3>1. k \in 1 .. o
      BY <2>1
    <3>2. QED BY <1>3, <2>1, <3>1
  <2>2. CASE o < k /\ k <= o + l
    <3>1. k - o \in 1 .. l /\ o + (k - o) = k
      BY <1>1, <2>2
    <3>2. QED BY <1>3, <2>2, <3>1 DEF l
  <2>3. CASE ~(k <= o + l)
    <3>1. k \in o + l + 1 .. BlockBytes
      BY <1>1, <2>3
    <3>2. QED BY <1>1, <1>3, <2>3, <3>1 DEF l
  <2>4. QED BY <1>1, <2>1, <2>2, <2>3
<1>6. QED BY <1>4, <1>5 DEF y, l

\* What one turn of base_file_write makes of an inode, b being the new block
\* if one is needed, and the block it writes to.
Grows(n, pos) == pos \div BlockBytes >= Groups(n.size)

Grown(n, pos, l, b) ==
    [size   |-> IF n.size <= pos + l THEN pos + l ELSE n.size,
     blocks |-> IF Grows(n, pos) THEN Append(n.blocks, b) ELSE n.blocks]

Hit(n, pos, b) == IF Grows(n, pos) THEN b ELSE n.blocks[pos \div BlockBytes + 1]

\* A new block is needed just at the end of a last block that is full.
LEMMA GrowsWhen ==
  ASSUME NEW n, Fit(n), NEW pos \in 0 .. n.size
  PROVE  /\ Grows(n, pos) =>
              /\ pos = n.size /\ pos = BlockBytes * Len(n.blocks)
              /\ pos \div BlockBytes = Len(n.blocks) /\ pos % BlockBytes = 0
         /\ ~Grows(n, pos) => pos \div BlockBytes + 1 \in 1 .. Len(n.blocks)
<1> DEFINE q == pos \div BlockBytes
           o == pos % BlockBytes
           g == Len(n.blocks)
<1>1. n.size \in Nat /\ g \in Nat /\ g = Groups(n.size) /\ pos \in Nat
  BY InodeFacts
<1>2. n.size <= BlockBytes * g
  BY <1>1, GroupsHold
<1>3. /\ q \in Nat /\ o \in 0 .. BlockBytes - 1 /\ pos = BlockBytes * q + o
      /\ BlockBytes * q \in Nat /\ BlockBytes * g \in Nat
      /\ g < q => BlockBytes * g + BlockBytes <= BlockBytes * q
  <2>1. q \in Nat /\ o \in 0 .. BlockBytes - 1 /\ pos = BlockBytes * q + o
    BY <1>1, Place
  <2> HIDE DEF q, o, g
  <2>2. QED BY <1>1, <2>1, Steps
<1>4. Grows(n, pos) <=> q >= g
  BY <1>1 DEF Grows
<1>5. pos <= n.size
  BY <1>1
<1> HIDE DEF q, o, g
<1>6. ASSUME q >= g
      PROVE  pos = n.size /\ pos = BlockBytes * g /\ q = g /\ o = 0
  <2>1. ~(g < q)
    BY <1>1, <1>2, <1>3, <1>5, Sizes
  <2>2. q = g
    BY <1>1, <1>3, <1>6, <2>1
  <2>3. pos = BlockBytes * g + o
    BY <1>3, <2>2
  <2>4. QED BY <1>1, <1>2, <1>3, <1>5, <2>2, <2>3
<1>7. ~(q >= g) => q + 1 \in 1 .. g
  BY <1>1, <1>3
<1>8. QED BY <1>4, <1>6, <1>7 DEF q, o, g

\* The inode stays in order.
LEMMA GrownFits ==
  ASSUME NEW n, Fit(n), NEW pos \in 0 .. n.size, NEW l \in Nat \ {0}, NEW b,
         Grows(n, pos) => b \in Blocks,
         (pos % BlockBytes) + l <= BlockBytes, pos + l <= MaxSize
  PROVE  /\ Fit(Grown(n, pos, l, b)) /\ Hit(n, pos, b) \in Blocks
         /\ Grows(n, pos) => /\ Len(Grown(n, pos, l, b).blocks) = Len(n.blocks) + 1
                             /\ Grown(n, pos, l, b).blocks[Len(n.blocks) + 1] = b
         /\ ~Grows(n, pos) => Grown(n, pos, l, b).blocks = n.blocks
         /\ \A k \in 1 .. Len(n.blocks) : Grown(n, pos, l, b).blocks[k] = n.blocks[k]
<1> DEFINE m == Grown(n, pos, l, b)
           q == pos \div BlockBytes
           o == pos % BlockBytes
           g == Len(n.blocks)
           end == pos + l
<1>1. /\ n.size \in Nat /\ n.size <= MaxSize /\ n.blocks \in Seq(Blocks)
      /\ g \in Nat /\ g = Groups(n.size) /\ pos \in Nat
      /\ \A k \in 1 .. Len(n.blocks) : n.blocks[k] \in Blocks
  BY InodeFacts
<1>2. /\ m.size = (IF n.size <= end THEN end ELSE n.size)
      /\ m.blocks = (IF Grows(n, pos) THEN Append(n.blocks, b) ELSE n.blocks)
      /\ m = [size |-> m.size, blocks |-> m.blocks]
  BY DEF Grown
<1>3. m.size \in 0 .. MaxSize /\ end \in Nat
  BY <1>1, <1>2, Sizes
<1>4. /\ n.size <= BlockBytes * g /\ BlockBytes * g < n.size + BlockBytes
      /\ BlockBytes * g \in Nat /\ BlockBytes * (g + 1) = BlockBytes * g + BlockBytes
  BY <1>1, GroupsHold, Steps
<1>5. q \in Nat /\ o \in 0 .. BlockBytes - 1 /\ pos = BlockBytes * q + o /\ BlockBytes * q \in Nat
  <2>1. q \in Nat /\ o \in 0 .. BlockBytes - 1 /\ pos = BlockBytes * q + o
    BY <1>1, Place
  <2> HIDE DEF q, o
  <2>2. QED BY <2>1, Steps
<1>6. Grows(n, pos) =>
      /\ Append(n.blocks, b) \in Seq(Blocks) /\ Len(Append(n.blocks, b)) = g + 1
      /\ \A k \in 1 .. g : Append(n.blocks, b)[k] = n.blocks[k]
      /\ Append(n.blocks, b)[g + 1] = b
  BY <1>1, AppendProperties
<1>7. CASE Grows(n, pos)
  <2>1. pos = n.size /\ pos = BlockBytes * g /\ o = 0
    BY <1>7, GrowsWhen
  <2>2. m.size = end /\ m.blocks = Append(n.blocks, b) /\ Hit(n, pos, b) = b
    BY <1>1, <1>2, <1>7, <2>1 DEF Hit
  <2>3. end <= BlockBytes * (g + 1) /\ BlockBytes * (g + 1) < end + BlockBytes /\ g + 1 \in Nat
    <3>1. l <= BlockBytes
      BY <2>1
    <3> DEFINE v == BlockBytes * g
               w == BlockBytes * (g + 1)
    <3>2. v \in Nat /\ w = v + BlockBytes /\ pos = v
      BY <1>4, <2>1
    <3> HIDE DEF v, w
    <3>3. end <= w /\ w < end + BlockBytes
      BY <3>1, <3>2, Sizes
    <3>4. QED BY <1>1, <3>3 DEF w
  <2>4. Groups(m.size) = g + 1
    BY <1>3, <2>2, <2>3, GroupsIs
  <2>5. Fit(m)
    BY <1>2, <1>3, <1>6, <1>7, <2>2, <2>4 DEF Fit, Inode
  <2>6. QED BY <1>6, <1>7, <2>2, <2>5
<1>8. CASE ~Grows(n, pos)
  <2>1. q + 1 \in 1 .. g
    BY <1>8, GrowsWhen
  <2>2. m.blocks = n.blocks /\ Hit(n, pos, b) = n.blocks[q + 1] /\ n.blocks[q + 1] \in Blocks
    BY <1>1, <1>2, <1>8, <2>1 DEF Hit
  <2>3. m.size <= BlockBytes * g /\ BlockBytes * g < m.size + BlockBytes
    <3>1. q + 1 <= g /\ q + 1 \in Nat
      BY <1>1, <2>1
    <3> DEFINE w == BlockBytes * q
               v == BlockBytes * g
    <3>2. w \in Nat /\ v \in Nat /\ w + BlockBytes <= v
      <4> HIDE DEF q, g
      <4>1. BlockBytes * (q + 1) = BlockBytes * q + BlockBytes /\ BlockBytes * q \in Nat
        BY <1>5, Steps
      <4>2. BlockBytes * (q + 1) <= BlockBytes * g /\ BlockBytes * g \in Nat
        BY <1>1, <3>1, Steps
      <4>3. QED BY <4>1, <4>2
    <3>3. end = w + o + l /\ o + l <= BlockBytes
      BY <1>1, <1>5
    <3>7. n.size <= v /\ v < n.size + BlockBytes
      BY <1>4
    <3> HIDE DEF w, v, o, q, end
    <3>4. end <= v
      <4>1. o \in Nat
        BY <1>5
      <4>2. QED BY <1>3, <3>2, <3>3, <4>1, Sizes
    <3>5. m.size <= v /\ v < m.size + BlockBytes
      <4>1. m.size = n.size \/ m.size = end
        BY <1>2
      <4>2. n.size \in Nat /\ end \in Nat /\ (m.size = n.size \/ m.size = end)
            /\ (m.size = end => n.size <= end)
        BY <1>1, <1>2, <1>3, <4>1
      <4>3. QED BY <3>2, <3>4, <3>7, <4>2, Sizes
    <3>6. QED BY <3>5 DEF v
  <2>4. Groups(m.size) = g
    BY <1>1, <1>3, <2>3, GroupsIs
  <2>5. Fit(m)
    BY <1>1, <1>2, <1>3, <2>2, <2>4 DEF Fit, Inode
  <2>6. QED BY <1>8, <2>2, <2>5
<1>9. QED BY <1>7, <1>8

\* An inode names every block once.
Once(n) == \A i, j \in 1 .. Len(n.blocks) : n.blocks[i] = n.blocks[j] => i = j

\* e is d with a piece put in block c at offset o.
Lays(d, e, c, o, piece, l) ==
    /\ \A k \in 1 .. BlockBytes : o < k /\ k <= o + l => e[c][k] = piece[k - o]
    /\ \A k \in 1 .. BlockBytes : ~(o < k /\ k <= o + l) => e[c][k] = d[c][k]
    /\ \A x \in Blocks \ {c} : e[x] = d[x]

\* m is the inode n after a piece was put in c, its block or a new one.
Follows(n, m, pos, l, c) ==
    /\ Grows(n, pos) => m.blocks[Len(n.blocks) + 1] = c /\ \A i \in 1 .. Len(n.blocks) : n.blocks[i] # c
    /\ ~Grows(n, pos) => n.blocks[pos \div BlockBytes + 1] = c
    /\ \A k \in 1 .. Len(n.blocks) : m.blocks[k] = n.blocks[k]
    /\ m.size = IF n.size <= pos + l THEN pos + l ELSE n.size

\* t, of j bytes, is s, of i bytes, with a piece laid over it.
Lands(s, t, i, j, pos, piece, l) ==
    /\ \A k \in 1 .. j : pos < k /\ k <= pos + l => t[k] = piece[k - pos]
    /\ \A k \in 1 .. j : ~(pos < k /\ k <= pos + l) => k \in 1 .. i /\ t[k] = s[k]

\* The turn puts its piece where the position is, and changes nothing else:
\* in a file that has every block once, and not yet the new one.
LEMMA PieceLands ==
  ASSUME NEW d \in Data, NEW n, Fit(n), Once(n), NEW pos \in 0 .. n.size, NEW piece,
         NEW l \in Nat \ {0}, (pos % BlockBytes) + l <= BlockBytes,
         NEW c \in Blocks, NEW e \in Data, Lays(d, e, c, pos % BlockBytes, piece, l),
         NEW m, Fit(m), Follows(n, m, pos, l, c)
  PROVE  Lands(Bytes(d, n), Bytes(e, m), n.size, m.size, pos, piece, l)
<1> DEFINE o == pos % BlockBytes
           q == pos \div BlockBytes
           g == Len(n.blocks)
<1>a. /\ o + l <= BlockBytes
      /\ \A k \in 1 .. BlockBytes : o < k /\ k <= o + l => e[c][k] = piece[k - o]
      /\ \A k \in 1 .. BlockBytes : ~(o < k /\ k <= o + l) => e[c][k] = d[c][k]
      /\ \A x \in Blocks \ {c} : e[x] = d[x]
  BY DEF Lays
<1>b. /\ Grows(n, pos) => m.blocks[g + 1] = c /\ \A i \in 1 .. g : n.blocks[i] # c
      /\ ~Grows(n, pos) => n.blocks[q + 1] = c
      /\ \A k \in 1 .. g : m.blocks[k] = n.blocks[k]
      /\ m.size = IF n.size <= pos + l THEN pos + l ELSE n.size
  BY DEF Follows
<1>c. \A i, j \in 1 .. g : n.blocks[i] = n.blocks[j] => i = j
  BY DEF Once
<1>1. /\ n.size \in Nat /\ g \in Nat /\ pos \in Nat /\ pos <= n.size
      /\ \A k \in 1 .. g : n.blocks[k] \in Blocks
  BY InodeFacts
<1>2. m.size \in Nat
  BY InodeFacts
<1>3. q \in Nat /\ o \in 0 .. BlockBytes - 1 /\ o \in Nat
  BY <1>1, Place
<1>4. /\ Grows(n, pos) => pos = n.size /\ q = g /\ o = 0
      /\ ~Grows(n, pos) => q + 1 \in 1 .. g
  BY GrowsWhen
<1>5. \A k \in 1 .. m.size :
         Bytes(e, m)[k] = e[m.blocks[(k - 1) \div BlockBytes + 1]][((k - 1) % BlockBytes) + 1]
  BY BytesAre
<1>d. pos = BlockBytes * q + o /\ BlockBytes * q \in Nat
  BY <1>1, <1>3, Place, Steps
<1>e. \A j \in 0 .. l - 1 : (pos + j) \div BlockBytes = q /\ (pos + j) % BlockBytes = o + j
  BY <1>1, PieceInBlock
<1> HIDE DEF o, q
<1>6. ASSUME NEW k \in 1 .. m.size
      PROVE  /\ pos < k /\ k <= pos + l => Bytes(e, m)[k] = piece[k - pos]
             /\ ~(pos < k /\ k <= pos + l) => k \in 1 .. n.size /\ Bytes(e, m)[k] = Bytes(d, n)[k]
  <2> DEFINE p == (k - 1) \div BlockBytes
             r == (k - 1) % BlockBytes
  <2>1. Bytes(e, m)[k] = e[m.blocks[p + 1]][r + 1]
    BY <1>5
  <2>2. r + 1 \in 1 .. BlockBytes
    BY ByteInBlock
  <2>3. k \in 1 .. n.size =>
           /\ Bytes(d, n)[k] = d[n.blocks[p + 1]][r + 1]
           /\ p + 1 \in 1 .. g
    BY BytesAre, ByteInBlock
  <2>4. k - 1 \in Nat /\ p \in Nat /\ r \in 0 .. BlockBytes - 1 /\ k - 1 = BlockBytes * p + r
    <3>1. k - 1 \in Nat
      BY <1>2
    <3>2. QED BY <3>1, Place
  <2>5. pos < k /\ k <= pos + l => p = q /\ r = o + (k - 1 - pos)
    <3>1. ASSUME pos < k, k <= pos + l
          PROVE  p = q /\ r = o + (k - 1 - pos)
      <4> DEFINE j == k - 1 - pos
      <4>1. j \in 0 .. l - 1 /\ pos + j = k - 1
        BY <1>1, <1>2, <3>1
      <4> HIDE DEF j
      <4>2. (pos + j) \div BlockBytes = q /\ (pos + j) % BlockBytes = o + j
        BY <1>e, <4>1
      <4>3. QED BY <4>1, <4>2 DEF j
    <3>2. QED BY <3>1
  <2> HIDE DEF p, r
  <2>6. CASE pos < k /\ k <= pos + l
    <3>1. p = q /\ r = o + (k - 1 - pos)
      BY <2>5, <2>6
    <3>2. m.blocks[p + 1] = c
      BY <1>b, <1>4, <3>1
    <3>3. o < r + 1 /\ r + 1 <= o + l /\ r + 1 - o = k - pos
      BY <1>1, <1>2, <1>3, <2>6, <3>1
    <3>4. PICK z \in 1 .. BlockBytes : z = r + 1
      BY <2>2
    <3>5. o < z /\ z <= o + l /\ z - o = k - pos
      BY <1>1, <1>3, <2>4, <3>3, <3>4
    <3>6. e[c][z] = piece[z - o]
      BY <1>a, <3>5
    <3>7. Bytes(e, m)[k] = piece[k - pos]
      BY <2>1, <3>2, <3>4, <3>5, <3>6
    <3>8. QED BY <2>6, <3>7
  <2>7. CASE ~(pos < k /\ k <= pos + l)
    <3>1. k \in 1 .. n.size
      BY <1>1, <1>2, <1>b, <2>7
    <3>2. p + 1 \in 1 .. g /\ m.blocks[p + 1] = n.blocks[p + 1]
      BY <1>b, <2>3, <3>1
    <3>3. CASE n.blocks[p + 1] = c
      <4>1. ~Grows(n, pos)
        BY <1>b, <3>2, <3>3
      <4>2. p = q
        <5>1. q + 1 \in 1 .. g /\ n.blocks[p + 1] = n.blocks[q + 1]
          BY <1>4, <1>b, <3>3, <4>1
        <5>2. p + 1 = q + 1
          BY <1>c, <3>2, <5>1
        <5>3. QED BY <1>3, <2>4, <5>2
      <4>3. ~(o < r + 1 /\ r + 1 <= o + l)
        <5>2. k - 1 = BlockBytes * q + r
          BY <2>4, <4>2
        <5> DEFINE w == BlockBytes * q
        <5>3. pos = w + o /\ w \in Nat /\ k - 1 = w + r
          BY <1>d, <5>2
        <5> HIDE DEF w
        <5>4. QED BY <1>2, <1>3, <2>4, <2>7, <5>3
      <4>4. Bytes(e, m)[k] = d[c][r + 1]
        BY <1>a, <2>1, <2>2, <3>2, <3>3, <4>3
      <4>5. QED BY <2>3, <2>7, <3>1, <3>3, <4>4
    <3>4. CASE n.blocks[p + 1] # c
      <4>1. n.blocks[p + 1] \in Blocks \ {c}
        BY <1>1, <3>2, <3>4
      <4>2. e[n.blocks[p + 1]] = d[n.blocks[p + 1]]
        BY <1>a, <4>1
      <4>3. QED BY <2>1, <2>3, <2>7, <3>1, <3>2, <4>2
    <3>5. QED BY <3>3, <3>4
  <2>8. QED BY <2>6, <2>7
<1>7. QED BY <1>6 DEF Lands

-----------------------------------------------------------------------------
(* Tables and handles.                                                     *)

Inodes  == {n \in Inode : Len(n.blocks) = Groups(n.size)}
Entries == [file : Files, inode : Inodes, pos : 0 .. MaxSize]
Labels  == {"stale", "strayed", "beyond", "aborted", "wild", "failed"}

\* Files have the blocks they need, on disk and in memory, and an open file
\* has an inode on disk.
Store ==
    /\ table \in [Files -> Inodes \cup {NoInode}]
    /\ data \in Data
    /\ free \subseteq Blocks
    /\ handle \in [Handles -> Entries \cup {Closed}]
    /\ \A h \in Open : Exists(handle[h].file)

LEMMA FitIs ==
  ASSUME NEW n
  PROVE  Fit(n) <=> n \in Inodes
BY DEF Fit, Inodes

LEMMA OpenedIs ==
  ASSUME Store, NEW h \in Open
  PROVE  /\ h \in Handles /\ handle[h] \in Entries
         /\ handle[h].file \in Files /\ Exists(handle[h].file)
         /\ Fit(handle[h].inode) /\ handle[h].inode \in Inodes
         /\ handle[h].pos \in 0 .. MaxSize /\ handle[h].pos \in Nat
         /\ handle[h] = [file |-> handle[h].file, inode |-> handle[h].inode, pos |-> handle[h].pos]
<1>1. h \in Handles /\ handle[h] \in Entries /\ Exists(handle[h].file)
  BY DEF Store, Open
<1> DEFINE e == handle[h]
<1> HIDE DEF e
<1>2. e \in Entries
  BY <1>1 DEF e
<1>3. /\ e.file \in Files /\ e.inode \in Inodes /\ e.pos \in 0 .. MaxSize /\ e.pos \in Nat
      /\ e = [file |-> e.file, inode |-> e.inode, pos |-> e.pos]
  BY <1>2, Sizes DEF Entries
<1>4. QED BY <1>1, <1>3, FitIs DEF e

\* An entry is not the closed one.
LEMMA EntryIsOpen ==
  ASSUME NEW e \in Entries
  PROVE  e # Closed
<1>1. e.file \in Files
  BY DEF Entries
<1>2. Closed.file = NoFile
  BY DEF Closed
<1>3. QED BY <1>1, <1>2, NamesAssumption

\* A step that changes one handle, or none.
LEMMA StorePuts ==
  ASSUME Store, NEW h \in Handles, NEW e \in Entries \cup {Closed},
         handle' = [handle EXCEPT ![h] = e],
         table' \in [Files -> Inodes \cup {NoInode}],
         \A f \in Files : Exists(f) => Exists(f)',
         e # Closed => table'[e.file] # NoInode, data' \in Data, free' \subseteq Blocks
  PROVE  /\ Store'
         /\ handle'[h] = e /\ \A g \in Handles \ {h} : handle'[g] = handle[g]
         /\ Open' = IF e = Closed THEN Open \ {h} ELSE Open \cup {h}
<1>1. handle \in [Handles -> Entries \cup {Closed}]
  BY DEF Store
<1>2. /\ handle' \in [Handles -> Entries \cup {Closed}]
      /\ handle'[h] = e /\ \A g \in Handles \ {h} : handle'[g] = handle[g]
  <2> DEFINE E == Entries \cup {Closed}
  <2> HIDE DEF E
  <2>1. handle \in [Handles -> E] /\ e \in E
    BY <1>1 DEF E
  <2>2. /\ handle' \in [Handles -> E]
        /\ handle'[h] = e /\ \A g \in Handles \ {h} : handle'[g] = handle[g]
    BY <2>1
  <2>3. QED BY <2>2 DEF E
<1>3. Open' = IF e = Closed THEN Open \ {h} ELSE Open \cup {h}
  <2>1. Closed' = Closed
    BY DEF Closed, NoInode
  <2>2. Open = {g \in Handles : handle[g] # Closed} /\ Open' = {g \in Handles : handle'[g] # Closed}
    BY <2>1 DEF Open
  <2>3. QED BY <1>2, <2>2
<1>4. ASSUME NEW g \in Open' PROVE Exists(handle[g].file)'
  <2>1. CASE g = h
    <3>1. e # Closed
      BY <1>3, <2>1
    <3>2. table'[e.file] # NoInode /\ handle'[g] = e
      BY <1>2, <2>1, <3>1
    <3>3. QED BY <3>2 DEF Exists, NoInode
  <2>2. CASE g # h
    <3>1. g \in Open /\ g \in Handles \ {h}
      BY <1>3, <2>2 DEF Open
    <3>2. handle[g].file \in Files /\ Exists(handle[g].file)
      BY <3>1, OpenedIs
    <3>3. handle'[g].file = handle[g].file
      BY <1>2, <3>1
    <3>4. Exists(handle[g].file) => table'[handle[g].file] # NoInode
      BY <3>2 DEF Exists
    <3>5. QED BY <3>2, <3>3, <3>4 DEF Exists
  <2>3. QED BY <2>1, <2>2
<1>5. QED BY <1>2, <1>3, <1>4 DEF Store

LEMMA StoreStays ==
  ASSUME Store, UNCHANGED <<table, handle>>, data' \in Data, free' \subseteq Blocks
  PROVE  Store' /\ Open' = Open
<1>1. Open' = Open
  BY DEF Open, Closed, NoInode
<1>2. \A h \in Open' : Exists(handle[h].file)'
  BY <1>1 DEF Store, Exists
<1>3. QED BY <1>1, <1>2 DEF Store

\* Every file that is open has an inode in memory that is not free.
Room == slots \in Nat /\ slots + Cardinality(Open) <= MaxSlots

LEMMA OpenIsFinite ==
  /\ IsFiniteSet(Open) /\ Cardinality(Open) \in Nat /\ Open \subseteq Handles
  /\ IsFiniteSet(Handles) /\ Cardinality(Handles) \in Nat
  /\ 2 <= Cardinality(Handles) /\ MaxOpen <= Cardinality(Handles)
<1>1. Open \subseteq Handles /\ IsFiniteSet(Handles)
  BY HandlesAssumption DEF Open
<1>2. IsFiniteSet(Open) /\ Cardinality(Open) \in Nat /\ Cardinality(Handles) \in Nat
  BY <1>1, FS_Subset, FS_CardinalityType
<1>3. Max({MaxOpen, 2}) = IF MaxOpen <= 2 THEN 2 ELSE MaxOpen
  BY Sizes, MaxOfTwo
<1>4. QED BY <1>1, <1>2, <1>3, HandlesAssumption, Sizes

LEMMA NewIsFree ==
  ASSUME Cardinality(Open) < Cardinality(Handles)
  PROVE  New \in Handles /\ New \notin Open
<1>1. Handles \ Open # {}
  <2>1. ASSUME Handles \ Open = {} PROVE FALSE
    <3>1. Open = Handles
      BY <2>1 DEF Open
    <3>2. QED BY <3>1, OpenIsFinite
  <2>2. QED BY <2>1
<1>2. Handles \ Open \in SUBSET Nat
  BY HandlesAssumption
<1> DEFINE S == Handles \ Open
<1> HIDE DEF S
<1>3. Min(S) \in S
  BY <1>1, <1>2, LeastIsMin DEF S
<1>4. QED BY <1>3 DEF S, New

\* The inode of f as base_file_open reads it, or makes it.
Held(f) == IF Exists(f) THEN table[f] ELSE [size |-> 0, blocks |-> << >>]

LEMMA HeldIs ==
  ASSUME Store, NEW f \in Files
  PROVE  Held(f) \in Inodes /\ Fit(Held(f)) /\ (~Exists(f) => Held(f).size = 0 /\ Held(f).blocks = << >>)
<1>1. CASE Exists(f)
  <2>1. table[f] \in Inodes
    BY <1>1 DEF Store, Exists
  <2>2. QED BY <1>1, <2>1, FitIs DEF Held
<1>2. CASE ~Exists(f)
  <2> DEFINE n == [size |-> 0, blocks |-> << >>]
  <2>1. << >> \in Seq(Blocks) /\ Len(<< >>) = 0 /\ 0 \in 0 .. MaxSize
    BY Sizes
  <2>2. Groups(0) = 0
    BY GroupsIs, Sizes
  <2>3. n \in Inodes
    BY <2>1, <2>2 DEF Inodes, Inode
  <2>4. QED BY <1>2, <2>3, FitIs DEF Held
<1>3. QED BY <1>1, <1>2

LEMMA OpenIntoDoes ==
  ASSUME Store, Room, NEW f \in Files, OpenInto(f), UNCHANGED <<data, free>>,
         Cardinality(Open) < Cardinality(Handles)
  PROVE  /\ Store' /\ Room' /\ ~dead
         /\ New \in Handles /\ New \notin Open /\ Open' = Open \cup {New}
         /\ handle'[New] = [file |-> f, inode |-> Held(f), pos |-> 0]
         /\ \A h \in Handles \ {New} : handle'[h] = handle[h]
         /\ table'[f] = Held(f) /\ \A g \in Files \ {f} : table'[g] = table[g]
         /\ spoiled' = spoiled \cup {"stale" : h \in {g \in OpenOn(f) : handle[g].inode # Held(f)}}
<1> DEFINE h == New
           e == [file |-> f, inode |-> Held(f), pos |-> 0]
<1>1. /\ slots > 0 /\ ~dead
      /\ table' = [table EXCEPT ![f] = Held(f)]
      /\ handle' = [handle EXCEPT ![h] = e]
      /\ slots' = slots - 1
      /\ spoiled' = spoiled \cup {"stale" : x \in {g \in OpenOn(f) : handle[g].inode # Held(f)}}
  BY DEF OpenInto, CanOpen, Held, Note
<1>2. h \in Handles /\ h \notin Open
  BY NewIsFree
<1>3. Held(f) \in Inodes
  BY HeldIs
<1>4. e \in Entries /\ e # Closed
  <2>1. 0 \in 0 .. MaxSize
    BY Sizes
  <2>2. e \in Entries
    BY <1>3, <2>1 DEF Entries
  <2>3. QED BY <2>2, EntryIsOpen
<1>5. /\ table' \in [Files -> Inodes \cup {NoInode}]
      /\ table'[f] = Held(f) /\ \A g \in Files \ {f} : table'[g] = table[g]
  <2> DEFINE E == Inodes \cup {NoInode}
  <2>1. table \in [Files -> E] /\ Held(f) \in E
    BY <1>3 DEF Store
  <2> HIDE DEF E
  <2>2. QED BY <1>1, <2>1 DEF E
<1>6. Held(f) # NoInode
  BY HeldIs, InodeFacts
<1>7. \A g \in Files : Exists(g) => Exists(g)'
  BY <1>5, <1>6 DEF Exists, NoInode
<1>8. table'[e.file] # NoInode
  BY <1>5, <1>6
<1>9. data' \in Data /\ free' \subseteq Blocks
  BY DEF Store
<1> HIDE DEF e, h
<1>10. /\ Store'
       /\ handle'[h] = e /\ \A g \in Handles \ {h} : handle'[g] = handle[g]
       /\ Open' = IF e = Closed THEN Open \ {h} ELSE Open \cup {h}
  BY <1>1, <1>2, <1>4, <1>5, <1>7, <1>8, <1>9, StorePuts
<1>11. Open' = Open \cup {h}
  BY <1>4, <1>10
<1>12. Cardinality(Open') = Cardinality(Open) + 1
  BY <1>2, <1>11, OpenIsFinite, FS_AddElement
<1>13. Room'
  BY <1>1, <1>12, OpenIsFinite, Sizes DEF Room
<1>14. QED BY <1>1, <1>2, <1>5, <1>10, <1>11, <1>13 DEF h, e

LEMMA ForgetDoes ==
  ASSUME Store, Room, NEW h \in Open, Forget(h), UNCHANGED <<table, data, free, slots>>
  PROVE  /\ Store' /\ Room' /\ Open' = Open \ {h}
         /\ \A g \in Handles \ {h} : handle'[g] = handle[g]
<1>1. h \in Handles /\ Closed \in Entries \cup {Closed}
  BY OpenedIs
<1>2. handle' = [handle EXCEPT ![h] = Closed]
  BY DEF Forget
<1>3. /\ table' \in [Files -> Inodes \cup {NoInode}] /\ \A f \in Files : Exists(f) => Exists(f)'
      /\ data' \in Data /\ free' \subseteq Blocks
  BY DEF Store, Exists, NoInode
<1> DEFINE e == Closed
<1> HIDE DEF e
<1>4. e \in Entries \cup {Closed} /\ handle' = [handle EXCEPT ![h] = e] /\ (e # Closed => table'[e.file] # NoInode)
  BY <1>1, <1>2 DEF e
<1>5. /\ Store' /\ \A g \in Handles \ {h} : handle'[g] = handle[g]
      /\ Open' = IF e = Closed THEN Open \ {h} ELSE Open \cup {h}
  BY <1>1, <1>3, <1>4, StorePuts
<1>6. Open' = Open \ {h}
  BY <1>5 DEF e
<1>7. Cardinality(Open') = Cardinality(Open) - 1
  BY <1>6, OpenIsFinite, FS_RemoveElement
<1>8. Room'
  BY <1>7, OpenIsFinite, Sizes DEF Room
<1>9. QED BY <1>5, <1>6, <1>8

LEMMA CloseSlotDoes ==
  ASSUME Store, Room, dead \in BOOLEAN, NEW h \in Open, CloseSlot(h), UNCHANGED <<data, free>>
  PROVE  /\ Store' /\ Room' /\ Open' = Open \ {h}
         /\ \A g \in Handles \ {h} : handle'[g] = handle[g]
         /\ dead => UNCHANGED table
         /\ ~dead => /\ table'[handle[h].file] = handle[h].inode
                     /\ \A g \in Files \ {handle[h].file} : table'[g] = table[g]
<1> DEFINE f == handle[h].file
           n == handle[h].inode
<1>0. h \in Handles /\ f \in Files /\ n \in Inodes /\ n # NoInode /\ Exists(f)
  BY OpenedIs, InodeFacts
<1>1. CASE dead
  <2>1. Forget(h) /\ UNCHANGED <<table, data, free, slots>>
    BY <1>1 DEF CloseSlot
  <2>2. /\ Store' /\ Room' /\ Open' = Open \ {h}
        /\ \A g \in Handles \ {h} : handle'[g] = handle[g]
    BY <2>1, ForgetDoes
  <2>3. QED BY <1>1, <2>1, <2>2
<1>2. CASE ~dead
  <2>1. /\ handle' = [handle EXCEPT ![h] = Closed] /\ slots' = slots + 1
        /\ table' = [table EXCEPT ![f] = n]
    BY <1>2 DEF CloseSlot, Forget
  <2> HIDE DEF f, n
  <2>2. /\ table' \in [Files -> Inodes \cup {NoInode}]
        /\ table'[f] = n /\ \A g \in Files \ {f} : table'[g] = table[g]
    <3> DEFINE E == Inodes \cup {NoInode}
    <3>1. table \in [Files -> E] /\ n \in E
      BY <1>0 DEF Store
    <3> HIDE DEF E
    <3>2. QED BY <1>0, <2>1, <3>1 DEF E
  <2>3. \A g \in Files : Exists(g) => Exists(g)'
    BY <1>0, <2>2 DEF Exists, NoInode
  <2>4. data' \in Data /\ free' \subseteq Blocks
    BY DEF Store
  <2> DEFINE e == Closed
  <2> HIDE DEF e
  <2>5. e \in Entries \cup {Closed} /\ handle' = [handle EXCEPT ![h] = e] /\ (e # Closed => table'[e.file] # NoInode)
    BY <2>1 DEF e
  <2>6. /\ Store' /\ \A g \in Handles \ {h} : handle'[g] = handle[g]
        /\ Open' = IF e = Closed THEN Open \ {h} ELSE Open \cup {h}
    BY <1>0, <2>2, <2>3, <2>4, <2>5, StorePuts
  <2>7. Open' = Open \ {h}
    BY <2>6 DEF e
  <2>8. Cardinality(Open') = Cardinality(Open) - 1
    BY <2>7, OpenIsFinite, FS_RemoveElement
  <2>9. Room'
    BY <2>1, <2>8, OpenIsFinite, Sizes DEF Room
  <2>10. QED BY <1>2, <2>2, <2>6, <2>7, <2>9 DEF f, n
<1>3. QED BY <1>1, <1>2

-----------------------------------------------------------------------------
(* What a turn of a read or a write does.                                  *)

\* A turn never crosses the end of a block, nor does it do nothing.
LEMMA TurnIs ==
  ASSUME NEW pos \in Nat, NEW r \in Nat \ {0}
  PROVE  /\ Min({BlockBytes - (pos % BlockBytes), r}) \in 1 .. r
         /\ (pos % BlockBytes) + Min({BlockBytes - (pos % BlockBytes), r}) <= BlockBytes
<1> DEFINE o == pos % BlockBytes
<1>1. o \in 0 .. BlockBytes - 1
  BY Place
<1> HIDE DEF o
<1> DEFINE a == BlockBytes - o
           m == Min({a, r})
<1>2. a \in Nat \ {0} /\ o + a = BlockBytes /\ o \in Nat
  BY <1>1, Sizes
<1> HIDE DEF a
<1>3. m = IF a <= r THEN a ELSE r
  BY <1>2, MinOfTwo
<1>4. m \in 1 .. r /\ m <= a
  BY <1>2, <1>3
<1> HIDE DEF m
<1>5. o + m <= BlockBytes
  BY <1>2, <1>4
<1>6. QED BY <1>4, <1>5 DEF m, a, o

\* A handle gets another position in the same inode.
LEMMA MoveDoes ==
  ASSUME Store, Room, NEW h \in Open, NEW p \in 0 .. MaxSize,
         handle' = [handle EXCEPT ![h].pos = p], UNCHANGED <<table, data, free, slots>>
  PROVE  /\ Store' /\ Room' /\ Open' = Open
         /\ handle'[h] = [file |-> handle[h].file, inode |-> handle[h].inode, pos |-> p]
         /\ \A g \in Handles \ {h} : handle'[g] = handle[g]
<1> DEFINE f == handle[h].file
           n == handle[h].inode
           e == [file |-> f, inode |-> n, pos |-> p]
<1>1. /\ h \in Handles /\ f \in Files /\ n \in Inodes /\ Exists(f)
      /\ handle[h] = [file |-> f, inode |-> n, pos |-> handle[h].pos]
  BY OpenedIs
<1>2. [handle[h] EXCEPT !.pos = p] = e
  <2> HIDE DEF f, n
  <2>1. QED BY <1>1
<1>3. handle' = [handle EXCEPT ![h] = e]
  <2>1. handle' = [handle EXCEPT ![h] = [handle[h] EXCEPT !.pos = p]]
    OBVIOUS
  <2> HIDE DEF e
  <2>2. QED BY <2>1, <1>2
<1>4. e \in Entries /\ e # Closed
  <2> HIDE DEF f, n
  <2>1. e \in Entries
    BY <1>1 DEF Entries
  <2> HIDE DEF e
  <2>2. QED BY <2>1, EntryIsOpen
<1>5. /\ table' \in [Files -> Inodes \cup {NoInode}] /\ \A g \in Files : Exists(g) => Exists(g)'
      /\ data' \in Data /\ free' \subseteq Blocks
  BY DEF Store, Exists, NoInode
<1>6. table'[e.file] # NoInode
  BY <1>1 DEF Exists
<1> HIDE DEF e
<1>7. /\ Store'
      /\ handle'[h] = e /\ \A g \in Handles \ {h} : handle'[g] = handle[g]
      /\ Open' = IF e = Closed THEN Open \ {h} ELSE Open \cup {h}
  BY <1>1, <1>3, <1>4, <1>5, <1>6, StorePuts
<1>8. Open' = Open
  BY <1>4, <1>7
<1>9. Room'
  BY <1>8 DEF Room
<1>10. QED BY <1>7, <1>8, <1>9 DEF e

ReadSize == Min({BlockBytes - Offset, call.rest})

Delivered == SubSeq(data[Here.inode.blocks[BlockNo + 1]], Offset + 1, Offset + ReadSize)

\* The turn of a read delivers the next bytes of the file.
LEMMA ReadTurnDoes ==
  ASSUME Store, Room, call.op = "read", call.h \in Open, call.rest \in Nat \ {0},
         Here.pos + call.rest <= Here.inode.size,
         handle' = [handle EXCEPT ![call.h].pos = @ + ReadSize],
         UNCHANGED <<table, data, free, slots>>
  PROVE  /\ Store' /\ Room' /\ Open' = Open
         /\ ReadSize \in 1 .. call.rest
         /\ handle'[call.h] = [file |-> Here.file, inode |-> Here.inode, pos |-> Here.pos + ReadSize]
         /\ \A g \in Handles \ {call.h} : handle'[g] = handle[g]
         /\ Delivered \in Seq(Values) /\ Len(Delivered) = ReadSize
         /\ \A k \in 1 .. ReadSize : Delivered[k] = Bytes(data, Here.inode)[Here.pos + k]
<1> DEFINE h == call.h
           n == Here.inode
           pos == Here.pos
           l == ReadSize
<1>1. h \in Open /\ Fit(n) /\ pos \in Nat /\ n.size \in Nat /\ n.size <= MaxSize
  <2>1. Fit(n) /\ pos \in Nat
    BY OpenedIs DEF Here
  <2>2. n.size \in Nat /\ n.size <= MaxSize
    <3> HIDE DEF n
    <3>1. QED BY <2>1, InodeFacts
  <2>3. QED BY <2>1, <2>2
<1>2. l \in 1 .. call.rest /\ (pos % BlockBytes) + l <= BlockBytes
  BY <1>1, TurnIs DEF ReadSize, Offset
<1>3. l \in Nat \ {0} /\ pos + l <= n.size /\ pos + l \in 0 .. MaxSize
  <2> HIDE DEF l, pos, n
  <2>1. pos + call.rest <= n.size
    BY DEF pos, n
  <2>2. QED BY <1>1, <1>2, <2>1, Sizes
<1>4. data \in Data
  BY DEF Store
<1>5. /\ Delivered \in Seq(Values) /\ Len(Delivered) = l
      /\ \A k \in 1 .. l : Delivered[k] = Bytes(data, n)[pos + k]
  <2>1. Delivered = SubSeq(data[n.blocks[pos \div BlockBytes + 1]], (pos % BlockBytes) + 1, (pos % BlockBytes) + l)
    BY DEF Delivered, BlockNo, Offset
  <2> HIDE DEF l, n, pos
  <2>2. /\ l \in Nat \ {0} /\ pos \in Nat /\ pos + l <= n.size
        /\ (pos % BlockBytes) + l <= BlockBytes
    BY <1>1, <1>2, <1>3
  <2>3. QED BY <1>1, <1>4, <2>1, <2>2, ReadPiece, SMTT(60)
<1>6. handle' = [handle EXCEPT ![h].pos = pos + l]
  BY DEF Here
<1>7. /\ Store' /\ Room' /\ Open' = Open
      /\ handle'[h] = [file |-> handle[h].file, inode |-> handle[h].inode, pos |-> pos + l]
      /\ \A g \in Handles \ {h} : handle'[g] = handle[g]
  <2> HIDE DEF h, l, pos
  <2>1. QED BY <1>1, <1>3, <1>6, MoveDoes
<1>8. QED BY <1>2, <1>5, <1>7 DEF Here

\* What the turn of a write takes of its bytes, and where it puts them.
Chunk   == Min({BlockBytes - Offset, Len(call.rest)})
Piece   == SubSeq(call.rest, 1, Chunk)
Rest    == SubSeq(call.rest, Chunk + 1, Len(call.rest))
Spot    == Hit(Here.inode, Here.pos, Min(free))
Written == [data EXCEPT ![Spot] = Patch(data[Spot], Offset, Piece)]

LEMMA ChunkIs ==
  ASSUME call.rest \in Seq(Values), call.rest # << >>, Here.pos \in Nat
  PROVE  /\ Chunk \in 1 .. Len(call.rest) /\ Offset + Chunk <= BlockBytes /\ Offset \in Nat
         /\ Piece \in Seq(Values) /\ Len(Piece) = Chunk
         /\ \A k \in 1 .. Chunk : Piece[k] = call.rest[k]
         /\ Rest \in Seq(Values) /\ Len(Rest) = Len(call.rest) - Chunk
         /\ \A k \in 1 .. Len(Rest) : Rest[k] = call.rest[Chunk + k]
<1> DEFINE s == call.rest
           l == Len(s)
           c == Chunk
<1>1. s \in Seq(Values) /\ l \in Nat /\ l # 0
  <2> HIDE DEF s
  <2>1. s \in Seq(Values) /\ s # << >>
    BY DEF s
  <2>2. Len(s) \in Nat
    BY <2>1, LenProperties
  <2>3. Len(s) # 0
    BY <2>1, EmptySeq
  <2>4. QED BY <2>1, <2>2, <2>3
<1>2. l \in Nat \ {0}
  BY <1>1
<1>3. c \in 1 .. l /\ Offset + c <= BlockBytes /\ Offset \in Nat
  <2> HIDE DEF l
  <2>1. c = Min({BlockBytes - (Here.pos % BlockBytes), l}) /\ Offset = Here.pos % BlockBytes
    BY DEF Chunk, Offset, l
  <2> DEFINE p == Here.pos
  <2> HIDE DEF p
  <2>2. p \in Nat
    BY DEF p
  <2>3. p % BlockBytes \in Nat
    <3>1. p % BlockBytes \in 0 .. BlockBytes - 1
      BY <2>2, Place
    <3>2. QED BY <3>1, Sizes
  <2>4. /\ Min({BlockBytes - (p % BlockBytes), l}) \in 1 .. l
        /\ (p % BlockBytes) + Min({BlockBytes - (p % BlockBytes), l}) <= BlockBytes
    BY <1>2, <2>2, TurnIs
  <2>5. QED BY <2>1, <2>3, <2>4 DEF p
<1> HIDE DEF s, c, l
<1>4. c \in Nat /\ c <= l /\ 0 \in Nat /\ 0 + 1 = 1 /\ c - 0 = c /\ 0 < c
  BY <1>1, <1>3
<1>5. /\ SubSeq(s, 0 + 1, c) \in Seq(Values)
      /\ Len(SubSeq(s, 0 + 1, c)) = IF 0 < c THEN c - 0 ELSE 0
      /\ \A k \in 1 .. c - 0 : SubSeq(s, 0 + 1, c)[k] = s[0 + k]
  BY <1>1, <1>4, PieceIs DEF l
<1>6. Piece = SubSeq(s, 0 + 1, c) /\ Rest = SubSeq(s, c + 1, l)
  BY <1>4 DEF Piece, Rest, s, c, l
<1>7. /\ SubSeq(s, c + 1, l) \in Seq(Values)
      /\ Len(SubSeq(s, c + 1, l)) = IF c < l THEN l - c ELSE 0
      /\ \A k \in 1 .. l - c : SubSeq(s, c + 1, l)[k] = s[c + k]
  <2>1. l \in Nat /\ l <= Len(s)
    BY <1>1 DEF l
  <2>2. QED BY <1>1, <1>4, <2>1, PieceIs
<1>8. /\ Piece \in Seq(Values) /\ Len(Piece) = c /\ \A k \in 1 .. c : Piece[k] = s[k]
  <2>1. \A k \in 1 .. c : 0 + k = k
    BY <1>4
  <2>2. QED BY <1>4, <1>5, <1>6, <2>1
<1>9. /\ Rest \in Seq(Values) /\ Len(Rest) = l - c
      /\ \A k \in 1 .. Len(Rest) : Rest[k] = s[c + k]
  BY <1>1, <1>4, <1>6, <1>7
<1>10. QED BY <1>3, <1>8, <1>9 DEF s, c, l

LEMMA SpotIs ==
  ASSUME Store, call.h \in Open, Here.pos <= Here.inode.size,
         Grows(Here.inode, Here.pos) => free # {}
  PROVE  /\ Grows(Here.inode, Here.pos) => Min(free) \in free /\ Spot = Min(free)
         /\ ~Grows(Here.inode, Here.pos) =>
               /\ BlockNo + 1 \in 1 .. Len(Here.inode.blocks)
               /\ Spot = Here.inode.blocks[BlockNo + 1]
         /\ Spot \in Blocks
         /\ Grows(Here.inode, Here.pos) <=> BlockNo >= Groups(Here.inode.size)
<1> DEFINE n == Here.inode
           pos == Here.pos
<1>1. Fit(n) /\ pos \in Nat
  BY OpenedIs DEF Here
<1>2. n.size \in Nat /\ pos <= n.size
  <2>1. n.size \in Nat
    <3> HIDE DEF n
    <3>1. QED BY <1>1, InodeFacts
  <2>2. QED BY <2>1
<1> HIDE DEF n, pos
<1>3. pos \in 0 .. n.size
  BY <1>1, <1>2
<1>4. ~Grows(n, pos) => pos \div BlockBytes + 1 \in 1 .. Len(n.blocks)
  BY <1>1, <1>3, GrowsWhen
<1>5. ~Grows(n, pos) => n.blocks[pos \div BlockBytes + 1] \in Blocks
  BY <1>1, <1>4, InodeFacts
<1>6. free \subseteq Blocks /\ free \subseteq Nat
  BY BlocksAssumption DEF Store
<1>7. free # {} => Min(free) \in free
  BY <1>6, LeastIsMin
<1>8. BlockNo = pos \div BlockBytes
  BY DEF BlockNo, pos
<1>9. Spot = IF Grows(n, pos) THEN Min(free) ELSE n.blocks[pos \div BlockBytes + 1]
  BY DEF Spot, Hit, n, pos
<1>10. Grows(n, pos) <=> BlockNo >= Groups(n.size)
  BY <1>8 DEF Grows
<1>11. Grows(n, pos) => free # {}
  BY DEF n, pos
<1>12. QED BY <1>4, <1>5, <1>6, <1>7, <1>8, <1>9, <1>10, <1>11 DEF n, pos

\* A block that a piece was put in is a block of bytes.
LEMMA WrittenIs ==
  ASSUME Store, call.h \in Open, Here.pos <= Here.inode.size,
         Grows(Here.inode, Here.pos) => free # {},
         call.rest \in Seq(Values), call.rest # << >>
  PROVE  Written \in Data /\ \A b \in Blocks \ {Spot} : Written[b] = data[b]
<1> DEFINE p == Patch(data[Spot], Offset, Piece)
<1>1. Here.pos \in Nat
  BY OpenedIs DEF Here
<1>2. Spot \in Blocks
  BY SpotIs
<1>3. data \in [Blocks -> [1 .. BlockBytes -> Values]]
  BY DEF Store, Data
<1>4. p \in [1 .. BlockBytes -> Values]
  <2>1. data[Spot] \in [1 .. BlockBytes -> Values]
    BY <1>2, <1>3
  <2>2. Offset \in Nat /\ Piece \in Seq(Values) /\ Offset + Len(Piece) <= BlockBytes
    BY <1>1, ChunkIs
  <2>3. QED BY <2>1, <2>2, PatchIs
<1> HIDE DEF p
<1>5. Written = [data EXCEPT ![Spot] = p]
  BY DEF Written, p
<1>6. QED BY <1>2, <1>3, <1>4, <1>5 DEF Data

\* The turn of a write puts its piece in, and the file grows if it has to.
LEMMA WriteTurnDoes ==
  ASSUME Store, Room, WriteTurn, call.h \in Open, Here.pos <= Here.inode.size,
         call.rest \in Seq(Values), Here.pos + Chunk <= MaxSize
  PROVE  /\ Store' /\ Room' /\ Open' = Open
         /\ Grows(Here.inode, Here.pos) => free # {}
         /\ data' = Written /\ free' = free \ {Spot}
         /\ handle'[call.h] = [file  |-> Here.file,
                               inode |-> Grown(Here.inode, Here.pos, Chunk, Min(free)),
                               pos   |-> Here.pos + Chunk]
         /\ Grown(Here.inode, Here.pos, Chunk, Min(free)) \in Inodes
         /\ \A g \in Handles \ {call.h} : handle'[g] = handle[g]
         /\ call' = [call EXCEPT !.rest = Rest]
         /\ spoiled' = spoiled \cup
               {"stale" : g \in {x \in OpenOn(Here.file) \ {call.h} : Here.pos + Chunk > Here.inode.size}}
<1> DEFINE h == call.h
           n == Here.inode
           pos == Here.pos
           f == Here.file
           new == Min(free)
           m == Grown(n, pos, Chunk, new)
           e == [file |-> f, inode |-> m, pos |-> pos + Chunk]
<1>1. /\ h \in Handles /\ f \in Files /\ Fit(n) /\ pos \in Nat /\ Exists(f)
      /\ handle[h] = [file |-> f, inode |-> n, pos |-> pos]
  BY OpenedIs DEF Here
<1>2. n.size \in Nat /\ n.size <= MaxSize /\ pos \in 0 .. n.size /\ n.blocks \in Seq(Blocks)
  <2>1. n.size \in Nat /\ n.size <= MaxSize /\ n.blocks \in Seq(Blocks)
    <3> HIDE DEF n
    <3>1. QED BY <1>1, InodeFacts
  <2>2. QED BY <1>1, <2>1
<1>3. call.op = "write" /\ call.rest # << >> /\ ~dead
  BY DEF WriteTurn
<1>4. Grows(n, pos) <=> BlockNo >= Groups(n.size)
  BY DEF Grows, BlockNo
<1>5. Grows(n, pos) => free # {}
  BY <1>4 DEF WriteTurn
<1>6. Chunk \in 1 .. Len(call.rest) /\ Offset + Chunk <= BlockBytes
  BY <1>1, <1>3, ChunkIs
<1>7. Spot \in Blocks /\ (Grows(n, pos) => new \in Blocks)
  BY <1>2, <1>5, SpotIs DEF Store
<1>8. Chunk \in Nat \ {0}
  BY <1>6, LenProperties
<1>9. Fit(m) /\ m \in Inodes
  <2> DEFINE l == Chunk
  <2>1. l \in Nat \ {0} /\ (pos % BlockBytes) + l <= BlockBytes /\ pos + l <= MaxSize
    BY <1>6, <1>8 DEF Offset
  <2> HIDE DEF n, pos, new, l
  <2>2. Fit(Grown(n, pos, l, new))
    BY <1>1, <1>2, <1>7, <2>1, GrownFits
  <2>3. QED BY <2>2, FitIs DEF l
<1>10. Written \in Data
  BY <1>2, <1>3, <1>5, WrittenIs
<1>11. /\ data' = Written /\ free' = free \ {Spot}
       /\ call' = [call EXCEPT !.rest = Rest]
       /\ spoiled' = spoiled \cup {"stale" : g \in {x \in OpenOn(f) \ {h} : pos + Chunk > n.size}}
       /\ UNCHANGED <<table, slots>>
  <2> DEFINE b == IF Grows(n, pos) THEN Min(free) ELSE n.blocks[BlockNo + 1]
  <2>1. b = Spot
    BY DEF Spot, Hit, BlockNo
  <2>2. /\ data' = [data EXCEPT ![b] = Patch(data[b], Offset, Piece)] /\ free' = free \ {b}
        /\ call' = [call EXCEPT !.rest = Rest]
        /\ spoiled' = spoiled \cup {"stale" : g \in {x \in OpenOn(f) \ {h} : pos + Chunk > n.size}}
        /\ UNCHANGED <<table, slots>>
    BY <1>4 DEF WriteTurn, Note, Chunk, Piece, Rest
  <2> HIDE DEF b
  <2>3. QED BY <2>1, <2>2 DEF Written
<1>12. handle' = [handle EXCEPT ![h] = e]
  <2>1. Max({n.size, pos + Chunk}) = IF n.size <= pos + Chunk THEN pos + Chunk ELSE n.size
    <3> HIDE DEF n, pos
    <3>1. n.size \in Int /\ pos + Chunk \in Int
      BY <1>1, <1>2, <1>8
    <3>2. QED BY <3>1, MaxOfTwo
  <2> DEFINE k == [size   |-> Max({n.size, pos + Chunk}),
                   blocks |-> IF Grows(n, pos) THEN Append(n.blocks, new) ELSE n.blocks]
  <2>2. handle' = [handle EXCEPT ![h].inode = k, ![h].pos = pos + Chunk]
    BY <1>4 DEF WriteTurn, Chunk, Here
  <2>3. k = m
    BY <2>1 DEF Grown
  <2>4. h \in DOMAIN handle
    BY <1>1 DEF Store
  <2> HIDE DEF k, m, n, pos, f, h
  <2>5. handle' = [handle EXCEPT ![h].inode = m, ![h].pos = pos + Chunk]
    BY <2>2, <2>3
  <2>6. handle' = [handle EXCEPT ![h] = [file |-> f, inode |-> m, pos |-> pos + Chunk]]
    <3> DEFINE G == [handle EXCEPT ![h] = [file |-> f, inode |-> m, pos |-> pos]]
    <3>1. [handle EXCEPT ![h].inode = m] = G
      <4>1. [handle[h] EXCEPT !.inode = m] = [file |-> f, inode |-> m, pos |-> pos]
        BY <1>1
      <4>2. QED BY <4>1
    <3>2. handle' = [G EXCEPT ![h].pos = pos + Chunk]
      <4>1. handle' = [[handle EXCEPT ![h].inode = m] EXCEPT ![h].pos = pos + Chunk]
        BY <2>5
      <4> HIDE DEF G
      <4>2. QED BY <3>1, <4>1
    <3>3. G[h] = [file |-> f, inode |-> m, pos |-> pos]
      BY <2>4
    <3>4. [G[h] EXCEPT !.pos = pos + Chunk] = [file |-> f, inode |-> m, pos |-> pos + Chunk]
      BY <3>3
    <3>5. handle' = [G EXCEPT ![h] = [file |-> f, inode |-> m, pos |-> pos + Chunk]]
      BY <3>2, <3>4
    <3>6. QED BY <2>4, <3>5
  <2>7. QED BY <2>6
<1>13. e \in Entries /\ e # Closed
  <2> HIDE DEF m, f, pos
  <2>1. pos + Chunk \in 0 .. MaxSize
    BY <1>1, <1>8, Sizes DEF pos
  <2>2. e \in Entries
    BY <1>1, <1>9, <2>1 DEF Entries
  <2> HIDE DEF e
  <2>3. QED BY <2>2, EntryIsOpen
<1>14. /\ table' \in [Files -> Inodes \cup {NoInode}] /\ \A g \in Files : Exists(g) => Exists(g)'
       /\ table'[e.file] # NoInode
  BY <1>1, <1>11 DEF Store, Exists, NoInode
<1>15. data' \in Data /\ free' \subseteq Blocks
  BY <1>10, <1>11 DEF Store
<1> HIDE DEF e, h
<1>16. /\ Store'
       /\ handle'[h] = e /\ \A g \in Handles \ {h} : handle'[g] = handle[g]
       /\ Open' = IF e = Closed THEN Open \ {h} ELSE Open \cup {h}
  BY <1>1, <1>12, <1>13, <1>14, <1>15, StorePuts
<1>17. Open' = Open
  BY <1>13, <1>16 DEF h
<1>18. Room'
  BY <1>11, <1>17 DEF Room
<1>19. QED BY <1>5, <1>9, <1>11, <1>16, <1>17, <1>18 DEF e, h

\* When the device fails the block may have been written.
LEMMA WriteFailsDoes ==
  ASSUME Store, Room, WriteFails, call.h \in Open, Here.pos <= Here.inode.size,
         call.rest \in Seq(Values)
  PROVE  /\ Store' /\ Room' /\ Open' = Open
         /\ UNCHANGED <<table, handle, slots, job>> /\ Fail
         /\ \/ UNCHANGED <<data, free>>
            \/ /\ Grows(Here.inode, Here.pos) => free # {}
               /\ data' = Written /\ free' = free \ {Spot}
<1>1. call.op = "write" /\ call.rest # << >> /\ UNCHANGED <<table, handle, slots, job>> /\ Fail
  BY DEF WriteFails
<1>2. \/ UNCHANGED <<data, free>>
      \/ /\ Grows(Here.inode, Here.pos) => free # {}
         /\ data' = Written /\ free' = free \ {Spot}
  <2>1. Grows(Here.inode, Here.pos) <=> BlockNo >= Groups(Here.inode.size)
    BY DEF Grows, BlockNo
  <2> DEFINE b == IF Grows(Here.inode, Here.pos) THEN Min(free) ELSE Here.inode.blocks[BlockNo + 1]
  <2>2. b = Spot
    BY DEF Spot, Hit, BlockNo
  <2>3. \/ UNCHANGED <<data, free>>
        \/ /\ Grows(Here.inode, Here.pos) => free # {}
           /\ data' = [data EXCEPT ![b] = Patch(data[b], Offset, Piece)] /\ free' = free \ {b}
    BY <2>1 DEF WriteFails, Chunk, Piece
  <2> HIDE DEF b
  <2>4. QED BY <2>2, <2>3 DEF Written
<1>3. data' \in Data /\ free' \subseteq Blocks
  <2>1. CASE UNCHANGED <<data, free>>
    BY <2>1 DEF Store
  <2>2. CASE /\ Grows(Here.inode, Here.pos) => free # {}
             /\ data' = Written /\ free' = free \ {Spot}
    <3>1. Written \in Data
      BY <1>1, <2>2, WrittenIs
    <3>2. QED BY <2>2, <3>1 DEF Store
  <2>3. QED BY <1>2, <2>1, <2>2
<1>4. Store' /\ Open' = Open
  BY <1>1, <1>3, StoreStays
<1>5. Room'
  BY <1>1, <1>4 DEF Room
<1>6. QED BY <1>1, <1>2, <1>4, <1>5

\* The blocks of an inode as a set.
Named(n) == {n.blocks[i] : i \in 1 .. Len(n.blocks)}

LEMMA NamedIs ==
  ASSUME NEW s \in Seq(Blocks)
  PROVE  ToSet(s) = {s[i] : i \in 1 .. Len(s)}
BY LenProperties DEF ToSet

\* The inode after a truncation, and the blocks it no longer names.
Cut(n, size)   == [size |-> size, blocks |-> Kept(n, size)]
Freed(n, size) == ToSet(n.blocks) \ ToSet(Kept(n, size))

LEMMA CutIs ==
  ASSUME NEW n, Fit(n), NEW size \in Nat, size < n.size
  PROVE  /\ Cut(n, size) \in Inodes /\ Fit(Cut(n, size))
         /\ Len(Cut(n, size).blocks) <= Len(n.blocks)
         /\ \A i \in 1 .. Len(Cut(n, size).blocks) : Cut(n, size).blocks[i] = n.blocks[i]
         /\ Freed(n, size) = Named(n) \ Named(Cut(n, size))
<1> DEFINE s == n.blocks
           g == Groups(size)
           t == Kept(n, size)
<1>1. s \in Seq(Blocks) /\ Len(s) \in Nat /\ Len(s) = Groups(n.size) /\ n.size \in 0 .. MaxSize /\ n.size \in Nat
  BY InodeFacts
<1>2. g \in Nat /\ g <= Len(s)
  BY <1>1, GroupsHold, GroupsGrow
<1>3. size \in 0 .. MaxSize
  BY <1>1, Sizes
<1> HIDE DEF s, g
<1>4. t = SubSeq(s, 0 + 1, g)
  BY DEF Kept, s, g
<1>5. /\ SubSeq(s, 0 + 1, g) \in Seq(Blocks)
      /\ Len(SubSeq(s, 0 + 1, g)) = IF 0 < g THEN g - 0 ELSE 0
      /\ \A k \in 1 .. g - 0 : SubSeq(s, 0 + 1, g)[k] = s[0 + k]
  BY <1>1, <1>2, PieceIs
<1>6. t \in Seq(Blocks) /\ Len(t) = g /\ \A k \in 1 .. g : t[k] = s[k]
  BY <1>2, <1>4, <1>5
<1> HIDE DEF t
<1> DEFINE c == [size |-> size, blocks |-> t]
<1>7. c \in Inodes
  BY <1>3, <1>6 DEF Inodes, Inode, g
<1>8. Cut(n, size) = c
  BY DEF Cut, t
<1>9. Freed(n, size) = Named(n) \ Named(c)
  <2>1. ToSet(s) = {s[i] : i \in 1 .. Len(s)} /\ ToSet(t) = {t[i] : i \in 1 .. Len(t)}
    BY <1>1, <1>6, NamedIs
  <2>2. QED BY <2>1 DEF Freed, Named, s, t
<1>10. QED BY <1>2, <1>6, <1>7, <1>8, <1>9, FitIs DEF s

LEMMA FtruncateDoes ==
  ASSUME Store, Room, NEW h \in Handles, NEW size \in 0 .. MaxSize, Ftruncate(h, size)
  PROVE  /\ Store' /\ Room' /\ Open' = Open
         /\ h \in Open /\ size < handle[h].inode.size
         /\ handle'[h] = [file  |-> handle[h].file, inode |-> Cut(handle[h].inode, size),
                          pos   |-> handle[h].pos]
         /\ \A g \in Handles \ {h} : handle'[g] = handle[g]
         /\ free' = free \cup Freed(handle[h].inode, size)
         /\ \A b \in Blocks \ Freed(handle[h].inode, size) : data'[b] = data[b]
         /\ spoiled' = (spoiled \cup {"stale" : g \in OpenOn(handle[h].file) \ {h}})
                       \cup (IF handle[h].pos > size THEN {"beyond"} ELSE {})
<1> DEFINE f == handle[h].file
           n == handle[h].inode
           pos == handle[h].pos
           m == Cut(n, size)
           x == Freed(n, size)
           e == [file |-> f, inode |-> m, pos |-> pos]
<1>1. /\ h \in Open /\ size < n.size
      /\ handle' = [handle EXCEPT ![h].inode = m]
      /\ free' = free \cup x
      /\ data' = [b \in Blocks |-> IF b \in x THEN [k \in 1 .. BlockBytes |-> Junk] ELSE data[b]]
      /\ spoiled' = spoiled \cup ({"stale" : g \in OpenOn(f) \ {h}}
                       \cup (IF pos > size THEN {"beyond"} ELSE {}))
      /\ UNCHANGED <<table, slots, call, job, dead>>
  BY DEF Ftruncate, Cut, Freed, Note
<1>2. /\ h \in Handles /\ f \in Files /\ Fit(n) /\ pos \in 0 .. MaxSize /\ Exists(f)
      /\ handle[h] = [file |-> f, inode |-> n, pos |-> pos]
  BY <1>1, OpenedIs
<1>3. size \in Nat
  BY Sizes
<1>4. m \in Inodes /\ x = Named(n) \ Named(m)
  <2> HIDE DEF n
  <2>1. QED BY <1>1, <1>2, <1>3, CutIs
<1>5. x \subseteq Blocks
  <2>1. Named(n) \subseteq Blocks
    <3> HIDE DEF n
    <3>1. QED BY <1>2, InodeFacts DEF Named
  <2>2. QED BY <1>4, <2>1
<1> HIDE DEF m, x, n
<1>6. handle' = [handle EXCEPT ![h] = e]
  <2>1. handle' = [handle EXCEPT ![h] = [handle[h] EXCEPT !.inode = m]]
    BY <1>1
  <2>2. [handle[h] EXCEPT !.inode = m] = e
    <3> HIDE DEF f, pos
    <3>1. QED BY <1>2
  <2> HIDE DEF e
  <2>3. QED BY <2>1, <2>2
<1>7. e \in Entries /\ e # Closed
  <2> HIDE DEF f, pos
  <2>1. e \in Entries
    BY <1>2, <1>4 DEF Entries
  <2> HIDE DEF e
  <2>2. QED BY <2>1, EntryIsOpen
<1>8. /\ table' \in [Files -> Inodes \cup {NoInode}] /\ \A g \in Files : Exists(g) => Exists(g)'
      /\ table'[e.file] # NoInode
  BY <1>1, <1>2 DEF Store, Exists, NoInode
<1>9. free' \subseteq Blocks
  BY <1>1, <1>5 DEF Store
<1>10. data' \in Data /\ \A b \in Blocks \ x : data'[b] = data[b]
  <2>1. data \in [Blocks -> [1 .. BlockBytes -> Values]]
    BY DEF Store, Data
  <2> DEFINE J == [k \in 1 .. BlockBytes |-> Junk]
  <2>2. J \in [1 .. BlockBytes -> Values]
    BY DEF Values
  <2> HIDE DEF J
  <2>3. data' = [b \in Blocks |-> IF b \in x THEN J ELSE data[b]]
    BY <1>1 DEF J
  <2>4. QED BY <2>1, <2>2, <2>3 DEF Data
<1> HIDE DEF e
<1>11. /\ Store'
       /\ handle'[h] = e /\ \A g \in Handles \ {h} : handle'[g] = handle[g]
       /\ Open' = IF e = Closed THEN Open \ {h} ELSE Open \cup {h}
  BY <1>2, <1>6, <1>7, <1>8, <1>9, <1>10, StorePuts
<1>12. Open' = Open
  BY <1>1, <1>7, <1>11
<1>13. Room'
  BY <1>1, <1>12 DEF Room
<1>14. QED BY <1>1, <1>10, <1>11, <1>12, <1>13 DEF e, m, x, n

-----------------------------------------------------------------------------
(* The call and the command that are running, and the first invariant.     *)

\* Only when a truncation below a position has ended the story is a position
\* past the end of its file.
Marks ==
    /\ dead \in BOOLEAN /\ (dead <=> "failed" \in spoiled)
    /\ spoiled \subseteq Labels
    /\ "beyond" \in spoiled => Returned /\ job = NoJob
    /\ "beyond" \notin spoiled => \A h \in Open : handle[h].pos <= handle[h].inode.size

\* A read stays within the file, and a write within MaxSize; for the writes
\* of cp that follows from what was read (Flow).
CallOK ==
    /\ call = [op |-> call.op, h |-> call.h, want |-> call.want, rest |-> call.rest, got |-> call.got]
    /\ call.got \in Seq(Values)
    /\ \/ call.op = "none" /\ call.h = 0
       \/ /\ call.op = "read" /\ call.h \in Open /\ call.rest \in Nat
          /\ Here.pos + call.rest <= Here.inode.size
       \/ /\ call.op = "write" /\ call.h \in Open /\ call.rest \in Seq(Values)
          /\ job.cmd # "cp" => Here.pos + Len(call.rest) <= MaxSize

Src == handle[job.src]
Dst == handle[job.dst]

\* Nothing is asked for on h, or this is.
Asked(h, op) == Returned \/ (call.op = op /\ call.h = h)

\* createfile has put in everything, or there is no block left.
Creating ==
    /\ job.cmd = "createfile" /\ Open = {job.src} /\ job.dst = 0
    /\ job.text \in Texts
    /\ \/ job.pc = "opened" /\ Returned /\ Src.pos = 0
       \/ /\ job.pc = "last" /\ Asked(job.src, "write")
          /\ Returned => dead \/ free = {} \/ Src.pos = Len(job.text)
          /\ ~Returned => Src.pos + Len(call.rest) = Len(job.text)

\* A read of cat or cp brings a full buffer, or gets to the end of the file.
Full ==
    /\ Returned => dead \/ Len(call.got) = Buffer \/ Src.pos = Src.inode.size
    /\ ~Returned => /\ Len(call.got) + call.rest <= Buffer
                    /\ Len(call.got) + call.rest = Buffer \/ Src.pos + call.rest = Src.inode.size

Catting ==
    /\ job.cmd = "cat" /\ job.dst = 0
    /\ \/ /\ job.pc = "stat" /\ Open = {} /\ Returned /\ job.src = 0
          /\ job.text[1] \in Files
       \/ job.pc = "opened" /\ Open = {job.src} /\ Returned
       \/ job.pc = "read" /\ Open = {job.src} /\ Asked(job.src, "read") /\ Full

\* A directory is only read.
Listing ==
    /\ job.cmd = "ls" /\ Open = {job.src} /\ job.dst = 0
    /\ Src.inode = table[Src.file]
    /\ \/ job.pc = "opened" /\ Returned
       \/ job.pc = "read" /\ Asked(job.src, "read")

\* What cp has read and not yet written.
Pending == IF call.op = "write" THEN call.rest
           ELSE IF job.pc = "read" THEN call.got ELSE << >>

\* The target is where the source is, but for that; or it got no block and
\* will get none.
Flow  == Dst.pos + Len(Pending) = Src.pos
Stuck == /\ free = {} /\ Src.file # Dst.file
         /\ Grows(Dst.inode, Dst.pos)

Copying ==
    /\ job.cmd = "cp" /\ Calm
    /\ \/ /\ job.pc = "source" /\ Open = {job.src} /\ Returned /\ job.dst = 0
          /\ Src.inode = table[Src.file] /\ Src.pos = 0
          /\ job.text[1] \in Files
       \/ /\ job.pc \in {"opened", "read", "write"}
          /\ Open = {job.src, job.dst} /\ job.src # job.dst
          /\ Src.file = Dst.file => Src.inode = Dst.inode
          /\ job.pc = "opened" => Returned
          /\ job.pc = "read" => Asked(job.src, "read") /\ Full
          /\ job.pc = "write" => Asked(job.dst, "write")
          /\ Dst.pos <= Src.pos
          /\ dead \/ Stuck \/ Flow
       \/ job.pc = "close" /\ Open = {job.dst} /\ Returned /\ job.src \in Handles

JobOK ==
    /\ job = [cmd |-> job.cmd, pc |-> job.pc, src |-> job.src, dst |-> job.dst, text |-> job.text]
    /\ job = NoJob \/ Creating \/ Catting \/ Listing \/ Copying

Sound == Store /\ Room /\ Marks /\ CallOK /\ JobOK

\* Labels that a step may add.
LEMMA StaleOnly ==
  ASSUME NEW S
  PROVE  {"stale" : g \in S} \subseteq {"stale"}
OBVIOUS

\* base_file_open: what it does to the labels.
LEMMA MarksOpened ==
  ASSUME Store, Room, Marks, "beyond" \notin spoiled, NEW f \in Files, OpenInto(f),
         UNCHANGED <<data, free, dead>>, Cardinality(Open) < Cardinality(Handles)
  PROVE  Marks' /\ "beyond" \notin spoiled'
         /\ ((\A g \in OpenOn(f) : handle[g].inode = Held(f)) => spoiled' = spoiled)
<1> DEFINE S == {g \in OpenOn(f) : handle[g].inode # Held(f)}
<1>1. /\ New \in Handles /\ New \notin Open /\ Open' = Open \cup {New}
      /\ handle'[New] = [file |-> f, inode |-> Held(f), pos |-> 0]
      /\ \A h \in Handles \ {New} : handle'[h] = handle[h]
      /\ spoiled' = spoiled \cup {"stale" : h \in S}
  BY OpenIntoDoes
<1>2. {"stale" : h \in S} \subseteq {"stale"}
  BY StaleOnly
<1>3. S = {} => {"stale" : h \in S} = {}
  <2> HIDE DEF S
  <2>1. QED OBVIOUS
<1>4. /\ spoiled' \subseteq Labels /\ "beyond" \notin spoiled'
      /\ "failed" \in spoiled' <=> "failed" \in spoiled
  <2> DEFINE T == {"stale" : h \in S}
  <2> HIDE DEF T
  <2>1. T \subseteq {"stale"} /\ spoiled' = spoiled \cup T
    BY <1>1, <1>2 DEF T
  <2>2. spoiled \subseteq Labels /\ "stale" \in Labels
    BY DEF Marks, Labels
  <2>3. spoiled' \subseteq Labels
    BY <2>1, <2>2
  <2>4. "beyond" \notin T /\ "failed" \notin T
    BY <2>1
  <2>5. QED BY <2>1, <2>3, <2>4
<1>5. Held(f).size \in Nat
  BY HeldIs, InodeFacts
<1>6. \A h \in Open' : handle'[h].pos <= handle'[h].inode.size
  <2>1. TAKE h \in Open'
  <2>2. CASE h = New
    BY <1>1, <1>5, <2>2
  <2>3. CASE h # New
    <3>1. h \in Open /\ handle'[h] = handle[h]
      BY <1>1, <2>3 DEF Open
    <3>2. QED BY <3>1 DEF Marks
  <2>4. QED BY <2>2, <2>3
<1>7. Marks'
  BY <1>4, <1>6 DEF Marks
<1>8. (\A g \in OpenOn(f) : handle[g].inode = Held(f)) => spoiled' = spoiled
  BY <1>1, <1>3
<1>9. QED BY <1>4, <1>7, <1>8

\* Before a program or a command asks for anything.
LEMMA PromptIs ==
  ASSUME Sound, Prompt
  PROVE  /\ call.op = "none" /\ job = NoJob /\ job.cmd = "none" /\ Calm
         /\ "beyond" \notin spoiled /\ "stale" \notin spoiled
         /\ dead \in BOOLEAN
BY DEF Prompt, Returned, NoJob, Calm, Sound, Marks

\* A call that has returned stays so.
LEMMA CallStays ==
  ASSUME CallOK, call.op = "none", UNCHANGED call
  PROVE  CallOK'
BY DEF CallOK

LEMMA JobStays ==
  ASSUME job = NoJob, UNCHANGED job
  PROVE  JobOK'
<1>1. job' = NoJob'
  BY DEF NoJob
<1>2. NoJob' = [cmd |-> "none", pc |-> "none", src |-> 0, dst |-> 0, text |-> << >>]
  BY DEF NoJob
<1>3. job' = [cmd |-> job'.cmd, pc |-> job'.pc, src |-> job'.src, dst |-> job'.dst, text |-> job'.text]
  BY <1>1, <1>2
<1>4. QED BY <1>1, <1>3 DEF JobOK

LEMMA SoundOpenFile ==
  ASSUME Sound, NEW f \in Files, OpenFile(f)
  PROVE  Sound'
<1>1. /\ Prompt /\ Cardinality(Open) < MaxOpen /\ OpenInto(f)
      /\ UNCHANGED <<data, free, call, job, dead>>
  BY DEF OpenFile, Ready
<1>2. /\ call.op = "none" /\ job = NoJob /\ "beyond" \notin spoiled
      /\ Store /\ Room /\ Marks /\ CallOK
  BY <1>1, PromptIs DEF Sound
<1>3. Cardinality(Open) < Cardinality(Handles)
  BY <1>1, OpenIsFinite, Sizes
<1>4. Store' /\ Room'
  BY <1>1, <1>2, <1>3, OpenIntoDoes
<1>5. Marks'
  BY <1>1, <1>2, <1>3, MarksOpened
<1>6. CallOK' /\ JobOK'
  BY <1>1, <1>2, CallStays, JobStays
<1>7. QED BY <1>4, <1>5, <1>6 DEF Sound

LEMMA SoundCloseFile ==
  ASSUME Sound, NEW h \in Handles, CloseFile(h)
  PROVE  Sound'
<1>1. /\ Prompt /\ h \in Open /\ CloseSlot(h)
      /\ UNCHANGED <<data, free, call, job, dead, spoiled>>
  BY DEF CloseFile, Ready
<1>2. /\ call.op = "none" /\ job = NoJob /\ "beyond" \notin spoiled /\ dead \in BOOLEAN
      /\ Store /\ Room /\ Marks /\ CallOK
  BY <1>1, PromptIs DEF Sound
<1>3. /\ Store' /\ Room' /\ Open' = Open \ {h}
      /\ \A g \in Handles \ {h} : handle'[g] = handle[g]
  BY <1>1, <1>2, CloseSlotDoes
<1>4. \A g \in Open' : handle'[g] = handle[g] /\ g \in Open
  BY <1>3 DEF Open
<1>5. Marks'
  BY <1>1, <1>2, <1>4 DEF Marks
<1>6. CallOK' /\ JobOK'
  BY <1>1, <1>2, CallStays, JobStays
<1>7. QED BY <1>3, <1>5, <1>6 DEF Sound

LEMMA SoundLseek ==
  ASSUME Sound, NEW h \in Handles, NEW off \in -1 .. MaxSize,
         NEW where \in {"set", "cur", "end"}, Lseek(h, off, where)
  PROVE  /\ Sound' /\ Open' = Open
         /\ off >= 0 => off \in 0 .. handle[h].inode.size
<1>1. /\ Prompt /\ h \in Open /\ Target(h, off, where) \in 0 .. handle[h].inode.size
      /\ UNCHANGED <<table, data, free, slots, call, job, dead>>
  BY DEF Lseek, Ready
<1>2. /\ call.op = "none" /\ job = NoJob /\ "beyond" \notin spoiled
      /\ Store /\ Room /\ Marks /\ CallOK
  BY <1>1, PromptIs DEF Sound
<1>3. CallOK' /\ JobOK'
  BY <1>1, <1>2, CallStays, JobStays
<1> DEFINE n == handle[h].inode
           pos == handle[h].pos
<1>4. n.size \in Nat /\ n.size <= MaxSize /\ pos \in Nat /\ pos <= n.size
  <2>1. Fit(n) /\ pos \in Nat
    BY <1>1, <1>2, OpenedIs
  <2>2. n.size \in Nat /\ n.size <= MaxSize
    <3> HIDE DEF n
    <3>1. QED BY <2>1, InodeFacts
  <2>3. QED BY <1>1, <1>2, <2>1, <2>2 DEF Marks
<1>5. off \in Int /\ (off >= 0 => off \in Nat /\ off <= MaxSize)
  BY Sizes
<1>6. off >= 0 => off <= n.size
  <2> DEFINE t == Target(h, off, where)
  <2>1. /\ where = "set" => t = off
        /\ where = "cur" => t = pos + off
        /\ where = "end" => t = n.size + off
    BY DEF Target
  <2>2. t \in 0 .. n.size
    BY <1>1
  <2> HIDE DEF t, n, pos
  <2>3. t = off \/ t = pos + off \/ t = n.size + off
    BY <2>1
  <2>4. QED BY <1>4, <1>5, <2>2, <2>3
<1>7. CASE off < 0
  <2>1. spoiled' = spoiled \cup {"aborted"} /\ UNCHANGED handle
    BY <1>7 DEF Lseek, Note
  <2>2. Store' /\ Open' = Open
    BY <1>1, <1>2, <2>1, StoreStays DEF Store
  <2>3. Room'
    BY <1>1, <1>2, <2>2 DEF Room
  <2>4. Marks'
    BY <1>1, <1>2, <2>1, <2>2 DEF Marks, Labels
  <2>5. QED BY <1>3, <1>5, <1>7, <2>2, <2>3, <2>4 DEF Sound
<1>8. CASE off >= 0
  <2>1. /\ handle' = [handle EXCEPT ![h].pos = off]
        /\ spoiled' = spoiled \cup (IF Target(h, off, where) = off THEN {} ELSE {"strayed"})
    BY <1>8 DEF Lseek, Note
  <2>2. off \in 0 .. MaxSize /\ off \in 0 .. n.size
    BY <1>4, <1>5, <1>6, <1>8
  <2>3. /\ Store' /\ Room' /\ Open' = Open
        /\ handle'[h] = [file |-> handle[h].file, inode |-> handle[h].inode, pos |-> off]
        /\ \A g \in Handles \ {h} : handle'[g] = handle[g]
    BY <1>1, <1>2, <2>1, <2>2, MoveDoes
  <2>4. \A g \in Open' : handle'[g].pos <= handle'[g].inode.size
    <3>1. TAKE g \in Open'
    <3>2. CASE g = h
      BY <1>6, <1>8, <2>3, <3>2
    <3>3. CASE g # h
      <4>1. g \in Open /\ handle'[g] = handle[g]
        BY <2>3, <3>3 DEF Open
      <4>2. QED BY <1>2, <4>1 DEF Marks
    <3>4. QED BY <3>2, <3>3
  <2>5. Marks'
    BY <1>1, <1>2, <2>1, <2>4 DEF Marks, Labels
  <2>6. QED BY <1>3, <2>2, <2>3, <2>5 DEF Sound
<1>9. QED BY <1>5, <1>7, <1>8

LEMMA SoundFtruncate ==
  ASSUME Sound, NEW h \in Handles, NEW size \in 0 .. MaxSize, Ftruncate(h, size)
  PROVE  Sound'
<1>1. Prompt /\ UNCHANGED <<call, job, dead>>
  BY DEF Ftruncate, Ready
<1>2. /\ call.op = "none" /\ job = NoJob /\ "beyond" \notin spoiled
      /\ Store /\ Room /\ Marks /\ CallOK
  BY <1>1, PromptIs DEF Sound
<1>3. CallOK' /\ JobOK'
  BY <1>1, <1>2, CallStays, JobStays
<1> DEFINE n == handle[h].inode
           S == OpenOn(handle[h].file) \ {h}
           B == IF handle[h].pos > size THEN {"beyond"} ELSE {}
           T == {"stale" : g \in S}
<1>4. /\ Store' /\ Room' /\ Open' = Open /\ h \in Open
      /\ handle'[h] = [file |-> handle[h].file, inode |-> Cut(n, size), pos |-> handle[h].pos]
      /\ \A g \in Handles \ {h} : handle'[g] = handle[g]
      /\ spoiled' = (spoiled \cup T) \cup B
  BY <1>2, FtruncateDoes
<1>5. T \subseteq {"stale"} /\ (handle[h].pos > size <=> "beyond" \in B) /\ B \subseteq {"beyond"}
  BY StaleOnly
<1> HIDE DEF T, B
<1>6. "beyond" \notin spoiled' => \A g \in Open' : handle'[g].pos <= handle'[g].inode.size
  <2>1. ASSUME "beyond" \notin spoiled', NEW g \in Open'
        PROVE  handle'[g].pos <= handle'[g].inode.size
    <3>1. CASE g = h
      <4>1. handle'[g].pos = handle[h].pos /\ handle'[g].inode.size = size
        BY <1>4, <3>1 DEF Cut
      <4>2. ~(handle[h].pos > size)
        BY <1>4, <1>5, <2>1
      <4>3. handle[h].pos \in Nat
        BY <1>2, <1>4, OpenedIs
      <4>4. size \in Nat
        BY Sizes
      <4>5. QED BY <4>1, <4>2, <4>3, <4>4
    <3>2. CASE g # h
      <4>1. g \in Open /\ handle'[g] = handle[g]
        BY <1>4, <3>2 DEF Open
      <4>2. QED BY <1>2, <4>1 DEF Marks
    <3>3. QED BY <3>1, <3>2
  <2>2. QED BY <2>1
<1>7. spoiled' \subseteq Labels /\ ("failed" \in spoiled' <=> "failed" \in spoiled)
  BY <1>2, <1>4, <1>5 DEF Marks, Labels
<1>8. (Returned /\ job = NoJob)'
  BY <1>1, <1>2 DEF Returned, NoJob
<1>9. Marks'
  BY <1>1, <1>2, <1>6, <1>7, <1>8 DEF Marks
<1>10. QED BY <1>3, <1>4, <1>9 DEF Sound

LEMMA SoundRestart ==
  ASSUME Sound, Restart
  PROVE  Sound'
<1>1. /\ Prompt /\ Open = {} /\ slots' = MaxSlots
      /\ UNCHANGED <<table, data, free, handle, call, job, dead, spoiled>>
  BY DEF Restart, Ready
<1>2. /\ call.op = "none" /\ job = NoJob /\ "beyond" \notin spoiled
      /\ Store /\ Room /\ Marks /\ CallOK
  BY <1>1, PromptIs DEF Sound
<1>3. Store' /\ Open' = Open
  BY <1>1, <1>2, StoreStays DEF Store
<1>4. Room'
  BY <1>1, <1>3, FS_EmptySet, Sizes DEF Room
<1>5. Marks'
  BY <1>1, <1>2, <1>3 DEF Marks
<1>6. CallOK' /\ JobOK'
  BY <1>1, <1>2, CallStays, JobStays
<1>7. QED BY <1>3, <1>4, <1>5, <1>6 DEF Sound

\* The beginning of a call: it asks for bytes of the file, or brings some.
LEMMA ReadingIs ==
  ASSUME Store, Marks, "beyond" \notin spoiled, NEW h \in Open, NEW want \in Nat \ {0}
  PROVE  LET c == Reading(h, want)
         IN  /\ c = [op |-> "read", h |-> h, want |-> want, rest |-> c.rest, got |-> << >>]
             /\ c.rest \in Nat /\ c.rest <= want
             /\ handle[h].pos + c.rest <= handle[h].inode.size
             /\ c.rest = want \/ handle[h].pos + c.rest = handle[h].inode.size
<1> DEFINE n == handle[h].inode
           pos == handle[h].pos
           c == Reading(h, want)
           left == n.size - pos
<1>1. Fit(n) /\ pos \in Nat /\ pos <= n.size
  BY OpenedIs DEF Marks
<1>2. n.size \in Nat
  <2> HIDE DEF n
  <2>1. QED BY <1>1, InodeFacts
<1>3. c = [op |-> "read", h |-> h, want |-> want, rest |-> c.rest, got |-> << >>]
      /\ c.rest = Min({want, left})
  BY DEF Reading
<1> HIDE DEF c, n, pos
<1>4. left \in Nat /\ pos + left = n.size
  BY <1>1, <1>2
<1> HIDE DEF left
<1>5. c.rest = IF want <= left THEN want ELSE left
  BY <1>3, <1>4, MinOfTwo
<1>6. /\ c.rest \in Nat /\ c.rest <= want /\ pos + c.rest <= n.size
      /\ c.rest = want \/ pos + c.rest = n.size
  BY <1>1, <1>2, <1>4, <1>5
<1>7. QED BY <1>3, <1>6 DEF c, n, pos

LEMMA SoundRead ==
  ASSUME Sound, NEW h \in Handles, NEW want \in Counts, Read(h, want)
  PROVE  Sound'
<1>1. /\ Prompt /\ h \in Open /\ call' = Reading(h, want)
      /\ UNCHANGED <<table, data, free, handle, slots, job, dead, spoiled>>
  BY DEF Read, Ready
<1>2. /\ call.op = "none" /\ job = NoJob /\ "beyond" \notin spoiled
      /\ Store /\ Room /\ Marks /\ CallOK
  BY <1>1, PromptIs DEF Sound
<1>3. Store' /\ Open' = Open
  BY <1>1, <1>2, StoreStays DEF Store
<1>4. Room' /\ Marks' /\ JobOK'
  BY <1>1, <1>2, <1>3, JobStays DEF Room, Marks
<1> DEFINE c == Reading(h, want)
<1>5. want \in Nat \ {0}
  BY CountsAssumption
<1>6. /\ c = [op |-> "read", h |-> h, want |-> want, rest |-> c.rest, got |-> << >>]
      /\ c.rest \in Nat /\ handle[h].pos + c.rest <= handle[h].inode.size
  BY <1>1, <1>2, <1>5, ReadingIs
<1> HIDE DEF c
<1>7. /\ call' = c /\ c.op = "read" /\ c.h = h /\ c.got = << >>
      /\ c = [op |-> c.op, h |-> c.h, want |-> c.want, rest |-> c.rest, got |-> c.got]
  BY <1>1, <1>6 DEF c
<1>8. << >> \in Seq(Values)
  BY EmptySeq
<1>9. CallOK'
  BY <1>1, <1>3, <1>6, <1>7, <1>8 DEF CallOK, Here
<1>10. QED BY <1>3, <1>4, <1>9 DEF Sound

LEMMA SoundWrite ==
  ASSUME Sound, NEW h \in Handles, NEW text \in Texts, Write(h, text)
  PROVE  Sound'
<1>1. /\ Prompt /\ h \in Open /\ call' = Writing(h, text)
      /\ handle[h].pos + Len(text) <= MaxSize
      /\ UNCHANGED <<table, data, free, handle, slots, job, dead, spoiled>>
  BY DEF Write, Ready
<1>2. /\ call.op = "none" /\ job = NoJob /\ "beyond" \notin spoiled
      /\ Store /\ Room /\ Marks /\ CallOK
  BY <1>1, PromptIs DEF Sound
<1>3. Store' /\ Open' = Open
  BY <1>1, <1>2, StoreStays DEF Store
<1>4. Room' /\ Marks' /\ JobOK'
  BY <1>1, <1>2, <1>3, JobStays DEF Room, Marks
<1>5. text \in Seq(Values)
  BY TextsAssumption, SeqDef DEF Values
<1>6. << >> \in Seq(Values)
  BY EmptySeq
<1>7. CallOK'
  BY <1>1, <1>3, <1>5, <1>6 DEF CallOK, Here, Writing
<1>8. QED BY <1>3, <1>4, <1>7 DEF Sound

\* Which command a read or a write belongs to.
LEMMA ReaderIs ==
  ASSUME Sound, call.op = "read"
  PROVE  /\ ~Returned /\ "beyond" \notin spoiled
         /\ call.h \in Open /\ call.rest \in Nat /\ call.got \in Seq(Values)
         /\ Here.pos + call.rest <= Here.inode.size
         /\ call = [op |-> "read", h |-> call.h, want |-> call.want, rest |-> call.rest, got |-> call.got]
         /\ \/ job = NoJob
            \/ job.pc = "read" /\ call.h = job.src /\ Open = {job.src} /\ Catting /\ Full
            \/ job.pc = "read" /\ call.h = job.src /\ Open = {job.src} /\ Listing
            \/ /\ job.pc = "read" /\ call.h = job.src /\ Open = {job.src, job.dst}
               /\ job.src # job.dst /\ Copying /\ Full
<1>1. ~Returned
  BY DEF Returned
<1>2. "beyond" \notin spoiled
  BY <1>1 DEF Sound, Marks
<1>3. /\ call.h \in Open /\ call.rest \in Nat /\ call.got \in Seq(Values)
      /\ Here.pos + call.rest <= Here.inode.size
      /\ call = [op |-> "read", h |-> call.h, want |-> call.want, rest |-> call.rest, got |-> call.got]
  BY DEF Sound, CallOK
<1>4. job = NoJob \/ Creating \/ Catting \/ Listing \/ Copying
  BY DEF Sound, JobOK
<1>5. ~Creating
  BY <1>1 DEF Creating, Asked
<1>6. Catting => job.pc = "read" /\ call.h = job.src /\ Open = {job.src} /\ Full
  BY <1>1 DEF Catting, Asked
<1>7. Listing => job.pc = "read" /\ call.h = job.src /\ Open = {job.src}
  BY <1>1 DEF Listing, Asked
<1>8. Copying => /\ job.pc = "read" /\ call.h = job.src /\ Open = {job.src, job.dst}
                 /\ job.src # job.dst /\ Full
  BY <1>1 DEF Copying, Asked
<1>9. QED BY <1>1, <1>2, <1>3, <1>4, <1>5, <1>6, <1>7, <1>8

LEMMA WriterIs ==
  ASSUME Sound, call.op = "write"
  PROVE  /\ ~Returned /\ "beyond" \notin spoiled
         /\ call.h \in Open /\ call.rest \in Seq(Values) /\ call.got \in Seq(Values)
         /\ Here.pos \in Nat /\ Here.pos <= Here.inode.size
         /\ call = [op |-> "write", h |-> call.h, want |-> call.want, rest |-> call.rest, got |-> call.got]
         /\ job.cmd # "cp" => Here.pos + Len(call.rest) <= MaxSize
         /\ \/ job = NoJob
            \/ job.pc = "last" /\ call.h = job.src /\ Open = {job.src} /\ Creating
            \/ /\ job.pc = "write" /\ call.h = job.dst /\ Open = {job.src, job.dst}
               /\ job.src # job.dst /\ Copying
<1>1. ~Returned
  BY DEF Returned
<1>2. "beyond" \notin spoiled
  BY <1>1 DEF Sound, Marks
<1>3. /\ call.h \in Open /\ call.rest \in Seq(Values) /\ call.got \in Seq(Values)
      /\ job.cmd # "cp" => Here.pos + Len(call.rest) <= MaxSize
      /\ call = [op |-> "write", h |-> call.h, want |-> call.want, rest |-> call.rest, got |-> call.got]
  BY DEF Sound, CallOK
<1>4. Here.pos <= Here.inode.size
  BY <1>2, <1>3 DEF Sound, Marks, Here
<1>5. Here.pos \in Nat
  BY <1>3, OpenedIs DEF Sound, Here
<1>6. job = NoJob \/ Creating \/ Catting \/ Listing \/ Copying
  BY DEF Sound, JobOK
<1>7. ~Catting
  BY <1>1 DEF Catting, Asked
<1>8. ~Listing
  BY <1>1 DEF Listing, Asked
<1>9. Creating => job.pc = "last" /\ call.h = job.src /\ Open = {job.src}
  BY <1>1 DEF Creating, Asked
<1>10. Copying => /\ job.pc = "write" /\ call.h = job.dst /\ Open = {job.src, job.dst}
                  /\ job.src # job.dst
  BY <1>1 DEF Copying, Asked
<1>11. QED BY <1>1, <1>2, <1>3, <1>4, <1>5, <1>6, <1>7, <1>8, <1>9, <1>10

\* What the job keeps when only the call goes on.
LEMMA JobShape ==
  ASSUME JobOK
  PROVE  /\ job = [cmd |-> job.cmd, pc |-> job.pc, src |-> job.src, dst |-> job.dst, text |-> job.text]
         /\ NoJob' = NoJob /\ NoCall' = NoCall
BY DEF JobOK, NoJob, NoCall

\* One turn of a read that the device serves.
Reads ==
    /\ ~dead /\ call.op = "read" /\ call.rest > 0
    /\ call' = [call EXCEPT !.rest = @ - ReadSize, !.got = @ \o Delivered]
    /\ handle' = [handle EXCEPT ![call.h].pos = @ + ReadSize]
    /\ UNCHANGED <<table, data, free, slots, job, dead, spoiled>>

LEMMA ReadTurnIs ==
  ASSUME ReadTurn
  PROVE  Reads \/ (call.op = "read" /\ Fail /\ UNCHANGED <<table, data, free, handle, slots, job>>)
BY DEF ReadTurn, Reads, ReadSize, Delivered

LEMMA ReadsDoes ==
  ASSUME Sound, Reads
  PROVE  /\ Store' /\ Room' /\ Open' = Open /\ Marks' /\ CallOK'
         /\ ReadSize \in 1 .. call.rest
         /\ handle'[call.h] = [file |-> Here.file, inode |-> Here.inode, pos |-> Here.pos + ReadSize]
         /\ \A g \in Handles \ {call.h} : handle'[g] = handle[g]
         /\ call' = [op |-> "read", h |-> call.h, want |-> call.want,
                     rest |-> call.rest - ReadSize, got |-> call.got \o Delivered]
         /\ Delivered \in Seq(Values) /\ Len(Delivered) = ReadSize
         /\ \A k \in 1 .. ReadSize : Delivered[k] = Bytes(data, Here.inode)[Here.pos + k]
         /\ Len(call'.got) = Len(call.got) + ReadSize
<1>1. /\ call.op = "read" /\ call.rest \in Nat \ {0} /\ call.h \in Open
      /\ call.got \in Seq(Values)
      /\ Here.pos + call.rest <= Here.inode.size /\ "beyond" \notin spoiled
      /\ call = [op |-> "read", h |-> call.h, want |-> call.want, rest |-> call.rest, got |-> call.got]
  BY ReaderIs DEF Reads
<1>2. Store /\ Room /\ Marks
  BY DEF Sound
<1>3. /\ handle' = [handle EXCEPT ![call.h].pos = @ + ReadSize]
      /\ UNCHANGED <<table, data, free, slots, job, dead, spoiled>>
      /\ call' = [call EXCEPT !.rest = @ - ReadSize, !.got = @ \o Delivered]
  BY DEF Reads
<1>4. /\ Store' /\ Room' /\ Open' = Open
      /\ ReadSize \in 1 .. call.rest
      /\ handle'[call.h] = [file |-> Here.file, inode |-> Here.inode, pos |-> Here.pos + ReadSize]
      /\ \A g \in Handles \ {call.h} : handle'[g] = handle[g]
      /\ Delivered \in Seq(Values) /\ Len(Delivered) = ReadSize
      /\ \A k \in 1 .. ReadSize : Delivered[k] = Bytes(data, Here.inode)[Here.pos + k]
  BY <1>1, <1>2, <1>3, ReadTurnDoes
<1> DEFINE d == Delivered
           l == ReadSize
           got == call.got \o d
<1> HIDE DEF d, l
<1>5. call' = [op |-> "read", h |-> call.h, want |-> call.want, rest |-> call.rest - l, got |-> got]
  BY <1>1, <1>3 DEF d, l
<1>6. got \in Seq(Values) /\ Len(got) = Len(call.got) + Len(d)
  BY <1>1, <1>4, ConcatProperties DEF d
<1>7. Here.pos \in Nat
  BY <1>1, <1>2, OpenedIs DEF Here
<1> HIDE DEF got
<1>8. call.rest - l \in Nat /\ Here.pos + l + (call.rest - l) = Here.pos + call.rest
  BY <1>1, <1>4, <1>7 DEF l
<1>9. CallOK'
  <2>1. /\ call'.op = "read" /\ call'.h = call.h /\ call'.rest = call.rest - l /\ call'.got = got
        /\ call' = [op |-> call'.op, h |-> call'.h, want |-> call'.want, rest |-> call'.rest, got |-> call'.got]
    BY <1>5
  <2>2. Here'.pos = Here.pos + l /\ Here'.inode = Here.inode
    BY <1>4, <2>1 DEF Here, l
  <2>3. call'.rest \in Nat /\ Here'.pos + call'.rest <= Here'.inode.size
    BY <1>1, <1>8, <2>1, <2>2
  <2>4. QED BY <1>1, <1>4, <1>6, <2>1, <2>3 DEF CallOK
<1>10. \A g \in Open' : handle'[g].pos <= handle'[g].inode.size
  <2>1. TAKE g \in Open'
  <2>2. CASE g = call.h
    <3>1. handle'[g].pos = Here.pos + l /\ handle'[g].inode = Here.inode
      BY <1>4, <2>2 DEF l
    <3>2. Here.inode.size \in Nat
      <4>1. Fit(Here.inode)
        BY <1>1, <1>2, OpenedIs DEF Here
      <4> DEFINE n == Here.inode
      <4> HIDE DEF n
      <4>2. n.size \in Nat
        BY <4>1, InodeFacts DEF n
      <4>3. QED BY <4>2 DEF n
    <3>3. Here.pos + l <= Here.pos + call.rest
      BY <1>1, <1>4, <1>7 DEF l
    <3>4. l \in Nat
      BY <1>4 DEF l
    <3>5. QED BY <1>1, <1>7, <3>1, <3>2, <3>3, <3>4
  <2>3. CASE g # call.h
    <3>1. g \in Open /\ handle'[g] = handle[g]
      BY <1>4, <2>3 DEF Open
    <3>2. QED BY <1>1, <1>2, <3>1 DEF Marks
  <2>4. QED BY <2>2, <2>3
<1>11. Marks'
  BY <1>1, <1>2, <1>3, <1>10 DEF Marks
<1>12. call'.got = got
  BY <1>5
<1>13. QED BY <1>4, <1>5, <1>6, <1>9, <1>11, <1>12 DEF d, l, got

LEMMA SoundReads ==
  ASSUME Sound, Reads
  PROVE  Sound'
<1> DEFINE h == call.h
           l == ReadSize
<1>1. /\ Store' /\ Room' /\ Open' = Open /\ Marks' /\ CallOK'
      /\ l \in 1 .. call.rest
      /\ handle'[h] = [file |-> handle[h].file, inode |-> handle[h].inode, pos |-> handle[h].pos + l]
      /\ \A g \in Handles \ {h} : handle'[g] = handle[g]
      /\ call'.op = "read" /\ call'.h = h /\ call'.rest = call.rest - l
      /\ Len(call'.got) = Len(call.got) + l
  BY ReadsDoes DEF Here
<1>2. /\ call.op = "read" /\ call.rest \in Nat /\ call.got \in Seq(Values) /\ h \in Open
  BY ReaderIs DEF Reads
<1>3. /\ UNCHANGED <<table, data, free, slots, job, dead, spoiled>> /\ ~dead
      /\ ~Returned /\ ~Returned'
  BY <1>1, <1>2 DEF Reads, Returned
<1>4. Len(call.got) \in Nat /\ handle[h].pos \in Nat
  <2>1. Len(call.got) \in Nat
    BY <1>2, LenProperties
  <2>2. handle[h].pos \in Nat
    BY <1>2, OpenedIs DEF Sound
  <2>3. QED BY <2>1, <2>2
<1> HIDE DEF h, l
<1>5. l \in Nat /\ call.rest - l \in Nat
  BY <1>1, <1>2
<1>6. job' = [cmd |-> job'.cmd, pc |-> job'.pc, src |-> job'.src, dst |-> job'.dst, text |-> job'.text]
  BY <1>3, JobShape DEF Sound
<1>7. CASE job = NoJob
  <2>1. job' = NoJob'
    BY <1>3, <1>7 DEF NoJob
  <2>2. QED BY <1>1, <1>6, <2>1 DEF Sound, JobOK
<1>8. ASSUME h = job.src, Full
      PROVE  Full'
  <2>1. Src'.pos = Src.pos + l /\ Src'.inode = Src.inode
    BY <1>1, <1>3, <1>8 DEF Src
  <2>2. Len(call.got) + call.rest <= Buffer
    BY <1>3, <1>8 DEF Full
  <2>3. Len(call.got) + call.rest = Buffer \/ Src.pos + call.rest = Src.inode.size
    BY <1>3, <1>8 DEF Full
  <2>4. Src.pos \in Nat
    BY <1>4, <1>8 DEF Src
  <2>5. /\ Len(call'.got) + call'.rest = Len(call.got) + call.rest
        /\ Src'.pos + call'.rest = Src.pos + call.rest
    BY <1>1, <1>2, <1>4, <1>5, <2>1, <2>4
  <2>6. QED BY <1>3, <2>1, <2>2, <2>3, <2>5 DEF Full
<1>9. CASE job.pc = "read" /\ h = job.src /\ Open = {job.src} /\ Catting /\ Full
  <2>1. Full'
    BY <1>8, <1>9
  <2>2. Catting'
    BY <1>1, <1>3, <1>9, <2>1 DEF Catting, Asked
  <2>3. QED BY <1>1, <1>6, <2>2 DEF Sound, JobOK
<1>10. CASE job.pc = "read" /\ h = job.src /\ Open = {job.src} /\ Listing
  <2>1. Src'.inode = Src.inode /\ Src'.file = Src.file
    BY <1>1, <1>3, <1>10 DEF Src
  <2>2. Listing'
    BY <1>1, <1>3, <1>10, <2>1 DEF Listing, Asked
  <2>3. QED BY <1>1, <1>6, <2>2 DEF Sound, JobOK
<1>11. CASE /\ job.pc = "read" /\ h = job.src /\ Open = {job.src, job.dst}
            /\ job.src # job.dst /\ Copying /\ Full
  <2>1. Full'
    BY <1>8, <1>11
  <2>2. Src'.pos = Src.pos + l /\ Src'.inode = Src.inode /\ Src'.file = Src.file
    BY <1>1, <1>3, <1>11 DEF Src
  <2>3. Dst' = Dst
    <3>1. job.dst \in Handles \ {h}
      BY <1>11 DEF Open
    <3>2. QED BY <1>1, <1>3, <3>1 DEF Dst
  <2>4. job.cmd = "cp" /\ Calm /\ Dst.pos <= Src.pos /\ (dead \/ Stuck \/ Flow)
        /\ (Src.file = Dst.file => Src.inode = Dst.inode)
    BY <1>11 DEF Copying
  <2>5. Src.pos \in Nat /\ Dst.pos \in Nat
    <3>1. job.dst \in Open
      BY <1>11
    <3>2. QED BY <1>4, <1>11, <3>1, OpenedIs DEF Src, Dst, Sound
  <2>6. Dst'.pos <= Src'.pos
    BY <1>5, <2>2, <2>3, <2>4, <2>5
  <2>7. Stuck => Stuck'
    BY <1>3, <2>2, <2>3 DEF Stuck, Grows
  <2>8. Flow => Flow'
    <3>1. ASSUME Flow PROVE Flow'
      <4>1. Pending = call.got /\ Pending' = call'.got
        BY <1>1, <1>2, <1>3, <1>11 DEF Pending
      <4>2. Dst.pos + Len(call.got) = Src.pos
        BY <3>1, <4>1 DEF Flow
      <4>3. Dst'.pos + Len(call'.got) = Src'.pos
        BY <1>1, <1>4, <1>5, <2>2, <2>3, <2>5, <4>2
      <4>4. QED BY <4>1, <4>3 DEF Flow
    <3>2. QED BY <3>1
  <2>9. Copying'
    BY <1>1, <1>3, <1>11, <2>1, <2>2, <2>3, <2>4, <2>6, <2>7, <2>8 DEF Copying, Asked, Calm
  <2>10. QED BY <1>1, <1>6, <2>9 DEF Sound, JobOK
<1>12. QED BY <1>7, <1>9, <1>10, <1>11, <1>2, ReaderIs DEF h

\* The end of a call.
LEMMA StopDoes ==
  ASSUME Stop, NEW S, call.got \in Seq(S)
  PROVE  /\ call'.op = "none" /\ call'.h = 0 /\ call'.got \in Seq(S)
         /\ call' = [op |-> call'.op, h |-> call'.h, want |-> call'.want, rest |-> call'.rest, got |-> call'.got]
         /\ job # NoJob => call'.got = call.got
         /\ job = NoJob => call'.got = << >>
<1>1. CASE job = NoJob
  <2>1. call' = [op |-> "none", h |-> 0, want |-> 0, rest |-> << >>, got |-> << >>]
    BY <1>1 DEF Stop, NoCall
  <2>2. << >> \in Seq(S)
    BY EmptySeq
  <2>3. QED BY <1>1, <2>1, <2>2
<1>2. CASE job # NoJob
  <2>1. call' = [op |-> "none", h |-> 0, want |-> 0, rest |-> << >>, got |-> call.got]
    BY <1>2 DEF Stop, NoCall
  <2>2. QED BY <1>2, <2>1
<1>3. QED BY <1>1, <1>2

\* It has done all it was asked for, or the device is full, or it is dead.
Stopped ==
    \/ dead'
    \/ /\ UNCHANGED free
       /\ \/ call.op = "read" /\ call.rest = 0
          \/ call.op = "write" /\ call.rest = << >>
          \/ call.op = "write" /\ call.rest # << >> /\ free = {} /\ Grows(Here.inode, Here.pos)

\* cp is refused a block only where it does not copy a file onto itself.
LEMMA StuckIs ==
  ASSUME Sound, Copying, call.op = "write", call.h = job.dst, call.rest # << >>,
         job.pc = "write", ~dead, free = {}, Grows(Here.inode, Here.pos)
  PROVE  Stuck
<1>1. /\ job.src \in Open /\ job.dst \in Open
      /\ Src.file = Dst.file => Src.inode = Dst.inode
      /\ dead \/ Stuck \/ Flow
  BY DEF Copying
<1>2. CASE Flow
  <2>1. Here = Dst
    BY DEF Here, Dst
  <2>2. Dst.pos + Len(call.rest) = Src.pos
    BY <1>2 DEF Flow, Pending
  <2>3. call.rest \in Seq(Values) /\ Dst.pos \in Nat /\ Dst.pos <= Dst.inode.size
    BY <2>1, WriterIs
  <2>4. Len(call.rest) \in Nat /\ Len(call.rest) # 0
    <3>1. Len(call.rest) \in Nat
      BY <2>3, LenProperties
    <3>2. Len(call.rest) # 0
      BY <2>3, EmptySeq
    <3>3. QED BY <3>1, <3>2
  <2>5. Src.pos <= Src.inode.size
    BY <1>1, WriterIs DEF Sound, Marks, Src
  <2>6. Fit(Dst.inode)
    BY <1>1, OpenedIs DEF Dst, Sound
  <2>7. Dst.pos = Dst.inode.size /\ Dst.inode.size \in Nat
    <3> DEFINE n == Dst.inode
               pos == Dst.pos
    <3>1. Fit(n) /\ Grows(n, pos) /\ pos \in Nat /\ pos <= n.size
      BY <2>1, <2>3, <2>6
    <3> HIDE DEF n, pos
    <3>2. n.size \in Nat
      BY <3>1, InodeFacts
    <3>3. pos \in 0 .. n.size
      BY <3>1, <3>2
    <3>4. pos = n.size
      BY <3>1, <3>3, GrowsWhen
    <3>5. QED BY <3>2, <3>4 DEF n, pos
  <2>8. Src.inode # Dst.inode
    BY <2>2, <2>3, <2>4, <2>5, <2>7
  <2>9. QED BY <1>1, <2>1, <2>8 DEF Stuck
<1>3. QED BY <1>1, <1>2

LEMMA JobStops ==
  ASSUME Sound, Stop, call.op # "none", Stopped, UNCHANGED <<table, handle, job>>,
         Open' = Open, dead' \in BOOLEAN, dead => dead',
         spoiled' \in {spoiled, spoiled \cup {"failed"}}
  PROVE  CallOK' /\ JobOK'
<1>1. /\ call.got \in Seq(Values) /\ call.op \in {"read", "write"} /\ ~Returned
  BY DEF Sound, CallOK, Returned
<1>2. /\ call'.op = "none" /\ call'.h = 0 /\ call'.got \in Seq(Values)
      /\ call' = [op |-> call'.op, h |-> call'.h, want |-> call'.want, rest |-> call'.rest, got |-> call'.got]
      /\ job # NoJob => call'.got = call.got
  BY <1>1, StopDoes
<1>3. CallOK'
  BY <1>2 DEF CallOK
<1>4. Returned' /\ Src' = Src /\ Dst' = Dst
  BY <1>2 DEF Returned, Src, Dst
<1>5. job' = [cmd |-> job'.cmd, pc |-> job'.pc, src |-> job'.src, dst |-> job'.dst, text |-> job'.text]
  BY JobShape DEF Sound
<1>6. CASE job = NoJob
  <2>1. job' = NoJob'
    BY <1>6 DEF NoJob
  <2>2. QED BY <1>3, <1>5, <2>1 DEF JobOK
<1>7. Calm => Calm'
  BY DEF Calm
<1>8. CASE call.op = "read" /\ job # NoJob
  <2>1. dead' \/ call.rest = 0
    BY <1>8 DEF Stopped
  <2>2. Full => Full'
    <3>1. ASSUME Full, ~dead' PROVE Len(call'.got) = Buffer \/ Src'.pos = Src'.inode.size
      <4>1. call.rest = 0
        BY <2>1, <3>1
      <4>2. Len(call.got) + 0 = Buffer \/ Src.pos + 0 = Src.inode.size
        BY <1>1, <3>1, <4>1 DEF Full
      <4>3. Len(call.got) \in Nat
        BY <1>1, LenProperties
      <4>4. call.h = job.src /\ call.h \in Open
        BY <1>8, ReaderIs
      <4>5. Src.pos \in Nat
        BY <4>4, OpenedIs DEF Src, Sound
      <4>6. QED BY <1>2, <1>4, <1>8, <4>2, <4>3, <4>5
    <3>2. QED BY <1>4, <3>1 DEF Full
  <2>3. CASE job.pc = "read" /\ call.h = job.src /\ Open = {job.src} /\ Catting /\ Full
    <3>1. Catting'
      BY <1>4, <2>2, <2>3 DEF Catting, Asked
    <3>2. QED BY <1>3, <1>5, <3>1 DEF JobOK
  <2>4. CASE job.pc = "read" /\ call.h = job.src /\ Open = {job.src} /\ Listing
    <3>1. Listing'
      BY <1>4, <2>4 DEF Listing, Asked
    <3>2. QED BY <1>3, <1>5, <3>1 DEF JobOK
  <2>5. CASE /\ job.pc = "read" /\ call.h = job.src /\ Open = {job.src, job.dst}
             /\ job.src # job.dst /\ Copying /\ Full
    <3>1. Full'
      BY <2>2, <2>5
    <3>2. job.cmd = "cp" /\ Calm /\ Dst.pos <= Src.pos /\ (dead \/ Stuck \/ Flow)
          /\ (Src.file = Dst.file => Src.inode = Dst.inode)
      BY <2>5 DEF Copying
    <3>3. Flow => Flow'
      <4>1. Pending = call.got /\ Pending' = call'.got
        BY <1>2, <1>8, <2>5 DEF Pending
      <4>2. QED BY <1>2, <1>4, <1>8, <4>1 DEF Flow
    <3>4. ~dead' => (Stuck => Stuck')
      BY <1>4, <1>8 DEF Stopped, Stuck, Grows
    <3>5. Copying'
      BY <1>4, <1>7, <2>5, <3>1, <3>2, <3>3, <3>4 DEF Copying, Asked
    <3>6. QED BY <1>3, <1>5, <3>5 DEF JobOK
  <2>6. QED BY <1>8, <2>3, <2>4, <2>5, ReaderIs
<1>9. CASE call.op = "write" /\ job # NoJob
  <2>1. dead' \/ (free' = free /\ (call.rest = << >> \/ (call.rest # << >> /\ free = {} /\ Grows(Here.inode, Here.pos))))
    BY <1>9 DEF Stopped
  <2>2. CASE job.pc = "last" /\ call.h = job.src /\ Open = {job.src} /\ Creating
    <3>1. Src.pos + Len(call.rest) = Len(job.text)
      BY <1>1, <2>2 DEF Creating
    <3>2. call.rest = << >> => Src.pos = Len(job.text)
      <4>1. Src.pos \in Nat
        BY <2>2, OpenedIs DEF Src, Sound
      <4>2. ASSUME call.rest = << >> PROVE Len(call.rest) = 0
        BY <4>2, EmptySeq
      <4>3. QED BY <3>1, <4>1, <4>2
    <3>3. dead' \/ free' = {} \/ Src.pos = Len(job.text)
      BY <2>1, <3>2
    <3>4. Creating'
      BY <1>4, <2>2, <3>3 DEF Creating, Asked
    <3>5. QED BY <1>3, <1>5, <3>4 DEF JobOK
  <2>3. CASE /\ job.pc = "write" /\ call.h = job.dst /\ Open = {job.src, job.dst}
             /\ job.src # job.dst /\ Copying
    <3>1. job.cmd = "cp" /\ Calm /\ Dst.pos <= Src.pos /\ (dead \/ Stuck \/ Flow)
          /\ (Src.file = Dst.file => Src.inode = Dst.inode)
      BY <2>3 DEF Copying
    <3>2. ~dead' => Stuck' \/ Flow'
      <4>1. SUFFICES ASSUME ~dead' PROVE Stuck' \/ Flow'
        OBVIOUS
      <4>2. free' = free /\ ~dead
        BY <2>1, <4>1
      <4>3. Stuck => Stuck'
        BY <1>4, <4>2 DEF Stuck, Grows
      <4>4. ASSUME Flow, call.rest = << >> PROVE Flow'
        <5>1. Dst.pos + Len(call.rest) = Src.pos
          BY <1>9, <4>4 DEF Flow, Pending
        <5>2. Pending' = << >>
          BY <1>2, <2>3 DEF Pending
        <5>3. QED BY <1>4, <4>4, <5>1, <5>2 DEF Flow
      <4>5. ASSUME call.rest # << >> PROVE Stuck
        <5>1. free = {} /\ Grows(Here.inode, Here.pos)
          BY <2>1, <4>1, <4>5
        <5>2. QED BY <1>9, <2>3, <4>2, <4>5, <5>1, StuckIs
      <4>6. QED BY <3>1, <4>2, <4>3, <4>4, <4>5
    <3>3. Copying'
      BY <1>4, <1>7, <2>3, <3>1, <3>2 DEF Copying, Asked
    <3>4. QED BY <1>3, <1>5, <3>3 DEF JobOK
  <2>4. QED BY <1>9, <2>2, <2>3, WriterIs
<1>10. QED BY <1>1, <1>6, <1>8, <1>9

\* The labels when the device has failed during a call.
LEMMA MarksFail ==
  ASSUME Sound, Fail, call.op # "none", Open' = Open, UNCHANGED <<handle, job>>
  PROVE  Marks' /\ dead' /\ dead' \in BOOLEAN /\ spoiled' = spoiled \cup {"failed"} /\ Stop
<1>1. dead' = TRUE /\ spoiled' = spoiled \cup {"failed"} /\ Stop
  BY DEF Fail, Note
<1>2. "beyond" \notin spoiled
  BY DEF Sound, Marks, Returned
<1>3. Marks'
  BY <1>1, <1>2 DEF Sound, Marks, Labels
<1>4. QED BY <1>1, <1>3

LEMMA SoundReadFails ==
  ASSUME Sound, call.op = "read", Fail, UNCHANGED <<table, data, free, handle, slots, job>>
  PROVE  Sound'
<1>1. Store /\ Room
  BY DEF Sound
<1>2. Store' /\ Open' = Open
  BY <1>1, StoreStays DEF Store
<1>3. Room'
  BY <1>1, <1>2 DEF Room
<1>4. Marks' /\ dead' /\ dead' \in BOOLEAN /\ spoiled' = spoiled \cup {"failed"} /\ Stop
  BY <1>2, MarksFail
<1>5. CallOK' /\ JobOK'
  BY <1>2, <1>4, JobStops DEF Stopped
<1>6. QED BY <1>2, <1>3, <1>4, <1>5 DEF Sound

LEMMA SoundWriteFails ==
  ASSUME Sound, WriteFails
  PROVE  Sound'
<1>1. call.op = "write" /\ Fail /\ UNCHANGED <<table, handle, slots, job>>
  BY DEF WriteFails
<1>2. /\ Store /\ Room /\ call.h \in Open /\ Here.pos <= Here.inode.size
      /\ call.rest \in Seq(Values)
  BY <1>1, WriterIs DEF Sound
<1>3. Store' /\ Room' /\ Open' = Open
  BY <1>2, WriteFailsDoes
<1>4. Marks' /\ dead' /\ dead' \in BOOLEAN /\ spoiled' = spoiled \cup {"failed"} /\ Stop
  BY <1>1, <1>3, MarksFail
<1>5. CallOK' /\ JobOK'
  BY <1>1, <1>3, <1>4, JobStops DEF Stopped
<1>6. QED BY <1>3, <1>4, <1>5 DEF Sound

\* A call that ends, on a device that works.
LEMMA SoundEnds ==
  ASSUME Sound, Stop, call.op # "none",
         UNCHANGED <<table, data, free, handle, slots, job, dead, spoiled>>, Stopped
  PROVE  Sound'
<1>1. Store /\ Room /\ Marks
  BY DEF Sound
<1>2. Store' /\ Open' = Open
  BY <1>1, StoreStays DEF Store
<1>3. Room'
  BY <1>1, <1>2 DEF Room
<1>4. CallOK' /\ JobOK'
  <2>1. dead' \in BOOLEAN
    BY <1>1 DEF Marks
  <2>2. QED BY <1>2, <2>1, JobStops
<1>5. "beyond" \notin spoiled
  BY <1>1 DEF Marks, Returned
<1>6. Marks'
  BY <1>1, <1>2, <1>5 DEF Marks
<1>7. QED BY <1>2, <1>3, <1>4, <1>6 DEF Sound

LEMMA SoundWriteRefused ==
  ASSUME Sound, WriteRefused
  PROVE  Sound'
<1>1. /\ call.op = "write" /\ call.rest # << >> /\ free = {} /\ Stop
      /\ UNCHANGED <<table, data, free, handle, slots, job, dead, spoiled>>
  BY DEF WriteRefused
<1>2. Grows(Here.inode, Here.pos)
  BY DEF WriteRefused, Grows, BlockNo
<1>3. QED BY <1>1, <1>2, SoundEnds DEF Stopped

LEMMA SoundReturn ==
  ASSUME Sound, Return
  PROVE  Sound'
<1>1. /\ Stop /\ call.op # "none"
      /\ UNCHANGED <<table, data, free, handle, slots, job, dead, spoiled>>
  BY DEF Return
<1>2. Stopped
  BY DEF Return, Stopped
<1>3. QED BY <1>1, <1>2, SoundEnds

\* A write does not go beyond MaxSize, in cp because its source does not.
LEMMA WriteFitsIn ==
  ASSUME Sound, call.op = "write", ~dead, call.rest # << >>,
         Grows(Here.inode, Here.pos) => free # {}
  PROVE  /\ Here.pos + Len(call.rest) <= MaxSize
         /\ job.cmd = "cp" => Copying /\ Here = Dst /\ Flow /\ Dst.pos + Len(call.rest) = Src.pos
<1>1. CASE job.cmd # "cp"
  BY <1>1, WriterIs
<1>2. CASE job.cmd = "cp"
  <2>1. /\ job.pc = "write" /\ call.h = job.dst /\ Open = {job.src, job.dst}
        /\ job.src # job.dst /\ Copying
    BY <1>2, WriterIs DEF NoJob, Creating
  <2>2. Here = Dst
    BY <2>1 DEF Here, Dst
  <2>3. ~Stuck
    BY <2>2 DEF Stuck
  <2>4. Flow
    BY <2>1, <2>3 DEF Copying
  <2>5. Dst.pos + Len(call.rest) = Src.pos
    BY <2>4 DEF Flow, Pending
  <2>6. Src.pos \in 0 .. MaxSize
    BY <2>1, OpenedIs DEF Src, Sound
  <2>7. Dst.pos + Len(call.rest) <= MaxSize
    BY <2>5, <2>6, Sizes
  <2>8. QED BY <2>1, <2>2, <2>4, <2>5, <2>7
<1>3. QED BY <1>1, <1>2

\* One turn of a write that the device serves.
LEMMA WritesDoes ==
  ASSUME Sound, WriteTurn
  PROVE  /\ call.op = "write" /\ call.rest # << >> /\ ~dead
         /\ Grows(Here.inode, Here.pos) => free # {}
         /\ Store' /\ Room' /\ Open' = Open
         /\ Chunk \in 1 .. Len(call.rest) /\ Here.pos + Chunk <= MaxSize
         /\ data' = Written /\ free' = free \ {Spot}
         /\ handle'[call.h] = [file  |-> Here.file,
                               inode |-> Grown(Here.inode, Here.pos, Chunk, Min(free)),
                               pos   |-> Here.pos + Chunk]
         /\ \A g \in Handles \ {call.h} : handle'[g] = handle[g]
         /\ call' = [op |-> "write", h |-> call.h, want |-> call.want, rest |-> Rest, got |-> call.got]
         /\ spoiled' = spoiled \cup
               {"stale" : g \in {x \in OpenOn(Here.file) \ {call.h} : Here.pos + Chunk > Here.inode.size}}
         /\ UNCHANGED <<table, slots, job, dead>>
<1>1. /\ call.op = "write" /\ call.rest # << >> /\ ~dead /\ UNCHANGED <<table, slots, job, dead>>
      /\ Grows(Here.inode, Here.pos) => free # {}
  <2>1. Grows(Here.inode, Here.pos) <=> BlockNo >= Groups(Here.inode.size)
    BY DEF Grows, BlockNo
  <2>2. QED BY <2>1 DEF WriteTurn
<1>2. /\ call.h \in Open /\ call.rest \in Seq(Values)
      /\ Here.pos \in Nat /\ Here.pos <= Here.inode.size
      /\ call = [op |-> "write", h |-> call.h, want |-> call.want, rest |-> call.rest, got |-> call.got]
  BY <1>1, WriterIs
<1>3. Here.pos + Len(call.rest) <= MaxSize
  BY <1>1, WriteFitsIn
<1>4. Chunk \in 1 .. Len(call.rest)
  BY <1>1, <1>2, ChunkIs
<1>5. Here.pos + Chunk <= MaxSize
  <2>1. Len(call.rest) \in Nat
    BY <1>2, LenProperties
  <2>2. QED BY <1>2, <1>3, <1>4, <2>1, Sizes
<1>6. Store /\ Room
  BY DEF Sound
<1>7. /\ Store' /\ Room' /\ Open' = Open
      /\ data' = Written /\ free' = free \ {Spot}
      /\ handle'[call.h] = [file  |-> Here.file,
                            inode |-> Grown(Here.inode, Here.pos, Chunk, Min(free)),
                            pos   |-> Here.pos + Chunk]
      /\ \A g \in Handles \ {call.h} : handle'[g] = handle[g]
      /\ call' = [call EXCEPT !.rest = Rest]
      /\ spoiled' = spoiled \cup
               {"stale" : g \in {x \in OpenOn(Here.file) \ {call.h} : Here.pos + Chunk > Here.inode.size}}
  BY <1>2, <1>5, <1>6, WriteTurnDoes
<1>8. call' = [op |-> "write", h |-> call.h, want |-> call.want, rest |-> Rest, got |-> call.got]
  BY <1>2, <1>7
<1>9. QED BY <1>1, <1>4, <1>5, <1>7, <1>8

LEMMA SoundWriteTurn ==
  ASSUME Sound, WriteTurn
  PROVE  Sound'
<1> DEFINE h == call.h
           c == Chunk
           new == Grown(Here.inode, Here.pos, c, Min(free))
           S == {x \in OpenOn(Here.file) \ {h} : Here.pos + c > Here.inode.size}
<1>1. /\ call.op = "write" /\ call.rest # << >> /\ ~dead
      /\ Store' /\ Room' /\ Open' = Open
      /\ Grows(Here.inode, Here.pos) => free # {}
      /\ c \in 1 .. Len(call.rest) /\ Here.pos + c <= MaxSize
      /\ free' = free \ {Spot}
      /\ handle'[h] = [file |-> handle[h].file, inode |-> new, pos |-> handle[h].pos + c]
      /\ \A g \in Handles \ {h} : handle'[g] = handle[g]
      /\ call' = [op |-> "write", h |-> h, want |-> call.want, rest |-> Rest, got |-> call.got]
      /\ spoiled' = spoiled \cup {"stale" : g \in S}
      /\ UNCHANGED <<table, slots, job, dead>>
  BY WritesDoes DEF Here
<1>2. /\ h \in Open /\ call.rest \in Seq(Values) /\ call.got \in Seq(Values)
      /\ Here.pos \in Nat /\ Here.pos <= Here.inode.size /\ "beyond" \notin spoiled /\ ~Returned
      /\ job.cmd # "cp" => Here.pos + Len(call.rest) <= MaxSize
  BY <1>1, WriterIs
<1>3. Rest \in Seq(Values) /\ Len(Rest) = Len(call.rest) - c
  BY <1>1, <1>2, ChunkIs
<1>4. Len(call.rest) \in Nat /\ c \in Nat /\ c > 0 /\ Len(Rest) \in Nat
  <2>1. Len(call.rest) \in Nat /\ Len(Rest) \in Nat
    BY <1>2, <1>3, LenProperties
  <2>2. QED BY <1>1, <2>1
<1>5. /\ new.size = IF Here.inode.size <= Here.pos + c THEN Here.pos + c ELSE Here.inode.size
      /\ new.blocks = IF Grows(Here.inode, Here.pos) THEN Append(Here.inode.blocks, Min(free))
                      ELSE Here.inode.blocks
      /\ new = [size |-> new.size, blocks |-> new.blocks]
  BY DEF Grown
<1>6. Here.inode.size \in Nat /\ Here.inode = [size |-> Here.inode.size, blocks |-> Here.inode.blocks]
  <2> DEFINE n == Here.inode
  <2>1. Fit(n)
    BY <1>2, OpenedIs DEF Sound, Here
  <2> HIDE DEF n
  <2>2. n.size \in Nat /\ n = [size |-> n.size, blocks |-> n.blocks]
    BY <2>1, InodeFacts
  <2>3. QED BY <2>2 DEF n
<1> HIDE DEF c, new, h
<1>7. Here'.pos = Here.pos + c /\ Here'.inode = new /\ Here'.file = Here.file
  BY <1>1 DEF Here, h
<1>8. ~Returned' /\ call'.rest = Rest /\ call'.op = "write" /\ call'.h = h
  BY <1>1 DEF Returned
<1>9. Here.pos + c + Len(Rest) = Here.pos + Len(call.rest)
  BY <1>2, <1>3, <1>4
<1>10. CallOK'
  <2>1. call' = [op |-> call'.op, h |-> call'.h, want |-> call'.want, rest |-> call'.rest, got |-> call'.got]
        /\ call'.got = call.got
    BY <1>1
  <2>2. job'.cmd # "cp" => Here'.pos + Len(call'.rest) <= MaxSize
    BY <1>1, <1>2, <1>7, <1>8, <1>9
  <2>3. QED BY <1>1, <1>2, <1>3, <1>8, <2>1, <2>2 DEF CallOK
<1>11. S # {} => /\ OpenOn(Here.file) \ {h} # {} /\ Here.pos + c > Here.inode.size
  OBVIOUS
<1>12. /\ spoiled' \subseteq Labels /\ "beyond" \notin spoiled'
       /\ "failed" \in spoiled' <=> "failed" \in spoiled
       /\ S = {} => spoiled' = spoiled
  <2> DEFINE T == {"stale" : g \in S}
  <2>1. T \subseteq {"stale"}
    BY StaleOnly
  <2>2. S = {} => T = {}
    <3> HIDE DEF S
    <3>1. QED OBVIOUS
  <2> HIDE DEF T, S
  <2>3. spoiled' = spoiled \cup T
    BY <1>1 DEF T
  <2>4. spoiled \subseteq Labels /\ "stale" \in Labels
    BY DEF Sound, Marks, Labels
  <2>5. "beyond" \notin T /\ "failed" \notin T
    BY <2>1
  <2>6. QED BY <1>2, <2>1, <2>2, <2>3, <2>4, <2>5
<1>13. \A g \in Open' : handle'[g].pos <= handle'[g].inode.size
  <2>1. TAKE g \in Open'
  <2>2. CASE g = h
    <3>1. handle'[g].pos = Here.pos + c /\ handle'[g].inode = new
      BY <1>1, <2>2 DEF Here, h
    <3>2. QED BY <1>2, <1>4, <1>5, <1>6, <3>1
  <2>3. CASE g # h
    <3>1. g \in Open /\ handle'[g] = handle[g]
      BY <1>1, <2>3 DEF Open
    <3>2. QED BY <1>2, <3>1 DEF Sound, Marks
  <2>4. QED BY <2>2, <2>3
<1>14. Marks'
  BY <1>1, <1>12, <1>13 DEF Sound, Marks
<1>15. job' = [cmd |-> job'.cmd, pc |-> job'.pc, src |-> job'.src, dst |-> job'.dst, text |-> job'.text]
  BY <1>1, JobShape DEF Sound
<1>16. CASE job = NoJob
  <2>1. job' = NoJob'
    BY <1>1, <1>16 DEF NoJob
  <2>2. QED BY <1>1, <1>10, <1>14, <1>15, <2>1 DEF Sound, JobOK
<1>17. CASE job.pc = "last" /\ h = job.src /\ Open = {job.src} /\ Creating
  <2>1. Src.pos + Len(call.rest) = Len(job.text)
    BY <1>2, <1>17 DEF Creating
  <2>2. Src = Here /\ Src' = Here'
    BY <1>1, <1>17 DEF Src, Here, h
  <2>3. Src'.pos + Len(call'.rest) = Len(job'.text)
    BY <1>1, <1>7, <1>8, <1>9, <2>1, <2>2
  <2>4. Creating'
    BY <1>1, <1>8, <1>17, <2>3 DEF Creating, Asked
  <2>5. QED BY <1>1, <1>10, <1>14, <1>15, <2>4 DEF Sound, JobOK
<1>18. CASE /\ job.pc = "write" /\ h = job.dst /\ Open = {job.src, job.dst}
            /\ job.src # job.dst /\ Copying
  <2>1. job.cmd = "cp" /\ Calm /\ Dst.pos <= Src.pos
        /\ (Src.file = Dst.file => Src.inode = Dst.inode)
    BY <1>18 DEF Copying
  <2>2. Here = Dst /\ Dst.pos + Len(call.rest) = Src.pos
    BY <1>1, <2>1, WriteFitsIn
  <2>3. Src' = Src
    <3>1. job.src \in Handles \ {h}
      BY <1>18 DEF Open
    <3>2. QED BY <1>1, <3>1 DEF Src
  <2>4. Dst' = Here'
    BY <1>1, <1>18 DEF Dst, Here
  <2>5. Src.pos \in Nat /\ Src.pos <= Src.inode.size
    <3>1. job.src \in Open
      BY <1>18
    <3>2. QED BY <1>2, <3>1, OpenedIs DEF Src, Sound, Marks
  <2>6. Dst'.pos <= Src'.pos
    BY <1>2, <1>3, <1>4, <1>7, <2>2, <2>3, <2>4, <2>5
  <2>7. Src.file = Dst.file => new = Here.inode
    <3>1. SUFFICES ASSUME Src.file = Dst.file PROVE new = Here.inode
      OBVIOUS
    <3>2. Src.inode = Here.inode
      BY <2>1, <2>2, <3>1
    <3>3. Here.pos + c <= Here.inode.size /\ Here.pos < Here.inode.size
      BY <1>2, <1>3, <1>4, <1>6, <2>2, <2>5, <3>2
    <3>4. ~Grows(Here.inode, Here.pos)
      <4> DEFINE n == Here.inode
                 pos == Here.pos
      <4>1. Fit(n) /\ pos \in Nat /\ pos < n.size /\ n.size \in Nat
        BY <1>2, <1>6, <3>3, OpenedIs DEF Sound, Here, h
      <4> HIDE DEF n, pos
      <4>2. pos \in 0 .. n.size /\ pos # n.size
        BY <4>1
      <4>3. ~Grows(n, pos)
        BY <4>1, <4>2, GrowsWhen
      <4>4. QED BY <4>3 DEF n, pos
    <3>5. new.size = Here.inode.size /\ new.blocks = Here.inode.blocks
      <4> DEFINE e == Here.pos + c
      <4>1. e \in Nat /\ e <= Here.inode.size
        BY <1>2, <1>4, <3>3
      <4>2. new.size = IF Here.inode.size <= e THEN e ELSE Here.inode.size
        BY <1>5
      <4> HIDE DEF e
      <4>3. new.size = Here.inode.size
        BY <1>6, <4>1, <4>2
      <4>4. new.blocks = Here.inode.blocks
        BY <1>5, <3>4
      <4>5. QED BY <4>3, <4>4
    <3>6. QED BY <1>5, <1>6, <3>5
  <2>8. Src'.file = Dst'.file => Src'.inode = Dst'.inode
    BY <1>7, <2>1, <2>2, <2>3, <2>4, <2>7
  <2>9. Flow'
    <3>1. Pending' = Rest
      BY <1>8 DEF Pending
    <3>2. Dst'.pos + Len(Rest) = Src'.pos
      BY <1>7, <1>9, <2>2, <2>3, <2>4
    <3>3. QED BY <3>1, <3>2 DEF Flow
  <2>10. S = {}
    <3>1. SUFFICES ASSUME S # {} PROVE FALSE
      OBVIOUS
    <3>2. OpenOn(Here.file) \ {h} # {} /\ Here.pos + c > Here.inode.size
      BY <1>11, <3>1
    <3>3. Src.file = Here.file
      BY <1>18, <3>2 DEF OpenOn, Src, h
    <3>4. Src.inode = Here.inode
      BY <2>1, <2>2, <3>3
    <3>5. Here.pos + c <= Here.inode.size
      BY <1>2, <1>3, <1>4, <1>6, <2>2, <2>5, <3>4
    <3>6. QED BY <1>2, <1>4, <1>6, <3>2, <3>5
  <2>11. Calm'
    BY <1>12, <2>1, <2>10 DEF Calm
  <2>12. Copying'
    BY <1>1, <1>8, <1>18, <2>1, <2>6, <2>8, <2>9, <2>11 DEF Copying, Asked
  <2>13. QED BY <1>1, <1>10, <1>14, <1>15, <2>12 DEF Sound, JobOK
<1>19. QED BY <1>1, <1>16, <1>17, <1>18, WriterIs DEF h

\* Steps that open and close nothing.
LEMMA StandStill ==
  ASSUME Store, Room, UNCHANGED <<table, data, free, handle>>,
         slots' = slots \/ (slots > 0 /\ slots' = slots - 1)
  PROVE  Store' /\ Room' /\ Open' = Open
<1>1. Store' /\ Open' = Open
  BY StoreStays DEF Store
<1>2. Room'
  BY <1>1, OpenIsFinite, Sizes DEF Room
<1>3. QED BY <1>1, <1>2

LEMMA MarksStand ==
  ASSUME Marks, Open' = Open, UNCHANGED <<handle, dead>>, "beyond" \notin spoiled,
         spoiled' \in {spoiled, spoiled \cup {"wild"}, spoiled \cup {"aborted"}}
  PROVE  Marks'
BY DEF Marks, Labels

\* A close, or a handle that is forgotten.
LEMMA MarksShrink ==
  ASSUME Marks, "beyond" \notin spoiled, UNCHANGED <<dead, spoiled>>, NEW h,
         Open' = Open \ {h}, \A g \in Handles \ {h} : handle'[g] = handle[g]
  PROVE  Marks'
<1>1. \A g \in Open' : handle'[g] = handle[g] /\ g \in Open
  BY DEF Open
<1>2. QED BY <1>1 DEF Marks

\* Which command it is, from its name and the place where it is.
LEMMA JobIs ==
  ASSUME Sound
  PROVE  /\ job.cmd = "createfile" => Creating
         /\ job.cmd = "cat" => Catting
         /\ job.cmd = "ls" => Listing
         /\ job.cmd = "cp" => Copying
         /\ job.pc = "close" => Copying
         /\ job.cmd # "none" => "beyond" \notin spoiled
         /\ Store /\ Room /\ Marks /\ CallOK /\ JobOK
<1>1. job = NoJob \/ Creating \/ Catting \/ Listing \/ Copying
  BY DEF Sound, JobOK
<1>2. job = NoJob => job.cmd = "none" /\ job.pc = "none"
  BY DEF NoJob
<1>3. job.pc = "close" => ~Creating /\ ~Catting /\ ~Listing
  BY DEF Creating, Catting, Listing
<1>4. "beyond" \in spoiled => job = NoJob
  BY DEF Sound, Marks
<1>5. (Creating => job.cmd = "createfile") /\ (Catting => job.cmd = "cat") /\ (Listing => job.cmd = "ls") /\ (Copying => job.cmd = "cp")
  BY DEF Creating, Catting, Listing, Copying
<1>6. QED BY <1>1, <1>2, <1>3, <1>4, <1>5 DEF Sound

\* The first file of a command.
LEMMA FirstOpen ==
  ASSUME Sound, Open = {}, "beyond" \notin spoiled, NEW f \in Files, OpenInto(f),
         UNCHANGED <<data, free, call, dead>>, call.op = "none"
  PROVE  /\ Store' /\ Room' /\ Marks' /\ CallOK' /\ Returned'
         /\ New \in Handles /\ Open' = {New}
         /\ handle'[New] = [file |-> f, inode |-> Held(f), pos |-> 0]
         /\ table'[f] = Held(f) /\ spoiled' = spoiled /\ ~dead
<1>1. Store /\ Room /\ Marks /\ CallOK
  BY DEF Sound
<1>2. Cardinality(Open) < Cardinality(Handles)
  BY OpenIsFinite, FS_EmptySet
<1>3. /\ Store' /\ Room' /\ New \in Handles /\ Open' = Open \cup {New}
      /\ handle'[New] = [file |-> f, inode |-> Held(f), pos |-> 0]
      /\ table'[f] = Held(f) /\ ~dead
  BY <1>1, <1>2, OpenIntoDoes
<1>4. Marks' /\ ((\A g \in OpenOn(f) : handle[g].inode = Held(f)) => spoiled' = spoiled)
  BY <1>1, <1>2, MarksOpened
<1>5. OpenOn(f) = {}
  BY DEF OpenOn
<1>6. CallOK' /\ Returned'
  BY <1>1, CallStays DEF Returned
<1>7. QED BY <1>3, <1>4, <1>5, <1>6

LEMMA SoundCreateFile ==
  ASSUME Sound, NEW f \in Files, NEW text \in Texts, CreateFile(f, text)
  PROVE  Sound'
<1>1. Prompt /\ Open = {} /\ UNCHANGED <<data, free, call, dead>>
  BY DEF CreateFile, Start
<1>2. /\ call.op = "none" /\ job = NoJob /\ "beyond" \notin spoiled
      /\ Store /\ Room /\ Marks /\ CallOK
  BY <1>1, PromptIs DEF Sound
<1>3. \/ slots > 0 /\ slots' = slots - 1 /\ UNCHANGED <<table, handle, job, spoiled>>
      \/ spoiled' = spoiled \cup {"wild"} /\ UNCHANGED <<table, handle, slots, job>>
      \/ /\ OpenInto(f)
         /\ job' = [NoJob EXCEPT !.cmd = "createfile", !.pc = "opened", !.src = New, !.text = text]
  BY DEF CreateFile, Stat, CanOpen, GoWild, Note
<1>4. CASE slots > 0 /\ slots' = slots - 1 /\ UNCHANGED <<table, handle, job, spoiled>>
  <2>1. Store' /\ Room' /\ Open' = Open
    BY <1>1, <1>2, <1>4, StandStill
  <2>2. Marks'
    BY <1>1, <1>2, <1>4, <2>1, MarksStand
  <2>3. CallOK' /\ JobOK'
    BY <1>1, <1>2, <1>4, CallStays, JobStays
  <2>4. QED BY <2>1, <2>2, <2>3 DEF Sound
<1>5. CASE spoiled' = spoiled \cup {"wild"} /\ UNCHANGED <<table, handle, slots, job>>
  <2>1. Store' /\ Room' /\ Open' = Open
    BY <1>1, <1>2, <1>5, StandStill
  <2>2. Marks'
    BY <1>1, <1>2, <1>5, <2>1, MarksStand
  <2>3. CallOK' /\ JobOK'
    BY <1>1, <1>2, <1>5, CallStays, JobStays
  <2>4. QED BY <2>1, <2>2, <2>3 DEF Sound
<1>6. CASE /\ OpenInto(f)
           /\ job' = [NoJob EXCEPT !.cmd = "createfile", !.pc = "opened", !.src = New, !.text = text]
  <2>1. /\ Store' /\ Room' /\ Marks' /\ CallOK' /\ Returned'
        /\ New \in Handles /\ Open' = {New}
        /\ handle'[New] = [file |-> f, inode |-> Held(f), pos |-> 0]
    BY <1>1, <1>2, <1>6, FirstOpen
  <2> DEFINE h == New
  <2>2. job' = [cmd |-> "createfile", pc |-> "opened", src |-> h, dst |-> 0, text |-> text]
    BY <1>6 DEF NoJob
  <2> HIDE DEF h
  <2>3. job'.cmd = "createfile" /\ job'.pc = "opened" /\ job'.src = h /\ job'.dst = 0 /\ job'.text = text
    BY <2>2
  <2>4. Src'.pos = 0
    BY <2>1, <2>3 DEF Src, h
  <2>5. Creating'
    BY <2>1, <2>3, <2>4 DEF Creating, h
  <2>6. JobOK'
    BY <2>2, <2>3, <2>5 DEF JobOK
  <2>7. QED BY <2>1, <2>6 DEF Sound
<1>7. QED BY <1>3, <1>4, <1>5, <1>6

LEMMA SoundCat ==
  ASSUME Sound, NEW f \in Files, Cat(f)
  PROVE  Sound'
<1>1. /\ Prompt /\ Open = {} /\ UNCHANGED <<table, data, handle, free, call, dead, spoiled>>
      /\ slots > 0 /\ slots' = slots - 1
      /\ job' = [NoJob EXCEPT !.cmd = "cat", !.pc = "stat", !.text = <<f>>]
  BY DEF Cat, Start, Stat, CanOpen
<1>2. /\ call.op = "none" /\ job = NoJob /\ "beyond" \notin spoiled
      /\ Store /\ Room /\ Marks /\ CallOK
  BY <1>1, PromptIs DEF Sound
<1>3. Store' /\ Room' /\ Open' = Open
  BY <1>1, <1>2, StandStill
<1>4. Marks' /\ CallOK' /\ Returned'
  <2>1. Marks'
    BY <1>1, <1>2, <1>3, MarksStand
  <2>2. CallOK' /\ Returned'
    BY <1>1, <1>2, CallStays DEF Returned
  <2>3. QED BY <2>1, <2>2
<1>5. job' = [cmd |-> "cat", pc |-> "stat", src |-> 0, dst |-> 0, text |-> <<f>>]
  BY <1>1 DEF NoJob
<1>6. /\ job'.cmd = "cat" /\ job'.pc = "stat" /\ job'.src = 0 /\ job'.dst = 0
      /\ job'.text[1] = f
  BY <1>5
<1>7. Open' = {}
  BY <1>1, <1>3
<1>8. Catting'
  BY <1>4, <1>6, <1>7 DEF Catting
<1>9. JobOK'
  BY <1>5, <1>8 DEF JobOK
<1>10. QED BY <1>3, <1>4, <1>9 DEF Sound

LEMMA SoundCatOpen ==
  ASSUME Sound, CatOpen
  PROVE  Sound'
<1>1. job.cmd = "cat" /\ job.pc = "stat" /\ UNCHANGED <<data, free, call, dead>>
  BY DEF CatOpen
<1>2. /\ Catting /\ "beyond" \notin spoiled /\ Store /\ Room /\ Marks /\ CallOK /\ JobOK
  BY <1>1, JobIs
<1>3. Open = {} /\ Returned /\ call.op = "none" /\ job.dst = 0 /\ job.text[1] \in Files
  BY <1>1, <1>2 DEF Catting, Returned
<1>4. \/ spoiled' = spoiled \cup {"wild"} /\ UNCHANGED <<table, handle, slots, job>>
      \/ OpenInto(job.text[1]) /\ job' = [job EXCEPT !.pc = "opened", !.src = New]
  BY DEF CatOpen, GoWild, Note
<1>5. CASE spoiled' = spoiled \cup {"wild"} /\ UNCHANGED <<table, handle, slots, job>>
  <2>1. Store' /\ Room' /\ Open' = Open
    BY <1>1, <1>2, <1>5, StandStill
  <2>2. Marks'
    BY <1>1, <1>2, <1>5, <2>1, MarksStand
  <2>3. CallOK'
    BY <1>1, <1>2, <1>3, CallStays
  <2>4. Catting'
    BY <1>1, <1>2, <1>3, <1>5, <2>1 DEF Catting, Returned
  <2>5. JobOK'
    BY <1>2, <1>5, <2>4 DEF JobOK
  <2>6. QED BY <2>1, <2>2, <2>3, <2>5 DEF Sound
<1>6. CASE OpenInto(job.text[1]) /\ job' = [job EXCEPT !.pc = "opened", !.src = New]
  <2> DEFINE f == job.text[1]
  <2>1. f \in Files /\ OpenInto(f)
    BY <1>3, <1>6
  <2> HIDE DEF f
  <2>2. /\ Store' /\ Room' /\ Marks' /\ CallOK' /\ Returned'
        /\ New \in Handles /\ Open' = {New}
    BY <1>1, <1>2, <1>3, <2>1, FirstOpen
  <2> DEFINE h == New
  <2>3. job' = [cmd |-> "cat", pc |-> "opened", src |-> h, dst |-> 0, text |-> job.text]
    BY <1>1, <1>2, <1>3, <1>6 DEF JobOK
  <2> HIDE DEF h
  <2>4. job'.cmd = "cat" /\ job'.pc = "opened" /\ job'.src = h /\ job'.dst = 0
    BY <2>3
  <2>5. Catting'
    BY <2>2, <2>4 DEF Catting, h
  <2>6. JobOK'
    BY <2>3, <2>5 DEF JobOK
  <2>7. QED BY <2>2, <2>6 DEF Sound
<1>7. QED BY <1>4, <1>5, <1>6

LEMMA SoundCopy ==
  ASSUME Sound, NEW f \in Files, NEW g \in Files, Copy(f, g)
  PROVE  Sound'
<1>1. /\ Prompt /\ Open = {} /\ OpenInto(f) /\ UNCHANGED <<data, free, call, dead>>
      /\ job' = [NoJob EXCEPT !.cmd = "cp", !.pc = "source", !.src = New, !.text = <<g>>]
  BY DEF Copy, Start
<1>2. call.op = "none" /\ "beyond" \notin spoiled /\ Calm
  BY <1>1, PromptIs
<1>3. /\ Store' /\ Room' /\ Marks' /\ CallOK' /\ Returned'
      /\ New \in Handles /\ Open' = {New}
      /\ handle'[New] = [file |-> f, inode |-> Held(f), pos |-> 0]
      /\ table'[f] = Held(f) /\ spoiled' = spoiled
  BY <1>1, <1>2, FirstOpen
<1> DEFINE h == New
<1>4. job' = [cmd |-> "cp", pc |-> "source", src |-> h, dst |-> 0, text |-> <<g>>]
  BY <1>1 DEF NoJob
<1> HIDE DEF h
<1>5. job'.cmd = "cp" /\ job'.pc = "source" /\ job'.src = h /\ job'.dst = 0 /\ job'.text[1] = g
  BY <1>4
<1>6. Src'.file = f /\ Src'.inode = Held(f) /\ Src'.pos = 0
  BY <1>3, <1>5 DEF Src, h
<1>7. Calm'
  BY <1>2, <1>3 DEF Calm
<1>8. Src'.inode = table'[Src'.file]
  BY <1>3, <1>6
<1>9. Copying'
  BY <1>3, <1>5, <1>6, <1>7, <1>8 DEF Copying, h
<1>10. JobOK'
  BY <1>4, <1>9 DEF JobOK
<1>11. QED BY <1>3, <1>10 DEF Sound

Targeted == job' = [job EXCEPT !.pc = "opened", !.dst = New]

\* The target is opened: from now on the two are in step.
LEMMA CopyOpens ==
  ASSUME Sound, job.cmd = "cp", job.pc = "source", OpenInto(job.text[1]),
         Targeted, UNCHANGED <<data, free, call, dead>>
  PROVE  /\ Sound' /\ job'.pc = "opened" /\ job'.src = job.src /\ job'.dst = New
         /\ Src' = Src /\ Dst'.pos = 0 /\ Src'.pos = 0 /\ call.op = "none"
         /\ New \in Handles /\ New \notin Open
<1>1. /\ Copying /\ "beyond" \notin spoiled /\ Store /\ Room /\ Marks /\ CallOK /\ JobOK
  BY JobIs
<1>2. /\ Open = {job.src} /\ Returned /\ Src.inode = table[Src.file] /\ Src.pos = 0
      /\ job.text[1] \in Files /\ call.op = "none" /\ Calm
  BY <1>1 DEF Copying, Returned
<1>3. Cardinality(Open) < Cardinality(Handles)
  BY <1>2, OpenIsFinite, FS_Singleton
<1> DEFINE f == job.text[1]
           h == New
<1>4. f \in Files /\ OpenInto(f)
  BY <1>2
<1> HIDE DEF f
<1>5. /\ Store' /\ Room'
      /\ New \in Handles /\ New \notin Open /\ Open' = Open \cup {New}
      /\ handle'[New] = [file |-> f, inode |-> Held(f), pos |-> 0]
      /\ \A g \in Handles \ {New} : handle'[g] = handle[g]
  BY <1>1, <1>3, <1>4, OpenIntoDoes
<1>6. Marks' /\ ((\A g \in OpenOn(f) : handle[g].inode = Held(f)) => spoiled' = spoiled)
  BY <1>1, <1>3, <1>4, MarksOpened
<1>7. Src.file = f => Src.inode = Held(f)
  <2>1. Exists(Src.file)
    BY <1>1, <1>2, OpenedIs DEF Src
  <2>2. QED BY <1>2, <2>1 DEF Held
<1>8. spoiled' = spoiled
  <2>1. ASSUME NEW g \in OpenOn(f) PROVE handle[g].inode = Held(f)
    <3>1. g = job.src /\ handle[g].file = f
      BY <1>2 DEF OpenOn
    <3>2. QED BY <1>7, <3>1 DEF Src
  <2>2. QED BY <1>6, <2>1
<1>9. CallOK' /\ Returned'
  BY <1>1, <1>2, CallStays DEF Returned
<1>10. job' = [cmd |-> "cp", pc |-> "opened", src |-> job.src, dst |-> h, text |-> job.text]
  BY <1>1 DEF JobOK, Targeted
<1> HIDE DEF h
<1>11. job'.cmd = "cp" /\ job'.pc = "opened" /\ job'.src = job.src /\ job'.dst = h
  BY <1>10
<1>12. job.src \in Handles \ {New}
  BY <1>2, <1>5 DEF Open
<1>13. Src' = Src
  BY <1>5, <1>11, <1>12 DEF Src
<1>14. Dst'.file = f /\ Dst'.inode = Held(f) /\ Dst'.pos = 0
  BY <1>5, <1>11 DEF Dst, h
<1>15. Flow'
  <2>1. Pending' = << >>
    BY <1>2, <1>11 DEF Pending
  <2>2. Len(<< >>) = 0
    OBVIOUS
  <2>3. QED BY <1>2, <1>13, <1>14, <2>1, <2>2 DEF Flow
<1>16. Open' = {job'.src, job'.dst} /\ job'.src # job'.dst
  BY <1>2, <1>5, <1>11, <1>12 DEF h
<1>16a. Calm' /\ Dst'.pos <= Src'.pos /\ (Src'.file = Dst'.file => Src'.inode = Dst'.inode)
  BY <1>2, <1>7, <1>8, <1>13, <1>14 DEF Calm
<1>17. Copying'
  BY <1>9, <1>11, <1>15, <1>16, <1>16a DEF Copying
<1>18. JobOK'
  BY <1>10, <1>11, <1>17 DEF JobOK
<1>19. QED BY <1>2, <1>5, <1>6, <1>9, <1>11, <1>13, <1>14, <1>18 DEF Sound, h

LEMMA SoundCopyOpen ==
  ASSUME Sound, CopyOpen
  PROVE  Sound'
<1>1. /\ job.cmd = "cp" /\ job.pc = "source" /\ UNCHANGED <<data, free, call, dead>>
      /\ \/ OpenInto(job.text[1]) /\ job' = [job EXCEPT !.pc = "opened", !.dst = New]
         \/ Forget(job.src) /\ job' = NoJob /\ UNCHANGED <<table, slots, spoiled>>
  BY DEF CopyOpen
<1>2. /\ Copying /\ "beyond" \notin spoiled /\ Store /\ Room /\ Marks /\ CallOK /\ JobOK
  BY <1>1, JobIs
<1>3. CASE OpenInto(job.text[1]) /\ job' = [job EXCEPT !.pc = "opened", !.dst = New]
  BY <1>1, <1>3, CopyOpens DEF Targeted
<1>4. CASE Forget(job.src) /\ job' = NoJob /\ UNCHANGED <<table, slots, spoiled>>
  <2>1. job.src \in Open /\ Returned /\ call.op = "none"
    BY <1>1, <1>2 DEF Copying, Returned
  <2> DEFINE h == job.src
  <2> HIDE DEF h
  <2>2. h \in Open /\ Forget(h)
    BY <1>4, <2>1 DEF h
  <2>3. /\ Store' /\ Room' /\ Open' = Open \ {h}
        /\ \A g \in Handles \ {h} : handle'[g] = handle[g]
    BY <1>1, <1>2, <1>4, <2>2, ForgetDoes
  <2>4. Marks'
    BY <1>1, <1>2, <1>4, <2>3, MarksShrink
  <2>5. CallOK'
    BY <1>1, <1>2, <2>1, CallStays
  <2>6. JobOK'
    BY <1>4 DEF JobOK, NoJob
  <2>7. QED BY <2>3, <2>4, <2>5, <2>6 DEF Sound
<1>5. QED BY <1>1, <1>3, <1>4

LEMMA SoundList ==
  ASSUME Sound, NEW f \in Files, List(f)
  PROVE  Sound'
<1>1. /\ Prompt /\ Open = {} /\ OpenInto(f) /\ UNCHANGED <<data, free, call, dead>>
      /\ job' = [NoJob EXCEPT !.cmd = "ls", !.pc = "opened", !.src = New]
  BY DEF List, Start
<1>2. call.op = "none" /\ "beyond" \notin spoiled
  BY <1>1, PromptIs
<1>3. /\ Store' /\ Room' /\ Marks' /\ CallOK' /\ Returned'
      /\ New \in Handles /\ Open' = {New}
      /\ handle'[New] = [file |-> f, inode |-> Held(f), pos |-> 0]
      /\ table'[f] = Held(f)
  BY <1>1, <1>2, FirstOpen
<1> DEFINE h == New
<1>4. job' = [cmd |-> "ls", pc |-> "opened", src |-> h, dst |-> 0, text |-> << >>]
  BY <1>1 DEF NoJob
<1> HIDE DEF h
<1>5. job'.cmd = "ls" /\ job'.pc = "opened" /\ job'.src = h /\ job'.dst = 0
  BY <1>4
<1>6. Src'.file = f /\ Src'.inode = Held(f)
  BY <1>3, <1>5 DEF Src, h
<1>7. Src'.inode = table'[Src'.file]
  BY <1>3, <1>6
<1>8. Listing'
  BY <1>3, <1>5, <1>7 DEF Listing, h
<1>9. JobOK'
  BY <1>4, <1>8 DEF JobOK
<1>10. QED BY <1>3, <1>9 DEF Sound

\* A command makes a call: nothing moves yet.
LEMMA JobCalls ==
  ASSUME Sound, job.cmd # "none", NEW c, NEW pc, JobCall(c, pc)
  PROVE  /\ Store' /\ Room' /\ Marks' /\ Open' = Open /\ Src' = Src /\ Dst' = Dst
         /\ call' = c /\ UNCHANGED <<handle, table, free, data, dead, spoiled>>
         /\ job' = [cmd |-> job.cmd, pc |-> pc, src |-> job.src, dst |-> job.dst, text |-> job.text]
<1>1. UNCHANGED <<table, data, free, handle, slots, dead, spoiled>> /\ call' = c
  BY DEF JobCall
<1>2. Store /\ Room /\ Marks /\ JobOK /\ "beyond" \notin spoiled
  BY JobIs
<1>3. Store' /\ Room' /\ Open' = Open
  BY <1>1, <1>2, StandStill
<1>4. Marks'
  BY <1>1, <1>2, <1>3, MarksStand
<1>5. job' = [cmd |-> job.cmd, pc |-> pc, src |-> job.src, dst |-> job.dst, text |-> job.text]
  BY <1>2 DEF JobOK, JobCall
<1>6. job'.src = job.src /\ job'.dst = job.dst
  <2> DEFINE j == [cmd |-> job.cmd, pc |-> pc, src |-> job.src, dst |-> job.dst, text |-> job.text]
  <2>1. j.src = job.src /\ j.dst = job.dst
    OBVIOUS
  <2> HIDE DEF j
  <2>2. job' = j
    BY <1>5 DEF j
  <2>3. QED BY <2>1, <2>2
<1>7. Src' = Src /\ Dst' = Dst
  BY <1>1, <1>6 DEF Src, Dst
<1>8. QED BY <1>1, <1>3, <1>4, <1>5, <1>7

LEMMA JobFields ==
  ASSUME NEW j, NEW c, NEW p, NEW x, NEW y, NEW t,
         j = [cmd |-> c, pc |-> p, src |-> x, dst |-> y, text |-> t]
  PROVE  /\ j.cmd = c /\ j.pc = p /\ j.src = x /\ j.dst = y /\ j.text = t
         /\ j = [cmd |-> j.cmd, pc |-> j.pc, src |-> j.src, dst |-> j.dst, text |-> j.text]
<1>1. /\ j.cmd = c /\ j.pc = p /\ j.src = x /\ j.dst = y /\ j.text = t
  OBVIOUS
<1>2. QED BY <1>1

LEMMA JobReads ==
  ASSUME Sound, job.cmd # "none", Open = {job.src} \/ Open = {job.src, job.dst},
         NEW want \in Nat \ {0}, NEW pc, JobCall(Reading(job.src, want), pc)
  PROVE  /\ Store' /\ Room' /\ Marks' /\ CallOK' /\ Open' = Open /\ Src' = Src /\ Dst' = Dst
         /\ UNCHANGED <<table, handle, free, data, dead, spoiled>>
         /\ job' = [cmd |-> job.cmd, pc |-> pc, src |-> job.src, dst |-> job.dst, text |-> job.text]
         /\ job'.cmd = job.cmd /\ job'.pc = pc /\ job'.src = job.src /\ job'.dst = job.dst /\ job'.text = job.text
         /\ call'.op = "read" /\ call'.h = job.src /\ call'.got = << >> /\ call'.rest \in Nat
         /\ call'.rest <= want
         /\ call'.rest = want \/ Src.pos + call'.rest = Src.inode.size
<1> DEFINE h == job.src
           c == Reading(h, want)
<1>1. Store /\ Marks /\ "beyond" \notin spoiled
  BY JobIs
<1>2. h \in Open
  OBVIOUS
<1>3. /\ c = [op |-> "read", h |-> h, want |-> want, rest |-> c.rest, got |-> << >>]
      /\ c.rest \in Nat /\ c.rest <= want /\ handle[h].pos + c.rest <= handle[h].inode.size
      /\ c.rest = want \/ handle[h].pos + c.rest = handle[h].inode.size
  <2> HIDE DEF h
  <2>1. QED BY <1>1, <1>2, ReadingIs
<1> HIDE DEF c
<1>4. JobCall(c, pc)
  BY DEF c
<1>5. /\ Store' /\ Room' /\ Marks' /\ Open' = Open /\ Src' = Src /\ Dst' = Dst
      /\ call' = c /\ UNCHANGED <<handle, table, free, data, dead, spoiled>>
      /\ job' = [cmd |-> job.cmd, pc |-> pc, src |-> job.src, dst |-> job.dst, text |-> job.text]
  BY <1>4, JobCalls
<1>6. /\ job'.cmd = job.cmd /\ job'.pc = pc /\ job'.src = job.src /\ job'.dst = job.dst
      /\ job'.text = job.text
  BY <1>5, JobFields
<1>7. /\ c.op = "read" /\ c.h = h /\ c.got = << >>
      /\ c = [op |-> c.op, h |-> c.h, want |-> c.want, rest |-> c.rest, got |-> c.got]
  BY <1>3
<1>8. << >> \in Seq(Values)
  BY EmptySeq
<1>9. CallOK'
  BY <1>2, <1>3, <1>5, <1>7, <1>8 DEF CallOK, Here
<1>10. QED BY <1>3, <1>5, <1>6, <1>7, <1>9 DEF Src

LEMMA SoundCreateFileWrite ==
  ASSUME Sound, CreateFileWrite
  PROVE  Sound'
<1> DEFINE c == Writing(job.src, job.text)
<1>1. job.cmd = "createfile" /\ job.pc = "opened" /\ JobCall(c, "last")
  BY DEF CreateFileWrite
<1>2. Creating /\ Open = {job.src} /\ job.dst = 0 /\ job.text \in Texts /\ Src.pos = 0
  BY <1>1, JobIs DEF Creating
<1>3. c = [op |-> "write", h |-> job.src, want |-> 0, got |-> << >>, rest |-> job.text]
  BY DEF Writing
<1> HIDE DEF c
<1>4. /\ Store' /\ Room' /\ Marks' /\ Open' = Open /\ Src' = Src
      /\ call' = c /\ UNCHANGED <<handle, dead, free>>
      /\ job' = [cmd |-> job.cmd, pc |-> "last", src |-> job.src, dst |-> job.dst, text |-> job.text]
  BY <1>1, JobCalls
<1>5. /\ job'.cmd = "createfile" /\ job'.pc = "last" /\ job'.src = job.src /\ job'.dst = 0
      /\ job'.text = job.text
      /\ job' = [cmd |-> job'.cmd, pc |-> job'.pc, src |-> job'.src, dst |-> job'.dst, text |-> job'.text]
  BY <1>1, <1>2, <1>4, JobFields
<1>6. /\ c.op = "write" /\ c.h = job.src /\ c.rest = job.text /\ c.got = << >>
      /\ c = [op |-> c.op, h |-> c.h, want |-> c.want, rest |-> c.rest, got |-> c.got]
  BY <1>3
<1>7. job.text \in Seq(Values) /\ Len(job.text) <= MaxSize /\ Len(job.text) \in Nat /\ << >> \in Seq(Values)
  <2>1. job.text \in Seq(Byte) /\ Len(job.text) <= MaxSize
    BY <1>2, TextsAssumption
  <2>2. job.text \in Seq(Values)
    BY <2>1, SeqDef DEF Values
  <2>3. QED BY <2>1, <2>2, EmptySeq
<1>8. Here'.pos = 0
  BY <1>2, <1>4, <1>6 DEF Here, Src
<1>9. Here'.pos + Len(call'.rest) <= MaxSize
  BY <1>4, <1>6, <1>7, <1>8
<1>10. CallOK'
  BY <1>2, <1>4, <1>6, <1>7, <1>9 DEF CallOK
<1>11. ~Returned' /\ Asked(job.src, "write")' /\ Src'.pos + Len(call'.rest) = Len(job'.text)
  BY <1>2, <1>4, <1>5, <1>6, <1>7 DEF Returned, Asked
<1>12. Creating'
  BY <1>2, <1>4, <1>5, <1>11 DEF Creating
<1>13. QED BY <1>4, <1>5, <1>10, <1>12 DEF Sound, JobOK

LEMMA SoundCatRead ==
  ASSUME Sound, CatRead
  PROVE  Sound'
<1>1. job.cmd = "cat" /\ job.pc # "stat" /\ JobCall(Reading(job.src, Buffer), "read")
  BY DEF CatRead
<1>2. Open = {job.src} /\ job.dst = 0
  BY <1>1, JobIs DEF Catting
<1>3. Buffer \in Nat \ {0}
  BY Sizes
<1>4. /\ Store' /\ Room' /\ Marks' /\ CallOK' /\ Open' = Open /\ Src' = Src
      /\ job' = [cmd |-> job.cmd, pc |-> "read", src |-> job.src, dst |-> job.dst, text |-> job.text]
      /\ job'.cmd = job.cmd /\ job'.pc = "read" /\ job'.src = job.src /\ job'.dst = job.dst
      /\ call'.op = "read" /\ call'.h = job.src /\ call'.got = << >> /\ call'.rest \in Nat
      /\ call'.rest <= Buffer
      /\ call'.rest = Buffer \/ Src.pos + call'.rest = Src.inode.size
  BY <1>1, <1>2, <1>3, JobReads
<1>5. Len(<< >>) = 0
  OBVIOUS
<1>6. ~Returned' /\ Asked(job.src, "read")'
  BY <1>4 DEF Returned, Asked
<1>7. Len(call'.got) + call'.rest = call'.rest
  BY <1>4, <1>5
<1>8. Full'
  BY <1>4, <1>6, <1>7 DEF Full
<1>9. Catting'
  BY <1>1, <1>2, <1>4, <1>6, <1>8 DEF Catting
<1>10. job' = [cmd |-> job'.cmd, pc |-> job'.pc, src |-> job'.src, dst |-> job'.dst, text |-> job'.text]
  BY <1>4, JobFields
<1>11. QED BY <1>4, <1>9, <1>10 DEF Sound, JobOK

LEMMA SoundListRead ==
  ASSUME Sound, ListRead
  PROVE  Sound'
<1>1. job.cmd = "ls" /\ JobCall(Reading(job.src, EntryBytes), "read")
  BY DEF ListRead
<1>2. Open = {job.src} /\ job.dst = 0 /\ Src.inode = table[Src.file]
  BY <1>1, JobIs DEF Listing
<1>3. EntryBytes \in Nat \ {0}
  BY SizesAssumption
<1>4. /\ Store' /\ Room' /\ Marks' /\ CallOK' /\ Open' = Open /\ Src' = Src /\ UNCHANGED table
      /\ job' = [cmd |-> job.cmd, pc |-> "read", src |-> job.src, dst |-> job.dst, text |-> job.text]
      /\ job'.cmd = job.cmd /\ job'.pc = "read" /\ job'.src = job.src /\ job'.dst = job.dst
      /\ call'.op = "read" /\ call'.h = job.src
  BY <1>1, <1>2, <1>3, JobReads
<1>5. Asked(job.src, "read")' /\ Src'.inode = table'[Src'.file]
  BY <1>2, <1>4 DEF Returned, Asked
<1>6. Listing'
  BY <1>1, <1>2, <1>4, <1>5 DEF Listing
<1>7. job' = [cmd |-> job'.cmd, pc |-> job'.pc, src |-> job'.src, dst |-> job'.dst, text |-> job'.text]
  BY <1>4, JobFields
<1>8. QED BY <1>4, <1>6, <1>7 DEF Sound, JobOK

LEMMA SoundCopyRead ==
  ASSUME Sound, CopyRead
  PROVE  Sound'
<1>1. job.cmd = "cp" /\ job.pc \in {"opened", "write"} /\ Returned /\ call.op = "none"
      /\ JobCall(Reading(job.src, Buffer), "read")
  BY DEF CopyRead, Returned
<1>2. /\ Calm /\ Open = {job.src, job.dst} /\ job.src # job.dst
      /\ (Src.file = Dst.file => Src.inode = Dst.inode)
      /\ Dst.pos <= Src.pos /\ (dead \/ Stuck \/ Flow)
  BY <1>1, JobIs DEF Copying
<1>3. Buffer \in Nat \ {0}
  BY Sizes
<1>4. /\ Store' /\ Room' /\ Marks' /\ CallOK' /\ Open' = Open /\ Src' = Src /\ Dst' = Dst
      /\ UNCHANGED <<free, dead, spoiled>>
      /\ job' = [cmd |-> job.cmd, pc |-> "read", src |-> job.src, dst |-> job.dst, text |-> job.text]
      /\ job'.cmd = job.cmd /\ job'.pc = "read" /\ job'.src = job.src /\ job'.dst = job.dst
      /\ call'.op = "read" /\ call'.h = job.src /\ call'.got = << >> /\ call'.rest \in Nat
      /\ call'.rest <= Buffer
      /\ call'.rest = Buffer \/ Src.pos + call'.rest = Src.inode.size
  BY <1>1, <1>2, <1>3, JobReads
<1>5. Len(<< >>) = 0
  OBVIOUS
<1>6. ~Returned' /\ Asked(job.src, "read")'
  BY <1>4 DEF Returned, Asked
<1>7. Len(call'.got) + call'.rest = call'.rest
  BY <1>4, <1>5
<1>8. Full'
  BY <1>4, <1>6, <1>7 DEF Full
<1>9. Pending = << >> /\ Pending' = << >>
  BY <1>1, <1>4 DEF Pending
<1>10. dead' \/ Stuck' \/ Flow'
  BY <1>2, <1>4, <1>9 DEF Stuck, Flow
<1>11. Calm' /\ Dst'.pos <= Src'.pos /\ (Src'.file = Dst'.file => Src'.inode = Dst'.inode)
  BY <1>2, <1>4 DEF Calm
<1>12. Copying'
  BY <1>1, <1>2, <1>4, <1>6, <1>8, <1>10, <1>11 DEF Copying
<1>13. job' = [cmd |-> job'.cmd, pc |-> job'.pc, src |-> job'.src, dst |-> job'.dst, text |-> job'.text]
  BY <1>4, JobFields
<1>14. QED BY <1>4, <1>12, <1>13 DEF Sound, JobOK

LEMMA SoundCopyWrite ==
  ASSUME Sound, CopyWrite
  PROVE  Sound'
<1> DEFINE c == Writing(job.dst, call.got)
<1>1. job.cmd = "cp" /\ job.pc = "read" /\ Returned /\ call.op = "none" /\ JobCall(c, "write")
  BY DEF CopyWrite, Returned
<1>2. /\ Calm /\ Open = {job.src, job.dst} /\ job.src # job.dst
      /\ (Src.file = Dst.file => Src.inode = Dst.inode)
      /\ Dst.pos <= Src.pos /\ (dead \/ Stuck \/ Flow)
  BY <1>1, JobIs DEF Copying
<1>3. c = [op |-> "write", h |-> job.dst, want |-> 0, got |-> << >>, rest |-> call.got]
  BY DEF Writing
<1> HIDE DEF c
<1>4. /\ Store' /\ Room' /\ Marks' /\ Open' = Open /\ Src' = Src /\ Dst' = Dst
      /\ call' = c /\ UNCHANGED <<handle, dead, free, spoiled>>
      /\ job' = [cmd |-> job.cmd, pc |-> "write", src |-> job.src, dst |-> job.dst, text |-> job.text]
  BY <1>1, JobCalls
<1>5. /\ job'.cmd = "cp" /\ job'.pc = "write" /\ job'.src = job.src /\ job'.dst = job.dst
      /\ job' = [cmd |-> job'.cmd, pc |-> job'.pc, src |-> job'.src, dst |-> job'.dst, text |-> job'.text]
  BY <1>1, <1>4, JobFields
<1>6. /\ c.op = "write" /\ c.h = job.dst /\ c.rest = call.got /\ c.got = << >>
      /\ c = [op |-> c.op, h |-> c.h, want |-> c.want, rest |-> c.rest, got |-> c.got]
  BY <1>3
<1>7. call.got \in Seq(Values) /\ << >> \in Seq(Values)
  BY JobIs, EmptySeq DEF CallOK
<1>8. CallOK'
  BY <1>2, <1>4, <1>5, <1>6, <1>7 DEF CallOK
<1>9. ~Returned' /\ Asked(job.dst, "write")'
  BY <1>4, <1>6 DEF Returned, Asked
<1>10. Pending = call.got /\ Pending' = call.got
  BY <1>1, <1>4, <1>5, <1>6 DEF Pending
<1>11. dead' \/ Stuck' \/ Flow'
  BY <1>2, <1>4, <1>10 DEF Stuck, Flow
<1>12. Calm' /\ Dst'.pos <= Src'.pos /\ (Src'.file = Dst'.file => Src'.inode = Dst'.inode)
  BY <1>2, <1>4 DEF Calm
<1>13. Copying'
  BY <1>2, <1>4, <1>5, <1>9, <1>11, <1>12 DEF Copying
<1>14. QED BY <1>4, <1>5, <1>8, <1>13 DEF Sound, JobOK

LEMMA SoundListAborts ==
  ASSUME Sound, ListAborts
  PROVE  Sound'
<1>1. /\ job.cmd = "ls" /\ job.pc = "opened" /\ spoiled' = spoiled \cup {"aborted"}
      /\ UNCHANGED <<table, data, free, handle, slots, call, job, dead>>
  BY DEF ListAborts, Note
<1>2. Listing /\ "beyond" \notin spoiled /\ Store /\ Room /\ Marks /\ CallOK /\ JobOK
  BY <1>1, JobIs
<1>3. Store' /\ Room' /\ Open' = Open
  BY <1>1, <1>2, StandStill
<1>4. Marks'
  BY <1>1, <1>2, <1>3, MarksStand
<1>5. call.op = "none"
  BY <1>1, <1>2 DEF Listing, Returned
<1>6. CallOK'
  BY <1>1, <1>2, <1>5, CallStays
<1>7. Listing'
  BY <1>1, <1>2, <1>3 DEF Listing, Returned, Asked, Src
<1>8. JobOK'
  BY <1>1, <1>2, <1>7 DEF JobOK
<1>9. QED BY <1>3, <1>4, <1>6, <1>8 DEF Sound

\* The command is over.
LEMMA JobOver ==
  ASSUME job' = NoJob, call' = NoCall
  PROVE  JobOK' /\ CallOK'
<1>1. JobOK'
  BY DEF JobOK, NoJob
<1>2. << >> \in Seq(Values)
  BY EmptySeq
<1>3. call' = [op |-> "none", h |-> 0, want |-> 0, rest |-> << >>, got |-> << >>]
  BY DEF NoCall
<1>4. CallOK'
  BY <1>2, <1>3 DEF CallOK
<1>5. QED BY <1>1, <1>4

LEMMA SoundListEnd ==
  ASSUME Sound, ListEnd
  PROVE  Sound'
<1> DEFINE h == job.src
<1>1. /\ job.cmd = "ls" /\ Forget(h) /\ job' = NoJob /\ call' = NoCall
      /\ UNCHANGED <<table, data, free, slots, dead, spoiled>>
  BY DEF ListEnd
<1>2. "beyond" \notin spoiled /\ Store /\ Room /\ Marks /\ h \in Open
  BY <1>1, JobIs DEF Listing
<1> HIDE DEF h
<1>3. /\ Store' /\ Room' /\ Open' = Open \ {h}
      /\ \A g \in Handles \ {h} : handle'[g] = handle[g]
  BY <1>1, <1>2, ForgetDoes
<1>4. Marks'
  BY <1>1, <1>2, <1>3, MarksShrink
<1>5. JobOK' /\ CallOK'
  BY <1>1, JobOver
<1>6. QED BY <1>3, <1>4, <1>5 DEF Sound

LEMMA CloseJob ==
  ASSUME job.pc = "read", job.cmd = "cp", JobOK, JobClose
  PROVE  job' = [cmd |-> "cp", pc |-> "close", src |-> job.src, dst |-> job.dst, text |-> job.text]
BY DEF JobOK, JobClose

LEMMA SoundJobClose ==
  ASSUME Sound, JobClose
  PROVE  Sound'
<1> DEFINE h == job.src
<1>1. /\ LoopDone /\ Returned /\ CloseSlot(h) /\ call' = NoCall
      /\ UNCHANGED <<data, free, dead, spoiled>>
  BY DEF JobClose, LoopDone
<1>2. \/ job.cmd = "createfile" /\ job.pc = "last"
      \/ job.cmd = "cat" /\ job.pc = "read"
      \/ job.cmd = "cp" /\ job.pc = "read"
  BY <1>1 DEF LoopDone
<1>3. "beyond" \notin spoiled /\ Store /\ Room /\ Marks /\ JobOK /\ dead \in BOOLEAN
  BY <1>2, JobIs DEF Marks
<1>4. h \in Open
  BY <1>2, JobIs DEF Creating, Catting, Copying
<1>5. h \in Handles
  BY <1>4 DEF Open
<1> HIDE DEF h
<1>6. /\ Store' /\ Room' /\ Open' = Open \ {h}
      /\ \A g \in Handles \ {h} : handle'[g] = handle[g]
  BY <1>1, <1>3, <1>4, CloseSlotDoes
<1>7. Marks'
  BY <1>1, <1>3, <1>6, MarksShrink
<1>8. Returned' /\ CallOK'
  <2>1. call' = [op |-> "none", h |-> 0, want |-> 0, rest |-> << >>, got |-> << >>]
    BY <1>1 DEF NoCall
  <2>2. << >> \in Seq(Values)
    BY EmptySeq
  <2>3. QED BY <2>1, <2>2 DEF CallOK, Returned
<1>9. CASE job.cmd = "cp"
  <2>1. job' = [cmd |-> "cp", pc |-> "close", src |-> job.src, dst |-> job.dst, text |-> job.text]
    BY <1>2, <1>3, <1>9, CloseJob
  <2>2. /\ job'.cmd = "cp" /\ job'.pc = "close" /\ job'.src = job.src /\ job'.dst = job.dst
        /\ job' = [cmd |-> job'.cmd, pc |-> job'.pc, src |-> job'.src, dst |-> job'.dst, text |-> job'.text]
    BY <2>1, JobFields
  <2>3. Calm /\ Open = {job.src, job.dst} /\ job.src # job.dst
    BY <1>2, <1>9, JobIs DEF Copying
  <2>4. Open' = {job'.dst} /\ job'.src \in Handles
    BY <1>5, <1>6, <2>2, <2>3 DEF h
  <2>5. Calm'
    BY <1>1, <2>3 DEF Calm
  <2>6. Copying'
    BY <1>8, <2>2, <2>4, <2>5 DEF Copying
  <2>7. QED BY <1>6, <1>7, <1>8, <2>2, <2>6 DEF Sound, JobOK
<1>10. CASE job.cmd # "cp"
  <2>1. job' = NoJob
    BY <1>10 DEF JobClose
  <2>2. JobOK'
    BY <1>1, <2>1, JobOver
  <2>3. QED BY <1>6, <1>7, <1>8, <2>2 DEF Sound
<1>11. QED BY <1>9, <1>10

LEMMA SoundCopyClose ==
  ASSUME Sound, CopyClose
  PROVE  Sound'
<1> DEFINE h == job.dst
<1>1. /\ job.pc = "close" /\ CloseSlot(h) /\ job' = NoJob
      /\ UNCHANGED <<data, free, call, dead, spoiled>>
  BY DEF CopyClose
<1>2. Copying /\ Store /\ Room /\ Marks /\ CallOK /\ dead \in BOOLEAN
  BY <1>1, JobIs DEF Marks
<1>3. h \in Open /\ call.op = "none" /\ "beyond" \notin spoiled
  BY <1>1, <1>2 DEF Copying, Returned, Calm
<1> HIDE DEF h
<1>4. /\ Store' /\ Room' /\ Open' = Open \ {h}
      /\ \A g \in Handles \ {h} : handle'[g] = handle[g]
  BY <1>1, <1>2, <1>3, CloseSlotDoes
<1>5. Marks'
  BY <1>1, <1>2, <1>3, <1>4, MarksShrink
<1>6. CallOK'
  BY <1>1, <1>2, <1>3, CallStays
<1>7. JobOK'
  BY <1>1 DEF JobOK, NoJob
<1>8. QED BY <1>4, <1>5, <1>6, <1>7 DEF Sound

LEMMA SoundInit ==
  ASSUME Init
  PROVE  Sound
<1>1. handle = [h \in Handles |-> Closed] /\ Open = {}
  BY DEF Init, Open
<1>2. Store
  <2>1. table \in [Files -> Inodes \cup {NoInode}] /\ free \subseteq Blocks
    BY DEF Init
  <2>2. data \in Data
    BY DEF Init, Data, Values
  <2>3. handle \in [Handles -> Entries \cup {Closed}]
    BY <1>1
  <2>4. QED BY <1>1, <2>1, <2>2, <2>3 DEF Store
<1>3. Room
  BY <1>1, FS_EmptySet, Sizes DEF Init, Room
<1>4. Marks
  BY <1>1 DEF Init, Marks
<1>5. CallOK
  <2>1. call = [op |-> "none", h |-> 0, want |-> 0, rest |-> << >>, got |-> << >>]
    BY DEF Init, NoCall
  <2>2. << >> \in Seq(Values)
    BY EmptySeq
  <2>3. QED BY <2>1, <2>2 DEF CallOK
<1>6. JobOK
  BY DEF Init, JobOK, NoJob
<1>7. QED BY <1>2, <1>3, <1>4, <1>5, <1>6 DEF Sound

LEMMA SoundRequest ==
  ASSUME Sound, Request
  PROVE  Sound'
<1>1. ASSUME NEW f \in Files, OpenFile(f) PROVE Sound'
  BY <1>1, SoundOpenFile
<1>2. ASSUME NEW f \in Files, Cat(f) PROVE Sound'
  BY <1>2, SoundCat
<1>3. ASSUME NEW f \in Files, List(f) PROVE Sound'
  BY <1>3, SoundList
<1>4. ASSUME NEW f \in Files, NEW text \in Texts, CreateFile(f, text) PROVE Sound'
  BY <1>4, SoundCreateFile
<1>5. ASSUME NEW f \in Files, NEW g \in Files, Copy(f, g) PROVE Sound'
  BY <1>5, SoundCopy
<1>6. ASSUME NEW h \in Handles, CloseFile(h) PROVE Sound'
  BY <1>6, SoundCloseFile
<1>7. ASSUME NEW h \in Handles, NEW n \in 0 .. MaxSize, Ftruncate(h, n) PROVE Sound'
  BY <1>7, SoundFtruncate
<1>8. ASSUME NEW h \in Handles, NEW n \in Counts, Read(h, n) PROVE Sound'
  BY <1>8, SoundRead
<1>9. ASSUME NEW h \in Handles, NEW text \in Texts, Write(h, text) PROVE Sound'
  BY <1>9, SoundWrite
<1>10. ASSUME NEW h \in Handles, NEW off \in -1 .. MaxSize, NEW where \in {"set", "cur", "end"},
              Lseek(h, off, where)
       PROVE  Sound'
  <2>1. Sound' /\ Open' = Open
    BY <1>10, SoundLseek
  <2>2. QED BY <2>1
<1>11. Restart => Sound'
  BY SoundRestart
<1>12. QED BY <1>1, <1>2, <1>3, <1>4, <1>5, <1>6, <1>7, <1>8, <1>9, <1>10, <1>11 DEF Request

LEMMA SoundTurn ==
  ASSUME Sound, Turn
  PROVE  Sound'
<1>1. ReadTurn => Sound'
  BY ReadTurnIs, SoundReads, SoundReadFails
<1>2. WriteTurn \/ WriteRefused \/ WriteFails \/ Return => Sound'
  BY SoundWriteTurn, SoundWriteRefused, SoundWriteFails, SoundReturn
<1>3. CatOpen \/ CopyOpen \/ CreateFileWrite \/ CatRead \/ CopyRead \/ CopyWrite => Sound'
  BY SoundCatOpen, SoundCopyOpen, SoundCreateFileWrite, SoundCatRead, SoundCopyRead, SoundCopyWrite
<1>4. ListRead \/ ListAborts \/ ListEnd \/ JobClose \/ CopyClose => Sound'
  BY SoundListRead, SoundListAborts, SoundListEnd, SoundJobClose, SoundCopyClose
<1>5. QED BY <1>1, <1>2, <1>3, <1>4 DEF Turn

LEMMA SoundStutter ==
  ASSUME Sound, UNCHANGED vars
  PROVE  Sound'
<1>1. UNCHANGED <<table, data, free, handle, slots, call, job, dead, spoiled>>
  BY DEF vars
<1>2. Store' /\ Room' /\ Open' = Open
  BY <1>1, StandStill DEF Sound
<1>3. Marks'
  <2>1. Marks
    BY DEF Sound
  <2>2. UNCHANGED <<handle, call, job, dead, spoiled>> /\ Open' = Open /\ NoJob' = NoJob
    BY <1>1, <1>2 DEF NoJob
  <2>3. QED BY <2>1, <2>2 DEF Marks, Returned
<1>4. CallOK'
  BY <1>1, <1>2 DEF Sound, CallOK, Here
<1>5. Src' = Src /\ Dst' = Dst /\ Returned' = Returned /\ Pending' = Pending
  BY <1>1 DEF Src, Dst, Returned, Pending
<1>6. Full' = Full /\ (Creating => Creating')
  BY <1>1, <1>2, <1>5 DEF Full, Creating, Asked
<1>7. (Catting => Catting') /\ (Listing => Listing')
  BY <1>1, <1>2, <1>5, <1>6 DEF Catting, Listing, Asked
<1>8. (dead \/ Stuck \/ Flow) => (dead' \/ Stuck' \/ Flow')
  BY <1>1, <1>5 DEF Stuck, Flow
<1>9. Copying => Copying'
  BY <1>1, <1>2, <1>5, <1>6, <1>8 DEF Copying, Asked, Calm
<1>10. JobOK'
  BY <1>1, <1>6, <1>7, <1>9 DEF Sound, JobOK, NoJob
<1>11. QED BY <1>2, <1>3, <1>4, <1>10 DEF Sound

\* Files have as many blocks as their size asks for, an open file has an inode
\* on disk, no position is beyond the end of its file, and each call and
\* command is where its loop can be: after every step of base_file_read,
\* base_file_write and the commands of the shell.
THEOREM SoundAlways == Spec => []Sound
<1>1. Init => Sound
  BY SoundInit
<1>2. Sound /\ [Next]_vars => Sound'
  BY SoundRequest, SoundTurn, SoundStutter DEF Next
<1>3. QED BY <1>1, <1>2, PTL DEF Spec

\* No inode has more blocks than the longest file.
LEMMA InodesFit ==
  ASSUME NEW n \in Inodes \cup {NoInode}
  PROVE  n \in [size : -1 .. MaxSize, blocks : SeqOf(Blocks, Groups(MaxSize))]
<1>1. Groups(MaxSize) \in Nat
  <2>1. MaxSize \in Nat
    BY Sizes
  <2>2. QED BY <2>1, GroupsHold
<1>2. CASE n = NoInode
  <2>1. << >> \in [1 .. 0 -> Blocks]
    OBVIOUS
  <2>2. << >> \in SeqOf(Blocks, Groups(MaxSize))
    BY <1>1, <2>1 DEF SeqOf
  <2>3. -1 \in -1 .. MaxSize
    BY Sizes
  <2>4. QED BY <1>2, <2>2, <2>3 DEF NoInode
<1>3. CASE n \in Inodes
  <2>1. n.size \in 0 .. MaxSize /\ n.blocks \in Seq(Blocks) /\ Len(n.blocks) = Groups(n.size)
        /\ n = [size |-> n.size, blocks |-> n.blocks]
    BY <1>3 DEF Inodes, Inode
  <2> DEFINE s == n.size
             q == n.blocks
  <2> HIDE DEF s, q
  <2>2. s \in Nat /\ s <= MaxSize /\ s \in -1 .. MaxSize
    BY <2>1, Sizes DEF s
  <2>3. Groups(s) <= Groups(MaxSize) /\ Groups(s) \in Nat
    <3>1. MaxSize \in Nat
      BY Sizes
    <3>2. Groups(s) <= Groups(MaxSize)
      BY <2>2, <3>1, GroupsGrow
    <3>3. Groups(s) \in Nat
      BY <2>2, GroupsHold
    <3>4. QED BY <3>2, <3>3
  <2>4. q \in [1 .. Len(q) -> Blocks] /\ Len(q) \in 0 .. Groups(MaxSize)
    BY <1>1, <2>1, <2>3, LenProperties DEF q, s
  <2>5. q \in SeqOf(Blocks, Groups(MaxSize))
    BY <2>4 DEF SeqOf
  <2>6. n = [size |-> s, blocks |-> q]
    BY <2>1 DEF s, q
  <2>7. QED BY <2>2, <2>5, <2>6
<1>4. QED BY <1>2, <1>3

LEMMA SoundTypes ==
  ASSUME Sound
  PROVE  TypeOK
<1> DEFINE I == [size : -1 .. MaxSize, blocks : SeqOf(Blocks, Groups(MaxSize))]
<1>1. Inodes \cup {NoInode} \subseteq I
  BY InodesFit
<1> HIDE DEF I
<1>2. \A f \in Files : table[f] \in I
  BY <1>1 DEF Sound, Store
<1>3. \A b \in Blocks : data[b] \in [1 .. BlockBytes -> Byte \cup {Junk}]
  BY DEF Sound, Store, Data, Values
<1>4. ASSUME NEW h \in Handles
      PROVE  handle[h].file \in Files \cup {NoFile} /\ handle[h].inode \in I /\ handle[h].pos \in 0 .. MaxSize
  <2>1. CASE handle[h] = Closed
    BY <1>1, <2>1, Sizes DEF Closed
  <2>2. CASE handle[h] # Closed
    <3>1. h \in Open
      BY <2>2 DEF Open
    <3>2. QED BY <1>1, <3>1, OpenedIs DEF Sound
  <2>3. QED BY <2>1, <2>2
<1>5. slots + Cardinality(Open) \in 0 .. MaxSlots
  BY OpenIsFinite, Sizes DEF Sound, Room
<1>6. call.op \in {"none", "read", "write"} /\ call.h \in Handles \cup {0}
  BY OpenIsFinite DEF Sound, CallOK
<1>7. job.cmd \in {"none", "createfile", "cat", "cp", "ls"} /\ {job.src, job.dst} \subseteq Handles \cup {0}
  <2>1. Open \subseteq Handles
    BY OpenIsFinite
  <2>2. CASE job = NoJob
    BY <2>2 DEF NoJob
  <2>3. CASE Creating
    BY <2>1, <2>3 DEF Creating
  <2>4. CASE Catting
    BY <2>1, <2>4 DEF Catting
  <2>5. CASE Listing
    BY <2>1, <2>5 DEF Listing
  <2>6. CASE Copying
    BY <2>1, <2>6 DEF Copying
  <2>7. QED BY <2>2, <2>3, <2>4, <2>5, <2>6 DEF Sound, JobOK
<1>8. dead \in BOOLEAN /\ spoiled \subseteq {"stale", "strayed", "beyond", "aborted", "wild", "failed"}
  BY DEF Sound, Marks, Labels
<1>9. free \subseteq Blocks
  BY DEF Sound, Store
<1>10. QED BY <1>2, <1>3, <1>4, <1>5, <1>6, <1>7, <1>8, <1>9 DEF TypeOK, I

\* Every reachable state of files, handles, slots, calls and commands is well
\* typed: no position, inode number or count leaves its range (base_file.c).
THEOREM TypeCorrect == Spec => []TypeOK
<1>1. Sound => TypeOK
  BY SoundTypes
<1>2. QED BY <1>1, SoundAlways, PTL

LEMMA SoundLoops ==
  ASSUME Sound
  PROVE  NothingLeftOut
<1> SUFFICES ASSUME ~dead, LoopDone
             PROVE  CASE job.cmd \in {"cat", "cp"} -> handle[job.src].pos = handle[job.src].inode.size
                      [] job.cmd = "createfile" -> handle[job.src].pos = Len(job.text) \/ free = {}
  BY DEF NothingLeftOut
<1>1. Returned
  BY DEF LoopDone
<1>2. CASE job.cmd = "createfile" /\ job.pc = "last"
  <2>1. Src.pos = Len(job.text) \/ free = {}
    BY <1>1, <1>2, JobIs DEF Creating
  <2>2. QED BY <1>2, <2>1 DEF Src
<1>3. CASE job.cmd = "cat" /\ job.pc = "read" /\ ~CatAgain
  <2>1. Len(call.got) # Buffer
    BY <1>3 DEF CatAgain
  <2>2. Src.pos = Src.inode.size
    BY <1>1, <1>3, <2>1, JobIs DEF Catting, Full
  <2>3. QED BY <1>3, <2>2 DEF Src
<1>4. CASE job.cmd = "cp" /\ job.pc = "read" /\ call.got = << >>
  <2>1. Len(<< >>) = 0
    OBVIOUS
  <2>2. Len(call.got) # Buffer
    BY <1>4, <2>1, Sizes
  <2>3. Src.pos = Src.inode.size
    BY <1>1, <1>4, <2>2, JobIs DEF Copying, Full
  <2>4. QED BY <1>4, <2>3 DEF Src
<1>5. QED BY <1>2, <1>3, <1>4 DEF LoopDone

\* On a device that works cmd_cat and cmd_cp stop only at the end of the file
\* they read, and cmd_createfile writes all it was given unless no block is
\* left.
THEOREM NothingIsLeftOut == Spec => []NothingLeftOut
<1>1. Sound => NothingLeftOut
  BY SoundLoops
<1>2. QED BY <1>1, SoundAlways, PTL

-----------------------------------------------------------------------------
(* Which blocks the files have, and the second invariant.  A file has the  *)
(* blocks that its open handles show, all the same ones, or its inode on   *)
(* disk; once the device has failed only open files count, since the rest  *)
(* of the disk may be older than the free list.                            *)

Agree == \A h, g \in Open : handle[h].file = handle[g].file => handle[h].inode = handle[g].inode
Known == IF dead THEN {f \in Files : OpenOn(f) # {}} ELSE Files
Owned(f) == View(f).blocks

Apart ==
    \A f, g \in Known : \A i \in 1 .. Len(Owned(f)), j \in 1 .. Len(Owned(g)) :
        Owned(f)[i] = Owned(g)[j] => f = g /\ i = j

NotFree ==
    \A f \in Known : \A i \in 1 .. Len(Owned(f)) : Owned(f)[i] \in Blocks \ free

AllTaken ==
    spoiled = {} => \A b \in Blocks \ free : \E f \in Files : \E i \in 1 .. Len(Owned(f)) : Owned(f)[i] = b

Books == Agree /\ Apart /\ NotFree /\ AllTaken

\* What the inode of a file is taken from.
Shown ==
    \A f \in Files :
        /\ OpenOn(f) = {} => View(f) = table[f]
        /\ OpenOn(f) # {} => \E h \in OpenOn(f) : View(f) = handle[h].inode

LEMMA ShownIs == Shown
<1> SUFFICES ASSUME NEW f \in Files
             PROVE  /\ OpenOn(f) = {} => View(f) = table[f]
                    /\ OpenOn(f) # {} => \E h \in OpenOn(f) : View(f) = handle[h].inode
  BY DEF Shown
<1>2. CASE OpenOn(f) = {}
  BY <1>2 DEF View
<1>3. CASE OpenOn(f) # {}
  <2> DEFINE S == OpenOn(f)
  <2>1. S \subseteq Nat /\ S # {}
    BY <1>3, HandlesAssumption DEF OpenOn, Open
  <2> HIDE DEF S
  <2>2. Min(S) \in S
    BY <2>1, LeastIsMin
  <2>3. View(f) = handle[Min(S)].inode
    BY <1>3 DEF View, S
  <2>4. QED BY <1>3, <2>2, <2>3 DEF S
<1>4. QED BY <1>2, <1>3

LEMMA ShownNext == Shown'
BY ShownIs, PTL

LEMMA ViewOpen ==
  ASSUME Agree, NEW f \in Files, NEW h \in Open, handle[h].file = f
  PROVE  View(f) = handle[h].inode /\ OpenOn(f) # {}
<1>1. h \in OpenOn(f)
  BY DEF OpenOn
<1>2. PICK g \in OpenOn(f) : View(f) = handle[g].inode
  BY <1>1, ShownIs DEF Shown
<1>3. g \in Open /\ handle[g].file = f
  BY DEF OpenOn
<1>4. handle[g].inode = handle[h].inode
  BY <1>3 DEF Agree
<1>5. QED BY <1>1, <1>2, <1>4

LEMMA ViewOpenNext ==
  ASSUME Agree', NEW f \in Files, NEW h \in Open', handle'[h].file = f
  PROVE  View(f)' = handle'[h].inode /\ OpenOn(f)' # {}
<1>1. h \in OpenOn(f)'
  BY DEF OpenOn
<1>2. PICK g \in OpenOn(f)' : View(f)' = handle'[g].inode
  BY <1>1, ShownNext DEF Shown
<1>3. g \in Open' /\ handle'[g].file = f
  BY DEF OpenOn
<1>4. handle'[g].inode = handle'[h].inode
  BY <1>3 DEF Agree
<1>5. QED BY <1>1, <1>2, <1>4

LEMMA ViewClosed ==
  ASSUME NEW f \in Files
  PROVE  /\ (\A h \in Open : handle[h].file # f) => View(f) = table[f] /\ OpenOn(f) = {}
         /\ (\A h \in Open' : handle'[h].file # f) => View(f)' = table'[f] /\ OpenOn(f)' = {}
<1>1. ASSUME \A h \in Open : handle[h].file # f PROVE View(f) = table[f] /\ OpenOn(f) = {}
  <2>1. OpenOn(f) = {}
    BY <1>1 DEF OpenOn
  <2>2. QED BY <2>1, ShownIs DEF Shown
<1>2. ASSUME \A h \in Open' : handle'[h].file # f PROVE View(f)' = table'[f] /\ OpenOn(f)' = {}
  <2>1. OpenOn(f)' = {}
    BY <1>2 DEF OpenOn
  <2>2. QED BY <2>1, ShownNext DEF Shown
<1>3. QED BY <1>1, <1>2

\* A step that opens and closes nothing and leaves every inode alone.
LEMMA ViewsStay ==
  ASSUME Agree, Open' = Open, UNCHANGED table,
         \A h \in Open : handle'[h].file = handle[h].file /\ handle'[h].inode = handle[h].inode
  PROVE  Agree' /\ \A f \in Files : View(f)' = View(f) /\ (OpenOn(f)' = {} <=> OpenOn(f) = {})
<1>1. Agree'
  BY DEF Agree
<1>2. ASSUME NEW f \in Files PROVE View(f)' = View(f) /\ (OpenOn(f)' = {} <=> OpenOn(f) = {})
  <2>1. CASE \E h \in Open : handle[h].file = f
    <3>1. PICK h \in Open : handle[h].file = f
      BY <2>1
    <3>2. View(f) = handle[h].inode /\ OpenOn(f) # {}
      BY <3>1, ViewOpen
    <3>3. h \in Open' /\ handle'[h].file = f
      BY <3>1
    <3>4. View(f)' = handle'[h].inode /\ OpenOn(f)' # {}
      BY <1>1, <3>3, ViewOpenNext
    <3>5. QED BY <3>1, <3>2, <3>4
  <2>2. CASE \A h \in Open : handle[h].file # f
    <3>1. \A h \in Open' : handle'[h].file # f
      BY <2>2
    <3>2. View(f) = table[f] /\ OpenOn(f) = {} /\ View(f)' = table'[f] /\ OpenOn(f)' = {}
      BY <2>2, <3>1, ViewClosed
    <3>3. QED BY <3>2
  <2>3. QED BY <2>1, <2>2
<1>3. QED BY <1>1, <1>2

\* A turn of a write or a truncation: nobody else has the file open, or its
\* inode does not change.
LEMMA ViewsTurn ==
  ASSUME Agree, Open' = Open, UNCHANGED table, NEW h \in Open, NEW e \in Files, handle[h].file = e,
         handle'[h].file = e, \A g \in Open \ {h} : handle'[g] = handle[g],
         (OpenOn(e) \ {h} = {}) \/ handle'[h].inode = handle[h].inode
  PROVE  /\ Agree'
         /\ View(e) = handle[h].inode /\ View(e)' = handle'[h].inode
         /\ \A f \in Files \ {e} : View(f)' = View(f)
         /\ \A f \in Files : OpenOn(f)' = {} <=> OpenOn(f) = {}
<1>1. Agree'
  <2>1. ASSUME NEW a \in Open, NEW b \in Open, handle'[a].file = handle'[b].file
        PROVE  handle'[a].inode = handle'[b].inode
    <3>1. handle[a].file = handle[b].file
      BY <2>1
    <3>2. CASE a # h /\ b # h
      BY <3>1, <3>2 DEF Agree
    <3>3. CASE a = h /\ b = h
      BY <3>3
    <3>4. CASE a = h /\ b # h
      <4>1. b \in OpenOn(e) \ {h}
        BY <3>1, <3>4 DEF OpenOn
      <4>2. QED BY <3>1, <3>4, <4>1 DEF Agree
    <3>5. CASE a # h /\ b = h
      <4>1. a \in OpenOn(e) \ {h}
        BY <3>1, <3>5 DEF OpenOn
      <4>2. QED BY <3>1, <3>5, <4>1 DEF Agree
    <3>6. QED BY <3>2, <3>3, <3>4, <3>5
  <2>2. QED BY <2>1 DEF Agree
<1>2. e \in Files /\ handle[h].file = e /\ handle'[h].file = e /\ h \in Open'
  OBVIOUS
<1>3. View(e) = handle[h].inode /\ OpenOn(e) # {}
  BY <1>2, ViewOpen
<1>4. View(e)' = handle'[h].inode /\ OpenOn(e)' # {}
  BY <1>1, <1>2, ViewOpenNext
<1>5. ASSUME NEW f \in Files \ {e} PROVE View(f)' = View(f) /\ (OpenOn(f)' = {} <=> OpenOn(f) = {})
  <2>1. CASE \E g \in Open : handle[g].file = f
    <3>1. PICK g \in Open : handle[g].file = f
      BY <2>1
    <3>2. g # h /\ handle'[g] = handle[g] /\ handle'[g].file = f /\ g \in Open'
      BY <1>2, <1>5, <3>1
    <3>3. View(f) = handle[g].inode /\ OpenOn(f) # {}
      BY <3>1, ViewOpen
    <3>4. View(f)' = handle'[g].inode /\ OpenOn(f)' # {}
      BY <1>1, <3>2, ViewOpenNext
    <3>5. QED BY <3>2, <3>3, <3>4
  <2>2. CASE \A g \in Open : handle[g].file # f
    <3>1. \A g \in Open' : handle'[g].file # f
      BY <1>2, <1>5, <2>2
    <3>2. View(f) = table[f] /\ OpenOn(f) = {} /\ View(f)' = table'[f] /\ OpenOn(f)' = {}
      BY <2>2, <3>1, ViewClosed
    <3>3. QED BY <3>2
  <2>3. QED BY <2>1, <2>2
<1>6. \A f \in Files : OpenOn(f)' = {} <=> OpenOn(f) = {}
  BY <1>3, <1>4, <1>5
<1>7. QED BY <1>1, <1>3, <1>4, <1>5, <1>6

\* An open, of a file that is not open or whose handles show what is on disk.
LEMMA ViewsOpen ==
  ASSUME Agree, NEW f \in Files, NEW x, x \notin Open, Open' = Open \cup {x},
         handle'[x].file = f, \A g \in Open : handle'[g] = handle[g],
         \A g \in OpenOn(f) : handle[g].inode = handle'[x].inode,
         \A g \in Files \ {f} : table'[g] = table[g]
  PROVE  /\ Agree'
         /\ View(f)' = handle'[x].inode /\ (View(f) = handle'[x].inode \/ View(f) = table[f])
         /\ OpenOn(f) # {} => View(f) = handle'[x].inode
         /\ OpenOn(f) = {} => View(f) = table[f]
         /\ \A g \in Files \ {f} : View(g)' = View(g)
<1>1. Agree'
  <2>1. ASSUME NEW a \in Open', NEW b \in Open', handle'[a].file = handle'[b].file
        PROVE  handle'[a].inode = handle'[b].inode
    <3>1. ASSUME NEW g \in Open, handle[g].file = f PROVE handle[g].inode = handle'[x].inode
      BY <3>1 DEF OpenOn
    <3>2. CASE a \in Open /\ b \in Open
      BY <2>1, <3>2 DEF Agree
    <3>3. CASE a = x /\ b \in Open
      BY <2>1, <3>1, <3>3
    <3>4. CASE b = x /\ a \in Open
      BY <2>1, <3>1, <3>4
    <3>5. QED BY <3>2, <3>3, <3>4
  <2>2. QED BY <2>1 DEF Agree
<1>2. View(f)' = handle'[x].inode
  <2>1. x \in Open'
    OBVIOUS
  <2>2. QED BY <1>1, <2>1, ViewOpenNext
<1>3. OpenOn(f) # {} => View(f) = handle'[x].inode
  BY ShownIs DEF Shown
<1>4. OpenOn(f) = {} => View(f) = table[f]
  BY ShownIs DEF Shown
<1>5. ASSUME NEW e \in Files \ {f} PROVE View(e)' = View(e)
  <2>1. CASE \E g \in Open : handle[g].file = e
    <3>1. PICK g \in Open : handle[g].file = e
      BY <2>1
    <3>2. handle'[g] = handle[g] /\ handle'[g].file = e /\ g \in Open'
      BY <3>1
    <3>3. View(e) = handle[g].inode
      BY <3>1, ViewOpen
    <3>4. View(e)' = handle'[g].inode
      BY <1>1, <3>2, ViewOpenNext
    <3>5. QED BY <3>2, <3>3, <3>4
  <2>2. CASE \A g \in Open : handle[g].file # e
    <3>1. \A g \in Open' : handle'[g].file # e
      BY <1>5, <2>2
    <3>2. View(e) = table[e] /\ View(e)' = table'[e]
      BY <2>2, <3>1, ViewClosed
    <3>3. QED BY <1>5, <3>2
  <2>3. QED BY <2>1, <2>2
<1>6. QED BY <1>1, <1>2, <1>3, <1>4, <1>5

\* A close that writes the inode back, or has nothing to write.
LEMMA ViewsClose ==
  ASSUME Agree, NEW h \in Open, NEW e \in Files, handle[h].file = e,
         Open' = Open \ {h}, \A g \in Open' : handle'[g] = handle[g],
         \A g \in Files \ {e} : table'[g] = table[g]
  PROVE  /\ Agree'
         /\ \A f \in Files : OpenOn(f)' # {} => OpenOn(f) # {} /\ View(f)' = View(f)
         /\ table'[e] = handle[h].inode => \A f \in Files : View(f)' = View(f)
<1>1. Agree'
  BY DEF Agree
<1>2. ASSUME NEW f \in Files, OpenOn(f)' # {} PROVE OpenOn(f) # {} /\ View(f)' = View(f)
  <2>1. PICK g \in OpenOn(f)' : TRUE
    BY <1>2
  <2>2. g \in Open' /\ g \in Open /\ handle'[g].file = f /\ handle[g].file = f /\ handle'[g] = handle[g]
    BY DEF OpenOn
  <2>3. View(f) = handle[g].inode /\ OpenOn(f) # {}
    BY <2>2, ViewOpen
  <2>4. View(f)' = handle'[g].inode
    BY <1>1, <2>2, ViewOpenNext
  <2>5. QED BY <2>2, <2>3, <2>4
<1>3. ASSUME table'[e] = handle[h].inode, NEW f \in Files PROVE View(f)' = View(f)
  <2>1. CASE OpenOn(f)' # {}
    BY <1>2, <2>1
  <2>2. CASE OpenOn(f)' = {}
    <3>1. View(f)' = table'[f]
      BY <2>2, ShownNext DEF Shown
    <3>2. \A g \in Open' : handle'[g].file # f
      BY <2>2 DEF OpenOn
    <3>3. CASE f = e
      <4>1. View(f) = handle[h].inode
        BY <3>3, ViewOpen
      <4>2. QED BY <1>3, <3>1, <3>3, <4>1
    <3>4. CASE f # e
      <4>1. \A g \in Open : handle[g].file # f
        BY <3>2, <3>4
      <4>2. View(f) = table[f]
        BY <4>1, ViewClosed
      <4>3. QED BY <3>1, <3>4, <4>2
    <3>5. QED BY <3>3, <3>4
  <2>3. QED BY <2>1, <2>2
<1>4. QED BY <1>1, <1>2, <1>3

\* No file gets or loses a block.
LEMMA BooksStay ==
  ASSUME Books, Agree', Known' \subseteq Known, free' \subseteq free,
         \A f \in Known' : Owned(f)' = Owned(f),
         spoiled' = {} => spoiled = {} /\ free' = free /\ \A f \in Files : Owned(f)' = Owned(f)
  PROVE  Books'
<1>1. Apart'
  BY DEF Books, Apart
<1>2. NotFree'
  BY DEF Books, NotFree
<1>3. AllTaken'
  BY DEF Books, AllTaken
<1>4. QED BY <1>1, <1>2, <1>3 DEF Books

\* A file is cut, and what is cut off is free.
LEMMA BooksCut ==
  ASSUME Books, Agree', ~dead, UNCHANGED dead, NEW e \in Files,
         Len(Owned(e)) \in Nat, Len(Owned(e))' \in Nat, Len(Owned(e))' <= Len(Owned(e)),
         \A i \in 1 .. Len(Owned(e))' : Owned(e)'[i] = Owned(e)[i],
         \A f \in Files \ {e} : Owned(f)' = Owned(f),
         free' = free \cup (Named(View(e)) \ Named(View(e))'),
         spoiled' = {} => spoiled = {}
  PROVE  Books'
<1>1. Known = Files /\ Known' = Files
  BY DEF Known
<1>2. ASSUME NEW f \in Files, NEW i \in 1 .. Len(Owned(f))'
      PROVE  i \in 1 .. Len(Owned(f)) /\ Owned(f)'[i] = Owned(f)[i]
  <2>1. CASE f = e
    BY <1>2, <2>1
  <2>2. CASE f # e
    BY <1>2, <2>2
  <2>3. QED BY <2>1, <2>2
<1>3. Apart'
  BY <1>1, <1>2 DEF Books, Apart
<1>4. NotFree'
  <2>1. ASSUME NEW f \in Files, NEW i \in 1 .. Len(Owned(f))'
        PROVE  Owned(f)'[i] \in Blocks \ free'
    <3>1. i \in 1 .. Len(Owned(f)) /\ Owned(f)'[i] = Owned(f)[i]
      BY <1>2
    <3>2. Owned(f)[i] \in Blocks \ free
      BY <1>1, <3>1 DEF Books, NotFree
    <3>3. CASE f = e
      <4>1. Owned(f)'[i] \in Named(View(e))'
        BY <3>3 DEF Named, Owned
      <4>2. QED BY <3>1, <3>2, <4>1
    <3>4. CASE f # e
      <4>1. Owned(f)[i] \notin Named(View(e))
        <5>1. ASSUME NEW j \in 1 .. Len(Owned(e)), Owned(f)[i] = Owned(e)[j] PROVE FALSE
          BY <1>1, <3>1, <3>4, <5>1 DEF Books, Apart
        <5>2. QED BY <5>1 DEF Named, Owned
      <4>2. QED BY <3>1, <3>2, <4>1
    <3>5. QED BY <3>3, <3>4
  <2>2. QED BY <1>1, <2>1 DEF NotFree
<1>5. AllTaken'
  <2>1. ASSUME spoiled' = {}, NEW b \in Blocks \ free'
        PROVE  \E f \in Files : \E i \in 1 .. Len(Owned(f))' : Owned(f)'[i] = b
    <3>1. b \in Blocks \ free /\ b \notin Named(View(e)) \ Named(View(e))'
      OBVIOUS
    <3>2. PICK f \in Files : \E i \in 1 .. Len(Owned(f)) : Owned(f)[i] = b
      BY <2>1, <3>1 DEF Books, AllTaken
    <3>3. CASE f = e
      <4>1. b \in Named(View(e))
        BY <3>2, <3>3 DEF Named, Owned
      <4>2. b \in Named(View(e))'
        BY <3>1, <4>1
      <4>3. \E i \in 1 .. Len(Owned(e))' : Owned(e)'[i] = b
        BY <4>2 DEF Named, Owned
      <4>4. QED BY <4>3
    <3>4. CASE f # e
      <4>1. Owned(f)' = Owned(f)
        BY <3>4
      <4>2. QED BY <3>2, <4>1
    <3>5. QED BY <3>3, <3>4
  <2>2. QED BY <2>1 DEF AllTaken
<1>6. QED BY <1>3, <1>4, <1>5 DEF Books

\* A file gets a block that was free.
LEMMA BooksGrow ==
  ASSUME Books, Agree', ~dead, UNCHANGED dead, NEW e \in Files, NEW b \in free, free \subseteq Blocks,
         Len(Owned(e)) \in Nat, Len(Owned(e))' = Len(Owned(e)) + 1,
         \A i \in 1 .. Len(Owned(e)) : Owned(e)'[i] = Owned(e)[i],
         Owned(e)'[Len(Owned(e)) + 1] = b,
         \A f \in Files \ {e} : Owned(f)' = Owned(f),
         free' = free \ {b},
         spoiled' = {} => spoiled = {}
  PROVE  Books'
<1>1. Known = Files /\ Known' = Files
  BY DEF Known
<1>2. ASSUME NEW f \in Files, NEW i \in 1 .. Len(Owned(f))'
      PROVE  \/ i \in 1 .. Len(Owned(f)) /\ Owned(f)'[i] = Owned(f)[i] /\ Owned(f)'[i] \in Blocks \ free
             \/ f = e /\ i = Len(Owned(e)) + 1 /\ Owned(f)'[i] = b
  <2>1. CASE i \in 1 .. Len(Owned(f))
    <3>1. Owned(f)'[i] = Owned(f)[i]
      <4>1. CASE f = e
        BY <2>1, <4>1
      <4>2. CASE f # e
        BY <4>2
      <4>3. QED BY <4>1, <4>2
    <3>2. Owned(f)[i] \in Blocks \ free
      BY <1>1, <2>1 DEF Books, NotFree
    <3>3. QED BY <2>1, <3>1, <3>2
  <2>2. CASE i \notin 1 .. Len(Owned(f))
    <3>1. f = e
      BY <2>2
    <3>2. i = Len(Owned(e)) + 1
      <4>1. Len(Owned(e))' = Len(Owned(e)) + 1 /\ i \in 1 .. Len(Owned(e))'
        BY <3>1
      <4>2. QED BY <2>2, <3>1, <4>1
    <3>3. QED BY <3>1, <3>2
  <2>3. QED BY <2>1, <2>2
<1>3. Apart'
  <2>1. ASSUME NEW f \in Files, NEW g \in Files,
               NEW i \in 1 .. Len(Owned(f))', NEW j \in 1 .. Len(Owned(g))', Owned(f)'[i] = Owned(g)'[j]
        PROVE  f = g /\ i = j
    <3>1. \/ i \in 1 .. Len(Owned(f)) /\ Owned(f)'[i] = Owned(f)[i] /\ Owned(f)'[i] \in Blocks \ free
          \/ f = e /\ i = Len(Owned(e)) + 1 /\ Owned(f)'[i] = b
      BY <1>2
    <3>2. \/ j \in 1 .. Len(Owned(g)) /\ Owned(g)'[j] = Owned(g)[j] /\ Owned(g)'[j] \in Blocks \ free
          \/ g = e /\ j = Len(Owned(e)) + 1 /\ Owned(g)'[j] = b
      BY <1>2
    <3>3. QED BY <1>1, <2>1, <3>1, <3>2 DEF Books, Apart
  <2>2. QED BY <1>1, <2>1 DEF Apart
<1>4. NotFree'
  <2>1. ASSUME NEW f \in Files, NEW i \in 1 .. Len(Owned(f))'
        PROVE  Owned(f)'[i] \in Blocks \ free'
    BY <1>2
  <2>2. QED BY <1>1, <2>1 DEF NotFree
<1>5. AllTaken'
  <2>1. ASSUME spoiled' = {}, NEW x \in Blocks \ free'
        PROVE  \E f \in Files : \E i \in 1 .. Len(Owned(f))' : Owned(f)'[i] = x
    <3>1. CASE x = b
      <4>1. Len(Owned(e)) + 1 \in 1 .. Len(Owned(e))'
        OBVIOUS
      <4>2. QED BY <3>1, <4>1
    <3>2. CASE x # b
      <4>1. PICK f \in Files : \E i \in 1 .. Len(Owned(f)) : Owned(f)[i] = x
        BY <2>1, <3>2 DEF Books, AllTaken
      <4>2. PICK i \in 1 .. Len(Owned(f)) : Owned(f)[i] = x
        BY <4>1
      <4>3. i \in 1 .. Len(Owned(f))' /\ Owned(f)'[i] = Owned(f)[i]
        <5>1. CASE f = e
          BY <5>1
        <5>2. CASE f # e
          <6>1. Owned(f)' = Owned(f)
            BY <5>2
          <6>2. QED BY <6>1
        <5>3. QED BY <5>1, <5>2
      <4>4. QED BY <4>2, <4>3
    <3>3. QED BY <3>1, <3>2
  <2>2. QED BY <2>1 DEF AllTaken
<1>6. QED BY <1>3, <1>4, <1>5 DEF Books

\* What a file has, in a state with books.
LEMMA OwnedOnce ==
  ASSUME Books, NEW f \in Known
  PROVE  Once(View(f)) /\ \A i \in 1 .. Len(View(f).blocks) : View(f).blocks[i] \in Blocks \ free
BY DEF Books, Apart, NotFree, Owned, Once

\* The blocks of a file are as many as its size asks for.
LEMMA ViewFits ==
  ASSUME Store, Agree, NEW f \in Files
  PROVE  /\ View(f) \in Inodes \cup {NoInode}
         /\ Exists(f) => View(f) \in Inodes /\ Fit(View(f))
         /\ ~Exists(f) => View(f) = NoInode
<1>1. CASE \E h \in Open : handle[h].file = f
  <2>1. PICK h \in Open : handle[h].file = f
    BY <1>1
  <2>2. View(f) = handle[h].inode
    BY <2>1, ViewOpen
  <2>3. handle[h].inode \in Inodes /\ Fit(handle[h].inode) /\ Exists(f)
    BY <2>1, OpenedIs
  <2>4. QED BY <2>2, <2>3
<1>2. CASE \A h \in Open : handle[h].file # f
  <2>1. View(f) = table[f]
    BY <1>2, ViewClosed
  <2>2. table[f] \in Inodes \cup {NoInode}
    BY DEF Store
  <2>3. QED BY <2>1, <2>2, FitIs DEF Exists
<1>3. QED BY <1>1, <1>2

\* Steps after which every handle has the inode it had.
LEMMA BooksStill ==
  ASSUME Books, Open' = Open, UNCHANGED table, free' \subseteq free,
         \A h \in Open : handle'[h].file = handle[h].file /\ handle'[h].inode = handle[h].inode,
         dead \in BOOLEAN, dead' \in BOOLEAN, dead => dead',
         spoiled' = {} => spoiled = {} /\ free' = free
  PROVE  Books'
<1>1. Agree' /\ \A f \in Files : View(f)' = View(f) /\ (OpenOn(f)' = {} <=> OpenOn(f) = {})
  BY ViewsStay DEF Books
<1>2. \A f \in Files : Owned(f)' = Owned(f)
  BY <1>1 DEF Owned
<1>3. Known' \subseteq Known /\ Known' \subseteq Files
  BY <1>1 DEF Known
<1>4. QED BY <1>1, <1>2, <1>3, BooksStay

LEMMA HandlesStill ==
  ASSUME Books, UNCHANGED <<table, handle, free, dead>>, dead \in BOOLEAN, spoiled' = {} => spoiled = {}
  PROVE  Books'
<1>1. Open' = Open
  BY DEF Open, Closed, NoInode
<1>2. \A h \in Open : handle'[h].file = handle[h].file /\ handle'[h].inode = handle[h].inode
  OBVIOUS
<1>3. free' \subseteq free /\ dead' \in BOOLEAN
  OBVIOUS
<1>4. QED BY <1>1, <1>2, <1>3, BooksStill

LEMMA BooksOpen ==
  ASSUME Store, Room, Books, NEW f \in Files, OpenInto(f), UNCHANGED <<data, free, dead>>,
         Cardinality(Open) < Cardinality(Handles), "stale" \notin spoiled'
  PROVE  /\ Books' /\ spoiled' = spoiled
         /\ \A g \in OpenOn(f) : handle[g].inode = Held(f)
         /\ View(f)' = Held(f) /\ (Exists(f) => View(f) = Held(f))
         /\ \A g \in Files \ {f} : View(g)' = View(g)
<1> DEFINE S == {g \in OpenOn(f) : handle[g].inode # Held(f)}
           T == {"stale" : h \in S}
<1>1. /\ ~dead /\ New \in Handles /\ New \notin Open /\ Open' = Open \cup {New}
      /\ handle'[New] = [file |-> f, inode |-> Held(f), pos |-> 0]
      /\ \A h \in Handles \ {New} : handle'[h] = handle[h]
      /\ table'[f] = Held(f) /\ \A g \in Files \ {f} : table'[g] = table[g]
      /\ spoiled' = spoiled \cup T
  BY OpenIntoDoes
<1>2. S = {}
  <2>1. ASSUME NEW x \in S PROVE "stale" \in T
    BY <2>1
  <2> HIDE DEF S, T
  <2>2. QED BY <1>1, <2>1
<1>3. spoiled' = spoiled
  <2>1. T = {}
    BY <1>2
  <2>2. QED BY <1>1, <2>1
<1>4. \A g \in OpenOn(f) : handle[g].inode = Held(f)
  BY <1>2
<1> HIDE DEF S, T
<1> DEFINE x == New
<1>5. handle'[x].file = f /\ handle'[x].inode = Held(f)
  BY <1>1
<1> HIDE DEF x
<1>6. /\ x \notin Open /\ Open' = Open \cup {x} /\ \A g \in Open : handle'[g] = handle[g]
      /\ \A g \in OpenOn(f) : handle[g].inode = handle'[x].inode
  BY <1>1, <1>4, <1>5 DEF x, Open
<1>7. /\ Agree' /\ View(f)' = Held(f)
      /\ OpenOn(f) # {} => View(f) = Held(f)
      /\ OpenOn(f) = {} => View(f) = table[f]
      /\ \A g \in Files \ {f} : View(g)' = View(g)
  <2>1. /\ Agree' /\ View(f)' = handle'[x].inode
        /\ OpenOn(f) # {} => View(f) = handle'[x].inode
        /\ OpenOn(f) = {} => View(f) = table[f]
        /\ \A g \in Files \ {f} : View(g)' = View(g)
    BY <1>1, <1>5, <1>6, ViewsOpen DEF Books
  <2>2. QED BY <1>5, <2>1
<1>8. Exists(f) => View(f) = Held(f)
  <2>1. Exists(f) => Held(f) = table[f]
    BY DEF Held
  <2>2. QED BY <1>7, <2>1
<1>9. Owned(f)' = Owned(f)
  <2>1. CASE Exists(f)
    BY <1>7, <1>8, <2>1 DEF Owned
  <2>2. CASE ~Exists(f)
    <3>1. Held(f).blocks = << >> /\ View(f) = NoInode
      BY <2>2, HeldIs, ViewFits DEF Books
    <3>2. QED BY <1>7, <3>1 DEF Owned, NoInode
  <2>3. QED BY <2>1, <2>2
<1>10. \A g \in Files : Owned(g)' = Owned(g)
  <2>1. \A g \in Files \ {f} : Owned(g)' = Owned(g)
    BY <1>7 DEF Owned
  <2>2. QED BY <1>9, <2>1
<1>11. Known = Files /\ Known' = Files
  BY <1>1 DEF Known
<1>12. Books'
  BY <1>3, <1>7, <1>10, <1>11, BooksStay
<1>13. QED BY <1>3, <1>4, <1>7, <1>8, <1>12

LEMMA BooksClose ==
  ASSUME Marks, Books, NEW h \in Open, NEW e \in Files, handle[h].file = e, Open' = Open \ {h},
         \A g \in Open' : handle'[g] = handle[g], UNCHANGED <<free, dead, spoiled>>,
         \A g \in Files \ {e} : table'[g] = table[g],
         dead \/ table'[e] = handle[h].inode
  PROVE  Books' /\ (~dead => \A f \in Files : View(f)' = View(f))
<1>1. /\ Agree'
      /\ \A f \in Files : OpenOn(f)' # {} => OpenOn(f) # {} /\ View(f)' = View(f)
      /\ table'[e] = handle[h].inode => \A f \in Files : View(f)' = View(f)
  BY ViewsClose DEF Books
<1>2. CASE dead
  <2>1. Known = {f \in Files : OpenOn(f) # {}} /\ Known' = {f \in Files : OpenOn(f)' # {}}
    BY <1>2 DEF Known
  <2>2. Known' \subseteq Known /\ \A f \in Known' : View(f)' = View(f)
    BY <1>1, <2>1
  <2>3. \A f \in Known' : Owned(f)' = Owned(f)
    BY <2>2 DEF Owned
  <2>4. spoiled' # {}
    BY <1>2 DEF Marks
  <2>5. Books'
    BY <1>1, <2>2, <2>3, <2>4, BooksStay
  <2>6. QED BY <1>2, <2>5
<1>3. CASE ~dead
  <2>1. \A f \in Files : View(f)' = View(f)
    BY <1>1, <1>3
  <2>2. \A f \in Files : Owned(f)' = Owned(f)
    BY <2>1 DEF Owned
  <2>3. Known = Files /\ Known' = Files
    BY <1>3 DEF Known
  <2>4. Books'
    BY <1>1, <2>2, <2>3, BooksStay
  <2>5. QED BY <2>1, <2>4
<1>4. QED BY <1>2, <1>3

LEMMA BooksCloseSlot ==
  ASSUME Sound, Books, NEW h \in Open, CloseSlot(h), UNCHANGED <<data, free, dead, spoiled>>
  PROVE  Books' /\ (~dead => \A f \in Files : View(f)' = View(f))
<1>1. Store /\ Room /\ Marks /\ dead \in BOOLEAN
  BY DEF Sound, Marks
<1>2. PICK e \in Files : e = handle[h].file
  BY <1>1, OpenedIs
<1>3. /\ Open' = Open \ {h} /\ \A g \in Handles \ {h} : handle'[g] = handle[g]
      /\ dead => UNCHANGED table
      /\ ~dead => /\ table'[handle[h].file] = handle[h].inode
                  /\ \A g \in Files \ {handle[h].file} : table'[g] = table[g]
  BY <1>1, CloseSlotDoes
<1>4. \A g \in Open' : handle'[g] = handle[g]
  BY <1>3 DEF Open
<1>5. \A g \in Files \ {e} : table'[g] = table[g]
  BY <1>2, <1>3
<1>6. dead \/ table'[e] = handle[h].inode
  BY <1>2, <1>3
<1>7. QED BY <1>1, <1>2, <1>3, <1>4, <1>5, <1>6, BooksClose

\* A handle is forgotten that shows what is on disk.
LEMMA BooksForget ==
  ASSUME Sound, Books, NEW h \in Open, handle[h].inode = table[handle[h].file],
         Forget(h), UNCHANGED <<table, data, free, slots, dead, spoiled>>
  PROVE  Books' /\ (~dead => \A f \in Files : View(f)' = View(f))
<1>1. Store /\ Room /\ Marks
  BY DEF Sound
<1>2. PICK e \in Files : e = handle[h].file
  BY <1>1, OpenedIs
<1>3. Open' = Open \ {h} /\ \A g \in Handles \ {h} : handle'[g] = handle[g]
  BY <1>1, ForgetDoes
<1>4. \A g \in Open' : handle'[g] = handle[g]
  BY <1>3 DEF Open
<1>5. \A g \in Files \ {e} : table'[g] = table[g]
  OBVIOUS
<1>6. table'[e] = handle[h].inode
  BY <1>2
<1>7. QED BY <1>1, <1>2, <1>3, <1>4, <1>5, <1>6, BooksClose

LEMMA BooksFtruncate ==
  ASSUME Sound, Books, NEW h \in Handles, NEW size \in 0 .. MaxSize, Ftruncate(h, size), Calm'
  PROVE  Books'
<1> DEFINE n == handle[h].inode
           S == OpenOn(handle[h].file) \ {h}
           T == {"stale" : g \in S}
           B == IF handle[h].pos > size THEN {"beyond"} ELSE {}
<1>1. Store /\ Room
  BY DEF Sound
<1>2. /\ Open' = Open /\ h \in Open /\ size < n.size
      /\ handle'[h] = [file |-> handle[h].file, inode |-> Cut(n, size), pos |-> handle[h].pos]
      /\ \A g \in Handles \ {h} : handle'[g] = handle[g]
      /\ free' = free \cup Freed(n, size)
      /\ spoiled' = (spoiled \cup T) \cup B
  BY <1>1, FtruncateDoes
<1>3. UNCHANGED <<table, dead>> /\ ~dead
  BY DEF Ftruncate, Ready
<1>4. S = {}
  <2>1. ASSUME NEW x \in S PROVE "stale" \in T
    BY <2>1
  <2> HIDE DEF S, T, B
  <2>2. QED BY <1>2, <2>1 DEF Calm
<1>5. PICK e \in Files : e = handle[h].file
  BY <1>1, <1>2, OpenedIs
<1>6. Fit(n) /\ size \in Nat
  <2>1. Fit(n)
    BY <1>1, <1>2, OpenedIs
  <2>2. size \in Nat
    BY Sizes
  <2>3. QED BY <2>1, <2>2
<1> DEFINE m == Cut(n, size)
<1>7. /\ Fit(m) /\ Len(m.blocks) <= Len(n.blocks)
      /\ \A i \in 1 .. Len(m.blocks) : m.blocks[i] = n.blocks[i]
      /\ Freed(n, size) = Named(n) \ Named(m)
  <2> HIDE DEF n
  <2>1. QED BY <1>2, <1>6, CutIs
<1>8. handle'[h].file = e /\ handle'[h].inode = m /\ handle[h].file = e
  BY <1>2, <1>5
<1>9. Len(m.blocks) \in Nat /\ Len(n.blocks) \in Nat
  <2> HIDE DEF m, n
  <2>1. QED BY <1>6, <1>7, InodeFacts
<1> HIDE DEF m, n, T, B
<1>10. OpenOn(e) \ {h} = {} /\ \A g \in Open \ {h} : handle'[g] = handle[g]
  BY <1>2, <1>4, <1>5 DEF Open
<1>11. /\ Agree' /\ View(e) = handle[h].inode /\ View(e)' = handle'[h].inode
       /\ \A f \in Files \ {e} : View(f)' = View(f)
  BY <1>2, <1>3, <1>8, <1>10, ViewsTurn DEF Books
<1>12. View(e) = n /\ View(e)' = m
  BY <1>8, <1>11 DEF n
<1>13. /\ Len(Owned(e)) \in Nat /\ Len(Owned(e))' \in Nat /\ Len(Owned(e))' <= Len(Owned(e))
       /\ \A i \in 1 .. Len(Owned(e))' : Owned(e)'[i] = Owned(e)[i]
       /\ \A f \in Files \ {e} : Owned(f)' = Owned(f)
  BY <1>7, <1>9, <1>11, <1>12 DEF Owned
<1>14. free' = free \cup (Named(View(e)) \ Named(View(e))')
  <2>1. Named(View(e))' = Named(m)
    BY <1>12 DEF Named
  <2>2. QED BY <1>2, <1>7, <1>12, <2>1
<1>15. spoiled' = {} => spoiled = {}
  BY <1>2
<1>16. QED BY <1>3, <1>11, <1>13, <1>14, <1>15, BooksCut

\* A turn within the file leaves the inode as it is.
LEMMA GrownSame ==
  ASSUME NEW n, Fit(n), NEW pos \in Nat, NEW l \in Nat \ {0}, pos + l <= n.size, NEW b
  PROVE  Grown(n, pos, l, b) = n /\ ~Grows(n, pos)
<1>1. n.size \in Nat /\ n = [size |-> n.size, blocks |-> n.blocks]
  BY InodeFacts
<1>2. pos \in 0 .. n.size /\ pos # n.size
  BY <1>1
<1>3. ~Grows(n, pos)
  BY <1>2, GrowsWhen
<1>4. (IF n.size <= pos + l THEN pos + l ELSE n.size) = n.size
  BY <1>1
<1>5. QED BY <1>1, <1>3, <1>4 DEF Grown

\* What a turn of a write does when nobody is left with an old inode.
LEMMA CalmTurn ==
  ASSUME Sound, WriteTurn, "stale" \notin spoiled'
  PROVE  LET h == call.h
             n == Here.inode
             b == Min(free)
             m == Grown(n, Here.pos, Chunk, b)
         IN  /\ h \in Open /\ handle[h].file = Here.file /\ Here.file \in Files
             /\ handle'[h].file = Here.file /\ handle'[h].inode = m
             /\ \A g \in Open \ {h} : handle'[g] = handle[g]
             /\ Fit(n) /\ Fit(m) /\ spoiled' = spoiled
             /\ Here.pos \in 0 .. n.size /\ Chunk \in Nat \ {0}
             /\ (OpenOn(Here.file) \ {h} = {}) \/ m = n
             /\ Grows(n, Here.pos) =>
                   /\ b \in free /\ Spot = b
                   /\ Len(m.blocks) = Len(n.blocks) + 1 /\ m.blocks[Len(n.blocks) + 1] = b
                   /\ \A k \in 1 .. Len(n.blocks) : m.blocks[k] = n.blocks[k]
             /\ ~Grows(n, Here.pos) =>
                   /\ m.blocks = n.blocks
                   /\ BlockNo + 1 \in 1 .. Len(n.blocks) /\ Spot = n.blocks[BlockNo + 1]
<1> DEFINE h == call.h
           n == Here.inode
           pos == Here.pos
           b == Min(free)
           c == Chunk
           m == Grown(n, pos, c, b)
           S == {x \in OpenOn(Here.file) \ {h} : pos + c > n.size}
           T == {"stale" : g \in S}
<1>1. /\ call.op = "write" /\ call.rest # << >>
      /\ Grows(n, pos) => free # {}
      /\ c \in 1 .. Len(call.rest) /\ pos + c <= MaxSize
      /\ handle'[h] = [file |-> Here.file, inode |-> m, pos |-> pos + c]
      /\ \A g \in Handles \ {h} : handle'[g] = handle[g]
      /\ spoiled' = spoiled \cup T
  BY WritesDoes
<1>2. /\ h \in Open /\ call.rest \in Seq(Values) /\ pos \in Nat /\ pos <= n.size
  BY <1>1, WriterIs
<1>3. handle[h].file = Here.file /\ Here.file \in Files /\ Fit(n) /\ Store
  BY <1>2, OpenedIs DEF Sound, Here
<1>4. Chunk \in Nat \ {0}
  <2>1. Len(call.rest) \in Nat
    BY <1>2, LenProperties
  <2>2. QED BY <1>1, <2>1
<1>5. n.size \in Nat
  <2> HIDE DEF n
  <2>1. QED BY <1>3, InodeFacts
<1>6. S = {} /\ spoiled' = spoiled
  <2>1. ASSUME NEW x \in S PROVE "stale" \in T
    BY <2>1
  <2>2. S = {} => T = {}
    OBVIOUS
  <2> HIDE DEF S, T
  <2>3. QED BY <1>1, <2>1, <2>2
<1>7. (OpenOn(Here.file) \ {h} = {}) \/ m = n
  <2>1. CASE pos + c <= n.size
    <3> HIDE DEF n, pos, b, c
    <3>1. c \in Nat \ {0}
      BY <1>4 DEF c
    <3>2. m = n
      BY <1>2, <1>3, <2>1, <3>1, GrownSame
    <3>3. QED BY <3>2
  <2>2. CASE pos + c > n.size
    BY <1>6, <2>2
  <2>3. QED BY <1>2, <1>4, <1>5, <2>1, <2>2
<1>8. /\ Grows(n, pos) => b \in free /\ Spot = b /\ b \in Blocks
      /\ ~Grows(n, pos) => BlockNo + 1 \in 1 .. Len(n.blocks) /\ Spot = n.blocks[BlockNo + 1]
  <2>1. /\ Grows(n, pos) => b \in free /\ Spot = b
        /\ ~Grows(n, pos) => BlockNo + 1 \in 1 .. Len(n.blocks) /\ Spot = n.blocks[BlockNo + 1]
    BY <1>1, <1>2, <1>3, SpotIs
  <2>2. QED BY <1>3, <2>1 DEF Store
<1>9. (pos % BlockBytes) + c <= BlockBytes
  BY <1>1, <1>2, ChunkIs DEF Offset
<1>10. pos \in 0 .. n.size
  BY <1>2, <1>5
<1>11. /\ Fit(m)
       /\ Grows(n, pos) => Len(m.blocks) = Len(n.blocks) + 1 /\ m.blocks[Len(n.blocks) + 1] = b
       /\ ~Grows(n, pos) => m.blocks = n.blocks
       /\ \A k \in 1 .. Len(n.blocks) : m.blocks[k] = n.blocks[k]
  <2>1. c \in Nat \ {0}
    BY <1>4
  <2> HIDE DEF n, pos, b, c
  <2>2. QED BY <1>1, <1>3, <1>8, <1>9, <1>10, <2>1, GrownFits
<1>12. /\ handle'[h].file = Here.file /\ handle'[h].inode = m
       /\ \A g \in Open \ {h} : handle'[g] = handle[g]
  BY <1>1 DEF Open
<1> HIDE DEF h, m, n, pos, b, c, S, T
<1>13. QED BY <1>2, <1>3, <1>4, <1>6, <1>7, <1>8, <1>10, <1>11, <1>12 DEF h, n, m, pos, b, c

LEMMA BooksWriteTurn ==
  ASSUME Sound, Books, WriteTurn, Calm'
  PROVE  Books'
<1> DEFINE h == call.h
           n == Here.inode
           b == Min(free)
           m == Grown(n, Here.pos, Chunk, b)
<1>1. /\ h \in Open /\ handle[h].file = Here.file /\ Here.file \in Files
      /\ handle'[h].file = Here.file /\ handle'[h].inode = m /\ handle[h].inode = n
      /\ \A g \in Open \ {h} : handle'[g] = handle[g]
      /\ Fit(n) /\ Fit(m) /\ spoiled' = spoiled
      /\ (OpenOn(Here.file) \ {h} = {}) \/ m = n
      /\ Grows(n, Here.pos) =>
            /\ b \in free /\ Spot = b
            /\ Len(m.blocks) = Len(n.blocks) + 1 /\ m.blocks[Len(n.blocks) + 1] = b
            /\ \A k \in 1 .. Len(n.blocks) : m.blocks[k] = n.blocks[k]
      /\ ~Grows(n, Here.pos) =>
            /\ m.blocks = n.blocks
            /\ BlockNo + 1 \in 1 .. Len(n.blocks) /\ Spot = n.blocks[BlockNo + 1]
  <2>1. "stale" \notin spoiled'
    BY DEF Calm
  <2>2. QED BY <2>1, CalmTurn DEF Here
<1>2. /\ ~dead /\ Open' = Open /\ free' = free \ {Spot} /\ UNCHANGED <<table, dead>>
  BY WritesDoes
<1>3. free \subseteq Blocks
  BY DEF Sound, Store
<1>4. PICK e \in Files : e = Here.file
  BY <1>1
<1>5. Len(n.blocks) \in Nat
  <2> HIDE DEF n
  <2>1. QED BY <1>1, InodeFacts
<1> HIDE DEF h, n, m, b
<1>6. /\ Agree' /\ View(e) = handle[h].inode /\ View(e)' = handle'[h].inode
      /\ \A f \in Files \ {e} : View(f)' = View(f)
  <2>1. handle[h].file = e /\ handle'[h].file = e
    BY <1>1, <1>4
  <2>2. (OpenOn(e) \ {h} = {}) \/ handle'[h].inode = handle[h].inode
    BY <1>1, <1>4
  <2>3. QED BY <1>1, <1>2, <2>1, <2>2, ViewsTurn DEF Books
<1>7. View(e) = n /\ View(e)' = m
  BY <1>1, <1>6
<1>8. \A f \in Files \ {e} : Owned(f)' = Owned(f)
  BY <1>6 DEF Owned
<1>9. Owned(e) = n.blocks /\ Owned(e)' = m.blocks
  BY <1>7 DEF Owned
<1>10. CASE Grows(n, Here.pos)
  <2>1. /\ b \in free /\ free' = free \ {b}
        /\ Len(m.blocks) = Len(n.blocks) + 1 /\ m.blocks[Len(n.blocks) + 1] = b
        /\ \A k \in 1 .. Len(n.blocks) : m.blocks[k] = n.blocks[k]
    BY <1>1, <1>2, <1>10
  <2>2. PICK x \in free : x = b
    BY <2>1
  <2>3. /\ Len(Owned(e)) \in Nat /\ Len(Owned(e))' = Len(Owned(e)) + 1
        /\ \A i \in 1 .. Len(Owned(e)) : Owned(e)'[i] = Owned(e)[i]
        /\ Owned(e)'[Len(Owned(e)) + 1] = x
        /\ free' = free \ {x} /\ (spoiled' = {} => spoiled = {})
    BY <1>1, <1>5, <1>9, <2>1, <2>2
  <2>4. QED BY <1>2, <1>3, <1>6, <1>8, <2>3, BooksGrow
<1>11. CASE ~Grows(n, Here.pos)
  <2>1. Owned(e)' = Owned(e)
    BY <1>1, <1>9, <1>11
  <2>2. \A f \in Files : Owned(f)' = Owned(f)
    BY <1>8, <2>1
  <2>3. Known = Files /\ Known' = Files
    BY <1>2 DEF Known
  <2>4. Spot \notin free
    <3>1. BlockNo + 1 \in 1 .. Len(View(e).blocks) /\ Spot = View(e).blocks[BlockNo + 1]
      BY <1>1, <1>7, <1>11
    <3>2. e \in Known
      BY <2>3
    <3>3. QED BY <3>1, <3>2, OwnedOnce
  <2>5. free' = free
    BY <1>2, <2>4
  <2>6. QED BY <1>1, <1>6, <2>2, <2>3, <2>5, BooksStay
<1>12. QED BY <1>10, <1>11

\* Any other step of a call: the device may have failed.
LEMMA BooksCall ==
  ASSUME Sound, Sound', Books, UNCHANGED <<table, handle>>, free' \subseteq free,
         dead' \/ (spoiled' = spoiled /\ free' = free),
         dead => dead'
  PROVE  Books'
<1>1. dead \in BOOLEAN /\ dead' \in BOOLEAN /\ (dead' => spoiled' # {})
  BY DEF Sound, Marks
<1>2. Open' = Open
  BY DEF Open, Closed, NoInode
<1>3. \A h \in Open : handle'[h].file = handle[h].file /\ handle'[h].inode = handle[h].inode
  OBVIOUS
<1>4. QED BY <1>1, <1>2, <1>3, BooksStill

BooksOK == Calm => Books

LEMMA BooksTurn ==
  ASSUME Sound, Sound', BooksOK, Turn, Calm'
  PROVE  Books'
<1>0. Store /\ Room /\ Marks /\ dead \in BOOLEAN /\ "stale" \notin spoiled' /\ "wild" \notin spoiled' /\ "aborted" \notin spoiled'
  BY DEF Sound, Marks, Calm
<1>1. ASSUME Reads PROVE Books'
  <2>1. Calm /\ Books
    BY <1>1 DEF Reads, Calm, BooksOK
  <2>2. /\ Open' = Open
        /\ handle'[call.h] = [file |-> Here.file, inode |-> Here.inode, pos |-> Here.pos + ReadSize]
        /\ \A g \in Handles \ {call.h} : handle'[g] = handle[g]
    BY <1>1, ReadsDoes
  <2>3. \A h \in Open : handle'[h].file = handle[h].file /\ handle'[h].inode = handle[h].inode
    BY <2>2 DEF Open, Here
  <2>4. UNCHANGED <<table, free, dead, spoiled>>
    BY <1>1 DEF Reads
  <2>5. dead' \in BOOLEAN /\ free' \subseteq free
    BY <1>0, <2>4
  <2>6. QED BY <1>0, <2>1, <2>2, <2>3, <2>4, <2>5, BooksStill
<1>2. ASSUME Fail, UNCHANGED <<table, handle>>, free' \subseteq free PROVE Books'
  <2>1. dead' = TRUE /\ spoiled' = spoiled \cup {"failed"}
    BY <1>2 DEF Fail, Note
  <2>2. Books
    BY <2>1 DEF Calm, BooksOK
  <2>3. QED BY <1>2, <2>1, <2>2, BooksCall
<1>3. ReadTurn => Books'
  BY <1>1, <1>2, ReadTurnIs
<1>4. ASSUME UNCHANGED <<table, free, handle, dead, spoiled>> PROVE Books'
  <2>1. Books
    BY <1>4 DEF Calm, BooksOK
  <2>2. QED BY <1>0, <1>4, <2>1, HandlesStill
<1>5. WriteTurn => Books'
  <2>1. SUFFICES ASSUME WriteTurn PROVE Books'
    OBVIOUS
  <2>2. spoiled \subseteq spoiled'
    BY <2>1, WritesDoes
  <2>3. Books
    BY <2>2 DEF Calm, BooksOK
  <2>4. QED BY <2>1, <2>3, BooksWriteTurn
<1>6. WriteRefused \/ Return => Books'
  BY <1>4 DEF WriteRefused, Return
<1>7. WriteFails => Books'
  <2>1. SUFFICES ASSUME WriteFails PROVE Books'
    OBVIOUS
  <2>2. Fail /\ UNCHANGED <<table, handle>> /\ free' \subseteq free
    BY <2>1 DEF WriteFails
  <2>3. QED BY <1>2, <2>2
<1>8. CreateFileWrite \/ CatRead \/ CopyRead \/ CopyWrite \/ ListRead => Books'
  BY <1>4 DEF CreateFileWrite, CatRead, CopyRead, CopyWrite, ListRead, JobCall
<1>9. ASSUME NEW f \in Files, OpenInto(f), UNCHANGED <<data, free, dead>>,
             Cardinality(Open) < Cardinality(Handles)
      PROVE  Books'
  <2>1. spoiled \subseteq spoiled'
    BY <1>9 DEF OpenInto, Note
  <2>2. Books
    BY <2>1 DEF Calm, BooksOK
  <2>3. QED BY <1>0, <1>9, <2>2, BooksOpen
<1>10. CatOpen => Books'
  <2>1. SUFFICES ASSUME CatOpen PROVE Books'
    OBVIOUS
  <2>2. job.cmd = "cat" /\ job.pc = "stat" /\ UNCHANGED <<data, free, dead>>
    BY <2>1 DEF CatOpen
  <2>3. Open = {} /\ job.text[1] \in Files
    BY <2>2, JobIs DEF Catting
  <2>4. Cardinality(Open) < Cardinality(Handles)
    BY <2>3, OpenIsFinite, FS_EmptySet
  <2>5. "wild" \in spoiled' \/ OpenInto(job.text[1])
    BY <2>1 DEF CatOpen, GoWild, Note
  <2>6. QED BY <1>0, <1>9, <2>2, <2>3, <2>4, <2>5
<1>11. CopyOpen => Books'
  <2>1. SUFFICES ASSUME CopyOpen PROVE Books'
    OBVIOUS
  <2>2. job.cmd = "cp" /\ job.pc = "source" /\ UNCHANGED <<data, free, dead>>
    BY <2>1 DEF CopyOpen
  <2>3. Open = {job.src} /\ job.text[1] \in Files /\ Src.inode = table[Src.file]
    BY <2>2, JobIs DEF Copying
  <2>4. Cardinality(Open) < Cardinality(Handles)
    <3>1. Cardinality(Open) = 1
      BY <2>3, FS_Singleton
    <3>2. QED BY <3>1, OpenIsFinite
  <2>5. OpenInto(job.text[1]) \/ (Forget(job.src) /\ UNCHANGED <<table, slots, spoiled>>)
    BY <2>1 DEF CopyOpen
  <2>6. CASE Forget(job.src) /\ UNCHANGED <<table, slots, spoiled>>
    <3> DEFINE h == job.src
    <3>1. h \in Open /\ handle[h].inode = table[handle[h].file] /\ Forget(h)
      BY <2>3, <2>6 DEF Src
    <3> HIDE DEF h
    <3>2. Books
      BY <2>6 DEF Calm, BooksOK
    <3>3. QED BY <2>2, <2>6, <3>1, <3>2, BooksForget
  <2>7. QED BY <1>9, <2>2, <2>3, <2>4, <2>5, <2>6
<1>12. ListAborts => Books'
  <2>1. SUFFICES ASSUME ListAborts PROVE Books'
    OBVIOUS
  <2>2. "aborted" \in spoiled'
    BY <2>1 DEF ListAborts, Note
  <2>3. QED BY <1>0, <2>2
<1>13. ListEnd => Books'
  <2>1. SUFFICES ASSUME ListEnd PROVE Books'
    OBVIOUS
  <2>2. job.cmd = "ls" /\ Forget(job.src) /\ UNCHANGED <<table, data, free, slots, dead, spoiled>>
    BY <2>1 DEF ListEnd
  <2>3. Open = {job.src} /\ Src.inode = table[Src.file]
    BY <2>2, JobIs DEF Listing
  <2> DEFINE h == job.src
  <2>4. h \in Open /\ handle[h].inode = table[handle[h].file] /\ Forget(h)
    BY <2>2, <2>3 DEF Src
  <2> HIDE DEF h
  <2>5. Books
    BY <2>2 DEF Calm, BooksOK
  <2>6. QED BY <2>2, <2>4, <2>5, BooksForget
<1>14. ASSUME NEW h \in Open, CloseSlot(h), UNCHANGED <<data, free, dead, spoiled>> PROVE Books'
  <2>1. Books
    BY <1>14 DEF Calm, BooksOK
  <2>2. QED BY <1>14, <2>1, BooksCloseSlot
<1>15. JobClose => Books'
  <2>1. SUFFICES ASSUME JobClose PROVE Books'
    OBVIOUS
  <2>2. LoopDone /\ CloseSlot(job.src) /\ UNCHANGED <<data, free, dead, spoiled>>
    BY <2>1 DEF JobClose
  <2>3. job.src \in Open
    BY <2>2, JobIs DEF LoopDone, Creating, Catting, Copying
  <2>4. QED BY <1>14, <2>2, <2>3
<1>16. CopyClose => Books'
  <2>1. SUFFICES ASSUME CopyClose PROVE Books'
    OBVIOUS
  <2>2. job.pc = "close" /\ CloseSlot(job.dst) /\ UNCHANGED <<data, free, dead, spoiled>>
    BY <2>1 DEF CopyClose
  <2>3. job.dst \in Open
    BY <2>2, JobIs DEF Copying
  <2>4. QED BY <1>14, <2>2, <2>3
<1>17. QED BY <1>3, <1>5, <1>6, <1>7, <1>8, <1>10, <1>11, <1>12, <1>13, <1>15, <1>16 DEF Turn

LEMMA BooksRequest ==
  ASSUME Sound, Sound', BooksOK, Request, Calm'
  PROVE  Books'
<1>0. /\ Store /\ Room /\ Marks /\ dead \in BOOLEAN
      /\ "stale" \notin spoiled' /\ "wild" \notin spoiled'
  BY DEF Sound, Marks, Calm
<1>1. Prompt => Books
  BY DEF Prompt, BooksOK
<1>2. ASSUME NEW f \in Files, OpenInto(f), UNCHANGED <<data, free, dead>>, Prompt,
             Cardinality(Open) < Cardinality(Handles)
      PROVE  Books'
  BY <1>0, <1>1, <1>2, BooksOpen
<1>3. ASSUME NEW f \in Files, OpenInto(f), UNCHANGED <<data, free, dead>>, Prompt, Open = {}
      PROVE  Books'
  <2>1. Cardinality(Open) < Cardinality(Handles)
    BY <1>3, OpenIsFinite, FS_EmptySet
  <2>2. QED BY <1>2, <1>3, <2>1
<1>4. ASSUME UNCHANGED <<table, handle, free, dead, spoiled>>, Prompt PROVE Books'
  BY <1>0, <1>1, <1>4, HandlesStill
<1>5. ASSUME NEW f \in Files, OpenFile(f) PROVE Books'
  <2>1. Prompt /\ Cardinality(Open) < MaxOpen /\ OpenInto(f) /\ UNCHANGED <<data, free, dead>>
    BY <1>5 DEF OpenFile, Ready
  <2>2. Cardinality(Open) < Cardinality(Handles)
    BY <2>1, OpenIsFinite, Sizes
  <2>3. QED BY <1>2, <2>1, <2>2
<1>6. ASSUME NEW f \in Files, Cat(f) PROVE Books'
  BY <1>4, <1>6 DEF Cat, Start
<1>7. ASSUME NEW f \in Files, List(f) PROVE Books'
  BY <1>3, <1>7 DEF List, Start
<1>8. ASSUME NEW f \in Files, NEW text \in Texts, CreateFile(f, text) PROVE Books'
  <2>1. Prompt /\ Open = {} /\ UNCHANGED <<data, free, dead>>
    BY <1>8 DEF CreateFile, Start
  <2>2. OpenInto(f) \/ UNCHANGED <<table, handle, spoiled>> \/ "wild" \in spoiled'
    BY <1>8 DEF CreateFile, GoWild, Note
  <2>3. QED BY <1>0, <1>3, <1>4, <2>1, <2>2
<1>9. ASSUME NEW f \in Files, NEW g \in Files, Copy(f, g) PROVE Books'
  BY <1>3, <1>9 DEF Copy, Start
<1>10. ASSUME NEW h \in Handles, CloseFile(h) PROVE Books'
  <2>1. Prompt /\ h \in Open /\ CloseSlot(h) /\ UNCHANGED <<data, free, dead, spoiled>>
    BY <1>10 DEF CloseFile, Ready
  <2>2. QED BY <1>1, <2>1, BooksCloseSlot
<1>11. ASSUME NEW h \in Handles, NEW n \in 0 .. MaxSize, Ftruncate(h, n) PROVE Books'
  <2>1. Prompt
    BY <1>11 DEF Ftruncate, Ready
  <2>2. QED BY <1>1, <1>11, <2>1, BooksFtruncate
<1>12. ASSUME NEW h \in Handles, NEW n \in Counts, Read(h, n) PROVE Books'
  BY <1>4, <1>12 DEF Read, Ready
<1>13. ASSUME NEW h \in Handles, NEW text \in Texts, Write(h, text) PROVE Books'
  BY <1>4, <1>13 DEF Write, Ready
<1>14. ASSUME NEW h \in Handles, NEW off \in -1 .. MaxSize, NEW where \in {"set", "cur", "end"},
              Lseek(h, off, where)
       PROVE  Books'
  <2>1. Open' = Open
    <3>1. Sound' /\ Open' = Open
      BY <1>14, SoundLseek
    <3>2. QED BY <3>1
  <2>2. Prompt /\ h \in Open /\ UNCHANGED <<table, free, dead>> /\ spoiled \subseteq spoiled'
    BY <1>14 DEF Lseek, Ready, Note
  <2>3. UNCHANGED handle \/ handle' = [handle EXCEPT ![h].pos = off]
    BY <1>14 DEF Lseek
  <2>4. handle[h] = [file |-> handle[h].file, inode |-> handle[h].inode, pos |-> handle[h].pos]
    BY <1>0, <2>2, OpenedIs
  <2>5. \A g \in Open : handle'[g].file = handle[g].file /\ handle'[g].inode = handle[g].inode
    <3>1. TAKE g \in Open
    <3>2. g \in DOMAIN handle
      BY <1>0 DEF Store, Open
    <3>3. QED BY <2>3, <2>4, <3>2
  <2>6. free' \subseteq free /\ dead' \in BOOLEAN
    BY <1>0, <2>2
  <2>7. QED BY <1>0, <1>1, <2>1, <2>2, <2>5, <2>6, BooksStill
<1>15. Restart => Books'
  BY <1>4 DEF Restart, Ready
<1>16. QED BY <1>5, <1>6, <1>7, <1>8, <1>9, <1>10, <1>11, <1>12, <1>13, <1>14, <1>15 DEF Request

LEMMA BooksInit ==
  ASSUME Init
  PROVE  Books
<1>1. Open = {}
  BY DEF Init, Open
<1>2. Agree
  BY <1>1 DEF Agree
<1>3. ASSUME NEW f \in Files PROVE Owned(f) = << >>
  <2>1. View(f) = table[f]
    BY <1>1, ViewClosed
  <2>2. table[f] = NoInode
    BY DEF Init
  <2>3. QED BY <2>1, <2>2 DEF Owned, NoInode
<1>4. Known = Files /\ free = Blocks
  BY DEF Init, Known
<1>5. \A f \in Files : 1 .. Len(Owned(f)) = {}
  BY <1>3
<1>6. Apart
  BY <1>4, <1>5 DEF Apart
<1>7. NotFree
  BY <1>4, <1>5 DEF NotFree
<1>8. AllTaken
  BY <1>4 DEF AllTaken
<1>9. QED BY <1>2, <1>6, <1>7, <1>8 DEF Books

\* While handles of one file show one inode, base_file_write and
\* base_file_truncate leave no block in two files, twice in one, or in a file
\* and on the free list; and all blocks are somewhere until something went
\* wrong.
THEOREM BooksAlways == Spec => []BooksOK
<1>1. Init => BooksOK
  BY BooksInit DEF BooksOK
<1>2. Sound /\ Sound' /\ BooksOK /\ [Next]_vars => BooksOK'
  <2>1. ASSUME Sound, BooksOK, UNCHANGED vars PROVE BooksOK'
    <3>1. UNCHANGED <<table, handle, free, dead, spoiled>> /\ dead \in BOOLEAN
      BY <2>1 DEF vars, Sound, Marks
    <3>2. SUFFICES ASSUME Calm' PROVE Books'
      BY DEF BooksOK
    <3>3. Books
      BY <2>1, <3>1, <3>2 DEF BooksOK, Calm
    <3>4. QED BY <3>1, <3>3, HandlesStill
  <2>2. QED BY <2>1, BooksRequest, BooksTurn DEF Next, BooksOK
<1>3. QED BY <1>1, <1>2, SoundAlways, PTL DEF Spec

\* A list without repetition has as many members as it is long.
LEMMA OnceCounts ==
  ASSUME NEW n, Fit(n), Once(n)
  PROVE  Cardinality(ToSet(n.blocks)) = Groups(n.size) /\ ToSet(n.blocks) = Named(n)
<1>1. n.blocks \in Seq(Blocks) /\ Len(n.blocks) = Groups(n.size) /\ Len(n.blocks) \in Nat
  BY InodeFacts
<1> DEFINE s == n.blocks
           k == Len(s)
<1>2. ToSet(s) = {s[i] : i \in 1 .. k}
  BY <1>1, NamedIs
<1>3. s \in Bijection(1 .. k, ToSet(s))
  <2>1. s \in [1 .. k -> ToSet(s)]
    <3>1. s \in [1 .. k -> Blocks]
      BY <1>1
    <3>2. QED BY <1>2, <3>1
  <2>2. \A i, j \in 1 .. k : s[i] = s[j] => i = j
    BY DEF Once
  <2>3. \A x \in ToSet(s) : \E i \in 1 .. k : s[i] = x
    BY <1>2
  <2> HIDE DEF s, k
  <2>4. s \in Injection(1 .. k, ToSet(s))
    BY <2>1, <2>2 DEF Injection, IsInjective
  <2>5. s \in Surjection(1 .. k, ToSet(s))
    BY <2>1, <2>3 DEF Surjection
  <2>6. QED BY <2>4, <2>5 DEF Bijection
<1>4. IsFiniteSet(1 .. k) /\ Cardinality(1 .. k) = k
  BY <1>1, FS_Interval
<1>5. ExistsBijection(1 .. k, ToSet(s))
  <2> HIDE DEF s, k
  <2>1. QED BY <1>3 DEF ExistsBijection
<1>6. Cardinality(ToSet(s)) = k
  <2> HIDE DEF s, k
  <2>1. QED BY <1>4, <1>5, FS_Bijection
<1>7. QED BY <1>1, <1>2, <1>6 DEF Named

LEMMA BooksAccount ==
  ASSUME Sound, BooksOK
  PROVE  SpaceAccounted
<1> DEFINE files == {f \in Files : Exists(f)}
           held(f) == ToSet(View(f).blocks)
<1> SUFFICES ASSUME Returned, spoiled = {}
             PROVE  /\ \A f \in files : Cardinality(held(f)) = Groups(View(f).size)
                    /\ \A f, g \in files : f # g => held(f) \cap held(g) = {}
                    /\ UNION {held(f) : f \in files} = Blocks \ free
  BY DEF SpaceAccounted
<1>1. Books /\ Store /\ Agree /\ ~dead
  BY DEF BooksOK, Calm, Sound, Marks, Books
<1>2. Known = Files
  BY <1>1 DEF Known
<1>3. ASSUME NEW f \in files
      PROVE  /\ f \in Files /\ Cardinality(held(f)) = Groups(View(f).size)
             /\ held(f) = {Owned(f)[i] : i \in 1 .. Len(Owned(f))}
             /\ held(f) \subseteq Blocks \ free
  <2>1. f \in Files /\ Fit(View(f))
    BY <1>1, ViewFits
  <2>2. Once(View(f)) /\ \A i \in 1 .. Len(View(f).blocks) : View(f).blocks[i] \in Blocks \ free
    BY <1>1, <1>2, <2>1, OwnedOnce
  <2> DEFINE n == View(f)
  <2> HIDE DEF n
  <2>3. Fit(n) /\ Once(n)
    BY <2>1, <2>2 DEF n
  <2>4. Cardinality(ToSet(n.blocks)) = Groups(n.size) /\ ToSet(n.blocks) = Named(n)
    BY <2>3, OnceCounts
  <2>5. ToSet(n.blocks) = {n.blocks[i] : i \in 1 .. Len(n.blocks)}
    BY <2>4 DEF Named
  <2>6. QED BY <2>1, <2>2, <2>4, <2>5 DEF n, Owned
<1>4. ASSUME NEW f \in files, NEW g \in files, f # g PROVE held(f) \cap held(g) = {}
  <2>1. ASSUME NEW x \in held(f), x \in held(g) PROVE FALSE
    <3>1. PICK i \in 1 .. Len(Owned(f)) : x = Owned(f)[i]
      BY <1>3
    <3>2. PICK j \in 1 .. Len(Owned(g)) : x = Owned(g)[j]
      BY <1>3, <2>1
    <3>3. Owned(f)[i] = Owned(g)[j]
      BY <3>1, <3>2
    <3>4. QED BY <1>1, <1>2, <1>4, <3>3 DEF Books, Apart
  <2>2. QED BY <2>1
<1>5. ASSUME NEW b \in Blocks \ free PROVE \E f \in files : b \in held(f)
  <2>1. PICK f \in Files : \E i \in 1 .. Len(Owned(f)) : Owned(f)[i] = b
    BY <1>1 DEF Books, AllTaken
  <2>2. Exists(f)
    <3>1. CASE View(f) = NoInode
      <4>1. Owned(f) = << >>
        BY <3>1 DEF Owned, NoInode
      <4>2. 1 .. Len(<< >>) = {}
        OBVIOUS
      <4>3. QED BY <2>1, <4>1, <4>2
    <3>2. CASE View(f) # NoInode
      BY <1>1, <3>2, ViewFits
    <3>3. QED BY <3>1, <3>2
  <2>3. f \in files
    BY <2>2
  <2> HIDE DEF files, held
  <2>4. held(f) = {Owned(f)[i] : i \in 1 .. Len(Owned(f))}
    BY <1>3, <2>3
  <2>5. QED BY <2>1, <2>3, <2>4
<1> HIDE DEF files, held
<1>6. UNION {held(f) : f \in files} = Blocks \ free
  BY <1>3, <1>5
<1>7. QED BY <1>3, <1>4, <1>6

\* Between two calls every block is in the right number in one file, or free:
\* also after a base_file_write that was refused half way, and after copies
\* over other files.
THEOREM SpaceIsAccounted == Spec => []SpaceAccounted
<1>1. Sound /\ BooksOK => SpaceAccounted
  BY BooksAccount
<1>2. QED BY <1>1, SoundAlways, BooksAlways, PTL

-----------------------------------------------------------------------------
(* What cp has copied.                                                     *)

\* Only block c differs; no block of inode n is c.
Only(d, e, c) == \A x \in Blocks \ {c} : e[x] = d[x]
Lacks(n, c)   == \A i \in 1 .. Len(n.blocks) : n.blocks[i] # c

\* A file that has not the block a piece was put in shows what it did.
LEMMA BytesKept ==
  ASSUME NEW d \in Data, NEW e \in Data, NEW c, Only(d, e, c), NEW n, Fit(n), Lacks(n, c)
  PROVE  \A k \in 1 .. n.size : Bytes(e, n)[k] = Bytes(d, n)[k]
<1>1. n.size \in Nat /\ Len(n.blocks) = Groups(n.size) /\ \A k \in 1 .. Len(n.blocks) : n.blocks[k] \in Blocks
  BY InodeFacts
<1>2. \A k \in 1 .. Groups(n.size) : e[n.blocks[k]] = d[n.blocks[k]]
  BY <1>1 DEF Only, Lacks
<1> DEFINE l == n.size
<1>3. l \in 0 .. n.size /\ l <= n.size /\ \A k \in 1 .. Groups(l) : e[n.blocks[k]] = d[n.blocks[k]]
  BY <1>1, <1>2
<1> HIDE DEF l
<1>4. \A k \in 1 .. l : Bytes(e, n)[k] = Bytes(d, n)[k]
  BY <1>3, SameBlocks
<1>5. QED BY <1>4 DEF l

\* A piece at the position leaves what is below it, in the inode as it was.
LEMMA BytesBelow ==
  ASSUME NEW d \in Data, NEW n, Fit(n), Once(n), NEW pos \in 0 .. n.size, NEW piece,
         NEW l \in Nat, NEW c \in Blocks, NEW e \in Data,
         Lays(d, e, c, pos % BlockBytes, piece, l),
         Grows(n, pos) => \A i \in 1 .. Len(n.blocks) : n.blocks[i] # c,
         ~Grows(n, pos) => n.blocks[pos \div BlockBytes + 1] = c
  PROVE  \A k \in 1 .. pos : Bytes(e, n)[k] = Bytes(d, n)[k]
<1> DEFINE o == pos % BlockBytes
           q == pos \div BlockBytes
           g == Len(n.blocks)
<1>1. /\ n.size \in Nat /\ g \in Nat /\ pos \in Nat /\ pos <= n.size
      /\ \A k \in 1 .. g : n.blocks[k] \in Blocks
  BY InodeFacts
<1>2. q \in Nat /\ o \in 0 .. BlockBytes - 1 /\ pos = BlockBytes * q + o /\ BlockBytes * q \in Nat
  BY <1>1, Place, Steps
<1>3. ~Grows(n, pos) => q + 1 \in 1 .. g
  BY GrowsWhen
<1>4. \A k \in 1 .. BlockBytes : k <= o => e[c][k] = d[c][k]
  BY <1>2 DEF Lays
<1>5. \A x \in Blocks \ {c} : e[x] = d[x]
  BY DEF Lays
<1>6. \A i, j \in 1 .. g : n.blocks[i] = n.blocks[j] => i = j
  BY DEF Once
<1>7. (Grows(n, pos) => \A i \in 1 .. g : n.blocks[i] # c) /\ (~Grows(n, pos) => n.blocks[q + 1] = c)
  OBVIOUS
<1> HIDE DEF o, q
<1>8. ASSUME NEW k \in 1 .. pos PROVE Bytes(e, n)[k] = Bytes(d, n)[k]
  <2>0. PICK z \in 1 .. n.size : z = k
    BY <1>1
  <2> DEFINE p == (z - 1) \div BlockBytes
             r == (z - 1) % BlockBytes
  <2>1. /\ Bytes(e, n)[z] = e[n.blocks[p + 1]][r + 1]
        /\ Bytes(d, n)[z] = d[n.blocks[p + 1]][r + 1]
    BY BytesAre
  <2>2. p + 1 \in 1 .. g /\ r + 1 \in 1 .. BlockBytes
    BY ByteInBlock
  <2>3. z - 1 \in Nat /\ p \in Nat /\ r \in 0 .. BlockBytes - 1 /\ z - 1 = BlockBytes * p + r
    <3>1. z - 1 \in Nat
      BY <1>1
    <3>2. QED BY <3>1, Place
  <2> HIDE DEF p, r
  <2>4. CASE n.blocks[p + 1] = c
    <3>1. n.blocks[q + 1] = c /\ q + 1 \in 1 .. g
      BY <1>3, <1>7, <2>2, <2>4
    <3>2. p + 1 = q + 1
      BY <1>6, <2>2, <2>4, <3>1
    <3>3. p = q
      BY <1>2, <2>3, <3>2
    <3> DEFINE w == BlockBytes * q
    <3>4. pos = w + o /\ w \in Nat /\ z - 1 = w + r
      BY <1>2, <2>3, <3>3
    <3> HIDE DEF w
    <3>5. r + 1 <= o
      BY <1>1, <1>2, <2>0, <2>3, <3>4
    <3>6. e[c][r + 1] = d[c][r + 1]
      BY <1>4, <2>2, <3>5
    <3>7. QED BY <2>0, <2>1, <2>4, <3>6
  <2>5. CASE n.blocks[p + 1] # c
    BY <1>1, <1>5, <2>0, <2>1, <2>2, <2>5
  <2>6. QED BY <2>4, <2>5
<1>9. QED BY <1>8

\* The block of a turn is in no other open file, and in its own only where
\* the position is: it is free, or the file has it once.
LEMMA SpotApart ==
  ASSUME Sound, Books, call.op = "write", call.rest # << >>,
         Grows(Here.inode, Here.pos) => free # {}
  PROVE  /\ Fit(Here.inode) /\ Once(Here.inode) /\ Spot \in Blocks
         /\ Here.pos \in 0 .. Here.inode.size
         /\ Grows(Here.inode, Here.pos) => \A i \in 1 .. Len(Here.inode.blocks) : Here.inode.blocks[i] # Spot
         /\ ~Grows(Here.inode, Here.pos) => Here.inode.blocks[Here.pos \div BlockBytes + 1] = Spot
         /\ \A h \in Open : handle[h].file # Here.file =>
               \A i \in 1 .. Len(handle[h].inode.blocks) : handle[h].inode.blocks[i] # Spot
<1>1. /\ call.h \in Open /\ Here.pos \in Nat /\ Here.pos <= Here.inode.size
  BY WriterIs
<1>2. Store /\ Agree /\ Apart /\ NotFree
  BY DEF Sound, Books
<1>3. Fit(Here.inode) /\ Here.file \in Files
  BY <1>1, <1>2, OpenedIs DEF Here
<1>4. /\ Grows(Here.inode, Here.pos) => Min(free) \in free /\ Spot = Min(free)
      /\ ~Grows(Here.inode, Here.pos) =>
            /\ BlockNo + 1 \in 1 .. Len(Here.inode.blocks)
            /\ Spot = Here.inode.blocks[BlockNo + 1]
      /\ Spot \in Blocks
  BY <1>1, <1>2, SpotIs
<1>5. Here.inode.size \in Nat
  BY <1>3, InodeFacts
<1>6. ASSUME NEW h \in Open
      PROVE  /\ handle[h].file \in Known /\ handle[h].file \in Files
             /\ View(handle[h].file) = handle[h].inode
  <2>1. handle[h].file \in Files
    BY <1>2, OpenedIs
  <2>2. View(handle[h].file) = handle[h].inode /\ OpenOn(handle[h].file) # {}
    BY <1>2, <2>1, ViewOpen
  <2>3. QED BY <2>1, <2>2 DEF Known
<1>7. Here.file \in Known /\ View(Here.file) = Here.inode
  BY <1>1, <1>6 DEF Here
<1>8. Once(Here.inode) /\ \A i \in 1 .. Len(Here.inode.blocks) : Here.inode.blocks[i] \in Blocks \ free
  BY <1>7, OwnedOnce
<1>9. ASSUME NEW h \in Open, handle[h].file # Here.file, NEW i \in 1 .. Len(handle[h].inode.blocks)
      PROVE  handle[h].inode.blocks[i] # Spot
  <2>1. /\ handle[h].file \in Known /\ Owned(handle[h].file) = handle[h].inode.blocks
        /\ Owned(Here.file) = Here.inode.blocks
    BY <1>6, <1>7 DEF Owned
  <2>2. CASE Grows(Here.inode, Here.pos)
    <3>1. handle[h].inode.blocks[i] \in Blocks \ free
      BY <1>2, <2>1 DEF NotFree
    <3>2. QED BY <1>4, <2>2, <3>1
  <2>3. CASE ~Grows(Here.inode, Here.pos)
    <3>1. PICK j \in 1 .. Len(Here.inode.blocks) : Spot = Here.inode.blocks[j]
      BY <1>4, <2>3
    <3>2. QED BY <1>2, <1>7, <1>9, <2>1, <3>1 DEF Apart
  <2>4. QED BY <2>2, <2>3
<1>10. Grows(Here.inode, Here.pos) => \A i \in 1 .. Len(Here.inode.blocks) : Here.inode.blocks[i] # Spot
  BY <1>4, <1>8
<1>11. QED BY <1>1, <1>3, <1>4, <1>5, <1>8, <1>9, <1>10 DEF BlockNo

\* What a turn does to the bytes of its block.
LEMMA WrittenLays ==
  ASSUME Sound, call.op = "write", call.rest # << >>, Spot \in Blocks
  PROVE  /\ Written \in Data /\ \A x \in Blocks \ {Spot} : Written[x] = data[x]
         /\ Chunk \in Nat /\ Lays(data, Written, Spot, Here.pos % BlockBytes, Piece, Chunk)
<1>1. call.rest \in Seq(Values) /\ Here.pos \in Nat
  BY WriterIs
<1>2. /\ Chunk \in 1 .. Len(call.rest) /\ Offset + Chunk <= BlockBytes /\ Offset \in Nat
      /\ Piece \in Seq(Values) /\ Len(Piece) = Chunk
  BY <1>1, ChunkIs
<1>3. Chunk \in Nat
  BY <1>1, <1>2, LenProperties
<1>4. data \in Data /\ data[Spot] \in [1 .. BlockBytes -> Values]
  BY DEF Sound, Store, Data
<1> DEFINE x == data[Spot]
           o == Offset
<1> HIDE DEF x, o
<1>5. x \in [1 .. BlockBytes -> Values] /\ o \in Nat /\ o + Len(Piece) <= BlockBytes
  BY <1>2, <1>4 DEF x, o
<1>6. /\ Patch(x, o, Piece) \in [1 .. BlockBytes -> Values]
      /\ \A k \in 1 .. BlockBytes : Patch(x, o, Piece)[k] =
            IF o < k /\ k <= o + Len(Piece) THEN Piece[k - o] ELSE x[k]
  BY <1>2, <1>5, PatchIs
<1>7. Written = [data EXCEPT ![Spot] = Patch(x, o, Piece)]
  BY DEF Written, x, o
<1>8. /\ Written \in Data /\ Written[Spot] = Patch(x, o, Piece)
      /\ \A y \in Blocks \ {Spot} : Written[y] = data[y]
  BY <1>4, <1>6, <1>7 DEF Data
<1>9. Lays(data, Written, Spot, o, Piece, Chunk)
  BY <1>2, <1>6, <1>8 DEF x, Lays
<1>10. QED BY <1>3, <1>8, <1>9 DEF o, Offset

\* The turn of a write, in the bytes of its file.
LEMMA WriteTurnLands ==
  ASSUME Sound, Books, WriteTurn
  PROVE  /\ Lands(Bytes(data, Here.inode), Bytes(data', handle'[call.h].inode),
                  Here.inode.size, handle'[call.h].inode.size, Here.pos, Piece, Chunk)
         /\ Fit(handle'[call.h].inode) /\ Here.pos + Chunk <= handle'[call.h].inode.size
         /\ data' \in Data /\ \A x \in Blocks \ {Spot} : data'[x] = data[x]
<1> DEFINE n == Here.inode
           m == Grown(Here.inode, Here.pos, Chunk, Min(free))
<1>1. /\ call.op = "write" /\ call.rest # << >> /\ (Grows(n, Here.pos) => free # {})
      /\ Chunk \in 1 .. Len(call.rest) /\ Here.pos + Chunk <= MaxSize /\ data' = Written
      /\ handle'[call.h] = [file |-> Here.file, inode |-> m, pos |-> Here.pos + Chunk]
  BY WritesDoes
<1>2. /\ Fit(n) /\ Once(n) /\ Spot \in Blocks /\ Here.pos \in 0 .. n.size
      /\ Grows(n, Here.pos) => \A i \in 1 .. Len(n.blocks) : n.blocks[i] # Spot
      /\ ~Grows(n, Here.pos) => n.blocks[Here.pos \div BlockBytes + 1] = Spot
  BY <1>1, SpotApart
<1>3. /\ Written \in Data /\ \A x \in Blocks \ {Spot} : Written[x] = data[x]
      /\ Chunk \in Nat /\ Lays(data, Written, Spot, Here.pos % BlockBytes, Piece, Chunk)
  BY <1>1, <1>2, WrittenLays
<1>4. call.rest \in Seq(Values) /\ Here.pos \in Nat
  BY <1>1, WriterIs
<1>5. (Here.pos % BlockBytes) + Chunk <= BlockBytes
  BY <1>1, <1>4, ChunkIs DEF Offset
<1>6. Chunk \in Nat \ {0}
  BY <1>1, <1>3
<1>7. Grows(n, Here.pos) => Min(free) = Spot
  BY DEF Spot, Hit
<1>8. data \in Data /\ n.size \in Nat
  BY <1>2, InodeFacts DEF Sound, Store
<1>9. m.size = IF n.size <= Here.pos + Chunk THEN Here.pos + Chunk ELSE n.size
  BY DEF Grown
<1> DEFINE pos == Here.pos
           l == Chunk
           b == Min(free)
<1>10. m = Grown(n, pos, l, b)
  OBVIOUS
<1> HIDE DEF n, m, pos, l, b
<1>11. /\ Fit(m)
       /\ Grows(n, pos) => m.blocks[Len(n.blocks) + 1] = b
       /\ \A k \in 1 .. Len(n.blocks) : m.blocks[k] = n.blocks[k]
  <2>1. /\ pos \in 0 .. n.size /\ l \in Nat \ {0} /\ (Grows(n, pos) => b \in Blocks)
        /\ (pos % BlockBytes) + l <= BlockBytes /\ pos + l <= MaxSize
    BY <1>1, <1>2, <1>5, <1>6, <1>7 DEF pos, l, b
  <2>2. QED BY <1>2, <1>10, <2>1, GrownFits
<1>12. Follows(n, m, pos, l, Spot)
  BY <1>2, <1>7, <1>9, <1>11 DEF Follows, pos, l, b
<1>13. Lands(Bytes(data, n), Bytes(Written, m), n.size, m.size, pos, Piece, l)
  <2> DEFINE c == Spot
             e == Written
             piece == Piece
             d == data
  <2>1. /\ d \in Data /\ e \in Data /\ c \in Blocks /\ Lays(d, e, c, pos % BlockBytes, piece, l)
        /\ Follows(n, m, pos, l, c)
        /\ pos \in 0 .. n.size /\ l \in Nat \ {0} /\ (pos % BlockBytes) + l <= BlockBytes
    BY <1>2, <1>3, <1>5, <1>6, <1>8, <1>12 DEF pos, l
  <2> HIDE DEF c, e, piece, d
  <2>2. Lands(Bytes(d, n), Bytes(e, m), n.size, m.size, pos, piece, l)
    BY <1>2, <1>11, <2>1, PieceLands
  <2>3. QED BY <2>2 DEF c, e, piece, d
<1>14. Here.pos + Chunk <= m.size
  BY <1>4, <1>6, <1>8, <1>9
<1>15. handle'[call.h].inode = m
  BY <1>1
<1>16. QED BY <1>1, <1>3, <1>11, <1>13, <1>14, <1>15 DEF n, pos, l

\* n bytes of s are due in t, which equals s below a position; a piece of
\* them, of l bytes, is laid over t, and gives v, while s stays, as u.
Laid(s, u, t, v, size, i, j, pos, l, piece, n, rest) ==
    /\ size \in Nat /\ i \in Nat /\ j \in Nat /\ pos \in Nat /\ l \in Nat /\ n \in Nat
    /\ pos + l <= j /\ l <= n /\ pos + n <= size
    /\ Lands(t, v, i, j, pos, piece, l)
    /\ \A k \in 1 .. size : u[k] = s[k]
    /\ \A k \in 1 .. l : piece[k] = rest[k]
    /\ \A k \in 1 .. pos : t[k] = s[k]
    /\ \A k \in 1 .. n : rest[k] = s[pos + k]

\* Then v equals u below the end of the piece, and the rest is still due.
LEMMA CopyLands ==
  ASSUME NEW s, NEW u, NEW t, NEW v, NEW size, NEW i, NEW j, NEW pos, NEW l,
         NEW piece, NEW n, NEW rest, Laid(s, u, t, v, size, i, j, pos, l, piece, n, rest)
  PROVE  /\ \A k \in 1 .. pos + l : v[k] = u[k]
         /\ \A k \in 1 .. n - l : rest[l + k] = u[pos + l + k]
<1> USE DEF Laid
<1>1. ASSUME NEW k \in 1 .. pos + l PROVE v[k] = u[k]
  <2>1. k \in 1 .. j /\ k \in 1 .. size
    OBVIOUS
  <2>2. CASE k <= pos
    <3>1. v[k] = t[k]
      BY <2>1, <2>2 DEF Lands
    <3>2. k \in 1 .. pos
      BY <2>2
    <3>3. QED BY <2>1, <3>1, <3>2
  <2>3. CASE pos < k
    <3>1. v[k] = piece[k - pos]
      BY <2>1, <2>3 DEF Lands
    <3>2. PICK z \in 1 .. l : z = k - pos
      BY <2>3
    <3>3. z \in 1 .. n /\ pos + z = k
      BY <3>2
    <3>4. rest[z] = s[k]
      BY <3>3
    <3>5. QED BY <2>1, <3>1, <3>2, <3>4
  <2>4. QED BY <2>2, <2>3
<1>2. ASSUME NEW k \in 1 .. n - l PROVE rest[l + k] = u[pos + l + k]
  <2>1. PICK z \in 1 .. n : z = l + k
    OBVIOUS
  <2>2. rest[z] = s[pos + z] /\ pos + z \in 1 .. size /\ pos + z = pos + l + k
    BY <2>1
  <2>3. QED BY <2>1, <2>2
<1>3. QED BY <1>1, <1>2

\* The target of a copy has what was copied, and what is on its way to it
\* is what follows in the source.
Same(d, x, y, p)  == \A k \in 1 .. p : Bytes(d, y)[k] = Bytes(d, x)[k]
Due(d, x, p, s)   == \A k \in 1 .. Len(s) : s[k] = Bytes(d, x)[p + k]
Distinct          == /\ job.cmd = "cp" /\ job.pc \in {"opened", "read", "write"}
                     /\ Src.file # Dst.file

Exact ==
    Distinct =>
      /\ Same(data, Src.inode, Dst.inode, Dst.pos)
      /\ Flow => Due(data, Src.inode, Dst.pos, Pending)

\* What holds of the two files while they are copied.
LEMMA CopyIs ==
  ASSUME Sound, BooksOK, Distinct
  PROVE  /\ Copying /\ Open = {job.src, job.dst} /\ job.src # job.dst /\ Books
         /\ Fit(Src.inode) /\ Fit(Dst.inode) /\ data \in Data
         /\ Src.pos \in Nat /\ Dst.pos \in Nat /\ Dst.pos <= Src.pos /\ Src.pos <= Src.inode.size
         /\ Dst.pos <= Dst.inode.size /\ Src.inode.size \in Nat /\ Dst.inode.size \in Nat
         /\ job.pc = "opened" => Returned
         /\ job.pc = "read" => Asked(job.src, "read")
         /\ job.pc = "write" => Asked(job.dst, "write")
<1>1. Copying /\ Store /\ Marks /\ "beyond" \notin spoiled
  BY JobIs DEF Distinct
<1>2. /\ Open = {job.src, job.dst} /\ job.src # job.dst /\ Dst.pos <= Src.pos /\ Calm
      /\ job.pc = "opened" => Returned
      /\ job.pc = "read" => Asked(job.src, "read")
      /\ job.pc = "write" => Asked(job.dst, "write")
  BY <1>1 DEF Copying, Distinct
<1>3. /\ Fit(Src.inode) /\ Fit(Dst.inode) /\ Src.pos \in Nat /\ Dst.pos \in Nat
  BY <1>1, <1>2, OpenedIs DEF Src, Dst
<1>4. Src.pos <= Src.inode.size /\ Dst.pos <= Dst.inode.size
  BY <1>1, <1>2 DEF Marks, Src, Dst
<1>5. Src.inode.size \in Nat /\ Dst.inode.size \in Nat
  BY <1>3, InodeFacts
<1>6. Books /\ data \in Data
  BY <1>1, <1>2 DEF BooksOK, Store
<1>7. QED BY <1>1, <1>2, <1>3, <1>4, <1>5, <1>6

\* Steps that leave the files alone, and what is on its way, or drop it.
LEMMA ExactStays ==
  ASSUME Exact, UNCHANGED data, job'.cmd = job.cmd, Src' = Src, Dst' = Dst,
         Distinct' => Distinct, Pending' = Pending \/ Pending' = << >>
  PROVE  Exact'
<1>1. SUFFICES ASSUME Distinct'
               PROVE  /\ Same(data, Src.inode, Dst.inode, Dst.pos)'
                      /\ Flow' => Due(data, Src.inode, Dst.pos, Pending)'
  BY DEF Exact
<1>2. Same(data, Src.inode, Dst.inode, Dst.pos)'
  BY <1>1 DEF Exact
<1>3. CASE Pending' = Pending
  <2>1. Flow' = Flow
    BY <1>3 DEF Flow
  <2>2. QED BY <1>1, <1>2, <1>3, <2>1 DEF Exact
<1>4. CASE Pending' = << >>
  <2>1. Due(data, Src.inode, Dst.pos, Pending)'
    BY <1>4 DEF Due
  <2>2. QED BY <1>2, <2>1
<1>5. QED BY <1>3, <1>4

\* The calls of cp, and their ends.
LEMMA ExactCopyRead ==
  ASSUME Sound, Exact, CopyRead
  PROVE  Exact'
<1>1. /\ job.cmd = "cp" /\ job.pc \in {"opened", "write"} /\ job.cmd # "none"
      /\ JobCall(Reading(job.src, Buffer), "read")
  BY DEF CopyRead
<1> DEFINE c == Reading(job.src, Buffer)
<1>2. c.op = "read" /\ c.got = << >>
  BY DEF Reading
<1> HIDE DEF c
<1>3. /\ Src' = Src /\ Dst' = Dst /\ call' = c /\ UNCHANGED data
      /\ job' = [cmd |-> job.cmd, pc |-> "read", src |-> job.src, dst |-> job.dst, text |-> job.text]
  BY <1>1, JobCalls DEF c
<1>4. Pending' = << >>
  BY <1>2, <1>3 DEF Pending
<1>5. Distinct' => Distinct
  BY <1>1, <1>3 DEF Distinct
<1>6. QED BY <1>3, <1>4, <1>5, ExactStays

LEMMA ExactCopyWrite ==
  ASSUME Sound, Exact, CopyWrite
  PROVE  Exact'
<1>1. /\ job.cmd = "cp" /\ job.pc = "read" /\ Returned /\ job.cmd # "none"
      /\ JobCall(Writing(job.dst, call.got), "write")
  BY DEF CopyWrite
<1> DEFINE c == Writing(job.dst, call.got)
<1>2. c.op = "write" /\ c.rest = call.got
  BY DEF Writing
<1> HIDE DEF c
<1>3. /\ Src' = Src /\ Dst' = Dst /\ call' = c /\ UNCHANGED data
      /\ job' = [cmd |-> job.cmd, pc |-> "write", src |-> job.src, dst |-> job.dst, text |-> job.text]
  BY <1>1, JobCalls DEF c
<1>4. Pending' = Pending
  BY <1>1, <1>2, <1>3 DEF Pending, Returned
<1>5. Distinct' => Distinct
  BY <1>1, <1>3 DEF Distinct
<1>6. QED BY <1>3, <1>4, <1>5, ExactStays

LEMMA ExactStops ==
  ASSUME Sound, BooksOK, Exact, Stop, call.op # "none", UNCHANGED <<data, handle, job>>
  PROVE  Exact'
<1>1. Src' = Src /\ Dst' = Dst
  BY DEF Src, Dst
<1>2. Distinct' => Distinct
  BY <1>1 DEF Distinct
<1>3. Distinct => Pending' = Pending \/ Pending' = << >>
  <2>1. SUFFICES ASSUME Distinct PROVE Pending' = Pending \/ Pending' = << >>
    OBVIOUS
  <2>2. job # NoJob
    BY <2>1 DEF Distinct, NoJob
  <2>3. call.got \in Seq(Values)
    BY DEF Sound, CallOK
  <2>4. call'.op = "none" /\ call'.got = call.got
    BY <2>2, <2>3, StopDoes
  <2>5. CASE job.pc = "read"
    <3>1. call.op = "read"
      BY <2>1, <2>5, CopyIs DEF Asked, Returned
    <3>2. QED BY <2>4, <2>5, <3>1 DEF Pending
  <2>6. CASE job.pc # "read"
    BY <2>4, <2>6 DEF Pending
  <2>7. QED BY <2>5, <2>6
<1>4. CASE Distinct
  BY <1>1, <1>2, <1>3, <1>4, ExactStays
<1>5. CASE ~Distinct
  BY <1>2, <1>5 DEF Exact
<1>6. QED BY <1>4, <1>5

\* A turn moves in one of the files and leaves them what they are.
LEMMA StaysDistinct ==
  ASSUME Sound, UNCHANGED job, handle'[call.h].file = Here.file,
         \A g \in Handles \ {call.h} : handle'[g] = handle[g]
  PROVE  Distinct' => Distinct
<1>1. SUFFICES ASSUME job.cmd = "cp", job.pc \in {"opened", "read", "write"}
               PROVE  Src'.file = Src.file /\ Dst'.file = Dst.file
  BY DEF Distinct
<1>2. Copying /\ Store
  BY <1>1, JobIs
<1>3. job.src \in Handles /\ job.dst \in Handles
  BY <1>1, <1>2 DEF Copying, Open
<1>4. \A g \in Handles : handle'[g].file = handle[g].file
  BY DEF Here
<1>5. QED BY <1>3, <1>4 DEF Src, Dst

\* A turn of the read puts the next bytes of the source on their way.
LEMMA ExactReads ==
  ASSUME Sound, BooksOK, Exact, Reads
  PROVE  Exact'
<1>1. /\ UNCHANGED <<data, job>> /\ call.op = "read"
  BY DEF Reads
<1>2. CASE ~Distinct
  <2>1. /\ handle'[call.h] = [file |-> Here.file, inode |-> Here.inode, pos |-> Here.pos + ReadSize]
        /\ \A g \in Handles \ {call.h} : handle'[g] = handle[g]
    BY ReadsDoes
  <2>2. ~Distinct'
    BY <1>1, <1>2, <2>1, StaysDistinct
  <2>3. QED BY <2>2 DEF Exact
<1>3. CASE Distinct
  <2>1. /\ Open = {job.src, job.dst} /\ job.src # job.dst /\ Src.pos \in Nat /\ Dst.pos \in Nat
        /\ job.pc = "opened" => Returned
        /\ job.pc = "read" => Asked(job.src, "read")
        /\ job.pc = "write" => Asked(job.dst, "write")
    BY <1>3, CopyIs
  <2>2. job.pc = "read" /\ call.h = job.src
    BY <1>1, <1>3, <2>1 DEF Asked, Returned, Distinct
  <2>3. /\ handle'[call.h] = [file |-> Here.file, inode |-> Here.inode, pos |-> Here.pos + ReadSize]
        /\ \A g \in Handles \ {call.h} : handle'[g] = handle[g]
        /\ call' = [op |-> "read", h |-> call.h, want |-> call.want,
                    rest |-> call.rest - ReadSize, got |-> call.got \o Delivered]
        /\ Delivered \in Seq(Values) /\ Len(Delivered) = ReadSize
        /\ \A k \in 1 .. ReadSize : Delivered[k] = Bytes(data, Here.inode)[Here.pos + k]
    BY ReadsDoes
  <2>4. job.dst \in Handles \ {call.h} /\ Here = Src
    BY <2>1, <2>2 DEF Open, Here, Src
  <2>5. /\ Dst' = Dst /\ Src'.inode = Src.inode /\ Src'.pos = Src.pos + ReadSize /\ Src'.file = Src.file
    BY <1>1, <2>2, <2>3, <2>4 DEF Src, Dst
  <2>6. Pending = call.got /\ Pending' = call.got \o Delivered
    BY <1>1, <2>2, <2>3 DEF Pending
  <2>7. call.got \in Seq(Values)
    BY DEF Sound, CallOK
  <2>8. /\ Len(call.got) \in Nat /\ ReadSize \in Nat
        /\ Len(Pending') = Len(Pending) + ReadSize
        /\ \A k \in 1 .. Len(call.got) : Pending'[k] = call.got[k]
        /\ \A k \in 1 .. ReadSize : Pending'[Len(call.got) + k] = Delivered[k]
    <3>1. ReadSize \in Nat
      BY <2>3, LenProperties
    <3> DEFINE s == call.got
               t == Delivered
    <3>2. s \in Seq(Values) /\ t \in Seq(Values) /\ Len(t) = ReadSize
      BY <2>3, <2>7
    <3>3. Pending = s /\ Pending' = s \o t
      BY <2>6
    <3> HIDE DEF s, t
    <3>4. /\ Len(s) \in Nat /\ Len(s \o t) = Len(s) + Len(t)
          /\ \A k \in 1 .. Len(s) : (s \o t)[k] = s[k]
          /\ \A k \in 1 .. Len(t) : (s \o t)[Len(s) + k] = t[k]
      BY <3>2
    <3>5. QED BY <3>1, <3>2, <3>3, <3>4 DEF s, t
  <2>9. Flow' <=> Flow
    <3>1. /\ Flow  <=> Dst.pos + Len(Pending) = Src.pos
          /\ Flow' <=> Dst'.pos + Len(Pending') = Src'.pos
      BY DEF Flow
    <3>2. Len(Pending) \in Nat /\ Len(Pending') = Len(Pending) + ReadSize /\ ReadSize \in Nat
      BY <2>6, <2>8
    <3>3. Dst'.pos = Dst.pos /\ Src'.pos = Src.pos + ReadSize
      BY <2>5
    <3> DEFINE a == Dst.pos
               b == Len(Pending)
               c == Src.pos
    <3>4. /\ a \in Nat /\ b \in Nat /\ c \in Nat /\ ReadSize \in Nat
          /\ Flow  <=> a + b = c
          /\ Flow' <=> a + (b + ReadSize) = c + ReadSize
      BY <2>1, <3>1, <3>2, <3>3, Zenon
    <3> HIDE DEF a, b, c
    <3>5. QED BY <3>4
  <2>10. Same(data, Src.inode, Dst.inode, Dst.pos)'
    BY <1>1, <1>3, <2>5 DEF Exact
  <2>11. ASSUME Flow PROVE Due(data, Src.inode, Dst.pos, Pending')
    <3>1. Due(data, Src.inode, Dst.pos, Pending) /\ Dst.pos + Len(call.got) = Src.pos
      BY <1>3, <2>6, <2>11 DEF Exact, Flow
    <3> DEFINE n == Len(call.got)
    <3>2. ASSUME NEW k \in 1 .. n + ReadSize
          PROVE  Pending'[k] = Bytes(data, Src.inode)[Dst.pos + k]
      <4>1. CASE k <= n
        <5>1. k \in 1 .. n /\ Pending'[k] = call.got[k]
          BY <2>8, <4>1
        <5>2. QED BY <2>6, <3>1, <5>1 DEF Due
      <4>2. CASE k > n
        <5>1. PICK z \in 1 .. ReadSize : k = n + z
          <6>1. k - n \in 1 .. ReadSize /\ k = n + (k - n)
            BY <2>8, <4>2
          <6>2. QED BY <6>1
        <5>2. Pending'[k] = Delivered[z]
          BY <2>8, <5>1
        <5>3. Delivered[z] = Bytes(data, Src.inode)[Src.pos + z]
          BY <2>3, <2>4
        <5>4. Src.pos + z = Dst.pos + k
          BY <2>1, <2>8, <3>1, <5>1
        <5>5. QED BY <5>2, <5>3, <5>4
      <4>3. QED BY <2>8, <4>1, <4>2
    <3>3. QED BY <2>6, <2>8, <3>2 DEF Due
  <2>12. Flow' => Due(data, Src.inode, Dst.pos, Pending)'
    BY <1>1, <2>5, <2>9, <2>11 DEF Due
  <2>13. QED BY <2>10, <2>12 DEF Exact
<1>4. QED BY <1>2, <1>3

\* The bytes of the source stay while cp writes.
LEMMA SourceStays ==
  ASSUME Sound, BooksOK, Distinct, call.op = "write", call.rest # << >>, NEW e \in Data,
         Grows(Here.inode, Here.pos) => free # {},
         \A x \in Blocks \ {Spot} : e[x] = data[x]
  PROVE  /\ job.pc = "write" /\ call.h = job.dst /\ Here = Dst
         /\ \A k \in 1 .. Src.inode.size : Bytes(e, Src.inode)[k] = Bytes(data, Src.inode)[k]
<1>1. /\ Open = {job.src, job.dst} /\ Books /\ Fit(Src.inode) /\ data \in Data
      /\ job.pc = "opened" => Returned
      /\ job.pc = "read" => Asked(job.src, "read")
      /\ job.pc = "write" => Asked(job.dst, "write")
  BY CopyIs
<1>2. job.pc = "write" /\ call.h = job.dst /\ Here = Dst
  BY <1>1 DEF Asked, Returned, Distinct, Here, Dst
<1>3. \A i \in 1 .. Len(Src.inode.blocks) : Src.inode.blocks[i] # Spot
  <2>1. job.src \in Open /\ handle[job.src].file # Here.file
    BY <1>1, <1>2 DEF Distinct, Src
  <2>2. \A i \in 1 .. Len(handle[job.src].inode.blocks) : handle[job.src].inode.blocks[i] # Spot
    BY <1>1, <2>1, SpotApart
  <2>3. QED BY <2>2 DEF Src
<1>4. \A k \in 1 .. Src.inode.size : Bytes(e, Src.inode)[k] = Bytes(data, Src.inode)[k]
  <2> DEFINE n == Src.inode
             c == Spot
             d == data
  <2>1. Fit(n) /\ d \in Data /\ Only(d, e, c) /\ Lacks(n, c)
    BY <1>1, <1>3 DEF Only, Lacks
  <2> HIDE DEF n, c, d
  <2>2. \A k \in 1 .. n.size : Bytes(e, n)[k] = Bytes(d, n)[k]
    BY <2>1, BytesKept
  <2>3. QED BY <2>2 DEF n, d
<1>5. QED BY <1>2, <1>4

\* The device fails under a write: what was copied stays.
LEMMA ExactWriteFails ==
  ASSUME Sound, BooksOK, Exact, WriteFails
  PROVE  Exact'
<1>1. /\ call.op = "write" /\ call.rest # << >> /\ Stop /\ UNCHANGED <<handle, job>>
  BY DEF WriteFails, Fail
<1>2. Src' = Src /\ Dst' = Dst /\ (Distinct' <=> Distinct)
  BY <1>1 DEF Src, Dst, Distinct
<1>3. CASE ~Distinct
  BY <1>2, <1>3 DEF Exact
<1>4. CASE UNCHANGED data
  BY <1>1, <1>4, ExactStops
<1>5. CASE Distinct /\ ~UNCHANGED data
  <2>1. (Grows(Here.inode, Here.pos) => free # {}) /\ data' = Written
    <3>1. call.h \in Open /\ Here.pos <= Here.inode.size /\ call.rest \in Seq(Values)
      BY <1>1, WriterIs
    <3>2. Store /\ Room
      BY DEF Sound
    <3>3. \/ UNCHANGED <<data, free>>
          \/ /\ Grows(Here.inode, Here.pos) => free # {}
             /\ data' = Written /\ free' = free \ {Spot}
      BY <3>1, <3>2, WriteFailsDoes
    <3>4. QED BY <1>5, <3>3
  <2>2. /\ Fit(Src.inode) /\ Fit(Dst.inode) /\ Src.inode.size \in Nat /\ Dst.pos \in Nat /\ Src.pos \in Nat
        /\ Dst.pos <= Src.pos /\ Src.pos <= Src.inode.size /\ Books /\ data \in Data
    BY <1>5, CopyIs
  <2>3. /\ Fit(Here.inode) /\ Once(Here.inode) /\ Spot \in Blocks
        /\ Here.pos \in 0 .. Here.inode.size
        /\ Grows(Here.inode, Here.pos) => \A i \in 1 .. Len(Here.inode.blocks) : Here.inode.blocks[i] # Spot
        /\ ~Grows(Here.inode, Here.pos) => Here.inode.blocks[Here.pos \div BlockBytes + 1] = Spot
    BY <1>1, <2>1, <2>2, SpotApart
  <2>4. /\ Written \in Data /\ \A x \in Blocks \ {Spot} : Written[x] = data[x]
        /\ Chunk \in Nat /\ Lays(data, Written, Spot, Here.pos % BlockBytes, Piece, Chunk)
    BY <1>1, <2>3, WrittenLays
  <2>5. /\ job.pc = "write" /\ call.h = job.dst /\ Here = Dst
        /\ \A k \in 1 .. Src.inode.size : Bytes(Written, Src.inode)[k] = Bytes(data, Src.inode)[k]
    BY <1>1, <1>5, <2>1, <2>4, SourceStays
  <2>6. \A k \in 1 .. Here.pos : Bytes(Written, Here.inode)[k] = Bytes(data, Here.inode)[k]
    <3> DEFINE n == Here.inode
               pos == Here.pos
               e == Written
               d == data
               c == Spot
               piece == Piece
               l == Chunk
    <3>1. /\ Fit(n) /\ Once(n) /\ c \in Blocks /\ pos \in 0 .. n.size /\ e \in Data /\ d \in Data
          /\ l \in Nat /\ Lays(d, e, c, pos % BlockBytes, piece, l)
          /\ Grows(n, pos) => \A i \in 1 .. Len(n.blocks) : n.blocks[i] # c
          /\ ~Grows(n, pos) => n.blocks[pos \div BlockBytes + 1] = c
      BY <2>2, <2>3, <2>4
    <3> HIDE DEF n, pos, e, d, c, piece, l
    <3>2. \A k \in 1 .. pos : Bytes(e, n)[k] = Bytes(d, n)[k]
      BY <3>1, BytesBelow
    <3>3. QED BY <3>2 DEF n, pos, e, d
  <2>7. Same(data, Src.inode, Dst.inode, Dst.pos)
    BY <1>5 DEF Exact
  <2>8. Same(Written, Src.inode, Dst.inode, Dst.pos)
    <3>1. ASSUME NEW k \in 1 .. Dst.pos
          PROVE  Bytes(Written, Dst.inode)[k] = Bytes(Written, Src.inode)[k]
      <4>1. k \in 1 .. Src.inode.size
        BY <2>2
      <4>2. Bytes(Written, Dst.inode)[k] = Bytes(data, Dst.inode)[k]
        BY <2>5, <2>6
      <4>3. Bytes(data, Dst.inode)[k] = Bytes(data, Src.inode)[k]
        BY <2>7 DEF Same
      <4>4. QED BY <2>5, <4>1, <4>2, <4>3
    <3>2. QED BY <3>1 DEF Same
  <2>9. Pending' = << >>
    <3>1. job # NoJob /\ call.got \in Seq(Values)
      BY <1>5 DEF Distinct, NoJob, Sound, CallOK
    <3>2. call'.op = "none"
      BY <1>1, <3>1, StopDoes
    <3>3. QED BY <1>1, <2>5, <3>2 DEF Pending
  <2>10. Due(data, Src.inode, Dst.pos, Pending)'
    BY <2>9 DEF Due
  <2>11. Same(data, Src.inode, Dst.inode, Dst.pos)'
    BY <1>2, <2>1, <2>8
  <2>12. QED BY <2>10, <2>11 DEF Exact
<1>6. QED BY <1>3, <1>4, <1>5

\* A turn of the write moves what is due over to the target.
LEMMA ExactWriteTurn ==
  ASSUME Sound, BooksOK, Exact, WriteTurn
  PROVE  Exact'
<1> DEFINE m == handle'[call.h].inode
<1>1. /\ call.op = "write" /\ call.rest # << >> /\ ~dead /\ UNCHANGED job
      /\ Grows(Here.inode, Here.pos) => free # {}
      /\ Chunk \in 1 .. Len(call.rest)
      /\ handle'[call.h] = [file  |-> Here.file,
                            inode |-> Grown(Here.inode, Here.pos, Chunk, Min(free)),
                            pos   |-> Here.pos + Chunk]
      /\ \A g \in Handles \ {call.h} : handle'[g] = handle[g]
      /\ call' = [op |-> "write", h |-> call.h, want |-> call.want, rest |-> Rest, got |-> call.got]
  BY WritesDoes
<1>2. Distinct' => Distinct
  BY <1>1, StaysDistinct
<1>3. CASE ~Distinct
  BY <1>2, <1>3 DEF Exact
<1>4. CASE Distinct
  <2>1. /\ Open = {job.src, job.dst} /\ job.src # job.dst /\ Books
        /\ Src.inode.size \in Nat /\ Dst.pos \in Nat /\ Src.pos \in Nat
        /\ Src.pos <= Src.inode.size /\ Dst.inode.size \in Nat
    BY <1>4, CopyIs
  <2>2. /\ Lands(Bytes(data, Here.inode), Bytes(data', m), Here.inode.size, m.size, Here.pos, Piece, Chunk)
        /\ Fit(m) /\ Here.pos + Chunk <= m.size
        /\ data' \in Data /\ \A x \in Blocks \ {Spot} : data'[x] = data[x]
    BY <2>1, WriteTurnLands
  <2>3. m.size \in Nat
    <3> HIDE DEF m
    <3>1. QED BY <2>2, InodeFacts
  <2>4. /\ job.pc = "write" /\ call.h = job.dst /\ Here = Dst
        /\ \A k \in 1 .. Src.inode.size : Bytes(data', Src.inode)[k] = Bytes(data, Src.inode)[k]
    BY <1>1, <1>4, <2>2, SourceStays
  <2>5. Flow /\ Dst.pos + Len(call.rest) = Src.pos
    BY <1>1, <1>4, WriteFitsIn DEF Distinct
  <2>6. /\ call.rest \in Seq(Values) /\ Here.pos \in Nat
    BY <1>1, WriterIs
  <2>7. /\ \A k \in 1 .. Chunk : Piece[k] = call.rest[k]
        /\ Rest \in Seq(Values) /\ Len(Rest) = Len(call.rest) - Chunk
        /\ \A k \in 1 .. Len(Rest) : Rest[k] = call.rest[Chunk + k]
    BY <1>1, <2>6, ChunkIs
  <2>8. /\ \A k \in 1 .. Dst.pos : Bytes(data, Dst.inode)[k] = Bytes(data, Src.inode)[k]
        /\ \A k \in 1 .. Len(call.rest) : call.rest[k] = Bytes(data, Src.inode)[Dst.pos + k]
    <3>1. Pending = call.rest
      BY <1>1 DEF Pending
    <3>2. QED BY <1>4, <2>5, <3>1 DEF Exact, Same, Due
  <2>9. Src' = Src /\ Dst'.pos = Dst.pos + Chunk /\ Dst'.inode = m
    <3>1. job.src \in Handles \ {call.h}
      BY <2>1, <2>4 DEF Open
    <3>2. QED BY <1>1, <2>4, <3>1 DEF Src, Dst
  <2>10. Pending' = Rest
    BY <1>1 DEF Pending
  <2>11. Len(call.rest) \in Nat /\ Chunk \in Nat /\ Chunk <= Len(call.rest)
    BY <1>1, <2>6, LenProperties
  <2> DEFINE s == Bytes(data, Src.inode)
             u == Bytes(data', Src.inode)
             t == Bytes(data, Dst.inode)
             v == Bytes(data', m)
             size == Src.inode.size
             i == Dst.inode.size
             j == m.size
             pos == Dst.pos
             l == Chunk
             piece == Piece
             n == Len(call.rest)
             rest == call.rest
  <2>12. Laid(s, u, t, v, size, i, j, pos, l, piece, n, rest)
    BY <2>1, <2>2, <2>3, <2>4, <2>5, <2>7, <2>8, <2>11 DEF Laid
  <2> HIDE DEF s, u, t, v, size, i, j, pos, l, piece, n, rest
  <2>13. /\ \A k \in 1 .. pos + l : v[k] = u[k]
         /\ \A k \in 1 .. n - l : rest[l + k] = u[pos + l + k]
    BY <2>12, CopyLands
  <2>14. Same(data', Src.inode, m, Dst.pos + Chunk)
    BY <2>13 DEF Same, v, u, pos, l
  <2>15. Due(data', Src.inode, Dst.pos + Chunk, Rest)
    BY <2>7, <2>13 DEF Due, u, pos, l, n, rest
  <2>16. Same(data, Src.inode, Dst.inode, Dst.pos)'
    BY <2>9, <2>14
  <2>17. Due(data, Src.inode, Dst.pos, Pending)'
    BY <2>9, <2>10, <2>15
  <2>18. QED BY <2>16, <2>17 DEF Exact
<1>5. QED BY <1>3, <1>4

\* Two files are open and nothing is copied.
LEMMA ExactCopyOpen ==
  ASSUME Sound, CopyOpen
  PROVE  Exact'
<1>1. /\ job.cmd = "cp" /\ job.pc = "source" /\ UNCHANGED <<data, free, call, dead>>
      /\ \/ OpenInto(job.text[1]) /\ Targeted
         \/ job' = NoJob
  BY DEF CopyOpen, Targeted
<1>2. CASE job' = NoJob
  BY <1>2 DEF Exact, Distinct, NoJob
<1>3. CASE OpenInto(job.text[1]) /\ Targeted
  <2>1. job'.pc = "opened" /\ Dst'.pos = 0 /\ call.op = "none"
    BY <1>1, <1>3, CopyOpens
  <2>2. Pending' = << >>
    BY <1>1, <2>1 DEF Pending
  <2>3. Same(data, Src.inode, Dst.inode, Dst.pos)' /\ Due(data, Src.inode, Dst.pos, Pending)'
    BY <2>1, <2>2 DEF Same, Due
  <2>4. QED BY <2>3 DEF Exact
<1>4. QED BY <1>1, <1>2, <1>3

\* Whatever is no step of a copy.
LEMMA NoCopy ==
  ASSUME job'.cmd # "cp" \/ job'.pc \notin {"opened", "read", "write"}
  PROVE  Exact'
BY DEF Exact, Distinct

LEMMA ExactTurn ==
  ASSUME Sound, BooksOK, Exact, Turn
  PROVE  Exact'
<1>1. ReadTurn => Exact'
  <2>1. Reads => Exact'
    BY ExactReads
  <2>2. ASSUME call.op = "read", Fail, UNCHANGED <<table, data, free, handle, slots, job>>
        PROVE  Exact'
    BY <2>2, ExactStops DEF Fail
  <2>3. QED BY <2>1, <2>2, ReadTurnIs
<1>2. WriteRefused \/ Return => Exact'
  <2>1. SUFFICES ASSUME WriteRefused \/ Return PROVE Exact'
    OBVIOUS
  <2>2. Stop /\ call.op # "none" /\ UNCHANGED <<data, handle, job>>
    BY <2>1 DEF WriteRefused, Return
  <2>3. QED BY <2>2, ExactStops
<1>3. CatOpen \/ CreateFileWrite \/ CatRead \/ ListRead \/ ListAborts => Exact'
  <2>1. SUFFICES ASSUME CatOpen \/ CreateFileWrite \/ CatRead \/ ListRead \/ ListAborts PROVE Exact'
    OBVIOUS
  <2>2. job.cmd \in {"cat", "createfile", "ls"}
    BY <2>1 DEF CatOpen, CreateFileWrite, CatRead, ListRead, ListAborts
  <2>3. job = [cmd |-> job.cmd, pc |-> job.pc, src |-> job.src, dst |-> job.dst, text |-> job.text]
    BY DEF Sound, JobOK
  <2>4. \/ UNCHANGED job \/ job' = [job EXCEPT !.pc = "opened", !.src = New]
        \/ \E pc \in {"last", "read"} : job' = [job EXCEPT !.pc = pc]
    BY <2>1 DEF CatOpen, GoWild, CreateFileWrite, CatRead, ListRead, ListAborts, JobCall
  <2>5. job'.cmd = job.cmd
    BY <2>3, <2>4
  <2>6. QED BY <2>2, <2>5, NoCopy
<1>4. ListEnd \/ JobClose \/ CopyClose => Exact'
  <2>1. SUFFICES ASSUME ListEnd \/ JobClose \/ CopyClose PROVE Exact'
    OBVIOUS
  <2>2. job' = NoJob \/ job' = [job EXCEPT !.pc = "close"]
    BY <2>1 DEF ListEnd, JobClose, CopyClose
  <2>3. job = [cmd |-> job.cmd, pc |-> job.pc, src |-> job.src, dst |-> job.dst, text |-> job.text]
    BY DEF Sound, JobOK
  <2>4. job'.cmd # "cp" \/ job'.pc = "close"
    BY <2>2, <2>3 DEF NoJob
  <2>5. QED BY <2>4, NoCopy
<1>5. QED BY <1>1, <1>2, <1>3, <1>4, ExactWriteTurn, ExactWriteFails, ExactCopyOpen,
             ExactCopyRead, ExactCopyWrite DEF Turn

LEMMA ExactRequest ==
  ASSUME Request
  PROVE  Exact'
<1> DEFINE Not == job'.cmd # "cp" \/ job'.pc = "source"
<1>1. (job = NoJob /\ UNCHANGED job) => Not
  BY DEF NoJob
<1>2. Prompt => job = NoJob
  BY DEF Prompt
<1>3. ASSUME NEW f \in Files, OpenFile(f) \/ Cat(f) \/ List(f) PROVE Not
  BY <1>1, <1>2, <1>3 DEF OpenFile, Cat, List, Ready, Start, NoJob
<1>4. ASSUME NEW f \in Files, NEW text \in Texts, CreateFile(f, text) PROVE Not
  <2>1. job = NoJob
    BY <1>2, <1>4 DEF CreateFile, Start
  <2>2. \/ UNCHANGED job
        \/ job' = [NoJob EXCEPT !.cmd = "createfile", !.pc = "opened", !.src = New, !.text = text]
    BY <1>4 DEF CreateFile, GoWild
  <2>3. QED BY <1>1, <2>1, <2>2 DEF NoJob
<1>5. ASSUME NEW f \in Files, NEW g \in Files, Copy(f, g) PROVE Not
  BY <1>5 DEF Copy, NoJob
<1>6. ASSUME NEW h \in Handles, CloseFile(h) PROVE Not
  BY <1>1, <1>2, <1>6 DEF CloseFile, Ready
<1>7. ASSUME NEW h \in Handles, NEW n \in 0 .. MaxSize, Ftruncate(h, n) PROVE Not
  BY <1>1, <1>2, <1>7 DEF Ftruncate, Ready
<1>8. ASSUME NEW h \in Handles, NEW n \in Counts, Read(h, n) PROVE Not
  BY <1>1, <1>2, <1>8 DEF Read, Ready
<1>9. ASSUME NEW h \in Handles, NEW text \in Texts, Write(h, text) PROVE Not
  BY <1>1, <1>2, <1>9 DEF Write, Ready
<1>10. ASSUME NEW h \in Handles, NEW off \in -1 .. MaxSize, NEW where \in {"set", "cur", "end"},
              Lseek(h, off, where)
       PROVE  Not
  BY <1>1, <1>2, <1>10 DEF Lseek, Ready
<1>11. Restart => Not
  BY <1>1, <1>2 DEF Restart, Ready
<1> HIDE DEF Not
<1>12. Not
  BY <1>3, <1>4, <1>5, <1>6, <1>7, <1>8, <1>9, <1>10, <1>11 DEF Request
<1>13. QED BY <1>12, NoCopy DEF Not

LEMMA ExactAlways == Spec => []Exact
<1>1. Init => Exact
  BY NoCopy DEF Init, Exact, Distinct, NoJob
<1>2. Sound /\ BooksOK /\ Exact /\ [Next]_vars => Exact'
  <2>1. ASSUME Exact, UNCHANGED vars PROVE Exact'
    <3>1. UNCHANGED <<data, handle, job, call>>
      BY <2>1 DEF vars
    <3>2. Src' = Src /\ Dst' = Dst /\ Pending' = Pending
      BY <3>1 DEF Src, Dst, Pending
    <3>3. Distinct' => Distinct
      BY <3>1, <3>2 DEF Distinct
    <3>4. QED BY <2>1, <3>1, <3>2, <3>3, ExactStays
  <2>2. QED BY <2>1, ExactRequest, ExactTurn DEF Next
<1>3. QED BY <1>1, <1>2, SoundAlways, BooksAlways, PTL DEF Spec

LEMMA ExactCopies ==
  ASSUME Sound, BooksOK, Exact
  PROVE  CopyExact
<1> DEFINE src == Stream(handle[job.src].file)
           dst == Stream(handle[job.dst].file)
           p   == handle[job.dst].pos
<1> SUFFICES ASSUME Calm, job.cmd = "cp", job.pc \in {"opened", "read", "write"}
             PROVE  /\ p <= Len(src)
                    /\ SubSeq(dst, 1, p) = SubSeq(src, 1, p)
                    /\ LoopDone => p = Len(src) \/ free = {} \/ dead
  BY DEF CopyExact
<1>1. Copying /\ Store /\ Marks /\ "beyond" \notin spoiled /\ Books /\ Agree
  BY JobIs DEF BooksOK, Books
<1>2. /\ Open = {job.src, job.dst} /\ job.src # job.dst /\ Dst.pos <= Src.pos
      /\ Src.file = Dst.file => Src.inode = Dst.inode
      /\ job.pc = "read" => Asked(job.src, "read") /\ Full
      /\ dead \/ Stuck \/ Flow
  BY <1>1 DEF Copying
<1>3. /\ Fit(Src.inode) /\ Fit(Dst.inode) /\ Src.pos \in Nat /\ Dst.pos \in Nat
      /\ Src.file \in Files /\ Dst.file \in Files
  BY <1>1, <1>2, OpenedIs DEF Src, Dst
<1>4. Src.pos <= Src.inode.size /\ Dst.pos <= Dst.inode.size
  BY <1>1, <1>2 DEF Marks, Src, Dst
<1>5. View(Src.file) = Src.inode /\ View(Dst.file) = Dst.inode
  BY <1>1, <1>2, <1>3, ViewOpen DEF Src, Dst
<1>6. src = Bytes(data, Src.inode) /\ dst = Bytes(data, Dst.inode) /\ p = Dst.pos
  BY <1>5 DEF Stream, Bytes, Src, Dst
<1> HIDE DEF src, dst, p
<1>7. /\ src \in Seq(Values) /\ Len(src) = Src.inode.size /\ dst \in Seq(Values) /\ Len(dst) = Dst.inode.size
      /\ Src.inode.size \in Nat /\ Dst.inode.size \in Nat
  <2>1. data \in Data
    BY <1>1 DEF Store
  <2>2. src \in Seq(Values) /\ Len(src) = Src.inode.size
    BY <1>3, <1>6, <2>1, BytesAre
  <2>3. dst \in Seq(Values) /\ Len(dst) = Dst.inode.size
    BY <1>3, <1>6, <2>1, BytesAre
  <2>4. QED BY <1>3, <2>2, <2>3, InodeFacts
<1>8. p \in Nat /\ p <= Len(src) /\ p <= Len(dst)
  BY <1>2, <1>3, <1>4, <1>6, <1>7
<1>9. \A k \in 1 .. p : dst[k] = src[k]
  <2>1. CASE Src.file = Dst.file
    BY <1>2, <1>6, <2>1
  <2>2. CASE Src.file # Dst.file
    BY <1>6, <2>2 DEF Exact, Distinct, Same
  <2>3. QED BY <2>1, <2>2
<1>10. SubSeq(dst, 1, p) = SubSeq(src, 1, p)
  BY <1>7, <1>8, <1>9
<1>11. ASSUME LoopDone, free # {}, ~dead PROVE p = Len(src)
  <2>1. Returned /\ job.pc = "read" /\ call.got = << >>
    BY <1>11 DEF LoopDone
  <2>2. Len(<< >>) = 0
    OBVIOUS
  <2>3. Pending = << >>
    BY <2>1 DEF Pending, Returned
  <2>4. Dst.pos = Src.pos
    BY <1>2, <1>3, <1>11, <2>2, <2>3 DEF Stuck, Flow
  <2>5. Src.pos = Src.inode.size
    BY <1>2, <1>11, <2>1, <2>2, Sizes DEF Full
  <2>6. QED BY <1>6, <1>7, <2>4, <2>5
<1>12. QED BY <1>8, <1>10, <1>11

\* cp copies: up to where it is the target has the bytes of the source, on a
\* full device and a dead one too, and its loop ends only at the end of the
\* source, or when no block is left, or the device is dead (cmd_cp).
THEOREM CopyIsExact == Spec => []CopyExact
<1>1. Sound /\ BooksOK /\ Exact => CopyExact
  BY ExactCopies
<1>2. QED BY <1>1, SoundAlways, BooksAlways, ExactAlways, PTL

-----------------------------------------------------------------------------
(* The steps of ByteFiles.                                                 *)

\* What is mapped to its variables.
Content == [f \in Files |-> IF Exists(f) THEN Stream(f) ELSE NoFile]
Cursor  == [h \in Handles |-> IF h \in Open
              THEN [file |-> handle[h].file, pos |-> handle[h].pos]
              ELSE [file |-> NoFile, pos |-> 0]]
Asking  == [call EXCEPT !.rest =
              IF call.op = "write" THEN call.rest
              ELSE IF call.op = "none" THEN << >>
              ELSE SubSeq(Stream(Here.file), Here.pos + 1, Here.pos + call.rest)]
Whole   == spoiled = {} /\ spoiled' = {}

LEMMA MapsOpen ==
  ASSUME Whole, NEW h \in Handles, NEW f \in Files,
         Asking.op = "none", Cursor[h].file = NoFile, Asking' = Asking,
         Content' = [Content EXCEPT ![f] = IF Content[f] = NoFile THEN << >> ELSE Content[f]],
         Cursor' = [Cursor EXCEPT ![h] = [file |-> f, pos |-> 0]]
  PROVE  Abstract!Next
<1>1. Abstract!Open(h, f)
  BY DEF Abstract!Open, Abstract!IsOpen, Content, Cursor, Asking
<1>2. Abstract!Step
  BY <1>1 DEF Abstract!Step
<1>3. QED BY <1>2 DEF Abstract!Next, Whole

LEMMA MapsClose ==
  ASSUME Whole, NEW h \in Handles, Asking.op = "none", Asking'.op = "none",
         Cursor' = [Cursor EXCEPT ![h] = [file |-> NoFile, pos |-> 0]], Content' = Content
  PROVE  Abstract!Next
<1>1. Abstract!Close(h)
  BY DEF Abstract!Close, Abstract!Closed, Content, Cursor, Asking
<1>2. Abstract!Step
  BY <1>1 DEF Abstract!Step
<1>3. QED BY <1>2 DEF Abstract!Next, Whole

LEMMA MapsSeek ==
  ASSUME Whole, NEW h \in Handles, NEW n \in 0 .. Len(Content[Cursor[h].file]), n <= Len(Content[Cursor[h].file]),
         Asking.op = "none", Asking' = Asking, Cursor[h].file # NoFile,
         Cursor' = [Cursor EXCEPT ![h].pos = n], Content' = Content
  PROVE  Abstract!Next
<1>1. Abstract!Seek(h, n) /\ Abstract!IsOpen(h) /\ n \in 0 .. Len(Abstract!Bytes(h))
  BY DEF Abstract!Seek, Abstract!IsOpen, Abstract!Bytes, Content, Cursor, Asking
<1>2. Abstract!Step
  BY <1>1 DEF Abstract!Step
<1>3. QED BY <1>2 DEF Abstract!Next, Whole

LEMMA MapsTruncate ==
  ASSUME Whole, NEW h \in Handles, NEW n \in 0 .. Len(Content[Cursor[h].file]), n < Len(Content[Cursor[h].file]),
         Asking.op = "none", Asking' = Asking, Cursor[h].file # NoFile,
         Content' = [Content EXCEPT ![Cursor[h].file] = SubSeq(Content[Cursor[h].file], 1, n)],
         Cursor' = Cursor
  PROVE  Abstract!Next
<1>1. Abstract!Truncate(h, n) /\ Abstract!IsOpen(h) /\ n \in 0 .. Len(Abstract!Bytes(h))
  BY DEF Abstract!Truncate, Abstract!IsOpen, Abstract!Bytes, Content, Cursor, Asking
<1>2. Abstract!Step
  BY <1>1 DEF Abstract!Step
<1>3. QED BY <1>2 DEF Abstract!Next, Whole

LEMMA MapsBeginRead ==
  ASSUME Whole, NEW h \in Handles, Asking.op = "none", Cursor[h].file # NoFile,
         Asking'.op = "read", Asking'.h = h, Asking'.got = << >>,
         Asking'.rest = SubSeq(Content[Cursor[h].file], Cursor[h].pos + 1,
                               Min({Cursor[h].pos + Asking'.want, Len(Content[Cursor[h].file])})),
         Content' = Content, Cursor' = Cursor
  PROVE  Abstract!Next
<1>1. Abstract!BeginRead(h)
  BY DEF Abstract!BeginRead, Abstract!IsOpen, Abstract!Bytes, Abstract!Min, Min, Content, Cursor, Asking
<1>2. Abstract!Step
  BY <1>1 DEF Abstract!Step
<1>3. QED BY <1>2 DEF Abstract!Next, Whole

LEMMA MapsBeginWrite ==
  ASSUME Whole, NEW h \in Handles, Asking.op = "none", Cursor[h].file # NoFile,
         Asking'.op = "write", Asking'.h = h, Asking'.got = << >>,
         Content' = Content, Cursor' = Cursor
  PROVE  Abstract!Next
<1>1. Abstract!BeginWrite(h)
  BY DEF Abstract!BeginWrite, Abstract!IsOpen, Content, Cursor, Asking
<1>2. Abstract!Step
  BY <1>1 DEF Abstract!Step
<1>3. QED BY <1>2 DEF Abstract!Next, Whole

LEMMA MapsReadSome ==
  ASSUME Whole, Asking.op = "read", NEW n \in 1 .. Len(Asking.rest),
         Asking' = [Asking EXCEPT !.rest = SubSeq(Asking.rest, n + 1, Len(Asking.rest)),
                                  !.got = Asking.got \o SubSeq(Asking.rest, 1, n)],
         Cursor' = [Cursor EXCEPT ![Asking.h].pos = Cursor[Asking.h].pos + n], Content' = Content
  PROVE  Abstract!Next
<1>1. Abstract!ReadSome
  BY DEF Abstract!ReadSome, Content, Cursor, Asking
<1>2. Abstract!Step
  BY <1>1 DEF Abstract!Step
<1>3. QED BY <1>2 DEF Abstract!Next, Whole

LEMMA MapsWriteSome ==
  ASSUME Whole, Asking.op = "write", NEW n \in 1 .. Len(Asking.rest),
         Content' = [Content EXCEPT ![Cursor[Asking.h].file] =
                        Abstract!Overlay(Content[Cursor[Asking.h].file], Cursor[Asking.h].pos, SubSeq(Asking.rest, 1, n))],
         Asking' = [Asking EXCEPT !.rest = SubSeq(Asking.rest, n + 1, Len(Asking.rest))],
         Cursor' = [Cursor EXCEPT ![Asking.h].pos = Cursor[Asking.h].pos + n]
  PROVE  Abstract!Next
<1>1. Abstract!WriteSome
  BY DEF Abstract!WriteSome, Content, Cursor, Asking
<1>2. Abstract!Step
  BY <1>1 DEF Abstract!Step
<1>3. QED BY <1>2 DEF Abstract!Next, Whole

LEMMA MapsReturn ==
  ASSUME Whole, Asking.op = "read" => Asking.rest = << >>, Asking'.op = "none",
         Content' = Content, Cursor' = Cursor
  PROVE  Abstract!Next
<1>1. Abstract!Return
  BY DEF Abstract!Return, Content, Cursor, Asking
<1>2. Abstract!Step
  BY <1>1 DEF Abstract!Step
<1>3. QED BY <1>2 DEF Abstract!Next, Whole

LEMMA MapsNothing ==
  ASSUME Whole, Content' = Content, Cursor' = Cursor, Asking' = Asking
  PROVE  UNCHANGED Abstract!vars
BY DEF Abstract!vars, Content, Cursor, Asking, Whole

\* The three, written out.
ContentIs ==
    /\ Content = [f \in Files |-> Content[f]]
    /\ \A f \in Files : Content[f] = IF Exists(f) THEN Bytes(data, View(f)) ELSE NoFile

CursorIs ==
    /\ Cursor = [h \in Handles |-> Cursor[h]]
    /\ \A h \in Handles : Cursor[h] = IF h \in Open
                             THEN [file |-> handle[h].file, pos |-> handle[h].pos]
                             ELSE [file |-> NoFile, pos |-> 0]

AskingIs ==
    CallOK /\ Store =>
      /\ Asking = [op |-> call.op, h |-> call.h, want |-> call.want, rest |-> Asking.rest, got |-> call.got]
      /\ call.op = "write" => Asking.rest = call.rest
      /\ call.op = "none" => Asking.rest = << >>
      /\ call.op = "read" => Asking.rest = SubSeq(Content[Here.file], Here.pos + 1, Here.pos + call.rest)

LEMMA ContentHolds == ContentIs
BY DEF ContentIs, Content, Stream, Bytes

LEMMA ContentNext == ContentIs'
BY ContentHolds, PTL

LEMMA CursorHolds == CursorIs
BY DEF CursorIs, Cursor

LEMMA CursorNext == CursorIs'
BY CursorHolds, PTL

LEMMA AskingHolds == AskingIs
<1> SUFFICES ASSUME CallOK, Store
             PROVE  /\ Asking = [op |-> call.op, h |-> call.h, want |-> call.want, rest |-> Asking.rest, got |-> call.got]
                    /\ call.op = "write" => Asking.rest = call.rest
                    /\ call.op = "none" => Asking.rest = << >>
                    /\ call.op = "read" => Asking.rest = SubSeq(Content[Here.file], Here.pos + 1, Here.pos + call.rest)
  BY DEF AskingIs
<1> DEFINE r == IF call.op = "write" THEN call.rest
                ELSE IF call.op = "none" THEN << >>
                ELSE SubSeq(Stream(Here.file), Here.pos + 1, Here.pos + call.rest)
<1>1. Asking = [call EXCEPT !.rest = r]
  BY DEF Asking
<1>2. call = [op |-> call.op, h |-> call.h, want |-> call.want, rest |-> call.rest, got |-> call.got]
  BY DEF CallOK
<1> HIDE DEF r
<1>3. Asking = [op |-> call.op, h |-> call.h, want |-> call.want, rest |-> r, got |-> call.got]
  BY <1>1, <1>2
<1>4. Asking.rest = r
  BY <1>3
<1>5. call.op = "read" => Content[Here.file] = Stream(Here.file)
  <2>1. SUFFICES ASSUME call.op = "read" PROVE Content[Here.file] = Stream(Here.file)
    OBVIOUS
  <2>2. call.h \in Open
    BY <2>1 DEF CallOK
  <2>3. Here.file \in Files /\ Exists(Here.file)
    BY <2>2, OpenedIs DEF Here
  <2>4. QED BY <2>3 DEF Content
<1>6. QED BY <1>3, <1>4, <1>5 DEF r

LEMMA AskingNext == AskingIs'
BY AskingHolds, PTL

\* What does not change there.
LEMMA ContentSame ==
  ASSUME UNCHANGED data, \A f \in Files : Exists(f)' <=> Exists(f), \A f \in Files : View(f)' = View(f)
  PROVE  Content' = Content
<1>1. \A f \in Files : Content'[f] = Content[f]
  BY ContentHolds, ContentNext DEF ContentIs
<1>2. QED BY <1>1, ContentHolds, ContentNext DEF ContentIs

LEMMA CursorSame ==
  ASSUME Open' = Open,
         \A h \in Open : handle'[h].file = handle[h].file /\ handle'[h].pos = handle[h].pos
  PROVE  Cursor' = Cursor
<1>1. \A h \in Handles : Cursor'[h] = Cursor[h]
  BY CursorHolds, CursorNext DEF CursorIs
<1>2. QED BY <1>1, CursorHolds, CursorNext DEF CursorIs

LEMMA AskingIdle ==
  ASSUME call.op = "none", UNCHANGED call
  PROVE  Asking' = Asking
BY DEF Asking

LEMMA FilesSame ==
  ASSUME Agree, UNCHANGED <<table, data, handle>>
  PROVE  Content' = Content /\ Cursor' = Cursor
<1>1. Open' = Open
  BY DEF Open
<1>2. \A f \in Files : View(f)' = View(f)
  <2>1. Agree' /\ \A f \in Files : View(f)' = View(f) /\ (OpenOn(f)' = {} <=> OpenOn(f) = {})
    BY <1>1, ViewsStay
  <2>2. QED BY <2>1
<1>3. Content' = Content
  <2>1. \A f \in Files : Exists(f)' <=> Exists(f)
    BY DEF Exists
  <2>2. QED BY <1>2, <2>1, ContentSame
<1>4. Cursor' = Cursor
  BY <1>1, CursorSame
<1>5. QED BY <1>3, <1>4

\* While nothing went wrong all files are known.
LEMMA WholeIs ==
  ASSUME Sound, BooksOK, Whole
  PROVE  /\ Store /\ Room /\ Marks /\ CallOK /\ JobOK /\ Books /\ Agree /\ ~dead /\ Known = Files
         /\ "beyond" \notin spoiled /\ "stale" \notin spoiled'
<1>1. Store /\ Room /\ Marks /\ CallOK /\ JobOK /\ Books /\ "beyond" \notin spoiled /\ "stale" \notin spoiled'
  BY DEF Sound, BooksOK, Calm, Whole
<1>2. ~dead /\ Agree
  BY <1>1 DEF Marks, Books, Whole
<1>3. Known = Files
  BY <1>2 DEF Known
<1>4. QED BY <1>1, <1>2, <1>3

LEMMA IdleIs ==
  ASSUME CallOK, Store, call.op = "none"
  PROVE  Asking.op = "none" /\ Asking.h = call.h /\ Asking.got = call.got
BY AskingHolds DEF AskingIs

-----------------------------------------------------------------------------
(* The calls, as steps of ByteFiles.                                       *)

LEMMA KeepsOpen ==
  ASSUME Sound, BooksOK, Whole, NEW f \in Files, OpenInto(f), UNCHANGED <<data, free, call, dead>>,
         Cardinality(Open) < Cardinality(Handles), call.op = "none"
  PROVE  Abstract!Next
<1>1. Store /\ Room /\ Marks /\ CallOK /\ Books /\ Agree /\ "stale" \notin spoiled'
  BY WholeIs
<1>2. /\ New \in Handles /\ New \notin Open /\ Open' = Open \cup {New}
      /\ handle'[New] = [file |-> f, inode |-> Held(f), pos |-> 0]
      /\ \A h \in Handles \ {New} : handle'[h] = handle[h]
      /\ table'[f] = Held(f) /\ \A g \in Files \ {f} : table'[g] = table[g]
  BY <1>1, OpenIntoDoes
<1>3. /\ View(f)' = Held(f) /\ (Exists(f) => View(f) = Held(f))
      /\ \A g \in Files \ {f} : View(g)' = View(g)
  BY <1>1, BooksOpen
<1>4. Held(f) # NoInode /\ Fit(Held(f)) /\ (~Exists(f) => Held(f).size = 0)
  <2>1. Fit(Held(f)) /\ (~Exists(f) => Held(f).size = 0)
    BY <1>1, HeldIs
  <2> DEFINE n == Held(f)
  <2> HIDE DEF n
  <2>2. Fit(n)
    BY <2>1 DEF n
  <2>3. n # NoInode
    BY <2>2, InodeFacts
  <2>4. QED BY <2>1, <2>3 DEF n
<1> DEFINE h == New
           n == Held(f)
<1> HIDE DEF h, n
<1>5. data \in Data /\ Fit(n) /\ (~Exists(f) => n.size = 0)
  BY <1>1, <1>4 DEF Store, n
<1>6. Bytes(data, n) \in Seq(Values) /\ Len(Bytes(data, n)) = n.size
  BY <1>5, BytesAre
<1>7. Bytes(data, n) # NoFile /\ (~Exists(f) => Bytes(data, n) = << >>)
  BY <1>5, <1>6, NamesAssumption DEF Values
<1>8. Content'[f] = IF Content[f] = NoFile THEN << >> ELSE Content[f]
  <2>1. Content'[f] = Bytes(data, n)
    BY <1>2, <1>3, <1>4, ContentNext DEF ContentIs, Exists, n
  <2>2. Content[f] = IF Exists(f) THEN Bytes(data, n) ELSE NoFile
    BY <1>3, ContentHolds DEF ContentIs, n
  <2>3. QED BY <1>7, <2>1, <2>2
<1>9. \A g \in Files \ {f} : Content'[g] = Content[g]
  BY <1>2, <1>3, ContentHolds, ContentNext DEF ContentIs, Exists
<1>10. Content' = [Content EXCEPT ![f] = IF Content[f] = NoFile THEN << >> ELSE Content[f]]
  <2> DEFINE x == IF Content[f] = NoFile THEN << >> ELSE Content[f]
  <2>1. Content'[f] = x
    BY <1>8
  <2> HIDE DEF x
  <2>2. Content' = [Content EXCEPT ![f] = x]
    BY <1>9, <2>1, ContentHolds, ContentNext DEF ContentIs
  <2>3. QED BY <2>2 DEF x
<1>11. Cursor'[h] = [file |-> f, pos |-> 0] /\ Cursor[h].file = NoFile
  BY <1>2, CursorHolds, CursorNext DEF CursorIs, h
<1>12. \A g \in Handles \ {h} : Cursor'[g] = Cursor[g]
  BY <1>2, CursorHolds, CursorNext DEF CursorIs, h
<1>13. h \in Handles
  BY <1>2 DEF h
<1>14. Cursor' = [Cursor EXCEPT ![h] = [file |-> f, pos |-> 0]]
  BY <1>11, <1>12, <1>13, CursorHolds, CursorNext DEF CursorIs
<1>15. Asking' = Asking /\ Asking.op = "none"
  BY <1>1, AskingIdle, IdleIs
<1>16. QED BY <1>10, <1>11, <1>13, <1>14, <1>15, MapsOpen

\* An open file, there.
LEMMA AtHandle ==
  ASSUME Store, Agree, NEW h \in Open
  PROVE  /\ h \in Handles /\ Fit(handle[h].inode) /\ handle[h].file \in Files /\ handle[h].pos \in Nat
         /\ Cursor[h] = [file |-> handle[h].file, pos |-> handle[h].pos] /\ Cursor[h].file # NoFile
         /\ Content[handle[h].file] = Bytes(data, handle[h].inode)
         /\ Bytes(data, handle[h].inode) \in Seq(Values)
         /\ Len(Bytes(data, handle[h].inode)) = handle[h].inode.size
         /\ handle[h].inode.size \in Nat /\ handle[h].inode.size <= MaxSize
<1>1. /\ h \in Handles /\ handle[h].file \in Files /\ Exists(handle[h].file)
      /\ Fit(handle[h].inode) /\ handle[h].pos \in Nat
  BY OpenedIs
<1>2. Cursor[h] = [file |-> handle[h].file, pos |-> handle[h].pos]
  BY <1>1, CursorHolds DEF CursorIs
<1>3. Cursor[h].file # NoFile
  BY <1>1, <1>2, NamesAssumption
<1>4. View(handle[h].file) = handle[h].inode
  BY <1>1, ViewOpen
<1>5. Content[handle[h].file] = Bytes(data, handle[h].inode)
  BY <1>1, <1>4, ContentHolds DEF ContentIs
<1> DEFINE n == handle[h].inode
<1> HIDE DEF n
<1>6. data \in Data /\ Fit(n)
  BY <1>1 DEF Store, n
<1>7. Bytes(data, n) \in Seq(Values) /\ Len(Bytes(data, n)) = n.size
  BY <1>6, BytesAre
<1>8. n.size \in Nat /\ n.size <= MaxSize
  BY <1>6, InodeFacts, Sizes
<1>9. QED BY <1>1, <1>2, <1>3, <1>5, <1>7, <1>8 DEF n

\* Nobody has the file any more.
LEMMA KeepsGone ==
  ASSUME Whole, CallOK, Store, CallOK', Store', call.op = "none", call'.op = "none",
         NEW h \in Handles, Open' = Open \ {h}, \A g \in Handles \ {h} : handle'[g] = handle[g],
         UNCHANGED data, \A f \in Files : Exists(f)' <=> Exists(f), \A f \in Files : View(f)' = View(f)
  PROVE  Abstract!Next
<1>1. Content' = Content
  BY ContentSame
<1>2. Cursor'[h] = [file |-> NoFile, pos |-> 0] /\ \A g \in Handles \ {h} : Cursor'[g] = Cursor[g]
  BY CursorHolds, CursorNext DEF CursorIs
<1>3. Cursor' = [Cursor EXCEPT ![h] = [file |-> NoFile, pos |-> 0]]
  BY <1>2, CursorHolds, CursorNext DEF CursorIs
<1>4. Asking.op = "none"
  BY IdleIs
<1>5. Asking'.op = "none"
  BY AskingNext DEF AskingIs
<1>6. QED BY <1>1, <1>3, <1>4, <1>5, MapsClose

LEMMA KeepsClose ==
  ASSUME Sound, Sound', BooksOK, Whole, NEW h \in Open, CloseSlot(h), UNCHANGED <<data, free, dead, spoiled>>,
         call.op = "none", call'.op = "none"
  PROVE  Abstract!Next
<1>1. /\ Store /\ Room /\ Marks /\ CallOK /\ Books /\ ~dead /\ dead \in BOOLEAN
  BY WholeIs DEF Marks
<1>2. CallOK' /\ Store'
  BY DEF Sound
<1>3. /\ Open' = Open \ {h} /\ \A g \in Handles \ {h} : handle'[g] = handle[g]
      /\ table'[handle[h].file] = handle[h].inode
      /\ \A g \in Files \ {handle[h].file} : table'[g] = table[g]
  BY <1>1, CloseSlotDoes
<1>4. \A f \in Files : View(f)' = View(f)
  BY <1>1, BooksCloseSlot
<1>5. \A f \in Files : Exists(f)' <=> Exists(f)
  <2>1. Exists(handle[h].file) /\ Fit(handle[h].inode)
    BY <1>1, OpenedIs
  <2> DEFINE n == handle[h].inode
  <2> HIDE DEF n
  <2>2. Fit(n)
    BY <2>1 DEF n
  <2>3. n # NoInode
    BY <2>2, InodeFacts
  <2>4. QED BY <1>3, <2>1, <2>3 DEF Exists, n
<1>6. h \in Handles
  BY <1>1, OpenedIs
<1>7. QED BY <1>1, <1>2, <1>3, <1>4, <1>5, <1>6, KeepsGone

LEMMA KeepsForget ==
  ASSUME Sound, Sound', BooksOK, Whole, NEW h \in Open, handle[h].inode = table[handle[h].file], Forget(h),
         UNCHANGED <<table, data, free, slots, dead, spoiled>>, call.op = "none", call'.op = "none"
  PROVE  Abstract!Next
<1>1. /\ Store /\ Room /\ CallOK /\ Books /\ ~dead
  BY WholeIs
<1>2. CallOK' /\ Store'
  BY DEF Sound
<1>3. Open' = Open \ {h} /\ \A g \in Handles \ {h} : handle'[g] = handle[g]
  BY <1>1, ForgetDoes
<1>4. \A f \in Files : View(f)' = View(f)
  BY <1>1, BooksForget
<1>5. \A f \in Files : Exists(f)' <=> Exists(f)
  BY DEF Exists
<1>6. h \in Handles
  BY <1>1, OpenedIs
<1>7. QED BY <1>1, <1>2, <1>3, <1>4, <1>5, <1>6, KeepsGone

\* A call that only moves.
LEMMA CursorMoves ==
  ASSUME Store, NEW h \in Open, NEW p \in Nat, Open' = Open,
         handle'[h].file = handle[h].file, handle'[h].pos = p,
         \A g \in Handles \ {h} : handle'[g] = handle[g]
  PROVE  Cursor' = [Cursor EXCEPT ![h].pos = p]
<1>1. h \in Handles
  BY OpenedIs
<1>2. Cursor[h] = [file |-> handle[h].file, pos |-> handle[h].pos]
  BY <1>1, CursorHolds DEF CursorIs
<1>3. Cursor'[h] = [file |-> handle[h].file, pos |-> p]
  BY <1>1, CursorNext DEF CursorIs
<1>4. \A g \in Handles \ {h} : Cursor'[g] = Cursor[g]
  BY CursorHolds, CursorNext DEF CursorIs
<1>5. Cursor'[h] = [Cursor[h] EXCEPT !.pos = p]
  BY <1>2, <1>3
<1>6. QED BY <1>1, <1>4, <1>5, CursorHolds, CursorNext DEF CursorIs

LEMMA KeepsLseek ==
  ASSUME Sound, BooksOK, Whole, NEW h \in Handles, NEW off \in -1 .. MaxSize,
         NEW where \in {"set", "cur", "end"}, Lseek(h, off, where)
  PROVE  Abstract!Next
<1>1. /\ Store /\ Room /\ CallOK /\ Agree
  BY WholeIs
<1>2. /\ h \in Open /\ UNCHANGED <<table, data, free, slots, call, job, dead>> /\ Prompt
  BY DEF Lseek, Ready
<1>3. call.op = "none"
  BY <1>2, PromptIs
<1>4. off >= 0 /\ handle' = [handle EXCEPT ![h].pos = off]
  BY DEF Lseek, Note, Whole
<1>5. Open' = Open /\ off \in 0 .. handle[h].inode.size
  BY <1>4, SoundLseek
<1>6. /\ Cursor[h].file # NoFile /\ Cursor[h].file = handle[h].file
      /\ Content[handle[h].file] = Bytes(data, handle[h].inode)
      /\ Len(Bytes(data, handle[h].inode)) = handle[h].inode.size
      /\ handle[h].inode.size \in Nat /\ handle[h].inode.size <= MaxSize
  <2>1. /\ Cursor[h] = [file |-> handle[h].file, pos |-> handle[h].pos] /\ Cursor[h].file # NoFile
        /\ Content[handle[h].file] = Bytes(data, handle[h].inode)
        /\ Len(Bytes(data, handle[h].inode)) = handle[h].inode.size
        /\ handle[h].inode.size \in Nat /\ handle[h].inode.size <= MaxSize
    BY <1>1, <1>2, AtHandle
  <2>2. QED BY <2>1
<1>7. off \in 0 .. MaxSize /\ off \in Nat
  BY <1>5, <1>6, Sizes
<1>8. /\ handle'[h] = [file |-> handle[h].file, inode |-> handle[h].inode, pos |-> off]
      /\ \A g \in Handles \ {h} : handle'[g] = handle[g]
  BY <1>1, <1>2, <1>4, <1>7, MoveDoes
<1>9. Cursor' = [Cursor EXCEPT ![h].pos = off]
  BY <1>1, <1>2, <1>5, <1>7, <1>8, CursorMoves
<1>10. \A f \in Files : View(f)' = View(f)
  <2>1. \A g \in Open : handle'[g].file = handle[g].file /\ handle'[g].inode = handle[g].inode
    BY <1>8 DEF Open
  <2>2. Agree' /\ \A f \in Files : View(f)' = View(f) /\ (OpenOn(f)' = {} <=> OpenOn(f) = {})
    BY <1>1, <1>2, <1>5, <2>1, ViewsStay
  <2>3. QED BY <2>2
<1>11. Content' = Content
  <2>1. \A f \in Files : Exists(f)' <=> Exists(f)
    BY <1>2 DEF Exists
  <2>2. QED BY <1>2, <1>10, <2>1, ContentSame
<1>12. Asking' = Asking /\ Asking.op = "none"
  BY <1>1, <1>2, <1>3, AskingIdle, IdleIs
<1>13. off \in 0 .. Len(Content[Cursor[h].file]) /\ off <= Len(Content[Cursor[h].file])
  BY <1>5, <1>6, <1>7
<1>14. QED BY <1>6, <1>9, <1>11, <1>12, <1>13, MapsSeek

\* The calls begin, and end.
LEMMA KeepsRead ==
  ASSUME Sound, Sound', BooksOK, Whole, NEW h \in Open, NEW want \in Nat \ {0},
         call' = Reading(h, want), UNCHANGED <<table, data, handle>>, call.op = "none"
  PROVE  Abstract!Next
<1>1. /\ Store /\ Marks /\ CallOK /\ Agree /\ "beyond" \notin spoiled
  BY WholeIs
<1>2. CallOK' /\ Store'
  BY DEF Sound
<1>3. Content' = Content /\ Cursor' = Cursor
  BY <1>1, FilesSame
<1>4. /\ h \in Handles /\ handle[h].pos \in Nat
      /\ Cursor[h] = [file |-> handle[h].file, pos |-> handle[h].pos] /\ Cursor[h].file # NoFile
      /\ Content[handle[h].file] = Bytes(data, handle[h].inode)
      /\ Len(Bytes(data, handle[h].inode)) = handle[h].inode.size
      /\ handle[h].inode.size \in Nat
  BY <1>1, AtHandle
<1> DEFINE c == Reading(h, want)
<1>5. c = [op |-> "read", h |-> h, want |-> want, rest |-> c.rest, got |-> << >>]
  BY <1>1, ReadingIs
<1>6. c.rest = Min({want, handle[h].inode.size - handle[h].pos})
  BY DEF Reading
<1> HIDE DEF c
<1>7. call'.op = "read" /\ call'.h = h /\ call'.want = want /\ call'.got = << >> /\ call'.rest = c.rest
  BY <1>5 DEF c
<1>8. /\ Asking' = [op |-> call'.op, h |-> call'.h, want |-> call'.want, rest |-> Asking'.rest, got |-> call'.got]
      /\ Asking'.rest = SubSeq(Content'[Here'.file], Here'.pos + 1, Here'.pos + call'.rest)
  BY <1>2, <1>7, AskingNext DEF AskingIs
<1>9. Here' = handle[h]
  BY <1>7 DEF Here
<1>10. Asking'.op = "read" /\ Asking'.h = h /\ Asking'.got = << >> /\ Asking'.want = want
  BY <1>7, <1>8
<1> DEFINE pos == handle[h].pos
           size == handle[h].inode.size
<1>11. pos + Min({want, size - pos}) = Min({pos + want, size})
  <2>1. pos \in Nat /\ size \in Nat
    BY <1>4
  <2> HIDE DEF pos, size
  <2>2. Min({want, size - pos}) = IF want <= size - pos THEN want ELSE size - pos
    BY <2>1, MinOfTwo
  <2>3. Min({pos + want, size}) = IF pos + want <= size THEN pos + want ELSE size
    BY <2>1, MinOfTwo
  <2>4. QED BY <2>1, <2>2, <2>3
<1>12. Asking'.rest = SubSeq(Content[Cursor[h].file], Cursor[h].pos + 1,
                             Min({Cursor[h].pos + Asking'.want, Len(Content[Cursor[h].file])}))
  <2>1. Asking'.rest = SubSeq(Content[handle[h].file], pos + 1, Min({pos + want, size}))
    BY <1>3, <1>6, <1>7, <1>8, <1>9, <1>11
  <2>2. Cursor[h].file = handle[h].file /\ Cursor[h].pos = pos /\ Len(Content[handle[h].file]) = size
    BY <1>4
  <2>3. QED BY <1>10, <2>1, <2>2
<1>13. Asking.op = "none"
  BY <1>1, IdleIs
<1>14. QED BY <1>3, <1>4, <1>10, <1>12, <1>13, MapsBeginRead

LEMMA KeepsWrite ==
  ASSUME Sound, Sound', BooksOK, Whole, NEW h \in Open, NEW bytes,
         call' = Writing(h, bytes), UNCHANGED <<table, data, handle>>, call.op = "none"
  PROVE  Abstract!Next
<1>1. /\ Store /\ CallOK /\ Agree
  BY WholeIs
<1>2. CallOK' /\ Store'
  BY DEF Sound
<1>3. Content' = Content /\ Cursor' = Cursor
  BY <1>1, FilesSame
<1>4. h \in Handles /\ Cursor[h].file # NoFile
  BY <1>1, AtHandle
<1>5. call'.op = "write" /\ call'.h = h /\ call'.got = << >>
  BY DEF Writing
<1>6. Asking' = [op |-> call'.op, h |-> call'.h, want |-> call'.want, rest |-> Asking'.rest, got |-> call'.got]
  BY <1>2, AskingNext DEF AskingIs
<1>7. Asking'.op = "write" /\ Asking'.h = h /\ Asking'.got = << >>
  BY <1>5, <1>6
<1>8. Asking.op = "none"
  BY <1>1, IdleIs
<1>9. QED BY <1>3, <1>4, <1>7, <1>8, MapsBeginWrite

LEMMA KeepsEnd ==
  ASSUME Sound, Sound', BooksOK, Whole, UNCHANGED <<table, data, handle>>,
         call.op = "read" => call.rest = 0, call'.op = "none"
  PROVE  Abstract!Next
<1>1. /\ Store /\ CallOK /\ Agree
  BY WholeIs
<1>2. CallOK' /\ Store'
  BY DEF Sound
<1>3. Content' = Content /\ Cursor' = Cursor
  BY <1>1, FilesSame
<1>4. Asking'.op = "none"
  <2>1. Asking' = [op |-> call'.op, h |-> call'.h, want |-> call'.want, rest |-> Asking'.rest, got |-> call'.got]
    BY <1>2, AskingNext DEF AskingIs
  <2>2. QED BY <2>1
<1>5. Asking = [op |-> call.op, h |-> call.h, want |-> call.want, rest |-> Asking.rest, got |-> call.got]
  BY <1>1, AskingHolds DEF AskingIs
<1>6. ASSUME Asking.op = "read" PROVE Asking.rest = << >>
  <2>1. call.op = "read"
    BY <1>5, <1>6
  <2>2. call.rest = 0 /\ call.h \in Open /\ Here.pos + call.rest <= Here.inode.size
    BY <1>1, <2>1 DEF CallOK
  <2>3. Asking.rest = SubSeq(Content[Here.file], Here.pos + 1, Here.pos + call.rest)
    BY <1>1, <2>1, AskingHolds DEF AskingIs
  <2> DEFINE h == call.h
  <2> HIDE DEF h
  <2>4. /\ handle[h].pos \in Nat /\ Content[handle[h].file] = Bytes(data, handle[h].inode)
        /\ Bytes(data, handle[h].inode) \in Seq(Values)
        /\ Len(Bytes(data, handle[h].inode)) = handle[h].inode.size
    BY <1>1, <2>2, AtHandle DEF h
  <2> DEFINE s == Content[Here.file]
             a == Here.pos
  <2>5. a \in Nat /\ s \in Seq(Values) /\ a <= Len(s)
    BY <2>2, <2>4 DEF h, Here
  <2> HIDE DEF s, a
  <2>6. SubSeq(s, a + 1, a) \in Seq(Values) /\ Len(SubSeq(s, a + 1, a)) = 0
    BY <2>5, PieceIs
  <2>7. SubSeq(s, a + 1, a) = << >>
    BY <2>6
  <2>8. Here.pos + call.rest = Here.pos
    BY <2>2, <2>5 DEF a
  <2>9. QED BY <2>3, <2>7, <2>8 DEF s, a
<1>7. QED BY <1>3, <1>4, <1>6, MapsReturn

\* Pieces of a piece.
LEMMA PieceOfPiece ==
  ASSUME NEW S, NEW s \in Seq(S), NEW a \in Nat, NEW r \in Nat, NEW n \in 0 .. r, a + r <= Len(s)
  PROVE  LET w == SubSeq(s, a + 1, a + r)
         IN  /\ w \in Seq(S) /\ Len(w) = r
             /\ SubSeq(w, n + 1, Len(w)) = SubSeq(s, a + n + 1, a + r)
             /\ SubSeq(w, 1, n) = SubSeq(s, a + 1, a + n)
<1> DEFINE w == SubSeq(s, a + 1, a + r)
<1>1. Len(s) \in Nat
  BY LenProperties
<1>2. w \in Seq(S) /\ Len(w) = r /\ \A k \in 1 .. r : w[k] = s[a + k]
  <2>1. PICK b \in Nat : b = a + r
    OBVIOUS
  <2>2. /\ SubSeq(s, a + 1, b) \in Seq(S)
        /\ Len(SubSeq(s, a + 1, b)) = IF a < b THEN b - a ELSE 0
        /\ \A k \in 1 .. b - a : SubSeq(s, a + 1, b)[k] = s[a + k]
    BY <2>1, PieceIs
  <2>3. b - a = r
    BY <2>1
  <2>4. QED BY <2>1, <2>2, <2>3
<1> HIDE DEF w
<1>3. SubSeq(w, n + 1, Len(w)) = SubSeq(s, a + n + 1, a + r)
  <2>1. /\ SubSeq(w, n + 1, r) \in Seq(S)
        /\ Len(SubSeq(w, n + 1, r)) = IF n < r THEN r - n ELSE 0
        /\ \A k \in 1 .. r - n : SubSeq(w, n + 1, r)[k] = w[n + k]
    BY <1>2, PieceIs
  <2>2. PICK c \in Nat, b \in Nat : c = a + n /\ b = a + r
    OBVIOUS
  <2>3. /\ SubSeq(s, c + 1, b) \in Seq(S)
        /\ Len(SubSeq(s, c + 1, b)) = IF c < b THEN b - c ELSE 0
        /\ \A k \in 1 .. b - c : SubSeq(s, c + 1, b)[k] = s[c + k]
    BY <2>2, PieceIs, SMTT(60)
  <2> DEFINE x == SubSeq(w, n + 1, r)
             y == SubSeq(s, c + 1, b)
  <2>4. /\ x \in Seq(S) /\ y \in Seq(S) /\ Len(x) = r - n /\ Len(y) = r - n
        /\ \A k \in 1 .. r - n : x[k] = w[n + k] /\ y[k] = s[c + k]
    BY <2>1, <2>2, <2>3
  <2> HIDE DEF x, y
  <2>5. \A k \in 1 .. r - n : x[k] = y[k]
    <3>1. TAKE k \in 1 .. r - n
    <3>2. PICK z \in 1 .. r : z = n + k
      OBVIOUS
    <3>3. w[z] = s[a + z] /\ a + z = c + k
      BY <1>2, <2>2, <3>2
    <3>4. QED BY <2>4, <3>2, <3>3
  <2>6. x = y
    BY <2>4, <2>5, SeqEqual
  <2>7. QED BY <1>2, <2>2, <2>6 DEF x, y
<1>4. SubSeq(w, 1, n) = SubSeq(s, a + 1, a + n)
  <2>1. PICK o \in Nat, c \in Nat : o = 0 /\ c = a + n
    OBVIOUS
  <2>2. /\ SubSeq(w, o + 1, n) \in Seq(S)
        /\ Len(SubSeq(w, o + 1, n)) = IF o < n THEN n - o ELSE 0
        /\ \A k \in 1 .. n - o : SubSeq(w, o + 1, n)[k] = w[o + k]
    BY <1>2, <2>1, PieceIs
  <2>3. /\ SubSeq(s, a + 1, c) \in Seq(S)
        /\ Len(SubSeq(s, a + 1, c)) = IF a < c THEN c - a ELSE 0
        /\ \A k \in 1 .. c - a : SubSeq(s, a + 1, c)[k] = s[a + k]
    BY <1>1, <2>1, PieceIs
  <2> DEFINE x == SubSeq(w, o + 1, n)
             y == SubSeq(s, a + 1, c)
  <2>4. /\ x \in Seq(S) /\ y \in Seq(S) /\ Len(x) = n /\ Len(y) = n
        /\ \A k \in 1 .. n : x[k] = w[k] /\ y[k] = s[a + k]
    BY <2>1, <2>2, <2>3
  <2> HIDE DEF x, y
  <2>5. \A k \in 1 .. n : x[k] = y[k]
    <3>1. TAKE k \in 1 .. n
    <3>2. k \in 1 .. r
      OBVIOUS
    <3>3. w[k] = s[a + k]
      BY <1>2, <3>2
    <3>4. x[k] = w[k] /\ y[k] = s[a + k]
      BY <2>4
    <3>5. QED BY <3>3, <3>4
  <2>6. x = y
    BY <2>4, <2>5, SeqEqual
  <2>7. QED BY <2>1, <2>6 DEF x, y
<1>5. QED BY <1>2, <1>3, <1>4 DEF w

\* A turn of a read.
LEMMA KeepsReads ==
  ASSUME Sound, Sound', BooksOK, Whole, Reads
  PROVE  Abstract!Next
<1> DEFINE h == call.h
           n == ReadSize
<1>1. /\ Store /\ CallOK /\ Agree /\ Store' /\ CallOK'
  BY WholeIs DEF Sound
<1>2. /\ call.op = "read" /\ UNCHANGED <<table, data>>
  BY DEF Reads
<1>3. h \in Open /\ call.rest \in Nat /\ Here.pos + call.rest <= Here.inode.size /\ call.got \in Seq(Values)
  BY <1>2, ReaderIs
<1>4. /\ Open' = Open /\ n \in 1 .. call.rest
      /\ handle'[h] = [file |-> Here.file, inode |-> Here.inode, pos |-> Here.pos + n]
      /\ \A g \in Handles \ {h} : handle'[g] = handle[g]
      /\ call' = [op |-> "read", h |-> h, want |-> call.want,
                  rest |-> call.rest - n, got |-> call.got \o Delivered]
      /\ Delivered \in Seq(Values) /\ Len(Delivered) = n
      /\ \A k \in 1 .. n : Delivered[k] = Bytes(data, Here.inode)[Here.pos + k]
  BY ReadsDoes
<1>5. /\ handle[h].file \in Files /\ handle[h].pos \in Nat
      /\ Cursor[h] = [file |-> handle[h].file, pos |-> handle[h].pos]
      /\ Content[handle[h].file] = Bytes(data, handle[h].inode)
      /\ Bytes(data, handle[h].inode) \in Seq(Values)
      /\ Len(Bytes(data, handle[h].inode)) = handle[h].inode.size
  BY <1>1, <1>3, AtHandle
<1>6. Content' = Content
  <2>1. \A g \in Open : handle'[g].file = handle[g].file /\ handle'[g].inode = handle[g].inode
    BY <1>4 DEF Open, Here
  <2>2. Agree' /\ \A f \in Files : View(f)' = View(f) /\ (OpenOn(f)' = {} <=> OpenOn(f) = {})
    BY <1>1, <1>2, <1>4, <2>1, ViewsStay
  <2>3. \A f \in Files : Exists(f)' <=> Exists(f)
    BY <1>2 DEF Exists
  <2>4. QED BY <1>2, <2>2, <2>3, ContentSame
<1> DEFINE s == Content[Here.file]
           a == Here.pos
           r == call.rest
<1>7. a \in Nat /\ s \in Seq(Values) /\ a + r <= Len(s) /\ r \in Nat /\ n \in 0 .. r /\ n \in Nat
  BY <1>3, <1>4, <1>5 DEF Here
<1>8. /\ Asking = [op |-> call.op, h |-> call.h, want |-> call.want, rest |-> Asking.rest, got |-> call.got]
      /\ Asking.rest = SubSeq(s, a + 1, a + r)
  BY <1>1, <1>2, AskingHolds DEF AskingIs
<1>9. /\ Asking' = [op |-> call'.op, h |-> call'.h, want |-> call'.want, rest |-> Asking'.rest, got |-> call'.got]
      /\ Asking'.rest = SubSeq(Content'[Here'.file], Here'.pos + 1, Here'.pos + call'.rest)
  BY <1>1, <1>4, AskingNext DEF AskingIs
<1>10. Here'.file = Here.file /\ Here'.pos = a + n /\ call'.rest = r - n
  BY <1>4 DEF Here
<1>11. Asking'.rest = SubSeq(s, a + n + 1, a + r)
  <2> HIDE DEF r, n, s, a
  <2>1. (a + n) + (r - n) = a + r
    BY <1>7
  <2>2. QED BY <1>6, <1>9, <1>10, <2>1 DEF s
<1> DEFINE w == SubSeq(s, a + 1, a + r)
<1>12. /\ w \in Seq(Values) /\ Len(w) = r
       /\ SubSeq(w, n + 1, Len(w)) = SubSeq(s, a + n + 1, a + r)
       /\ SubSeq(w, 1, n) = SubSeq(s, a + 1, a + n)
  <2> HIDE DEF s, a, r, n
  <2>1. QED BY <1>7, PieceOfPiece
<1>13. SubSeq(w, 1, n) = Delivered
  <2> DEFINE b == a + n
             x == SubSeq(s, a + 1, b)
  <2>1. b \in Nat /\ b <= Len(s) /\ b - a = n /\ (IF a < b THEN b - a ELSE 0) = n
    <3> HIDE DEF a, n, s, r
    <3>1. Len(s) \in Nat
      BY <1>7, LenProperties
    <3>2. QED BY <1>7, <3>1
  <2>2. x \in Seq(Values) /\ Len(x) = n /\ \A k \in 1 .. n : x[k] = s[a + k]
    <3> HIDE DEF a, n, s, r, b
    <3>1. /\ SubSeq(s, a + 1, b) \in Seq(Values)
          /\ Len(SubSeq(s, a + 1, b)) = IF a < b THEN b - a ELSE 0
          /\ \A k \in 1 .. b - a : SubSeq(s, a + 1, b)[k] = s[a + k]
      BY <1>7, <2>1, PieceIs
    <3>2. QED BY <2>1, <3>1
  <2>3. s = Bytes(data, Here.inode)
    BY <1>5 DEF Here
  <2>4. \A k \in 1 .. n : x[k] = Delivered[k]
    <3> HIDE DEF x, n, s
    <3>1. QED BY <1>4, <2>2, <2>3 DEF n
  <2>5. x = Delivered
    <3> HIDE DEF x, n, s
    <3>1. Len(Delivered) = n /\ Delivered \in Seq(Values)
      BY <1>4 DEF n
    <3>2. QED BY <2>2, <2>4, <3>1, SeqEqual
  <2>6. QED BY <1>12, <2>5
<1>14. Asking.op = "read" /\ Asking.h = h /\ Asking.rest = w /\ Asking.got = call.got
  BY <1>2, <1>8
<1>15. Asking' = [Asking EXCEPT !.rest = SubSeq(Asking.rest, n + 1, Len(Asking.rest)),
                                !.got = Asking.got \o SubSeq(Asking.rest, 1, n)]
  <2> DEFINE x == SubSeq(w, n + 1, Len(w))
             y == call.got \o SubSeq(w, 1, n)
  <2>1. Asking' = [op |-> "read", h |-> h, want |-> call.want, rest |-> x, got |-> y]
    BY <1>4, <1>9, <1>11, <1>12, <1>13
  <2>2. Asking = [op |-> "read", h |-> h, want |-> call.want, rest |-> w, got |-> call.got]
    BY <1>2, <1>8, <1>14
  <2> HIDE DEF x, y, w, n, h
  <2>3. Asking' = [Asking EXCEPT !.rest = x, !.got = y]
    <3>1. PICK u : u = Asking
      OBVIOUS
    <3>2. PICK m : m = [u EXCEPT !.rest = x]
      OBVIOUS
    <3>3. m = [op |-> "read", h |-> h, want |-> call.want, rest |-> x, got |-> call.got]
      BY <2>2, <3>1, <3>2
    <3>4. [m EXCEPT !.got = y] = [op |-> "read", h |-> h, want |-> call.want, rest |-> x, got |-> y]
      BY <3>3
    <3>5. [[u EXCEPT !.rest = x] EXCEPT !.got = y] = Asking'
      BY <2>1, <3>2, <3>4
    <3>6. QED BY <3>1, <3>5
  <2>4. QED BY <1>14, <2>3 DEF x, y
<1>16. Cursor' = [Cursor EXCEPT ![h].pos = a + n]
  <2>1. a + n \in Nat /\ handle'[h].file = handle[h].file /\ handle'[h].pos = a + n
    BY <1>4, <1>7 DEF Here
  <2> HIDE DEF a, n, h
  <2>2. PICK p \in Nat : p = a + n
    BY <2>1
  <2>3. h \in Open /\ \A g \in Handles \ {h} : handle'[g] = handle[g]
    BY <1>3, <1>4
  <2>4. Cursor' = [Cursor EXCEPT ![h].pos = p]
    BY <1>1, <1>4, <2>1, <2>2, <2>3, CursorMoves
  <2>5. QED BY <2>2, <2>4
<1>17. Cursor[Asking.h].pos = a /\ n \in 1 .. Len(Asking.rest)
  <2>1. Cursor[h].pos = a
    BY <1>5 DEF Here
  <2> HIDE DEF n, a, h, w
  <2>2. QED BY <1>4, <1>12, <1>14, <2>1 DEF r
<1> HIDE DEF n, a, h
<1>18. Cursor' = [Cursor EXCEPT ![Asking.h].pos = Cursor[Asking.h].pos + n]
  BY <1>14, <1>16, <1>17
<1>19. QED BY <1>6, <1>14, <1>15, <1>17, <1>18, MapsReadSome

\* The blocks of an inode are as they were.
Alike(d, e, n) == \A i \in 1 .. Len(n.blocks) : e[n.blocks[i]] = d[n.blocks[i]]

LEMMA BytesAlike ==
  ASSUME NEW d \in Data, NEW e \in Data, NEW n, Fit(n), Alike(d, e, n)
  PROVE  Bytes(e, n) = Bytes(d, n)
<1>1. n.size \in Nat /\ Len(n.blocks) = Groups(n.size)
  BY InodeFacts
<1> DEFINE l == n.size
<1>2. l \in 0 .. n.size /\ l <= n.size /\ \A k \in 1 .. Groups(l) : e[n.blocks[k]] = d[n.blocks[k]]
  BY <1>1 DEF Alike
<1> HIDE DEF l
<1>3. \A k \in 1 .. l : Bytes(e, n)[k] = Bytes(d, n)[k]
  BY <1>2, SameBlocks
<1>4. Bytes(d, n) \in Seq(Values) /\ Len(Bytes(d, n)) = n.size
  BY BytesAre
<1>5. Bytes(e, n) \in Seq(Values) /\ Len(Bytes(e, n)) = n.size
  BY BytesAre
<1> DEFINE s == Bytes(d, n)
           t == Bytes(e, n)
<1>6. s \in Seq(Values) /\ t \in Seq(Values) /\ Len(s) = l /\ Len(t) = l /\ \A k \in 1 .. l : t[k] = s[k]
  BY <1>3, <1>4, <1>5 DEF l
<1> HIDE DEF s, t
<1>7. t = s
  BY <1>6, SeqEqual
<1>8. QED BY <1>7 DEF s, t

\* A step that changes the bytes of one file.
LEMMA ContentPut ==
  ASSUME NEW e \in Files, NEW s, Content'[e] = s, \A f \in Files \ {e} : Content'[f] = Content[f]
  PROVE  Content' = [Content EXCEPT ![e] = s]
BY ContentHolds, ContentNext DEF ContentIs

LEMMA OthersShow ==
  ASSUME Store, Agree, data' \in Data, UNCHANGED table, NEW e \in Files,
         \A f \in Files \ {e} : View(f)' = View(f),
         \A f \in Files \ {e} : Exists(f) => Alike(data, data', View(f))
  PROVE  \A f \in Files \ {e} : Content'[f] = Content[f]
<1>1. TAKE f \in Files \ {e}
<1>2. Exists(f)' <=> Exists(f)
  BY DEF Exists
<1>3. View(f)' = View(f)
  OBVIOUS
<1>4. /\ Content[f] = IF Exists(f) THEN Bytes(data, View(f)) ELSE NoFile
      /\ Content'[f] = IF Exists(f)' THEN Bytes(data', View(f)') ELSE NoFile
  BY ContentHolds, ContentNext DEF ContentIs
<1>5. CASE Exists(f)
  <2>1. Fit(View(f))
    BY <1>5, ViewFits
  <2>2. Alike(data, data', View(f))
    BY <1>5
  <2> DEFINE n == View(f)
             d == data
             x == data'
  <2>3. d \in Data /\ x \in Data /\ Fit(n) /\ Alike(d, x, n)
    BY <2>1, <2>2 DEF Store
  <2> HIDE DEF n, d, x
  <2>4. Bytes(x, n) = Bytes(d, n)
    BY <2>3, BytesAlike
  <2>5. Bytes(data', View(f)') = Bytes(data, View(f))
    BY <1>3, <2>4 DEF n, d, x
  <2>6. QED BY <1>2, <1>4, <2>5
<1>6. CASE ~Exists(f)
  BY <1>2, <1>4, <1>6
<1>7. QED BY <1>5, <1>6

LEMMA KeepsFtruncate ==
  ASSUME Sound, Sound', BooksOK, Whole, NEW h \in Handles, NEW size \in 0 .. MaxSize, Ftruncate(h, size)
  PROVE  Abstract!Next
<1> DEFINE n == handle[h].inode
           m == Cut(n, size)
<1>1. /\ Store /\ Room /\ CallOK /\ Books /\ Agree /\ Known = Files /\ "stale" \notin spoiled'
  BY WholeIs
<1>2. Store' /\ data \in Data /\ data' \in Data /\ size \in Nat
  BY <1>1, Sizes DEF Sound, Store
<1>3. /\ UNCHANGED <<table, call>> /\ call.op = "none"
  BY PromptIs DEF Ftruncate, Ready
<1>4. /\ Open' = Open /\ h \in Open /\ size < n.size
      /\ handle'[h] = [file |-> handle[h].file, inode |-> m, pos |-> handle[h].pos]
      /\ \A g \in Handles \ {h} : handle'[g] = handle[g]
      /\ \A b \in Blocks \ Freed(n, size) : data'[b] = data[b]
      /\ spoiled' = (spoiled \cup {"stale" : g \in OpenOn(handle[h].file) \ {h}})
                    \cup (IF handle[h].pos > size THEN {"beyond"} ELSE {})
  BY <1>1, FtruncateDoes
<1>5. /\ handle[h].file \in Files /\ Fit(n) /\ Cursor[h].file = handle[h].file /\ Cursor[h].file # NoFile
      /\ Content[handle[h].file] = Bytes(data, n)
      /\ Bytes(data, n) \in Seq(Values) /\ Len(Bytes(data, n)) = n.size
  <2>1. /\ Fit(handle[h].inode) /\ handle[h].file \in Files
        /\ Cursor[h] = [file |-> handle[h].file, pos |-> handle[h].pos] /\ Cursor[h].file # NoFile
        /\ Content[handle[h].file] = Bytes(data, handle[h].inode)
        /\ Bytes(data, handle[h].inode) \in Seq(Values)
        /\ Len(Bytes(data, handle[h].inode)) = handle[h].inode.size
    BY <1>1, <1>4, AtHandle
  <2>2. QED BY <2>1
<1>6. PICK e \in Files : e = handle[h].file
  BY <1>5
<1>7. /\ Fit(m) /\ Len(m.blocks) <= Len(n.blocks)
      /\ \A i \in 1 .. Len(m.blocks) : m.blocks[i] = n.blocks[i]
      /\ Freed(n, size) = Named(n) \ Named(m)
  <2> HIDE DEF n
  <2>1. QED BY <1>2, <1>4, <1>5, CutIs
<1>8. m.size = size
  BY DEF Cut
<1>9. OpenOn(e) \ {h} = {}
  <2> DEFINE S == OpenOn(e) \ {h}
             T == {"stale" : g \in S}
  <2>1. ASSUME NEW x \in S PROVE "stale" \in T
    BY <2>1
  <2>2. "stale" \notin T
    BY <1>1, <1>4, <1>6
  <2> HIDE DEF S, T
  <2>3. S = {}
    BY <2>1, <2>2
  <2>4. QED BY <2>3 DEF S
<1> DEFINE x == Freed(n, size)
<1> HIDE DEF m, n, x
<1>10. handle'[h].file = e /\ handle'[h].inode = m /\ handle[h].file = e /\ handle[h].inode = n
  BY <1>4, <1>6 DEF n
<1>11. /\ Agree' /\ View(e) = handle[h].inode /\ View(e)' = handle'[h].inode
       /\ \A f \in Files \ {e} : View(f)' = View(f)
  <2>1. \A g \in Open \ {h} : handle'[g] = handle[g]
    BY <1>4 DEF Open
  <2>2. QED BY <1>1, <1>3, <1>4, <1>9, <1>10, <2>1, ViewsTurn
<1>12. View(e) = n /\ View(e)' = m
  BY <1>10, <1>11
<1>13. x = Named(n) \ Named(m) /\ \A b \in Blocks \ x : data'[b] = data[b]
  BY <1>4, <1>7 DEF x
<1>14. ASSUME NEW f \in Files \ {e}, Exists(f) PROVE Alike(data, data', View(f))
  <2>1. Fit(View(f))
    BY <1>1, <1>14, ViewFits
  <2> DEFINE v == View(f)
  <2> HIDE DEF v
  <2>2. \A i \in 1 .. Len(v.blocks) : v.blocks[i] \in Blocks
    <3>1. Fit(v)
      BY <2>1 DEF v
    <3>2. QED BY <3>1, InodeFacts
  <2>3. \A i \in 1 .. Len(v.blocks), j \in 1 .. Len(n.blocks) : v.blocks[i] # n.blocks[j]
    <3>1. Owned(f) = v.blocks /\ Owned(e) = n.blocks
      BY <1>12 DEF Owned, v
    <3>2. Apart /\ f \in Known /\ e \in Known /\ f # e
      BY <1>1 DEF Books
    <3>3. QED BY <3>1, <3>2 DEF Apart
  <2>4. \A i \in 1 .. Len(v.blocks) : v.blocks[i] \in Blocks \ x
    BY <1>13, <2>2, <2>3 DEF Named
  <2>5. QED BY <1>13, <2>4 DEF Alike, v
<1>15. \A f \in Files \ {e} : Content'[f] = Content[f]
  <2>1. \A f \in Files \ {e} : Exists(f) => Alike(data, data', View(f))
    BY <1>14
  <2>2. QED BY <1>1, <1>2, <1>3, <1>11, <2>1, OthersShow
<1>16. Content'[e] = Bytes(data', m)
  <2>1. Exists(e)'
    <3>1. h \in Open'
      BY <1>4
    <3>2. QED BY <1>2, <1>10, <3>1 DEF Store
  <2>2. QED BY <1>12, <2>1, ContentNext DEF ContentIs
<1>17. Bytes(data', m) = SubSeq(Bytes(data, n), 1, size)
  <2> DEFINE s == Bytes(data, n)
             t == Bytes(data', m)
  <2>1. n.size \in Nat /\ Len(m.blocks) = Groups(size) /\ \A k \in 1 .. Len(m.blocks) : m.blocks[k] \in Blocks
    <3>1. n.size \in Nat
      BY <1>5, InodeFacts DEF n
    <3>2. Len(m.blocks) = Groups(m.size) /\ \A k \in 1 .. Len(m.blocks) : m.blocks[k] \in Blocks
      BY <1>7, InodeFacts
    <3>3. QED BY <1>8, <3>1, <3>2
  <2>2. \A k \in 1 .. Groups(size) : data'[m.blocks[k]] = data[n.blocks[k]]
    <3>1. TAKE k \in 1 .. Groups(size)
    <3>2. k \in 1 .. Len(m.blocks) /\ m.blocks[k] \in Blocks /\ m.blocks[k] = n.blocks[k]
      BY <1>7, <2>1
    <3>3. m.blocks[k] \in Named(m)
      BY <3>2 DEF Named
    <3>4. QED BY <1>13, <3>2, <3>3
  <2>3. Fit(n) /\ Fit(m) /\ size \in 0 .. n.size /\ size <= m.size
    BY <1>2, <1>4, <1>5, <1>7, <1>8, <2>1 DEF n
  <2>4. \A k \in 1 .. size : t[k] = s[k]
    <3> DEFINE a == data
               b == data'
    <3> HIDE DEF a, b
    <3>1. a \in Data /\ b \in Data /\ \A k \in 1 .. Groups(size) : b[m.blocks[k]] = a[n.blocks[k]]
      BY <1>2, <2>2 DEF a, b
    <3>2. \A k \in 1 .. size : Bytes(b, m)[k] = Bytes(a, n)[k]
      BY <2>3, <3>1, SameBlocks
    <3>3. QED BY <3>2 DEF a, b
  <2>5. t \in Seq(Values) /\ Len(t) = size
    BY <1>2, <1>8, <2>3, BytesAre
  <2>6. s \in Seq(Values) /\ size <= Len(s)
    <3>1. s \in Seq(Values) /\ Len(s) = n.size
      BY <1>5 DEF n
    <3>2. QED BY <2>1, <2>3, <3>1
  <2> HIDE DEF s, t
  <2>7. /\ SubSeq(s, 0 + 1, size) \in Seq(Values)
        /\ Len(SubSeq(s, 0 + 1, size)) = IF 0 < size THEN size - 0 ELSE 0
        /\ \A k \in 1 .. size - 0 : SubSeq(s, 0 + 1, size)[k] = s[0 + k]
    BY <1>2, <2>6, PieceIs
  <2> DEFINE u == SubSeq(s, 0 + 1, size)
  <2>8. u \in Seq(Values) /\ Len(u) = size /\ \A k \in 1 .. size : u[k] = s[k]
    <3>1. \A k \in 1 .. size : 0 + k = k
      BY <1>2
    <3>2. QED BY <1>2, <2>7, <3>1
  <2> HIDE DEF u
  <2>9. t = u
    BY <2>4, <2>5, <2>8, SeqEqual
  <2>10. QED BY <2>9 DEF u, t, s
<1>18. Content' = [Content EXCEPT ![Cursor[h].file] = SubSeq(Content[Cursor[h].file], 1, size)]
  <2>1. Content'[e] = SubSeq(Content[e], 1, size) /\ Cursor[h].file = e
    BY <1>5, <1>6, <1>16, <1>17 DEF n
  <2> DEFINE s == SubSeq(Content[e], 1, size)
  <2>2. Content'[e] = s
    BY <2>1
  <2> HIDE DEF s
  <2>3. Content' = [Content EXCEPT ![e] = s]
    BY <1>15, <2>2, ContentPut
  <2>4. QED BY <2>1, <2>3 DEF s
<1>19. Cursor' = Cursor
  <2>1. \A g \in Open : handle'[g].file = handle[g].file /\ handle'[g].pos = handle[g].pos
    BY <1>4 DEF Open
  <2>2. QED BY <1>4, <2>1, CursorSame
<1>20. Asking' = Asking /\ Asking.op = "none"
  BY <1>1, <1>3, AskingIdle, IdleIs
<1>21. /\ size \in 0 .. Len(Content[Cursor[h].file]) /\ size < Len(Content[Cursor[h].file])
       /\ Cursor[h].file # NoFile
  BY <1>2, <1>4, <1>5 DEF n
<1>22. QED BY <1>18, <1>19, <1>20, <1>21, MapsTruncate

\* What landed in a file is an overlay.
LEMMA LandsOver ==
  ASSUME NEW s \in Seq(Values), NEW t \in Seq(Values), NEW piece \in Seq(Values), NEW pos \in 0 .. Len(s),
         Len(t) = IF Len(s) <= pos + Len(piece) THEN pos + Len(piece) ELSE Len(s),
         Lands(s, t, Len(s), Len(t), pos, piece, Len(piece))
  PROVE  t = Abstract!Overlay(s, pos, piece)
<1> DEFINE l == Len(piece)
           i == Len(s)
           j == Len(t)
           o == SubSeq(s, 1, pos) \o piece \o SubSeq(s, pos + Len(piece) + 1, Len(s))
<1>1. l \in Nat /\ i \in Nat /\ j \in Nat /\ pos \in Nat /\ pos <= i
  BY LenProperties
<1>2. /\ o \in Seq(Values)
      /\ Len(o) = IF pos + Len(piece) <= Len(s) THEN Len(s) ELSE pos + Len(piece)
      /\ \A k \in 1 .. pos : o[k] = s[k]
      /\ \A k \in 1 .. Len(piece) : o[pos + k] = piece[k]
      /\ \A k \in pos + Len(piece) + 1 .. Len(s) : o[k] = s[k]
  BY LaidOver
<1>3. o = Abstract!Overlay(s, pos, piece)
  BY DEF Abstract!Overlay
<1> HIDE DEF o
<1>4. Len(o) = j
  BY <1>1, <1>2
<1>5. ASSUME NEW k \in 1 .. j PROVE t[k] = o[k]
  <2>1. CASE pos < k /\ k <= pos + l
    <3>1. t[k] = piece[k - pos]
      BY <1>1, <1>5, <2>1 DEF Lands
    <3>2. PICK z \in 1 .. l : z = k - pos
      BY <1>1, <2>1
    <3>3. o[pos + z] = piece[z] /\ pos + z = k
      BY <1>1, <1>2, <3>2
    <3>4. QED BY <3>1, <3>2, <3>3
  <2>2. CASE k <= pos
    <3>1. t[k] = s[k] /\ k \in 1 .. pos
      BY <1>1, <1>5, <2>2 DEF Lands
    <3>2. QED BY <1>2, <3>1
  <2>3. CASE pos + l < k
    <3>1. t[k] = s[k] /\ k \in 1 .. i
      BY <1>1, <1>5, <2>3 DEF Lands
    <3>2. k \in pos + l + 1 .. i
      BY <1>1, <2>3, <3>1
    <3>3. QED BY <1>2, <3>1, <3>2
  <2>4. QED BY <1>1, <2>1, <2>2, <2>3
<1> HIDE DEF l, i, j
<1>6. t = o
  BY <1>2, <1>4, <1>5, SeqEqual DEF j
<1>7. QED BY <1>3, <1>6

\* The block a turn writes is in no other file.
LEMMA SpotElsewhere ==
  ASSUME Sound, Books, Known = Files, WriteTurn, "stale" \notin spoiled',
         NEW e \in Files, e = Here.file, NEW f \in Files \ {e}
  PROVE  \A i \in 1 .. Len(View(f).blocks) : View(f).blocks[i] # Spot
<1> DEFINE n == Here.inode
           b == Min(free)
<1>1. /\ call.h \in Open /\ handle[call.h].file = e
      /\ Grows(n, Here.pos) => b \in free /\ Spot = b
      /\ ~Grows(n, Here.pos) => BlockNo + 1 \in 1 .. Len(n.blocks) /\ Spot = n.blocks[BlockNo + 1]
  BY CalmTurn
<1>2. Agree /\ Apart /\ NotFree
  BY DEF Books
<1>3. View(e) = n
  <2>1. View(e) = handle[call.h].inode
    BY <1>1, <1>2, ViewOpen
  <2>2. QED BY <2>1 DEF Here
<1> HIDE DEF n, b
<1>4. Owned(e) = n.blocks
  BY <1>3 DEF Owned
<1>5. f \in Known /\ e \in Known /\ f # e
  OBVIOUS
<1>6. CASE Grows(n, Here.pos)
  <2>1. Spot \in free
    BY <1>1, <1>6
  <2>2. \A i \in 1 .. Len(Owned(f)) : Owned(f)[i] \in Blocks \ free
    BY <1>2, <1>5 DEF NotFree
  <2>3. QED BY <2>1, <2>2 DEF Owned
<1>7. CASE ~Grows(n, Here.pos)
  <2>1. PICK j \in 1 .. Len(n.blocks) : Spot = n.blocks[j]
    BY <1>1, <1>7
  <2>2. \A i \in 1 .. Len(Owned(f)), k \in 1 .. Len(Owned(e)) : Owned(f)[i] # Owned(e)[k]
    BY <1>2, <1>5 DEF Apart
  <2>3. QED BY <1>4, <2>1, <2>2 DEF Owned
<1>8. QED BY <1>6, <1>7

\* A turn of a write.
LEMMA KeepsWriteTurn ==
  ASSUME Sound, Sound', BooksOK, Whole, WriteTurn
  PROVE  Abstract!Next
<1> DEFINE h == call.h
           n == Here.inode
           m == Grown(n, Here.pos, Chunk, Min(free))
           l == Chunk
           a == Here.pos
<1>1. /\ Store /\ CallOK /\ Agree /\ Books /\ Known = Files /\ Store' /\ CallOK' /\ "stale" \notin spoiled'
      /\ data \in Data /\ data' \in Data
  BY WholeIs DEF Sound, Store
<1>2. /\ call.op = "write" /\ call.rest # << >> /\ Open' = Open
      /\ l \in 1 .. Len(call.rest)
      /\ handle'[h] = [file |-> Here.file, inode |-> m, pos |-> a + l]
      /\ \A g \in Handles \ {h} : handle'[g] = handle[g]
      /\ call' = [op |-> "write", h |-> h, want |-> call.want, rest |-> Rest, got |-> call.got]
      /\ UNCHANGED table
  BY WritesDoes
<1>3. h \in Open /\ call.rest \in Seq(Values) /\ a \in Nat /\ a <= n.size
  BY <1>2, WriterIs
<1>4. Piece \in Seq(Values) /\ Len(Piece) = l
  BY <1>2, <1>3, ChunkIs
<1>5. /\ handle[h].file \in Files /\ Fit(n)
      /\ Cursor[h].file = handle[h].file /\ Cursor[h].pos = a
      /\ Content[handle[h].file] = Bytes(data, n)
      /\ Bytes(data, n) \in Seq(Values) /\ Len(Bytes(data, n)) = n.size /\ n.size \in Nat
  <2>1. /\ Fit(handle[h].inode) /\ handle[h].file \in Files
        /\ Cursor[h] = [file |-> handle[h].file, pos |-> handle[h].pos]
        /\ Content[handle[h].file] = Bytes(data, handle[h].inode)
        /\ Bytes(data, handle[h].inode) \in Seq(Values)
        /\ Len(Bytes(data, handle[h].inode)) = handle[h].inode.size
        /\ handle[h].inode.size \in Nat
    BY <1>1, <1>3, AtHandle
  <2>2. QED BY <2>1 DEF Here
<1>6. PICK e \in Files : e = handle[h].file
  BY <1>5
<1>7. e = Here.file
  BY <1>6 DEF Here
<1>8. /\ handle'[h].file = Here.file /\ handle'[h].inode = m
      /\ \A g \in Open \ {h} : handle'[g] = handle[g]
      /\ Fit(m) /\ Chunk \in Nat \ {0}
      /\ (OpenOn(Here.file) \ {h} = {}) \/ m = n
  BY <1>1, CalmTurn
<1>9. /\ Lands(Bytes(data, Here.inode), Bytes(data', handle'[call.h].inode),
               Here.inode.size, handle'[call.h].inode.size, Here.pos, Piece, Chunk)
      /\ \A x \in Blocks \ {Spot} : data'[x] = data[x]
  BY <1>1, WriteTurnLands
<1>10. m.size = IF n.size <= a + l THEN a + l ELSE n.size
  BY DEF Grown
<1>11. n = handle[h].inode
  BY DEF Here
<1> DEFINE s == Bytes(data, n)
           t == Bytes(data', m)
<1>12. Lands(s, t, n.size, m.size, a, Piece, l)
  BY <1>8, <1>9
<1> HIDE DEF h, n, m, l, a
<1>13. /\ Agree' /\ View(e) = handle[h].inode /\ View(e)' = handle'[h].inode
       /\ \A f \in Files \ {e} : View(f)' = View(f)
  <2>1. handle[h].file = e /\ handle'[h].file = e
    BY <1>6, <1>7, <1>8
  <2>2. (OpenOn(e) \ {h} = {}) \/ handle'[h].inode = handle[h].inode
    BY <1>7, <1>8, <1>11
  <2>3. QED BY <1>1, <1>2, <1>3, <1>8, <2>1, <2>2, ViewsTurn
<1>14. View(e)' = m
  BY <1>8, <1>13
<1>15. ASSUME NEW f \in Files \ {e}, Exists(f) PROVE Alike(data, data', View(f))
  <2>1. Fit(View(f))
    BY <1>1, <1>15, ViewFits
  <2>2. \A i \in 1 .. Len(View(f).blocks) : View(f).blocks[i] # Spot
    BY <1>1, <1>7, SpotElsewhere
  <2> DEFINE v == View(f)
  <2> HIDE DEF v
  <2>3. \A i \in 1 .. Len(v.blocks) : v.blocks[i] \in Blocks
    <3>1. Fit(v)
      BY <2>1 DEF v
    <3>2. QED BY <3>1, InodeFacts
  <2>4. \A i \in 1 .. Len(v.blocks) : v.blocks[i] # Spot
    BY <2>2 DEF v
  <2>5. QED BY <1>9, <2>3, <2>4 DEF Alike, v
<1>16. \A f \in Files \ {e} : Content'[f] = Content[f]
  <2>1. \A f \in Files \ {e} : Exists(f) => Alike(data, data', View(f))
    BY <1>15
  <2>2. QED BY <1>1, <1>2, <1>13, <2>1, OthersShow
<1>17. Content'[e] = t
  <2>1. Exists(e)'
    <3>1. h \in Open' /\ handle'[h].file = e
      BY <1>2, <1>3, <1>7, <1>8
    <3>2. QED BY <1>1, <3>1 DEF Store
  <2>2. QED BY <1>14, <2>1, ContentNext DEF ContentIs
<1>18. t \in Seq(Values) /\ Len(t) = m.size
  BY <1>1, <1>8, BytesAre
<1>19. s \in Seq(Values) /\ Len(s) = n.size
  BY <1>5
<1> HIDE DEF s, t
<1>20. t = Abstract!Overlay(s, a, Piece)
  <2> DEFINE piece == Piece
  <2>1. /\ piece \in Seq(Values) /\ Len(piece) = l /\ a \in 0 .. Len(s)
        /\ Lands(s, t, Len(s), Len(t), a, piece, Len(piece))
    BY <1>3, <1>4, <1>5, <1>12, <1>18, <1>19
  <2>2. Len(t) = IF Len(s) <= a + Len(piece) THEN a + Len(piece) ELSE Len(s)
    BY <1>10, <1>18, <1>19, <2>1
  <2> HIDE DEF piece
  <2>3. t = Abstract!Overlay(s, a, piece)
    BY <1>18, <1>19, <2>1, <2>2, LandsOver
  <2>4. QED BY <2>3 DEF piece
<1>21. /\ Asking = [op |-> call.op, h |-> call.h, want |-> call.want, rest |-> Asking.rest, got |-> call.got]
       /\ Asking.rest = call.rest
  BY <1>1, <1>2, AskingHolds DEF AskingIs
<1>22. /\ Asking' = [op |-> call'.op, h |-> call'.h, want |-> call'.want, rest |-> Asking'.rest, got |-> call'.got]
       /\ Asking'.rest = call'.rest
  BY <1>1, <1>2, AskingNext DEF AskingIs
<1>23. Asking.op = "write" /\ Asking.h = h
  BY <1>2, <1>21 DEF h
<1>24. SubSeq(Asking.rest, 1, l) = Piece /\ SubSeq(Asking.rest, l + 1, Len(Asking.rest)) = Rest
  BY <1>21 DEF Piece, Rest, l
<1>25. Asking' = [Asking EXCEPT !.rest = SubSeq(Asking.rest, l + 1, Len(Asking.rest))]
  <2>1. Asking' = [op |-> "write", h |-> h, want |-> call.want, rest |-> Rest, got |-> call.got]
    BY <1>2, <1>22
  <2>2. Asking = [op |-> "write", h |-> h, want |-> call.want, rest |-> call.rest, got |-> call.got]
    BY <1>2, <1>21 DEF h
  <2>3. Asking' = [Asking EXCEPT !.rest = Rest]
    BY <2>1, <2>2
  <2>4. QED BY <1>24, <2>3
<1>26. Cursor' = [Cursor EXCEPT ![Asking.h].pos = Cursor[Asking.h].pos + l]
  <2>1. l \in Nat
    BY <1>8 DEF l
  <2>2. PICK p \in Nat : p = a + l
    BY <1>3, <2>1
  <2>3. /\ handle'[h].file = handle[h].file /\ handle'[h].pos = p
    BY <1>2, <1>6, <1>7, <2>2
  <2>4. Cursor' = [Cursor EXCEPT ![h].pos = p]
    BY <1>1, <1>2, <1>3, <2>3, CursorMoves
  <2>5. Cursor[Asking.h].pos + l = p
    BY <1>5, <1>23, <2>2
  <2>6. QED BY <1>23, <2>4, <2>5
<1>27. Content' = [Content EXCEPT ![Cursor[Asking.h].file] =
                      Abstract!Overlay(Content[Cursor[Asking.h].file], Cursor[Asking.h].pos, SubSeq(Asking.rest, 1, l))]
  <2>1. Content' = [Content EXCEPT ![e] = t]
    BY <1>16, <1>17, ContentPut
  <2>2. Cursor[Asking.h].file = e /\ Content[e] = s /\ Cursor[Asking.h].pos = a
    BY <1>5, <1>6, <1>23 DEF s
  <2>3. QED BY <1>20, <1>24, <2>1, <2>2
<1>28. l \in 1 .. Len(Asking.rest)
  BY <1>2, <1>21
<1>29. QED BY <1>23, <1>25, <1>26, <1>27, <1>28, MapsWriteSome

-----------------------------------------------------------------------------
(* Every step is one of ByteFiles, or none.                                *)

LEMMA SpoiledStays ==
  ASSUME [Next]_vars, spoiled' = {}
  PROVE  Whole
<1>1. Request => spoiled \subseteq spoiled'
  <2>1. ASSUME NEW f \in Files PROVE OpenFile(f) \/ Cat(f) \/ List(f) => spoiled \subseteq spoiled'
    BY DEF OpenFile, Cat, List, OpenInto, Note
  <2>2. ASSUME NEW f \in Files, NEW text \in Texts PROVE CreateFile(f, text) => spoiled \subseteq spoiled'
    BY DEF CreateFile, GoWild, OpenInto, Note
  <2>3. ASSUME NEW f \in Files, NEW g \in Files PROVE Copy(f, g) => spoiled \subseteq spoiled'
    BY DEF Copy, OpenInto, Note
  <2>4. ASSUME NEW h \in Handles
        PROVE  /\ CloseFile(h) => spoiled \subseteq spoiled'
               /\ \A n \in 0 .. MaxSize : Ftruncate(h, n) => spoiled \subseteq spoiled'
               /\ \A n \in Counts : Read(h, n) => spoiled \subseteq spoiled'
               /\ \A text \in Texts : Write(h, text) => spoiled \subseteq spoiled'
    BY DEF CloseFile, Ftruncate, Read, Write, Note
  <2>5. ASSUME NEW h \in Handles, NEW off \in -1 .. MaxSize, NEW where \in {"set", "cur", "end"}
        PROVE  Lseek(h, off, where) => spoiled \subseteq spoiled'
    BY DEF Lseek, Note
  <2>6. Restart => spoiled \subseteq spoiled'
    BY DEF Restart
  <2>7. QED BY <2>1, <2>2, <2>3, <2>4, <2>5, <2>6 DEF Request
<1>2. Turn => spoiled \subseteq spoiled'
  <2>1. ReadTurn \/ WriteTurn \/ WriteRefused \/ WriteFails \/ Return => spoiled \subseteq spoiled'
    BY DEF ReadTurn, WriteTurn, WriteRefused, WriteFails, Return, Fail, Note
  <2>2. CatOpen \/ CopyOpen => spoiled \subseteq spoiled'
    BY DEF CatOpen, CopyOpen, GoWild, OpenInto, Note
  <2>3. CreateFileWrite \/ CatRead \/ CopyRead \/ CopyWrite \/ ListRead => spoiled \subseteq spoiled'
    BY DEF CreateFileWrite, CatRead, CopyRead, CopyWrite, ListRead, JobCall
  <2>4. ListAborts \/ ListEnd \/ JobClose \/ CopyClose => spoiled \subseteq spoiled'
    BY DEF ListAborts, ListEnd, JobClose, CopyClose, Note
  <2>5. QED BY <2>1, <2>2, <2>3, <2>4 DEF Turn
<1>3. QED BY <1>1, <1>2 DEF Next, vars, Whole

\* A step that only takes a slot, or starts a command.
LEMMA KeepsIdle ==
  ASSUME Sound, BooksOK, Whole, UNCHANGED <<table, data, handle, call>>, call.op = "none"
  PROVE  UNCHANGED Abstract!vars
<1>1. Agree
  BY WholeIs
<1>2. Content' = Content /\ Cursor' = Cursor
  BY <1>1, FilesSame
<1>3. Asking' = Asking
  BY AskingIdle
<1>4. QED BY <1>2, <1>3, MapsNothing

LEMMA KeepsStill ==
  ASSUME Sound, BooksOK, Whole, UNCHANGED vars
  PROVE  UNCHANGED Abstract!vars
<1>1. Agree /\ Store /\ CallOK
  BY WholeIs
<1>2. UNCHANGED <<table, data, handle, call, free, slots, job, dead, spoiled>>
  BY DEF vars
<1>3. Content' = Content /\ Cursor' = Cursor
  BY <1>1, <1>2, FilesSame
<1>4. Sound'
  BY SoundStutter
<1>5. CallOK' /\ Store'
  BY <1>4 DEF Sound
<1>6. Here' = Here
  BY <1>2 DEF Here
<1>7. /\ Asking = [op |-> call.op, h |-> call.h, want |-> call.want, rest |-> Asking.rest, got |-> call.got]
      /\ call.op = "write" => Asking.rest = call.rest
      /\ call.op = "none" => Asking.rest = << >>
      /\ call.op = "read" => Asking.rest = SubSeq(Content[Here.file], Here.pos + 1, Here.pos + call.rest)
  BY <1>1, AskingHolds DEF AskingIs
<1>8. /\ Asking' = [op |-> call.op, h |-> call.h, want |-> call.want, rest |-> Asking'.rest, got |-> call.got]
      /\ call.op = "write" => Asking'.rest = call.rest
      /\ call.op = "none" => Asking'.rest = << >>
      /\ call.op = "read" => Asking'.rest = SubSeq(Content[Here.file], Here.pos + 1, Here.pos + call.rest)
  BY <1>2, <1>3, <1>5, <1>6, AskingNext DEF AskingIs
<1>9. call.op \in {"none", "read", "write"}
  BY <1>1 DEF CallOK
<1>10. Asking'.rest = Asking.rest
  BY <1>7, <1>8, <1>9
<1>11. Asking' = Asking
  BY <1>7, <1>8, <1>10
<1>12. QED BY <1>3, <1>11, MapsNothing

LEMMA KeepsRequest ==
  ASSUME Sound, Sound', BooksOK, Whole, Request
  PROVE  Abstract!Next \/ UNCHANGED Abstract!vars
<1>1. Prompt => call.op = "none"
  BY PromptIs
<1>2. ASSUME NEW f \in Files, OpenInto(f), UNCHANGED <<data, free, call, dead>>, Prompt, Open = {}
      PROVE  Abstract!Next
  <2>1. Cardinality(Open) < Cardinality(Handles)
    BY <1>2, OpenIsFinite, FS_EmptySet
  <2>2. QED BY <1>1, <1>2, <2>1, KeepsOpen
<1>3. ASSUME NEW f \in Files, OpenFile(f) PROVE Abstract!Next
  <2>1. Prompt /\ Cardinality(Open) < MaxOpen /\ OpenInto(f) /\ UNCHANGED <<data, free, call, dead>>
    BY <1>3 DEF OpenFile, Ready
  <2>2. Cardinality(Open) < Cardinality(Handles)
    BY <2>1, OpenIsFinite, Sizes
  <2>3. QED BY <1>1, <2>1, <2>2, KeepsOpen
<1>4. ASSUME UNCHANGED <<table, data, handle, call>>, Prompt PROVE UNCHANGED Abstract!vars
  BY <1>1, <1>4, KeepsIdle
<1>5. ASSUME NEW f \in Files, Cat(f) PROVE UNCHANGED Abstract!vars
  BY <1>4, <1>5 DEF Cat, Start
<1>6. ASSUME NEW f \in Files, List(f) PROVE Abstract!Next
  BY <1>2, <1>6 DEF List, Start
<1>7. ASSUME NEW f \in Files, NEW text \in Texts, CreateFile(f, text)
      PROVE  Abstract!Next \/ UNCHANGED Abstract!vars
  <2>1. Prompt /\ Open = {} /\ UNCHANGED <<data, free, call, dead>>
    BY <1>7 DEF CreateFile, Start
  <2>2. OpenInto(f) \/ UNCHANGED <<table, handle>> \/ "wild" \in spoiled'
    BY <1>7 DEF CreateFile, GoWild, Note
  <2>3. "wild" \notin spoiled'
    BY DEF Whole
  <2>4. QED BY <1>2, <1>4, <2>1, <2>2, <2>3
<1>8. ASSUME NEW f \in Files, NEW g \in Files, Copy(f, g) PROVE Abstract!Next
  BY <1>2, <1>8 DEF Copy, Start
<1>9. ASSUME NEW h \in Handles, CloseFile(h) PROVE Abstract!Next
  <2>1. Prompt /\ h \in Open /\ CloseSlot(h) /\ UNCHANGED <<data, free, call, dead, spoiled>>
    BY <1>9 DEF CloseFile, Ready
  <2>2. QED BY <1>1, <2>1, KeepsClose
<1>10. ASSUME NEW h \in Handles, NEW n \in 0 .. MaxSize, Ftruncate(h, n) PROVE Abstract!Next
  BY <1>10, KeepsFtruncate
<1>11. ASSUME NEW h \in Handles, NEW n \in Counts, Read(h, n) PROVE Abstract!Next
  <2>1. Prompt /\ h \in Open /\ call' = Reading(h, n) /\ UNCHANGED <<table, data, handle>>
    BY <1>11 DEF Read, Ready
  <2>2. n \in Nat \ {0}
    BY CountsAssumption
  <2>3. QED BY <1>1, <2>1, <2>2, KeepsRead
<1>12. ASSUME NEW h \in Handles, NEW text \in Texts, Write(h, text) PROVE Abstract!Next
  <2>1. Prompt /\ h \in Open /\ call' = Writing(h, text) /\ UNCHANGED <<table, data, handle>>
    BY <1>12 DEF Write, Ready
  <2>2. QED BY <1>1, <2>1, KeepsWrite
<1>13. ASSUME NEW h \in Handles, NEW off \in -1 .. MaxSize, NEW where \in {"set", "cur", "end"},
              Lseek(h, off, where)
       PROVE  Abstract!Next
  BY <1>13, KeepsLseek
<1>14. Restart => UNCHANGED Abstract!vars
  BY <1>4 DEF Restart, Ready
<1>15. QED BY <1>3, <1>5, <1>6, <1>7, <1>8, <1>9, <1>10, <1>11, <1>12, <1>13, <1>14 DEF Request

LEMMA KeepsTurn ==
  ASSUME Sound, Sound', BooksOK, Whole, Turn
  PROVE  Abstract!Next
<1>1. Fail => FALSE
  BY DEF Fail, Note, Whole
<1>2. "wild" \notin spoiled' /\ "aborted" \notin spoiled'
  BY DEF Whole
<1>3. Sound /\ Sound' /\ BooksOK /\ Whole
  OBVIOUS
<1>4. ReadTurn => Abstract!Next
  BY <1>1, <1>3, ReadTurnIs, KeepsReads
<1>5. WriteTurn => Abstract!Next
  BY <1>3, KeepsWriteTurn
<1>6. WriteFails => Abstract!Next
  BY <1>1 DEF WriteFails
<1>7. Stop => call'.op = "none"
  BY DEF Stop, NoCall
<1>8. WriteRefused \/ Return => Abstract!Next
  <2>1. SUFFICES ASSUME WriteRefused \/ Return PROVE Abstract!Next
    OBVIOUS
  <2>2. /\ Stop /\ UNCHANGED <<table, data, handle>>
        /\ call.op = "read" => call.rest = 0
    BY <2>1 DEF WriteRefused, Return
  <2>3. QED BY <1>3, <1>7, <2>2, KeepsEnd
<1>9. CatOpen => Abstract!Next
  <2>1. SUFFICES ASSUME CatOpen PROVE Abstract!Next
    OBVIOUS
  <2>2. job.cmd = "cat" /\ job.pc = "stat" /\ UNCHANGED <<data, free, call, dead>>
    BY <2>1 DEF CatOpen
  <2>3. Open = {} /\ job.text[1] \in Files /\ call.op = "none"
    BY <2>2, JobIs DEF Catting, Returned
  <2>4. Cardinality(Open) < Cardinality(Handles)
    BY <2>3, OpenIsFinite, FS_EmptySet
  <2>5. OpenInto(job.text[1])
    BY <1>2, <2>1 DEF CatOpen, GoWild, Note
  <2>6. PICK f \in Files : f = job.text[1]
    BY <2>3
  <2>7. QED BY <1>3, <2>2, <2>3, <2>4, <2>5, <2>6, KeepsOpen
<1>10. CopyOpen => Abstract!Next
  <2>1. SUFFICES ASSUME CopyOpen PROVE Abstract!Next
    OBVIOUS
  <2>2. job.cmd = "cp" /\ job.pc = "source" /\ UNCHANGED <<data, free, call, dead>>
    BY <2>1 DEF CopyOpen
  <2>3. Open = {job.src} /\ job.text[1] \in Files /\ Src.inode = table[Src.file] /\ call.op = "none"
    BY <2>2, JobIs DEF Copying, Returned
  <2>4. Cardinality(Open) < Cardinality(Handles)
    <3>1. Cardinality(Open) = 1
      BY <2>3, FS_Singleton
    <3>2. QED BY <3>1, OpenIsFinite
  <2>5. OpenInto(job.text[1]) \/ (Forget(job.src) /\ UNCHANGED <<table, slots, spoiled>>)
    BY <2>1 DEF CopyOpen
  <2>6. CASE Forget(job.src) /\ UNCHANGED <<table, slots, spoiled>>
    <3> DEFINE h == job.src
    <3>1. h \in Open /\ handle[h].inode = table[handle[h].file] /\ Forget(h)
      BY <2>3, <2>6 DEF Src
    <3> HIDE DEF h
    <3>2. call'.op = "none"
      BY <2>2, <2>3
    <3>3. QED BY <1>3, <2>2, <2>3, <2>6, <3>1, <3>2, KeepsForget
  <2>7. CASE OpenInto(job.text[1])
    <3>1. PICK f \in Files : f = job.text[1]
      BY <2>3
    <3>2. QED BY <1>3, <2>2, <2>3, <2>4, <2>7, <3>1, KeepsOpen
  <2>8. QED BY <2>5, <2>6, <2>7
<1>11. CreateFileWrite => Abstract!Next
  <2>1. SUFFICES ASSUME CreateFileWrite PROVE Abstract!Next
    OBVIOUS
  <2>2. job.cmd = "createfile" /\ job.pc = "opened" /\ call' = Writing(job.src, job.text) /\ UNCHANGED <<table, data, handle>>
    BY <2>1 DEF CreateFileWrite, JobCall
  <2>3. job.src \in Open /\ call.op = "none"
    BY <2>2, JobIs DEF Creating, Returned
  <2>4. QED BY <1>3, <2>2, <2>3, KeepsWrite
<1>12. Buffer \in Nat \ {0} /\ EntryBytes \in Nat \ {0}
  BY SizesAssumption
<1>13. CatRead => Abstract!Next
  <2>1. SUFFICES ASSUME CatRead PROVE Abstract!Next
    OBVIOUS
  <2>2. /\ job.cmd = "cat" /\ job.pc # "stat" /\ call.op = "none"
        /\ call' = Reading(job.src, Buffer) /\ UNCHANGED <<table, data, handle>>
    BY <2>1 DEF CatRead, JobCall, Returned
  <2>3. job.src \in Open
    BY <2>2, JobIs DEF Catting
  <2>4. QED BY <1>3, <1>12, <2>2, <2>3, KeepsRead
<1>14. CopyRead => Abstract!Next
  <2>1. SUFFICES ASSUME CopyRead PROVE Abstract!Next
    OBVIOUS
  <2>2. /\ job.cmd = "cp" /\ job.pc \in {"opened", "write"} /\ call.op = "none"
        /\ call' = Reading(job.src, Buffer) /\ UNCHANGED <<table, data, handle>>
    BY <2>1 DEF CopyRead, JobCall, Returned
  <2>3. job.src \in Open
    BY <2>2, JobIs DEF Copying
  <2>4. QED BY <1>3, <1>12, <2>2, <2>3, KeepsRead
<1>15. CopyWrite => Abstract!Next
  <2>1. SUFFICES ASSUME CopyWrite PROVE Abstract!Next
    OBVIOUS
  <2>2. /\ job.cmd = "cp" /\ job.pc = "read" /\ call.op = "none"
        /\ call' = Writing(job.dst, call.got) /\ UNCHANGED <<table, data, handle>>
    BY <2>1 DEF CopyWrite, JobCall, Returned
  <2>3. job.dst \in Open
    BY <2>2, JobIs DEF Copying
  <2>4. QED BY <1>3, <2>2, <2>3, KeepsWrite
<1>16. ListRead => Abstract!Next
  <2>1. SUFFICES ASSUME ListRead PROVE Abstract!Next
    OBVIOUS
  <2>2. /\ job.cmd = "ls" /\ call.op = "none"
        /\ call' = Reading(job.src, EntryBytes) /\ UNCHANGED <<table, data, handle>>
    BY <2>1 DEF ListRead, JobCall, Returned
  <2>3. job.src \in Open
    BY <2>2, JobIs DEF Listing
  <2>4. QED BY <1>3, <1>12, <2>2, <2>3, KeepsRead
<1>17. ListAborts => Abstract!Next
  BY <1>2 DEF ListAborts, Note
<1>18. ListEnd => Abstract!Next
  <2>1. SUFFICES ASSUME ListEnd PROVE Abstract!Next
    OBVIOUS
  <2>2. /\ job.cmd = "ls" /\ Forget(job.src) /\ UNCHANGED <<table, data, free, slots, dead, spoiled>>
        /\ call.op = "none" /\ call'.op = "none"
    BY <2>1 DEF ListEnd, Returned, NoCall
  <2>3. Open = {job.src} /\ Src.inode = table[Src.file]
    BY <2>2, JobIs DEF Listing
  <2> DEFINE h == job.src
  <2>4. h \in Open /\ handle[h].inode = table[handle[h].file] /\ Forget(h)
    BY <2>2, <2>3 DEF Src
  <2> HIDE DEF h
  <2>5. QED BY <1>3, <2>2, <2>4, KeepsForget
<1>19. JobClose => Abstract!Next
  <2>1. SUFFICES ASSUME JobClose PROVE Abstract!Next
    OBVIOUS
  <2>2. /\ LoopDone /\ CloseSlot(job.src) /\ UNCHANGED <<data, free, dead, spoiled>>
        /\ call.op = "none" /\ call'.op = "none"
    BY <2>1 DEF JobClose, LoopDone, Returned, NoCall
  <2>3. job.src \in Open
    BY <2>2, JobIs DEF LoopDone, Creating, Catting, Copying
  <2>4. QED BY <1>3, <2>2, <2>3, KeepsClose
<1>20. CopyClose => Abstract!Next
  <2>1. SUFFICES ASSUME CopyClose PROVE Abstract!Next
    OBVIOUS
  <2>2. job.pc = "close" /\ CloseSlot(job.dst) /\ UNCHANGED <<data, free, call, dead, spoiled>>
    BY <2>1 DEF CopyClose
  <2>3. job.dst \in Open /\ call.op = "none"
    BY <2>2, JobIs DEF Copying, Returned
  <2>4. call'.op = "none"
    BY <2>2, <2>3
  <2>5. QED BY <1>3, <2>2, <2>3, <2>4, KeepsClose
<1>21. QED BY <1>4, <1>5, <1>6, <1>8, <1>9, <1>10, <1>11, <1>13, <1>14, <1>15, <1>16, <1>17, <1>18, <1>19, <1>20 DEF Turn

LEMMA StreamsBegin ==
  ASSUME Init
  PROVE  Abstract!Init
<1>1. Open = {} /\ \A f \in Files : ~Exists(f)
  BY DEF Init, Open, Exists
<1>2. Content = [f \in Files |-> NoFile]
  BY <1>1 DEF Content
<1>3. Cursor = [h \in Handles |-> [file |-> NoFile, pos |-> 0]]
  BY <1>1 DEF Cursor
<1>4. call = [op |-> "none", h |-> 0, want |-> 0, rest |-> << >>, got |-> << >>]
  BY DEF Init, NoCall
<1>5. Asking = [call EXCEPT !.rest = << >>]
  BY <1>4 DEF Asking
<1>6. Asking = [op |-> "none", h |-> 0, want |-> 0, rest |-> << >>, got |-> << >>]
  BY <1>4, <1>5
<1>7. spoiled = {}
  BY DEF Init
<1>8. QED BY <1>2, <1>3, <1>6, <1>7
         DEF Abstract!Init, Abstract!Closed, Abstract!Idle, Content, Cursor, Asking

\* Open files are byte streams: every run of the calls and commands, turn by
\* turn through blocks that are split, shared out, given back and taken over,
\* is a run of ByteFiles, as long as nothing is noted that this layer cannot
\* take (base_file_read, base_file_write, base_file_truncate, fulfs_lseek).
THEOREM StreamsAreKept == Spec => StreamsKept
<1>1. Init => Abstract!Init
  BY StreamsBegin
<1>2. Sound /\ Sound' /\ BooksOK /\ [Next]_vars => [Abstract!Next]_(Abstract!vars)
  <2> SUFFICES ASSUME Sound, Sound', BooksOK, [Next]_vars PROVE [Abstract!Next]_(Abstract!vars)
    OBVIOUS
  <2>1. CASE spoiled' = {}
    <3>1. Whole
      BY <2>1, SpoiledStays
    <3>2. CASE UNCHANGED vars
      BY <3>1, <3>2, KeepsStill
    <3>3. CASE Request
      BY <3>1, <3>3, KeepsRequest
    <3>4. CASE Turn
      BY <3>1, <3>4, KeepsTurn
    <3>5. QED BY <3>2, <3>3, <3>4 DEF Next
  <2>2. CASE spoiled' # {}
    BY <2>2 DEF Abstract!Next
  <2>3. QED BY <2>1, <2>2
<1>3. QED BY <1>1, <1>2, SoundAlways, BooksAlways, PTL DEF Spec, StreamsKept, Abstract!Spec

=============================================================================

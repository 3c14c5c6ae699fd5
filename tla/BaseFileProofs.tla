---------------------------- MODULE BaseFileProofs ----------------------------
(***************************************************************************)
(* Proofs about BaseFile, for every number of inodes, slots and blocks: its *)
(* type invariant and every safety property the runs check.                *)
(*                                                                         *)
(* The first part is about one inode, the second about one table of inodes *)
(* and the blocks it names (Books), the third about a table with the open  *)
(* copies over it (Good).  They take the values of the variables as        *)
(* parameters, so one lemma serves a state and its successor.  The last    *)
(* part is the inductive invariant, with one lemma per action.             *)
(***************************************************************************)
EXTENDS BaseFile, Induction, SequenceTheorems

-----------------------------------------------------------------------------
(* Minima and finite intervals.                                            *)

\* So the minimum that inode_alloc looks for is there.
LEMMA LeastIsMin ==
  ASSUME NEW S \in SUBSET Nat, S # {}
  PROVE  Min(S) \in S
BY Least DEF Min

-----------------------------------------------------------------------------
(* One inode: its blocks are a sequence no longer than MaxBlocks.          *)

Numbers == Blocks \cup {NoBlock}
BlockSeq == SeqOf(Numbers, MaxBlocks)

\* The blocks of an inode are a sequence of numbers that is not too long.
LEMMA BlockSeqs ==
  ASSUME NEW q
  PROVE  q \in BlockSeq <=> q \in Seq(Numbers) /\ Len(q) \in 0 .. MaxBlocks
<1> USE BoundsAssumption
<1>1. ASSUME q \in BlockSeq
      PROVE  q \in Seq(Numbers) /\ Len(q) \in 0 .. MaxBlocks
  <2>1. PICK m \in 0 .. MaxBlocks : q \in [1 .. m -> Numbers]
    BY <1>1 DEF BlockSeq, SeqOf
  <2>2. QED BY <2>1, IsASeq
<1>2. ASSUME q \in Seq(Numbers), Len(q) \in 0 .. MaxBlocks
      PROVE  q \in BlockSeq
  <2>1. q \in [1 .. Len(q) -> Numbers]
    BY <1>2, LenProperties
  <2>2. QED BY <1>2, <2>1 DEF BlockSeq, SeqOf
<1>3. QED BY <1>1, <1>2

\* The entries of the blocks of an inode, and the blocks of an empty file.
LEMMA BlockEntries ==
  ASSUME NEW q \in BlockSeq
  PROVE  /\ Len(q) \in 0 .. MaxBlocks
         /\ \A k \in 1 .. Len(q) : q[k] \in Numbers
BY BlockSeqs, ElementOfSeq

\* A new inode has no blocks.
LEMMA BlocksOfEmpty == << >> \in BlockSeq /\ Len(<< >>) = 0
<1>1. << >> \in Seq(Numbers) /\ Len(<< >>) = 0
  OBVIOUS
<1>2. 0 \in 0 .. MaxBlocks
  BY BoundsAssumption
<1>3. QED BY <1>1, <1>2, BlockSeqs

\* Truncation keeps the first n entries and hands over the others.
LEMMA BlocksCut ==
  ASSUME NEW q \in BlockSeq, NEW n \in 0 .. MaxBlocks, n < Len(q)
  PROVE  /\ SubSeq(q, 1, n) \in BlockSeq
         /\ Len(SubSeq(q, 1, n)) = n
         /\ \A k \in 1 .. n : SubSeq(q, 1, n)[k] = q[k]
         /\ Len(SubSeq(q, n + 1, Len(q))) = Len(q) - n
         /\ ToSet(SubSeq(q, n + 1, Len(q))) = {q[k] : k \in (n + 1) .. Len(q)}
<1> USE BoundsAssumption
<1>1. q \in Seq(Numbers) /\ Len(q) \in 0 .. MaxBlocks /\ \A k \in 1 .. Len(q) : q[k] \in Numbers
  BY BlockSeqs, BlockEntries
<1>2. ASSUME NEW m \in 1 .. (MaxBlocks + 1), NEW l \in 0 .. Len(q)
      PROVE  /\ SubSeq(q, m, l) \in Seq(Numbers)
             /\ Len(SubSeq(q, m, l)) = IF m <= l THEN l - m + 1 ELSE 0
             /\ \A k \in 1 .. l - m + 1 : SubSeq(q, m, l)[k] = q[m + k - 1]
  <2>1. m \in Int /\ l \in Int /\ \A k \in m .. l : q[k] \in Numbers
    BY <1>1
  <2>2. QED BY <2>1, SubSeqProperties
<1>3. /\ SubSeq(q, 1, n) \in Seq(Numbers)
      /\ Len(SubSeq(q, 1, n)) = n
      /\ \A k \in 1 .. n : SubSeq(q, 1, n)[k] = q[k]
  <2>1. /\ SubSeq(q, 1, n) \in Seq(Numbers)
        /\ Len(SubSeq(q, 1, n)) = IF 1 <= n THEN n - 1 + 1 ELSE 0
        /\ \A k \in 1 .. n - 1 + 1 : SubSeq(q, 1, n)[k] = q[1 + k - 1]
    BY <1>1, <1>2
  <2>2. \A k \in 1 .. n : k \in 1 .. n - 1 + 1 /\ 1 + k - 1 = k
    OBVIOUS
  <2>3. QED BY <2>1, <2>2
<1>4. SubSeq(q, 1, n) \in BlockSeq
  BY <1>3, BlockSeqs
<1> DEFINE tail == SubSeq(q, n + 1, Len(q))
<1>5. /\ tail \in Seq(Numbers)
      /\ Len(tail) = Len(q) - n
      /\ \A k \in 1 .. Len(q) - n : tail[k] = q[n + k]
  <2>1. /\ tail \in Seq(Numbers)
        /\ Len(tail) = IF n + 1 <= Len(q) THEN Len(q) - (n + 1) + 1 ELSE 0
        /\ \A k \in 1 .. Len(q) - (n + 1) + 1 : tail[k] = q[n + 1 + k - 1]
    BY <1>1, <1>2
  <2>2. \A k \in 1 .. Len(q) - n : k \in 1 .. Len(q) - (n + 1) + 1 /\ n + 1 + k - 1 = n + k
    BY <1>1
  <2>3. QED BY <1>1, <2>1, <2>2
<1>6. ToSet(tail) = {q[k] : k \in (n + 1) .. Len(q)}
  <2> HIDE DEF tail
  <2>1. \A x : x \in ToSet(tail) <=> \E k \in 1 .. Len(q) - n : x = tail[k]
    <3>1. DOMAIN tail = 1 .. Len(q) - n
      BY <1>5, LenProperties
    <3>2. QED BY <3>1 DEF ToSet
  <2>2. \A x : (\E k \in 1 .. Len(q) - n : x = tail[k]) => \E k \in (n + 1) .. Len(q) : x = q[k]
    BY <1>1, <1>5
  <2>3. ASSUME NEW k \in (n + 1) .. Len(q)
        PROVE  \E l \in 1 .. Len(q) - n : q[k] = tail[l]
    <3>1. k - n \in 1 .. Len(q) - n /\ n + (k - n) = k
      BY <1>1
    <3>2. QED BY <3>1, <1>5
  <2>4. QED BY <2>1, <2>2, <2>3, ZenonT(60)
<1>7. QED BY <1>3, <1>4, <1>5, <1>6

\* A write at position p past the end puts b after the last entry.
Pushed(q, b, p) == q \o <<b>> \o [k \in 1 .. p - Len(q) |-> NoBlock]

\* base_file_write beyond the end: the old blocks stay where they are.
LEMMA BlocksPushed ==
  ASSUME NEW q \in BlockSeq, NEW b \in Numbers,
         NEW p \in 0 .. MaxBlocks, p >= Len(q), p < MaxBlocks
  PROVE  /\ Pushed(q, b, p) \in BlockSeq
         /\ Len(Pushed(q, b, p)) = p + 1
         /\ \A k \in 1 .. Len(q) : Pushed(q, b, p)[k] = q[k]
         /\ Pushed(q, b, p)[Len(q) + 1] = b
<1>1. q \in Seq(Numbers) /\ Len(q) \in 0 .. MaxBlocks /\ p - Len(q) \in Nat
  BY BlockSeqs, BoundsAssumption
<1>2. <<b>> \in Seq(Numbers) /\ Len(<<b>>) = 1 /\ <<b>>[1] = b
  OBVIOUS
<1>3. PICK one : one = q \o <<b>>
  OBVIOUS
<1>4. PICK gap : gap = [k \in 1 .. p - Len(q) |-> NoBlock]
  OBVIOUS
<1>5. PICK u : u = one \o gap
  OBVIOUS
<1>6. /\ one \in Seq(Numbers) /\ Len(one) = Len(q) + 1
      /\ \A k \in 1 .. Len(q) : one[k] = q[k]
      /\ one[Len(q) + 1] = b
  <2>1. /\ one \in Seq(Numbers)
        /\ Len(one) = Len(q) + 1
        /\ \A k \in 1 .. Len(q) + 1 :
              one[k] = IF k <= Len(q) THEN q[k] ELSE <<b>>[k - Len(q)]
    BY <1>1, <1>2, <1>3, ConcatProperties
  <2>2. Len(q) + 1 - Len(q) = 1 /\ Len(q) + 1 \in 1 .. Len(q) + 1
    BY <1>1
  <2>3. QED BY <2>1, <2>2, <1>1, <1>2
<1>7. gap \in Seq(Numbers) /\ Len(gap) = p - Len(q)
  <2>1. gap \in [1 .. p - Len(q) -> Numbers]
    BY <1>1, <1>4 DEF Numbers
  <2>2. QED BY <1>1, <2>1, IsASeq
<1>8. /\ u \in Seq(Numbers)
      /\ Len(u) = p + 1
      /\ \A k \in 1 .. Len(q) + 1 : u[k] = one[k]
  <2>1. /\ u \in Seq(Numbers)
        /\ Len(u) = Len(one) + Len(gap)
        /\ \A k \in 1 .. Len(one) + Len(gap) :
              u[k] = IF k <= Len(one) THEN one[k] ELSE gap[k - Len(one)]
    <3>1. one \in Seq(Numbers) /\ gap \in Seq(Numbers)
      BY <1>6, <1>7
    <3>2. QED BY <1>5, <3>1, ConcatProperties, Zenon
  <2>2. QED BY <2>1, <1>1, <1>6, <1>7, SMTT(60)
<1>9. u \in BlockSeq
  <2>1. p + 1 \in 0 .. MaxBlocks
    BY BoundsAssumption
  <2>2. QED BY <1>8, <2>1, BlockSeqs
<1>10. u[Len(q) + 1] = b /\ \A k \in 1 .. Len(q) : u[k] = q[k]
  BY <1>1, <1>6, <1>8
<1>11. QED BY <1>3, <1>4, <1>5, <1>8, <1>9, <1>10 DEF Pushed

-----------------------------------------------------------------------------
(* One table t of inodes, U of them in use, F the blocks on the free list. *)

InUseIn(t) == {i \in Inodes : t[i].mode # "empty"}
RefsIn(t, U) == {r \in U \X (1 .. MaxBlocks) : r[2] <= Size(t[r[1]])}

ExclusiveIn(t, U, F) ==
    /\ \A r \in RefsIn(t, U) : At(t, r) \in Blocks \ F
    /\ \A q, r \in RefsIn(t, U) : At(t, q) = At(t, r) => q = r

\* The files do not share blocks, and the count n of used blocks is at least
\* what they hold and at most what is off the free list; or it is just both.
Books(t, U, F, n) ==
    ExclusiveIn(t, U, F) /\ Cardinality(RefsIn(t, U)) <= n /\ n <= Cardinality(Blocks \ F)

Exact(t, U, F, n) ==
    n = Cardinality(RefsIn(t, U)) /\ n = Cardinality(Blocks \ F)

\* The places at which inodes name blocks can be counted.
LEMMA RefsFinite ==
  ASSUME NEW t, NEW U \in SUBSET Inodes
  PROVE  IsFiniteSet(RefsIn(t, U)) /\ Cardinality(RefsIn(t, U)) \in Nat
<1>1. IsFiniteSet(U)
  BY InodesAssumption, FS_Subset
<1>2. IsFiniteSet(1 .. MaxBlocks)
  BY BoundsAssumption, FS_Interval
<1>3. IsFiniteSet(U \X (1 .. MaxBlocks))
  BY <1>1, <1>2, FS_Product
<1>4. RefsIn(t, U) \in SUBSET (U \X (1 .. MaxBlocks))
  BY DEF RefsIn
<1>5. QED BY <1>3, <1>4, FS_Subset, FS_CardinalityType

\* So can the blocks that are not free.
LEMMA UsedFinite ==
  ASSUME NEW F
  PROVE  /\ IsFiniteSet(Blocks \ F) /\ Cardinality(Blocks \ F) \in Nat
         /\ Cardinality(Blocks) \in Nat /\ Cardinality(Blocks \ F) <= Cardinality(Blocks)
BY BlocksAssumption, FS_Difference, FS_CardinalityType, FS_Subset

\* The references of file i past the first n, and how many they are.
CutOff(t, i, n) == {r \in {i} \X (1 .. MaxBlocks) : n < r[2] /\ r[2] <= Size(t[i])}

\* What base_file_truncate cuts off has as many places as the size shrinks by.
LEMMA CutOffSize ==
  ASSUME NEW t, NEW i, Size(t[i]) \in 0 .. MaxBlocks, NEW n \in 0 .. Size(t[i])
  PROVE  IsFiniteSet(CutOff(t, i, n)) /\ Cardinality(CutOff(t, i, n)) = Size(t[i]) - n
<1>1. PICK m : m = Size(t[i])
  OBVIOUS
<1>2. m \in 0 .. MaxBlocks /\ n \in 0 .. m
  BY <1>1
<1> DEFINE f == [k \in (n + 1) .. m |-> <<i, k>>]
<1>3. f \in Bijection((n + 1) .. m, CutOff(t, i, n))
  <2>1. \A k \in (n + 1) .. m : <<i, k>> \in CutOff(t, i, n)
    BY <1>1, <1>2, BoundsAssumption DEF CutOff
  <2>2. \A r \in CutOff(t, i, n) : r[2] \in (n + 1) .. m /\ r = <<i, r[2]>>
    BY <1>1, <1>2, BoundsAssumption DEF CutOff
  <2>3. f \in [(n + 1) .. m -> CutOff(t, i, n)]
    BY <2>1
  <2>4. \A k, l \in (n + 1) .. m : f[k] = f[l] => k = l
    OBVIOUS
  <2>5. \A r \in CutOff(t, i, n) : \E k \in (n + 1) .. m : f[k] = r
    BY <2>2
  <2>6. QED BY <2>3, <2>4, <2>5 DEF Bijection, Injection, Surjection, IsInjective
<1>4. IsFiniteSet((n + 1) .. m) /\ Cardinality((n + 1) .. m) = m - n
  <2>1. n + 1 \in Int /\ m \in Int /\ n \in Int /\ n <= m
    BY <1>2
  <2>2. /\ IsFiniteSet((n + 1) .. m)
        /\ Cardinality((n + 1) .. m) = IF n + 1 > m THEN 0 ELSE m - (n + 1) + 1
    BY <2>1, FS_Interval
  <2>3. QED BY <2>1, <2>2
<1>5. QED BY <1>1, <1>3, <1>4, FS_Bijection DEF ExistsBijection

\* Fewer references, or a smaller free list, and the same count.
LEMMA BooksFewer ==
  ASSUME NEW t, NEW U \in SUBSET Inodes, NEW F, NEW n \in Int, Books(t, U, F, n),
         NEW u, NEW W \in SUBSET Inodes, NEW G \in SUBSET F,
         RefsIn(u, W) \subseteq RefsIn(t, U),
         \A r \in RefsIn(u, W) : At(u, r) = At(t, r)
  PROVE  Books(u, W, G, n)
<1>1. ExclusiveIn(u, W, G)
  BY DEF Books, ExclusiveIn
<1>2. Cardinality(RefsIn(u, W)) <= Cardinality(RefsIn(t, U))
  BY RefsFinite, FS_Subset
<1>3. Cardinality(Blocks \ F) <= Cardinality(Blocks \ G)
  <2>1. Blocks \ F \in SUBSET (Blocks \ G)
    OBVIOUS
  <2>2. QED BY <2>1, UsedFinite, FS_Subset
<1>4. /\ Cardinality(RefsIn(u, W)) \in Nat /\ Cardinality(RefsIn(t, U)) \in Nat
      /\ Cardinality(Blocks \ F) \in Nat /\ Cardinality(Blocks \ G) \in Nat
  BY RefsFinite, UsedFinite
<1>5. QED BY <1>1, <1>2, <1>3, <1>4 DEF Books

\* The count of used blocks stays exact if the references stay.
LEMMA ExactSame ==
  ASSUME NEW t, NEW U, NEW F, NEW n, Exact(t, U, F, n),
         NEW u, NEW W, RefsIn(u, W) = RefsIn(t, U)
  PROVE  Exact(u, W, F, n)
BY DEF Exact

\* One more reference, q, to a block b that was free.
LEMMA BooksGive ==
  ASSUME NEW t, NEW U \in SUBSET Inodes, NEW F \in SUBSET Blocks, NEW n \in Int,
         NEW u, NEW q, NEW b \in F,
         q \notin RefsIn(t, U), RefsIn(u, U) = RefsIn(t, U) \cup {q},
         \A r \in RefsIn(t, U) : At(u, r) = At(t, r),
         At(u, q) = b
  PROVE  /\ Books(t, U, F, n) => Books(u, U, F \ {b}, n + 1)
         /\ Exact(t, U, F, n) => Exact(u, U, F \ {b}, n + 1)
<1>1. Cardinality(RefsIn(u, U)) = Cardinality(RefsIn(t, U)) + 1
  BY RefsFinite, FS_AddElement
<1>2. Cardinality(Blocks \ (F \ {b})) = Cardinality(Blocks \ F) + 1
  <2>1. Blocks \ (F \ {b}) = (Blocks \ F) \cup {b} /\ b \notin Blocks \ F
    OBVIOUS
  <2>2. QED BY <2>1, UsedFinite, FS_AddElement
<1>3. ExclusiveIn(t, U, F) => ExclusiveIn(u, U, F \ {b})
  <2>1. SUFFICES ASSUME ExclusiveIn(t, U, F) PROVE ExclusiveIn(u, U, F \ {b})
    OBVIOUS
  <2>2. \A r \in RefsIn(t, U) : At(u, r) \in Blocks \ F /\ At(u, r) # b
    BY <2>1 DEF ExclusiveIn
  <2>3. \A r, p \in RefsIn(t, U) : At(u, r) = At(u, p) => r = p
    BY <2>1 DEF ExclusiveIn
  <2>4. \A r \in RefsIn(u, U) : r \in RefsIn(t, U) \/ r = q
    OBVIOUS
  <2>5. QED BY <2>2, <2>3, <2>4 DEF ExclusiveIn
<1>4. Cardinality(RefsIn(t, U)) \in Nat /\ Cardinality(Blocks \ F) \in Nat
  BY RefsFinite, UsedFinite
<1>5. QED BY <1>1, <1>2, <1>3, <1>4 DEF Books, Exact

\* The references D are given up and their blocks put back on the free list.
LEMMA BooksTake ==
  ASSUME NEW t, NEW U \in SUBSET Inodes, NEW F \in SUBSET Blocks, NEW n \in Int,
         NEW u, NEW W \in SUBSET Inodes, NEW D \in SUBSET RefsIn(t, U),
         RefsIn(u, W) = RefsIn(t, U) \ D,
         \A r \in RefsIn(u, W) : At(u, r) = At(t, r),
         NEW G, G = F \cup {At(t, r) : r \in D},
         ExclusiveIn(t, U, F)
  PROVE  /\ Books(t, U, F, n) => Books(u, W, G, n - Cardinality(D))
         /\ Exact(t, U, F, n) => Exact(u, W, G, n - Cardinality(D))
<1> DEFINE given == {At(t, r) : r \in D}
<1>1. IsFiniteSet(D) /\ Cardinality(D) \in Nat
      /\ Cardinality(RefsIn(u, W)) = Cardinality(RefsIn(t, U)) - Cardinality(D)
  <2>1. IsFiniteSet(D)
    BY RefsFinite, FS_Subset
  <2>2. RefsIn(t, U) \cap D = D
    OBVIOUS
  <2>3. QED BY <2>1, <2>2, RefsFinite, FS_Difference, FS_CardinalityType
<1>2. IsFiniteSet(given) /\ Cardinality(given) = Cardinality(D)
  <2> DEFINE f == [r \in D |-> At(t, r)]
  <2>1. \A q, r \in D : f[q] = f[r] => q = r
    BY DEF ExclusiveIn
  <2>2. f \in Bijection(D, given)
    BY <2>1 DEF Bijection, Injection, Surjection, IsInjective
  <2>3. QED BY <1>1, <2>2, FS_Bijection DEF ExistsBijection
<1>3. given \subseteq Blocks \ F
  BY DEF ExclusiveIn
<1>4. Cardinality(Blocks \ G) = Cardinality(Blocks \ F) - Cardinality(D)
  <2>1. Blocks \ G = (Blocks \ F) \ given /\ (Blocks \ F) \cap given = given
    BY <1>3
  <2> HIDE DEF given
  <2>2. /\ IsFiniteSet(Blocks \ F)
        /\ Cardinality((Blocks \ F) \ given)
             = Cardinality(Blocks \ F) - Cardinality((Blocks \ F) \cap given)
    BY UsedFinite, FS_Difference
  <2>3. QED BY <2>1, <2>2, <1>2
<1>5. ExclusiveIn(u, W, G)
  <2>1. \A r \in RefsIn(u, W) : \A d \in D : At(t, r) # At(t, d)
    BY DEF ExclusiveIn
  <2>2. QED BY <2>1 DEF ExclusiveIn
<1>6. Cardinality(RefsIn(t, U)) \in Nat /\ Cardinality(Blocks \ F) \in Nat
  BY RefsFinite, UsedFinite
<1> HIDE DEF given
<1>7. QED BY <1>1, <1>4, <1>5, <1>6 DEF Books, Exact

-----------------------------------------------------------------------------
(* A table tb and the slots sl over it.                                    *)

OpenIn(sl) == {s \in Slots : sl[s].state = "open"}
OpenOnIn(sl, i) == {s \in OpenIn(sl) : sl[s].no = i}
CutIn(sl) == \E s \in OpenIn(sl) : sl[s].cut

ViewsIn(tb, sl) ==
    [i \in Inodes |-> IF OpenOnIn(sl, i) = {} THEN tb[i]
                      ELSE sl[CHOOSE s \in OpenOnIn(sl, i) : TRUE].inode]

\* No file is open twice; so the copy that View chooses is the only one.
OneOpening(sl) == \A s, r \in OpenIn(sl) : sl[s].no = sl[r].no => s = r

\* OpenFilesExist.
Agree(tb, sl) ==
    \A s \in OpenIn(sl) : /\ sl[s].no \in InUseIn(tb)
                          /\ sl[s].inode.mode = tb[sl[s].no].mode
                          /\ sl[s].inode.links = tb[sl[s].no].links

\* The copy of a file that was not cut down has what the disk has, and then
\* perhaps more.
Behind(tb, sl) ==
    \A s \in OpenIn(sl) : ~sl[s].cut =>
       /\ Size(tb[sl[s].no]) <= Size(sl[s].inode)
       /\ \A k \in 1 .. Size(tb[sl[s].no]) : tb[sl[s].no].blocks[k] = sl[s].inode.blocks[k]

\* UsedInodesCover.
InodesCounted(tb, kd, k, cr) ==
    /\ k.inodes >= Cardinality(InUseIn(tb)) /\ kd.inodes >= Cardinality(InUseIn(tb))
    /\ ~cr => k.inodes = Cardinality(InUseIn(tb))

\* The state behind the properties: of the table tb, the superblock kd on
\* disk and k in memory, the free list F, the slots sl, cr once crashed.
Good(tb, kd, k, F, sl, cr) ==
    /\ OneOpening(sl) /\ Agree(tb, sl) /\ Behind(tb, sl)
    /\ InodesCounted(tb, kd, k, cr)
    /\ Books(ViewsIn(tb, sl), InUseIn(tb), F, k.blocks)
    /\ ~cr => Exact(ViewsIn(tb, sl), InUseIn(tb), F, k.blocks)
    /\ ~CutIn(sl) => Books(tb, InUseIn(tb), F, kd.blocks)
    /\ kd.blocks \in 0 .. Cardinality(Blocks)
    /\ F \subseteq Blocks

Counts == [inodes : Int, blocks : Int]

Typed(tb, kd, k, F, sl) ==
    /\ tb \in [Inodes -> Inode] /\ kd \in Counts /\ k \in Counts
    /\ F \in SUBSET Numbers /\ sl \in [Slots -> Slot]

\* The size of an inode is the number of its blocks.
LEMMA InodeSize ==
  ASSUME NEW n \in Inode
  PROVE  /\ Size(n) \in 0 .. MaxBlocks /\ n.blocks \in BlockSeq
         /\ \A k \in 1 .. Size(n) : n.blocks[k] \in Numbers
<1>1. n.blocks \in BlockSeq
  BY DEF Inode, BlockSeq, Numbers
<1>2. QED BY <1>1, BlockEntries DEF Size

\* The open copies, where there are any, and the table elsewhere.
LEMMA ViewsAre ==
  ASSUME NEW tb \in [Inodes -> Inode], NEW sl \in [Slots -> Slot], OneOpening(sl)
  PROVE  /\ ViewsIn(tb, sl) \in [Inodes -> Inode]
         /\ \A s \in OpenIn(sl) : sl[s].no \in Inodes /\ ViewsIn(tb, sl)[sl[s].no] = sl[s].inode
         /\ \A i \in Inodes : (\A s \in OpenIn(sl) : sl[s].no # i) => ViewsIn(tb, sl)[i] = tb[i]
<1>1. ASSUME NEW s \in OpenIn(sl)
      PROVE  sl[s].no \in Inodes /\ ViewsIn(tb, sl)[sl[s].no] = sl[s].inode
  <2>1. s \in Slots /\ sl[s] \in Slot /\ sl[s].no \in Inodes
    BY DEF OpenIn, Slot
  <2>2. OpenOnIn(sl, sl[s].no) = {s}
    BY DEF OpenOnIn, OneOpening
  <2>3. (CHOOSE r \in OpenOnIn(sl, sl[s].no) : TRUE) = s
    BY <2>2
  <2>4. QED BY <2>1, <2>2, <2>3 DEF ViewsIn
<1>2. ASSUME NEW i \in Inodes, \A s \in OpenIn(sl) : sl[s].no # i
      PROVE  ViewsIn(tb, sl)[i] = tb[i]
  BY <1>2 DEF OpenOnIn, ViewsIn
<1>3. ASSUME NEW i \in Inodes
      PROVE  ViewsIn(tb, sl)[i] \in Inode
  <2>1. CASE \A s \in OpenIn(sl) : sl[s].no # i
    BY <2>1, <1>2
  <2>2. CASE \E s \in OpenIn(sl) : sl[s].no = i
    <3>1. PICK s \in OpenIn(sl) : sl[s].no = i
      BY <2>2
    <3>2. sl[s].inode \in Inode
      BY DEF OpenIn, Slot
    <3>3. QED BY <3>1, <3>2, <1>1
  <2>3. QED BY <2>1, <2>2
<1>4. ViewsIn(tb, sl) \in [Inodes -> Inode]
  BY <1>3 DEF ViewsIn
<1>5. QED BY <1>1, <1>2, <1>4

\* References are indices into the blocks of files in use.
LEMMA RefsAre ==
  ASSUME NEW t \in [Inodes -> Inode], NEW U \in SUBSET Inodes
  PROVE  \A r : r \in RefsIn(t, U) <=>
                   \E i \in U : \E k \in 1 .. Size(t[i]) : r = <<i, k>>
<1>1. \A i \in U : Size(t[i]) \in 0 .. MaxBlocks
  BY InodeSize
<1>2. QED BY <1>1, BoundsAssumption DEF RefsIn

\* Tables that agree on the blocks of the files in W, all others being empty.
LEMMA SameRefs ==
  ASSUME NEW t \in [Inodes -> Inode], NEW u \in [Inodes -> Inode],
         NEW U \in SUBSET Inodes, NEW W \in SUBSET U,
         \A i \in W : u[i].blocks = t[i].blocks,
         \A i \in U \ W : Size(u[i]) = 0
  PROVE  RefsIn(u, U) = RefsIn(t, W) /\ \A r \in RefsIn(u, U) : At(u, r) = At(t, r)
<1>1. \A i \in W : Size(u[i]) = Size(t[i])
  BY DEF Size
<1>2. \A r : r \in RefsIn(u, U) => r \in RefsIn(t, W)
  BY <1>1, RefsAre
<1>3. \A r : r \in RefsIn(t, W) => r \in RefsIn(u, U)
  BY <1>1, RefsAre
<1>4. \A r \in RefsIn(t, W) : At(u, r) = At(t, r)
  BY RefsAre DEF At
<1>5. QED BY <1>2, <1>3, <1>4

\* What the disk shows of files that were not cut down is in the copies.
LEMMA DiskInViews ==
  ASSUME NEW tb \in [Inodes -> Inode], NEW sl \in [Slots -> Slot],
         OneOpening(sl), Behind(tb, sl), ~CutIn(sl), NEW U \in SUBSET Inodes
  PROVE  /\ RefsIn(tb, U) \subseteq RefsIn(ViewsIn(tb, sl), U)
         /\ \A r \in RefsIn(tb, U) : At(tb, r) = At(ViewsIn(tb, sl), r)
<1> DEFINE V == ViewsIn(tb, sl)
<1>1. ASSUME NEW i \in U, NEW k \in 1 .. Size(tb[i])
      PROVE  k \in 1 .. Size(V[i]) /\ tb[i].blocks[k] = V[i].blocks[k]
  <2>1. CASE \A s \in OpenIn(sl) : sl[s].no # i
    BY <2>1, ViewsAre
  <2>2. CASE \E s \in OpenIn(sl) : sl[s].no = i
    <3>1. PICK s \in OpenIn(sl) : sl[s].no = i
      BY <2>2
    <3>2. V[i] = sl[s].inode /\ ~sl[s].cut
      BY <3>1, ViewsAre DEF CutIn
    <3>3. Size(tb[i]) \in Nat /\ Size(V[i]) \in Nat
      BY InodeSize, ViewsAre, BoundsAssumption
    <3>4. QED BY <3>1, <3>2, <3>3 DEF Behind
  <2>3. QED BY <2>1, <2>2
<1>2. V \in [Inodes -> Inode]
  BY ViewsAre
<1> HIDE DEF V
<1>3. ASSUME NEW r \in RefsIn(tb, U)
      PROVE  r \in RefsIn(V, U) /\ At(tb, r) = At(V, r)
  <2>1. PICK i \in U : \E k \in 1 .. Size(tb[i]) : r = <<i, k>>
    BY RefsAre
  <2>2. QED BY <2>1, <1>1, <1>2, RefsAre DEF At
<1>4. QED BY <1>3 DEF V

\* So the books of the views are also books of the disk, when no file is cut.
LEMMA DiskBooks ==
  ASSUME NEW tb \in [Inodes -> Inode], NEW sl \in [Slots -> Slot],
         OneOpening(sl), Behind(tb, sl), ~CutIn(sl), NEW U \in SUBSET Inodes,
         NEW F, NEW n \in Int, Books(ViewsIn(tb, sl), U, F, n)
  PROVE  Books(tb, U, F, n)
<1>1. F \in SUBSET F
  OBVIOUS
<1>2. QED BY <1>1, DiskInViews, BooksFewer

-----------------------------------------------------------------------------
(* Types.                                                                  *)

Ways == {"shared", "hole", "torn"}

Types ==
    /\ Typed(table, sbDisk, sb, free, slot)
    /\ crashed \in BOOLEAN /\ spoiled \in SUBSET Ways

\* Inodes are records; the empty one and a free slot are of their types.
LEMMA InodeRecord ==
  /\ Inode = [mode : Modes, links : 0 .. MaxLinks, blocks : BlockSeq]
  /\ EmptyInode \in Inode /\ Size(EmptyInode) = 0
  /\ FreeSlot \in Slot /\ FreeSlot.state # "open"
<1>1. Inode = [mode : Modes, links : 0 .. MaxLinks, blocks : BlockSeq]
  BY DEF Inode, BlockSeq, Numbers
<1>2. EmptyInode \in Inode /\ Size(EmptyInode) = 0
  BY <1>1, BlocksOfEmpty, BoundsAssumption DEF EmptyInode, Modes, Size
<1>3. QED BY <1>1, <1>2, InodesAssumption, BoundsAssumption DEF FreeSlot, Slot

\* An inode whose fields are changed within their ranges is an inode.
LEMMA InodeEdits ==
  ASSUME NEW n \in Inode
  PROVE  /\ n.mode \in Modes /\ n.links \in 0 .. MaxLinks /\ n.blocks \in BlockSeq
         /\ n = [mode |-> n.mode, links |-> n.links, blocks |-> n.blocks]
         /\ \A m \in Modes, l \in 0 .. MaxLinks, q \in BlockSeq :
               [mode |-> m, links |-> l, blocks |-> q] \in Inode
BY InodeRecord

\* Likewise a slot.
LEMMA SlotEdits ==
  ASSUME NEW x \in Slot
  PROVE  /\ x.state \in {"free", "open", "leaked"} /\ x.no \in Inodes /\ x.inode \in Inode
         /\ x.pos \in 0 .. MaxBlocks /\ x.cut \in BOOLEAN
         /\ \A p \in 0 .. MaxBlocks : [x EXCEPT !.pos = p] \in Slot
         /\ \A n \in Inode : [x EXCEPT !.inode = n] \in Slot
         /\ [x EXCEPT !.cut = TRUE] \in Slot
BY DEF Slot

\* The variables have their types at first,
LEMMA InitTypes == Init => Types
<1>1. SUFFICES ASSUME Init PROVE Types
  OBVIOUS
<1>2. \A i \in Inodes : table[i] \in Inode
  BY <1>1, InodeRecord, BoundsAssumption DEF Init, EmptyInode, Modes
<1>3. table \in [Inodes -> Inode]
  BY <1>1, <1>2 DEF Init
<1>4. sbDisk \in Counts /\ sb \in Counts
  BY <1>1 DEF Init, Counts
<1>5. slot \in [Slots -> Slot] /\ free \in SUBSET Numbers
  BY <1>1, InodeRecord DEF Init, Numbers
<1>6. crashed \in BOOLEAN /\ spoiled \in SUBSET Ways
  BY <1>1 DEF Init
<1>7. QED BY <1>3, <1>4, <1>5, <1>6 DEF Types, Typed

\* and every action keeps them.
LEMMA StepTypes == Types /\ [Next]_vars => Types'
<1>1. SUFFICES ASSUME Types, [Next]_vars PROVE Types'
  OBVIOUS
<1> USE DEF Types, Typed
<1>2. ASSUME NEW k \in Counts
      PROVE  /\ k.inodes \in Int /\ k.blocks \in Int
             /\ \A n \in Int : [k EXCEPT !.inodes = n] \in Counts /\ [k EXCEPT !.blocks = n] \in Counts
  BY DEF Counts
<1>3. /\ sb \in Counts /\ sbDisk \in Counts /\ Created \in Counts
      /\ \A n \in Nat : [sb EXCEPT !.blocks = @ + n] \in Counts /\ [sb EXCEPT !.blocks = @ - n] \in Counts
  <2>1. sb.inodes + 1 \in Int /\ \A n \in Nat : sb.blocks + n \in Int /\ sb.blocks - n \in Int
    BY <1>1, <1>2
  <2>2. QED BY <1>1, <1>2, <2>1 DEF Created
<1>4. ASSUME NEW i \in Inodes
      PROVE  /\ table[i] \in Inode /\ table[i].blocks \in BlockSeq
             /\ Deleted(i) \in Counts /\ [Deleted(i) EXCEPT !.inodes = @ - 1] \in Counts
             /\ free \cup ToSet(table[i].blocks) \in SUBSET Numbers
  <2>1. table[i] \in Inode /\ table[i].blocks \in BlockSeq /\ Size(table[i]) \in Nat
    BY <1>1, InodeSize, BoundsAssumption
  <2>2. Deleted(i) \in Counts
    BY <1>3, <2>1 DEF Deleted
  <2>3. Deleted(i).inodes - 1 \in Int
    BY <1>2, <2>2
  <2>4. [Deleted(i) EXCEPT !.inodes = @ - 1] \in Counts
    BY <1>2, <2>2, <2>3
  <2>5. ToSet(table[i].blocks) \in SUBSET Numbers
    BY <2>1, BlockSeqs, BlockEntries, LenProperties DEF ToSet
  <2>6. QED BY <1>1, <2>1, <2>2, <2>4, <2>5
<1>5. ASSUME NEW what \in Ways, NEW when, Note(what, when)
      PROVE  spoiled' \in SUBSET Ways
  BY <1>1, <1>5 DEF Note
<1>6. LeakSlot => slot' \in [Slots -> Slot]
  BY <1>1 DEF LeakSlot, FreeSlots, Slot
<1>7. ASSUME NEW c \in Counts, Reboot(c)
      PROVE  sbDisk' \in Counts /\ sb' \in Counts /\ slot' \in [Slots -> Slot] /\ crashed' \in BOOLEAN
  BY <1>7, InodeRecord DEF Reboot
<1>8. ASSUME Create PROVE Types'
  <2>1. PICK i : i = Min(Unused)
    OBVIOUS
  <2>2. i \in Inodes
    BY <1>8, <2>1, LeastIsMin, InodesAssumption DEF Create, Unused
  <2>3. table' = [table EXCEPT ![i].mode = "used", ![i].blocks = << >>, ![i].links = 1]
    BY <1>8, <2>1 DEF Create
  <2>4. [[[table[i] EXCEPT !.mode = "used"] EXCEPT !.blocks = << >>] EXCEPT !.links = 1] \in Inode
    <3>1. "used" \in Modes /\ 1 \in 0 .. MaxLinks /\ << >> \in BlockSeq
      BY BlocksOfEmpty, BoundsAssumption DEF Modes
    <3>2. QED BY <1>4, <2>2, <3>1, InodeRecord
  <2>5. table' \in [Inodes -> Inode]
    BY <1>1, <2>2, <2>3, <2>4
  <2>6. QED BY <1>1, <1>3, <1>8, <2>5 DEF Create
<1>9. ASSUME NEW i \in Inodes, OpenFile(i) PROVE Types'
  <2>1. [state |-> "open", no |-> i, inode |-> table[i], pos |-> 0, cut |-> FALSE] \in Slot
    <3>1. 0 \in 0 .. MaxBlocks
      BY BoundsAssumption
    <3>2. QED BY <1>4, <3>1 DEF Slot
  <2>2. slot' \in [Slots -> Slot]
    BY <1>1, <1>9, <2>1 DEF OpenFile, FreeSlots
  <2>3. QED BY <1>1, <1>5, <1>9, <2>2 DEF OpenFile, Ways
<1>10. ASSUME NEW i \in Inodes, Ref(i) \/ UnrefKeep(i) PROVE Types'
  <2>1. table[i].links \in 0 .. MaxLinks /\ table[i] \in Inode
    BY <1>4, InodeEdits
  <2>2. /\ table[i].links < MaxLinks => table[i].links + 1 \in 0 .. MaxLinks
        /\ table[i].links > 1 => table[i].links - 1 \in 0 .. MaxLinks
    BY <2>1, BoundsAssumption
  <2>3. table' \in [Inodes -> Inode]
    BY <1>1, <1>4, <1>10, <2>1, <2>2, InodeRecord DEF Ref, UnrefKeep
  <2>4. QED BY <1>1, <1>5, <1>10, <2>3 DEF Ref, UnrefKeep, Ways
<1>11. ASSUME NEW i \in Inodes, UnrefDelete(i) PROVE Types'
  <2>1. table' \in [Inodes -> Inode]
    BY <1>1, <1>4, <1>11, InodeRecord, BlocksOfEmpty DEF UnrefDelete, Modes
  <2>2. QED BY <1>1, <1>4, <1>5, <1>6, <1>11, <2>1 DEF UnrefDelete, Ways
<1>12. ASSUME NEW i \in Inodes, UnrefStuck(i) \/ Stat(i) PROVE Types'
  BY <1>1, <1>5, <1>6, <1>12 DEF UnrefStuck, Stat, Ways
<1>13. ASSUME NEW i \in Inodes, CrashInDelete(i) PROVE Types'
  <2>1. table' \in [Inodes -> Inode]
    BY <1>1, <1>4, <1>13, InodeRecord, BlocksOfEmpty DEF CrashInDelete
  <2>2. /\ sbDisk' \in Counts /\ sb' \in Counts /\ slot' \in [Slots -> Slot]
        /\ crashed' \in BOOLEAN /\ spoiled' \in SUBSET Ways
    BY <1>3, <1>4, <1>5, <1>7, <1>13 DEF CrashInDelete, Ways
  <2>3. QED BY <1>4, <1>13, <2>1, <2>2 DEF CrashInDelete
<1>14. ASSUME NEW s \in Slots
       PROVE  /\ slot[s] \in Slot /\ slot[s].no \in Inodes /\ slot[s].inode \in Inode
              /\ slot[s].inode.blocks \in BlockSeq /\ slot[s].pos \in 0 .. MaxBlocks
              /\ Len(slot[s].inode.blocks) \in 0 .. MaxBlocks
  <2>1. slot[s] \in Slot
    BY <1>1
  <2>2. QED BY <2>1, InodeRecord, BlockEntries DEF Slot
<1>15. ASSUME NEW s \in Slots, WriteInside(s) \/ \E n \in 0 .. MaxBlocks : Seek(s, n)
       PROVE  Types'
  <2>1. slot[s].pos + 1 \in 0 .. MaxBlocks \/ ~(slot[s].pos < Size(slot[s].inode))
    BY <1>14, BoundsAssumption DEF Size
  <2>2. slot' \in [Slots -> Slot]
    <3>1. ASSUME NEW p \in 0 .. MaxBlocks, slot' = [slot EXCEPT ![s].pos = p]
          PROVE  slot' \in [Slots -> Slot]
      BY <1>1, <1>14, <3>1, SlotEdits
    <3>2. CASE WriteInside(s)
      BY <2>1, <3>1, <3>2 DEF WriteInside
    <3>3. CASE \E n \in 0 .. MaxBlocks : Seek(s, n)
      BY <3>1, <3>3 DEF Seek
    <3>4. QED BY <1>15, <3>2, <3>3
  <2>3. QED BY <1>1, <1>15, <2>2 DEF Seek, WriteInside
<1>16. ASSUME NEW s \in Slots, WritePush(s) PROVE Types'
  <2>1. PICK b \in free :
           /\ free' = free \ {b}
           /\ slot' = [slot EXCEPT ![s].pos = slot[s].pos + 1,
                 ![s].inode.blocks = Pushed(slot[s].inode.blocks, b, slot[s].pos)]
    BY <1>16 DEF WritePush, Size, Pushed
  <2>2. b \in Numbers
    BY <1>1
  <2>3. Pushed(slot[s].inode.blocks, b, slot[s].pos) \in BlockSeq
    BY <1>14, <1>16, <2>2, BlocksPushed DEF WritePush, Size
  <2>4. slot[s].pos + 1 \in 0 .. MaxBlocks
    BY <1>14, <1>16, BoundsAssumption DEF WritePush
  <2>5. slot' \in [Slots -> Slot]
    <3> DEFINE q == Pushed(slot[s].inode.blocks, b, slot[s].pos)
    <3>1. [slot[s].inode EXCEPT !.blocks = q] \in Inode
      BY <1>14, <2>3, InodeRecord
    <3>2. [[slot[s] EXCEPT !.pos = slot[s].pos + 1] EXCEPT !.inode.blocks = q] \in Slot
      BY <1>14, <2>4, <3>1 DEF Slot
    <3>3. QED BY <1>1, <2>1, <3>2
  <2>6. sb' \in Counts
    BY <1>3, <1>16 DEF WritePush
  <2>7. QED BY <1>1, <1>5, <1>16, <2>1, <2>5, <2>6 DEF WritePush, Ways
<1>17. ASSUME NEW s \in Slots, NEW n \in 0 .. MaxBlocks, Truncate(s, n) PROVE Types'
  <2> DEFINE q == slot[s].inode.blocks
  <2>1. n < Len(q) /\ q \in BlockSeq
    BY <1>14, <1>17 DEF Truncate
  <2>2. /\ SubSeq(q, 1, n) \in BlockSeq
        /\ Len(SubSeq(q, n + 1, Len(q))) = Len(q) - n
        /\ ToSet(SubSeq(q, n + 1, Len(q))) = {q[k] : k \in (n + 1) .. Len(q)}
    BY <2>1, BlocksCut
  <2>3. Len(q) - n \in Nat /\ {q[k] : k \in (n + 1) .. Len(q)} \subseteq Numbers
    BY <2>1, <1>14, BlockEntries
  <2>4. sb' \in Counts /\ free' \in SUBSET Numbers
    BY <1>1, <1>3, <1>17, <2>2, <2>3 DEF Truncate
  <2>5. slot' \in [Slots -> Slot]
    <3>1. [slot[s].inode EXCEPT !.blocks = SubSeq(q, 1, n)] \in Inode
      BY <1>14, <2>2, InodeRecord
    <3>2. [[slot[s] EXCEPT !.inode.blocks = SubSeq(q, 1, n)] EXCEPT !.cut = TRUE] \in Slot
      BY <1>14, <3>1 DEF Slot
    <3>3. QED BY <1>1, <1>17, <3>2 DEF Truncate
  <2>6. QED BY <1>1, <1>17, <2>4, <2>5 DEF Truncate
<1>18. ASSUME NEW s \in Slots, Close(s) PROVE Types'
  BY <1>1, <1>14, <1>18, InodeRecord DEF Close
<1>19. ASSUME NEW s \in Slots, CrashInClose(s) PROVE Types'
  BY <1>1, <1>5, <1>7, <1>19 DEF CrashInClose, Ways
<1>20. ASSUME Crash \/ CrashInCreate PROVE Types'
  BY <1>1, <1>3, <1>5, <1>7, <1>20 DEF Crash, CrashInCreate, Ways
<1>21. ASSUME UNCHANGED vars PROVE Types'
  BY <1>1, <1>21 DEF vars
<1>22. QED
  BY <1>1, <1>8, <1>9, <1>10, <1>11, <1>12, <1>13, <1>15, <1>16, <1>17, <1>18, <1>19, <1>20, <1>21
     DEF Next, FileCall, InodeCall

-----------------------------------------------------------------------------
(* The inductive invariant, action by action.                              *)

\* The inodes in use can be counted.
LEMMA InUseFinite ==
  ASSUME NEW t
  PROVE  /\ InUseIn(t) \in SUBSET Inodes /\ IsFiniteSet(InUseIn(t))
         /\ Cardinality(InUseIn(t)) \in Nat
BY InodesAssumption, FS_Subset, FS_CardinalityType DEF InUseIn

\* Books with blocks that agree on the files in use.
LEMMA SameBooks ==
  ASSUME NEW t \in [Inodes -> Inode], NEW u \in [Inodes -> Inode],
         NEW U \in SUBSET Inodes, NEW W \in SUBSET U,
         \A i \in W : u[i].blocks = t[i].blocks,
         \A i \in U \ W : Size(u[i]) = 0,
         NEW F, NEW n \in Int
  PROVE  /\ Books(t, W, F, n) => Books(u, U, F, n)
         /\ Exact(t, W, F, n) => Exact(u, U, F, n)
<1>1. RefsIn(u, U) = RefsIn(t, W) /\ \A r \in RefsIn(u, U) : At(u, r) = At(t, r)
  BY SameRefs
<1>2. F \in SUBSET F /\ W \in SUBSET Inodes /\ RefsIn(u, U) \subseteq RefsIn(t, W)
  BY <1>1
<1>3. QED BY <1>1, <1>2, BooksFewer, ExactSame

\* Slots that show the same open files.
LEMMA AlikeGood ==
  ASSUME NEW tb, NEW kd, NEW k, NEW F, NEW sl, Typed(tb, kd, k, F, sl), NEW cr,
         Good(tb, kd, k, F, sl, cr),
         NEW new \in [Slots -> Slot], OpenIn(new) = OpenIn(sl),
         \A s \in OpenIn(sl) : /\ new[s].no = sl[s].no /\ new[s].inode = sl[s].inode
                               /\ new[s].cut = sl[s].cut
  PROVE  Good(tb, kd, k, F, new, cr)
<1>1. OneOpening(new) /\ Agree(tb, new) /\ Behind(tb, new)
  BY DEF Good, OneOpening, Agree, Behind
<1>2. OneOpening(sl)
  BY DEF Good
<1>3. ASSUME NEW i \in Inodes PROVE ViewsIn(tb, new)[i] = ViewsIn(tb, sl)[i]
  <2>1. CASE \A s \in OpenIn(sl) : sl[s].no # i
    BY <1>1, <1>2, <2>1, ViewsAre, SMTT(60) DEF Typed
  <2>2. CASE \E s \in OpenIn(sl) : sl[s].no = i
    BY <1>1, <1>2, <2>2, ViewsAre DEF Typed
  <2>3. QED BY <2>1, <2>2
<1>4. ViewsIn(tb, new) = ViewsIn(tb, sl)
  BY <1>3 DEF ViewsIn
<1>5. CutIn(new) <=> CutIn(sl)
  BY DEF CutIn
<1>6. QED BY <1>1, <1>4, <1>5 DEF Good

\* A restart from the disk: the table tb with counts k in the superblock.
LEMMA RebootGood ==
  ASSUME NEW tb \in [Inodes -> Inode], NEW k \in Counts, NEW F \in SUBSET Blocks,
         NEW sl, sl = [s \in Slots |-> FreeSlot],
         k.inodes >= Cardinality(InUseIn(tb)), Books(tb, InUseIn(tb), F, k.blocks)
  PROVE  Good(tb, k, k, F, sl, TRUE)
<1>1. OpenIn(sl) = {} /\ sl \in [Slots -> Slot]
  BY InodeRecord DEF OpenIn
<1>2. OneOpening(sl) /\ Agree(tb, sl) /\ Behind(tb, sl)
  BY <1>1 DEF OneOpening, Agree, Behind
<1>3. ViewsIn(tb, sl) = tb
  <2>1. \A i \in Inodes : ViewsIn(tb, sl)[i] = tb[i]
    BY <1>1, <1>2, ViewsAre
  <2>2. QED BY <2>1 DEF ViewsIn
<1>4. k.blocks \in 0 .. Cardinality(Blocks)
  <2>1. Cardinality(RefsIn(tb, InUseIn(tb))) \in Nat
    BY InUseFinite, RefsFinite
  <2>2. k.blocks \in Int
    BY DEF Counts
  <2>3. QED BY <2>1, <2>2, UsedFinite DEF Books
<1>5. QED BY <1>2, <1>3, <1>4 DEF Good, InodesCounted

\* The first state: no inode is in use and every block is free.
LEMMA InitGood == Init => Good(table, sbDisk, sb, free, slot, crashed)
<1>1. SUFFICES ASSUME Init PROVE Good(table, sbDisk, sb, free, slot, crashed)
  OBVIOUS
<1>2. table \in [Inodes -> Inode]
  BY <1>1, InitTypes DEF Types, Typed
<1>3. \A i \in Inodes : Size(table[i]) = 0
  BY <1>1, InodeRecord DEF Init, EmptyInode, Size
<1>4. InUseIn(table) = {0} /\ Cardinality(InUseIn(table)) = 1
  <2>1. InUseIn(table) = {0}
    BY <1>1, InodesAssumption DEF Init, InUseIn, EmptyInode
  <2>2. QED BY <2>1, FS_Singleton
<1>5. RefsIn(table, InUseIn(table)) = {}
  BY <1>2, <1>3, <1>4, RefsAre, InodesAssumption
<1>6. Blocks \ free = {}
  BY <1>1 DEF Init
<1>7. Cardinality({}) = 0
  BY FS_EmptySet
<1>8. Books(table, InUseIn(table), free, 0) /\ Exact(table, InUseIn(table), free, 0)
  BY <1>5, <1>6, <1>7 DEF Books, ExclusiveIn, Exact
<1>9. sb = [inodes |-> 1, blocks |-> 0] /\ sb \in Counts /\ sbDisk = sb
  BY <1>1 DEF Init, Counts
<1>10. Good(table, sb, sb, free, slot, TRUE)
  <2>1. sb.inodes >= 1 /\ sb.blocks = 0
    BY <1>9
  <2>2. free \in SUBSET Blocks /\ slot = [s \in Slots |-> FreeSlot]
    BY <1>1 DEF Init
  <2>3. QED BY <1>2, <1>4, <1>8, <1>9, <2>1, <2>2, RebootGood
<1>11. ViewsIn(table, slot) = table
  <2>1. OpenIn(slot) = {}
    BY <1>1, InodeRecord DEF Init, OpenIn
  <2>2. slot \in [Slots -> Slot]
    BY <1>1, InodeRecord DEF Init
  <2>3. \A i \in Inodes : ViewsIn(table, slot)[i] = table[i]
    BY <1>2, <2>1, <2>2, ViewsAre DEF OneOpening
  <2>4. QED BY <1>2, <2>3 DEF ViewsIn
<1>12. QED BY <1>4, <1>8, <1>9, <1>10, <1>11 DEF Good, InodesCounted

\* What every step starts and ends with.
Now == Types /\ Good(table, sbDisk, sb, free, slot, crashed)

\* What the invariant says of the present state, in the terms of the lemmas.
LEMMA NowFacts ==
  Now => /\ OneOpening(slot) /\ Agree(table, slot) /\ Behind(table, slot)
         /\ InUseIn(table) \in SUBSET Inodes /\ InUseIn(table) = InUse
         /\ Open = OpenIn(slot) /\ (Cut <=> CutIn(slot))
         /\ \A i \in Inodes : OpenOn(i) = {} <=> \A s \in OpenIn(slot) : slot[s].no # i
         /\ ViewsIn(table, slot) \in [Inodes -> Inode]
         /\ sb \in Counts /\ sbDisk \in Counts /\ sb.blocks \in Int /\ sb.inodes \in Int
         /\ sbDisk.blocks \in Int /\ sbDisk.inodes \in Int
         /\ Cardinality(InUseIn(table)) \in Nat
         /\ sb.blocks \in 0 .. Cardinality(Blocks) /\ free \in SUBSET Blocks
         /\ ~CutIn(slot) => Books(table, InUseIn(table), free, sb.blocks)
<1>1. SUFFICES ASSUME Now
      PROVE  /\ OneOpening(slot) /\ Agree(table, slot) /\ Behind(table, slot)
             /\ InUseIn(table) \in SUBSET Inodes /\ InUseIn(table) = InUse
             /\ Open = OpenIn(slot) /\ (Cut <=> CutIn(slot))
             /\ \A i \in Inodes : OpenOn(i) = {} <=> \A s \in OpenIn(slot) : slot[s].no # i
             /\ ViewsIn(table, slot) \in [Inodes -> Inode]
             /\ sb \in Counts /\ sbDisk \in Counts /\ sb.blocks \in Int /\ sb.inodes \in Int
             /\ sbDisk.blocks \in Int /\ sbDisk.inodes \in Int
             /\ Cardinality(InUseIn(table)) \in Nat
             /\ sb.blocks \in 0 .. Cardinality(Blocks) /\ free \in SUBSET Blocks
             /\ ~CutIn(slot) => Books(table, InUseIn(table), free, sb.blocks)
  OBVIOUS
<1>2. OneOpening(slot) /\ Agree(table, slot) /\ Behind(table, slot) /\ free \in SUBSET Blocks
  BY <1>1 DEF Now, Good
<1>3. InUseIn(table) = InUse /\ Open = OpenIn(slot) /\ (Cut <=> CutIn(slot))
  BY DEF InUseIn, InUse, Open, OpenIn, Cut, CutIn
<1>4. \A i \in Inodes : OpenOn(i) = {} <=> \A s \in OpenIn(slot) : slot[s].no # i
  BY <1>3 DEF OpenOn
<1>5. table \in [Inodes -> Inode] /\ slot \in [Slots -> Slot] /\ sb \in Counts /\ sbDisk \in Counts
  BY <1>1 DEF Now, Types, Typed
<1>6. sb.blocks \in Int /\ sb.inodes \in Int /\ sbDisk.blocks \in Int /\ sbDisk.inodes \in Int
  BY <1>5 DEF Counts
<1>7. Books(ViewsIn(table, slot), InUseIn(table), free, sb.blocks)
  BY <1>1 DEF Now, Good
<1>8. sb.blocks \in 0 .. Cardinality(Blocks)
  <2>1. Cardinality(RefsIn(ViewsIn(table, slot), InUseIn(table))) \in Nat
    BY InUseFinite, RefsFinite
  <2>2. QED BY <1>6, <1>7, <2>1, UsedFinite DEF Books
<1>9. ~CutIn(slot) => Books(table, InUseIn(table), free, sb.blocks)
  BY <1>2, <1>5, <1>6, <1>7, InUseFinite, DiskBooks
<1>10. QED BY <1>2, <1>3, <1>4, <1>5, <1>6, <1>8, <1>9, InUseFinite, ViewsAre

\* inode_alloc and inode_load into a slot: a new inode has no blocks.
LEMMA CreateGood ==
  Now /\ Types' /\ Create => Good(table', sbDisk', sb', free', slot', crashed')
<1>1. SUFFICES ASSUME Now, Types', Create
               PROVE  Good(table', sbDisk', sb', free', slot', crashed')
  OBVIOUS
<1>2. PICK i : i = Min(Unused)
  OBVIOUS
<1>3. /\ i \in Inodes /\ i \notin InUseIn(table)
      /\ table' = [table EXCEPT ![i].mode = "used", ![i].blocks = << >>, ![i].links = 1]
      /\ sb' = [sb EXCEPT !.inodes = sb.inodes + 1] /\ sbDisk' = sb'
      /\ free' = free /\ slot' = slot /\ crashed' = crashed
  <2>1. i \in Unused
    BY <1>1, <1>2, LeastIsMin, InodesAssumption DEF Create, Unused
  <2>2. QED BY <1>1, <1>2, <2>1, NowFacts DEF Create, Created, Unused
<1>4. table \in [Inodes -> Inode] /\ table' \in [Inodes -> Inode] /\ slot \in [Slots -> Slot]
  BY <1>1 DEF Now, Types, Typed
<1>5. /\ table'[i].mode = "used" /\ Size(table'[i]) = 0
      /\ \A j \in Inodes \ {i} : table'[j] = table[j]
  <2>1. Len(<< >>) = 0
    BY BlocksOfEmpty
  <2>2. table[i] \in Inode
    BY <1>3, <1>4
  <2>3. QED BY <1>3, <1>4, <2>1, <2>2, InodeRecord DEF Size
<1>6. InUseIn(table') = InUseIn(table) \cup {i}
  BY <1>3, <1>5 DEF InUseIn
<1>7. Cardinality(InUseIn(table')) = Cardinality(InUseIn(table)) + 1
  BY <1>3, <1>6, InUseFinite, FS_AddElement
<1>8. \A s \in OpenIn(slot) : slot[s].no \in InUseIn(table) /\ slot[s].no # i
  BY <1>1, <1>3, NowFacts DEF Agree
<1>9. Agree(table', slot) /\ Behind(table', slot) /\ OneOpening(slot)
  BY <1>1, <1>5, <1>6, <1>8, NowFacts, InUseFinite DEF Agree, Behind
<1>10. sb'.blocks = sb.blocks /\ sb'.inodes = sb.inodes + 1
  BY <1>1, <1>3, NowFacts DEF Counts
<1> DEFINE V == ViewsIn(table, slot)
           W == ViewsIn(table', slot)
<1>11. /\ V \in [Inodes -> Inode] /\ W \in [Inodes -> Inode]
       /\ \A j \in InUseIn(table) : W[j].blocks = V[j].blocks
       /\ Size(W[i]) = 0
  <2>1. \A j \in Inodes \ {i} : W[j] = V[j]
    BY <1>5 DEF ViewsIn
  <2>2. W[i] = table'[i]
    <3>1. i \in Inodes /\ \A s \in OpenIn(slot) : slot[s].no # i
      BY <1>3, <1>8
    <3>2. QED BY <1>4, <1>9, <3>1, ViewsAre
  <2>3. QED BY <1>3, <1>4, <1>5, <1>9, <2>1, <2>2, ViewsAre, InUseFinite
<1> HIDE DEF V, W
<1>12. /\ Books(W, InUseIn(table'), free, sb.blocks)
       /\ ~crashed => Exact(W, InUseIn(table'), free, sb.blocks)
  <2>1. Books(V, InUseIn(table), free, sb.blocks)
        /\ (~crashed => Exact(V, InUseIn(table), free, sb.blocks))
    BY <1>1 DEF Now, Good, V
  <2>2. InUseIn(table) \in SUBSET InUseIn(table') /\ InUseIn(table') \in SUBSET Inodes
        /\ InUseIn(table') \ InUseIn(table) = {i}
    BY <1>3, <1>6, InUseFinite
  <2>3. \A j \in InUseIn(table') \ InUseIn(table) : Size(W[j]) = 0
    BY <2>2, <1>11
  <2>4. sb.blocks \in Int
    BY <1>1, NowFacts
  <2>5. QED BY <2>1, <2>2, <2>3, <2>4, <1>11, SameBooks
<1>13. ~CutIn(slot) => Books(table', InUseIn(table'), free, sb.blocks)
  BY <1>1, <1>4, <1>9, <1>12, NowFacts, InUseFinite, DiskBooks DEF W
<1>14. InodesCounted(table', sbDisk', sb', crashed)
  BY <1>1, <1>3, <1>7, <1>10, NowFacts DEF Now, Good, InodesCounted
<1>15. QED BY <1>1, <1>3, <1>9, <1>10, <1>12, <1>13, <1>14, NowFacts DEF Good, W

\* The position in a file, and the slots nobody uses, are nothing to it.
LEMMA QuietGood ==
  ASSUME Now, Types',
         \/ \E s \in Slots : WriteInside(s) \/ \E n \in 0 .. MaxBlocks : Seek(s, n)
         \/ \E i \in Inodes : UnrefStuck(i) \/ Stat(i)
  PROVE  Good(table', sbDisk', sb', free', slot', crashed')
<1>1. /\ table' = table /\ sbDisk' = sbDisk /\ sb' = sb /\ free' = free /\ crashed' = crashed
  BY DEF WriteInside, Seek, UnrefStuck, Stat
<1>2. /\ slot \in [Slots -> Slot] /\ slot' \in [Slots -> Slot]
      /\ Typed(table, sbDisk, sb, free, slot)
  BY DEF Now, Types, Typed
<1>3. /\ OpenIn(slot') = OpenIn(slot)
      /\ \A s \in OpenIn(slot) : /\ slot'[s].no = slot[s].no /\ slot'[s].inode = slot[s].inode
                                 /\ slot'[s].cut = slot[s].cut
  <2>1. ASSUME NEW s \in Slots, NEW p, slot' = [slot EXCEPT ![s].pos = p]
        PROVE  \A r \in Slots : /\ slot'[r].no = slot[r].no /\ slot'[r].inode = slot[r].inode
                                /\ slot'[r].cut = slot[r].cut /\ slot'[r].state = slot[r].state
    BY <1>2, <2>1 DEF Slot
  <2>2. ASSUME NEW s \in FreeSlots, slot' = [slot EXCEPT ![s].state = "leaked"]
        PROVE  /\ \A r \in Slots : /\ slot'[r].no = slot[r].no /\ slot'[r].inode = slot[r].inode
                                   /\ slot'[r].cut = slot[r].cut
               /\ OpenIn(slot') = OpenIn(slot)
    BY <1>2, <2>2 DEF Slot, FreeSlots, OpenIn
  <2>3. CASE \E s \in Slots : WriteInside(s) \/ \E n \in 0 .. MaxBlocks : Seek(s, n)
    <3>1. PICK s \in Slots : \E p : slot' = [slot EXCEPT ![s].pos = p]
      BY <2>3 DEF WriteInside, Seek
    <3>2. QED BY <2>1, <3>1 DEF OpenIn
  <2>4. CASE \E i \in Inodes : UnrefStuck(i) \/ Stat(i)
    <3>1. PICK s \in FreeSlots : slot' = [slot EXCEPT ![s].state = "leaked"]
      BY <2>4 DEF UnrefStuck, Stat, LeakSlot
    <3>2. QED BY <2>2, <3>1 DEF OpenIn
  <2>5. QED BY <2>3, <2>4
<1>4. QED BY <1>1, <1>2, <1>3, AlikeGood DEF Now

\* A change of the links of a file that is not open.
LEMMA LinksGood ==
  ASSUME Now, Types', NEW i \in Inodes, Ref(i) \/ UnrefKeep(i), spoiled' = {}
  PROVE  Good(table', sbDisk', sb', free', slot', crashed')
<1>1. PICK l : table' = [table EXCEPT ![i].links = l]
  BY DEF Ref, UnrefKeep
<1>2. /\ sbDisk' = sbDisk /\ sb' = sb /\ free' = free /\ slot' = slot /\ crashed' = crashed
      /\ \A s \in OpenIn(slot) : slot[s].no # i
  BY NowFacts DEF Ref, UnrefKeep, Note
<1>3. table \in [Inodes -> Inode] /\ table' \in [Inodes -> Inode] /\ slot \in [Slots -> Slot]
  BY DEF Now, Types, Typed
<1>4. /\ \A j \in Inodes \ {i} : table'[j] = table[j]
      /\ table'[i].mode = table[i].mode /\ table'[i].blocks = table[i].blocks
  BY <1>1, <1>3, InodeRecord
<1>5. InUseIn(table') = InUseIn(table)
  BY <1>4 DEF InUseIn
<1>6. Agree(table', slot) /\ Behind(table', slot) /\ OneOpening(slot)
  BY <1>2, <1>4, <1>5, NowFacts, InUseFinite DEF Agree, Behind
<1> DEFINE V == ViewsIn(table, slot)
           W == ViewsIn(table', slot)
<1>7. /\ V \in [Inodes -> Inode] /\ W \in [Inodes -> Inode]
      /\ \A j \in Inodes : W[j].blocks = V[j].blocks
  <2>1. \A j \in Inodes \ {i} : W[j] = V[j]
    BY <1>4 DEF ViewsIn
  <2>2. W[i] = table'[i] /\ V[i] = table[i]
    BY <1>2, <1>3, <1>6, ViewsAre
  <2>3. QED BY <1>3, <1>4, <1>6, <2>1, <2>2, ViewsAre
<1> HIDE DEF V, W
<1>8. Books(V, InUseIn(table), free, sb.blocks)
      /\ (~crashed => Exact(V, InUseIn(table), free, sb.blocks))
      /\ (~CutIn(slot) => Books(table, InUseIn(table), free, sbDisk.blocks))
  BY DEF Now, Good, V
<1>9. InUseIn(table) \in SUBSET Inodes /\ sb.blocks \in Int /\ sbDisk.blocks \in Int
  BY NowFacts
<1>10. Books(W, InUseIn(table), free, sb.blocks)
       /\ (~crashed => Exact(W, InUseIn(table), free, sb.blocks))
  BY <1>7, <1>8, <1>9, SameBooks
<1>11. ~CutIn(slot) => Books(table', InUseIn(table), free, sbDisk.blocks)
  <2>1. \A j \in InUseIn(table) : table'[j].blocks = table[j].blocks
    BY <1>4, <1>9
  <2>2. QED BY <1>3, <1>8, <1>9, <2>1, SameBooks
<1>12. InodesCounted(table', sbDisk', sb', crashed)
  BY <1>2, <1>5 DEF Now, Good, InodesCounted
<1>13. QED BY <1>2, <1>5, <1>6, <1>10, <1>11, <1>12 DEF Now, Good, W

\* A file that is not open yet: its copy is what the disk has.
LEMMA OpenGood ==
  ASSUME Now, Types', NEW i \in Inodes, OpenFile(i), spoiled' = {}
  PROVE  Good(table', sbDisk', sb', free', slot', crashed')
<1>1. PICK s \in FreeSlots :
         slot' = [slot EXCEPT ![s] = [state |-> "open", no |-> i, inode |-> table[i],
                                      pos |-> 0, cut |-> FALSE]]
  BY DEF OpenFile
<1>2. /\ table' = table /\ sbDisk' = sbDisk /\ sb' = sb /\ free' = free /\ crashed' = crashed
      /\ \A r \in OpenIn(slot) : slot[r].no # i
      /\ i \in InUseIn(table)
  BY NowFacts DEF OpenFile, Note
<1>3. table \in [Inodes -> Inode] /\ slot \in [Slots -> Slot] /\ slot' \in [Slots -> Slot]
  BY DEF Now, Types, Typed
<1>4. s \in Slots /\ s \notin OpenIn(slot)
  BY DEF FreeSlots, OpenIn
<1>5. /\ OpenIn(slot') = OpenIn(slot) \cup {s}
      /\ \A r \in OpenIn(slot) : slot'[r] = slot[r]
      /\ slot'[s].no = i /\ slot'[s].inode = table[i] /\ ~slot'[s].cut
  BY <1>1, <1>3, <1>4 DEF OpenIn
<1>6. OneOpening(slot')
  BY <1>2, <1>5, NowFacts DEF OneOpening
<1>7. Agree(table, slot')
  BY <1>2, <1>5, NowFacts DEF Agree
<1>8. Behind(table, slot')
  <2>1. Size(table[i]) \in 0 .. MaxBlocks
    BY <1>3, InodeSize
  <2>2. QED BY <1>5, <2>1, NowFacts, BoundsAssumption DEF Behind
<1>9. CutIn(slot') <=> CutIn(slot)
  BY <1>5 DEF CutIn
<1>10. ViewsIn(table, slot') = ViewsIn(table, slot)
  <2>1. ASSUME NEW j \in Inodes PROVE ViewsIn(table, slot')[j] = ViewsIn(table, slot)[j]
    <3>1. CASE \A r \in OpenIn(slot') : slot'[r].no # j
      BY <1>3, <1>5, <1>6, <3>1, NowFacts, ViewsAre
    <3>2. CASE j = i
      BY <1>2, <1>3, <1>5, <1>6, <3>2, NowFacts, ViewsAre
    <3>3. CASE j # i /\ \E r \in OpenIn(slot') : slot'[r].no = j
      BY <1>3, <1>5, <1>6, <3>3, NowFacts, ViewsAre
    <3>4. QED BY <3>1, <3>2, <3>3
  <2>2. QED BY <2>1 DEF ViewsIn
<1>11. QED BY <1>2, <1>6, <1>7, <1>8, <1>9, <1>10 DEF Now, Good

\* A restart, for which no file was cut down and not closed.
LEMMA CrashGood ==
  ASSUME Now, Types', spoiled' = {},
         Crash \/ CrashInCreate \/ \E s \in Slots : CrashInClose(s)
  PROVE  Good(table', sbDisk', sb', free', slot', crashed')
<1>1. PICK k \in {sbDisk, sb, Created} : Reboot(k)
  BY DEF Crash, CrashInCreate, CrashInClose
<1>2. /\ table' = table /\ free' = free /\ ~CutIn(slot)
  BY NowFacts DEF Crash, CrashInCreate, CrashInClose, Note
<1>3. /\ Books(table, InUseIn(table), free, sbDisk.blocks)
      /\ Books(table, InUseIn(table), free, sb.blocks)
      /\ sb.inodes >= Cardinality(InUseIn(table)) /\ sbDisk.inodes >= Cardinality(InUseIn(table))
  BY <1>2, NowFacts DEF Now, Good, InodesCounted
<1>4. Created \in Counts /\ Created.blocks = sb.blocks /\ Created.inodes = sb.inodes + 1
  BY NowFacts DEF Created, Counts
<1>5. /\ k \in Counts /\ k.inodes >= Cardinality(InUseIn(table))
      /\ Books(table, InUseIn(table), free, k.blocks)
  BY <1>1, <1>3, <1>4, NowFacts
<1>6. table \in [Inodes -> Inode] /\ free \in SUBSET Blocks
  BY NowFacts DEF Now, Types, Typed
<1>7. Good(table, k, k, free, slot', TRUE)
  BY <1>1, <1>5, <1>6, RebootGood DEF Reboot
<1>8. QED BY <1>1, <1>2, <1>7 DEF Reboot

\* One slot s of the open ones shows its file with other blocks; the views
\* change for that file only.
LEMMA OneViewChanges ==
  ASSUME NEW tb \in [Inodes -> Inode], NEW sl \in [Slots -> Slot], NEW new \in [Slots -> Slot],
         OneOpening(sl), Agree(tb, sl), OpenIn(new) = OpenIn(sl), NEW s \in OpenIn(sl),
         \A r \in Slots \ {s} : new[r] = sl[r],
         new[s].no = sl[s].no, new[s].inode.mode = sl[s].inode.mode,
         new[s].inode.links = sl[s].inode.links
  PROVE  /\ OneOpening(new) /\ Agree(tb, new) /\ sl[s].no \in Inodes
         /\ ViewsIn(tb, new)[sl[s].no] = new[s].inode
         /\ ViewsIn(tb, sl)[sl[s].no] = sl[s].inode
         /\ \A j \in Inodes \ {sl[s].no} : ViewsIn(tb, new)[j] = ViewsIn(tb, sl)[j]
<1>1. OpenIn(sl) \subseteq Slots
  BY DEF OpenIn
<1>2. \A r \in OpenIn(sl) : /\ new[r].no = sl[r].no /\ new[r].inode.mode = sl[r].inode.mode
                            /\ new[r].inode.links = sl[r].inode.links
  BY <1>1
<1>3. OneOpening(new) /\ Agree(tb, new)
  BY <1>2 DEF OneOpening, Agree
<1>4. /\ sl[s].no \in Inodes /\ ViewsIn(tb, new)[sl[s].no] = new[s].inode
      /\ ViewsIn(tb, sl)[sl[s].no] = sl[s].inode
  BY <1>3, ViewsAre
<1>5. ASSUME NEW j \in Inodes \ {sl[s].no} PROVE ViewsIn(tb, new)[j] = ViewsIn(tb, sl)[j]
  <2>1. CASE \A r \in OpenIn(sl) : sl[r].no # j
    BY <1>2, <1>3, <2>1, ViewsAre
  <2>2. CASE \E r \in OpenIn(sl) : sl[r].no = j
    <3>1. PICK r \in OpenIn(sl) : sl[r].no = j
      BY <2>2
    <3>2. r \in Slots \ {s} /\ new[r] = sl[r]
      BY <1>1, <3>1
    <3>3. QED BY <1>3, <3>1, <3>2, ViewsAre
  <2>3. QED BY <2>1, <2>2
<1>6. QED BY <1>3, <1>4, <1>5

\* base_file_write that appends a block: it comes from the free ones.
LEMMA WritePushGood ==
  ASSUME Now, Types', NEW s \in Slots, WritePush(s), spoiled' = {}
  PROVE  Good(table', sbDisk', sb', free', slot', crashed')
<1>1. /\ table' = table /\ sbDisk' = sbDisk /\ crashed' = crashed
      /\ s \in OpenIn(slot) /\ sb' = [sb EXCEPT !.blocks = @ + 1]
  BY NowFacts DEF WritePush
<1>2. /\ table \in [Inodes -> Inode] /\ slot \in [Slots -> Slot] /\ slot' \in [Slots -> Slot]
      /\ slot[s] \in Slot /\ slot[s].inode \in Inode /\ slot[s].inode.blocks \in BlockSeq
      /\ slot[s].pos \in 0 .. MaxBlocks
  <2>1. slot[s] \in Slot
    BY DEF Now, Types, Typed
  <2>2. QED BY <2>1, InodeEdits, SlotEdits DEF Now, Types, Typed
<1> DEFINE q == slot[s].inode.blocks
           p == slot[s].pos
           i == slot[s].no
<1>3. p = Len(q) /\ p < MaxBlocks /\ Len(q) \in 0 .. MaxBlocks
  <2>1. Len(q) \in 0 .. MaxBlocks
    BY <1>2, BlockEntries
  <2>2. p >= Len(q) /\ p < MaxBlocks /\ ~(p > Len(q))
    BY DEF WritePush, Note, Size
  <2>3. QED BY <1>2, <2>1, <2>2, BoundsAssumption
<1>4. PICK b \in free : /\ free' = free \ {b}
                        /\ slot' = [slot EXCEPT ![s].pos = p + 1, ![s].inode.blocks = Pushed(q, b, p)]
  BY DEF WritePush, Size, Pushed
<1>5. b \in Numbers
  BY DEF Now, Types, Typed
<1>6. PICK u : u = Pushed(q, b, p)
  OBVIOUS
<1>7. /\ u \in BlockSeq /\ Len(u) = p + 1 /\ u[Len(q) + 1] = b
      /\ \A k \in 1 .. Len(q) : u[k] = q[k]
  <2>1. p >= Len(q)
    BY <1>3
  <2> HIDE DEF p, q
  <2>2. q \in BlockSeq /\ p \in 0 .. MaxBlocks
    BY <1>2 DEF p, q
  <2>3. QED BY <1>3, <1>5, <1>6, <2>1, <2>2, BlocksPushed
<1> HIDE DEF q, p, i
<1>8. /\ OpenIn(slot') = OpenIn(slot)
      /\ \A r \in Slots \ {s} : slot'[r] = slot[r]
      /\ slot'[s].no = i /\ slot'[s].cut = slot[s].cut
      /\ slot'[s].inode.mode = slot[s].inode.mode /\ slot'[s].inode.links = slot[s].inode.links
      /\ slot'[s].inode.blocks = u
  <2>1. slot' = [slot EXCEPT ![s].pos = p + 1, ![s].inode.blocks = u]
    BY <1>4, <1>6
  <2>2. /\ \A r \in Slots \ {s} : slot'[r] = slot[r]
        /\ slot'[s] = [[slot[s] EXCEPT !.pos = p + 1] EXCEPT !.inode.blocks = u]
    BY <1>2, <2>1
  <2>3. /\ slot'[s].state = slot[s].state /\ slot'[s].no = slot[s].no /\ slot'[s].cut = slot[s].cut
        /\ slot'[s].inode = [slot[s].inode EXCEPT !.blocks = u]
    BY <1>2, <2>2 DEF Slot
  <2>4. /\ slot'[s].inode.mode = slot[s].inode.mode /\ slot'[s].inode.links = slot[s].inode.links
        /\ slot'[s].inode.blocks = u
    BY <1>2, <2>3, InodeRecord
  <2>5. OpenIn(slot') = OpenIn(slot)
    BY <2>2, <2>3 DEF OpenIn
  <2>6. QED BY <2>2, <2>3, <2>4, <2>5 DEF i
<1> DEFINE V == ViewsIn(table, slot)
           W == ViewsIn(table, slot')
<1>9. /\ OneOpening(slot') /\ Agree(table, slot') /\ i \in Inodes
      /\ W[i] = slot'[s].inode /\ V[i] = slot[s].inode
      /\ \A j \in Inodes \ {i} : W[j] = V[j]
  BY <1>1, <1>2, <1>8, NowFacts, OneViewChanges DEF i
<1>10. V \in [Inodes -> Inode] /\ W \in [Inodes -> Inode]
  BY <1>2, <1>9, NowFacts, ViewsAre
<1>11. Size(V[i]) = Len(q) /\ Size(W[i]) = Len(q) + 1
  BY <1>3, <1>7, <1>8, <1>9 DEF Size, q
<1> HIDE DEF V, W
<1>12. i \in InUseIn(table)
  BY <1>1, NowFacts DEF Agree, i
<1> DEFINE U == InUseIn(table)
           e == <<i, Len(q) + 1>>
<1>13. /\ e \notin RefsIn(V, U) /\ RefsIn(W, U) = RefsIn(V, U) \cup {e}
       /\ At(W, e) = b /\ \A r \in RefsIn(V, U) : At(W, r) = At(V, r)
  <2> HIDE DEF U
  <2>1. U \in SUBSET Inodes /\ i \in U
    BY <1>12, NowFacts DEF U
  <2>2. e \notin RefsIn(V, U)
    BY <1>3, <1>10, <1>11, <2>1, RefsAre
  <2>3. ASSUME NEW r PROVE r \in RefsIn(W, U) <=> r \in RefsIn(V, U) \/ r = e
    <3>1. r \in RefsIn(W, U) <=> \E j \in U : \E k \in 1 .. Size(W[j]) : r = <<j, k>>
      BY <1>10, <2>1, RefsAre
    <3>2. r \in RefsIn(V, U) <=> \E j \in U : \E k \in 1 .. Size(V[j]) : r = <<j, k>>
      BY <1>10, <2>1, RefsAre
    <3>3. (\E k \in 1 .. Size(W[i]) : r = <<i, k>>)
            <=> (\E k \in 1 .. Size(V[i]) : r = <<i, k>>) \/ r = e
      BY <1>3, <1>11, BoundsAssumption
    <3>4. QED BY <1>9, <2>1, <3>1, <3>2, <3>3
  <2>4. At(W, e) = b
    BY <1>7, <1>8, <1>9 DEF At
  <2>5. ASSUME NEW r \in RefsIn(V, U) PROVE At(W, r) = At(V, r)
    <3>1. PICK j \in U : \E k \in 1 .. Size(V[j]) : r = <<j, k>>
      BY <1>10, <2>1, RefsAre
    <3>2. PICK k \in 1 .. Size(V[j]) : r = <<j, k>>
      BY <3>1
    <3>3. CASE j = i
      BY <1>7, <1>8, <1>9, <1>11, <3>2, <3>3 DEF At, q
    <3>4. CASE j # i
      BY <1>9, <2>1, <3>2, <3>4 DEF At
    <3>5. QED BY <3>3, <3>4
  <2>6. QED BY <2>2, <2>3, <2>4, <2>5
<1> HIDE DEF e
<1>14. /\ Books(V, U, free, sb.blocks) => Books(W, U, free', sb.blocks + 1)
       /\ Exact(V, U, free, sb.blocks) => Exact(W, U, free', sb.blocks + 1)
  BY <1>4, <1>13, NowFacts, BooksGive
<1>15. sb'.blocks = sb.blocks + 1 /\ sb'.inodes = sb.inodes
  BY <1>1, NowFacts DEF Counts
<1>16. Behind(table, slot') /\ (CutIn(slot') <=> CutIn(slot))
  <2>1. CutIn(slot') <=> CutIn(slot)
    BY <1>1, <1>8 DEF CutIn, OpenIn
  <2>2. ~slot'[s].cut => /\ Size(table[i]) <= Size(slot'[s].inode)
                         /\ \A k \in 1 .. Size(table[i]) : table[i].blocks[k] = slot'[s].inode.blocks[k]
    <3>1. /\ Size(slot'[s].inode) = Len(q) + 1 /\ Size(slot[s].inode) = Len(q)
          /\ Size(table[i]) \in 0 .. MaxBlocks /\ slot'[s].inode.blocks = u
      BY <1>2, <1>8, <1>9, <1>11, InodeSize
    <3>2. Behind(table, slot)
      BY NowFacts
    <3>3. QED BY <1>1, <1>3, <1>7, <1>8, <3>1, <3>2, BoundsAssumption DEF Behind, i, q
  <2>3. ASSUME NEW r \in OpenIn(slot), r # s PROVE slot'[r] = slot[r]
    BY <1>8, <2>3 DEF OpenIn
  <2>4. QED BY <1>8, <2>1, <2>2, <2>3, NowFacts DEF Behind
<1>17. ~CutIn(slot) => Books(table, U, free', sbDisk.blocks)
  <2>1. free' \in SUBSET free /\ RefsIn(table, U) \subseteq RefsIn(table, U)
    BY <1>4
  <2>2. ~CutIn(slot) => Books(table, U, free, sbDisk.blocks)
    BY DEF Now, Good
  <2>3. QED BY <2>1, <2>2, NowFacts, BooksFewer
<1>18. QED
  BY <1>1, <1>4, <1>9, <1>14, <1>15, <1>16, <1>17, NowFacts DEF Now, Good, InodesCounted, V, W

\* From table t and the files U in use to u and W, file i keeps its first m
\* blocks; the files in use stay the same, or i, then without blocks, is not
\* among them any more.
Shorter(t, u, U, W, i, m) ==
    /\ t \in [Inodes -> Inode] /\ u \in [Inodes -> Inode]
    /\ U \in SUBSET Inodes /\ i \in U /\ W \in SUBSET U /\ U \ W \subseteq {i}
    /\ m \in 0 .. Size(t[i]) /\ Size(u[i]) = m /\ (m = 0 \/ i \in W)
    /\ \A k \in 1 .. m : u[i].blocks[k] = t[i].blocks[k]
    /\ \A j \in U \ {i} : u[j].blocks = t[j].blocks

GivenUp(t, i, m) == {t[i].blocks[k] : k \in (m + 1) .. Size(t[i])}

\* An inode that gives blocks up leaves the books in order.
LEMMA ShorterBooks ==
  ASSUME NEW t, NEW u, NEW U, NEW W, NEW i, NEW m, Shorter(t, u, U, W, i, m),
         NEW F \in SUBSET Blocks, NEW n \in Int, ExclusiveIn(t, U, F)
  PROVE  /\ Books(t, U, F, n) => Books(u, W, F \cup GivenUp(t, i, m), n - (Size(t[i]) - m))
         /\ Exact(t, U, F, n) => Exact(u, W, F \cup GivenUp(t, i, m), n - (Size(t[i]) - m))
         /\ F \cup GivenUp(t, i, m) \in SUBSET Blocks
<1> USE DEF Shorter
<1>1. Size(t[i]) \in 0 .. MaxBlocks /\ i \in Inodes /\ W \in SUBSET Inodes
  BY InodeSize
<1> DEFINE D == CutOff(t, i, m)
<1>2. ASSUME NEW r PROVE r \in D <=> \E k \in (m + 1) .. Size(t[i]) : r = <<i, k>>
  BY <1>1, BoundsAssumption DEF CutOff
<1>3. Cardinality(D) = Size(t[i]) - m
  BY <1>1, CutOffSize
<1> HIDE DEF D
<1>4. D \in SUBSET RefsIn(t, U)
  <2>1. ASSUME NEW r \in D PROVE r \in RefsIn(t, U)
    <3>1. PICK k \in (m + 1) .. Size(t[i]) : r = <<i, k>>
      BY <1>2
    <3>2. k \in 1 .. Size(t[i])
      BY <1>1, BoundsAssumption
    <3>3. QED BY <3>1, <3>2, RefsAre
  <2>2. QED BY <2>1
<1>5. RefsIn(u, W) = RefsIn(t, U) \ D
  <2>1. ASSUME NEW r PROVE r \in RefsIn(u, W) <=> r \in RefsIn(t, U) /\ r \notin D
    <3>1. r \in RefsIn(u, W) <=> \E j \in W : \E k \in 1 .. Size(u[j]) : r = <<j, k>>
      BY <1>1, RefsAre
    <3>2. r \in RefsIn(t, U) <=> \E j \in U : \E k \in 1 .. Size(t[j]) : r = <<j, k>>
      BY <1>1, RefsAre
    <3>3. \A j \in U \ {i} : Size(u[j]) = Size(t[j]) /\ j \in W
      BY DEF Size
    <3>4. (i \in W /\ \E k \in 1 .. Size(u[i]) : r = <<i, k>>)
             <=> ((\E k \in 1 .. Size(t[i]) : r = <<i, k>>) /\ r \notin D)
      BY <1>1, <1>2, BoundsAssumption
    <3>5. r \in D => \E k \in (m + 1) .. Size(t[i]) : r = <<i, k>>
      BY <1>2
    <3>6. QED BY <3>1, <3>2, <3>3, <3>4, <3>5
  <2>2. QED BY <2>1
<1>6. ASSUME NEW r \in RefsIn(u, W) PROVE At(u, r) = At(t, r)
  <2>1. PICK j \in W : \E k \in 1 .. Size(u[j]) : r = <<j, k>>
    BY <1>1, RefsAre
  <2>2. PICK k \in 1 .. Size(u[j]) : r = <<j, k>>
    BY <2>1
  <2>3. QED BY <2>2 DEF At
<1>7. GivenUp(t, i, m) = {At(t, r) : r \in D}
  <2>1. \A k \in (m + 1) .. Size(t[i]) : <<i, k>> \in D /\ At(t, <<i, k>>) = t[i].blocks[k]
    BY <1>2 DEF At
  <2>2. ASSUME NEW r \in D PROVE \E k \in (m + 1) .. Size(t[i]) : At(t, r) = t[i].blocks[k]
    BY <1>2 DEF At
  <2>3. ASSUME NEW x
        PROVE  x \in {t[i].blocks[k] : k \in (m + 1) .. Size(t[i])} <=> x \in {At(t, r) : r \in D}
    <3>1. ASSUME NEW k \in (m + 1) .. Size(t[i]), x = t[i].blocks[k] PROVE \E r \in D : x = At(t, r)
      BY <2>1, <3>1
    <3>2. ASSUME NEW r \in D, x = At(t, r) PROVE \E k \in (m + 1) .. Size(t[i]) : x = t[i].blocks[k]
      BY <2>2, <3>2
    <3>3. QED BY <3>1, <3>2
  <2>4. {t[i].blocks[k] : k \in (m + 1) .. Size(t[i])} = {At(t, r) : r \in D}
    BY <2>3
  <2>5. QED BY <2>4 DEF GivenUp
<1>8. F \cup GivenUp(t, i, m) \in SUBSET Blocks
  BY <1>4, <1>7 DEF ExclusiveIn
<1>9. QED BY <1>1, <1>3, <1>4, <1>5, <1>6, <1>7, <1>8, BooksTake

\* base_file_truncate: the blocks behind the cut become free again.
LEMMA TruncateGood ==
  ASSUME Now, Types', NEW s \in Slots, NEW n \in 0 .. MaxBlocks, Truncate(s, n)
  PROVE  Good(table', sbDisk', sb', free', slot', crashed')
<1> DEFINE q == slot[s].inode.blocks
           i == slot[s].no
<1>1. /\ table' = table /\ sbDisk' = sbDisk /\ crashed' = crashed
      /\ s \in OpenIn(slot) /\ n < Len(q)
      /\ free' = free \cup ToSet(SubSeq(q, n + 1, Len(q)))
      /\ slot' = [slot EXCEPT ![s].inode.blocks = SubSeq(q, 1, n), ![s].cut = TRUE]
      /\ sb' = [sb EXCEPT !.blocks = @ - Len(SubSeq(q, n + 1, Len(q)))]
  BY NowFacts DEF Truncate
<1>2. /\ table \in [Inodes -> Inode] /\ slot \in [Slots -> Slot] /\ slot' \in [Slots -> Slot]
      /\ slot[s] \in Slot /\ slot[s].inode \in Inode /\ q \in BlockSeq /\ Len(q) \in 0 .. MaxBlocks
  <2>1. slot[s] \in Slot
    BY DEF Now, Types, Typed
  <2>2. QED BY <2>1, InodeEdits, SlotEdits, BlockEntries DEF Now, Types, Typed
<1>3. PICK u : u = SubSeq(q, 1, n)
  OBVIOUS
<1>4. /\ u \in BlockSeq /\ Len(u) = n /\ \A k \in 1 .. n : u[k] = q[k]
      /\ sb' = [sb EXCEPT !.blocks = @ - (Len(q) - n)]
      /\ free' = free \cup {q[k] : k \in (n + 1) .. Len(q)}
  BY <1>1, <1>2, <1>3, BlocksCut
<1> HIDE DEF q, i
<1>5. /\ OpenIn(slot') = OpenIn(slot)
      /\ \A r \in Slots \ {s} : slot'[r] = slot[r]
      /\ slot'[s].no = i /\ slot'[s].cut
      /\ slot'[s].inode.mode = slot[s].inode.mode /\ slot'[s].inode.links = slot[s].inode.links
      /\ slot'[s].inode.blocks = u
  <2>1. slot' = [slot EXCEPT ![s].inode.blocks = u, ![s].cut = TRUE]
    BY <1>1, <1>3
  <2>2. /\ \A r \in Slots \ {s} : slot'[r] = slot[r]
        /\ slot'[s] = [[slot[s] EXCEPT !.inode.blocks = u] EXCEPT !.cut = TRUE]
    BY <1>2, <2>1
  <2>3. /\ slot'[s].state = slot[s].state /\ slot'[s].no = slot[s].no /\ slot'[s].cut
        /\ slot'[s].inode = [slot[s].inode EXCEPT !.blocks = u]
    BY <1>2, <2>2 DEF Slot
  <2>4. /\ slot'[s].inode.mode = slot[s].inode.mode /\ slot'[s].inode.links = slot[s].inode.links
        /\ slot'[s].inode.blocks = u
    BY <1>2, <2>3, InodeRecord
  <2>5. OpenIn(slot') = OpenIn(slot)
    <3>1. \A r \in Slots : slot'[r].state = slot[r].state
      BY <2>2, <2>3
    <3>2. QED BY <3>1 DEF OpenIn
  <2>6. QED BY <2>2, <2>3, <2>4, <2>5 DEF i
<1> DEFINE V == ViewsIn(table, slot)
           W == ViewsIn(table, slot')
           U == InUseIn(table)
<1>6. /\ OneOpening(slot') /\ Agree(table, slot') /\ i \in Inodes
      /\ W[i] = slot'[s].inode /\ V[i] = slot[s].inode
      /\ \A j \in Inodes \ {i} : W[j] = V[j]
  <2>1. /\ OneOpening(slot) /\ Agree(table, slot) /\ s \in OpenIn(slot)
    BY <1>1, NowFacts
  <2>2. slot'[s].no = slot[s].no
    BY <1>5 DEF i
  <2>3. QED BY <1>2, <1>5, <2>1, <2>2, OneViewChanges DEF i
<1>7. V \in [Inodes -> Inode] /\ W \in [Inodes -> Inode]
  BY <1>2, <1>6, NowFacts, ViewsAre
<1>8. V[i].blocks = q /\ Size(V[i]) = Len(q) /\ W[i].blocks = u /\ Size(W[i]) = n
  BY <1>4, <1>5, <1>6 DEF Size, q
<1>9. /\ Books(V, U, free, sb.blocks) /\ ExclusiveIn(V, U, free)
      /\ ~crashed => Exact(V, U, free, sb.blocks)
  BY DEF Now, Good, Books
<1> HIDE DEF V, W
<1>10. i \in U /\ U \in SUBSET Inodes
  BY <1>1, NowFacts DEF Agree, i
<1> HIDE DEF U
<1>11. /\ Books(W, U, free', sb.blocks - (Len(q) - n))
       /\ ~crashed => Exact(W, U, free', sb.blocks - (Len(q) - n))
       /\ free' \in SUBSET Blocks
  <2>1. Shorter(V, W, U, U, i, n)
    BY <1>1, <1>2, <1>4, <1>6, <1>7, <1>8, <1>10 DEF Shorter
  <2>2. free' = free \cup GivenUp(V, i, n)
    BY <1>4, <1>8 DEF GivenUp
  <2>3. free \in SUBSET Blocks /\ sb.blocks \in Int
    BY NowFacts
  <2>4. QED BY <1>8, <1>9, <2>1, <2>2, <2>3, ShorterBooks
<1>12. sb'.blocks = sb.blocks - (Len(q) - n) /\ sb'.inodes = sb.inodes
  BY <1>4, NowFacts DEF Counts
<1>13. Behind(table, slot') /\ CutIn(slot')
  <2>1. ASSUME NEW r \in OpenIn(slot), r # s PROVE slot'[r] = slot[r]
    BY <1>5, <2>1 DEF OpenIn
  <2>2. Behind(table, slot)
    BY NowFacts
  <2>3. s \in OpenIn(slot) /\ OpenIn(slot') = OpenIn(slot) /\ slot'[s].cut
    BY <1>1, <1>5
  <2>4. CutIn(slot')
    BY <2>3 DEF CutIn
  <2>5. QED BY <2>1, <2>2, <2>3, <2>4 DEF Behind
<1>14. QED BY <1>1, <1>6, <1>11, <1>12, <1>13, NowFacts DEF Now, Good, InodesCounted, U, W

\* The disk gets what the copy has, and the superblock; no view changes.
LEMMA CloseGood ==
  ASSUME Now, Types', NEW s \in Slots, Close(s)
  PROVE  Good(table', sbDisk', sb', free', slot', crashed')
<1> DEFINE i == slot[s].no
<1>1. /\ s \in OpenIn(slot) /\ sb' = sb /\ sbDisk' = sb /\ free' = free /\ crashed' = crashed
      /\ table' = [table EXCEPT ![i] = slot[s].inode]
      /\ slot' = [slot EXCEPT ![s] = FreeSlot]
  BY NowFacts DEF Close
<1>2. /\ table \in [Inodes -> Inode] /\ table' \in [Inodes -> Inode]
      /\ slot \in [Slots -> Slot] /\ slot' \in [Slots -> Slot]
  BY DEF Now, Types, Typed
<1>3. i \in InUseIn(table) /\ i \in Inodes
  BY <1>1, NowFacts DEF Agree
<1>4. /\ OpenIn(slot') = OpenIn(slot) \ {s}
      /\ \A r \in OpenIn(slot') : slot'[r] = slot[r] /\ slot[r].no # i
  <2>1. OpenIn(slot') = OpenIn(slot) \ {s}
    BY <1>1, <1>2, InodeRecord DEF OpenIn
  <2>2. \A r \in OpenIn(slot') : slot'[r] = slot[r]
    BY <1>1, <1>2, <2>1 DEF OpenIn
  <2>3. QED BY <1>1, <2>1, <2>2, NowFacts DEF OneOpening
<1>5. /\ table'[i] = slot[s].inode /\ \A j \in Inodes \ {i} : table'[j] = table[j]
      /\ table'[i].mode = table[i].mode
  BY <1>1, <1>2, <1>3, NowFacts DEF Agree
<1>6. InUseIn(table') = InUseIn(table)
  BY <1>5 DEF InUseIn
<1> HIDE DEF i
<1>7. OneOpening(slot') /\ Agree(table', slot') /\ Behind(table', slot')
  <2>1. \A r \in OpenIn(slot') : r \in OpenIn(slot) /\ slot[r].no \in Inodes \ {i}
    BY <1>4, NowFacts DEF Agree, InUseIn
  <2>2. QED BY <1>4, <1>5, <1>6, <2>1, NowFacts DEF OneOpening, Agree, Behind
<1>8. ViewsIn(table', slot') = ViewsIn(table, slot)
  <2>1. ASSUME NEW j \in Inodes PROVE ViewsIn(table', slot')[j] = ViewsIn(table, slot)[j]
    <3>1. CASE j = i
      <4>1. ViewsIn(table', slot')[i] = table'[i]
        BY <1>2, <1>3, <1>4, <1>7, ViewsAre
      <4>2. ViewsIn(table, slot)[i] = slot[s].inode
        BY <1>1, <1>2, NowFacts, ViewsAre DEF i
      <4>3. QED BY <1>5, <3>1, <4>1, <4>2
    <3>2. CASE j # i /\ \A r \in OpenIn(slot') : slot'[r].no # j
      <4>1. \A r \in OpenIn(slot) : slot[r].no # j
        BY <1>4, <3>2 DEF i
      <4>2. ViewsIn(table, slot)[j] = table[j]
        BY <1>2, <4>1, NowFacts, ViewsAre
      <4>3. ViewsIn(table', slot')[j] = table'[j]
        BY <1>2, <1>7, <3>2, ViewsAre
      <4>4. QED BY <1>5, <3>2, <4>2, <4>3
    <3>3. CASE \E r \in OpenIn(slot') : slot'[r].no = j
      <4>1. PICK r \in OpenIn(slot') : slot'[r].no = j
        BY <3>3
      <4>2. ViewsIn(table', slot')[j] = slot'[r].inode
        BY <1>2, <1>7, <4>1, ViewsAre
      <4>3. r \in OpenIn(slot) /\ slot[r] = slot'[r]
        BY <1>4, <4>1
      <4>4. ViewsIn(table, slot)[j] = slot[r].inode
        BY <1>2, <4>1, <4>3, NowFacts, ViewsAre
      <4>5. QED BY <4>2, <4>3, <4>4
    <3>4. QED BY <3>1, <3>2, <3>3
  <2>2. QED BY <2>1 DEF ViewsIn
<1>9. /\ Books(ViewsIn(table', slot'), InUseIn(table'), free, sb.blocks)
      /\ ~crashed => Exact(ViewsIn(table', slot'), InUseIn(table'), free, sb.blocks)
  BY <1>6, <1>8 DEF Now, Good
<1>10. ~CutIn(slot') => Books(table', InUseIn(table'), free, sb.blocks)
  BY <1>2, <1>7, <1>9, InUseFinite, NowFacts, DiskBooks
<1>11. QED BY <1>1, <1>6, <1>7, <1>9, <1>10, NowFacts DEF Now, Good, InodesCounted

\* The blocks of a file on the way to the free list.
LEMMA FreedBlocks ==
  ASSUME NEW t, NEW i, t[i] \in Inode
  PROVE  ToSet(t[i].blocks) = GivenUp(t, i, 0)
<1>1. t[i].blocks \in BlockSeq /\ t[i].blocks \in Seq(Numbers)
  BY InodeSize, BlockSeqs
<1>2. DOMAIN t[i].blocks = 1 .. Size(t[i]) /\ 0 + 1 = 1
  BY <1>1, LenProperties DEF Size
<1>3. QED BY <1>2 DEF ToSet, GivenUp

\* The last link of a file that is not open goes.
LEMMA DeleteGood ==
  ASSUME Now, Types', NEW i \in Inodes, UnrefDelete(i), spoiled' = {}
  PROVE  Good(table', sbDisk', sb', free', slot', crashed')
<1>1. /\ table[i].links = 1 /\ free' = free \cup ToSet(table[i].blocks)
      /\ sbDisk' = Deleted(i) /\ sb' = [Deleted(i) EXCEPT !.inodes = @ - 1]
      /\ table' = [table EXCEPT ![i].blocks = << >>, ![i].mode = "empty"]
      /\ crashed' = crashed /\ i \in InUseIn(table)
      /\ \A s \in OpenIn(slot) : slot[s].no # i
  BY NowFacts DEF UnrefDelete, Note
<1>2. PICK s \in FreeSlots : slot' = [slot EXCEPT ![s].state = "leaked"]
  BY DEF UnrefDelete, LeakSlot
<1>3. /\ table \in [Inodes -> Inode] /\ table' \in [Inodes -> Inode]
      /\ slot \in [Slots -> Slot] /\ slot' \in [Slots -> Slot] /\ table[i] \in Inode
  BY DEF Now, Types, Typed
<1>4. /\ \A j \in Inodes \ {i} : table'[j] = table[j]
      /\ table'[i].mode = "empty" /\ Size(table'[i]) = 0
  <2>1. Len(<< >>) = 0
    BY BlocksOfEmpty
  <2>2. QED BY <1>1, <1>3, <2>1, InodeRecord DEF Size
<1> DEFINE U == InUseIn(table)
           W == InUseIn(table')
           V == ViewsIn(table, slot)
           X == ViewsIn(table', slot)
<1>5. W = U \ {i} /\ U \in SUBSET Inodes /\ i \in U
  BY <1>1, <1>4 DEF InUseIn
<1>6. Cardinality(W) = Cardinality(U) - 1
  BY <1>5, InUseFinite, FS_RemoveElement
<1>7. /\ OneOpening(slot) /\ Agree(table', slot) /\ Behind(table', slot)
  <2>1. \A s1 \in OpenIn(slot) : /\ slot[s1].no \in InUseIn(table) \ {i}
                                 /\ table'[slot[s1].no] = table[slot[s1].no]
    BY <1>1, <1>4, <1>5, NowFacts DEF Agree
  <2>2. InUseIn(table') = InUseIn(table) \ {i}
    BY <1>5
  <2>3. QED BY <2>1, <2>2, NowFacts DEF Agree, Behind
<1>8. /\ V \in [Inodes -> Inode] /\ X \in [Inodes -> Inode]
      /\ V[i] = table[i] /\ X[i] = table'[i] /\ \A j \in Inodes \ {i} : X[j] = V[j]
  <2>1. \A j \in Inodes \ {i} : X[j] = V[j]
    BY <1>4 DEF ViewsIn
  <2>2. X[i] = table'[i] /\ V[i] = table[i]
    <3>1. i \in Inodes /\ \A r \in OpenIn(slot) : slot[r].no # i
      BY <1>1
    <3>2. OneOpening(slot)
      BY <1>7
    <3>3. QED BY <1>3, <3>1, <3>2, ViewsAre
  <2>3. QED BY <1>3, <1>7, <2>1, <2>2, ViewsAre
<1>9. /\ Books(V, U, free, sb.blocks) /\ ExclusiveIn(V, U, free)
      /\ ~crashed => Exact(V, U, free, sb.blocks)
  BY DEF Now, Good, Books
<1> HIDE DEF U, W, V, X
<1>10. Size(table[i]) \in 0 .. MaxBlocks
  BY <1>3, InodeSize
<1>11. Shorter(V, X, U, W, i, 0)
  BY <1>4, <1>5, <1>8, <1>10, BoundsAssumption DEF Shorter
<1>12. free' = free \cup GivenUp(V, i, 0)
  <2>1. free' = free \cup GivenUp(table, i, 0)
    BY <1>1, <1>3, FreedBlocks
  <2>2. GivenUp(V, i, 0) = GivenUp(table, i, 0)
    BY <1>8 DEF GivenUp
  <2>3. QED BY <2>1, <2>2
<1>13. /\ Deleted(i).blocks = sb.blocks - Size(table[i]) /\ Deleted(i).inodes = sb.inodes
       /\ sb'.blocks = Deleted(i).blocks /\ sb'.inodes = sb.inodes - 1
       /\ sbDisk'.blocks = Deleted(i).blocks /\ sbDisk'.inodes = sb.inodes
       /\ sb'.blocks \in Int
  BY <1>1, <1>10, NowFacts, BoundsAssumption DEF Deleted, Counts
<1>14. /\ Books(X, W, free', sb'.blocks)
       /\ ~crashed => Exact(X, W, free', sb'.blocks)
       /\ free' \in SUBSET Blocks
  <2>1. sb'.blocks = sb.blocks - (Size(V[i]) - 0)
    BY <1>8, <1>10, <1>13, NowFacts, BoundsAssumption
  <2>2. free \in SUBSET Blocks /\ sb.blocks \in Int
    BY NowFacts
  <2>3. QED BY <1>9, <1>11, <1>12, <2>1, <2>2, ShorterBooks
<1>15. ~CutIn(slot) => Books(table', W, free', sb'.blocks)
  BY <1>3, <1>5, <1>7, <1>13, <1>14, DiskBooks DEF X
<1>16. sb'.blocks \in 0 .. Cardinality(Blocks)
  <2>1. Cardinality(RefsIn(X, W)) \in Nat
    BY <1>5, RefsFinite
  <2>2. /\ Cardinality(RefsIn(X, W)) <= sb'.blocks
        /\ sb'.blocks <= Cardinality(Blocks \ free')
    BY <1>14 DEF Books
  <2>3. QED BY <1>13, <2>1, <2>2, UsedFinite
<1>17. InodesCounted(table', sbDisk', sb', crashed)
  BY <1>6, <1>13, NowFacts DEF Now, Good, InodesCounted, U, W
<1>18. Good(table', sbDisk', sb', free', slot, crashed)
  BY <1>7, <1>13, <1>14, <1>15, <1>16, <1>17 DEF Good, X, W
<1>19. /\ OpenIn(slot') = OpenIn(slot)
       /\ \A r \in Slots : /\ slot'[r].no = slot[r].no /\ slot'[r].inode = slot[r].inode
                           /\ slot'[r].cut = slot[r].cut
  BY <1>2, <1>3 DEF Slot, FreeSlots, OpenIn
<1>20. Typed(table', sbDisk', sb', free', slot)
  BY <1>3 DEF Types, Typed
<1>21. \A r \in OpenIn(slot) : r \in Slots
  BY DEF OpenIn
<1>22. QED BY <1>1, <1>3, <1>18, <1>19, <1>20, <1>21, AlikeGood

\* A crash on the way: the blocks are on the free list, and either there were
\* none or the table on disk does not show them any more.
LEMMA CrashInDeleteGood ==
  ASSUME Now, Types', NEW i \in Inodes, CrashInDelete(i), spoiled' = {}
  PROVE  Good(table', sbDisk', sb', free', slot', crashed')
<1>1. table \in [Inodes -> Inode] /\ table' \in [Inodes -> Inode] /\ table[i] \in Inode
  BY DEF Now, Types, Typed
<1>2. Size(table[i]) \in 0 .. MaxBlocks
  BY <1>1, InodeSize
<1>3. /\ Deleted(i).blocks = sb.blocks - Size(table[i]) /\ Deleted(i).inodes = sb.inodes
      /\ Deleted(i) \in Counts
  BY <1>2, NowFacts, BoundsAssumption DEF Deleted, Counts
<1>4. /\ i \in InUseIn(table) /\ ~CutIn(slot) /\ free' = free \cup ToSet(table[i].blocks)
  BY NowFacts DEF CrashInDelete, Note
<1>5. /\ Books(table, InUseIn(table), free, sbDisk.blocks)
      /\ Books(table, InUseIn(table), free, sb.blocks)
      /\ sb.inodes >= Cardinality(InUseIn(table)) /\ sbDisk.inodes >= Cardinality(InUseIn(table))
  BY <1>4, NowFacts DEF Now, Good, InodesCounted
<1>6. CASE table[i].blocks = << >> /\ table' = table /\ \E k \in {sbDisk, Deleted(i)} : Reboot(k)
  <2>1. PICK k \in {sbDisk, Deleted(i)} : Reboot(k)
    BY <1>6
  <2>2. Size(table[i]) = 0 /\ free' = free
    BY <1>4, <1>6, BlocksOfEmpty DEF Size, ToSet
  <2>3. Deleted(i).blocks = sb.blocks
    BY <1>3, <2>2, NowFacts
  <2>4. /\ k \in Counts /\ k.inodes >= Cardinality(InUseIn(table))
        /\ Books(table, InUseIn(table), free, k.blocks)
    BY <1>3, <1>5, <2>1, <2>3, NowFacts
  <2>5. Good(table, k, k, free, slot', TRUE)
    BY <1>1, <2>1, <2>4, NowFacts, RebootGood DEF Reboot
  <2>6. QED BY <1>6, <2>1, <2>2, <2>5 DEF Reboot
<1>7. CASE table' = [table EXCEPT ![i].blocks = << >>] /\ Reboot(Deleted(i))
  <2>1. /\ \A j \in Inodes \ {i} : table'[j] = table[j]
        /\ table'[i].mode = table[i].mode /\ Size(table'[i]) = 0
    <3>1. Len(<< >>) = 0
      BY BlocksOfEmpty
    <3>2. QED BY <1>1, <1>7, <3>1, InodeRecord DEF Size
  <2>2. InUseIn(table') = InUseIn(table)
    BY <2>1 DEF InUseIn
  <2>3. Shorter(table, table', InUseIn(table), InUseIn(table), i, 0)
    BY <1>1, <1>2, <1>4, <2>1, InUseFinite, BoundsAssumption DEF Shorter
  <2>4. free' = free \cup GivenUp(table, i, 0)
    BY <1>1, <1>4, FreedBlocks
  <2>5. Deleted(i).blocks = sb.blocks - (Size(table[i]) - 0)
    BY <1>2, <1>3, NowFacts, BoundsAssumption
  <2>6. /\ Books(table', InUseIn(table), free', Deleted(i).blocks)
        /\ free' \in SUBSET Blocks
    <3>1. ExclusiveIn(table, InUseIn(table), free) /\ free \in SUBSET Blocks /\ sb.blocks \in Int
      BY <1>5, NowFacts DEF Books
    <3>2. /\ Books(table', InUseIn(table), free \cup GivenUp(table, i, 0), sb.blocks - (Size(table[i]) - 0))
          /\ free \cup GivenUp(table, i, 0) \in SUBSET Blocks
      BY <1>5, <2>3, <3>1, ShorterBooks
    <3>3. QED BY <2>4, <2>5, <3>2
  <2>7. Deleted(i).inodes >= Cardinality(InUseIn(table'))
    BY <1>3, <1>5, <2>2
  <2>8. Good(table', Deleted(i), Deleted(i), free', slot', TRUE)
    BY <1>1, <1>3, <1>7, <2>2, <2>6, <2>7, RebootGood DEF Reboot
  <2>9. QED BY <1>7, <2>8 DEF Reboot
<1>8. QED BY <1>6, <1>7 DEF CrashInDelete, Note

-----------------------------------------------------------------------------
\* Init => Inv, Inv /\ [Next]_vars => Inv', and what it gives.
Inv == Types /\ (Sound => Good(table, sbDisk, sb, free, slot, crashed))

\* A state that is sound had a sound one before it.
LEMMA StepSound == Types /\ [Next]_vars => (Sound' => Sound)
<1>1. SUFFICES ASSUME Types, [Next]_vars, Sound' PROVE Sound
  OBVIOUS
<1>2. \A what, when : Note(what, when) => spoiled = {}
  BY <1>1 DEF Note, Sound
<1>3. CASE UNCHANGED vars
  BY <1>1, <1>3 DEF vars, Sound
<1>4. CASE Next
  <2>1. UNCHANGED spoiled \/ \E what, when : Note(what, when)
    BY <1>4 DEF Next, FileCall, InodeCall, Create, OpenFile, Seek, WriteInside, WritePush,
                Truncate, Close, Ref, UnrefKeep, UnrefDelete, UnrefStuck, Stat, Crash,
                CrashInClose, CrashInCreate, CrashInDelete
  <2>2. QED BY <1>1, <1>2, <2>1 DEF Sound
<1>5. QED BY <1>1, <1>3, <1>4

\* The invariant is inductive: one case per action.
LEMMA StepInv == Inv /\ [Next]_vars => Inv'
<1>1. SUFFICES ASSUME Inv, [Next]_vars, Sound'
               PROVE  Good(table', sbDisk', sb', free', slot', crashed')
  BY StepTypes DEF Inv
<1>2. Now /\ Types' /\ spoiled' = {}
  BY <1>1, StepTypes, StepSound DEF Inv, Now, Sound
<1>3. CASE UNCHANGED vars
  BY <1>2, <1>3 DEF vars, Now
<1>4. CASE Create
  BY <1>2, <1>4, CreateGood
<1>5. ASSUME NEW i \in Inodes, InodeCall(i) \/ CrashInDelete(i)
      PROVE  Good(table', sbDisk', sb', free', slot', crashed')
  BY <1>2, <1>5, OpenGood, QuietGood, LinksGood, DeleteGood, CrashInDeleteGood DEF InodeCall
<1>6. ASSUME NEW s \in Slots, FileCall(s) \/ CrashInClose(s)
      PROVE  Good(table', sbDisk', sb', free', slot', crashed')
  BY <1>2, <1>6, QuietGood, WritePushGood, TruncateGood, CloseGood, CrashGood DEF FileCall
<1>7. CASE Crash \/ CrashInCreate
  BY <1>2, <1>7, CrashGood
<1>8. QED BY <1>1, <1>3, <1>4, <1>5, <1>6, <1>7 DEF Next

\* The inductive invariant holds in every reachable state of base files,
\* inode table and superblock.
THEOREM Invariance == Spec => []Inv
<1>1. Init => Inv
  BY InitTypes, InitGood DEF Inv
<1>2. QED BY <1>1, StepInv, PTL DEF Spec

-----------------------------------------------------------------------------
(* The properties.                                                         *)

\* The state behind the properties in the terms of the properties.
LEMMA InvFacts ==
  Inv /\ Sound =>
    /\ Now
    /\ Views = ViewsIn(table, slot) /\ InUse = InUseIn(table) /\ Open = OpenIn(slot)
    /\ (Cut <=> CutIn(slot))
    /\ \A t : /\ Refs(t) = RefsIn(t, InUse) /\ Claimed(t) = Cardinality(RefsIn(t, InUse))
              /\ Exclusive(t) <=> ExclusiveIn(t, InUse, free)
<1>1. SUFFICES ASSUME Inv, Sound
      PROVE  /\ Now
             /\ Views = ViewsIn(table, slot) /\ InUse = InUseIn(table) /\ Open = OpenIn(slot)
             /\ (Cut <=> CutIn(slot))
             /\ \A t : /\ Refs(t) = RefsIn(t, InUse) /\ Claimed(t) = Cardinality(RefsIn(t, InUse))
                       /\ Exclusive(t) <=> ExclusiveIn(t, InUse, free)
  OBVIOUS
<1>2. Now
  BY <1>1 DEF Inv, Now
<1>3. InUse = InUseIn(table) /\ Open = OpenIn(slot) /\ (Cut <=> CutIn(slot))
  BY <1>2, NowFacts
<1>4. \A i : OpenOn(i) = OpenOnIn(slot, i)
  BY <1>3 DEF OpenOn, OpenOnIn
<1>5. Views = ViewsIn(table, slot)
  <2>1. ASSUME NEW i \in Inodes PROVE View(i) = ViewsIn(table, slot)[i]
    <3>1. CASE OpenOn(i) = {}
      BY <1>4, <3>1 DEF View, ViewsIn
    <3>2. CASE OpenOn(i) # {}
      <4>1. PICK s : s \in OpenOn(i)
        BY <3>2
      <4>2. s \in OpenIn(slot) /\ slot[s].no = i
        BY <1>3, <4>1 DEF OpenOn
      <4>3. OpenOn(i) = {s}
        BY <1>2, <1>3, <4>2, NowFacts DEF OpenOn, OneOpening
      <4>4. View(i) = slot[s].inode
        BY <4>3 DEF View
      <4>5. ViewsIn(table, slot)[i] = slot[s].inode
        BY <1>2, <4>2, NowFacts, ViewsAre DEF Now, Types, Typed
      <4>6. QED BY <4>4, <4>5
    <3>3. QED BY <3>1, <3>2
  <2>2. QED BY <2>1 DEF Views, ViewsIn
<1>6. \A t : Refs(t) = RefsIn(t, InUse)
  BY DEF Refs, RefsIn
<1>7. \A t : Claimed(t) = Cardinality(RefsIn(t, InUse))
  BY <1>6 DEF Claimed
<1>8. \A t : Exclusive(t) <=> ExclusiveIn(t, InUse, free)
  BY <1>6 DEF Exclusive, ExclusiveIn
<1>9. QED BY <1>2, <1>3, <1>5, <1>6, <1>7, <1>8

\* Every variable stays in its type, for every history; and as long as no use
\* is made of a file that this layer cannot take, neither count of the
\* superblock wraps below zero or exceeds the number of blocks.
THEOREM TypeCorrect == Spec => []TypeOK
<1>1. Inv => TypeOK
  <2>1. SUFFICES ASSUME Inv PROVE TypeOK
    OBVIOUS
  <2>2. ASSUME Sound
        PROVE  /\ {sb.inodes, sbDisk.inodes} \subseteq Nat
               /\ {sb.blocks, sbDisk.blocks} \subseteq 0 .. Cardinality(Blocks)
               /\ free \subseteq Blocks
    <3>1. Now
      BY <2>1, <2>2, InvFacts
    <3>2. /\ sb.inodes >= Cardinality(InUseIn(table)) /\ sbDisk.inodes >= Cardinality(InUseIn(table))
          /\ sbDisk.blocks \in 0 .. Cardinality(Blocks)
      BY <3>1 DEF Now, Good, InodesCounted
    <3>3. QED BY <3>1, <3>2, NowFacts
  <2>3. {sb, sbDisk} \subseteq [inodes : Int, blocks : Int] /\ free \subseteq Blocks \cup {NoBlock}
    BY <2>1 DEF Inv, Types, Typed, Counts, Numbers
  <2>4. QED BY <2>1, <2>2, <2>3 DEF Inv, Types, Typed, TypeOK, Ways
<1>2. QED BY <1>1, Invariance, PTL

\* No block is in two files, or in a file and on the free list, whatever files
\* are open, and whatever crashes there were.
THEOREM BlocksAreExclusive == Spec => []BlocksExclusive
<1>1. Inv => BlocksExclusive
  BY InvFacts DEF BlocksExclusive, Now, Good, Books
<1>2. QED BY <1>1, Invariance, PTL

\* The inode table on disk alone is as sound, except while a file was cut down
\* and not closed: what a crash leaves behind.
THEOREM DiskIsExclusive == Spec => []DiskExclusive
<1>1. Inv => DiskExclusive
  BY InvFacts DEF DiskExclusive, Now, Good, Books
<1>2. QED BY <1>1, Invariance, PTL

\* The used counts of blocks cover what the files hold, in memory and on disk,
\* and before a crash nothing else: no block is lost.
THEOREM UsedBlocksAreCovered == Spec => []UsedBlocksCover
<1>1. Inv => UsedBlocksCover
  <2>1. SUFFICES ASSUME Inv, Sound
        PROVE  /\ sb.blocks >= Claimed(Views)
               /\ ~Cut => sbDisk.blocks >= Claimed(table)
               /\ ~crashed => /\ sb.blocks = Claimed(Views)
                              /\ sb.blocks = Cardinality(Blocks \ free)
    BY DEF UsedBlocksCover
  <2>2. /\ Books(Views, InUse, free, sb.blocks)
        /\ ~Cut => Books(table, InUse, free, sbDisk.blocks)
        /\ ~crashed => Exact(Views, InUse, free, sb.blocks)
    BY <2>1, InvFacts DEF Now, Good
  <2>3. \A t : Claimed(t) = Cardinality(RefsIn(t, InUse)) /\ Cardinality(RefsIn(t, InUse)) \in Nat
    BY <2>1, InvFacts, RefsFinite, InUseFinite
  <2>4. sb.blocks \in Int /\ sbDisk.blocks \in Int
    BY <2>1, InvFacts, NowFacts
  <2>5. QED BY <2>2, <2>3, <2>4 DEF Books, Exact
<1>2. QED BY <1>1, Invariance, PTL

\* The used counts of inodes cover the files, in memory and on disk.
THEOREM UsedInodesAreCovered == Spec => []UsedInodesCover
<1>1. Inv => UsedInodesCover
  BY InvFacts DEF UsedInodesCover, Now, Good, InodesCounted
<1>2. QED BY <1>1, Invariance, PTL

\* An open file is not deleted under its user, and its copy shows the type
\* and the links that the disk shows.
THEOREM OpenFilesDoExist == Spec => []OpenFilesExist
<1>1. Inv => OpenFilesExist
  BY InvFacts DEF OpenFilesExist, Now, Good, Agree
<1>2. QED BY <1>1, Invariance, PTL

\* With no file open the count on disk is the one in memory.
Current == Open = {} => sbDisk.blocks = sb.blocks

\* Every call that moves the count of blocks keeps a file open or writes the
\* superblock.
LEMMA StaysCurrent == Spec => []Current
<1>1. Init => Current
  BY DEF Init, Current
<1>2. Types /\ Current /\ [Next]_vars => Current'
  <2>1. SUFFICES ASSUME Types, Current, [Next]_vars, Open' = {}
                 PROVE  sbDisk'.blocks = sb'.blocks
    BY DEF Current
  <2>2. slot \in [Slots -> Slot] /\ sb \in Counts /\ sbDisk \in Counts
    BY <2>1 DEF Types, Typed
  <2>3. CASE UNCHANGED <<sb, sbDisk, slot>>
    BY <2>1, <2>3 DEF Open, Current
  <2>4. CASE sbDisk' = sb'
    BY <2>4
  <2>5. ASSUME UNCHANGED <<sb, sbDisk>>, LeakSlot
        PROVE  sbDisk'.blocks = sb'.blocks
    <3>1. Open' = Open
      BY <2>2, <2>5 DEF LeakSlot, FreeSlots, Open, Slot
    <3>2. QED BY <2>1, <2>5, <3>1 DEF Current
  <2>6. ASSUME NEW s \in Open, slot'[s].state = slot[s].state
        PROVE  FALSE
    BY <2>1, <2>6 DEF Open
  <2>7. ASSUME NEW i \in Inodes, UnrefDelete(i) PROVE sbDisk'.blocks = sb'.blocks
    <3>1. sbDisk' = Deleted(i) /\ sb' = [Deleted(i) EXCEPT !.inodes = @ - 1]
      BY <2>7 DEF UnrefDelete
    <3>2. QED BY <2>2, <3>1 DEF Deleted, Counts
  <2>8. ASSUME NEW i \in Inodes, OpenFile(i) PROVE FALSE
    <3>1. PICK s \in FreeSlots : slot'[s].state = "open"
      BY <2>2, <2>8 DEF OpenFile, FreeSlots
    <3>2. QED BY <2>1, <3>1 DEF Open, FreeSlots
  <2>9. ASSUME NEW s \in Slots, NEW n \in 0 .. MaxBlocks,
               Seek(s, n) \/ Truncate(s, n) \/ WriteInside(s) \/ WritePush(s)
        PROVE  FALSE
    <3>1. s \in Open
      BY <2>9 DEF Seek, Truncate, WriteInside, WritePush
    <3>2. slot'[s].state = slot[s].state
      BY <2>2, <2>9, ZenonT(60) DEF Seek, Truncate, WriteInside, WritePush, Slot
    <3>3. QED BY <2>6, <3>1, <3>2
  <2>10. CASE Create \/ Crash \/ CrashInCreate \/ \E s \in Slots : CrashInClose(s)
    BY <2>4, <2>10 DEF Create, Crash, CrashInCreate, CrashInClose, Reboot
  <2>11. ASSUME NEW i \in Inodes, CrashInDelete(i) PROVE sbDisk'.blocks = sb'.blocks
    BY <2>11 DEF CrashInDelete, Reboot
  <2>12. ASSUME NEW i \in Inodes, Stat(i) \/ UnrefStuck(i) PROVE sbDisk'.blocks = sb'.blocks
    BY <2>5, <2>12 DEF Stat, UnrefStuck
  <2>13. ASSUME NEW i \in Inodes, Ref(i) \/ UnrefKeep(i) PROVE sbDisk'.blocks = sb'.blocks
    BY <2>3, <2>13 DEF Ref, UnrefKeep
  <2>14. ASSUME NEW s \in Slots, Close(s) PROVE sbDisk'.blocks = sb'.blocks
    BY <2>14 DEF Close
  <2>15. ASSUME UNCHANGED vars PROVE sbDisk'.blocks = sb'.blocks
    BY <2>3, <2>15 DEF vars
  <2>16. ASSUME NEW s \in Slots, FileCall(s) PROVE sbDisk'.blocks = sb'.blocks
    <3>1. 0 \in 0 .. MaxBlocks
      BY BoundsAssumption
    <3>2. QED BY <2>9, <2>14, <2>16, <3>1 DEF FileCall
  <2>17. ASSUME NEW i \in Inodes, InodeCall(i) PROVE sbDisk'.blocks = sb'.blocks
    BY <2>7, <2>8, <2>12, <2>13, <2>17 DEF InodeCall
  <2>18. QED BY <2>1, <2>10, <2>11, <2>15, <2>16, <2>17 DEF Next
<1>3. QED BY <1>1, <1>2, Invariance, PTL DEF Spec, Inv


\* With no file open the superblock on disk is current; and until there is a
\* crash it counts just the blocks that the inode table on disk names, which
\* are all that are not free.
THEOREM ClosedDoesLast == Spec => []ClosedIsDurable
<1>1. ASSUME Inv, UsedBlocksCover, Current PROVE ClosedIsDurable
  <2>1. SUFFICES ASSUME Open = {}, Sound, ~crashed
        PROVE  sb.blocks = Claimed(table) /\ sb.blocks = Cardinality(Blocks \ free)
    BY <1>1 DEF Current, ClosedIsDurable
  <2>2. sb.blocks = Claimed(Views) /\ sb.blocks = Cardinality(Blocks \ free)
    BY <1>1, <2>1 DEF UsedBlocksCover
  <2>3. \A i \in Inodes : View(i) = table[i]
    BY <2>1 DEF View, OpenOn
  <2>4. table \in [Inodes -> Inode]
    BY <1>1 DEF Inv, Types, Typed
  <2>5. Views = table
    BY <2>3, <2>4 DEF Views
  <2>6. QED BY <2>2, <2>5
<1>2. QED BY <1>1, StaysCurrent, UsedBlocksAreCovered, Invariance, PTL
=============================================================================

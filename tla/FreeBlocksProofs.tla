--------------------------- MODULE FreeBlocksProofs ---------------------------
(***************************************************************************)
(* Proofs about FreeBlocks, for every position and size of the data area   *)
(* and every group size: the type invariant, the safety invariants that    *)
(* the runs check, and that the grouped list implements BlockPool.         *)
(*                                                                         *)
(* The first part is about one list on one disk image (IntactList): what   *)
(* each way data_block.c rewrites the stack block does to it.  The second  *)
(* part is the inductive invariant; each step cites one lemma of the first *)
(* part.                                                                   *)
(***************************************************************************)
EXTENDS FreeBlocks, FiniteSetTheorems, SequenceTheorems, TLAPS

\* Entry i of the group in block b, and the number of entries of that group;
\* the proofs keep these three opaque wherever the sequences do not matter.
Item(d, b, i) == d[b][i]
Size(d, b) == Len(d[b])
Depth(c) == Len(c)

\* IntactList, part by part and with the positions as pairs of indices.
Sizes(c, d) == \A j \in 1 .. Depth(c) : Size(d, c[j]) \in 1 .. MaxGroup

Bottoms(c, d, last) ==
    \A j \in 1 .. Depth(c) :
       Item(d, c[j], 1) = IF j = Depth(c) THEN last ELSE c[j + 1]

Entries(c, d) ==
    \A j \in 1 .. Depth(c) : \A i \in 1 .. Size(d, c[j]) :
       (j = Depth(c) /\ i = 1) \/ Item(d, c[j], i) \in Poolable

Distinct(c, d) ==
    \A j, k \in 1 .. Depth(c) :
       \A i \in 1 .. Size(d, c[j]), l \in 1 .. Size(d, c[k]) :
          Item(d, c[j], i) = Item(d, c[k], l) => j = k /\ i = l

PairList(c, d, last) ==
    /\ Depth(c) > 0 /\ c[1] = Stack
    /\ Sizes(c, d) /\ Bottoms(c, d, last) /\ Entries(c, d) /\ Distinct(c, d)

\* x is somewhere in the list.
Occurs(c, d, x) ==
    \E j \in 1 .. Depth(c) : \E i \in 1 .. Size(d, c[j]) : x = Item(d, c[j], i)

Contents == [Blocks -> Seq(Nat)]

-----------------------------------------------------------------------------
\* SubSeq with bounds inside the sequence.
LEMMA Slice ==
  ASSUME NEW S, NEW t \in Seq(S)
  PROVE  /\ Len(t) \in Nat
         /\ Len(t) >= 1 =>
               /\ SubSeq(t, 1, Len(t) - 1) \in Seq(S)
               /\ Len(SubSeq(t, 1, Len(t) - 1)) = Len(t) - 1
               /\ \A i \in 1 .. (Len(t) - 1) : SubSeq(t, 1, Len(t) - 1)[i] = t[i]
               /\ SubSeq(t, 2, Len(t)) \in Seq(S)
               /\ Len(SubSeq(t, 2, Len(t))) = Len(t) - 1
               /\ \A i \in 1 .. (Len(t) - 1) : SubSeq(t, 2, Len(t))[i] = t[i + 1]
         /\ Len(t) >= 2 =>
               /\ SubSeq(t, 3, Len(t)) \in Seq(S)
               /\ Len(SubSeq(t, 3, Len(t))) = Len(t) - 2
               /\ \A i \in 1 .. (Len(t) - 2) : SubSeq(t, 3, Len(t))[i] = t[i + 2]
<1>1. Len(t) \in Nat /\ \A i \in 1 .. Len(t) : t[i] \in S
  BY ElementOfSeq
<1>2. ASSUME NEW m \in 1 .. 3, NEW n \in Nat, n <= Len(t), m <= n + 1
      PROVE  /\ SubSeq(t, m, n) \in Seq(S)
             /\ Len(SubSeq(t, m, n)) = n - m + 1
             /\ \A i \in 1 .. (n - m + 1) : SubSeq(t, m, n)[i] = t[m + i - 1]
  <2>1. m \in Int /\ n \in Int /\ \A i \in m .. n : t[i] \in S
    BY <1>1, <1>2
  <2>2. /\ SubSeq(t, m, n) \in Seq(S)
        /\ Len(SubSeq(t, m, n)) = IF m <= n THEN n - m + 1 ELSE 0
        /\ \A i \in 1 .. n - m + 1 : SubSeq(t, m, n)[i] = t[m + i - 1]
    BY <2>1, SubSeqProperties
  <2>3. QED BY <1>2, <2>2
<1>3. ASSUME NEW i \in Int
      PROVE  1 + i - 1 = i /\ 2 + i - 1 = i + 1 /\ 3 + i - 1 = i + 2
  OBVIOUS
<1>4. ASSUME Len(t) >= 1
      PROVE  /\ SubSeq(t, 1, Len(t) - 1) \in Seq(S)
             /\ Len(SubSeq(t, 1, Len(t) - 1)) = Len(t) - 1
             /\ \A i \in 1 .. (Len(t) - 1) : SubSeq(t, 1, Len(t) - 1)[i] = t[i]
  <2> DEFINE n == Len(t) - 1
  <2>1. 1 \in 1 .. 3 /\ n \in Nat /\ n <= Len(t) /\ 1 <= n + 1 /\ n - 1 + 1 = n
    BY <1>1, <1>4
  <2> HIDE DEF n
  <2>2. /\ SubSeq(t, 1, n) \in Seq(S) /\ Len(SubSeq(t, 1, n)) = n
        /\ \A i \in 1 .. n : SubSeq(t, 1, n)[i] = t[1 + i - 1]
    BY <1>2, <2>1
  <2>3. \A i \in 1 .. n : SubSeq(t, 1, n)[i] = t[i]
    BY <1>3, <2>2
  <2>4. QED BY <2>2, <2>3, Zenon DEF n
<1>5. ASSUME Len(t) >= 1
      PROVE  /\ SubSeq(t, 2, Len(t)) \in Seq(S)
             /\ Len(SubSeq(t, 2, Len(t))) = Len(t) - 1
             /\ \A i \in 1 .. (Len(t) - 1) : SubSeq(t, 2, Len(t))[i] = t[i + 1]
  <2> DEFINE n == Len(t)
  <2>1. 2 \in 1 .. 3 /\ n \in Nat /\ n <= Len(t) /\ 2 <= n + 1 /\ n - 2 + 1 = n - 1
    BY <1>1, <1>5
  <2> HIDE DEF n
  <2>2. /\ SubSeq(t, 2, n) \in Seq(S) /\ Len(SubSeq(t, 2, n)) = n - 1
        /\ \A i \in 1 .. (n - 1) : SubSeq(t, 2, n)[i] = t[2 + i - 1]
    BY <1>2, <2>1
  <2>3. \A i \in 1 .. (n - 1) : SubSeq(t, 2, n)[i] = t[i + 1]
    BY <1>3, <2>2
  <2>4. QED BY <2>2, <2>3, Zenon DEF n
<1>6. ASSUME Len(t) >= 2
      PROVE  /\ SubSeq(t, 3, Len(t)) \in Seq(S)
             /\ Len(SubSeq(t, 3, Len(t))) = Len(t) - 2
             /\ \A i \in 1 .. (Len(t) - 2) : SubSeq(t, 3, Len(t))[i] = t[i + 2]
  <2> DEFINE n == Len(t)
  <2>1. 3 \in 1 .. 3 /\ n \in Nat /\ n <= Len(t) /\ 3 <= n + 1 /\ n - 3 + 1 = n - 2
    BY <1>1, <1>6
  <2> HIDE DEF n
  <2>2. /\ SubSeq(t, 3, n) \in Seq(S) /\ Len(SubSeq(t, 3, n)) = n - 2
        /\ \A i \in 1 .. (n - 2) : SubSeq(t, 3, n)[i] = t[3 + i - 1]
    BY <1>2, <2>1
  <2>3. \A i \in 1 .. (n - 2) : SubSeq(t, 3, n)[i] = t[i + 2]
    BY <1>3, <2>2
  <2>4. QED BY <2>2, <2>3, Zenon DEF n
<1>7. QED BY <1>1, <1>4, <1>5, <1>6

\* The bounds of the data area.
LEMMA Area == /\ Stack \in Blocks /\ END \notin Blocks
              /\ Blocks \subseteq Nat /\ Poolable = Blocks \ {Stack}
              /\ Stack \notin Poolable /\ Limit \in Nat
  BY StackAssumption, CountAssumption DEF Blocks, Poolable, Limit, END

\* A list is intact in terms of slots iff it is in terms of index pairs.
LEMMA PairForm ==
  ASSUME NEW c \in Seq(Blocks), NEW d \in Contents, NEW last
  PROVE  IntactList(c, d, last) <=> PairList(c, d, last)
<1> USE DEF Depth, Size, Item
<1>1. ASSUME IntactList(c, d, last) PROVE PairList(c, d, last)
  <2>1. \A j \in 1 .. Len(c) : \A i \in 1 .. Len(d[c[j]]) :
           <<j, i>> \in Slots(c, d)
    BY <1>1, GroupAssumption DEF IntactList, Slots
  <2>2. \A j, i : At(c, d, <<j, i>>) = d[c[j]][i]
    BY DEF At
  <2>3. ASSUME NEW j \in 1 .. Len(c), NEW i \in 1 .. Len(d[c[j]])
        PROVE  (j = Len(c) /\ i = 1) \/ d[c[j]][i] \in Poolable
    <3>1. <<j, i>> \in Slots(c, d)
      BY <2>1
    <3>2. <<j, i>> = <<Len(c), 1>> \/ At(c, d, <<j, i>>) \in Poolable
      BY <1>1, <3>1, Zenon DEF IntactList
    <3>3. QED BY <3>2, <2>2
  <2>4. ASSUME NEW j \in 1 .. Len(c), NEW k \in 1 .. Len(c),
               NEW i \in 1 .. Len(d[c[j]]), NEW l \in 1 .. Len(d[c[k]]),
               d[c[j]][i] = d[c[k]][l]
        PROVE  j = k /\ i = l
    <3>1. <<j, i>> \in Slots(c, d) /\ <<k, l>> \in Slots(c, d)
      BY <2>1
    <3>2. At(c, d, <<j, i>>) = At(c, d, <<k, l>>)
      BY <2>2, <2>4, ZenonT(60)
    <3>3. <<j, i>> = <<k, l>>
      BY <1>1, <3>1, <3>2, Zenon DEF IntactList
    <3>4. QED BY <3>3
  <2>5. QED BY <1>1, <2>3, <2>4
            DEF IntactList, PairList, Sizes, Bottoms, Entries, Distinct
<1>2. ASSUME PairList(c, d, last) PROVE IntactList(c, d, last)
  <2>1. ASSUME NEW s \in Slots(c, d)
        PROVE  /\ s = <<s[1], s[2]>>
               /\ s[1] \in 1 .. Len(c)
               /\ s[2] \in 1 .. Len(d[c[s[1]]])
    <3>1. /\ s \in (1 .. Len(c)) \X (1 .. MaxGroup)
          /\ s[2] <= Len(d[c[s[1]]])
      BY Zenon DEF Slots
    <3>2. s = <<s[1], s[2]>> /\ s[1] \in 1 .. Len(c) /\ s[2] \in 1 .. MaxGroup
      BY <3>1
    <3>3. Len(d[c[s[1]]]) \in Nat
      BY <3>2, <1>2, GroupAssumption DEF PairList, Sizes
    <3>4. QED BY <3>1, <3>2, <3>3, GroupAssumption
  <2>2. ASSUME NEW s \in Slots(c, d)
        PROVE  s = <<Len(c), 1>> \/ At(c, d, s) \in Poolable
    BY <1>2, <2>1 DEF PairList, Entries, At
  <2>3. ASSUME NEW s \in Slots(c, d), NEW t \in Slots(c, d),
               At(c, d, s) = At(c, d, t)
        PROVE  s = t
    <3>1. s[1] = t[1] /\ s[2] = t[2]
      BY <1>2, <2>1, <2>3 DEF PairList, Distinct, At
    <3>2. s = <<s[1], s[2]>> /\ t = <<t[1], t[2]>>
      BY <2>1, Zenon
    <3>3. QED BY <3>1, <3>2, Zenon
  <2>4. QED BY <1>2, <2>2, <2>3 DEF IntactList, PairList, Sizes, Bottoms
<1>3. QED BY <1>1, <1>2

\* What the list offers, in terms of index pairs.
LEMMA OfferedForm ==
  ASSUME NEW c \in Seq(Blocks), NEW d \in Contents, Sizes(c, d)
  PROVE  \A x : x \in Offered(c, d) <=> x # END /\ Occurs(c, d, x)
<1> USE DEF Depth, Size, Item
<1>1. ASSUME NEW s \in Slots(c, d)
      PROVE  /\ s[1] \in 1 .. Len(c) /\ s[2] \in 1 .. Len(d[c[s[1]]])
             /\ At(c, d, s) = d[c[s[1]]][s[2]]
  BY GroupAssumption DEF Slots, At
<1>2. ASSUME NEW j \in 1 .. Len(c), NEW i \in 1 .. Len(d[c[j]])
      PROVE  <<j, i>> \in Slots(c, d) /\ At(c, d, <<j, i>>) = d[c[j]][i]
  <2>1. i \in 1 .. MaxGroup /\ i <= Len(d[c[j]])
    BY GroupAssumption DEF Sizes
  <2>2. QED BY <2>1 DEF Slots, At
<1>3. ASSUME NEW x, x \in Offered(c, d) PROVE x # END /\ Occurs(c, d, x)
  <2>1. PICK s \in Slots(c, d) : x = At(c, d, s)
    BY <1>3, Zenon DEF Offered
  <2>2. x = d[c[s[1]]][s[2]]
    BY <1>1, <2>1
  <2>3. QED BY <1>1, <1>3, <2>2, Zenon DEF Offered, Occurs
<1>4. ASSUME NEW x, x # END, Occurs(c, d, x) PROVE x \in Offered(c, d)
  <2>1. PICK j \in 1 .. Len(c) : \E i \in 1 .. Len(d[c[j]]) : x = d[c[j]][i]
    BY <1>4, Zenon DEF Occurs
  <2>2. PICK i \in 1 .. Len(d[c[j]]) : x = d[c[j]][i]
    BY <2>1, Zenon
  <2>3. QED BY <1>2, <1>4, <2>2, Zenon DEF Offered
<1>5. QED BY <1>3, <1>4, Zenon

\* The typing facts about a list that the lemmas below use: no carrier occurs
\* twice, and each but the first is the bottom entry of its predecessor.
LEMMA Carriers ==
  ASSUME NEW c \in Seq(Blocks), NEW d, NEW last, PairList(c, d, last)
  PROVE  /\ Depth(c) \in Nat /\ 1 \in 1 .. Depth(c) /\ c[1] = Stack
         /\ MaxGroup \in Nat
         /\ \A j \in 1 .. Depth(c) :
               /\ c[j] \in Blocks /\ Size(d, c[j]) \in 1 .. MaxGroup
               /\ 1 \in 1 .. Size(d, c[j])
               /\ c[j] = Stack <=> j = 1
         /\ \A j \in 2 .. Depth(c) :
               /\ j - 1 \in 1 .. Depth(c)
               /\ c[j] = Item(d, c[j - 1], 1) /\ c[j] \in Poolable
         /\ \A j, k \in 1 .. Depth(c) : c[j] = c[k] => j = k
<1>1. Depth(c) \in Nat /\ \A j \in 1 .. Depth(c) : c[j] \in Blocks
  BY ElementOfSeq DEF Depth
<1>2. 1 \in 1 .. Depth(c) /\ c[1] = Stack /\ MaxGroup \in Nat
  BY <1>1, GroupAssumption DEF PairList
<1>3. ASSUME NEW j \in 1 .. Depth(c)
      PROVE  Size(d, c[j]) \in 1 .. MaxGroup /\ 1 \in 1 .. Size(d, c[j])
  BY <1>2 DEF PairList, Sizes
<1>4. ASSUME NEW j \in 2 .. Depth(c)
      PROVE  /\ j - 1 \in 1 .. Depth(c)
             /\ c[j] = Item(d, c[j - 1], 1) /\ c[j] \in Poolable
  <2>1. j - 1 \in 1 .. Depth(c) /\ j - 1 # Depth(c) /\ (j - 1) + 1 = j
    BY <1>1
  <2>2. c[j] = Item(d, c[j - 1], 1)
    BY <2>1 DEF PairList, Bottoms
  <2>3. QED BY <1>3, <2>1, <2>2 DEF PairList, Entries
<1>5. ASSUME NEW j \in 1 .. Depth(c) PROVE c[j] = Stack <=> j = 1
  <2>1. CASE j = 1
    BY <1>2, <2>1
  <2>2. CASE j # 1
    <3>1. j \in 2 .. Depth(c)
      BY <1>1, <2>2
    <3>2. QED BY <1>4, <2>2, <3>1, Area
  <2>3. QED BY <2>1, <2>2
<1>6. ASSUME NEW j \in 1 .. Depth(c), NEW k \in 1 .. Depth(c), c[j] = c[k]
      PROVE  j = k
  <2>1. CASE j = 1 \/ k = 1
    BY <1>2, <1>5, <1>6, <2>1
  <2>2. CASE j # 1 /\ k # 1
    <3>1. j \in 2 .. Depth(c) /\ k \in 2 .. Depth(c)
      BY <1>1, <2>2
    <3>2. Item(d, c[j - 1], 1) = Item(d, c[k - 1], 1)
      BY <1>4, <1>6, <3>1
    <3>3. j - 1 \in 1 .. Depth(c) /\ k - 1 \in 1 .. Depth(c)
      BY <1>4, <3>1
    <3>4. j - 1 = k - 1
      BY <1>3, <3>2, <3>3 DEF PairList, Distinct
    <3>5. QED BY <3>1, <3>4
  <2>3. QED BY <2>1, <2>2
<1>7. QED BY <1>1, <1>2, <1>3, <1>4, <1>5, <1>6

-----------------------------------------------------------------------------
(* The four ways the list is rewritten, and the writes that miss it.  Each  *)
(* is a relation between the contents d before and e after (and between the *)
(* carriers c before and s after, when they change).                        *)

Same(d, e, S) ==
    \A x \in S : Size(e, x) = Size(d, x) /\ \A i : Item(e, x, i) = Item(d, x, i)

Popped(d, e, n) ==
    /\ n = Size(d, Stack) /\ n # 1
    /\ Same(d, e, Poolable)
    /\ Size(e, Stack) = n - 1
    /\ \A i \in 1 .. (n - 1) : Item(e, Stack, i) = Item(d, Stack, i)

Pushed(d, e, n, b) ==
    /\ n = Size(d, Stack) /\ n < MaxGroup
    /\ Same(d, e, Poolable)
    /\ Size(e, Stack) = n + 1 /\ Item(e, Stack, n + 1) = b
    /\ \A i \in 1 .. n : Item(e, Stack, i) = Item(d, Stack, i)

Advanced(c, d, s, e, b) ==
    /\ Size(d, Stack) = 1 /\ b = Item(d, Stack, 1) /\ b # END
    /\ Same(d, e, Poolable)
    /\ Size(e, Stack) = Size(d, b)
    /\ \A i : Item(e, Stack, i) = Item(d, b, i)
    /\ Depth(s) = Depth(c) - 1 /\ s[1] = Stack
    /\ \A j \in 2 .. Depth(s) : s[j] = c[j + 1]

SplitOff(c, d, s, e, b) ==
    /\ Same(d, e, Poolable \ {b})
    /\ Size(e, b) = Size(d, Stack)
    /\ \A i : Item(e, b, i) = Item(d, Stack, i)
    /\ Size(e, Stack) = 1 /\ Item(e, Stack, 1) = b
    /\ Depth(s) = Depth(c) + 1 /\ s[1] = Stack /\ s[2] = b
    /\ \A j \in 3 .. Depth(s) : s[j] = c[j - 1]

Appended(c, d, s, e, nx, m) ==
    /\ Same(d, e, Blocks \ {nx})
    /\ m \in 1 .. MaxGroup /\ Size(e, nx) = m
    /\ \A i \in 1 .. m : ~Occurs(c, d, Item(e, nx, i))
    /\ \A i \in 1 .. m : i = 1 \/ Item(e, nx, i) \in Poolable
    /\ \A i, l \in 1 .. m : Item(e, nx, i) = Item(e, nx, l) => i = l
    /\ Depth(s) = Depth(c) + 1 /\ s[Depth(s)] = nx
    /\ \A j \in 1 .. Depth(c) : s[j] = c[j]

\* Popping the group on top: the list stays intact and offers all but the
\* popped block (AllocPop).
LEMMA PopKeepsList ==
  ASSUME NEW c \in Seq(Blocks), NEW d, PairList(c, d, END),
         NEW n, NEW e, Popped(d, e, n)
  PROVE  /\ PairList(c, e, END)
         /\ Item(d, Stack, n) \in Poolable /\ Occurs(c, d, Item(d, Stack, n))
         /\ \A x : Occurs(c, e, x) <=> Occurs(c, d, x) /\ x # Item(d, Stack, n)
<1> USE DEF Popped, Same
<1>1. /\ Depth(c) \in Nat /\ 1 \in 1 .. Depth(c) /\ c[1] = Stack
      /\ MaxGroup \in Nat /\ n \in 2 .. MaxGroup
      /\ n \in 1 .. Size(d, c[1])
  BY Carriers
<1>2. \A j \in 1 .. Depth(c) :
         /\ Size(d, c[j]) \in 1 .. MaxGroup
         /\ Size(e, c[j]) = IF j = 1 THEN n - 1 ELSE Size(d, c[j])
         /\ Size(e, c[j]) \in 1 .. MaxGroup
         /\ \A i \in 1 .. Size(e, c[j]) :
               /\ i \in 1 .. Size(d, c[j])
               /\ ~(j = 1 /\ i = n)
               /\ Item(e, c[j], i) = Item(d, c[j], i)
  <2>1. ASSUME NEW j \in 1 .. Depth(c)
        PROVE  /\ Size(d, c[j]) \in 1 .. MaxGroup
               /\ Size(e, c[j]) = IF j = 1 THEN n - 1 ELSE Size(d, c[j])
    BY <1>1, Carriers, Area
  <2>2. ASSUME NEW j \in 1 .. Depth(c), NEW i \in 1 .. Size(e, c[j])
        PROVE  /\ i \in 1 .. Size(d, c[j])
               /\ ~(j = 1 /\ i = n)
               /\ Item(e, c[j], i) = Item(d, c[j], i)
    <3>1. CASE j = 1
      <4>1. i \in 1 .. (n - 1) /\ Size(d, c[j]) = n
        BY <1>1, <2>1, <3>1
      <4>2. QED BY <1>1, <3>1, <4>1
    <3>2. CASE j # 1
      <4>1. c[j] \in Poolable
        BY <3>2, Carriers, Area
      <4>2. QED BY <2>1, <3>2, <4>1
    <3>3. QED BY <3>1, <3>2
  <2>3. ASSUME NEW j \in 1 .. Depth(c) PROVE Size(e, c[j]) \in 1 .. MaxGroup
    BY <1>1, <2>1
  <2>4. QED BY <2>1, <2>2, <2>3
<1>3. Item(d, Stack, n) \in Poolable /\ Occurs(c, d, Item(d, Stack, n))
  BY <1>1 DEF PairList, Entries, Occurs
<1>4. PairList(c, e, END)
  <2>1. Sizes(c, e)
    BY <1>2 DEF Sizes
  <2>2. Bottoms(c, e, END)
    <3>1. ASSUME NEW j \in 1 .. Depth(c)
          PROVE  Item(e, c[j], 1) = Item(d, c[j], 1)
      BY <1>1, <1>2
    <3>2. QED BY <3>1 DEF PairList, Bottoms
  <2>3. Entries(c, e)
    BY <1>2 DEF PairList, Entries
  <2>4. Distinct(c, e)
    BY <1>2 DEF PairList, Distinct
  <2>5. QED BY <2>1, <2>2, <2>3, <2>4 DEF PairList
<1>5. ASSUME NEW x, Occurs(c, e, x)
      PROVE  Occurs(c, d, x) /\ x # Item(d, Stack, n)
  <2>1. PICK j \in 1 .. Depth(c) : \E i \in 1 .. Size(e, c[j]) : x = Item(e, c[j], i)
    BY <1>5 DEF Occurs
  <2>2. PICK i \in 1 .. Size(e, c[j]) : x = Item(e, c[j], i)
    BY <2>1
  <2>3. i \in 1 .. Size(d, c[j]) /\ x = Item(d, c[j], i) /\ ~(j = 1 /\ i = n)
    BY <1>2, <2>2
  <2>4. x # Item(d, c[1], n)
    BY <1>1, <2>3 DEF PairList, Distinct
  <2>5. QED BY <1>1, <2>3, <2>4 DEF Occurs
<1>6. ASSUME NEW x, Occurs(c, d, x), x # Item(d, Stack, n)
      PROVE  Occurs(c, e, x)
  <2>1. PICK j \in 1 .. Depth(c) : \E i \in 1 .. Size(d, c[j]) : x = Item(d, c[j], i)
    BY <1>6 DEF Occurs
  <2>2. PICK i \in 1 .. Size(d, c[j]) : x = Item(d, c[j], i)
    BY <2>1
  <2>3. i \in 1 .. Size(e, c[j])
    <3>1. CASE j = 1
      <4>1. i # n
        BY <1>1, <1>6, <2>2, <3>1
      <4>2. Size(e, c[j]) = n - 1 /\ i \in 1 .. n
        BY <1>1, <1>2, <2>2, <3>1
      <4>3. QED BY <1>1, <4>1, <4>2
    <3>2. CASE j # 1
      BY <1>2, <2>2, <3>2
    <3>3. QED BY <3>1, <3>2
  <2>4. QED BY <1>2, <2>2, <2>3 DEF Occurs
<1>7. QED BY <1>3, <1>4, <1>5, <1>6

\* Pushing on the group on top: the list stays intact and offers the pushed
\* block as well (FreePush).
LEMMA PushKeepsList ==
  ASSUME NEW c \in Seq(Blocks), NEW d, PairList(c, d, END),
         NEW b \in Poolable, ~Occurs(c, d, b),
         NEW n, NEW e, Pushed(d, e, n, b)
  PROVE  /\ PairList(c, e, END)
         /\ \A x : Occurs(c, e, x) <=> Occurs(c, d, x) \/ x = b
<1> USE DEF Pushed, Same
<1>1. /\ Depth(c) \in Nat /\ 1 \in 1 .. Depth(c) /\ c[1] = Stack
      /\ MaxGroup \in Nat /\ n \in 1 .. (MaxGroup - 1)
      /\ n + 1 \in 1 .. Size(e, c[1])
  BY Carriers
<1>2. \A j \in 1 .. Depth(c) :
         /\ Size(d, c[j]) \in 1 .. MaxGroup
         /\ Size(e, c[j]) = IF j = 1 THEN n + 1 ELSE Size(d, c[j])
         /\ Size(e, c[j]) \in 1 .. MaxGroup
         /\ \A i \in 1 .. Size(d, c[j]) :
               /\ i \in 1 .. Size(e, c[j])
               /\ Item(e, c[j], i) = Item(d, c[j], i)
         /\ \A i \in 1 .. Size(e, c[j]) :
               \/ i \in 1 .. Size(d, c[j]) /\ Item(e, c[j], i) = Item(d, c[j], i)
               \/ j = 1 /\ i = n + 1 /\ Item(e, c[j], i) = b
  <2>1. ASSUME NEW j \in 1 .. Depth(c)
        PROVE  /\ Size(d, c[j]) \in 1 .. MaxGroup
               /\ Size(e, c[j]) = IF j = 1 THEN n + 1 ELSE Size(d, c[j])
               /\ j # 1 => c[j] \in Poolable
               /\ j = 1 => Size(d, c[j]) = n
    BY <1>1, Carriers, Area
  <2>2. ASSUME NEW j \in 1 .. Depth(c), NEW i \in 1 .. Size(d, c[j])
        PROVE  /\ i \in 1 .. Size(e, c[j])
               /\ Item(e, c[j], i) = Item(d, c[j], i)
    BY <1>1, <2>1
  <2>3. ASSUME NEW j \in 1 .. Depth(c), NEW i \in 1 .. Size(e, c[j])
        PROVE  \/ i \in 1 .. Size(d, c[j]) /\ Item(e, c[j], i) = Item(d, c[j], i)
               \/ j = 1 /\ i = n + 1 /\ Item(e, c[j], i) = b
    <3>1. CASE j = 1
      <4>1. i \in 1 .. n \/ i = n + 1
        BY <1>1, <2>1, <3>1
      <4>2. QED BY <1>1, <2>1, <3>1, <4>1
    <3>2. CASE j # 1
      BY <2>1, <3>2
    <3>3. QED BY <3>1, <3>2
  <2>4. ASSUME NEW j \in 1 .. Depth(c) PROVE Size(e, c[j]) \in 1 .. MaxGroup
    BY <1>1, <2>1
  <2>5. QED BY <2>1, <2>2, <2>3, <2>4
<1>3. \A j \in 1 .. Depth(c) : \A i \in 1 .. Size(d, c[j]) : Item(d, c[j], i) # b
  BY DEF Occurs
<1>4. PairList(c, e, END)
  <2>1. Sizes(c, e)
    BY <1>2 DEF Sizes
  <2>2. Bottoms(c, e, END)
    <3>1. ASSUME NEW j \in 1 .. Depth(c)
          PROVE  Item(e, c[j], 1) = Item(d, c[j], 1)
      BY <1>2, Carriers
    <3>2. QED BY <3>1 DEF PairList, Bottoms
  <2>3. Entries(c, e)
    BY <1>2 DEF PairList, Entries
  <2>4. Distinct(c, e)
    BY <1>2, <1>3 DEF PairList, Distinct
  <2>5. QED BY <2>1, <2>2, <2>3, <2>4 DEF PairList
<1>5. Occurs(c, e, b)
  BY <1>1 DEF Occurs
<1>6. \A x : Occurs(c, e, x) => Occurs(c, d, x) \/ x = b
  BY <1>2 DEF Occurs
<1>7. \A x : Occurs(c, d, x) => Occurs(c, e, x)
  BY <1>2 DEF Occurs
<1>8. QED BY <1>4, <1>5, <1>6, <1>7

\* Moving the next group up: the list loses its second carrier, which is the
\* block handed out, and stays intact (AllocNextGroup).
LEMMA AdvanceKeepsList ==
  ASSUME NEW c \in Seq(Blocks), NEW d, PairList(c, d, END),
         NEW b, NEW e, NEW s \in Seq(Blocks), Advanced(c, d, s, e, b)
  PROVE  /\ PairList(s, e, END)
         /\ b \in Poolable /\ Occurs(c, d, b)
         /\ \A x : Occurs(s, e, x) <=> Occurs(c, d, x) /\ x # b
<1> USE DEF Advanced, Same
<1>1. /\ Depth(c) \in Nat /\ 1 \in 1 .. Depth(c) /\ c[1] = Stack
      /\ MaxGroup \in Nat /\ 1 \in 1 .. Size(d, c[1])
  BY Carriers
<1>2. Depth(c) # 1 /\ c[2] = b
  BY <1>1 DEF PairList, Bottoms
<1>3. 2 \in 1 .. Depth(c) /\ b \in Poolable /\ Occurs(c, d, b)
  <2>1. 2 \in 2 .. Depth(c)
    BY <1>1, <1>2
  <2>2. b \in Poolable
    BY <1>2, <2>1, Carriers
  <2>3. QED BY <1>1, <2>1, <2>2 DEF Occurs
<1>4. \A j \in 1 .. Depth(s) :
         /\ j + 1 \in 1 .. Depth(c) /\ j + 1 # 1
         /\ j = Depth(s) <=> j + 1 = Depth(c)
         /\ Size(e, s[j]) = Size(d, c[j + 1])
         /\ \A i : Item(e, s[j], i) = Item(d, c[j + 1], i)
  <2>1. ASSUME NEW j \in 1 .. Depth(s)
        PROVE  /\ j + 1 \in 2 .. Depth(c)
               /\ j = Depth(s) <=> j + 1 = Depth(c)
    BY <1>1
  <2>2. ASSUME NEW j \in 1 .. Depth(s)
        PROVE  /\ Size(e, s[j]) = Size(d, c[j + 1])
               /\ \A i : Item(e, s[j], i) = Item(d, c[j + 1], i)
    <3>1. CASE j = 1
      BY <1>2, <3>1
    <3>2. CASE j # 1
      <4>1. j \in 2 .. Depth(s)
        BY <1>1, <3>2
      <4>2. s[j] = c[j + 1] /\ c[j + 1] \in Poolable
        BY <2>1, <4>1, Carriers
      <4>3. QED BY <4>2
    <3>3. QED BY <3>1, <3>2
  <2>3. QED BY <2>1, <2>2
<1>5. PairList(s, e, END)
  <2>1. Sizes(s, e)
    BY <1>4 DEF PairList, Sizes
  <2>2. Bottoms(s, e, END)
    <3>1. ASSUME NEW j \in 1 .. Depth(s)
          PROVE  Item(e, s[j], 1) = IF j = Depth(s) THEN END ELSE s[j + 1]
      <4>1. Item(e, s[j], 1) = IF j + 1 = Depth(c) THEN END ELSE c[(j + 1) + 1]
        BY <1>4 DEF PairList, Bottoms
      <4>2. j # Depth(s) => j + 1 \in 2 .. Depth(s)
        BY <1>1
      <4>3. QED BY <1>4, <4>1, <4>2
    <3>2. QED BY <3>1 DEF Bottoms
  <2>3. Entries(s, e)
    BY <1>4 DEF PairList, Entries
  <2>4. Distinct(s, e)
    <3>1. ASSUME NEW j \in 1 .. Depth(s), NEW k \in 1 .. Depth(s),
                 NEW i \in 1 .. Size(e, s[j]), NEW l \in 1 .. Size(e, s[k]),
                 Item(e, s[j], i) = Item(e, s[k], l)
          PROVE  j = k /\ i = l
      <4>1. /\ j + 1 \in 1 .. Depth(c) /\ k + 1 \in 1 .. Depth(c)
            /\ i \in 1 .. Size(d, c[j + 1]) /\ l \in 1 .. Size(d, c[k + 1])
            /\ Item(d, c[j + 1], i) = Item(d, c[k + 1], l)
        BY <1>4, <3>1
      <4>2. j + 1 = k + 1 /\ i = l
        BY <4>1 DEF PairList, Distinct
      <4>3. QED BY <1>1, <4>2
    <3>2. QED BY <3>1 DEF Distinct
  <2>5. Depth(s) > 0
    BY <1>1, <1>2
  <2>6. QED BY <2>1, <2>2, <2>3, <2>4, <2>5 DEF PairList
<1>6. ASSUME NEW x, Occurs(s, e, x) PROVE Occurs(c, d, x) /\ x # b
  <2>1. PICK j \in 1 .. Depth(s) : \E i \in 1 .. Size(e, s[j]) : x = Item(e, s[j], i)
    BY <1>6 DEF Occurs
  <2>2. PICK i \in 1 .. Size(e, s[j]) : x = Item(e, s[j], i)
    BY <2>1
  <2>3. /\ j + 1 \in 1 .. Depth(c) /\ j + 1 # 1
        /\ i \in 1 .. Size(d, c[j + 1]) /\ x = Item(d, c[j + 1], i)
    BY <1>4, <2>2
  <2>4. x # Item(d, c[1], 1)
    BY <1>1, <2>3 DEF PairList, Distinct
  <2>5. QED BY <1>1, <2>3, <2>4 DEF Occurs
<1>7. ASSUME NEW x, Occurs(c, d, x), x # b PROVE Occurs(s, e, x)
  <2>1. PICK j \in 1 .. Depth(c) : \E i \in 1 .. Size(d, c[j]) : x = Item(d, c[j], i)
    BY <1>7 DEF Occurs
  <2>2. PICK i \in 1 .. Size(d, c[j]) : x = Item(d, c[j], i)
    BY <2>1
  <2>3. j # 1
    <3>1. ASSUME j = 1 PROVE FALSE
      <4>1. i = 1
        BY <1>1, <2>2, <3>1
      <4>2. x = b
        BY <1>1, <2>2, <3>1, <4>1
      <4>3. QED BY <1>7, <4>2
    <3>2. QED BY <3>1
  <2>4. j - 1 \in 1 .. Depth(s) /\ (j - 1) + 1 = j
    BY <1>1, <2>3
  <2>5. Size(e, s[j - 1]) = Size(d, c[j]) /\ Item(e, s[j - 1], i) = Item(d, c[j], i)
    BY <1>4, <2>4
  <2>6. QED BY <2>2, <2>4, <2>5 DEF Occurs
<1>8. QED BY <1>3, <1>5, <1>6, <1>7

\* Moving the full group on top into the freed block: the block becomes the
\* second carrier, the list stays intact and offers it too (FreeNewGroup).
LEMMA SplitKeepsList ==
  ASSUME NEW c \in Seq(Blocks), NEW d, PairList(c, d, END),
         NEW b \in Poolable, ~Occurs(c, d, b),
         NEW e, NEW s \in Seq(Blocks), SplitOff(c, d, s, e, b)
  PROVE  /\ PairList(s, e, END)
         /\ \A x : Occurs(s, e, x) <=> Occurs(c, d, x) \/ x = b
<1> USE DEF SplitOff, Same
<1>1. /\ Depth(c) \in Nat /\ 1 \in 1 .. Depth(c) /\ c[1] = Stack
      /\ MaxGroup \in Nat \ {0} /\ 1 \in 1 .. Size(d, c[1])
  BY Carriers, GroupAssumption
<1>2. \A j \in 2 .. Depth(c) : c[j] \in Poolable \ {b}
  <2>1. ASSUME NEW j \in 2 .. Depth(c) PROVE c[j] \in Poolable /\ Occurs(c, d, c[j])
    BY Carriers DEF Occurs
  <2>2. QED BY <2>1
<1>3. \A j \in 1 .. Depth(s) :
         /\ (s[j] = Stack /\ j = 1) \/ (j - 1 \in 1 .. Depth(c) /\ j # 1)
         /\ j # 1 => /\ j = Depth(s) <=> j - 1 = Depth(c)
                    /\ Size(e, s[j]) = Size(d, c[j - 1])
                    /\ \A i : Item(e, s[j], i) = Item(d, c[j - 1], i)
  <2>1. ASSUME NEW j \in 1 .. Depth(s), j # 1
        PROVE  /\ j - 1 \in 1 .. Depth(c)
               /\ j = Depth(s) <=> j - 1 = Depth(c)
               /\ j # 2 => j - 1 \in 2 .. Depth(c) /\ j \in 3 .. Depth(s)
    BY <1>1, <2>1
  <2>2. ASSUME NEW j \in 1 .. Depth(s), j # 1
        PROVE  /\ Size(e, s[j]) = Size(d, c[j - 1])
               /\ \A i : Item(e, s[j], i) = Item(d, c[j - 1], i)
    <3>1. CASE j = 2
      BY <1>1, <3>1
    <3>2. CASE j # 2
      <4>1. j - 1 \in 2 .. Depth(c) /\ j \in 3 .. Depth(s)
        BY <2>1, <2>2, <3>2
      <4>2. s[j] = c[j - 1] /\ c[j - 1] \in Poolable \ {b}
        BY <1>2, <4>1
      <4>3. QED BY <4>2
    <3>3. QED BY <3>1, <3>2
  <2>3. ASSUME NEW j \in 1 .. Depth(s), j = 1 PROVE s[j] = Stack
    BY <2>3
  <2>4. ASSUME NEW j \in 1 .. Depth(s)
        PROVE  (s[j] = Stack /\ j = 1) \/ (j - 1 \in 1 .. Depth(c) /\ j # 1)
    BY <2>1, <2>3
  <2>5. QED BY <2>1, <2>2, <2>4
<1>4. Depth(s) \in Nat /\ 1 \in 1 .. Depth(s) /\ 1 # Depth(s)
  BY <1>1
<1>5. \A j \in 1 .. Depth(c) : \A i \in 1 .. Size(d, c[j]) : Item(d, c[j], i) # b
  BY DEF Occurs
<1>6. PairList(s, e, END)
  <2>1. Sizes(s, e)
    <3>1. ASSUME NEW j \in 1 .. Depth(s) PROVE Size(e, s[j]) \in 1 .. MaxGroup
      <4>1. CASE j = 1
        BY <1>1, <4>1
      <4>2. CASE j # 1
        BY <1>3, <4>2 DEF PairList, Sizes
      <4>3. QED BY <4>1, <4>2
    <3>2. QED BY <3>1 DEF Sizes
  <2>2. Bottoms(s, e, END)
    <3>1. ASSUME NEW j \in 1 .. Depth(s)
          PROVE  Item(e, s[j], 1) = IF j = Depth(s) THEN END ELSE s[j + 1]
      <4>1. CASE j = 1
        BY <1>4, <4>1
      <4>2. CASE j # 1
        <5>1. Item(e, s[j], 1) = IF j - 1 = Depth(c) THEN END ELSE c[(j - 1) + 1]
          BY <1>3, <4>2 DEF PairList, Bottoms
        <5>2. j # Depth(s) => j + 1 \in 3 .. Depth(s) /\ (j + 1) - 1 = (j - 1) + 1
          BY <1>4, <4>2
        <5>3. QED BY <1>3, <4>2, <5>1, <5>2
      <4>3. QED BY <4>1, <4>2
    <3>2. QED BY <3>1 DEF Bottoms
  <2>3. Entries(s, e)
    <3>1. ASSUME NEW j \in 1 .. Depth(s), NEW i \in 1 .. Size(e, s[j])
          PROVE  (j = Depth(s) /\ i = 1) \/ Item(e, s[j], i) \in Poolable
      <4>1. CASE j = 1
        <5>1. i = 1
          BY <4>1
        <5>2. QED BY <4>1, <5>1
      <4>2. CASE j # 1
        BY <1>3, <4>2 DEF PairList, Entries
      <4>3. QED BY <4>1, <4>2
    <3>2. QED BY <3>1 DEF Entries
  <2>4. Distinct(s, e)
    <3>1. ASSUME NEW j \in 1 .. Depth(s), NEW k \in 1 .. Depth(s),
                 NEW i \in 1 .. Size(e, s[j]), NEW l \in 1 .. Size(e, s[k]),
                 Item(e, s[j], i) = Item(e, s[k], l)
          PROVE  j = k /\ i = l
      <4>1. ASSUME NEW m \in 1 .. Depth(s), NEW p \in 1 .. Size(e, s[m])
            PROVE  /\ m = 1 => p = 1 /\ Item(e, s[m], p) = b
                   /\ m # 1 => Item(e, s[m], p) # b
        <5>1. CASE m = 1
          <6>1. p = 1
            BY <5>1
          <6>2. QED BY <5>1, <6>1
        <5>2. CASE m # 1
          <6>1. /\ m - 1 \in 1 .. Depth(c) /\ p \in 1 .. Size(d, c[m - 1])
                /\ Item(e, s[m], p) = Item(d, c[m - 1], p)
            BY <1>3, <5>2
          <6>2. QED BY <1>5, <5>2, <6>1
        <5>3. QED BY <5>1, <5>2
      <4>2. CASE j = 1 \/ k = 1
        BY <3>1, <4>1, <4>2
      <4>3. CASE j # 1 /\ k # 1
        <5>1. /\ j - 1 \in 1 .. Depth(c) /\ k - 1 \in 1 .. Depth(c)
              /\ i \in 1 .. Size(d, c[j - 1]) /\ l \in 1 .. Size(d, c[k - 1])
              /\ Item(d, c[j - 1], i) = Item(d, c[k - 1], l)
          BY <1>3, <3>1, <4>3, ZenonT(60)
        <5>2. j - 1 = k - 1 /\ i = l
          BY <5>1 DEF PairList, Distinct
        <5>3. QED BY <1>4, <5>2
      <4>4. QED BY <4>2, <4>3
    <3>2. QED BY <3>1 DEF Distinct
  <2>5. QED BY <1>4, <2>1, <2>2, <2>3, <2>4 DEF PairList
<1>7. ASSUME NEW x, Occurs(s, e, x) PROVE Occurs(c, d, x) \/ x = b
  <2>1. PICK j \in 1 .. Depth(s) : \E i \in 1 .. Size(e, s[j]) : x = Item(e, s[j], i)
    BY <1>7 DEF Occurs
  <2>2. PICK i \in 1 .. Size(e, s[j]) : x = Item(e, s[j], i)
    BY <2>1
  <2>3. CASE j = 1
    <3>1. i = 1
      BY <2>2, <2>3
    <3>2. QED BY <2>2, <2>3, <3>1
  <2>4. CASE j # 1
    <3>1. /\ j - 1 \in 1 .. Depth(c) /\ i \in 1 .. Size(d, c[j - 1])
          /\ x = Item(d, c[j - 1], i)
      BY <1>3, <2>2, <2>4, SMTT(60)
    <3>2. QED BY <3>1 DEF Occurs
  <2>5. QED BY <2>3, <2>4
<1>8. Occurs(s, e, b)
  <2>1. 1 \in 1 .. Size(e, s[1]) /\ Item(e, s[1], 1) = b
    OBVIOUS
  <2>2. QED BY <1>4, <2>1 DEF Occurs
<1>9. ASSUME NEW x, Occurs(c, d, x) PROVE Occurs(s, e, x)
  <2>1. PICK j \in 1 .. Depth(c) : \E i \in 1 .. Size(d, c[j]) : x = Item(d, c[j], i)
    BY <1>9 DEF Occurs
  <2>2. j + 1 \in 1 .. Depth(s) /\ j + 1 # 1 /\ (j + 1) - 1 = j
    BY <1>1
  <2>3. Size(e, s[j + 1]) = Size(d, c[j]) /\ \A i : Item(e, s[j + 1], i) = Item(d, c[j], i)
    BY <1>3, <2>2
  <2>4. QED BY <2>1, <2>2, <2>3 DEF Occurs
<1>10. QED BY <1>6, <1>7, <1>8, <1>9

\* Writes that touch no carrier leave the list as it is (FileWrite, and the
\* writes of a failed data_block_free).
LEMMA OthersKeepList ==
  ASSUME NEW c \in Seq(Blocks), NEW d, NEW last, PairList(c, d, last),
         NEW e, Same(d, e, {c[j] : j \in 1 .. Depth(c)})
  PROVE  /\ PairList(c, e, last)
         /\ \A x : Occurs(c, e, x) <=> Occurs(c, d, x)
<1> USE DEF Same
<1>1. Sizes(c, e)
  BY DEF PairList, Sizes
<1>2. Bottoms(c, e, last)
  BY DEF PairList, Bottoms
<1>3. Entries(c, e)
  BY DEF PairList, Entries
<1>4. Distinct(c, e)
  BY DEF PairList, Distinct
<1>5. QED BY <1>1, <1>2, <1>3, <1>4 DEF PairList, Occurs

\* data_blocks_init appends a group of fresh blocks: the block the last group
\* promised (nx) becomes its carrier (FormatGroup).
LEMMA AppendKeepsList ==
  ASSUME NEW c \in Seq(Blocks), NEW d, NEW nx \in Poolable, PairList(c, d, nx),
         NEW e, NEW m, NEW s \in Seq(Blocks), Appended(c, d, s, e, nx, m)
  PROVE  /\ PairList(s, e, Item(e, nx, 1))
         /\ \A x : Occurs(s, e, x) <=>
                     Occurs(c, d, x) \/ \E i \in 1 .. m : x = Item(e, nx, i)
<1> USE DEF Appended, Same
<1>1. /\ Depth(c) \in Nat /\ 1 \in 1 .. Depth(c) /\ c[1] = Stack
      /\ MaxGroup \in Nat \ {0}
  BY Carriers, GroupAssumption
<1>2. ASSUME NEW j \in 1 .. Depth(c) PROVE c[j] \in Blocks \ {nx}
  <2>1. c[j] # nx
    <3>1. CASE j = 1
      BY <1>1, <3>1, Area
    <3>2. CASE j # 1
      <4>1. /\ j - 1 \in 1 .. Depth(c) /\ j - 1 # Depth(c)
            /\ c[j] = Item(d, c[j - 1], 1) /\ 1 \in 1 .. Size(d, c[j - 1])
        <5>1. j \in 2 .. Depth(c)
          BY <1>1, <3>2
        <5>2. QED BY <1>1, <5>1, Carriers
      <4>2. nx = Item(d, c[Depth(c)], 1) /\ Depth(c) \in 1 .. Depth(c)
            /\ 1 \in 1 .. Size(d, c[Depth(c)])
        <5>1. Depth(c) \in 1 .. Depth(c)
          BY <1>1
        <5>2. QED BY <5>1, Carriers DEF PairList, Bottoms
      <4>3. QED BY <4>1, <4>2 DEF PairList, Distinct
    <3>3. QED BY <3>1, <3>2
  <2>2. QED BY <2>1, Carriers
<1>3. \A j \in 1 .. Depth(c) :
         /\ s[j] = c[j] /\ j \in 1 .. Depth(s) /\ j # Depth(s)
         /\ Size(e, s[j]) = Size(d, c[j])
         /\ \A i : Item(e, s[j], i) = Item(d, c[j], i)
  BY <1>1, <1>2
<1>4. \A j \in 1 .. Depth(s) : j = Depth(s) \/ j \in 1 .. Depth(c)
  BY <1>1
<1>5. Depth(s) \in 1 .. Depth(s) /\ Depth(s) \notin 1 .. Depth(c)
  BY <1>1
<1>6. \A j \in 1 .. Depth(c) : \A i \in 1 .. Size(d, c[j]) :
         Item(d, c[j], i) \in Poolable
  <2>1. ASSUME NEW j \in 1 .. Depth(c), NEW i \in 1 .. Size(d, c[j])
        PROVE  Item(d, c[j], i) \in Poolable
    <3>1. CASE j = Depth(c) /\ i = 1
      BY <3>1 DEF PairList, Bottoms
    <3>2. CASE ~(j = Depth(c) /\ i = 1)
      BY <3>2 DEF PairList, Entries
    <3>3. QED BY <3>1, <3>2
  <2>2. QED BY <2>1
<1>7. PairList(s, e, Item(e, nx, 1))
  <2>1. Sizes(s, e)
    BY <1>3, <1>4 DEF PairList, Sizes
  <2>2. Bottoms(s, e, Item(e, nx, 1))
    <3>1. ASSUME NEW j \in 1 .. Depth(c)
          PROVE  Item(e, s[j], 1) = s[j + 1]
      <4>1. CASE j = Depth(c)
        BY <1>3, <4>1 DEF PairList, Bottoms
      <4>2. CASE j # Depth(c)
        <5>1. j + 1 \in 1 .. Depth(c)
          BY <1>1, <4>2
        <5>2. Item(d, c[j], 1) = c[j + 1]
          BY <4>2 DEF PairList, Bottoms
        <5>3. QED BY <1>3, <5>1, <5>2
      <4>3. QED BY <4>1, <4>2
    <3>2. QED BY <1>3, <1>4, <3>1 DEF Bottoms
  <2>3. Entries(s, e)
    <3>1. ASSUME NEW j \in 1 .. Depth(s), NEW i \in 1 .. Size(e, s[j])
          PROVE  (j = Depth(s) /\ i = 1) \/ Item(e, s[j], i) \in Poolable
      <4>1. CASE j = Depth(s)
        BY <4>1
      <4>2. CASE j \in 1 .. Depth(c)
        <5>1. i \in 1 .. Size(d, c[j]) /\ Item(e, s[j], i) = Item(d, c[j], i)
          BY <1>3, <4>2
        <5>2. QED BY <1>6, <4>2, <5>1
      <4>3. QED BY <1>4, <4>1, <4>2
    <3>2. QED BY <3>1 DEF Entries
  <2>4. Distinct(s, e)
    <3>1. ASSUME NEW j \in 1 .. Depth(s), NEW k \in 1 .. Depth(s),
                 NEW i \in 1 .. Size(e, s[j]), NEW l \in 1 .. Size(e, s[k]),
                 Item(e, s[j], i) = Item(e, s[k], l)
          PROVE  j = k /\ i = l
      <4>1. ASSUME NEW p \in 1 .. m, NEW h \in 1 .. Depth(c),
                   NEW q \in 1 .. Size(d, c[h])
            PROVE  Item(e, nx, p) # Item(d, c[h], q)
        <5>1. Occurs(c, d, Item(d, c[h], q))
          BY Zenon DEF Occurs
        <5>2. ~Occurs(c, d, Item(e, nx, p))
          OBVIOUS
        <5>3. QED BY <5>1, <5>2, Zenon
      <4>2. ASSUME NEW h \in 1 .. Depth(c), NEW q \in 1 .. Size(e, s[h])
            PROVE  q \in 1 .. Size(d, c[h]) /\ Item(e, s[h], q) = Item(d, c[h], q)
        BY <1>3
      <4>3. CASE j \in 1 .. Depth(c) /\ k \in 1 .. Depth(c)
        <5>1. /\ i \in 1 .. Size(d, c[j]) /\ l \in 1 .. Size(d, c[k])
              /\ Item(d, c[j], i) = Item(d, c[k], l)
          BY <3>1, <4>2, <4>3
        <5>2. QED BY <4>3, <5>1 DEF PairList, Distinct
      <4>4. CASE j = Depth(s) /\ k = Depth(s)
        BY <3>1, <4>4
      <4>5. CASE j = Depth(s) /\ k \in 1 .. Depth(c)
        BY <3>1, <4>1, <4>2, <4>5
      <4>6. CASE k = Depth(s) /\ j \in 1 .. Depth(c)
        BY <3>1, <4>1, <4>2, <4>6
      <4>7. QED BY <1>4, <4>3, <4>4, <4>5, <4>6
    <3>2. QED BY <3>1 DEF Distinct
  <2>5. Depth(s) > 0 /\ s[1] = Stack
    BY <1>1
  <2>6. QED BY <2>1, <2>2, <2>3, <2>4, <2>5 DEF PairList
<1>8. ASSUME NEW x, Occurs(s, e, x)
      PROVE  Occurs(c, d, x) \/ \E i \in 1 .. m : x = Item(e, nx, i)
  <2>1. PICK j \in 1 .. Depth(s) : \E i \in 1 .. Size(e, s[j]) : x = Item(e, s[j], i)
    BY <1>8 DEF Occurs
  <2>2. CASE j = Depth(s)
    BY <2>1, <2>2
  <2>3. CASE j \in 1 .. Depth(c)
    <3>1. PICK i \in 1 .. Size(e, s[j]) : x = Item(e, s[j], i)
      BY <2>1
    <3>2. i \in 1 .. Size(d, c[j]) /\ x = Item(d, c[j], i)
      BY <1>3, <2>3, <3>1
    <3>3. QED BY <2>3, <3>2 DEF Occurs
  <2>4. QED BY <1>4, <2>2, <2>3
<1>9. ASSUME NEW x, Occurs(c, d, x) PROVE Occurs(s, e, x)
  <2>1. PICK j \in 1 .. Depth(c) : \E i \in 1 .. Size(d, c[j]) : x = Item(d, c[j], i)
    BY <1>9 DEF Occurs
  <2>2. PICK i \in 1 .. Size(d, c[j]) : x = Item(d, c[j], i)
    BY <2>1
  <2>3. /\ j \in 1 .. Depth(s) /\ i \in 1 .. Size(e, s[j])
        /\ x = Item(e, s[j], i)
    BY <1>3, <2>2
  <2>4. QED BY <2>3 DEF Occurs
<1>10. ASSUME NEW i \in 1 .. m PROVE Occurs(s, e, Item(e, nx, i))
  BY <1>5 DEF Occurs
<1>11. QED BY <1>7, <1>8, <1>9, <1>10

-----------------------------------------------------------------------------
(* The same, for the expressions the actions of FreeBlocks write.          *)

\* e is d with the group g written to block b.
Wrote(d, e, b, g) ==
    /\ e \in Contents
    /\ Same(d, e, Blocks \ {b})
    /\ Size(e, b) = Len(g) /\ \A i : Item(e, b, i) = g[i]

\* Writing one group to one block.
LEMMA WriteOne ==
  ASSUME NEW d \in Contents, NEW b \in Blocks, NEW g \in Seq(Nat)
  PROVE  Wrote(d, [d EXCEPT ![b] = g], b, g)
<1> DEFINE e == [d EXCEPT ![b] = g]
<1>1. e \in Contents
  BY DEF Contents
<1>2. \A x \in Blocks \ {b} : e[x] = d[x]
  BY DEF Contents
<1>3. e[b] = g
  BY DEF Contents
<1> HIDE DEF e
<1>4. Wrote(d, e, b, g)
  BY <1>1, <1>2, <1>3 DEF Wrote, Same, Size, Item
<1>5. QED BY <1>4 DEF e

\* What the actions write to the disk, and make of the carriers.
PopDisk(d)      == [d EXCEPT ![Stack] = SubSeq(d[Stack], 1, Len(d[Stack]) - 1)]
PushDisk(d, b)  == [d EXCEPT ![Stack] = Append(d[Stack], b)]
AdvanceDisk(d)  == [d EXCEPT ![Stack] = d[d[Stack][1]]]
AdvanceChain(c) == <<Stack>> \o SubSeq(c, 3, Len(c))
SplitDisk(d, b) == [[d EXCEPT ![b] = d[Stack]] EXCEPT ![Stack] = <<b>>]
SplitChain(c, b) == <<Stack, b>> \o SubSeq(c, 2, Len(c))

\* The group on top is a nonempty sequence.
LEMMA TopType ==
  ASSUME NEW c \in Seq(Blocks), NEW d \in Contents, PairList(c, d, END)
  PROVE  /\ d[Stack] \in Seq(Nat) /\ Len(d[Stack]) \in 1 .. MaxGroup
         /\ Size(d, Stack) = Len(d[Stack])
<1>1. d[Stack] \in Seq(Nat)
  BY Area DEF Contents
<1>2. Size(d, Stack) \in 1 .. MaxGroup
  BY Carriers
<1>3. QED BY <1>1, <1>2 DEF Size

\* Taking the top of the stack block off keeps the list of groups in order.
LEMMA PopOnDisk ==
  ASSUME NEW c \in Seq(Blocks), NEW d \in Contents, PairList(c, d, END),
         Size(d, Stack) # 1
  PROVE  /\ PopDisk(d) \in Contents /\ PairList(c, PopDisk(d), END)
         /\ Item(d, Stack, Size(d, Stack)) \in Poolable
         /\ Occurs(c, d, Item(d, Stack, Size(d, Stack)))
         /\ \A x : Occurs(c, PopDisk(d), x) <=>
                     Occurs(c, d, x) /\ x # Item(d, Stack, Size(d, Stack))
<1>1. ASSUME NEW t \in Seq(Nat), Len(t) >= 1
      PROVE  /\ SubSeq(t, 1, Len(t) - 1) \in Seq(Nat)
             /\ Len(SubSeq(t, 1, Len(t) - 1)) = Len(t) - 1
             /\ \A i \in 1 .. (Len(t) - 1) : SubSeq(t, 1, Len(t) - 1)[i] = t[i]
  BY <1>1, Slice, Zenon
<1>2. d[Stack] \in Seq(Nat) /\ Len(d[Stack]) >= 1 /\ Size(d, Stack) = Len(d[Stack])
  BY TopType, GroupAssumption
<1>3. Wrote(d, PopDisk(d), Stack, SubSeq(d[Stack], 1, Len(d[Stack]) - 1))
  BY <1>1, <1>2, Area, WriteOne DEF PopDisk
<1>4. PopDisk(d) \in Contents /\ Same(d, PopDisk(d), Poolable)
  BY <1>3, Area, Zenon DEF Wrote
<1>5. /\ Size(PopDisk(d), Stack) = Size(d, Stack) - 1
      /\ \A i \in 1 .. (Size(d, Stack) - 1) : Item(PopDisk(d), Stack, i) = Item(d, Stack, i)
  <2> DEFINE g == SubSeq(d[Stack], 1, Len(d[Stack]) - 1)
  <2>1. /\ Len(g) = Size(d, Stack) - 1
        /\ \A i \in 1 .. (Size(d, Stack) - 1) : g[i] = Item(d, Stack, i)
    BY <1>1, <1>2, Zenon DEF Item
  <2>2. /\ Size(PopDisk(d), Stack) = Len(g)
        /\ \A i : Item(PopDisk(d), Stack, i) = g[i]
    BY <1>3, Zenon DEF Wrote
  <2> HIDE DEF g
  <2>3. QED BY <2>1, <2>2, Zenon
<1>7. Popped(d, PopDisk(d), Size(d, Stack))
  BY <1>4, <1>5, Zenon DEF Popped
<1>8. QED BY <1>4, <1>7, PopKeepsList

\* So does putting a block on it,
LEMMA PushOnDisk ==
  ASSUME NEW c \in Seq(Blocks), NEW d \in Contents, PairList(c, d, END),
         Size(d, Stack) < MaxGroup, NEW b \in Poolable, ~Occurs(c, d, b)
  PROVE  /\ PushDisk(d, b) \in Contents /\ PairList(c, PushDisk(d, b), END)
         /\ \A x : Occurs(c, PushDisk(d, b), x) <=> Occurs(c, d, x) \/ x = b
<1>1. ASSUME NEW t \in Seq(Nat), NEW y \in Nat
      PROVE  /\ Append(t, y) \in Seq(Nat)
             /\ Len(Append(t, y)) = Len(t) + 1
             /\ \A i \in 1 .. Len(t) : Append(t, y)[i] = t[i]
             /\ Append(t, y)[Len(t) + 1] = y
  OBVIOUS
<1>2. /\ d[Stack] \in Seq(Nat) /\ Size(d, Stack) = Len(d[Stack]) /\ b \in Nat
      /\ Len(d[Stack]) \in Nat
  BY TopType, Area
<1>3. Wrote(d, PushDisk(d, b), Stack, Append(d[Stack], b))
  BY <1>1, <1>2, Area, WriteOne DEF PushDisk
<1>4. PushDisk(d, b) \in Contents /\ Same(d, PushDisk(d, b), Poolable)
  BY <1>3, Area, Zenon DEF Wrote
<1>5. /\ Size(PushDisk(d, b), Stack) = Size(d, Stack) + 1
      /\ Item(PushDisk(d, b), Stack, Size(d, Stack) + 1) = b
  BY <1>1, <1>2, <1>3 DEF Wrote
<1>6. \A i \in 1 .. Size(d, Stack) : Item(PushDisk(d, b), Stack, i) = Item(d, Stack, i)
  BY <1>1, <1>2, <1>3, SMTT(60) DEF Wrote, Item
<1>7. Pushed(d, PushDisk(d, b), Size(d, Stack), b)
  BY <1>4, <1>5, <1>6 DEF Pushed
<1>8. QED BY <1>4, <1>7, PushKeepsList

\* copying the next group into the stack block,
LEMMA AdvanceOnDisk ==
  ASSUME NEW c \in Seq(Blocks), NEW d \in Contents, PairList(c, d, END),
         Size(d, Stack) = 1, Item(d, Stack, 1) # END
  PROVE  /\ AdvanceDisk(d) \in Contents /\ AdvanceChain(c) \in Seq(Blocks)
         /\ PairList(AdvanceChain(c), AdvanceDisk(d), END)
         /\ Item(d, Stack, 1) \in Poolable /\ Occurs(c, d, Item(d, Stack, 1))
         /\ \A x : Occurs(AdvanceChain(c), AdvanceDisk(d), x) <=>
                     Occurs(c, d, x) /\ x # Item(d, Stack, 1)
<1>1. Depth(c) \in Nat /\ Depth(c) >= 2 /\ Item(d, Stack, 1) \in Poolable
  <2>1. Depth(c) \in Nat /\ 1 \in 1 .. Depth(c) /\ c[1] = Stack
    BY Carriers
  <2>2. Depth(c) # 1 /\ c[2] = Item(d, Stack, 1)
    BY <2>1 DEF PairList, Bottoms
  <2>3. 2 \in 2 .. Depth(c)
    BY <2>1, <2>2
  <2>4. c[2] \in Poolable
    BY <2>3, Carriers
  <2>5. QED BY <2>1, <2>2, <2>3, <2>4
<1>2. /\ Item(d, Stack, 1) \in Blocks /\ Stack \in Blocks
      /\ d[Item(d, Stack, 1)] \in Seq(Nat)
  BY <1>1, Area DEF Contents
<1>3. Wrote(d, AdvanceDisk(d), Stack, d[Item(d, Stack, 1)])
  BY <1>2, WriteOne DEF AdvanceDisk, Item
<1>4. /\ AdvanceDisk(d) \in Contents /\ Same(d, AdvanceDisk(d), Poolable)
      /\ Size(AdvanceDisk(d), Stack) = Size(d, Item(d, Stack, 1))
      /\ \A i : Item(AdvanceDisk(d), Stack, i) = Item(d, Item(d, Stack, 1), i)
  <2>1. AdvanceDisk(d) \in Contents /\ Same(d, AdvanceDisk(d), Poolable)
    BY <1>3, Area, Zenon DEF Wrote
  <2>2. \A y : Len(d[y]) = Size(d, y) /\ \A i : d[y][i] = Item(d, y, i)
    BY Zenon DEF Size, Item
  <2>3. QED BY <1>3, <2>1, <2>2, Zenon DEF Wrote
<1>5. /\ AdvanceChain(c) \in Seq(Blocks)
      /\ Depth(AdvanceChain(c)) = Depth(c) - 1 /\ AdvanceChain(c)[1] = Stack
      /\ \A j \in 2 .. Depth(AdvanceChain(c)) : AdvanceChain(c)[j] = c[j + 1]
  <2>1. Len(c) \in Nat /\ Len(c) >= 2 /\ Stack \in Blocks
    BY <1>1, <1>2 DEF Depth
  <2>2. /\ SubSeq(c, 3, Len(c)) \in Seq(Blocks)
        /\ Len(SubSeq(c, 3, Len(c))) = Len(c) - 2
        /\ \A j \in 1 .. (Len(c) - 2) : SubSeq(c, 3, Len(c))[j] = c[j + 2]
    BY <2>1, Slice, Zenon
  <2>3. /\ AdvanceChain(c) \in Seq(Blocks) /\ Len(AdvanceChain(c)) = Len(c) - 1
        /\ \A j \in 1 .. (Len(c) - 1) :
              AdvanceChain(c)[j] = IF j <= 1 THEN Stack ELSE SubSeq(c, 3, Len(c))[j - 1]
    BY <2>1, <2>2 DEF AdvanceChain
  <2>4. ASSUME NEW j \in 2 .. (Len(c) - 1) PROVE AdvanceChain(c)[j] = c[j + 1]
    BY <2>1, <2>2, <2>3
  <2>5. QED BY <2>1, <2>3, <2>4 DEF Depth
<1>6. Advanced(c, d, AdvanceChain(c), AdvanceDisk(d), Item(d, Stack, 1))
  BY <1>4, <1>5, Zenon DEF Advanced
<1>7. QED BY <1>4, <1>5, <1>6, AdvanceKeepsList

\* and starting a new group with the block that is freed.
LEMMA SplitOnDisk ==
  ASSUME NEW c \in Seq(Blocks), NEW d \in Contents, PairList(c, d, END),
         NEW b \in Poolable, ~Occurs(c, d, b)
  PROVE  /\ SplitDisk(d, b) \in Contents /\ SplitChain(c, b) \in Seq(Blocks)
         /\ PairList(SplitChain(c, b), SplitDisk(d, b), END)
         /\ \A x : Occurs(SplitChain(c, b), SplitDisk(d, b), x) <=>
                     Occurs(c, d, x) \/ x = b
<1> DEFINE f == [d EXCEPT ![b] = d[Stack]]
<1>1. /\ Stack \in Blocks /\ b \in Blocks /\ b # Stack /\ b \in Nat
      /\ d[Stack] \in Seq(Nat) /\ <<b>> \in Seq(Nat)
  BY Area DEF Contents
<1>2. Wrote(d, f, b, d[Stack])
  BY <1>1, WriteOne
<1>3. SplitDisk(d, b) = [f EXCEPT ![Stack] = <<b>>]
  BY DEF SplitDisk
<1> HIDE DEF f
<1>4. Wrote(f, SplitDisk(d, b), Stack, <<b>>)
  <2>1. f \in Contents
    BY <1>2, Zenon DEF Wrote
  <2>2. QED BY <1>1, <1>3, <2>1, WriteOne
<1>5. /\ SplitDisk(d, b) \in Contents /\ Same(d, SplitDisk(d, b), Poolable \ {b})
      /\ Size(SplitDisk(d, b), b) = Size(d, Stack)
      /\ \A i : Item(SplitDisk(d, b), b, i) = Item(d, Stack, i)
      /\ Size(SplitDisk(d, b), Stack) = 1 /\ Item(SplitDisk(d, b), Stack, 1) = b
  <2>1. SplitDisk(d, b) \in Contents /\ Same(d, SplitDisk(d, b), Poolable \ {b})
    BY <1>2, <1>4, Area DEF Wrote, Same
  <2>2. /\ Size(SplitDisk(d, b), b) = Len(d[Stack])
        /\ \A i : Item(SplitDisk(d, b), b, i) = d[Stack][i]
    BY <1>1, <1>2, <1>4 DEF Wrote, Same
  <2>3. Size(SplitDisk(d, b), Stack) = 1 /\ Item(SplitDisk(d, b), Stack, 1) = b
    <3>1. Len(<<b>>) = 1 /\ <<b>>[1] = b
      OBVIOUS
    <3>2. QED BY <1>4, <3>1, Zenon DEF Wrote
  <2>4. Len(d[Stack]) = Size(d, Stack) /\ \A i : d[Stack][i] = Item(d, Stack, i)
    BY Zenon DEF Size, Item
  <2>5. QED BY <2>1, <2>2, <2>3, <2>4
<1>6. /\ SplitChain(c, b) \in Seq(Blocks) /\ Depth(SplitChain(c, b)) = Depth(c) + 1
      /\ SplitChain(c, b)[1] = Stack /\ SplitChain(c, b)[2] = b
      /\ \A j \in 3 .. Depth(SplitChain(c, b)) : SplitChain(c, b)[j] = c[j - 1]
  <2>1. Len(c) \in Nat /\ Len(c) >= 1
    BY Carriers DEF Depth
  <2>2. /\ SubSeq(c, 2, Len(c)) \in Seq(Blocks)
        /\ Len(SubSeq(c, 2, Len(c))) = Len(c) - 1
        /\ \A j \in 1 .. (Len(c) - 1) : SubSeq(c, 2, Len(c))[j] = c[j + 1]
    BY <2>1, Slice, Zenon
  <2>3. /\ SplitChain(c, b) \in Seq(Blocks) /\ Len(SplitChain(c, b)) = Len(c) + 1
        /\ \A j \in 1 .. (Len(c) + 1) :
              SplitChain(c, b)[j] = IF j <= 2 THEN <<Stack, b>>[j]
                                              ELSE SubSeq(c, 2, Len(c))[j - 2]
    BY <1>1, <2>1, <2>2 DEF SplitChain
  <2>4. ASSUME NEW j \in 3 .. (Len(c) + 1) PROVE SplitChain(c, b)[j] = c[j - 1]
    BY <2>1, <2>2, <2>3
  <2>5. QED BY <2>1, <2>3, <2>4 DEF Depth
<1>7. SplitOff(c, d, SplitChain(c, b), SplitDisk(d, b), b)
  BY <1>5, <1>6, Zenon DEF SplitOff
<1>8. QED BY <1>5, <1>6, <1>7, SplitKeepsList

\* A write to a block that is not on the list.
LEMMA OtherOnDisk ==
  ASSUME NEW c \in Seq(Blocks), NEW d \in Contents, PairList(c, d, END),
         NEW b \in Poolable, ~Occurs(c, d, b),
         NEW e, NEW g, Wrote(d, e, b, g)
  PROVE  /\ e \in Contents /\ PairList(c, e, END)
         /\ \A x : Occurs(c, e, x) <=> Occurs(c, d, x)
<1>1. e \in Contents /\ Same(d, e, Blocks \ {b})
  BY Zenon DEF Wrote
<1>2. ASSUME NEW j \in 1 .. Depth(c) PROVE c[j] \in Blocks \ {b}
  <2>1. CASE j = 1
    BY <2>1, Carriers, Area
  <2>2. CASE j # 1
    <3>1. j \in 2 .. Depth(c)
      BY <2>2, Carriers
    <3>2. /\ j - 1 \in 1 .. Depth(c) /\ c[j] = Item(d, c[j - 1], 1)
          /\ 1 \in 1 .. Size(d, c[j - 1]) /\ c[j] \in Blocks
      BY <3>1, Carriers
    <3>3. Occurs(c, d, c[j])
      BY <3>2 DEF Occurs
    <3>4. QED BY <3>2, <3>3
  <2>3. QED BY <2>1, <2>2
<1>3. Same(d, e, {c[j] : j \in 1 .. Depth(c)})
  BY <1>1, <1>2 DEF Same
<1>4. QED BY <1>1, <1>3, OthersKeepList

\* How the blocks on offer change when the occurrences do.
LEMMA OfferedMoves ==
  ASSUME NEW c \in Seq(Blocks), NEW d \in Contents, PairList(c, d, END),
         NEW s \in Seq(Blocks), NEW e \in Contents, PairList(s, e, END),
         NEW b \in Poolable
  PROVE  /\ (\A x : Occurs(s, e, x) <=> Occurs(c, d, x))
              => Offered(s, e) = Offered(c, d)
         /\ (\A x : Occurs(s, e, x) <=> Occurs(c, d, x) /\ x # b)
              => Offered(s, e) = Offered(c, d) \ {b}
         /\ (\A x : Occurs(s, e, x) <=> Occurs(c, d, x) \/ x = b)
              => Offered(s, e) = Offered(c, d) \cup {b}
         /\ Occurs(c, d, b) <=> b \in Offered(c, d)
<1>1. /\ \A x : x \in Offered(c, d) <=> x # END /\ Occurs(c, d, x)
      /\ \A x : x \in Offered(s, e) <=> x # END /\ Occurs(s, e, x)
  BY OfferedForm, Zenon DEF PairList
<1>2. b # END
  BY Area
<1>3. QED BY <1>1, <1>2

-----------------------------------------------------------------------------
(* The bookkeeping next to the list: who has which block, and the count in *)
(* the superblock.                                                         *)

\* L, h and l share out the data blocks; u counts h unless the device failed.
Accounted(L, h, l, u, br) ==
    /\ L \cup h \cup l = Poolable
    /\ L \cap h = {} /\ L \cap l = {} /\ h \cap l = {}
    /\ u \in Nat /\ u >= Cardinality(h)
    /\ ~br => u = Cardinality(h) /\ \E b : l = {b}

\* Sets of blocks can be counted.
LEMMA FiniteBlocks ==
  ASSUME NEW h \in SUBSET Poolable
  PROVE  IsFiniteSet(h) /\ Cardinality(h) \in Nat
<1>1. IsFiniteSet(Blocks)
  BY FS_Interval, StackAssumption, CountAssumption DEF Blocks, Limit
<1>2. h \subseteq Blocks
  BY Area
<1>3. QED BY <1>1, <1>2, FS_Subset, FS_CardinalityType

\* A block leaves the list for an owner, or is lost on the way, or stays.
Taken(b, o) ==
    /\ b \in Listed
    /\ Listed' = (IF o.landed THEN Listed \ {b} ELSE Listed)
    /\ held' = (IF o.ok THEN held \cup {b} ELSE held)
    /\ lost' = (IF ~o.ok /\ o.landed THEN lost \cup {b} ELSE lost)
    /\ used' = (IF o.ok THEN used + 1 ELSE used)
    /\ broken' <=> (broken \/ ~o.ok)

\* data_block_alloc keeps the accounts, whether the counter is saved or not.
LEMMA TakeAccounted ==
  ASSUME Accounted(Listed, held, lost, used, broken),
         NEW b, NEW o \in Outcomes, Taken(b, o)
  PROVE  Accounted(Listed', held', lost', used', broken')
<1>1. held \in SUBSET Poolable /\ b \in Poolable /\ b \notin held /\ b \notin lost
  BY DEF Accounted, Taken
<1>2. IsFiniteSet(held) /\ Cardinality(held) \in Nat
  BY <1>1, FiniteBlocks
<1>3. Cardinality(held \cup {b}) = Cardinality(held) + 1
  BY <1>1, <1>2, FS_AddElement
<1>4. CASE o.ok /\ o.landed
  <2>1. /\ Listed' = Listed \ {b} /\ held' = held \cup {b} /\ lost' = lost
        /\ used' = used + 1 /\ (broken' <=> broken)
    BY <1>4 DEF Taken
  <2>2. /\ used \in Nat /\ used + 1 >= Cardinality(held')
        /\ ~broken => used + 1 = Cardinality(held')
    BY <1>2, <1>3, <2>1 DEF Accounted
  <2>3. /\ Listed' \cup held' \cup lost' = Poolable
        /\ Listed' \cap held' = {} /\ Listed' \cap lost' = {} /\ held' \cap lost' = {}
    BY <1>1, <2>1 DEF Accounted
  <2>4. ~broken' => used' = Cardinality(held') /\ \E x : lost' = {x}
    <3>1. ASSUME ~broken' PROVE \E x : lost' = {x}
      <4>1. ~broken
        BY <2>1, <3>1
      <4>2. QED BY <2>1, <4>1, Zenon DEF Accounted
    <3>2. QED BY <2>1, <2>2, <3>1
  <2>5. used' \in Nat /\ used' >= Cardinality(held')
    BY <2>1, <2>2
  <2>6. QED BY <2>3, <2>4, <2>5, Zenon DEF Accounted
<1>5. CASE ~o.ok /\ o.landed
  <2>1. Listed' = Listed \ {b} /\ held' = held /\ lost' = lost \cup {b} /\ used' = used /\ broken'
    BY <1>5 DEF Taken
  <2>2. /\ Listed' \cup held' \cup lost' = Poolable
        /\ Listed' \cap held' = {} /\ Listed' \cap lost' = {} /\ held' \cap lost' = {}
    BY <1>1, <2>1 DEF Accounted
  <2>3. QED BY <2>1, <2>2 DEF Accounted
<1>6. CASE ~o.ok /\ ~o.landed
  BY <1>6 DEF Accounted, Taken
<1>7. QED BY <1>4, <1>5, <1>6 DEF Outcomes

\* A block comes back from its owner to the list, or is lost on the way.
Given(b, o) ==
    /\ b \in held
    /\ Listed' = (IF o.landed THEN Listed \cup {b} ELSE Listed)
    /\ held' = held \ {b}
    /\ lost' = (IF o.landed THEN lost ELSE lost \cup {b})
    /\ used' = (IF o.ok THEN used - 1 ELSE used)
    /\ broken' <=> (broken \/ ~o.ok)

\* So does data_block_free.
LEMMA GiveAccounted ==
  ASSUME Accounted(Listed, held, lost, used, broken),
         NEW b, NEW o \in Outcomes, Given(b, o)
  PROVE  Accounted(Listed', held', lost', used', broken')
<1>1. held \in SUBSET Poolable /\ b \in Poolable /\ b \notin Listed /\ b \notin lost
  BY DEF Accounted, Given
<1>2. IsFiniteSet(held) /\ Cardinality(held) \in Nat
  BY <1>1, FiniteBlocks
<1>3. Cardinality(held \ {b}) = Cardinality(held) - 1 /\ Cardinality(held \ {b}) \in Nat
  <2>1. Cardinality(held \ {b}) = Cardinality(held) - 1
    <3>1. b \in held
      BY DEF Given
    <3>2. QED BY <1>2, <3>1, FS_RemoveElement
  <2>2. held \ {b} \in SUBSET Poolable
    BY <1>1
  <2>3. QED BY <2>1, <2>2, FiniteBlocks
<1>4. used \in Nat /\ used >= Cardinality(held)
  BY DEF Accounted
<1>5. CASE o.ok /\ o.landed
  <2>1. /\ Listed' = Listed \cup {b} /\ held' = held \ {b} /\ lost' = lost
        /\ used' = used - 1 /\ (broken' <=> broken) /\ b \in held
    BY <1>5 DEF Given
  <2>2. /\ used' \in Nat /\ used' >= Cardinality(held')
        /\ ~broken => used' = Cardinality(held')
    <3>1. ~broken => used = Cardinality(held)
      BY DEF Accounted
    <3>2. QED BY <1>2, <1>3, <1>4, <2>1, <3>1
  <2>3. /\ Listed' \cup held' \cup lost' = Poolable
        /\ Listed' \cap held' = {} /\ Listed' \cap lost' = {} /\ held' \cap lost' = {}
    BY <1>1, <2>1 DEF Accounted
  <2>4. ~broken' => used' = Cardinality(held') /\ \E x : lost' = {x}
    <3>1. ASSUME ~broken' PROVE \E x : lost' = {x}
      <4>1. ~broken
        BY <2>1, <3>1
      <4>2. QED BY <2>1, <4>1, Zenon DEF Accounted
    <3>2. QED BY <2>1, <2>2, <3>1
  <2>5. QED BY <2>2, <2>3, <2>4, Zenon DEF Accounted
<1>6. CASE ~o.ok
  <2>1. used' = used /\ broken' /\ held' = held \ {b} /\ b \in held
    BY <1>6 DEF Given
  <2>2. used' \in Nat /\ used' >= Cardinality(held')
    BY <1>2, <1>3, <1>4, <2>1
  <2>3. /\ Listed' \cup held' \cup lost' = Poolable
        /\ Listed' \cap held' = {} /\ Listed' \cap lost' = {} /\ held' \cap lost' = {}
    BY <1>1 DEF Accounted, Given
  <2>4. QED BY <2>1, <2>2, <2>3 DEF Accounted
<1>7. QED BY <1>5, <1>6 DEF Outcomes

-----------------------------------------------------------------------------
(* The inductive invariant.                                                *)

\* data_blocks_init before its first group, and between two groups.
Fresh == chain = << >> /\ cursor = Stack + 1 /\ next = Stack

Growing == /\ PairList(chain, disk, next) /\ next \in Poolable
           /\ Listed = (Stack + 1) .. (cursor - 1)

Formatting ==
    /\ held = {} /\ used = 0 /\ ~broken
    /\ cursor >= Stack + 1
    /\ cursor < Limit => lost = {} /\ (Fresh \/ Growing)

\* The list is complete: the last group is written, or the file system serves.
Complete == /\ PairList(chain, disk, END)
            /\ Accounted(Listed, held, lost, used, broken)

IInv == /\ TypeOK
        /\ phase = "format" => Formatting
        /\ (phase = "ready" \/ (phase = "format" /\ cursor >= Limit)) => Complete

-----------------------------------------------------------------------------
(* data_blocks_init establishes it.                                        *)

\* The group one iteration writes: its size and its entries, all of them from
\* the cursor on, the bottom one replaced by the end mark in the last group.
LEMMA NewGroupForm ==
  ASSUME cursor \in Nat, cursor >= Stack + 1, cursor < Limit
  PROVE  /\ GroupTop \in 1 .. MaxGroup
         /\ cursor + GroupTop <= Limit
         /\ IsEnd <=> cursor + MaxGroup >= Limit
         /\ IsEnd => cursor + GroupTop = Limit
         /\ ~IsEnd => GroupTop = MaxGroup
         /\ NewGroup \in Seq(Nat) /\ Len(NewGroup) = GroupTop
         /\ NewGroup[1] = IF IsEnd THEN END ELSE cursor
         /\ \A i \in 1 .. GroupTop : i # 1 => NewGroup[i] = cursor + i - 1
<1>1. /\ GroupTop \in 1 .. MaxGroup
      /\ cursor + GroupTop <= Limit
      /\ IsEnd <=> cursor + MaxGroup >= Limit
      /\ IsEnd => cursor + GroupTop = Limit
      /\ ~IsEnd => GroupTop = MaxGroup
  BY GroupAssumption, Area DEF GroupTop, IsEnd
<1>2. NewGroup \in [1 .. GroupTop -> Nat]
  BY <1>1 DEF NewGroup, END
<1>3. NewGroup \in Seq(Nat) /\ Len(NewGroup) = GroupTop
  BY <1>1, <1>2
<1>4. /\ NewGroup[1] = IF IsEnd THEN END ELSE cursor
      /\ \A i \in 1 .. GroupTop : i # 1 => NewGroup[i] = cursor + i - 1
  BY <1>1 DEF NewGroup
<1>5. QED BY <1>1, <1>3, <1>4

\* A list of one group: what the first iteration leaves.
LEMMA FirstGroup ==
  ASSUME NEW e, NEW m \in 1 .. MaxGroup, Size(e, Stack) = m,
         \A i \in 1 .. m : i = 1 \/ Item(e, Stack, i) \in Poolable,
         \A i, l \in 1 .. m : Item(e, Stack, i) = Item(e, Stack, l) => i = l
  PROVE  /\ PairList(<<Stack>>, e, Item(e, Stack, 1))
         /\ \A x : Occurs(<<Stack>>, e, x) <=> \E i \in 1 .. m : x = Item(e, Stack, i)
<1> DEFINE s == <<Stack>>
<1>1. Depth(s) = 1 /\ s[1] = Stack
  BY DEF Depth
<1> HIDE DEF s
<1>2. \A j \in 1 .. Depth(s) : j = 1 /\ j = Depth(s) /\ s[j] = Stack /\ Size(e, s[j]) = m
  BY <1>1
<1>3. 1 \in 1 .. Depth(s)
  BY <1>1
<1>4. Sizes(s, e)
  BY <1>2 DEF Sizes
<1>5. Bottoms(s, e, Item(e, Stack, 1))
  BY <1>2 DEF Bottoms
<1>6. Entries(s, e)
  BY <1>2 DEF Entries
<1>7. Distinct(s, e)
  BY <1>2 DEF Distinct
<1>8. \A x : Occurs(s, e, x) <=> \E i \in 1 .. m : x = Item(e, Stack, i)
  BY <1>2, <1>3 DEF Occurs
<1>9. QED BY <1>1, <1>4, <1>5, <1>6, <1>7, <1>8 DEF PairList, s

\* A later group, appended to a list that promised its carrier.
LEMMA NextGroup ==
  ASSUME TypeOK, cursor >= Stack + 1, cursor < Limit, Growing,
         NEW e, Wrote(disk, e, next, NewGroup)
  PROVE  /\ PairList(Append(chain, next), e, NewGroup[1])
         /\ \A x : Occurs(Append(chain, next), e, x) <=>
                     Occurs(chain, disk, x) \/ \E i \in 1 .. GroupTop : x = NewGroup[i]
<1> DEFINE s == Append(chain, next)
           g == NewGroup
           m == GroupTop
<1>1. /\ chain \in Seq(Blocks) /\ disk \in Contents /\ next \in Blocks /\ next \in Poolable
      /\ cursor \in Nat /\ PairList(chain, disk, next)
  BY Area DEF TypeOK, Growing, Contents
<1>2. /\ s \in Seq(Blocks) /\ Depth(s) = Depth(chain) + 1 /\ s[Depth(s)] = next
      /\ \A j \in 1 .. Depth(chain) : s[j] = chain[j]
  BY <1>1 DEF Depth
<1>3. /\ m \in 1 .. MaxGroup /\ Len(g) = m
      /\ g[1] = IF IsEnd THEN END ELSE cursor
      /\ \A i \in 1 .. m : i # 1 => g[i] = cursor + i - 1
      /\ cursor + m <= Limit
  BY <1>1, NewGroupForm, Zenon
<1>4. \A i : Item(e, next, i) = g[i]
  BY Zenon DEF Wrote
<1>5. Same(disk, e, Blocks \ {next}) /\ Size(e, next) = m
  BY <1>3, Zenon DEF Wrote
<1> HIDE DEF s, g, m
<1>6. \A i \in 1 .. m : g[i] = END \/ (g[i] \in Nat /\ g[i] >= cursor)
  BY <1>1, <1>3
<1>7. \A i \in 1 .. m : i = 1 \/ g[i] \in Poolable
  BY <1>1, <1>3, Area DEF Poolable, Blocks
<1>8. \A i, l \in 1 .. m : g[i] = g[l] => i = l
  BY <1>1, <1>3, GroupAssumption, StackAssumption DEF END
<1>9. ASSUME NEW x, Occurs(chain, disk, x) PROVE x # END /\ x \in Nat /\ x < cursor
  <2>1. \A y : y \in Listed <=> y # END /\ Occurs(chain, disk, y)
    BY <1>1, OfferedForm, Zenon DEF PairList, Listed
  <2>2. x # END
    <3>1. PICK j \in 1 .. Depth(chain) :
             \E i \in 1 .. Size(disk, chain[j]) : x = Item(disk, chain[j], i)
      BY <1>9, Zenon DEF Occurs
    <3>2. PICK i \in 1 .. Size(disk, chain[j]) : x = Item(disk, chain[j], i)
      BY <3>1
    <3>3. x \in Poolable
      <4>1. CASE j = Depth(chain) /\ i = 1
        BY <1>1, <3>2, <4>1 DEF PairList, Bottoms
      <4>2. CASE ~(j = Depth(chain) /\ i = 1)
        BY <1>1, <3>2, <4>2 DEF PairList, Entries
      <4>3. QED BY <4>1, <4>2
    <3>4. QED BY <3>3, Area
  <2>3. x \in Listed
    BY <1>9, <2>1, <2>2
  <2>4. QED BY <1>1, <2>2, <2>3, StackAssumption DEF Growing
<1>10. \A i \in 1 .. m : ~Occurs(chain, disk, Item(e, next, i))
  <2>1. ASSUME NEW i \in 1 .. m PROVE ~Occurs(chain, disk, g[i])
    BY <1>1, <1>6, <1>9
  <2>2. QED BY <1>4, <2>1
<1>11. Appended(chain, disk, s, e, next, m)
  <2>1. /\ \A i \in 1 .. m : i = 1 \/ Item(e, next, i) \in Poolable
        /\ \A i, l \in 1 .. m : Item(e, next, i) = Item(e, next, l) => i = l
    BY <1>4, <1>7, <1>8
  <2>2. m \in 1 .. MaxGroup
    BY <1>3
  <2>3. QED BY <1>2, <1>5, <1>10, <2>1, <2>2, Zenon DEF Appended
<1>12. /\ PairList(s, e, Item(e, next, 1))
       /\ \A x : Occurs(s, e, x) <=>
                   Occurs(chain, disk, x) \/ \E i \in 1 .. m : x = Item(e, next, i)
  BY <1>1, <1>2, <1>11, AppendKeepsList
<1>13. QED BY <1>4, <1>12, Zenon DEF s, g, m

\* The numbers the new group adds to the list.
LEMMA NewGroupEntries ==
  ASSUME cursor \in Nat, cursor >= Stack + 1, cursor < Limit
  PROVE  \A x : (x # END /\ \E i \in 1 .. GroupTop : x = NewGroup[i]) <=>
                  /\ x \in cursor .. (cursor + GroupTop - 1)
                  /\ ~(IsEnd /\ x = cursor)
<1> DEFINE g == NewGroup
           m == GroupTop
<1>1. /\ m \in 1 .. MaxGroup
      /\ g[1] = IF IsEnd THEN END ELSE cursor
      /\ \A i \in 1 .. m : i # 1 => g[i] = cursor + i - 1
  BY NewGroupForm, Zenon
<1> HIDE DEF g, m
<1>2. ASSUME NEW i \in 1 .. m, g[i] # END
      PROVE  g[i] \in cursor .. (cursor + m - 1) /\ ~(IsEnd /\ g[i] = cursor)
  <2>1. CASE i = 1
    <3>1. ~IsEnd /\ g[1] = cursor
      BY <1>1, <1>2, <2>1
    <3>2. cursor \in cursor .. (cursor + m - 1)
      BY <1>1, GroupAssumption
    <3>3. QED BY <2>1, <3>1, <3>2
  <2>2. CASE i # 1
    <3>1. g[i] = cursor + i - 1
      BY <1>1, <2>2
    <3>2. QED BY <1>1, <2>2, <3>1, GroupAssumption
  <2>3. QED BY <2>1, <2>2
<1>3. ASSUME NEW x \in cursor .. (cursor + m - 1), ~(IsEnd /\ x = cursor)
      PROVE  x # END /\ \E i \in 1 .. m : x = g[i]
  <2>1. x \in Nat /\ x # 0
    BY <1>1, GroupAssumption, StackAssumption
  <2>2. CASE x = cursor
    <3>1. 1 \in 1 .. m /\ x = g[1]
      BY <1>1, <1>3, <2>2, GroupAssumption
    <3>2. QED BY <2>1, <3>1 DEF END
  <2>3. CASE x # cursor
    <3>1. x - cursor + 1 \in 1 .. m /\ x - cursor + 1 # 1
      BY <1>1, <2>1, <2>3, GroupAssumption
    <3>2. x = g[x - cursor + 1]
      <4>1. g[x - cursor + 1] = cursor + (x - cursor + 1) - 1
        BY <1>1, <3>1
      <4>2. QED BY <2>1, <4>1
    <3>3. QED BY <2>1, <3>1, <3>2 DEF END
  <2>4. QED BY <2>2, <2>3
<1>4. QED BY <1>2, <1>3, Zenon DEF g, m

\* What one iteration of data_blocks_init makes of the list.
LEMMA FormatOnDisk ==
  ASSUME TypeOK, Formatting, cursor < Limit,
         NEW e, Wrote(disk, e, next, NewGroup)
  PROVE  /\ Append(chain, next) \in Seq(Blocks)
         /\ PairList(Append(chain, next), e, NewGroup[1])
         /\ Offered(Append(chain, next), e) =
               ((Stack + 1) .. (cursor + GroupTop - 1)) \ (IF IsEnd THEN {cursor} ELSE {})
<1> DEFINE s == Append(chain, next)
           old == (Stack + 1) .. (cursor - 1)
<1>1. /\ cursor \in Nat /\ cursor >= Stack + 1 /\ lost = {} /\ (Fresh \/ Growing)
      /\ chain \in Seq(Blocks) /\ disk \in Contents /\ e \in Contents
  BY Zenon DEF TypeOK, Formatting, Contents, Wrote
<1>2. /\ GroupTop \in 1 .. MaxGroup /\ cursor + GroupTop <= Limit
      /\ Len(NewGroup) = GroupTop
      /\ NewGroup[1] = IF IsEnd THEN END ELSE cursor
      /\ \A i \in 1 .. GroupTop : i # 1 => NewGroup[i] = cursor + i - 1
  BY <1>1, NewGroupForm, Zenon
<1>3. /\ s \in Seq(Blocks) /\ PairList(s, e, NewGroup[1])
      /\ \A x : x # END => (Occurs(s, e, x) <=>
                   x \in old \/ \E i \in 1 .. GroupTop : x = NewGroup[i])
  <2>1. CASE Fresh
    <3>1. s = <<Stack>> /\ next = Stack /\ <<Stack>> \in Seq(Blocks)
      BY <2>1, Area DEF Fresh
    <3>2. /\ Size(e, Stack) = GroupTop /\ \A i : Item(e, Stack, i) = NewGroup[i]
      BY <1>2, <3>1, Zenon DEF Wrote
    <3>3. /\ \A i \in 1 .. GroupTop : i = 1 \/ Item(e, Stack, i) \in Poolable
          /\ \A i, l \in 1 .. GroupTop : Item(e, Stack, i) = Item(e, Stack, l) => i = l
      <4>1. /\ \A i \in 1 .. GroupTop : i = 1 \/ NewGroup[i] \in Poolable
            /\ \A i, l \in 1 .. GroupTop : NewGroup[i] = NewGroup[l] => i = l
        BY <1>1, <1>2, Area, GroupAssumption, StackAssumption, SMTT(60) DEF Poolable, Blocks, END
      <4>2. QED BY <3>2, <4>1
    <3>4. /\ PairList(<<Stack>>, e, Item(e, Stack, 1))
          /\ \A x : Occurs(<<Stack>>, e, x) <=>
                      \E i \in 1 .. GroupTop : x = Item(e, Stack, i)
      BY <1>2, <3>2, <3>3, FirstGroup
    <3>5. old = {}
      BY <2>1, StackAssumption DEF Fresh
    <3>6. QED BY <3>1, <3>2, <3>4, <3>5
  <2>2. CASE Growing
    <3>1. s \in Seq(Blocks)
      BY <1>1, <2>2, Area DEF Growing
    <3>2. /\ PairList(s, e, NewGroup[1])
          /\ \A x : Occurs(s, e, x) <=>
                     Occurs(chain, disk, x) \/ \E i \in 1 .. GroupTop : x = NewGroup[i]
      BY <1>1, <2>2, NextGroup
    <3>3. \A x : x \in old <=> x # END /\ Occurs(chain, disk, x)
      BY <1>1, <2>2, OfferedForm, Zenon DEF Growing, PairList, Listed
    <3>4. QED BY <3>1, <3>2, <3>3, Zenon
  <2>3. QED BY <1>1, <2>1, <2>2
<1>4. \A x : x \in Offered(s, e) <=> x # END /\ Occurs(s, e, x)
  BY <1>1, <1>3, OfferedForm, Zenon DEF PairList
<1>5. \A x : (x # END /\ \E i \in 1 .. GroupTop : x = NewGroup[i]) <=>
               /\ x \in cursor .. (cursor + GroupTop - 1)
               /\ ~(IsEnd /\ x = cursor)
  BY <1>1, NewGroupEntries
<1>6. \A x : x \in Offered(s, e) <=>
               \/ x \in old
               \/ x \in cursor .. (cursor + GroupTop - 1) /\ ~(IsEnd /\ x = cursor)
  <2>1. \A x : x \in old => x # END
    BY <1>1, StackAssumption DEF END
  <2>2. QED BY <1>3, <1>4, <1>5, <2>1, Zenon
<1> HIDE DEF s
<1>7. \A x : x \in Offered(s, e) <=>
               x \in ((Stack + 1) .. (cursor + GroupTop - 1)) \ (IF IsEnd THEN {cursor} ELSE {})
  BY <1>1, <1>2, <1>6, GroupAssumption, StackAssumption
<1>8. QED BY <1>3, <1>7 DEF s

\* The invariant holds before the first group is written.
LEMMA InitInv == ASSUME Count >= 2, Init PROVE IInv
<1>1. TypeOK
  <2>1. disk \in [Blocks -> Seq(Nat)]
    BY DEF Init, NotGroup
  <2>2. chain \in Seq(Blocks)
    BY DEF Init
  <2>3. /\ phase = "format" /\ next \in Nat /\ cursor \in Nat /\ used \in Nat
        /\ held = {} /\ lost = {}
    BY StackAssumption DEF Init
  <2>4. broken \in BOOLEAN
    BY Zenon DEF Init
  <2>5. QED BY <2>1, <2>2, <2>3, <2>4 DEF TypeOK
<1>2. Formatting /\ cursor < Limit
  BY StackAssumption, CountAssumption DEF Init, Formatting, Fresh, Limit
<1>3. QED BY <1>1, <1>2, StackAssumption, CountAssumption DEF Init, IInv, Limit

\* One iteration of the loop of data_blocks_init: the list grows, or is
\* complete; a failed write ends the format.
LEMMA FormatGroupInv ==
  ASSUME IInv, NEW o \in Outcomes, FormatGroup(o) PROVE IInv'
<1>1. /\ TypeOK /\ Formatting /\ cursor \in Nat /\ cursor >= Stack + 1 /\ cursor < Limit
      /\ held = {} /\ used = 0 /\ ~broken /\ next \in Blocks /\ disk \in Contents
  <2>1. TypeOK /\ Formatting /\ cursor < Limit
    BY DEF IInv, FormatGroup
  <2>2. next \in Blocks
    BY <2>1, Area DEF Formatting, Fresh, Growing
  <2>3. QED BY <2>1, <2>2 DEF Formatting, TypeOK, Contents
<1>2. /\ GroupTop \in 1 .. MaxGroup /\ cursor + GroupTop <= Limit
      /\ (IsEnd <=> cursor + MaxGroup >= Limit)
      /\ (IsEnd => cursor + GroupTop = Limit)
      /\ (~IsEnd => GroupTop = MaxGroup)
      /\ NewGroup \in Seq(Nat)
      /\ NewGroup[1] = IF IsEnd THEN END ELSE cursor
  BY <1>1, NewGroupForm, Zenon
<1> DEFINE e == [disk EXCEPT ![next] = NewGroup]
<1>3. Wrote(disk, e, next, NewGroup)
  BY <1>1, <1>2, WriteOne
<1>4. e \in Contents
  BY <1>3, Zenon DEF Wrote
<1> HIDE DEF e
<1>5. disk' = (IF o.landed THEN e ELSE disk)
  BY Zenon DEF FormatGroup, Written, e
<1>6. CASE o.ok
  <2>1. /\ disk' = e /\ next' = NewGroup[1] /\ cursor' = cursor + MaxGroup
        /\ chain' = Append(chain, next)
        /\ lost' = (IF IsEnd THEN {cursor} ELSE {})
        /\ phase' = phase /\ phase = "format" /\ used' = 0 /\ held' = {}
        /\ broken' = FALSE
    BY <1>1, <1>5, <1>6 DEF FormatGroup, Outcomes, TypeOK
  <2>2. /\ chain' \in Seq(Blocks) /\ PairList(chain', disk', next')
        /\ Listed' = ((Stack + 1) .. (cursor + GroupTop - 1))
                        \ (IF IsEnd THEN {cursor} ELSE {})
    BY <1>1, <1>3, <2>1, FormatOnDisk DEF Listed
  <2>3. cursor \in Poolable
    BY <1>1, Area DEF Poolable, Blocks
  <2>4. TypeOK'
    <3>1. next' \in Nat /\ cursor' \in Nat /\ lost' \in SUBSET Poolable
      BY <1>1, <1>2, <2>1, <2>3, GroupAssumption DEF END
    <3>2. QED BY <1>4, <2>1, <2>2, <3>1 DEF TypeOK, Contents
  <2>5. CASE IsEnd
    <3>1. cursor' >= Limit /\ cursor' >= Stack + 1 /\ next' = END /\ lost' = {cursor}
      BY <1>1, <1>2, <2>1, <2>5, GroupAssumption, Area, StackAssumption
    <3>2. Listed' = Poolable \ {cursor}
      BY <1>1, <1>2, <2>2, <2>5, Area, StackAssumption DEF Poolable, Blocks
    <3>3. Accounted(Listed', held', lost', used', broken')
      <4>1. Cardinality({}) = 0
        BY FS_EmptySet
      <4>2. used' \in Nat /\ used' >= Cardinality(held') /\ used' = Cardinality(held')
        BY <2>1, <4>1
      <4>3. \E b : lost' = {b}
        BY <3>1, Zenon
      <4>4. /\ Listed' \cup held' \cup lost' = Poolable
            /\ Listed' \cap held' = {} /\ Listed' \cap lost' = {} /\ held' \cap lost' = {}
        BY <2>1, <2>3, <3>1, <3>2
      <4>5. QED BY <4>2, <4>3, <4>4, Zenon DEF Accounted
    <3>4. Complete'
      BY <2>2, <3>1, <3>3 DEF Complete
    <3>5. Formatting'
      BY <1>1, <2>1, <3>1, Area, GroupAssumption, StackAssumption DEF Formatting
    <3>6. QED BY <2>4, <3>4, <3>5 DEF IInv
  <2>6. CASE ~IsEnd
    <3>1. /\ cursor' < Limit /\ cursor' >= Stack + 1 /\ next' = cursor /\ lost' = {}
          /\ Listed' = (Stack + 1) .. (cursor' - 1)
      BY <1>1, <1>2, <2>1, <2>2, <2>6, GroupAssumption, Area, StackAssumption
    <3>2. Growing'
      BY <2>2, <2>3, <3>1 DEF Growing
    <3>3. Formatting'
      BY <2>1, <3>1, <3>2 DEF Formatting
    <3>4. ~(cursor' >= Limit') /\ phase' = "format"
      BY <2>1, <2>4, <3>1, Area DEF TypeOK, Limit
    <3>5. QED BY <2>4, <3>3, <3>4 DEF IInv
  <2>7. QED BY <2>5, <2>6
<1>7. CASE ~o.ok
  <2>1. phase' = "failed" /\ UNCHANGED <<next, cursor, chain, lost, used, held>>
    BY <1>7 DEF FormatGroup
  <2>2. broken' = TRUE /\ disk' \in Contents
    BY <1>1, <1>4, <1>5, <1>7 DEF FormatGroup
  <2>3. TypeOK'
    BY <1>1, <2>1, <2>2 DEF TypeOK, Contents
  <2>4. QED BY <2>1, <2>3 DEF IInv
<1>8. QED BY <1>6, <1>7

\* A finished format leaves the list that the calls expect.
LEMMA FormatDoneInv == ASSUME IInv, FormatDone PROVE IInv'
<1>1. Complete /\ TypeOK
  BY DEF IInv, FormatDone
<1>2. Complete' /\ TypeOK'
  BY <1>1 DEF FormatDone, Complete, TypeOK, Listed
<1>3. QED BY <1>2 DEF FormatDone, IInv

\* In service: the list is complete and the disk typed.
LEMMA Serving ==
  ASSUME IInv, phase = "ready"
  PROVE  /\ TypeOK /\ Complete
         /\ chain \in Seq(Blocks) /\ disk \in Contents /\ PairList(chain, disk, END)
         /\ Accounted(Listed, held, lost, used, broken)
         /\ held \subseteq Poolable /\ Listed \subseteq Poolable /\ lost \subseteq Poolable
         /\ Size(disk, Stack) = Len(Top) /\ \A i : Item(disk, Stack, i) = Top[i]
         /\ Top \in Seq(Nat) /\ Len(Top) \in 1 .. MaxGroup
<1>1. /\ TypeOK /\ Complete /\ chain \in Seq(Blocks) /\ disk \in Contents
      /\ PairList(chain, disk, END) /\ Accounted(Listed, held, lost, used, broken)
  BY DEF IInv, Complete, TypeOK, Contents
<1>2. Top \in Seq(Nat) /\ Len(Top) \in 1 .. MaxGroup
  BY <1>1, TopType DEF Top
<1>3. held \subseteq Poolable /\ Listed \subseteq Poolable /\ lost \subseteq Poolable
  BY <1>1 DEF Accounted
<1>4. Size(disk, Stack) = Len(Top) /\ \A i : Item(disk, Stack, i) = Top[i]
  BY Zenon DEF Size, Item, Top
<1>5. QED BY <1>1, <1>2, <1>3, <1>4

\* Back to the invariant from its parts, for the steps of a serving device.
LEMMA ServingNext ==
  ASSUME phase' = "ready", next' \in Nat, cursor' \in Nat, disk' \in Contents,
         broken' \in BOOLEAN, chain' \in Seq(Blocks), PairList(chain', disk', END),
         Accounted(Listed', held', lost', used', broken')
  PROVE  IInv'
<1>1. held' \subseteq Poolable /\ lost' \subseteq Poolable /\ used' \in Nat
  BY DEF Accounted
<1>2. TypeOK'
  BY <1>1 DEF TypeOK, Contents
<1>3. Complete'
  BY DEF Complete
<1>4. QED BY <1>2, <1>3 DEF IInv

-----------------------------------------------------------------------------
(* data_block_alloc and data_block_free preserve it.  Each lemma also says *)
(* what the step does to the blocks on offer.                              *)

\* data_block_alloc from the top group.
LEMMA AllocPopStep ==
  ASSUME IInv, NEW o \in Outcomes, AllocPop(o)
  PROVE  IInv' /\ Taken(Top[Len(Top)], o)
<1> DEFINE b == Top[Len(Top)]
<1>1. /\ TypeOK /\ chain \in Seq(Blocks) /\ disk \in Contents /\ PairList(chain, disk, END)
      /\ Accounted(Listed, held, lost, used, broken)
      /\ Size(disk, Stack) # 1 /\ b = Item(disk, Stack, Size(disk, Stack))
  BY Serving DEF AllocPop
<1>2. /\ PopDisk(disk) \in Contents /\ PairList(chain, PopDisk(disk), END)
      /\ b \in Poolable /\ Occurs(chain, disk, b)
      /\ \A x : Occurs(chain, PopDisk(disk), x) <=> Occurs(chain, disk, x) /\ x # b
  BY <1>1, PopOnDisk
<1>3. b \in Listed /\ Offered(chain, PopDisk(disk)) = Listed \ {b}
  BY <1>1, <1>2, OfferedMoves DEF Listed
<1>4. /\ disk' = (IF o.landed THEN PopDisk(disk) ELSE disk)
      /\ held' = (IF o.ok THEN held \cup {b} ELSE held)
      /\ lost' = (IF ~o.ok /\ o.landed THEN lost \cup {b} ELSE lost)
      /\ used' = (IF o.ok THEN used + 1 ELSE used)
      /\ broken' = (broken \/ ~o.ok) /\ (broken' <=> (broken \/ ~o.ok))
      /\ phase' = "ready" /\ UNCHANGED <<next, cursor, chain>>
  BY Zenon DEF AllocPop, Written, PopDisk, Top
<1> HIDE DEF b
<1>5. Listed' = (IF o.landed THEN Listed \ {b} ELSE Listed)
  BY <1>3, <1>4 DEF Listed
<1>6. disk' \in Contents /\ PairList(chain', disk', END)
  BY <1>1, <1>2, <1>4
<1>7. Taken(b, o) /\ Accounted(Listed', held', lost', used', broken')
  <2>1. Taken(b, o)
    BY <1>3, <1>4, <1>5, Zenon DEF Taken
  <2>2. QED BY <1>1, <2>1, TakeAccounted
<1>8. next' \in Nat /\ cursor' \in Nat /\ broken' \in BOOLEAN /\ chain' \in Seq(Blocks)
  BY <1>1, <1>4 DEF TypeOK
<1>9. IInv'
  BY <1>4, <1>6, <1>7, <1>8, ServingNext
<1>10. QED BY <1>7, <1>9 DEF b

\* data_block_alloc of the last block of a group.
LEMMA AllocNextGroupStep ==
  ASSUME IInv, NEW o \in Outcomes, AllocNextGroup(o)
  PROVE  IInv' /\ Taken(Top[1], o)
<1> DEFINE b == Top[1]
<1>1. /\ TypeOK /\ chain \in Seq(Blocks) /\ disk \in Contents /\ PairList(chain, disk, END)
      /\ Accounted(Listed, held, lost, used, broken)
      /\ Size(disk, Stack) = 1 /\ b = Item(disk, Stack, 1) /\ b # END
  BY Serving DEF AllocNextGroup
<1>2. /\ AdvanceDisk(disk) \in Contents /\ AdvanceChain(chain) \in Seq(Blocks)
      /\ PairList(AdvanceChain(chain), AdvanceDisk(disk), END)
      /\ b \in Poolable /\ Occurs(chain, disk, b)
      /\ \A x : Occurs(AdvanceChain(chain), AdvanceDisk(disk), x) <=>
                  Occurs(chain, disk, x) /\ x # b
  BY <1>1, AdvanceOnDisk
<1>3. b \in Listed /\ Offered(AdvanceChain(chain), AdvanceDisk(disk)) = Listed \ {b}
  BY <1>1, <1>2, OfferedMoves DEF Listed
<1>4. /\ disk' = (IF o.landed THEN AdvanceDisk(disk) ELSE disk)
      /\ chain' = (IF o.landed THEN AdvanceChain(chain) ELSE chain)
      /\ held' = (IF o.ok THEN held \cup {b} ELSE held)
      /\ lost' = (IF ~o.ok /\ o.landed THEN lost \cup {b} ELSE lost)
      /\ used' = (IF o.ok THEN used + 1 ELSE used)
      /\ broken' = (broken \/ ~o.ok) /\ (broken' <=> (broken \/ ~o.ok))
      /\ phase' = "ready" /\ UNCHANGED <<next, cursor>>
  BY Zenon DEF AllocNextGroup, Written, AdvanceDisk, AdvanceChain, Top
<1> HIDE DEF b
<1>5. Listed' = (IF o.landed THEN Listed \ {b} ELSE Listed)
  BY <1>3, <1>4 DEF Listed
<1>6. disk' \in Contents /\ chain' \in Seq(Blocks) /\ PairList(chain', disk', END)
  BY <1>1, <1>2, <1>4
<1>7. Taken(b, o) /\ Accounted(Listed', held', lost', used', broken')
  <2>1. Taken(b, o)
    BY <1>3, <1>4, <1>5, Zenon DEF Taken
  <2>2. QED BY <1>1, <2>1, TakeAccounted
<1>8. next' \in Nat /\ cursor' \in Nat /\ broken' \in BOOLEAN
  BY <1>1, <1>4 DEF TypeOK
<1>9. IInv'
  BY <1>4, <1>6, <1>7, <1>8, ServingNext
<1>10. QED BY <1>7, <1>9 DEF b

\* data_block_free onto the top group.
LEMMA FreePushStep ==
  ASSUME IInv, NEW b \in held, NEW o \in Outcomes, FreePush(b, o)
  PROVE  IInv' /\ Given(b, o)
<1>1. /\ TypeOK /\ chain \in Seq(Blocks) /\ disk \in Contents /\ PairList(chain, disk, END)
      /\ Accounted(Listed, held, lost, used, broken)
      /\ Size(disk, Stack) < MaxGroup /\ b \in Poolable
  BY Serving DEF FreePush
<1>2. ~Occurs(chain, disk, b)
  <2>1. b \notin Listed
    BY <1>1 DEF Accounted
  <2>2. QED BY <1>1, <2>1, OfferedMoves DEF Listed
<1>3. /\ PushDisk(disk, b) \in Contents /\ PairList(chain, PushDisk(disk, b), END)
      /\ \A x : Occurs(chain, PushDisk(disk, b), x) <=> Occurs(chain, disk, x) \/ x = b
  BY <1>1, <1>2, PushOnDisk
<1>4. Offered(chain, PushDisk(disk, b)) = Listed \cup {b}
  BY <1>1, <1>3, OfferedMoves DEF Listed
<1>5. /\ disk' = (IF o.landed THEN PushDisk(disk, b) ELSE disk)
      /\ held' = held \ {b}
      /\ lost' = (IF o.landed THEN lost ELSE lost \cup {b})
      /\ used' = (IF o.ok THEN used - 1 ELSE used)
      /\ broken' = (broken \/ ~o.ok) /\ (broken' <=> (broken \/ ~o.ok))
      /\ phase' = "ready" /\ UNCHANGED <<next, cursor, chain>>
  BY Zenon DEF FreePush, Written, PushDisk, Top
<1>6. Listed' = (IF o.landed THEN Listed \cup {b} ELSE Listed)
  BY <1>4, <1>5 DEF Listed
<1>7. disk' \in Contents /\ PairList(chain', disk', END)
  BY <1>1, <1>3, <1>5
<1>8. Given(b, o) /\ Accounted(Listed', held', lost', used', broken')
  <2>1. Given(b, o)
    BY <1>5, <1>6, Zenon DEF Given
  <2>2. QED BY <1>1, <2>1, GiveAccounted
<1>9. next' \in Nat /\ cursor' \in Nat /\ broken' \in BOOLEAN /\ chain' \in Seq(Blocks)
  BY <1>1, <1>5 DEF TypeOK
<1>10. IInv'
  BY <1>5, <1>7, <1>8, <1>9, ServingNext
<1>11. QED BY <1>8, <1>10

\* data_block_free that begins a group.
LEMMA FreeNewGroupStep ==
  ASSUME IInv, NEW b \in held, NEW copied \in Outcomes, NEW o \in Outcomes,
         FreeNewGroup(b, copied, o)
  PROVE  IInv' /\ Given(b, o)
<1>1. /\ TypeOK /\ chain \in Seq(Blocks) /\ disk \in Contents /\ PairList(chain, disk, END)
      /\ Accounted(Listed, held, lost, used, broken)
      /\ b \in Poolable /\ b \in Blocks /\ Top \in Seq(Nat)
  BY Serving, Area DEF FreeNewGroup
<1>2. ~Occurs(chain, disk, b)
  <2>1. b \notin Listed
    BY <1>1 DEF Accounted
  <2>2. QED BY <1>1, <2>1, OfferedMoves DEF Listed
<1>3. /\ SplitDisk(disk, b) \in Contents /\ SplitChain(chain, b) \in Seq(Blocks)
      /\ PairList(SplitChain(chain, b), SplitDisk(disk, b), END)
      /\ \A x : Occurs(SplitChain(chain, b), SplitDisk(disk, b), x) <=>
                  Occurs(chain, disk, x) \/ x = b
  BY <1>1, <1>2, SplitOnDisk
<1>4. Offered(SplitChain(chain, b), SplitDisk(disk, b)) = Listed \cup {b}
  BY <1>1, <1>3, OfferedMoves DEF Listed
<1> DEFINE half == [disk EXCEPT ![b] = Top]
<1>5. Wrote(disk, half, b, Top)
  BY <1>1, WriteOne
<1> HIDE DEF half
<1>6. /\ half \in Contents /\ PairList(chain, half, END)
      /\ \A x : Occurs(chain, half, x) <=> Occurs(chain, disk, x)
  BY <1>1, <1>2, <1>5, OtherOnDisk
<1>7. Offered(chain, half) = Listed
  BY <1>1, <1>6, OfferedMoves DEF Listed
<1>8. /\ held' = held \ {b}
      /\ lost' = (IF o.landed THEN lost ELSE lost \cup {b})
      /\ used' = (IF o.ok THEN used - 1 ELSE used)
      /\ broken' = (broken \/ ~o.ok) /\ (broken' <=> (broken \/ ~o.ok))
      /\ chain' = (IF o.landed THEN SplitChain(chain, b) ELSE chain)
      /\ phase' = "ready" /\ UNCHANGED <<next, cursor>>
  BY Zenon DEF FreeNewGroup, SplitChain
<1>9. disk' = (IF o.landed THEN SplitDisk(disk, b) ELSE IF copied.landed THEN half ELSE disk)
  <2>1. o.landed => copied.landed
    BY DEF FreeNewGroup, Outcomes
  <2>2. disk' = Written(Written(disk, b, Top, copied), Stack, <<b>>, o)
    BY Zenon DEF FreeNewGroup
  <2>3. QED BY <2>1, <2>2, Zenon DEF Written, SplitDisk, half, Top
<1>10. Listed' = (IF o.landed THEN Listed \cup {b} ELSE Listed)
  BY <1>4, <1>7, <1>8, <1>9 DEF Listed
<1>11. disk' \in Contents /\ chain' \in Seq(Blocks) /\ PairList(chain', disk', END)
  BY <1>1, <1>3, <1>6, <1>8, <1>9
<1>12. Given(b, o) /\ Accounted(Listed', held', lost', used', broken')
  <2>1. Given(b, o)
    BY <1>8, <1>10, Zenon DEF Given
  <2>2. QED BY <1>1, <2>1, GiveAccounted
<1>13. next' \in Nat /\ cursor' \in Nat /\ broken' \in BOOLEAN
  BY <1>1, <1>8 DEF TypeOK
<1>14. IInv'
  BY <1>8, <1>11, <1>12, <1>13, ServingNext
<1>15. QED BY <1>12, <1>14

\* Writing to an owned block leaves the list alone.
LEMMA FileWriteStep ==
  ASSUME IInv, NEW b \in held, FileWrite(b)
  PROVE  IInv' /\ Listed' = Listed
<1>1. /\ TypeOK /\ chain \in Seq(Blocks) /\ disk \in Contents /\ PairList(chain, disk, END)
      /\ Accounted(Listed, held, lost, used, broken)
      /\ b \in Poolable /\ b \in Blocks /\ NotGroup \in Seq(Nat)
  BY Serving, Area DEF FileWrite, NotGroup
<1>2. ~Occurs(chain, disk, b)
  <2>1. b \notin Listed
    BY <1>1 DEF Accounted
  <2>2. QED BY <1>1, <2>1, OfferedMoves DEF Listed
<1>3. Wrote(disk, disk', b, NotGroup)
  BY <1>1, WriteOne DEF FileWrite
<1>4. /\ disk' \in Contents /\ PairList(chain, disk', END)
      /\ \A x : Occurs(chain, disk', x) <=> Occurs(chain, disk, x)
  BY <1>1, <1>2, <1>3, OtherOnDisk
<1>5. phase' = "ready" /\ UNCHANGED <<next, cursor, used, broken, held, lost, chain>>
  BY DEF FileWrite
<1>6. Listed' = Listed
  BY <1>1, <1>4, <1>5, OfferedMoves DEF Listed
<1>7. QED BY <1>1, <1>4, <1>5, <1>6, ServingNext DEF TypeOK

-----------------------------------------------------------------------------
(* The theorems.  Count >= 2: with no data block beside the stack block     *)
(* data_blocks_init writes no group at all.                                *)

\* Every step of data_blocks_init, data_block_alloc, data_block_free and of
\* the files' own writes preserves the inductive invariant.
LEMMA NextInv == ASSUME IInv, [Next]_vars PROVE IInv'
<1>1. CASE \E o \in Outcomes : FormatGroup(o)
  BY <1>1, FormatGroupInv
<1>2. CASE FormatDone
  BY <1>2, FormatDoneInv
<1>3. CASE Alloc
  BY <1>3, AllocPopStep, AllocNextGroupStep DEF Alloc
<1>4. CASE Free
  BY <1>4, FreePushStep, FreeNewGroupStep DEF Free
<1>5. CASE \E b \in held : FileWrite(b)
  BY <1>5, FileWriteStep
<1>6. CASE UNCHANGED vars
  <2>1. TypeOK' /\ (Formatting' <=> Formatting) /\ (Complete' <=> Complete)
    BY <1>6 DEF vars, IInv, TypeOK, Formatting, Fresh, Growing, Complete, Listed
  <2>2. phase' = phase /\ cursor' = cursor
    BY <1>6 DEF vars
  <2>3. QED BY <2>1, <2>2 DEF IInv
<1>7. QED BY <1>1, <1>2, <1>3, <1>4, <1>5, <1>6 DEF Next

\* The inductive invariant holds in every behaviour.
THEOREM Invariance == ASSUME Count >= 2 PROVE Spec => []IInv
<1>1. Init => IInv
  BY InitInv
<1>2. IInv /\ [Next]_vars => IInv'
  BY NextInv
<1>3. QED BY <1>1, <1>2, PTL DEF Spec

\* Type correctness.
THEOREM TypeCorrect == ASSUME Count >= 2 PROVE Spec => []TypeOK
<1>1. IInv => TypeOK
  BY DEF IInv
<1>2. QED BY <1>1, Invariance, PTL

\* In service the grouped list that data_block_alloc and data_block_free
\* rewrite in place is intact, whatever the sizes and whatever writes fail.
THEOREM ListStaysIntact == ASSUME Count >= 2 PROVE Spec => []ChainIntact
<1>1. IInv => ChainIntact
  <2>1. SUFFICES ASSUME IInv, phase = "ready" PROVE IntactList(chain, disk, END)
    BY DEF ChainIntact
  <2>2. QED BY <2>1, Serving, PairForm
<1>2. QED BY <1>1, Invariance, PTL

\* Hence the two assertions at the head of data_block_alloc never fail.
THEOREM AllocNeverAborts == ASSUME Count >= 2 PROVE Spec => [](phase = "ready" => Loadable)
<1>1. IInv => (phase = "ready" => Loadable)
  <2>1. SUFFICES ASSUME IInv, phase = "ready" PROVE Loadable
    OBVIOUS
  <2>2. QED BY <2>1, Serving, GroupAssumption DEF Loadable
<1>2. QED BY <1>1, Invariance, PTL

\* No data block is in two places, and none vanishes unaccounted.
THEOREM BlocksConserved == ASSUME Count >= 2 PROVE Spec => []Conserved
<1>1. IInv => Conserved
  BY Serving DEF Conserved, Accounted
<1>2. QED BY <1>1, Invariance, PTL

\* The superblock's count is the number of blocks the files own, or more after
\* a device error, never less: data_block_free cannot take it below zero.
THEOREM CountIsRight == ASSUME Count >= 2 PROVE Spec => []UsedCounted
<1>1. IInv => UsedCounted
  <2>1. SUFFICES ASSUME IInv, phase = "ready"
        PROVE  /\ used >= Cardinality(held)
               /\ ~broken => used = Cardinality(held) /\ Cardinality(lost) = 1
    BY DEF UsedCounted
  <2>2. Accounted(Listed, held, lost, used, broken)
    BY <2>1, Serving
  <2>3. ASSUME ~broken PROVE Cardinality(lost) = 1
    <3>1. PICK b : lost = {b}
      BY <2>2, <2>3, Zenon DEF Accounted
    <3>2. QED BY <3>1, FS_Singleton
  <2>4. QED BY <2>2, <2>3 DEF Accounted
<1>2. QED BY <1>1, Invariance, PTL

\* data_block_alloc says "full" only when nothing is on offer.
THEOREM RefusalIsHonest == ASSUME Count >= 2 PROVE Spec => []RefusalMeansEmpty
<1>1. IInv => RefusalMeansEmpty
  <2>1. SUFFICES ASSUME IInv, phase = "ready", Exhausted PROVE Listed = {}
    BY DEF RefusalMeansEmpty
  <2>2. /\ chain \in Seq(Blocks) /\ disk \in Contents /\ PairList(chain, disk, END)
        /\ Size(disk, Stack) = 1 /\ Item(disk, Stack, 1) = END
    BY <2>1, Serving DEF Exhausted
  <2>3. Depth(chain) = 1 /\ chain[1] = Stack
    <3>1. Depth(chain) \in Nat /\ 1 \in 1 .. Depth(chain) /\ chain[1] = Stack
      BY <2>2, Carriers
    <3>2. ASSUME Depth(chain) # 1 PROVE FALSE
      <4>1. 2 \in 2 .. Depth(chain) /\ 2 - 1 = 1
        BY <3>1, <3>2
      <4>2. chain[2] = Item(disk, chain[1], 1) /\ chain[2] \in Poolable
        BY <2>2, <4>1, Carriers
      <4>3. QED BY <2>2, <3>1, <4>2, Area
    <3>3. QED BY <3>1, <3>2
  <2>4. ASSUME NEW x \in Listed PROVE FALSE
    <3>1. x # END /\ Occurs(chain, disk, x)
      BY <2>2, <2>4, OfferedForm, Zenon DEF Listed, PairList
    <3>2. \A j \in 1 .. Depth(chain) : \A i \in 1 .. Size(disk, chain[j]) :
             Item(disk, chain[j], i) = END
      <4>1. ASSUME NEW j \in 1 .. Depth(chain), NEW i \in 1 .. Size(disk, chain[j])
            PROVE  Item(disk, chain[j], i) = END
        <5>1. j = 1
          BY <2>3
        <5>2. i = 1
          BY <2>2, <2>3, <5>1
        <5>3. QED BY <2>2, <2>3, <5>1, <5>2
      <4>2. QED BY <4>1
    <3>3. QED BY <3>1, <3>2 DEF Occurs
  <2>5. QED BY <2>4
<1>2. QED BY <1>1, Invariance, PTL

\* The grouped list implements the pool of blocks: every step is a transfer
\* of one block between the pool and one owner, or none at all, or happens
\* while the device reports an error.
LEMMA PoolInit == ASSUME Init PROVE Pool!Init
  BY DEF Init, Pool!Init

\* What data_block_alloc does is one step of the pool, or none.
LEMMA TakenRefines ==
  ASSUME IInv, IInv', NEW b, NEW o \in Outcomes, Taken(b, o),
         phase = "ready", phase' = "ready"
  PROVE  Pool!Next
<1>1. /\ b \in Listed /\ b \in Poolable /\ broken \in BOOLEAN /\ broken' \in BOOLEAN
  BY Serving DEF Taken, IInv, TypeOK
<1>2. CASE o.ok
  <2>1. /\ Listed' = Listed \ {b} /\ held' = held \cup {b} /\ lost' = lost
        /\ broken' = broken
    BY <1>1, <1>2 DEF Taken, Outcomes
  <2>2. Pool!Take(b)
    BY <1>1, <2>1 DEF Pool!Take
  <2>3. QED BY <1>1, <2>2 DEF Pool!Next
<1>3. CASE ~o.ok
  <2>1. broken' = TRUE /\ held' = held
    BY <1>1, <1>3 DEF Taken
  <2>2. CASE o.landed
    <3>1. Listed' = Listed \ {b} /\ lost' = lost \cup {b}
      BY <1>3, <2>2 DEF Taken
    <3>2. Pool!Falter
      BY <1>1, <2>1, <3>1 DEF Pool!Falter
    <3>3. QED BY <3>2 DEF Pool!Next
  <2>3. CASE ~o.landed
    <3>1. Listed' = Listed /\ lost' = lost
      BY <1>3, <2>3 DEF Taken
    <3>2. Pool!Falter
      BY <2>1, <3>1 DEF Pool!Falter
    <3>3. QED BY <3>2 DEF Pool!Next
  <2>4. QED BY <2>2, <2>3
<1>4. QED BY <1>2, <1>3

\* So is what data_block_free does.
LEMMA GivenRefines ==
  ASSUME IInv, IInv', NEW b, NEW o \in Outcomes, Given(b, o),
         phase = "ready", phase' = "ready"
  PROVE  Pool!Next
<1>1. /\ b \in held /\ b \in Poolable /\ broken \in BOOLEAN /\ broken' \in BOOLEAN
      /\ held' = held \ {b}
  BY Serving DEF Given, IInv, TypeOK
<1>2. CASE o.ok
  <2>1. Listed' = Listed \cup {b} /\ lost' = lost /\ broken' = broken
    BY <1>1, <1>2 DEF Given, Outcomes
  <2>2. Pool!Give(b)
    BY <1>1, <2>1 DEF Pool!Give
  <2>3. QED BY <1>1, <2>2 DEF Pool!Next
<1>3. CASE ~o.ok
  <2>1. broken' = TRUE
    BY <1>1, <1>3 DEF Given
  <2>2. \/ Listed' = Listed \cup {b} /\ lost' = lost
        \/ lost' = lost \cup {b} /\ Listed' = Listed
    BY DEF Given
  <2>3. Pool!Falter
    BY <1>1, <2>1, <2>2 DEF Pool!Falter
  <2>4. QED BY <2>3 DEF Pool!Next
<1>4. QED BY <1>2, <1>3

\* Every step of the free list is a step of the pool or changes nothing there.
LEMMA PoolStep == ASSUME IInv, [Next]_vars PROVE [Pool!Next]_(Pool!vars)
<1>1. IInv'
  BY NextInv
<1>2. CASE \E o \in Outcomes : FormatGroup(o)
  <2>1. PICK o \in Outcomes : FormatGroup(o)
    BY <1>2
  <2>2. /\ phase = "format" /\ held = {} /\ held' = held
        /\ broken' = (broken \/ ~o.ok) /\ broken \in BOOLEAN
    BY <2>1 DEF FormatGroup, IInv, Formatting, TypeOK
  <2>3. CASE o.ok
    <3>1. phase' = "format" /\ broken' = broken
      BY <2>1, <2>2, <2>3 DEF FormatGroup
    <3>2. QED BY <2>2, <3>1 DEF Pool!vars
  <2>4. CASE ~o.ok
    <3>1. phase' = "failed" /\ broken' = TRUE
      BY <2>1, <2>2, <2>4 DEF FormatGroup
    <3>2. Pool!FailToOpen
      BY <2>2, <3>1 DEF Pool!FailToOpen
    <3>3. QED BY <3>2 DEF Pool!Next
  <2>5. QED BY <2>3, <2>4
<1>3. CASE FormatDone
  <2>1. /\ phase = "format" /\ phase' = "ready" /\ held = {} /\ ~broken
        /\ UNCHANGED <<held, lost, broken>> /\ Listed' = Listed
        /\ Accounted(Listed, held, lost, used, broken)
    BY <1>3 DEF FormatDone, IInv, Formatting, Complete, Listed
  <2>2. PICK b : lost = {b}
    BY <2>1, Zenon DEF Accounted
  <2>3. b \in Poolable /\ Listed = Poolable \ {b}
    BY <2>1, <2>2 DEF Accounted
  <2>4. Pool!Open
    BY <2>1, <2>2, <2>3 DEF Pool!Open
  <2>5. QED BY <2>4 DEF Pool!Next
<1>4. CASE Alloc
  <2>1. PICK o \in Outcomes : AllocPop(o) \/ AllocNextGroup(o)
    BY <1>4 DEF Alloc
  <2>2. phase = "ready" /\ phase' = "ready"
    BY <2>1 DEF AllocPop, AllocNextGroup
  <2>3. \E b : Taken(b, o)
    BY <2>1, AllocPopStep, AllocNextGroupStep
  <2>4. QED BY <1>1, <2>2, <2>3, TakenRefines
<1>5. CASE Free
  <2>1. PICK b \in held, o \in Outcomes :
           FreePush(b, o) \/ \E copied \in Outcomes : FreeNewGroup(b, copied, o)
    BY <1>5 DEF Free
  <2>2. phase = "ready" /\ phase' = "ready"
    BY <2>1 DEF FreePush, FreeNewGroup
  <2>3. Given(b, o)
    BY <2>1, FreePushStep, FreeNewGroupStep
  <2>4. QED BY <1>1, <2>2, <2>3, GivenRefines
<1>6. CASE \E b \in held : FileWrite(b)
  <2>1. Listed' = Listed
    BY <1>6, FileWriteStep
  <2>2. phase = "ready" /\ UNCHANGED <<phase, held, lost, broken>>
    BY <1>6 DEF FileWrite
  <2>3. QED BY <2>1, <2>2 DEF Pool!vars
<1>7. CASE UNCHANGED vars
  BY <1>7 DEF vars, Listed, Pool!vars
<1>8. QED BY <1>2, <1>3, <1>4, <1>5, <1>6, <1>7 DEF Next

\* The list of groups on the device implements the set of free blocks that
\* base files rely on.
THEOREM ImplementsPool == ASSUME Count >= 2 PROVE Spec => PoolRefined
<1>1. Init => Pool!Init
  BY PoolInit
<1>2. IInv /\ [Next]_vars => [Pool!Next]_(Pool!vars)
  BY PoolStep
<1>3. QED BY <1>1, <1>2, Invariance, PTL DEF Spec, PoolRefined, Pool!Spec
=============================================================================

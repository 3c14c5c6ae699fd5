---------------------------- MODULE DirectoryProofs ----------------------------
(***************************************************************************)
(* Proofs about Directory, for every set of inodes and of names and every  *)
(* bound: its type invariant, the safety properties the runs check, and    *)
(* that it implements Namespace.                                           *)
(*                                                                         *)
(* What the calls do to directories is to add an entry and to take one     *)
(* away, while the others change their places.  So the first part counts   *)
(* entries without looking at their places: Num(e, X) is how many of the   *)
(* entries are in X, whatever X is, and a call changes it by one.  Links,  *)
(* reachability and the bindings of Namespace are all such numbers.  The   *)
(* second part has what a change of tables and entries does to them, the   *)
(* third where paths lead, the last one the invariant with one lemma per   *)
(* action.                                                                 *)
(***************************************************************************)
EXTENDS Directory, Induction, SequenceTheorems

-----------------------------------------------------------------------------
(* One directory.                                                          *)

Row == SeqOf(Entry, MaxEntries)

\* A directory is a sequence of entries that is not too long.
LEMMA Rows ==
  ASSUME NEW q
  PROVE  q \in Row <=> q \in Seq(Entry) /\ Len(q) \in 0 .. MaxEntries
<1> USE BoundsAssumption
<1>1. ASSUME q \in Row
      PROVE  q \in Seq(Entry) /\ Len(q) \in 0 .. MaxEntries
  <2>1. PICK m \in 0 .. MaxEntries : q \in [1 .. m -> Entry]
    BY <1>1 DEF Row, SeqOf
  <2>2. QED BY <2>1, IsASeq
<1>2. ASSUME q \in Seq(Entry), Len(q) \in 0 .. MaxEntries
      PROVE  q \in Row
  <2>1. q \in [1 .. Len(q) -> Entry]
    BY <1>2, LenProperties
  <2>2. QED BY <1>2, <2>1 DEF Row, SeqOf
<1>3. QED BY <1>1, <1>2

\* The places and the entries of a directory.
LEMMA RowFacts ==
  ASSUME NEW q \in Row
  PROVE  /\ Len(q) \in 0 .. MaxEntries
         /\ DOMAIN q = 1 .. Len(q)
         /\ \A k \in 1 .. Len(q) : q[k] \in Entry
BY Rows, LenProperties, ElementOfSeq

\* A new directory is empty.
LEMMA RowEmpty == << >> \in Row
<1>1. << >> \in Seq(Entry) /\ Len(<< >>) = 0 /\ 0 \in 0 .. MaxEntries
  BY BoundsAssumption
<1>2. QED BY <1>1, Rows

\* dir_add: the new entry comes last.
LEMMA RowAdded ==
  ASSUME NEW q \in Row, Len(q) < MaxEntries, NEW b \in Entry
  PROVE  /\ Append(q, b) \in Row
         /\ Len(Append(q, b)) = Len(q) + 1
         /\ Append(q, b)[Len(q) + 1] = b
         /\ \A k \in 1 .. Len(q) : Append(q, b)[k] = q[k]
<1>1. q \in Seq(Entry) /\ Len(q) \in 0 .. MaxEntries
  BY Rows
<1>2. Append(q, b) \in Seq(Entry) /\ Len(Append(q, b)) = Len(q) + 1
  BY <1>1
<1>3. Len(q) + 1 \in 0 .. MaxEntries
  BY <1>1, BoundsAssumption
<1>4. Append(q, b) \in Row
  BY <1>2, <1>3, Rows
<1>5. /\ Append(q, b)[Len(q) + 1] = b
      /\ \A k \in 1 .. Len(q) : Append(q, b)[k] = q[k]
  BY <1>1
<1>6. QED BY <1>2, <1>4, <1>5

\* dir_del: the last entry is where entry k was, and the rest as before.
LEMMA RowCut ==
  ASSUME NEW q \in Row, NEW k \in 1 .. Len(q),
         NEW r, r = Front([q EXCEPT ![k] = Last(q)])
  PROVE  /\ r \in Row
         /\ Len(r) = Len(q) - 1
         /\ \A m \in 1 .. Len(q) - 1 : r[m] = IF m = k THEN q[Len(q)] ELSE q[m]
<1>1. q \in Seq(Entry) /\ Len(q) \in 0 .. MaxEntries /\ q[Len(q)] \in Entry
  BY Rows, RowFacts
<1> DEFINE s == [q EXCEPT ![k] = q[Len(q)]]
<1>2. /\ s \in Seq(Entry) /\ Len(s) = Len(q)
      /\ \A m \in 1 .. Len(q) : s[m] = IF m = k THEN q[Len(q)] ELSE q[m]
  BY <1>1, ExceptSeq
<1>3. r = SubSeq(s, 1, Len(q) - 1)
  BY <1>2 DEF Front, Last
<1>4. PICK n \in Int : n = Len(q) - 1
  BY <1>1
<1>5. /\ r \in Seq(Entry)
      /\ Len(r) = IF 1 <= n THEN n - 1 + 1 ELSE 0
      /\ \A m \in 1 .. n - 1 + 1 : r[m] = s[1 + m - 1]
  <2> HIDE DEF s
  <2>1. 1 \in Int /\ \A m \in 1 .. n : s[m] \in Entry
    BY <1>1, <1>2, <1>4, ElementOfSeq
  <2>2. /\ SubSeq(s, 1, n) \in Seq(Entry)
        /\ Len(SubSeq(s, 1, n)) = IF 1 <= n THEN n - 1 + 1 ELSE 0
        /\ \A m \in 1 .. n - 1 + 1 : SubSeq(s, 1, n)[m] = s[1 + m - 1]
    BY <2>1, SubSeqProperties
  <2>3. r = SubSeq(s, 1, n)
    BY <1>3, <1>4
  <2>4. QED BY <2>2, <2>3
<1>6. Len(r) = Len(q) - 1 /\ Len(q) - 1 \in 0 .. MaxEntries
  BY <1>1, <1>4, <1>5, BoundsAssumption
<1>7. ASSUME NEW m \in 1 .. Len(q) - 1
      PROVE  r[m] = IF m = k THEN q[Len(q)] ELSE q[m]
  <2>1. m \in 1 .. n - 1 + 1 /\ 1 + m - 1 = m /\ m \in 1 .. Len(q)
    BY <1>1, <1>4
  <2> HIDE DEF s
  <2>2. QED BY <1>2, <1>5, <2>1
<1>8. QED BY <1>5, <1>6, <1>7, Rows

-----------------------------------------------------------------------------
(* Entries counted without their places.                                   *)

Rolls == [Inodes -> Row]
Pairs == Inodes \X Entry

At(e, X) == {p \in Inodes \X (1 .. MaxEntries) :
                p[2] \in DOMAIN e[p[1]] /\ <<p[1], e[p[1]][p[2]]>> \in X}
Num(e, X) == Cardinality(At(e, X))

\* f has the entry of x, a pair of a directory and an entry, besides those of e.
OneMore(e, f, x) == \A X : Num(f, X) = Num(e, X) + IF x \in X THEN 1 ELSE 0

\* Sets of pairs are told apart by the pairs in them.
LEMMA SamePairs ==
  ASSUME NEW U, NEW V, NEW A \in SUBSET (U \X V), NEW B \in SUBSET (U \X V),
         \A u, v : <<u, v>> \in A <=> <<u, v>> \in B
  PROVE  A = B
OBVIOUS

\* The places of the entries in X.
LEMMA AtFacts ==
  ASSUME NEW e \in Rolls, NEW X
  PROVE  /\ \A d, k : <<d, k>> \in At(e, X) <=>
                d \in Inodes /\ k \in 1 .. Len(e[d]) /\ <<d, e[d][k]>> \in X
         /\ At(e, X) \subseteq Inodes \X (1 .. MaxEntries)
         /\ IsFiniteSet(At(e, X)) /\ Num(e, X) \in Nat
<1>1. ASSUME NEW d \in Inodes
      PROVE  e[d] \in Row /\ Len(e[d]) \in 0 .. MaxEntries /\ DOMAIN e[d] = 1 .. Len(e[d])
  BY RowFacts DEF Rolls
<1>2. ASSUME NEW d, NEW k
      PROVE  <<d, k>> \in At(e, X) <=>
                d \in Inodes /\ k \in 1 .. Len(e[d]) /\ <<d, e[d][k]>> \in X
  <2>1. \A i \in Inodes : k \in 1 .. Len(e[i]) => k \in 1 .. MaxEntries
    BY <1>1, BoundsAssumption
  <2>2. QED BY <1>1, <2>1 DEF At
<1>3. At(e, X) \subseteq Inodes \X (1 .. MaxEntries)
  BY DEF At
<1>4. IsFiniteSet(Inodes \X (1 .. MaxEntries))
  <2>1. 1 \in Int /\ MaxEntries \in Int
    BY BoundsAssumption
  <2>2. IsFiniteSet(1 .. MaxEntries)
    BY <2>1, FS_Interval
  <2>3. QED BY <2>2, InodesAssumption, FS_Product
<1>5. IsFiniteSet(At(e, X))
  BY <1>3, <1>4, FS_Subset
<1>6. Num(e, X) \in Nat
  BY <1>5, FS_CardinalityType DEF Num
<1>7. QED BY <1>2, <1>3, <1>5, <1>6

\* None is counted exactly when there is none.
LEMMA NumZero ==
  ASSUME NEW e \in Rolls, NEW X
  PROVE  Num(e, X) = 0 <=> \A d \in Inodes : \A k \in 1 .. Len(e[d]) : <<d, e[d][k]>> \notin X
<1>1. Num(e, X) = 0 <=> At(e, X) = {}
  BY AtFacts, FS_EmptySet DEF Num
<1>2. At(e, X) = {} <=> \A d, k : <<d, k>> \notin At(e, X)
  <2>1. At(e, X) \subseteq Inodes \X (1 .. MaxEntries)
    BY AtFacts
  <2>2. QED BY <2>1
<1>3. QED BY <1>1, <1>2, AtFacts

\* More are counted where more is looked for.
LEMMA NumMonotonic ==
  ASSUME NEW e \in Rolls, NEW X, NEW Y, X \subseteq Y
  PROVE  Num(e, X) <= Num(e, Y)
<1>1. At(e, X) \subseteq At(e, Y)
  BY DEF At
<1>2. QED BY <1>1, AtFacts, FS_Subset DEF Num

\* dir_add.
LEMMA AddedOne ==
  ASSUME NEW e \in Rolls, NEW d \in Inodes, Len(e[d]) < MaxEntries, NEW b \in Entry,
         NEW f, f = [e EXCEPT ![d] = Append(e[d], b)]
  PROVE  /\ f \in Rolls /\ OneMore(e, f, <<d, b>>)
         /\ \A j \in Inodes \ {d} : f[j] = e[j]
<1>1. e[d] \in Row
  BY DEF Rolls
<1>2. PICK l \in Nat : l = Len(e[d])
  BY <1>1, RowFacts
<1>3. /\ f[d] \in Row /\ Len(f[d]) = l + 1 /\ f[d][l + 1] = b
      /\ \A k \in 1 .. l : f[d][k] = e[d][k]
  <2>1. f[d] = Append(e[d], b)
    BY DEF Rolls
  <2>2. QED BY <1>1, <1>2, <2>1, RowAdded
<1>4. f \in Rolls /\ \A j \in Inodes \ {d} : f[j] = e[j]
  <2>1. \A j \in Inodes \ {d} : f[j] = e[j]
    BY DEF Rolls
  <2>2. f \in Rolls
    BY <1>3 DEF Rolls
  <2>3. QED BY <2>1, <2>2
<1>5. ASSUME NEW X
      PROVE  Num(f, X) = Num(e, X) + IF <<d, b>> \in X THEN 1 ELSE 0
  <2>1. <<d, l + 1>> \notin At(e, X) /\ IsFiniteSet(At(e, X)) /\ Num(e, X) \in Nat
    <3>1. l + 1 \notin 1 .. l
      OBVIOUS
    <3>2. <<d, l + 1>> \in At(e, X) => l + 1 \in 1 .. Len(e[d])
      BY AtFacts
    <3>3. QED BY <1>2, <3>1, <3>2, AtFacts
  <2>2. ASSUME NEW i, NEW k
        PROVE  <<i, k>> \in At(f, X) <=>
                 <<i, k>> \in At(e, X) \/ (<<d, b>> \in X /\ <<i, k>> = <<d, l + 1>>)
    <3>1. <<i, k>> \in At(f, X) <=> i \in Inodes /\ k \in 1 .. Len(f[i]) /\ <<i, f[i][k]>> \in X
      BY <1>4, AtFacts
    <3>2. <<i, k>> \in At(e, X) <=> i \in Inodes /\ k \in 1 .. Len(e[i]) /\ <<i, e[i][k]>> \in X
      BY AtFacts
    <3>3. CASE i = d
      <4>1. k \in 1 .. l + 1 <=> k \in 1 .. l \/ k = l + 1
        OBVIOUS
      <4>2. l + 1 \notin 1 .. l
        OBVIOUS
      <4>3. QED BY <1>2, <1>3, <3>1, <3>2, <3>3, <4>1, <4>2
    <3>4. CASE i # d
      BY <1>4, <3>1, <3>2, <3>4
    <3>5. QED BY <3>3, <3>4
  <2>3. /\ At(f, X) \in SUBSET (Inodes \X (1 .. MaxEntries))
        /\ At(e, X) \in SUBSET (Inodes \X (1 .. MaxEntries))
    BY <1>4, AtFacts
  <2>4. CASE <<d, b>> \in X
    <3>1. <<d, l + 1>> \in At(f, X)
      BY <2>2, <2>4
    <3>2. At(e, X) \cup {<<d, l + 1>>} \in SUBSET (Inodes \X (1 .. MaxEntries))
      BY <2>3, <3>1
    <3>3. At(f, X) = At(e, X) \cup {<<d, l + 1>>}
      <4> DEFINE more == At(e, X) \cup {<<d, l + 1>>}
      <4>1. \A i, k : <<i, k>> \in At(f, X) <=> <<i, k>> \in more
        BY <2>2, <2>4
      <4>2. more \in SUBSET (Inodes \X (1 .. MaxEntries))
        BY <3>2
      <4> HIDE DEF more
      <4>3. At(f, X) = more
        BY <2>3, <4>1, <4>2, SamePairs
      <4>4. QED BY <4>3 DEF more
    <3>4. Cardinality(At(f, X)) = Cardinality(At(e, X)) + 1
      BY <2>1, <3>3, FS_AddElement
    <3>5. QED BY <2>4, <3>4 DEF Num
  <2>5. CASE <<d, b>> \notin X
    <3>1. At(f, X) = At(e, X)
      BY <2>2, <2>3, <2>5, SamePairs
    <3>2. QED BY <2>1, <2>5, <3>1 DEF Num
  <2>6. QED BY <2>4, <2>5
<1>6. QED BY <1>4, <1>5 DEF OneMore

\* dir_del: whichever entry moves, all that changes is that one is gone.
LEMMA CutOne ==
  ASSUME NEW e \in Rolls, NEW d \in Inodes, NEW k, k \in 1 .. Len(e[d]),
         NEW r, r = Front([e[d] EXCEPT ![k] = Last(e[d])]),
         NEW f, f = [e EXCEPT ![d] = r]
  PROVE  /\ f \in Rolls /\ OneMore(f, e, <<d, e[d][k]>>)
         /\ \A j \in Inodes \ {d} : f[j] = e[j]
<1>1. e[d] \in Row
  BY DEF Rolls
<1>2. PICK l \in Nat : l = Len(e[d])
  BY <1>1, RowFacts
<1>3. l >= 1 /\ k \in 1 .. l
  BY <1>2
<1>4. /\ f[d] \in Row /\ Len(f[d]) = l - 1
      /\ \A m \in 1 .. l - 1 : f[d][m] = IF m = k THEN e[d][l] ELSE e[d][m]
  <2>1. f[d] = Front([e[d] EXCEPT ![k] = Last(e[d])])
    BY DEF Rolls
  <2>2. /\ f[d] \in Row /\ Len(f[d]) = Len(e[d]) - 1
        /\ \A m \in 1 .. Len(e[d]) - 1 : f[d][m] = IF m = k THEN e[d][Len(e[d])] ELSE e[d][m]
    BY <1>1, <2>1, RowCut
  <2>3. QED BY <1>2, <2>2
<1>5. \A j \in Inodes \ {d} : f[j] = e[j]
  BY DEF Rolls
<1>6. f \in Rolls
  BY <1>4 DEF Rolls
<1>7. ASSUME NEW X
      PROVE  Num(e, X) = Num(f, X) + IF <<d, e[d][k]>> \in X THEN 1 ELSE 0
  <2> DEFINE Hit(m) == <<d, e[d][m]>> \in X
  <2>1. /\ IsFiniteSet(At(e, X)) /\ Num(e, X) \in Nat
        /\ IsFiniteSet(At(f, X)) /\ Num(f, X) \in Nat
    BY <1>6, AtFacts
  <2>2. \A m : <<d, m>> \in At(e, X) <=> m \in 1 .. l /\ Hit(m)
    BY <1>2, AtFacts
  <2>3. \A m : <<d, m>> \in At(f, X) <=> m \in 1 .. l - 1 /\ IF m = k THEN Hit(l) ELSE Hit(m)
    <3>1. TAKE m
    <3>2. <<d, m>> \in At(f, X) <=> m \in 1 .. l - 1 /\ <<d, f[d][m]>> \in X
      BY <1>4, <1>6, AtFacts
    <3>3. QED BY <1>4, <3>2
  <2>4. \A i, m : i # d => (<<i, m>> \in At(f, X) <=> <<i, m>> \in At(e, X))
    <3>1. TAKE i, m
    <3>2. <<i, m>> \in At(f, X) <=> i \in Inodes /\ m \in 1 .. Len(f[i]) /\ <<i, f[i][m]>> \in X
      BY <1>6, AtFacts
    <3>3. <<i, m>> \in At(e, X) <=> i \in Inodes /\ m \in 1 .. Len(e[i]) /\ <<i, e[i][m]>> \in X
      BY AtFacts
    <3>4. QED BY <1>5, <3>2, <3>3
  <2>5. /\ At(f, X) \in SUBSET (Inodes \X (1 .. MaxEntries))
        /\ At(e, X) \in SUBSET (Inodes \X (1 .. MaxEntries))
    BY <1>6, AtFacts
  <2>6. \A m : m \in 1 .. l - 1 <=> m \in 1 .. l /\ m # l
    BY <1>3
  <2> HIDE DEF Hit
  <2>7. CASE Hit(l) /\ Hit(k)
    <3>1. <<d, l>> \in At(e, X)
      BY <1>3, <2>2, <2>7
    <3>2. \A i, m : <<i, m>> \in At(f, X) <=> <<i, m>> \in At(e, X) \ {<<d, l>>}
      BY <2>2, <2>3, <2>4, <2>6, <2>7
    <3>3. At(f, X) = At(e, X) \ {<<d, l>>}
      <4> DEFINE less == At(e, X) \ {<<d, l>>}
      <4>1. less \in SUBSET (Inodes \X (1 .. MaxEntries))
        BY <2>5
      <4>2. \A i, m : <<i, m>> \in At(f, X) <=> <<i, m>> \in less
        BY <3>2
      <4> HIDE DEF less
      <4>3. At(f, X) = less
        BY <2>5, <4>1, <4>2, SamePairs
      <4>4. QED BY <4>3 DEF less
    <3>4. Cardinality(At(f, X)) = Cardinality(At(e, X)) - 1
      BY <2>1, <3>1, <3>3, FS_RemoveElement
    <3>5. QED BY <2>1, <2>7, <3>4 DEF Num, Hit
  <2>8. CASE ~Hit(l) /\ Hit(k)
    <3>1. <<d, k>> \in At(e, X)
      BY <1>3, <2>2, <2>8
    <3>2. \A i, m : <<i, m>> \in At(f, X) <=> <<i, m>> \in At(e, X) \ {<<d, k>>}
      BY <2>2, <2>3, <2>4, <2>6, <2>8
    <3>3. At(f, X) = At(e, X) \ {<<d, k>>}
      <4> DEFINE less == At(e, X) \ {<<d, k>>}
      <4>1. less \in SUBSET (Inodes \X (1 .. MaxEntries))
        BY <2>5
      <4>2. \A i, m : <<i, m>> \in At(f, X) <=> <<i, m>> \in less
        BY <3>2
      <4> HIDE DEF less
      <4>3. At(f, X) = less
        BY <2>5, <4>1, <4>2, SamePairs
      <4>4. QED BY <4>3 DEF less
    <3>4. Cardinality(At(f, X)) = Cardinality(At(e, X)) - 1
      BY <2>1, <3>1, <3>3, FS_RemoveElement
    <3>5. QED BY <2>1, <2>8, <3>4 DEF Num, Hit
  <2>9. CASE Hit(l) /\ ~Hit(k)
    <3> DEFINE rest == At(e, X) \ {<<d, l>>}
    <3>1. <<d, l>> \in At(e, X) /\ <<d, k>> \notin rest /\ <<d, k>> \in At(f, X)
      <4>1. k # l /\ k \in 1 .. l - 1
        BY <1>3, <2>6, <2>9
      <4>2. l \in 1 .. l
        BY <1>3
      <4>3. QED BY <2>2, <2>3, <2>9, <4>1, <4>2
    <3>2. \A i, m : <<i, m>> \in At(f, X) <=> <<i, m>> \in rest \cup {<<d, k>>}
      BY <1>3, <2>2, <2>3, <2>4, <2>6, <2>9
    <3>3. rest \cup {<<d, k>>} \in SUBSET (Inodes \X (1 .. MaxEntries))
      BY <2>5, <3>1
    <3>4. IsFiniteSet(rest) /\ Cardinality(rest) = Cardinality(At(e, X)) - 1
      BY <2>1, <3>1, FS_RemoveElement
    <3> HIDE DEF rest
    <3>5. At(f, X) = rest \cup {<<d, k>>}
      <4> DEFINE same == rest \cup {<<d, k>>}
      <4>1. \A i, m : <<i, m>> \in At(f, X) <=> <<i, m>> \in same
        BY <3>2
      <4>2. same \in SUBSET (Inodes \X (1 .. MaxEntries))
        BY <3>3
      <4> HIDE DEF same
      <4>3. At(f, X) = same
        BY <2>5, <4>1, <4>2, SamePairs
      <4>4. QED BY <4>3 DEF same
    <3>6. Cardinality(At(f, X)) = Cardinality(rest) + 1
      BY <3>1, <3>4, <3>5, FS_AddElement
    <3>7. QED BY <2>1, <2>9, <3>4, <3>6 DEF Num, Hit
  <2>10. CASE ~Hit(l) /\ ~Hit(k)
    <3>1. \A i, m : <<i, m>> \in At(f, X) <=> <<i, m>> \in At(e, X)
      BY <2>2, <2>3, <2>4, <2>6, <2>10
    <3>2. At(f, X) = At(e, X)
      BY <2>5, <3>1, SamePairs
    <3>3. QED BY <2>1, <2>10, <3>2 DEF Num, Hit
  <2>11. QED BY <2>7, <2>8, <2>9, <2>10
<1>8. QED BY <1>5, <1>6, <1>7 DEF OneMore

-----------------------------------------------------------------------------
(* Links, and what is in reach.                                            *)

Named(e, i) == Num(e, Naming(i))

\* The entries of directories in S that lead out of S.
Leaving(S) == {x \in Pairs : x[1] \in S /\ x[2].no \notin S}
Whole(e, S) == Root \in S /\ Num(e, Leaving(S)) = 0

\* An entry more is a name more for one file, and no way out of a whole set.
LEMMA OneMoreName ==
  ASSUME NEW e \in Rolls, NEW f \in Rolls, NEW d \in Inodes, NEW b \in Entry,
         OneMore(e, f, <<d, b>>)
  PROVE  /\ b.no \in Inodes
         /\ \A j \in Inodes : Named(e, j) \in Nat /\ Named(f, j) \in Nat
         /\ Named(f, b.no) = Named(e, b.no) + 1
         /\ \A j \in Inodes \ {b.no} : Named(f, j) = Named(e, j)
         /\ \A S : Whole(f, S) => Whole(e, S) /\ (d \in S => b.no \in S)
<1>1. b.no \in Inodes
  BY DEF Entry
<1>2. \A j \in Inodes : Named(e, j) \in Nat /\ Named(f, j) \in Nat
  BY AtFacts DEF Named
<1>3. Named(f, b.no) = Named(e, b.no) + 1
  <2>1. <<d, b>> \in Naming(b.no)
    BY DEF Naming
  <2>2. QED BY <2>1 DEF OneMore, Named
<1>4. ASSUME NEW j \in Inodes \ {b.no} PROVE Named(f, j) = Named(e, j)
  <2>1. <<d, b>> \notin Naming(j)
    BY DEF Naming
  <2>2. Num(f, Naming(j)) = Num(e, Naming(j)) + 0
    BY <2>1 DEF OneMore
  <2>3. QED BY <1>2, <2>2 DEF Named
<1>5. ASSUME NEW S, Whole(f, S) PROVE Whole(e, S) /\ (d \in S => b.no \in S)
  <2>1. Num(e, Leaving(S)) \in Nat
    BY AtFacts
  <2>2. Num(f, Leaving(S)) = 0 /\ Root \in S
    BY <1>5 DEF Whole
  <2>3. 0 = Num(e, Leaving(S)) + IF <<d, b>> \in Leaving(S) THEN 1 ELSE 0
    BY <2>2 DEF OneMore
  <2>4. <<d, b>> \notin Leaving(S) /\ Num(e, Leaving(S)) = 0
    BY <2>1, <2>3
  <2>5. QED BY <2>2, <2>4 DEF Whole, Leaving, Pairs
<1>6. QED BY <1>1, <1>2, <1>3, <1>4, <1>5

\* When the entry of something that names nothing goes, whole sets are whole
\* with what it led to.
LEMMA OneLessName ==
  ASSUME NEW e \in Rolls, NEW f \in Rolls, NEW d \in Inodes, NEW b \in Entry,
         OneMore(f, e, <<d, b>>), f[b.no] = << >>,
         NEW S, Whole(f, S)
  PROVE  Whole(e, S \cup {b.no})
<1> DEFINE T == S \cup {b.no}
<1>1. Num(f, Leaving(S)) = 0 /\ Root \in S /\ Num(f, Leaving(T)) \in Nat
  BY AtFacts DEF Whole
<1>2. \A j \in Inodes : \A k \in 1 .. Len(f[j]) : <<j, f[j][k]>> \notin Leaving(S)
  BY <1>1, NumZero
<1>3. ASSUME NEW j \in Inodes, NEW k \in 1 .. Len(f[j])
      PROVE  <<j, f[j][k]>> \notin Leaving(T)
  <2>1. j # b.no
    <3>1. Len(<< >>) = 0
      OBVIOUS
    <3>2. QED BY <3>1
  <2>2. QED BY <1>2, <2>1 DEF Leaving, Pairs
<1>4. Num(f, Leaving(T)) = 0
  <2> HIDE DEF T
  <2>1. QED BY <1>3, NumZero
<1>5. <<d, b>> \notin Leaving(T)
  BY DEF Leaving
<1>6. Num(e, Leaving(T)) = 0
  <2> HIDE DEF T
  <2>1. Num(e, Leaving(T)) = Num(f, Leaving(T)) + 0
    BY <1>5 DEF OneMore
  <2>2. QED BY <1>4, <2>1
<1>7. QED BY <1>1, <1>6 DEF Whole

\* Inode i is used when it has links; only directories have entries, and one
\* link each; there are as many links as names at least; the root is there.
Sane(t, e) ==
    /\ \A i \in Inodes : t[i].mode = "empty" <=> t[i].links = 0
    /\ \A i \in Inodes : t[i].mode # "dir" => e[i] = << >>
    /\ \A i \in Inodes : Named(e, i) <= t[i].links
    /\ \A i \in Inodes : t[i].mode = "dir" => t[i].links = 1
    /\ t[Root].mode = "dir" /\ Named(e, Root) = 0

\* Links are names, and what is in use is in every whole set.
Exact(t, e) ==
    /\ \A i \in Inodes \ {Root} : t[i].links = Named(e, i)
    /\ \A S \in SUBSET Inodes : Whole(e, S) =>
          \A i \in Inodes : t[i].mode # "empty" => i \in S

Tables == [Inodes -> [mode : Modes, links : 0 .. MaxLinks]]

\* What is named has links.
LEMMA NamedIsUsed ==
  ASSUME NEW t \in Tables, NEW e \in Rolls, Sane(t, e),
         NEW d \in Inodes, NEW k \in 1 .. Len(e[d])
  PROVE  /\ t[d].mode = "dir"
         /\ e[d][k] \in Entry /\ e[d][k].no \in Inodes \ {Root}
         /\ Named(e, e[d][k].no) >= 1 /\ t[e[d][k].no].links >= 1
         /\ t[e[d][k].no].mode # "empty"
<1>1. e[d] \in Row /\ e[d][k] \in Entry
  BY RowFacts DEF Rolls
<1>2. PICK i \in Inodes : i = e[d][k].no
  BY <1>1 DEF Entry
<1>3. t[d].mode = "dir"
  <2>1. Len(<< >>) = 0 /\ e[d] # << >>
    OBVIOUS
  <2>2. QED BY <2>1 DEF Sane
<1>4. Named(e, i) \in Nat /\ Named(e, i) # 0
  <2>1. <<d, e[d][k]>> \in Naming(i)
    BY <1>1, <1>2 DEF Naming
  <2>2. QED BY <2>1, AtFacts, NumZero DEF Named
<1>5. t[i].links \in Nat /\ Named(e, i) <= t[i].links
  BY DEF Sane, Tables
<1>6. i # Root
  BY <1>4 DEF Sane
<1>7. t[i].links >= 1 /\ Named(e, i) >= 1
  BY <1>4, <1>5
<1>8. t[i].mode # "empty"
  BY <1>7 DEF Sane
<1>9. QED BY <1>1, <1>2, <1>3, <1>6, <1>7, <1>8

\* base_file_create: nothing named the inode before.
LEMMA NewInode ==
  ASSUME NEW t \in Tables, NEW u \in Tables, NEW e \in Rolls, Sane(t, e),
         NEW i \in Inodes, t[i].mode = "empty",
         u[i].mode \in {"file", "dir"}, u[i].links = 1,
         \A j \in Inodes \ {i} : u[j] = t[j]
  PROVE  /\ Sane(u, e) /\ i # Root
         /\ Named(e, i) = 0 /\ e[i] = << >>
<1>1. Named(e, i) \in Nat /\ Named(e, i) <= t[i].links /\ t[i].links = 0
  BY AtFacts DEF Sane, Named
<1>2. i # Root /\ e[i] = << >> /\ Named(e, i) = 0
  BY <1>1 DEF Sane
<1>3. QED BY <1>2, InodesAssumption DEF Sane

\* An entry for a file that has a link to spare for it.
LEMMA SparedName ==
  ASSUME NEW t \in Tables, NEW e \in Rolls, NEW f \in Rolls, Sane(t, e),
         NEW d \in Inodes, t[d].mode = "dir", NEW b \in Entry, b.no # Root,
         OneMore(e, f, <<d, b>>), \A j \in Inodes \ {d} : f[j] = e[j],
         Named(e, b.no) < t[b.no].links
  PROVE  Sane(t, f)
<1>1. /\ b.no \in Inodes
      /\ \A j \in Inodes : Named(e, j) \in Nat
      /\ Named(f, b.no) = Named(e, b.no) + 1
      /\ \A j \in Inodes \ {b.no} : Named(f, j) = Named(e, j)
  BY OneMoreName
<1>2. t[b.no].links \in Nat
  BY <1>1 DEF Tables
<1>3. Named(f, b.no) <= t[b.no].links
  BY <1>1, <1>2
<1>4. \A j \in Inodes : Named(f, j) <= t[j].links
  BY <1>1, <1>3 DEF Sane
<1>5. \A j \in Inodes : t[j].mode # "dir" => f[j] = << >>
  BY DEF Sane
<1>6. Root \in Inodes
  BY InodesAssumption
<1>7. QED BY <1>1, <1>4, <1>5, <1>6 DEF Sane

\* One link more for a file.
LEMMA OneLinkMore ==
  ASSUME NEW t \in Tables, NEW u \in Tables, NEW e \in Rolls, Sane(t, e),
         NEW i \in Inodes, t[i].mode # "dir", t[i].mode # "empty",
         u[i].mode = t[i].mode, u[i].links = t[i].links + 1,
         \A j \in Inodes \ {i} : u[j] = t[j]
  PROVE  Sane(u, e) /\ i # Root /\ Named(e, i) < u[i].links
<1>1. Named(e, i) \in Nat /\ Named(e, i) <= t[i].links /\ t[i].links \in Nat
  BY AtFacts DEF Sane, Named, Tables
<1>2. i # Root
  BY DEF Sane
<1>3. Named(e, i) < u[i].links /\ Named(e, i) <= u[i].links /\ u[i].links # 0
  BY <1>1
<1>4. QED BY <1>2, <1>3, InodesAssumption DEF Sane

\* An entry goes and the links stay.
LEMMA NameGone ==
  ASSUME NEW t \in Tables, NEW e \in Rolls, NEW f \in Rolls, Sane(t, e),
         NEW d \in Inodes, t[d].mode = "dir", NEW b \in Entry,
         OneMore(f, e, <<d, b>>), \A j \in Inodes \ {d} : f[j] = e[j]
  PROVE  /\ Sane(t, f)
         /\ b.no # Root /\ Named(f, b.no) < t[b.no].links
<1>1. /\ b.no \in Inodes
      /\ \A j \in Inodes : Named(e, j) \in Nat /\ Named(f, j) \in Nat
      /\ Named(e, b.no) = Named(f, b.no) + 1
      /\ \A j \in Inodes \ {b.no} : Named(e, j) = Named(f, j)
  BY OneMoreName
<1>2. \A j \in Inodes : t[j].links \in Nat /\ Named(e, j) <= t[j].links
  BY DEF Sane, Tables
<1>3. Named(f, b.no) < t[b.no].links /\ Named(f, b.no) <= t[b.no].links
  BY <1>1, <1>2
<1>4. \A j \in Inodes : Named(f, j) <= t[j].links
  BY <1>1, <1>2, <1>3
<1>5. b.no # Root
  BY <1>1 DEF Sane
<1>6. Named(f, Root) = 0
  BY <1>1, <1>5, InodesAssumption DEF Sane
<1>7. \A j \in Inodes : t[j].mode # "dir" => f[j] = << >>
  BY DEF Sane
<1>8. QED BY <1>3, <1>4, <1>5, <1>6, <1>7 DEF Sane

\* A link that no name needs goes, and the last one takes the file with it.
LEMMA OneLinkLess ==
  ASSUME NEW t \in Tables, NEW u \in Tables, NEW e \in Rolls, Sane(t, e),
         NEW i \in Inodes, i # Root, Named(e, i) < t[i].links, e[i] = << >>,
         u[i].links = t[i].links - 1,
         u[i].mode = IF t[i].links = 1 THEN "empty" ELSE t[i].mode,
         \A j \in Inodes \ {i} : u[j] = t[j]
  PROVE  Sane(u, e)
<1>1. Named(e, i) \in Nat /\ t[i].links \in Nat
  BY AtFacts DEF Named, Tables
<1>2. Named(e, i) <= u[i].links
  BY <1>1
<1>3. u[i].mode = "empty" <=> u[i].links = 0
  BY <1>1 DEF Sane
<1>4. u[i].mode # "dir"
  BY <1>1 DEF Sane
<1>5. QED BY <1>2, <1>3, <1>4, InodesAssumption, ZenonT(60) DEF Sane

\* A file with a name in a directory is in reach when the directory is.
LEMMA ExactNew ==
  ASSUME NEW t \in Tables, NEW u \in Tables, NEW e \in Rolls, NEW f \in Rolls,
         Sane(t, e), Exact(t, e),
         NEW d \in Inodes, t[d].mode = "dir", NEW b \in Entry, OneMore(e, f, <<d, b>>),
         t[b.no].mode = "empty", u[b.no].links = 1,
         \A j \in Inodes \ {b.no} : u[j] = t[j]
  PROVE  Exact(u, f)
<1>1. /\ b.no \in Inodes
      /\ \A j \in Inodes : Named(e, j) \in Nat
      /\ Named(f, b.no) = Named(e, b.no) + 1
      /\ \A j \in Inodes \ {b.no} : Named(f, j) = Named(e, j)
      /\ \A S : Whole(f, S) => Whole(e, S) /\ (d \in S => b.no \in S)
  BY OneMoreName
<1>2. Named(e, b.no) = 0
  <2>1. Named(e, b.no) <= t[b.no].links /\ t[b.no].links = 0
    BY <1>1 DEF Sane
  <2>2. QED BY <1>1, <2>1
<1>3. \A j \in Inodes \ {Root} : u[j].links = Named(f, j)
  <2>1. TAKE j \in Inodes \ {Root}
  <2>2. CASE j = b.no
    BY <1>1, <1>2, <2>2
  <2>3. CASE j # b.no
    BY <1>1, <2>3 DEF Exact
  <2>4. QED BY <2>2, <2>3
<1>4. ASSUME NEW S \in SUBSET Inodes, Whole(f, S), NEW j \in Inodes, u[j].mode # "empty"
      PROVE  j \in S
  <2>1. Whole(e, S) /\ (d \in S => b.no \in S)
    BY <1>1, <1>4
  <2>2. d \in S
    BY <2>1 DEF Exact
  <2>3. QED BY <1>4, <2>1, <2>2 DEF Exact
<1>5. QED BY <1>3, <1>4 DEF Exact

\* link.
LEMMA ExactLinked ==
  ASSUME NEW t \in Tables, NEW u \in Tables, NEW e \in Rolls, NEW f \in Rolls,
         Sane(t, e), Exact(t, e),
         NEW d \in Inodes, NEW b \in Entry, OneMore(e, f, <<d, b>>), b.no # Root,
         u[b.no].mode = t[b.no].mode, u[b.no].links = t[b.no].links + 1,
         \A j \in Inodes \ {b.no} : u[j] = t[j]
  PROVE  Exact(u, f)
<1>1. /\ b.no \in Inodes
      /\ Named(f, b.no) = Named(e, b.no) + 1
      /\ \A j \in Inodes \ {b.no} : Named(f, j) = Named(e, j)
      /\ \A S : Whole(f, S) => Whole(e, S)
  BY OneMoreName
<1>2. \A j \in Inodes \ {Root} : u[j].links = Named(f, j)
  <2>1. TAKE j \in Inodes \ {Root}
  <2>2. CASE j = b.no
    BY <1>1, <2>2 DEF Exact
  <2>3. CASE j # b.no
    BY <1>1, <2>3 DEF Exact
  <2>4. QED BY <2>2, <2>3
<1>3. \A j \in Inodes : u[j].mode = t[j].mode
  OBVIOUS
<1>4. QED BY <1>1, <1>2, <1>3 DEF Exact

\* unlink and rmdir: what loses a name and stays has another one, in a
\* directory that is still in reach.
LEMMA ExactLess ==
  ASSUME NEW t \in Tables, NEW u \in Tables, NEW e \in Rolls, NEW f \in Rolls,
         Sane(t, e), Exact(t, e), Sane(t, f),
         NEW d \in Inodes, NEW b \in Entry, OneMore(f, e, <<d, b>>), f[b.no] = << >>,
         b.no # Root,
         u[b.no].links = t[b.no].links - 1,
         u[b.no].mode = IF t[b.no].links = 1 THEN "empty" ELSE t[b.no].mode,
         \A j \in Inodes \ {b.no} : u[j] = t[j]
  PROVE  Exact(u, f)
<1>1. /\ b.no \in Inodes
      /\ \A j \in Inodes : Named(e, j) \in Nat /\ Named(f, j) \in Nat
      /\ Named(e, b.no) = Named(f, b.no) + 1
      /\ \A j \in Inodes \ {b.no} : Named(e, j) = Named(f, j)
  BY OneMoreName
<1>2. t[b.no].links = Named(f, b.no) + 1
  BY <1>1 DEF Exact
<1>3. \A j \in Inodes \ {Root} : u[j].links = Named(f, j)
  <2>1. TAKE j \in Inodes \ {Root}
  <2>2. CASE j = b.no
    BY <1>1, <1>2, <2>2
  <2>3. CASE j # b.no
    BY <1>1, <2>3 DEF Exact
  <2>4. QED BY <2>2, <2>3
<1>4. ASSUME NEW S \in SUBSET Inodes, Whole(f, S), NEW j \in Inodes, u[j].mode # "empty"
      PROVE  j \in S
  <2> DEFINE T == S \cup {b.no}
  <2>1. Whole(e, T) /\ T \in SUBSET Inodes
    BY <1>1, <1>4, OneLessName
  <2>2. \A i \in Inodes : t[i].mode # "empty" => i \in T
    BY <2>1 DEF Exact
  <2>3. CASE j # b.no
    BY <1>4, <2>2, <2>3
  <2>4. CASE j = b.no
    <3>1. t[b.no].links # 1
      BY <1>4, <2>4
    <3>2. Named(f, b.no) # 0
      BY <1>1, <1>2, <3>1
    <3>3. PICK i \in Inodes : \E k \in 1 .. Len(f[i]) : <<i, f[i][k]>> \in Naming(b.no)
      BY <3>2, NumZero DEF Named
    <3>3a. PICK k \in 1 .. Len(f[i]) : <<i, f[i][k]>> \in Naming(b.no)
      BY <3>3
    <3>4. f[i][k].no = b.no /\ f[i][k] \in Entry
      BY <3>3a DEF Naming
    <3>5. t[i].mode = "dir"
      BY NamedIsUsed
    <3>6. i # b.no
      <4>1. Len(<< >>) = 0
        OBVIOUS
      <4>2. QED BY <4>1
    <3>7. i \in S
      BY <2>2, <3>5, <3>6
    <3>8. <<i, f[i][k]>> \notin Leaving(S)
      BY <1>4, NumZero DEF Whole
    <3>9. QED BY <2>4, <3>4, <3>7, <3>8 DEF Leaving, Pairs
  <2>5. QED BY <2>3, <2>4
<1>5. QED BY <1>3, <1>4 DEF Exact

-----------------------------------------------------------------------------
(* Where paths lead.                                                       *)

\* dir_locate finds an entry of that name.
LEMMA FindFacts ==
  ASSUME NEW d \in Inodes, NEW n, entries \in Rolls
  PROVE  /\ Find(d, n) \in 0 .. Len(entries[d])
         /\ Find(d, n) # 0 =>
              /\ Find(d, n) \in 1 .. Len(entries[d])
              /\ entries[d][Find(d, n)] \in Entry
              /\ entries[d][Find(d, n)].no \in Inodes
         /\ Find(d, n) = 0 => \A k \in 1 .. Len(entries[d]) : entries[d][k].name # n
<1>1. entries[d] \in Row
  BY DEF Rolls
<1>2. /\ Len(entries[d]) \in Nat /\ DOMAIN entries[d] = 1 .. Len(entries[d])
      /\ \A k \in 1 .. Len(entries[d]) : entries[d][k] \in Entry
  BY <1>1, RowFacts
<1> DEFINE found == {k \in DOMAIN entries[d] : entries[d][k].name = n}
<1>3. Find(d, n) = IF found = {} THEN 0 ELSE Min(found)
  BY DEF Find
<1>4. found \in SUBSET Nat
  BY <1>2
<1>5. CASE found = {}
  <2>1. Find(d, n) = 0
    BY <1>3, <1>5
  <2>2. \A k \in 1 .. Len(entries[d]) : entries[d][k].name # n
    BY <1>2, <1>5
  <2>3. QED BY <1>2, <2>1, <2>2
<1>6. CASE found # {}
  <2>1. Min(found) \in found
    <3> HIDE DEF found
    <3>1. QED BY <1>4, <1>6, Least DEF Min
  <2>2. Find(d, n) \in 1 .. Len(entries[d])
    BY <1>2, <1>3, <1>6, <2>1
  <2>3. entries[d][Find(d, n)] \in Entry
    BY <1>2, <2>2
  <2>4. QED BY <1>2, <2>2, <2>3 DEF Entry
<1>7. QED BY <1>5, <1>6

\* The loop of dir_tree_locate: one name after the other.
LEMMA WalkingRuns ==
  ASSUME NEW path, Len(path) \in Nat
  PROVE  /\ Walking(path)[0] = Root
         /\ \A k \in 1 .. Len(path) :
              Walking(path)[k] = StepInto(Walking(path)[k - 1], path[k])
<1> DEFINE Turn(f, k) == IF k = 0 THEN Root ELSE StepInto(f[k - 1], path[k])
           Runs(f, n) == f = [k \in 0 .. n |-> Turn(f, k)]
           can == {n \in 0 .. Len(path) : \E f : Runs(f, n)}
<1>1. 0 \in can
  <2> DEFINE f0 == [k \in 0 .. 0 |-> Root]
  <2>1. Runs(f0, 0)
    OBVIOUS
  <2>2. \E f : Runs(f, 0)
    <3> HIDE DEF Runs, f0
    <3>1. QED BY <2>1
  <2>3. QED BY <2>2
<1>2. \A n \in 0 .. Len(path) - 1 : n \in can => n + 1 \in can
  <2>1. TAKE n \in 0 .. Len(path) - 1
  <2>2. HAVE n \in can
  <2>3. PICK f : Runs(f, n)
    BY <2>2
  <2> DEFINE g == [k \in 0 .. n + 1 |-> IF k = n + 1 THEN StepInto(f[n], path[n + 1]) ELSE f[k]]
  <2>4. \A j \in 0 .. n : f[j] = Turn(f, j)
    <3> HIDE DEF Turn
    <3>1. QED BY <2>3
  <2>5. \A k \in 0 .. n + 1 : g[k] = Turn(g, k)
    <3>1. TAKE k \in 0 .. n + 1
    <3>2. \A j \in 0 .. n : g[j] = f[j]
      OBVIOUS
    <3>3. CASE k = n + 1
      <4>1. g[k] = StepInto(f[n], path[n + 1]) /\ k # 0 /\ k - 1 = n /\ n \in 0 .. n
        BY <3>3
      <4>2. QED BY <3>2, <3>3, <4>1
    <3>4. CASE k # n + 1
      <4>1. k \in 0 .. n /\ f[k] = Turn(f, k) /\ (k # 0 => k - 1 \in 0 .. n)
        BY <2>4, <3>4
      <4>2. QED BY <3>2, <4>1
    <3>5. QED BY <3>3, <3>4
  <2>6. Runs(g, n + 1)
    BY <2>5
  <2>7. \E h : Runs(h, n + 1)
    <3> HIDE DEF Runs, g
    <3>1. QED BY <2>6
  <2>8. n + 1 \in 0 .. Len(path)
    OBVIOUS
  <2>9. QED BY <2>7, <2>8
<1>3. Len(path) \in can
  <2>1. \A n \in 0 .. Len(path) : n \in can
    <3> HIDE DEF can
    <3>1. QED BY <1>1, <1>2, Upwards
  <2>2. QED BY <2>1
<1>4. \E f : Runs(f, Len(path))
  BY <1>3
<1>5. Walking(path) = CHOOSE f : Runs(f, Len(path))
  BY DEF Walking
<1>6. Runs(Walking(path), Len(path))
  <2> HIDE DEF Runs
  <2>1. QED BY <1>4, <1>5
<1>7. \A k \in 0 .. Len(path) : Walking(path)[k] = Turn(Walking(path), k)
  <2> HIDE DEF Turn
  <2>1. QED BY <1>6
<1>8. QED BY <1>7

\* What a path leads to is the root or has a name.
LEMMA FoundIsNamed ==
  ASSUME entries \in Rolls, NEW i \in Found
  PROVE  /\ i \in Inodes
         /\ i = Root \/ \E d \in Inodes : \E k \in 1 .. Len(entries[d]) : entries[d][k].no = i
<1>1. PICK path \in Paths : i = Walk(path) /\ i \in Inodes
  BY DEF Found
<1>2. PICK l \in Nat : l = Len(path)
  <2>1. PICK m \in 0 .. MaxDepth : path \in [1 .. m -> Names]
    BY DEF Paths, SeqOf
  <2>2. m \in Nat
    BY BoundsAssumption
  <2>3. path \in Seq(Names)
    BY <2>1, <2>2, IsASeq
  <2>4. QED BY <2>3, LenProperties
<1>3. /\ Walking(path)[0] = Root
      /\ \A k \in 1 .. Len(path) : Walking(path)[k] = StepInto(Walking(path)[k - 1], path[k])
  BY <1>2, WalkingRuns
<1>4. CASE l = 0
  BY <1>1, <1>2, <1>3, <1>4 DEF Walk
<1>5. CASE l # 0
  <2> DEFINE d == Walking(path)[l - 1]
             n == path[l]
  <2>1. i = StepInto(d, n)
    <3>1. l \in 1 .. Len(path)
      BY <1>2, <1>5
    <3>2. QED BY <1>1, <1>2, <1>3, <3>1 DEF Walk
  <2> HIDE DEF d, n
  <2>2. d \in Inodes /\ Find(d, n) # 0 /\ i = entries[d][Find(d, n)].no
    BY <1>1, <2>1, InodesAssumption DEF StepInto
  <2>3. Find(d, n) \in 1 .. Len(entries[d])
    BY <2>2, FindFacts
  <2>4. QED BY <1>1, <2>2, <2>3
<1>6. QED BY <1>4, <1>5

\* A place that is an inode is a directory.
LEMMA PlaceIsDir ==
  ASSUME NEW d \in Places, d \in Inodes
  PROVE  IsDir(d)
BY InodesAssumption DEF Places

-----------------------------------------------------------------------------
(* The invariant: types always, more as long as nothing has ended it.      *)

Labels == {"half", "aborted", "torn", "astray", "scribbled"}
Calm == spoiled \subseteq {"aborted"}

Types ==
    /\ table \in Tables
    /\ entries \in Rolls
    /\ slots \in 0 .. MaxSlots
    /\ spoiled \subseteq Labels

Inv ==
    /\ Types
    /\ Sound => Sane(table, entries)
    /\ Calm => Exact(table, entries)

\* What Namespace allows a step to do, in terms of the tables and entries here:
\* nothing, a file without a name, a name more, a name less.
SameModes == \A i \in Inodes : table'[i].mode = table[i].mode
NewMode(i, m) ==
    table'[i].mode = m /\ \A j \in Inodes \ {i} : table'[j].mode = table[j].mode

Allowed ==
    \/ SameModes /\ entries' = entries
    \/ /\ entries' = entries
       /\ \E i \in Inodes, m \in {"file", "dir"} : table[i].mode = "empty" /\ NewMode(i, m)
    \/ \E d \in Inodes, b \in Entry :
          /\ table[d].mode = "dir" /\ OneMore(entries, entries', <<d, b>>)
          /\ \/ table[b.no].mode = "file" /\ SameModes
             \/ table[b.no].mode = "empty" /\ \E m \in {"file", "dir"} : NewMode(b.no, m)
    \/ \E d \in Inodes, b \in Entry :
          /\ entries[b.no] = << >> /\ OneMore(entries', entries, <<d, b>>)
          /\ \/ SameModes
             \/ Named(entries', b.no) = 0 /\ NewMode(b.no, "empty")

\* What is shown of every step.
Keeps == Inv' /\ (Sound' => Allowed)

\* After the format there is the root, and nothing else.
LEMMA InitInv == Init => Inv
<1> SUFFICES ASSUME Init PROVE Inv
  OBVIOUS
<1> USE InodesAssumption, BoundsAssumption
<1>1. table \in Tables
  BY DEF Init, Tables, Modes
<1>2. entries \in Rolls /\ \A d \in Inodes : entries[d] = << >>
  BY RowEmpty DEF Init, Rolls
<1>3. Types
  BY <1>1, <1>2 DEF Init, Types
<1>4. \A X : Num(entries, X) = 0
  <2>1. Len(<< >>) = 0
    OBVIOUS
  <2>2. \A d \in Inodes : Len(entries[d]) = 0
    BY <1>2, <2>1
  <2>3. QED BY <1>2, <2>2, NumZero
<1>5. /\ table[Root].mode = "dir" /\ table[Root].links = 1
      /\ \A i \in Inodes \ {Root} : table[i].mode = "empty" /\ table[i].links = 0
  BY DEF Init
<1>6. \A i \in Inodes : Named(entries, i) = 0
  BY <1>4 DEF Named
<1>7. Sane(table, entries)
  BY <1>2, <1>5, <1>6 DEF Sane
<1>8. Exact(table, entries)
  BY <1>5, <1>6 DEF Exact, Whole
<1>9. QED BY <1>3, <1>7, <1>8 DEF Inv

\* What has gone wrong is not forgotten.
LEMMA Noted ==
  ASSUME Types, NEW labels \in SUBSET Labels, Note(labels)
  PROVE  /\ spoiled' \subseteq Labels
         /\ Sound' => Sound /\ labels \subseteq {"half", "aborted"}
         /\ Calm' => Calm /\ Sound /\ labels \subseteq {"aborted"}
BY DEF Types, Note, Sound, Calm

\* Most calls, and the end of the program, leave the disk as it is.
LEMMA SameDisk ==
  ASSUME Inv, UNCHANGED <<table, entries>>, slots' \in 0 .. MaxSlots,
         NEW labels \in SUBSET Labels, Note(labels)
  PROVE  Keeps
<1>1. /\ spoiled' \subseteq Labels
      /\ Sound' => Sound /\ labels \subseteq {"half", "aborted"}
      /\ Calm' => Calm /\ Sound /\ labels \subseteq {"aborted"}
  BY Noted DEF Inv
<1>2. Inv'
  BY <1>1 DEF Inv, Types
<1>3. Allowed
  BY DEF Allowed, SameModes
<1>4. QED BY <1>2, <1>3 DEF Keeps

\* The same when nothing goes wrong.
LEMMA SameDiskQuiet ==
  ASSUME Inv, UNCHANGED <<table, entries, spoiled>>, slots' \in 0 .. MaxSlots
  PROVE  Keeps
<1>1. Note({})
  BY DEF Note
<1>2. QED BY <1>1, SameDisk

\* An inode is taken, and a name for it put into directory d.
LEMMA CreateNamedInv ==
  ASSUME Inv, NEW mode \in {"file", "dir"}, NEW d \in Inodes, IsDir(d),
         NEW n \in Names \cup {NoName}, NEW lost \in Nat, lost <= slots,
         CreateNamed(mode, d, n, lost)
  PROVE  Keeps
<1> USE BoundsAssumption
<1>1. PICK i \in Unused :
        /\ table' = [table EXCEPT ![i] = [mode |-> mode, links |-> 1]]
        /\ entries' = [entries EXCEPT ![i] = << >>, ![d] = With(d, n, i)]
  BY DEF CreateNamed
<1>2. /\ n \in Names /\ Len(entries[d]) < MaxEntries /\ i \in Inodes
      /\ table[i].mode = "empty" /\ i # d
      /\ table \in Tables /\ entries \in Rolls
  BY DEF CreateNamed, Unused, IsDir, Inv, Types
<1> DEFINE b == [name |-> n, no |-> i]
           f == [entries EXCEPT ![d] = Append(entries[d], b)]
<1>3. b \in Entry /\ b.no = i
  BY <1>2 DEF Entry
<1>4. /\ f \in Rolls /\ OneMore(entries, f, <<d, b>>)
      /\ \A j \in Inodes \ {d} : f[j] = entries[j]
  <2> HIDE DEF b
  <2>1. QED BY <1>2, <1>3, AddedOne
<1>5. entries' = [f EXCEPT ![i] = << >>]
  BY <1>1, <1>2 DEF With, Rolls
<1>6. /\ table'[i].mode = mode /\ table'[i].links = 1
      /\ \A j \in Inodes \ {i} : table'[j] = table[j]
      /\ table' \in Tables
  BY <1>1, <1>2 DEF Tables, Modes
<1>7. Types'
  <2> HIDE DEF f
  <2>1. entries' \in Rolls
    BY <1>2, <1>4, <1>5, RowEmpty DEF Rolls
  <2>2. QED BY <1>6, <2>1 DEF CreateNamed, Inv, Types
<1>8. spoiled' = spoiled
  BY DEF CreateNamed
<1>9. ASSUME Sound
      PROVE  Sane(table', entries') /\ (Calm => Exact(table', entries')) /\ Allowed
  <2> HIDE DEF b
  <2>1. Sane(table, entries)
    BY <1>9 DEF Inv
  <2>2. Sane(table', entries) /\ i # Root /\ Named(entries, i) = 0 /\ entries[i] = << >>
    BY <1>2, <1>6, <2>1, NewInode
  <2>3. entries' = f
    <3> HIDE DEF f
    <3>1. f[i] = << >>
      BY <1>2, <1>4, <2>2
    <3>2. QED BY <1>4, <1>5, <3>1 DEF Rolls
  <2> HIDE DEF f
  <2>4. table'[d].mode = "dir" /\ table[d].mode = "dir"
    BY <1>2, <1>6 DEF IsDir
  <2>5. Sane(table', f)
    <3>1. Named(entries, b.no) < table'[b.no].links /\ b.no # Root
      BY <1>3, <1>6, <2>2
    <3>2. QED BY <1>2, <1>3, <1>4, <1>6, <2>2, <2>4, <3>1, SparedName
  <2>6. ASSUME Calm PROVE Exact(table', f)
    <3>1. Exact(table, entries)
      BY <2>6 DEF Inv
    <3>2. table[b.no].mode = "empty" /\ table'[b.no].links = 1
      BY <1>2, <1>3, <1>6
    <3>3. \A j \in Inodes \ {b.no} : table'[j] = table[j]
      BY <1>3, <1>6
    <3>4. QED BY <1>2, <1>3, <1>4, <1>6, <2>1, <2>4, <3>1, <3>2, <3>3, ExactNew
  <2>7. Allowed
    <3>1. table[b.no].mode = "empty" /\ NewMode(b.no, mode)
      BY <1>2, <1>3, <1>6 DEF NewMode
    <3>2. QED BY <1>3, <1>4, <2>3, <2>4, <3>1 DEF Allowed
  <2>8. QED BY <2>3, <2>5, <2>6, <2>7
<1>10. Calm => Sound
  BY DEF Calm, Sound
<1>11. (Sound' <=> Sound) /\ (Calm' <=> Calm)
  BY <1>8 DEF Sound, Calm
<1>12. QED BY <1>7, <1>9, <1>10, <1>11 DEF Inv, Keeps

\* An inode is taken and has no name.
LEMMA CreateNamelessInv ==
  ASSUME Inv, NEW mode \in {"file", "dir"}, NEW d \in Inodes,
         NEW n \in Names \cup {NoName}, NEW lost \in Nat, lost <= slots,
         CreateNameless(mode, d, n, lost)
  PROVE  Keeps
<1> USE BoundsAssumption
<1>1. PICK i \in Unused :
        /\ table' = [table EXCEPT ![i] = [mode |-> mode, links |-> 1]]
        /\ entries' = [entries EXCEPT ![i] = << >>]
  BY DEF CreateNameless
<1>2. i \in Inodes /\ table[i].mode = "empty" /\ table \in Tables /\ entries \in Rolls
  BY DEF Unused, Inv, Types
<1>3. PICK labels \in SUBSET Labels : "half" \in labels /\ Note(labels)
  BY DEF CreateNameless, Labels
<1>4. /\ spoiled' \subseteq Labels
      /\ Sound' => Sound /\ labels \subseteq {"half", "aborted"}
      /\ Calm' => Calm /\ Sound /\ labels \subseteq {"aborted"}
  BY <1>3, Noted DEF Inv
<1>5. /\ table'[i].mode = mode /\ table'[i].links = 1
      /\ \A j \in Inodes \ {i} : table'[j] = table[j]
      /\ table' \in Tables
  BY <1>1, <1>2 DEF Tables, Modes
<1>6. Types'
  <2>1. entries' \in Rolls
    BY <1>1, <1>2, RowEmpty DEF Rolls
  <2>2. slots' \in 0 .. MaxSlots
    BY DEF CreateNameless, Inv, Types
  <2>3. QED BY <1>4, <1>5, <2>1, <2>2 DEF Types
<1>7. ASSUME Sound' PROVE Sane(table', entries') /\ Allowed
  <2>1. Sane(table, entries)
    BY <1>4, <1>7 DEF Inv
  <2>2. Sane(table', entries) /\ entries[i] = << >>
    BY <1>2, <1>5, <2>1, NewInode
  <2>3. entries' = entries
    BY <1>1, <1>2, <2>2 DEF Rolls
  <2>4. table[i].mode = "empty" /\ NewMode(i, mode)
    BY <1>2, <1>5 DEF NewMode
  <2>5. QED BY <1>2, <2>2, <2>3, <2>4 DEF Allowed
<1>8. ~Calm'
  BY <1>3, <1>4
<1>9. QED BY <1>6, <1>7, <1>8 DEF Inv, Keeps

\* base_file_unref takes a link away, or a slot only.
LEMMA UnrefFacts ==
  ASSUME Types, NEW i \in Inodes, slots > 0, Unref(i)
  PROVE  /\ table' \in Tables /\ slots' \in 0 .. MaxSlots
         /\ \A j \in Inodes \ {i} : table'[j] = table[j]
         /\ Stuck(i) => table' = table
         /\ ~Stuck(i) =>
              /\ table'[i].links = table[i].links - 1
              /\ table'[i].mode = IF table[i].links = 1 THEN "empty" ELSE table[i].mode
<1> USE BoundsAssumption
<1>1. /\ table[i].links \in 0 .. MaxLinks /\ table[i].mode \in Modes
      /\ table[i] \in [mode : Modes, links : 0 .. MaxLinks] /\ MaxLinks \in Nat
  BY DEF Types, Tables
<1>2. CASE table[i].links > 1
  <2>1. table' = [table EXCEPT ![i].links = table[i].links - 1] /\ slots' = slots
    BY <1>2 DEF Unref
  <2>2. table[i].links - 1 \in 0 .. MaxLinks /\ table[i].links # 1
    BY <1>1, <1>2
  <2>3. /\ table'[i].links = table[i].links - 1
        /\ table'[i].mode = table[i].mode
        /\ \A j \in Inodes \ {i} : table'[j] = table[j]
        /\ table' \in Tables
    BY <1>1, <2>1, <2>2 DEF Types, Tables
  <2>4. QED BY <2>1, <2>2, <2>3 DEF Stuck, Types
<1>3. CASE table[i].links = 1
  <2>1. /\ table' = IF Stuck(i) THEN table
                    ELSE [table EXCEPT ![i] = [mode |-> "empty", links |-> 0]]
        /\ slots' = slots - 1
    BY <1>3 DEF Unref
  <2>2. slots' \in 0 .. MaxSlots
    BY <2>1 DEF Types
  <2>3. CASE Stuck(i)
    BY <2>1, <2>2, <2>3 DEF Types
  <2>4. CASE ~Stuck(i)
    <3>1. table' = [table EXCEPT ![i] = [mode |-> "empty", links |-> 0]]
      BY <2>1, <2>4
    <3>2. /\ table'[i].links = 0 /\ table'[i].mode = "empty"
          /\ \A j \in Inodes \ {i} : table'[j] = table[j]
          /\ table' \in Tables
      BY <1>1, <3>1 DEF Types, Tables, Modes
    <3>3. QED BY <1>3, <2>2, <2>4, <3>2
  <2>5. QED BY <2>3, <2>4
<1>4. QED BY <1>2, <1>3 DEF Unref

\* dir_del, as an action.
LEMMA DirDelOne ==
  ASSUME entries \in Rolls, NEW d \in Inodes, NEW k \in 1 .. Len(entries[d]),
         entries' = [entries EXCEPT ![d] = Without(d, k)]
  PROVE  /\ entries' \in Rolls /\ OneMore(entries', entries, <<d, entries[d][k]>>)
         /\ \A j \in Inodes \ {d} : entries'[j] = entries[j]
<1>1. PICK r : r = Front([entries[d] EXCEPT ![k] = Last(entries[d])])
  OBVIOUS
<1>2. PICK f : f = [entries EXCEPT ![d] = r]
  OBVIOUS
<1>3. k # 0
  BY RowFacts DEF Rolls
<1>4. entries' = f
  BY <1>1, <1>2, <1>3 DEF Without
<1>5. f \in Rolls
  BY <1>1, <1>2, CutOne
<1>6. OneMore(f, entries, <<d, entries[d][k]>>)
  BY <1>1, <1>2, CutOne
<1>7. \A j \in Inodes \ {d} : f[j] = entries[j]
  BY <1>1, <1>2, CutOne
<1>8. QED BY <1>4, <1>5, <1>6, <1>7

\* An entry of d goes, of a file with nothing in it, and a link of the file.
LEMMA RemoveInv ==
  ASSUME Inv, slots > 0, NEW d \in Inodes, IsDir(d), NEW k \in 1 .. Len(entries[d]),
         NEW i \in Inodes, i = entries[d][k].no, Sound => entries[i] = << >>,
         entries' = [entries EXCEPT ![d] = Without(d, k)],
         Unref(i), Note(Half(i))
  PROVE  Keeps
<1>1. table \in Tables /\ entries \in Rolls
  BY DEF Inv, Types
<1>2. entries[d] \in Row /\ k # 0 /\ Len(entries[d]) \in Nat
  BY <1>1, RowFacts DEF Rolls
<1> DEFINE b == entries[d][k]
<1>3. b \in Entry /\ b.no = i
  BY <1>2, RowFacts
<1>5. /\ entries' \in Rolls /\ OneMore(entries', entries, <<d, b>>)
      /\ \A j \in Inodes \ {d} : entries'[j] = entries[j]
  BY <1>1, DirDelOne
<1> HIDE DEF b
<1>6. /\ table' \in Tables /\ slots' \in 0 .. MaxSlots
      /\ \A j \in Inodes \ {i} : table'[j] = table[j]
      /\ Stuck(i) => table' = table
      /\ ~Stuck(i) =>
           /\ table'[i].links = table[i].links - 1
           /\ table'[i].mode = IF table[i].links = 1 THEN "empty" ELSE table[i].mode
  BY UnrefFacts DEF Inv
<1>7. /\ spoiled' \subseteq Labels
      /\ Sound' => Sound
      /\ Calm' => Calm /\ Sound /\ ~Stuck(i)
  <2>1. Half(i) \in SUBSET Labels
    BY DEF Half, Labels
  <2>2. /\ spoiled' \subseteq Labels
        /\ Sound' => Sound /\ Half(i) \subseteq {"half", "aborted"}
        /\ Calm' => Calm /\ Sound /\ Half(i) \subseteq {"aborted"}
    BY <2>1, Noted DEF Inv
  <2>3. QED BY <2>2 DEF Half
<1>8. Types'
  BY <1>5, <1>6, <1>7 DEF Types
<1>9. ASSUME Sound
      PROVE  Sane(table', entries') /\ (Calm /\ ~Stuck(i) => Exact(table', entries')) /\ Allowed
  <2>1. Sane(table, entries) /\ entries[i] = << >>
    BY <1>9 DEF Inv
  <2>2. table[d].mode = "dir"
    BY DEF IsDir
  <2>3. /\ Sane(table, entries')
        /\ i # Root /\ Named(entries', i) < table[i].links
    <3>1. /\ Sane(table, entries')
          /\ b.no # Root /\ Named(entries', b.no) < table[b.no].links
      BY <1>1, <1>3, <1>5, <2>1, <2>2, NameGone
    <3>2. QED BY <1>3, <3>1
  <2>4. entries'[i] = << >>
    <3>1. Len(<< >>) = 0
      OBVIOUS
    <3>2. i # d
      BY <2>1, <3>1
    <3>3. QED BY <1>5, <2>1, <3>2
  <2>5. Sane(table', entries')
    <3>1. CASE Stuck(i)
      BY <1>6, <2>3, <3>1
    <3>2. CASE ~Stuck(i)
      <4>1. /\ table'[i].links = table[i].links - 1
            /\ table'[i].mode = IF table[i].links = 1 THEN "empty" ELSE table[i].mode
            /\ \A j \in Inodes \ {i} : table'[j] = table[j]
            /\ table' \in Tables /\ entries' \in Rolls
        BY <1>5, <1>6, <3>2
      <4>2. QED BY <1>1, <2>3, <2>4, <4>1, OneLinkLess, ZenonT(60)
    <3>3. QED BY <3>1, <3>2
  <2>6. ASSUME Calm, ~Stuck(i) PROVE Exact(table', entries')
    <3>1. Exact(table, entries)
      BY <2>6 DEF Inv
    <3>2. /\ table'[b.no].links = table[b.no].links - 1
          /\ table'[b.no].mode = IF table[b.no].links = 1 THEN "empty" ELSE table[b.no].mode
          /\ \A j \in Inodes \ {b.no} : table'[j] = table[j]
          /\ entries'[b.no] = << >> /\ b.no # Root
      BY <1>3, <1>6, <2>3, <2>4, <2>6
    <3>3. QED BY <1>1, <1>3, <1>5, <1>6, <2>1, <2>3, <3>1, <3>2, ExactLess
  <2>7. SameModes \/ (Named(entries', i) = 0 /\ NewMode(i, "empty"))
    <3>1. CASE Stuck(i)
      BY <1>6, <3>1 DEF SameModes
    <3>2. CASE ~Stuck(i) /\ table[i].links = 1
      <4>1. Named(entries', i) \in Nat /\ Named(entries', i) < 1
        BY <1>5, <2>3, <3>2, AtFacts DEF Named
      <4>2. Named(entries', i) = 0
        BY <4>1
      <4>3. QED BY <1>6, <3>2, <4>2 DEF NewMode
    <3>3. CASE ~Stuck(i) /\ table[i].links # 1
      <4>1. table'[i].mode = table[i].mode /\ \A j \in Inodes \ {i} : table'[j] = table[j]
        BY <1>6, <3>3
      <4>2. QED BY <4>1 DEF SameModes
    <3>4. QED BY <3>1, <3>2, <3>3
  <2>8. Allowed
    <3>1. /\ entries[b.no] = << >> /\ OneMore(entries', entries, <<d, b>>)
          /\ SameModes \/ (Named(entries', b.no) = 0 /\ NewMode(b.no, "empty"))
      BY <1>3, <1>5, <2>1, <2>7
    <3>2. QED BY <1>3, <3>1 DEF Allowed
  <2>9. QED BY <2>5, <2>6, <2>8
<1>10. QED BY <1>7, <1>8, <1>9 DEF Inv, Keeps

\* What a call may rely on.
LEMMA CallTypes ==
  ASSUME Inv, NEW d \in Inodes, NEW n
  PROVE  /\ table \in Tables /\ entries \in Rolls /\ slots \in Nat /\ MaxSlots \in Nat
         /\ slots <= MaxSlots
         /\ Find(d, n) # 0 =>
              /\ Find(d, n) \in 1 .. Len(entries[d])
              /\ entries[d][Find(d, n)] \in Entry
              /\ entries[d][Find(d, n)].no \in Inodes
BY FindFacts, BoundsAssumption DEF Inv, Types

\* fulfs_open for writing, and fulfs_symlink, of a name that is there already.
LEMMA WriteExistingInv ==
  ASSUME Inv, NEW d \in Inodes, NEW k, NEW lost \in Nat, lost <= slots,
         WriteExisting(d, k, lost)
  PROVE  Keeps
<1> DEFINE labels == IF IsDir(entries[d][k].no) THEN {"scribbled"} ELSE {}
<1>1. labels \in SUBSET Labels /\ Note(labels)
  BY DEF WriteExisting, Labels
<1>2. slots' \in 0 .. MaxSlots
  BY BoundsAssumption DEF WriteExisting, Inv, Types
<1> HIDE DEF labels
<1>3. QED BY <1>1, <1>2, SameDisk DEF WriteExisting

\* A new file or directory, with its name or without.
LEMMA CreateInv ==
  ASSUME Inv, NEW mode \in {"file", "dir"}, NEW d \in Inodes, IsDir(d),
         NEW n \in Names \cup {NoName}, NEW lost \in Nat, lost <= slots,
         Create(mode, d, n, lost)
  PROVE  Keeps
BY CreateNamedInv, CreateNamelessInv DEF Create

\* fulfs_open, write, close; fulfs_symlink.
LEMMA WritesInv ==
  ASSUME Inv, NEW d \in Places, NEW n \in Names \cup {NoName},
         WriteFile(d, n) \/ Symlink(d, n)
  PROVE  Keeps
<1>1. d \in Inodes /\ slots \in Nat
  BY DEF WriteFile, Symlink, Inv, Types
<1>2. IsDir(d)
  BY <1>1, PlaceIsDir
<1>3. PICK lost \in Nat :
        /\ lost <= slots
        /\ WriteExisting(d, Find(d, n), lost) \/ Create("file", d, n, lost)
  <2>1. CASE WriteFile(d, n)
    BY <1>1, <2>1 DEF WriteFile
  <2>2. CASE Symlink(d, n)
    BY <1>1, <2>2 DEF Symlink
  <2>3. QED BY <2>1, <2>2
<1>4. CASE WriteExisting(d, Find(d, n), lost)
  BY <1>1, <1>3, <1>4, WriteExistingInv
<1>5. CASE Create("file", d, n, lost)
  BY <1>1, <1>2, <1>3, <1>5, CreateInv
<1>6. QED BY <1>3, <1>4, <1>5

\* fulfs_mkdir.
LEMMA MkdirInv ==
  ASSUME Inv, NEW place \in Places, NEW n \in Names \cup {NoName}, Mkdir(place, n)
  PROVE  Keeps
<1>1. PICK d \in Landing(place) : IsDir(d) /\ Create("dir", d, n, 0)
  BY DEF Mkdir
<1>2. d \in Inodes
  BY DEF Landing
<1>3. 0 \in Nat /\ 0 <= slots
  BY BoundsAssumption DEF Inv, Types
<1>4. QED BY <1>1, <1>2, <1>3, CreateInv

\* fulfs_rmdir, of a name that is there or of none.
LEMMA RmdirInv ==
  ASSUME Inv, NEW place \in Places, NEW n \in Names \cup {NoName}, Rmdir(place, n)
  PROVE  Keeps
<1>1. PICK d \in Landing(place) :
        /\ IsDir(d)
        /\ \E i \in IF Find(d, n) = 0 THEN Inodes ELSE {entries[d][Find(d, n)].no} :
              /\ IsDir(i) /\ entries[i] = << >>
              /\ entries' = [entries EXCEPT ![d] = Without(d, Find(d, n))]
              /\ Unref(i)
              /\ Note(Half(i) \cup IF Find(d, n) = 0 THEN {"astray"} ELSE {})
  BY DEF Rmdir
<1>2. d \in Inodes /\ slots > 0
  BY DEF Landing, Rmdir
<1> DEFINE k == Find(d, n)
<1>3. /\ table \in Tables /\ entries \in Rolls
      /\ k # 0 => k \in 1 .. Len(entries[d]) /\ entries[d][k].no \in Inodes
  BY <1>2, CallTypes
<1>4. PICK i \in IF k = 0 THEN Inodes ELSE {entries[d][k].no} :
        /\ IsDir(i) /\ entries[i] = << >>
        /\ entries' = [entries EXCEPT ![d] = Without(d, k)]
        /\ Unref(i)
        /\ Note(Half(i) \cup IF k = 0 THEN {"astray"} ELSE {})
  BY <1>1
<1> HIDE DEF k
<1>5. i \in Inodes
  BY <1>3
<1>6. CASE k # 0
  <2>1. i = entries[d][k].no
    BY <1>6
  <2>2. Note(Half(i))
    <3>1. Half(i) \cup {} = Half(i)
      OBVIOUS
    <3>2. QED BY <1>4, <1>6, <3>1
  <2>3. QED BY <1>1, <1>2, <1>3, <1>4, <1>5, <1>6, <2>1, <2>2, RemoveInv
<1>7. CASE k = 0
  <2>1. entries' = entries
    BY <1>3, <1>4, <1>7 DEF Without, Rolls
  <2>2. table' \in Tables /\ slots' \in 0 .. MaxSlots
    BY <1>2, <1>4, <1>5, UnrefFacts DEF Inv
  <2>3. spoiled' \subseteq Labels /\ "astray" \in spoiled'
    BY <1>4, <1>7 DEF Note, Half, Labels, Inv, Types
  <2>4. QED BY <1>3, <2>1, <2>2, <2>3 DEF Inv, Types, Sound, Calm, Keeps
<1>8. QED BY <1>6, <1>7

\* fulfs_unlink.
LEMMA UnlinkInv ==
  ASSUME Inv, NEW d \in Places, NEW n \in Names \cup {NoName}, Unlink(d, n)
  PROVE  Keeps
<1>1. d \in Inodes /\ slots > 0 /\ Find(d, n) # 0
  BY DEF Unlink
<1>2. IsDir(d)
  BY <1>1, PlaceIsDir
<1>3. PICK k : k = Find(d, n)
  OBVIOUS
<1>4. k \in 1 .. Len(entries[d]) /\ entries[d][k].no \in Inodes
  BY <1>1, <1>3, CallTypes
<1>5. PICK i \in Inodes : i = entries[d][k].no
  BY <1>4
<1>6. /\ ~IsDir(i) /\ entries' = [entries EXCEPT ![d] = Without(d, k)]
      /\ Unref(i) /\ Note(Half(i))
  BY <1>3, <1>5 DEF Unlink
<1>7. Sound => entries[i] = << >>
  BY <1>6 DEF Inv, Sane, IsDir
<1>8. QED BY <1>1, <1>2, <1>4, <1>5, <1>6, <1>7, RemoveInv

\* A link is counted for a file that is there.
LEMMA LinkCounted ==
  ASSUME Inv, NEW i \in Found, ~IsDir(i), table[i].links < MaxLinks,
         table' = [table EXCEPT ![i].links = @ + 1]
  PROVE  /\ i \in Inodes /\ table' \in Tables
         /\ table'[i].links = table[i].links + 1 /\ table'[i].mode = table[i].mode
         /\ \A j \in Inodes \ {i} : table'[j] = table[j]
         /\ Sound => /\ Sane(table', entries) /\ i # Root
                     /\ table[i].mode # "empty" /\ Named(entries, i) < table'[i].links
<1>1. table \in Tables /\ entries \in Rolls /\ MaxLinks \in Nat
  BY BoundsAssumption DEF Inv, Types
<1>2. /\ i \in Inodes
      /\ i = Root \/ \E d \in Inodes : \E k \in 1 .. Len(entries[d]) : entries[d][k].no = i
  BY <1>1, FoundIsNamed
<1>3. /\ table[i].links \in 0 .. MaxLinks
      /\ table[i] \in [mode : Modes, links : 0 .. MaxLinks]
  BY <1>1, <1>2 DEF Tables
<1>4. /\ table'[i].links = table[i].links + 1 /\ table'[i].mode = table[i].mode
      /\ \A j \in Inodes \ {i} : table'[j] = table[j]
      /\ table' \in Tables
  <2>1. table[i].links + 1 \in 0 .. MaxLinks
    BY <1>1, <1>3
  <2>2. QED BY <1>1, <1>2, <1>3, <2>1 DEF Tables
<1>5. ASSUME Sound
      PROVE  /\ Sane(table', entries) /\ i # Root
             /\ table[i].mode # "empty" /\ Named(entries, i) < table'[i].links
  <2>1. Sane(table, entries) /\ table[i].mode # "dir"
    BY <1>5 DEF Inv, IsDir
  <2>2. i # Root
    BY <2>1 DEF Sane
  <2>3. table[i].mode # "empty"
    BY <1>1, <1>2, <2>1, <2>2, NamedIsUsed
  <2>4. QED BY <1>1, <1>2, <1>4, <2>1, <2>3, OneLinkMore, ZenonT(60)
<1>6. QED BY <1>2, <1>4, <1>5

\* fulfs_link.
LEMMA LinkInv ==
  ASSUME Inv, NEW i \in Found, NEW d \in Places, NEW n \in Names \cup {NoName}, Link(i, d, n)
  PROVE  Keeps
<1> USE BoundsAssumption
<1>1. /\ n \in Names /\ ~IsDir(i) /\ table[i].links < MaxLinks /\ spoiled' = spoiled
      /\ slots' = slots
  BY DEF Link
<1>2. CASE UNCHANGED <<table, entries>>
  <2>1. slots' \in 0 .. MaxSlots
    BY <1>1 DEF Inv, Types
  <2>2. QED BY <1>1, <1>2, <2>1, SameDiskQuiet
<1>3. CASE /\ d \in Inodes /\ Len(entries[d]) < MaxEntries
           /\ table' = [table EXCEPT ![i].links = @ + 1]
           /\ entries' = [entries EXCEPT ![d] = With(d, n, i)]
  <2>1. /\ i \in Inodes /\ table' \in Tables
        /\ table'[i].links = table[i].links + 1 /\ table'[i].mode = table[i].mode
        /\ \A j \in Inodes \ {i} : table'[j] = table[j]
        /\ Sound => /\ Sane(table', entries) /\ i # Root
                    /\ table[i].mode # "empty" /\ Named(entries, i) < table'[i].links
    BY <1>1, <1>3, LinkCounted
  <2>2. PICK b \in Entry : b = [name |-> n, no |-> i]
    BY <1>1, <2>1 DEF Entry
  <2>3. b.no = i /\ table \in Tables /\ entries \in Rolls /\ d \in Inodes
    BY <1>3, <2>2 DEF Inv, Types
  <2>4. entries' = [entries EXCEPT ![d] = Append(entries[d], b)]
    BY <1>3, <2>2 DEF With
  <2>5. /\ entries' \in Rolls /\ OneMore(entries, entries', <<d, b>>)
        /\ \A j \in Inodes \ {d} : entries'[j] = entries[j]
    <3>1. PICK f : f = [entries EXCEPT ![d] = Append(entries[d], b)]
      OBVIOUS
    <3>2. Len(entries[d]) < MaxEntries
      BY <1>3
    <3>3. f \in Rolls
      BY <2>3, <3>1, <3>2, AddedOne
    <3>4. OneMore(entries, f, <<d, b>>)
      BY <2>3, <3>1, <3>2, AddedOne
    <3>5. \A j \in Inodes \ {d} : f[j] = entries[j]
      BY <2>3, <3>1, <3>2, AddedOne
    <3>6. QED BY <2>4, <3>1, <3>3, <3>4, <3>5
  <2>6. Types'
    BY <1>1, <2>1, <2>5 DEF Inv, Types
  <2>7. table[d].mode = "dir" /\ d # i
    BY <1>1, <2>3, PlaceIsDir DEF IsDir
  <2>8. table'[d].mode = "dir"
    BY <2>1, <2>3, <2>7
  <2>9. ASSUME Sound PROVE Sane(table', entries')
    <3>1. Sane(table', entries) /\ b.no # Root /\ Named(entries, b.no) < table'[b.no].links
      BY <2>1, <2>3, <2>9
    <3>2. QED BY <2>1, <2>3, <2>5, <2>8, <3>1, SparedName
  <2>10. ASSUME Calm PROVE Exact(table', entries')
    <3>1. Sound /\ Sane(table, entries) /\ Exact(table, entries)
      BY <2>10 DEF Inv, Calm, Sound
    <3>2. /\ b.no # Root
          /\ table'[b.no].mode = table[b.no].mode /\ table'[b.no].links = table[b.no].links + 1
          /\ \A j \in Inodes \ {b.no} : table'[j] = table[j]
      BY <2>1, <2>3, <3>1
    <3>3. QED BY <2>1, <2>3, <2>5, <3>1, <3>2, ExactLinked
  <2>11. ASSUME Sound PROVE Allowed
    <3>1. table[b.no].mode \in Modes /\ table[b.no].mode # "empty" /\ table[b.no].mode # "dir"
      <4>1. table[i].mode \in Modes
        BY <2>1, <2>3 DEF Tables
      <4>2. QED BY <1>1, <2>1, <2>3, <2>11, <4>1 DEF IsDir
    <3>2. table[b.no].mode = "file"
      BY <3>1 DEF Modes
    <3>3. SameModes
      BY <2>1 DEF SameModes
    <3>4. QED BY <2>3, <2>5, <2>7, <3>2, <3>3 DEF Allowed
  <2>12. (Sound' <=> Sound) /\ (Calm' <=> Calm)
    BY <1>1 DEF Sound, Calm
  <2>13. QED BY <2>6, <2>9, <2>10, <2>11, <2>12 DEF Inv, Keeps
<1>4. QED BY <1>2, <1>3 DEF Link

\* fulfs_link that dies between the link and the entry.
LEMMA LinkHalfwayInv ==
  ASSUME Inv, NEW i \in Found, NEW d \in Places, NEW n \in Names \cup {NoName},
         LinkHalfway(i, d, n)
  PROVE  Keeps
<1>1. /\ ~IsDir(i) /\ table[i].links < MaxLinks /\ entries' = entries /\ slots' = MaxSlots
      /\ table' = [table EXCEPT ![i].links = @ + 1]
  BY DEF LinkHalfway
<1>2. /\ table' \in Tables
      /\ Sound => Sane(table', entries)
      /\ i \in Inodes /\ table'[i].mode = table[i].mode
      /\ \A j \in Inodes \ {i} : table'[j] = table[j]
  BY <1>1, LinkCounted
<1>3. PICK labels \in SUBSET Labels : "half" \in labels /\ Note(labels)
  <2>1. \E labels \in {{"half", "aborted"}, {"half"}} : Note(labels)
    BY DEF LinkHalfway
  <2>2. QED BY <2>1 DEF Labels
<1>4. /\ spoiled' \subseteq Labels
      /\ Sound' => Sound /\ labels \subseteq {"half", "aborted"}
      /\ Calm' => Calm /\ Sound /\ labels \subseteq {"aborted"}
  BY <1>3, Noted DEF Inv
<1>5. Types' /\ ~Calm'
  BY <1>1, <1>2, <1>3, <1>4, BoundsAssumption DEF Inv, Types
<1>6. Allowed
  BY <1>1, <1>2 DEF Allowed, SameModes
<1>7. QED BY <1>1, <1>2, <1>4, <1>5, <1>6 DEF Inv, Keeps

\* unlink or rmdir dies between the entry and the link.
LEMMA CrashInUnlinkInv ==
  ASSUME Inv, NEW d \in Places, NEW n \in Names \cup {NoName}, CrashInUnlink(d, n)
  PROVE  Keeps
<1>1. d \in Inodes /\ Find(d, n) # 0
  BY DEF CrashInUnlink, Removable
<1>2. IsDir(d)
  BY <1>1, PlaceIsDir
<1>3. PICK k : k = Find(d, n)
  OBVIOUS
<1>4. k \in 1 .. Len(entries[d]) /\ table \in Tables /\ entries \in Rolls
  BY <1>1, <1>3, CallTypes
<1>5. /\ entries' = [entries EXCEPT ![d] = Without(d, k)]
      /\ slots' = MaxSlots /\ table' = table /\ Note({"half"})
  BY <1>3 DEF CrashInUnlink
<1>6. PICK b \in Entry : b = entries[d][k]
  BY <1>4, <1>1, <1>3, CallTypes
<1>7. /\ entries' \in Rolls /\ OneMore(entries', entries, <<d, b>>)
      /\ \A j \in Inodes \ {d} : entries'[j] = entries[j]
  BY <1>1, <1>4, <1>5, <1>6, DirDelOne
<1>8. /\ spoiled' \subseteq Labels
      /\ Sound' => Sound
      /\ ~Calm'
  BY <1>5, Noted DEF Labels, Inv
<1>9. Types'
  BY <1>4, <1>5, <1>7, <1>8, BoundsAssumption DEF Types
<1>10. ASSUME Sound PROVE Sane(table, entries') /\ Allowed
  <2>1. Sane(table, entries) /\ table[d].mode = "dir"
    BY <1>2, <1>10 DEF Inv, IsDir
  <2>2. Sane(table, entries')
    BY <1>1, <1>4, <1>7, <2>1, NameGone
  <2>3. entries[b.no] = << >>
    <3>1. IsDir(b.no) => entries[b.no] = << >>
      BY <1>3, <1>6 DEF CrashInUnlink, Removable
    <3>2. b.no \in Inodes
      BY DEF Entry
    <3>3. QED BY <2>1, <3>1, <3>2 DEF Sane, IsDir
  <2>4. SameModes
    BY <1>5 DEF SameModes
  <2>5. QED BY <1>1, <1>7, <2>2, <2>3, <2>4 DEF Allowed
<1>11. QED BY <1>5, <1>8, <1>9, <1>10 DEF Inv, Keeps

\* dir_del dies with an entry in two places.
LEMMA CrashInDirDelInv ==
  ASSUME Inv, NEW d \in Places, NEW n \in Names \cup {NoName}, CrashInDirDel(d, n)
  PROVE  Keeps
<1>1. d \in Inodes /\ Find(d, n) # 0
  BY DEF CrashInDirDel, Removable
<1>2. PICK k : k = Find(d, n)
  OBVIOUS
<1>3. k \in 1 .. Len(entries[d]) /\ table \in Tables /\ entries \in Rolls
  BY <1>1, <1>2, CallTypes
<1>4. PICK q \in Row : q = entries[d]
  BY <1>1, <1>3 DEF Rolls
<1>5. q \in Seq(Entry) /\ Len(q) \in 0 .. MaxEntries /\ q[Len(q)] \in Entry /\ k \in 1 .. Len(q)
  <2>1. q \in Seq(Entry) /\ Len(q) \in 0 .. MaxEntries /\ k \in 1 .. Len(q)
    BY <1>3, <1>4, Rows
  <2>2. Len(q) \in 1 .. Len(q)
    BY <2>1
  <2>3. QED BY <2>1, <2>2, RowFacts
<1>6. [q EXCEPT ![k] = q[Len(q)]] \in Row
  <2>1. /\ [q EXCEPT ![k] = q[Len(q)]] \in Seq(Entry)
        /\ Len([q EXCEPT ![k] = q[Len(q)]]) = Len(q)
    BY <1>5, ExceptSeq
  <2>2. QED BY <1>5, <2>1, Rows
<1>7. /\ entries' = [entries EXCEPT ![d] = [q EXCEPT ![k] = q[Len(q)]]]
      /\ slots' = MaxSlots /\ table' = table /\ Note({"torn"})
  BY <1>2, <1>4 DEF CrashInDirDel, Last
<1>8. entries' \in Rolls
  BY <1>3, <1>6, <1>7 DEF Rolls
<1>9. spoiled' \subseteq Labels /\ ~Sound' /\ ~Calm'
  BY <1>7, Noted DEF Labels, Inv
<1>10. QED BY <1>3, <1>7, <1>8, <1>9, BoundsAssumption DEF Inv, Types, Keeps

\* Calls that take a slot, or find none.
LEMMA QuietInv ==
  ASSUME Inv,
         \/ \E d \in Places, n \in Names \cup {NoName} : UnlinkDir(d, n)
         \/ \E d \in Places : SymlinkFails(d)
         \/ \E i \in Found : LinkDir(i)
         \/ Stat
         \/ Restart
  PROVE  Keeps
<1>1. UNCHANGED <<table, entries, spoiled>>
  BY DEF UnlinkDir, SymlinkFails, LinkDir, Stat, Restart, Leak
<1>2. slots' \in 0 .. MaxSlots
  BY BoundsAssumption DEF UnlinkDir, SymlinkFails, LinkDir, Stat, Restart, Leak, Inv, Types
<1>3. QED BY <1>1, <1>2, SameDiskQuiet

\* An assertion fails before anything was changed.
LEMMA AbortInv ==
  ASSUME Inv, NEW d \in Places, Abort(d)
  PROVE  Keeps
<1>1. /\ UNCHANGED <<table, entries>> /\ Note({"aborted"})
      /\ slots' \in 0 .. MaxSlots /\ {"aborted"} \in SUBSET Labels
  BY BoundsAssumption DEF Abort, Labels
<1>2. QED BY <1>1, SameDisk

\* Every step keeps the invariant and does what Namespace allows.
LEMMA NextKeeps == Inv /\ [Next]_vars => Keeps
<1> SUFFICES ASSUME Inv, [Next]_vars PROVE Keeps
  OBVIOUS
<1>1. CASE UNCHANGED vars
  <2>1. UNCHANGED <<table, entries, spoiled>> /\ slots' \in 0 .. MaxSlots
    BY <1>1 DEF vars, Inv, Types
  <2>2. QED BY <2>1, SameDiskQuiet
<1>2. CASE \E d \in Places, n \in Names \cup {NoName} : Call(d, n)
  <2>1. PICK d \in Places, n \in Names \cup {NoName} : Call(d, n)
    BY <1>2
  <2>2. CASE WriteFile(d, n) \/ Symlink(d, n)
    BY <2>2, WritesInv
  <2>3. CASE Mkdir(d, n)
    BY <2>3, MkdirInv
  <2>4. CASE Rmdir(d, n)
    BY <2>4, RmdirInv
  <2>5. CASE Unlink(d, n)
    BY <2>5, UnlinkInv
  <2>6. CASE UnlinkDir(d, n)
    BY <2>6, QuietInv
  <2>7. CASE \E i \in Found : Link(i, d, n)
    BY <2>7, LinkInv
  <2>8. QED BY <2>1, <2>2, <2>3, <2>4, <2>5, <2>6, <2>7 DEF Call
<1>3. CASE \E d \in Places, n \in Names \cup {NoName} : Death(d, n)
  BY <1>3, CrashInUnlinkInv, CrashInDirDelInv, LinkHalfwayInv DEF Death
<1>4. CASE \E d \in Places : Abort(d)
  BY <1>4, AbortInv
<1>5. CASE \/ \E d \in Places : SymlinkFails(d)
           \/ \E i \in Found : LinkDir(i)
           \/ Stat
           \/ Restart
  BY <1>5, QuietInv
<1>6. QED BY <1>1, <1>2, <1>3, <1>4, <1>5 DEF Next

\* Whatever the calls are and wherever the program dies.
THEOREM Invariance == Spec => []Inv
<1>1. Init => Inv
  BY InitInv
<1>2. Inv /\ [Next]_vars => Inv'
  BY NextKeeps DEF Keeps
<1>3. QED BY <1>1, <1>2, PTL DEF Spec

-----------------------------------------------------------------------------
(* What the runs check.                                                    *)

\* The type invariant: an inode has links exactly when it is in use, and only
\* directories have entries, until a history that promises nothing more.
THEOREM TypeCorrect == Spec => []TypeOK
<1>1. Inv => TypeOK
  BY DEF Inv, Types, Sane, TypeOK, Tables, Rolls, Row, Labels, IsDir
<1>2. QED BY <1>1, Invariance, PTL

\* However calls fail and wherever the program dies outside dir_del, there are
\* as many links as names at least: no entry for a file that was deleted.
THEOREM LinksDoCover == Spec => []LinksCover
<1>1. ASSUME Inv, Sound, NEW i \in Inodes
      PROVE  /\ table[i].links >= Count(i)
             /\ IsDir(i) => table[i].links = 1
             /\ i = Root => Count(i) = 0 /\ IsDir(i)
  <2>1. Sane(table, entries) /\ Count(i) = Named(entries, i)
    BY <1>1 DEF Inv, Count, Where, Named, Num, At
  <2>2. table[i].links \in Nat /\ Named(entries, i) \in Nat
    BY <1>1, AtFacts DEF Inv, Types, Tables, Named
  <2>3. QED BY <2>1, <2>2 DEF Sane, IsDir
<1>2. Inv => LinksCover
  BY <1>1 DEF LinksCover
<1>3. QED BY <1>2, Invariance, PTL

\* Links are names exactly, until a call is left half done.
THEOREM LinksAreExact == Spec => []LinksExact
<1>1. ASSUME NEW i \in Inodes PROVE Count(i) = Named(entries, i)
  BY DEF Count, Where, Named, Num, At
<1>2. Inv => LinksExact
  BY <1>1 DEF Inv, Calm, Exact, LinksExact
<1>3. QED BY <1>2, Invariance, PTL

\* What is in use is what names lead to from the root: directories form no
\* islands, and nothing leads to an inode that is free.
THEOREM AllIsReachable == Spec => []AllReachable
<1>1. ASSUME Inv, spoiled \subseteq {"aborted"}
      PROVE  Inodes \ Unused = Reach
  <2>1. /\ table \in Tables /\ entries \in Rolls
        /\ Sane(table, entries) /\ Exact(table, entries)
    BY <1>1 DEF Inv, Types, Calm, Sound
  <2>2. ASSUME NEW S \in SUBSET Inodes PROVE Closed(S) <=> Whole(entries, S)
    <3>1. \A d \in Inodes : DOMAIN entries[d] = 1 .. Len(entries[d])
      BY <2>1, RowFacts DEF Rolls
    <3>2. \A d \in Inodes : \A k \in 1 .. Len(entries[d]) : entries[d][k] \in Entry
      BY <2>1, NamedIsUsed
    <3>3. Num(entries, Leaving(S)) = 0 <=>
            \A d \in Inodes : \A k \in 1 .. Len(entries[d]) :
              <<d, entries[d][k]>> \notin Leaving(S)
      BY <2>1, NumZero
    <3>4. \A d \in Inodes : \A k \in 1 .. Len(entries[d]) :
            <<d, entries[d][k]>> \in Leaving(S) <=> d \in S /\ entries[d][k].no \notin S
      BY <3>2 DEF Leaving, Pairs
    <3>5. Num(entries, Leaving(S)) = 0 <=>
            \A d \in S : \A k \in DOMAIN entries[d] : entries[d][k].no \in S
      <4>1. ASSUME Num(entries, Leaving(S)) = 0, NEW d \in S, NEW k \in DOMAIN entries[d]
            PROVE  entries[d][k].no \in S
        <5>1. d \in Inodes /\ k \in 1 .. Len(entries[d])
          BY <3>1
        <5>2. QED BY <3>3, <3>4, <4>1, <5>1
      <4>2. ASSUME \A d \in S : \A k \in DOMAIN entries[d] : entries[d][k].no \in S
            PROVE  Num(entries, Leaving(S)) = 0
        <5>1. ASSUME NEW d \in Inodes, NEW k \in 1 .. Len(entries[d])
              PROVE  <<d, entries[d][k]>> \notin Leaving(S)
          BY <3>1, <3>4, <4>2
        <5>2. QED BY <3>3, <5>1
      <4>3. QED BY <4>1, <4>2
    <3>6. QED BY <3>5 DEF Closed, Whole
  <2>3. \A i \in Inodes \ Unused : i \in Reach
    BY <2>1, <2>2 DEF Reach, Exact, Unused
  <2>4. Closed(Inodes \ Unused)
    <3>1. Root \in Inodes \ Unused
      BY <2>1, InodesAssumption DEF Sane, Unused
    <3>2. \A d \in Inodes : \A k \in DOMAIN entries[d] : entries[d][k].no \in Inodes \ Unused
      <4>1. \A d \in Inodes : DOMAIN entries[d] = 1 .. Len(entries[d])
        BY <2>1, RowFacts DEF Rolls
      <4>2. QED BY <2>1, <4>1, NamedIsUsed DEF Unused
    <3>3. QED BY <3>1, <3>2 DEF Closed
  <2>5. Reach \subseteq Inodes \ Unused
    BY <2>4 DEF Reach
  <2>6. QED BY <2>3, <2>5
<1>2. Inv => AllReachable
  BY <1>1 DEF AllReachable
<1>3. QED BY <1>2, Invariance, PTL

-----------------------------------------------------------------------------
(* Directory implements Namespace.                                         *)

Kinds(t) == [i \in Inodes |-> t[i].mode]
Bound(e) == [d \in Inodes |-> [b \in Entry |-> Cardinality({k \in DOMAIN e[d] : e[d][k] = b})]]

\* How often a directory binds a name is a number of entries.
LEMMA BoundIsNum ==
  ASSUME NEW e \in Rolls, NEW d \in Inodes, NEW b \in Entry
  PROVE  Bound(e)[d][b] = Num(e, {<<d, b>>})
<1> DEFINE K == {k \in DOMAIN e[d] : e[d][k] = b}
           A == At(e, {<<d, b>>})
           f == [k \in K |-> <<d, k>>]
<1>1. DOMAIN e[d] = 1 .. Len(e[d]) /\ Len(e[d]) \in 0 .. MaxEntries
  BY RowFacts DEF Rolls
<1>2. IsFiniteSet(K)
  <2>1. IsFiniteSet(1 .. Len(e[d])) /\ K \in SUBSET (1 .. Len(e[d]))
    BY <1>1, FS_Interval
  <2>2. QED BY <2>1, FS_Subset
<1>3. \A i, k : <<i, k>> \in A <=> i = d /\ k \in K
  <2>1. \A i, k : <<i, k>> \in A <=>
          i \in Inodes /\ k \in 1 .. Len(e[i]) /\ <<i, e[i][k]>> \in {<<d, b>>}
    BY AtFacts
  <2>2. QED BY <1>1, <2>1
<1>4. A \subseteq Inodes \X (1 .. MaxEntries)
  BY AtFacts
<1>5. f \in Bijection(K, A)
  <2>1. f \in [K -> A]
    BY <1>3
  <2>2. f \in Injection(K, A)
    BY <2>1 DEF Injection, IsInjective
  <2>3. f \in Surjection(K, A)
    <3> HIDE DEF A, K
    <3>1. ASSUME NEW x \in A PROVE \E k \in K : f[k] = x
      <4>1. PICK i, k : x = <<i, k>>
        BY <1>4
      <4>2. i = d /\ k \in K /\ f[k] = x
        BY <1>3, <4>1
      <4>3. QED BY <4>2
    <3> HIDE DEF f
    <3>2. QED BY <2>1, <3>1 DEF Surjection
  <2>4. QED BY <2>2, <2>3 DEF Bijection
<1>6. Cardinality(A) = Cardinality(K)
  <2> HIDE DEF A, K, f
  <2>1. ExistsBijection(K, A)
    BY <1>5 DEF ExistsBijection
  <2>2. QED BY <1>2, <2>1, FS_Bijection
<1>7. QED BY <1>6 DEF Bound, Num

\* An entry more is a binding more.
LEMMA OneMoreBound ==
  ASSUME NEW e \in Rolls, NEW f \in Rolls, NEW d \in Inodes, NEW b \in Entry,
         OneMore(e, f, <<d, b>>)
  PROVE  /\ Bound(f) = [Bound(e) EXCEPT ![d][b] = @ + 1]
         /\ Bound(e) = [Bound(f) EXCEPT ![d][b] = @ - 1]
         /\ Bound(f)[d][b] > 0
<1>1. \A j \in Inodes, c \in Entry :
        /\ Bound(e)[j][c] \in Nat /\ Bound(f)[j][c] \in Nat
        /\ Bound(f)[j][c] = Bound(e)[j][c] + IF j = d /\ c = b THEN 1 ELSE 0
  <2>1. TAKE j \in Inodes, c \in Entry
  <2>2. /\ Bound(e)[j][c] = Num(e, {<<j, c>>}) /\ Bound(f)[j][c] = Num(f, {<<j, c>>})
        /\ Num(e, {<<j, c>>}) \in Nat /\ Num(f, {<<j, c>>}) \in Nat
    BY BoundIsNum, AtFacts
  <2>3. Num(f, {<<j, c>>}) = Num(e, {<<j, c>>}) + IF <<d, b>> \in {<<j, c>>} THEN 1 ELSE 0
    BY DEF OneMore
  <2>4. <<d, b>> \in {<<j, c>>} <=> j = d /\ c = b
    OBVIOUS
  <2>5. QED BY <2>2, <2>3, <2>4
<1> DEFINE B == [Inodes -> [Entry -> Nat]]
<1>2. Bound(e) \in B /\ Bound(f) \in B
  <2>1. \A j \in Inodes : /\ Bound(e)[j] = [c \in Entry |-> Bound(e)[j][c]]
                          /\ Bound(f)[j] = [c \in Entry |-> Bound(f)[j][c]]
    BY DEF Bound
  <2>2. /\ Bound(e) = [j \in Inodes |-> Bound(e)[j]]
        /\ Bound(f) = [j \in Inodes |-> Bound(f)[j]]
    BY DEF Bound
  <2>3. \A j \in Inodes : Bound(e)[j] \in [Entry -> Nat] /\ Bound(f)[j] \in [Entry -> Nat]
    BY <1>1, <2>1
  <2>4. QED BY <2>2, <2>3
<1>3. PICK g \in B, h \in B : g = Bound(e) /\ h = Bound(f)
  BY <1>2
<1>4. \A j \in Inodes, c \in Entry : h[j][c] = g[j][c] + IF j = d /\ c = b THEN 1 ELSE 0
  BY <1>1, <1>3
<1>5. h = [g EXCEPT ![d][b] = @ + 1]
  <2>1. \A j \in Inodes, c \in Entry : h[j][c] = [g EXCEPT ![d][b] = @ + 1][j][c]
    BY <1>4
  <2>2. \A j \in Inodes : h[j] = [g EXCEPT ![d][b] = @ + 1][j]
    BY <2>1
  <2>3. QED BY <2>2
<1>6. g = [h EXCEPT ![d][b] = @ - 1]
  <2>1. \A j \in Inodes, c \in Entry : g[j][c] = [h EXCEPT ![d][b] = @ - 1][j][c]
    BY <1>4
  <2>2. \A j \in Inodes : g[j] = [h EXCEPT ![d][b] = @ - 1][j]
    BY <2>1
  <2>3. QED BY <2>2
<1>7. h[d][b] > 0
  BY <1>4
<1>8. QED BY <1>3, <1>5, <1>6, <1>7

\* A step that is allowed is one of Namespace, or changes nothing there.
LEMMA AllowedMaps ==
  ASSUME table \in Tables, entries \in Rolls, entries' \in Rolls,
         Sound, Sound', Allowed
  PROVE  [Abstract!Next]_(Abstract!vars)
<1> DEFINE kind == [i \in Inodes |-> table[i].mode]
           kindNew == [i \in Inodes |-> table'[i].mode]
<1>1. SameModes => kindNew = kind
  BY DEF SameModes
<1>2. \A i \in Inodes, m \in Modes : NewMode(i, m) => kindNew = [kind EXCEPT ![i] = m]
  BY DEF NewMode
<1>3. \A i \in Inodes : kind[i] = table[i].mode
  OBVIOUS
<1>4. \A b \in Entry : b \in Abstract!Binding /\ b.no \in Inodes
  BY DEF Entry, Abstract!Binding
<1>5. CASE SameModes /\ entries' = entries
  BY <1>1, <1>5 DEF Abstract!vars
<1>6. CASE /\ entries' = entries
           /\ \E i \in Inodes, m \in {"file", "dir"} : table[i].mode = "empty" /\ NewMode(i, m)
  <2>1. PICK i \in Inodes, m \in {"file", "dir"} : table[i].mode = "empty" /\ NewMode(i, m)
    BY <1>6
  <2>2. kind[i] = "empty" /\ kindNew = [kind EXCEPT ![i] = m]
    BY <1>2, <1>3, <2>1 DEF Modes
  <2>3. Abstract!CreateNameless(i, m)
    BY <1>6, <2>2 DEF Abstract!CreateNameless
  <2>4. QED BY <2>3 DEF Abstract!Next
<1>7. ASSUME NEW d \in Inodes, NEW b \in Entry,
             table[d].mode = "dir", OneMore(entries, entries', <<d, b>>),
             \/ table[b.no].mode = "file" /\ SameModes
             \/ table[b.no].mode = "empty" /\ \E m \in {"file", "dir"} : NewMode(b.no, m)
      PROVE  Abstract!Next
  <2>1. Bound(entries') = [Bound(entries) EXCEPT ![d][b] = @ + 1]
    BY <1>7, OneMoreBound
  <2>2. kind[d] = "dir"
    BY <1>3, <1>7
  <2>3. Abstract!Bind(d, b)
    BY <2>1, <2>2 DEF Abstract!Bind, Bound
  <2>4. CASE table[b.no].mode = "file" /\ SameModes
    <3>1. kind[b.no] = "file" /\ kindNew = kind
      BY <1>1, <1>3, <1>4, <2>4
    <3>2. Abstract!Link(d, b)
      BY <2>3, <3>1 DEF Abstract!Link
    <3>3. QED BY <1>4, <3>2 DEF Abstract!Next
  <2>5. CASE table[b.no].mode = "empty" /\ \E m \in {"file", "dir"} : NewMode(b.no, m)
    <3>1. PICK m \in {"file", "dir"} : NewMode(b.no, m)
      BY <2>5
    <3>2. kind[b.no] = "empty" /\ kindNew = [kind EXCEPT ![b.no] = m]
      BY <1>2, <1>3, <1>4, <2>5, <3>1, ZenonT(60) DEF Modes
    <3>3. Abstract!Create(d, b, m)
      BY <2>3, <3>2 DEF Abstract!Create
    <3>4. QED BY <1>4, <3>3 DEF Abstract!Next
  <2>6. QED BY <1>7, <2>4, <2>5
<1>8. ASSUME NEW d \in Inodes, NEW b \in Entry,
             entries[b.no] = << >>, OneMore(entries', entries, <<d, b>>),
             SameModes \/ (Named(entries', b.no) = 0 /\ NewMode(b.no, "empty"))
      PROVE  Abstract!Next
  <2>1. /\ Bound(entries') = [Bound(entries) EXCEPT ![d][b] = @ - 1]
        /\ Bound(entries)[d][b] > 0
    BY <1>8, OneMoreBound
  <2>2. \A c \in Entry : Bound(entries)[b.no][c] = 0
    <3>1. TAKE c \in Entry
    <3>2. {k \in DOMAIN entries[b.no] : entries[b.no][k] = c} = {}
      BY <1>8
    <3>3. Cardinality({}) = 0
      BY FS_EmptySet
    <3>4. QED BY <1>4, <3>2, <3>3 DEF Bound
  <2>3. Abstract!BindsNothing(b.no)
    BY <2>2 DEF Abstract!BindsNothing, Abstract!Binding, Bound, Entry
  <2>4. UNCHANGED ~Sound
    BY DEF Sound
  <2>5. CASE SameModes
    <3>1. kindNew = kind
      BY <1>1, <2>5
    <3>2. Abstract!Unlink(d, b)
      BY <2>1, <2>3, <2>4, <3>1 DEF Abstract!Unlink, Bound
    <3>3. QED BY <1>4, <3>2 DEF Abstract!Next
  <2>6. CASE Named(entries', b.no) = 0 /\ NewMode(b.no, "empty")
    <3>1. kindNew = [kind EXCEPT ![b.no] = "empty"]
      BY <1>2, <1>4, <2>6 DEF Modes
    <3>2. \A j \in Inodes, c \in Entry : c.no = b.no => Bound(entries')[j][c] = 0
      <4>1. TAKE j \in Inodes, c \in Entry
      <4>2. HAVE c.no = b.no
      <4>3. {<<j, c>>} \subseteq Naming(b.no)
        BY <4>2 DEF Naming
      <4>4. Num(entries', {<<j, c>>}) <= 0 /\ Num(entries', {<<j, c>>}) \in Nat
        BY <2>6, <4>3, NumMonotonic, AtFacts DEF Named
      <4>5. QED BY <4>4, BoundIsNum
    <3>3. Abstract!NotBound(b.no)'
      BY <3>2 DEF Abstract!NotBound, Abstract!Binding, Bound, Entry
    <3>4. Abstract!Unlink(d, b)
      BY <2>1, <2>3, <2>4, <3>1, <3>3 DEF Abstract!Unlink, Bound
    <3>5. QED BY <1>4, <3>4 DEF Abstract!Next
  <2>7. QED BY <1>8, <2>5, <2>6
<1>9. QED BY <1>5, <1>6, <1>7, <1>8 DEF Allowed

\* What Namespace does not follow stays so.
LEMMA SpoiledStays == [Next]_vars => (Sound' => Sound)
<1> SUFFICES ASSUME [Next]_vars, Sound' PROVE Sound
  OBVIOUS
<1>1. spoiled \subseteq spoiled'
  BY DEF Next, vars, Call, Death, WriteFile, WriteExisting, Create, CreateNamed, CreateNameless,
         Mkdir, Rmdir, Unlink, UnlinkDir, Symlink, SymlinkFails, Link, LinkDir, LinkHalfway,
         Abort, Stat, Leak, Restart, CrashInUnlink, CrashInDirDel, Note
<1>2. QED BY <1>1 DEF Sound

\* The calls keep the promise of Namespace, whatever fails and wherever the
\* program dies outside dir_del.
THEOREM NamespaceIsKept == Spec => NamespaceKept
<1>1. Init => Abstract!Init
  <2> SUFFICES ASSUME Init PROVE Abstract!Init
    OBVIOUS
  <2>1. [i \in Inodes |-> table[i].mode] = [i \in Inodes |-> IF i = Root THEN "dir" ELSE "empty"]
    BY DEF Init
  <2>2. [d \in Inodes |-> [b \in Entry |-> Cardinality({k \in DOMAIN entries[d] : entries[d][k] = b})]]
          = [d \in Inodes |-> [b \in Entry |-> 0]]
    <3>1. \A d \in Inodes, b \in Entry : {k \in DOMAIN entries[d] : entries[d][k] = b} = {}
      BY DEF Init
    <3>2. Cardinality({}) = 0
      BY FS_EmptySet
    <3>3. QED BY <3>1, <3>2
  <2>3. Sound
    BY DEF Init, Sound
  <2>4. QED BY <2>1, <2>2, <2>3 DEF Abstract!Init, Abstract!Binding, Entry
<1>2. Inv /\ [Next]_vars => [Abstract!Next]_(Abstract!vars)
  <2> SUFFICES ASSUME Inv, [Next]_vars PROVE [Abstract!Next]_(Abstract!vars)
    OBVIOUS
  <2>1. CASE Sound'
    <3>1. Inv' /\ Allowed
      BY <2>1, NextKeeps DEF Keeps
    <3>2. Sound
      BY <2>1, SpoiledStays
    <3>3. QED BY <2>1, <3>1, <3>2, AllowedMaps DEF Inv, Types
  <2>2. CASE ~Sound'
    <3>1. Abstract!Break
      BY <2>2 DEF Abstract!Break
    <3>2. QED BY <3>1 DEF Abstract!Next
  <2>3. QED BY <2>1, <2>2
<1>3. QED BY <1>1, <1>2, Invariance, PTL DEF Spec, NamespaceKept, Abstract!Spec

=============================================================================

----------------------------- MODULE PathsProofs -----------------------------
(***************************************************************************)
(* Proofs about Paths: what path_simplify computes, for every path.  The   *)
(* loop is a recursive function of the components read so far, and the     *)
(* proof is an induction over them (Upwards): the buffer holds the         *)
(* components that are not called off yet, each as far from its end as it   *)
(* is from being called off (Keeps).                                       *)
(***************************************************************************)
EXTENDS Paths, Induction, SequenceTheorems

-----------------------------------------------------------------------------
(* Sequences without their last entry.                                     *)

\* Front leaves out the last entry.
LEMMA Fronts ==
  ASSUME NEW S, NEW s \in Seq(S) \ {<< >>}
  PROVE  /\ Len(s) \in Nat \ {0} /\ Front(s) \in Seq(S) /\ Last(s) \in S
         /\ Len(Front(s)) = Len(s) - 1
         /\ \A k \in 1 .. Len(s) - 1 : Front(s)[k] = s[k]
<1>1. Len(s) \in Nat \ {0} /\ \A k \in 1 .. Len(s) : s[k] \in S
  BY EmptySeq, ElementOfSeq
<1>2. 1 \in Int /\ Len(s) - 1 \in Int /\ \A k \in 1 .. Len(s) - 1 : s[k] \in S /\ 1 + k - 1 = k
  BY <1>1
<1>3. /\ SubSeq(s, 1, Len(s) - 1) \in Seq(S)
      /\ Len(SubSeq(s, 1, Len(s) - 1)) = IF 1 <= Len(s) - 1 THEN Len(s) - 1 - 1 + 1 ELSE 0
      /\ \A k \in 1 .. Len(s) - 1 - 1 + 1 : SubSeq(s, 1, Len(s) - 1)[k] = s[1 + k - 1]
  BY <1>2, SubSeqProperties
<1>4. Len(s) - 1 - 1 + 1 = Len(s) - 1 /\ Len(s) \in 1 .. Len(s)
  BY <1>1
<1>5. QED BY <1>1, <1>2, <1>3, <1>4 DEF Front, Last

\* A prefix of a sequence.
LEMMA PrefixFacts ==
  ASSUME NEW S, NEW s \in Seq(S), NEW q \in 1 .. Len(s)
  PROVE  /\ SubSeq(s, 1, q) \in Seq(S) /\ Len(SubSeq(s, 1, q)) = q
         /\ \A r \in 1 .. q : SubSeq(s, 1, q)[r] = s[r]
<1>1. 1 \in Int /\ q \in Int /\ \A r \in 1 .. q : s[r] \in S
  BY LenProperties
<1>2. /\ SubSeq(s, 1, q) \in Seq(S)
      /\ Len(SubSeq(s, 1, q)) = IF 1 <= q THEN q - 1 + 1 ELSE 0
      /\ \A r \in 1 .. q - 1 + 1 : SubSeq(s, 1, q)[r] = s[1 + r - 1]
  BY <1>1, SubSeqProperties
<1>3. q - 1 + 1 = q /\ 1 <= q /\ \A r \in 1 .. q : 1 + r - 1 = r
  BY <1>1
<1>4. QED BY <1>2, <1>3

-----------------------------------------------------------------------------
(* The two recursive functions.                                            *)

\* The loop of path_simplify: one turn for every component after the first.
LEMMA SimplifyingRuns ==
  ASSUME NEW p, Len(p) \in Nat \ {0}
  PROVE  /\ Simplifying(p)[1] = [buf |-> <<p[1]>>, state |-> "in"]
         /\ \A k \in 2 .. Len(p) : Simplifying(p)[k] = Put(Simplifying(p)[k - 1], p[k])
<1> DEFINE Start == [buf |-> <<p[1]>>, state |-> "in"]
           Turn(f, k) == IF k = 1 THEN Start ELSE Put(f[k - 1], p[k])
           Runs(f, n) == f = [k \in 1 .. n |-> Turn(f, k)]
           can == {n \in 1 .. Len(p) : \E f : Runs(f, n)}
<1>1. 1 \in can
  <2> DEFINE f1 == [k \in 1 .. 1 |-> Start]
  <2>1. Runs(f1, 1)
    OBVIOUS
  <2>2. \E f : Runs(f, 1)
    <3> HIDE DEF Runs, f1
    <3>1. QED BY <2>1
  <2>3. 1 \in 1 .. Len(p)
    OBVIOUS
  <2>4. QED BY <2>2, <2>3
<1>2. \A n \in 1 .. Len(p) - 1 : n \in can => n + 1 \in can
  <2>1. TAKE n \in 1 .. Len(p) - 1
  <2>2. HAVE n \in can
  <2>3. PICK f : Runs(f, n)
    BY <2>2
  <2> DEFINE g == [k \in 1 .. n + 1 |-> IF k = n + 1 THEN Put(f[n], p[n + 1]) ELSE f[k]]
  <2>3a. \A j \in 1 .. n : f[j] = Turn(f, j)
    <3> HIDE DEF Turn
    <3>1. QED BY <2>3
  <2>4. \A k \in 1 .. n + 1 : g[k] = Turn(g, k)
    <3>1. TAKE k \in 1 .. n + 1
    <3>2. \A j \in 1 .. n : g[j] = f[j]
      OBVIOUS
    <3>3. CASE k = n + 1
      <4>1. g[k] = Put(f[n], p[n + 1]) /\ k # 1 /\ k - 1 = n /\ n \in 1 .. n
        BY <3>3
      <4>2. QED BY <3>2, <3>3, <4>1
    <3>4. CASE k # n + 1
      <4>1. k \in 1 .. n /\ f[k] = Turn(f, k) /\ (k # 1 => k - 1 \in 1 .. n)
        BY <2>3a, <3>4
      <4>2. QED BY <3>2, <4>1
    <3>5. QED BY <3>3, <3>4
  <2>5. Runs(g, n + 1)
    BY <2>4
  <2>6. \E h : Runs(h, n + 1)
    <3> HIDE DEF Runs, g
    <3>1. QED BY <2>5
  <2>7. n + 1 \in 1 .. Len(p)
    OBVIOUS
  <2>8. QED BY <2>6, <2>7
<1>3. Len(p) \in can
  <2>1. \A n \in 1 .. Len(p) : n \in can
    <3> HIDE DEF can
    <3>1. QED BY <1>1, <1>2, Upwards
  <2>2. QED BY <2>1
<1>4. \E f : Runs(f, Len(p))
  BY <1>3
<1>5. Simplifying(p) = CHOOSE f : Runs(f, Len(p))
  BY DEF Simplifying
<1>6. Runs(Simplifying(p), Len(p))
  <2> HIDE DEF Runs
  <2>1. QED BY <1>4, <1>5
<1>7. \A k \in 1 .. Len(p) : Simplifying(p)[k] = Turn(Simplifying(p), k)
  BY <1>6
<1>8. 1 \in 1 .. Len(p) /\ \A k \in 2 .. Len(p) : k \in 1 .. Len(p) /\ k # 1
  OBVIOUS
<1>9. QED BY <1>7, <1>8

\* The recursion in Survivors.
LEMMA SurvivingRuns ==
  ASSUME NEW p, Len(p) \in Nat \ {0}
  PROVE  /\ Surviving(p)[1] = <<p[1]>>
         /\ \A k \in 2 .. Len(p) :
               Surviving(p)[k] = IF Survives(p, k) THEN Append(Surviving(p)[k - 1], p[k])
                                 ELSE Surviving(p)[k - 1]
<1> DEFINE Turn(f, k) == IF k = 1 THEN <<p[1]>>
                         ELSE IF Survives(p, k) THEN Append(f[k - 1], p[k]) ELSE f[k - 1]
           Runs(f, n) == f = [k \in 1 .. n |-> Turn(f, k)]
           can == {n \in 1 .. Len(p) : \E f : Runs(f, n)}
<1>1. 1 \in can
  <2> DEFINE f1 == [k \in 1 .. 1 |-> <<p[1]>>]
  <2>1. Runs(f1, 1)
    OBVIOUS
  <2>2. \E f : Runs(f, 1)
    <3> HIDE DEF Runs, f1
    <3>1. QED BY <2>1
  <2>3. 1 \in 1 .. Len(p)
    OBVIOUS
  <2>4. QED BY <2>2, <2>3
<1>2. \A n \in 1 .. Len(p) - 1 : n \in can => n + 1 \in can
  <2>1. TAKE n \in 1 .. Len(p) - 1
  <2>2. HAVE n \in can
  <2>3. PICK f : Runs(f, n)
    BY <2>2
  <2> DEFINE g == [k \in 1 .. n + 1 |-> IF k = n + 1 THEN Turn(f, n + 1) ELSE f[k]]
  <2>3a. \A j \in 1 .. n : f[j] = Turn(f, j)
    <3> HIDE DEF Turn
    <3>1. QED BY <2>3
  <2>4. \A k \in 1 .. n + 1 : g[k] = Turn(g, k)
    <3>1. TAKE k \in 1 .. n + 1
    <3>2. \A j \in 1 .. n : g[j] = f[j]
      OBVIOUS
    <3>3. CASE k = n + 1
      <4>1. g[k] = Turn(f, n + 1) /\ k # 1 /\ k - 1 = n /\ n \in 1 .. n
        BY <3>3
      <4>2. QED BY <3>2, <3>3, <4>1
    <3>4. CASE k # n + 1
      <4>1. k \in 1 .. n /\ f[k] = Turn(f, k) /\ (k # 1 => k - 1 \in 1 .. n)
        BY <2>3a, <3>4
      <4>2. QED BY <3>2, <4>1
    <3>5. QED BY <3>3, <3>4
  <2>5. Runs(g, n + 1)
    BY <2>4
  <2>6. \E h : Runs(h, n + 1)
    <3> HIDE DEF Runs, g
    <3>1. QED BY <2>5
  <2>7. n + 1 \in 1 .. Len(p)
    OBVIOUS
  <2>8. QED BY <2>6, <2>7
<1>3. Len(p) \in can
  <2>1. \A n \in 1 .. Len(p) : n \in can
    <3> HIDE DEF can
    <3>1. QED BY <1>1, <1>2, Upwards
  <2>2. QED BY <2>1
<1>4. \E f : Runs(f, Len(p))
  BY <1>3
<1>5. Surviving(p) = CHOOSE f : Runs(f, Len(p))
  BY DEF Surviving
<1>6. Runs(Surviving(p), Len(p))
  <2> HIDE DEF Runs
  <2>1. QED BY <1>4, <1>5
<1>7. \A k \in 1 .. Len(p) : Surviving(p)[k] = Turn(Surviving(p), k)
  BY <1>6
<1>8. 1 \in 1 .. Len(p) /\ \A k \in 2 .. Len(p) : k \in 1 .. Len(p) /\ k # 1
  OBVIOUS
<1>9. QED BY <1>7, <1>8

-----------------------------------------------------------------------------
(* Balances.                                                               *)

\* A component adds one, ".." takes one away.
LEMMA BalanceStep ==
  ASSUME NEW p, NEW i \in Nat, NEW k \in Nat, i <= k + 1
  PROVE  /\ Balance(p, i, k) \in Int
         /\ i = k + 1 => Balance(p, i, k) = 0
         /\ Balance(p, i, k + 1) = Balance(p, i, k) + (IF Kept(p[k + 1]) THEN 1
                                                       ELSE IF p[k + 1] = ".." THEN -1 ELSE 0)
<1> DEFINE Names(n) == {j \in i .. n : Kept(p[j])}
           Dots(n)  == {j \in i .. n : p[j] = ".."}
<1>1. \A n \in Nat : /\ IsFiniteSet(Names(n)) /\ Cardinality(Names(n)) \in Nat
                     /\ IsFiniteSet(Dots(n)) /\ Cardinality(Dots(n)) \in Nat
  <2>1. TAKE n \in Nat
  <2>2. IsFiniteSet(i .. n) /\ Names(n) \subseteq i .. n /\ Dots(n) \subseteq i .. n
    BY FS_Interval
  <2>3. IsFiniteSet(Names(n)) /\ IsFiniteSet(Dots(n))
    <3> HIDE DEF Names, Dots
    <3>1. QED BY <2>2, FS_Subset
  <2>4. QED BY <2>3, FS_CardinalityType
<1>2. \A n \in Nat : Balance(p, i, n) = Cardinality(Names(n)) - Cardinality(Dots(n))
  BY DEF Balance
<1>3. i = k + 1 => Names(k) = {} /\ Dots(k) = {}
  OBVIOUS
<1>4. k + 1 \in i .. k + 1 /\ i .. k + 1 = (i .. k) \cup {k + 1} /\ k + 1 \notin i .. k
  OBVIOUS
<1>5. /\ Names(k + 1) = IF Kept(p[k + 1]) THEN Names(k) \cup {k + 1} ELSE Names(k)
      /\ k + 1 \notin Names(k)
  BY <1>4
<1>6. /\ Dots(k + 1) = IF p[k + 1] = ".." THEN Dots(k) \cup {k + 1} ELSE Dots(k)
      /\ k + 1 \notin Dots(k)
  BY <1>4
<1>7. ".." = p[k + 1] => ~Kept(p[k + 1])
  BY DEF Kept
<1> HIDE DEF Names, Dots
<1>8. /\ IsFiniteSet(Names(k)) /\ Cardinality(Names(k)) \in Nat
      /\ IsFiniteSet(Dots(k)) /\ Cardinality(Dots(k)) \in Nat
  BY <1>1
<1>9. /\ Cardinality(Names(k + 1)) = Cardinality(Names(k)) + (IF Kept(p[k + 1]) THEN 1 ELSE 0)
      /\ Cardinality(Dots(k + 1)) = Cardinality(Dots(k)) + (IF p[k + 1] = ".." THEN 1 ELSE 0)
  <2>1. /\ Cardinality(Names(k) \cup {k + 1}) = Cardinality(Names(k)) + 1
        /\ Cardinality(Dots(k) \cup {k + 1}) = Cardinality(Dots(k)) + 1
    BY <1>5, <1>6, <1>8, FS_AddElement
  <2>2. QED BY <1>5, <1>6, <1>8, <2>1
<1>10. i = k + 1 => Cardinality(Names(k)) = 0 /\ Cardinality(Dots(k)) = 0
  BY <1>3, FS_EmptySet
<1>11. /\ Balance(p, i, k) = Cardinality(Names(k)) - Cardinality(Dots(k))
       /\ Balance(p, i, k + 1) = Cardinality(Names(k + 1)) - Cardinality(Dots(k + 1))
  BY <1>2
<1>12. QED BY <1>7, <1>8, <1>9, <1>10, <1>11

-----------------------------------------------------------------------------
(* The loop, after k components.                                           *)

\* Survives, Climbs and GoesOn, of the first k components of p.
LivesTo(p, i, k) == Kept(p[i]) /\ \A j \in i .. k : Balance(p, i, j) > 0
ClimbsTo(p, k)   == \E j \in 2 .. k : Balance(p, 2, j) < 0
GoesOnTo(p, k)   == \E j \in 2 .. k : Kept(p[j]) /\ ClimbsTo(p, j - 1)

\* The entries of the buffer come from places pos of the path, in order; after
\* the first one they are the components that live on.
Places(p, k, buf, pos) ==
    /\ pos \in [1 .. Len(buf) -> 1 .. k] /\ pos[1] = 1
    /\ \A r, q \in 1 .. Len(buf) : r < q => pos[r] < pos[q]
    /\ \A r \in 1 .. Len(buf) : buf[r] = p[pos[r]]
    /\ \A i \in 2 .. k : LivesTo(p, i, k) <=> \E r \in 2 .. Len(buf) : pos[r] = i

\* Each of them is called off by as many ".." as there are entries from it on.
Keeps(p, k, buf, pos) ==
    /\ Places(p, k, buf, pos)
    /\ \A r \in 2 .. Len(buf) : Balance(p, pos[r], k) = Len(buf) - r + 1
    /\ Balance(p, 2, k) = Len(buf) - 1

Cleaned(C) == [buf : Seq(C) \ {<< >>}, state : {"in", "under", "overrun"}]

Stuck(p, k, s) == s.buf = <<p[1]>> /\ ClimbsTo(p, k)

Reads(p, k, s) ==
    \/ s.state = "in" /\ ~ClimbsTo(p, k) /\ \E pos : Keeps(p, k, s.buf, pos)
    \/ /\ s.state = "under" /\ Stuck(p, k, s) /\ ~GoesOnTo(p, k)
       /\ Balance(p, 2, k) < 0 /\ \A i \in 2 .. k : ~LivesTo(p, i, k)
    \/ s.state = "overrun" /\ Stuck(p, k, s) /\ GoesOnTo(p, k)

\* What one more component changes.
LEMMA OneMore ==
  ASSUME NEW p, NEW k \in Nat \ {0}
  PROVE  /\ \A i \in 2 .. k : LivesTo(p, i, k + 1) <=> LivesTo(p, i, k) /\ Balance(p, i, k + 1) > 0
         /\ LivesTo(p, k + 1, k + 1) <=> Kept(p[k + 1])
         /\ ClimbsTo(p, k + 1) <=> ClimbsTo(p, k) \/ Balance(p, 2, k + 1) < 0
         /\ GoesOnTo(p, k + 1) <=> GoesOnTo(p, k) \/ (Kept(p[k + 1]) /\ ClimbsTo(p, k))
<1>1. \A i \in 2 .. k + 1 : i .. k + 1 = (i .. k) \cup {k + 1}
  OBVIOUS
<1>2. k + 1 \in 2 .. k + 1 /\ (k + 1) - 1 = k /\ k + 1 .. k = {}
  OBVIOUS
<1>3. \A i \in 2 .. k : LivesTo(p, i, k + 1) <=> LivesTo(p, i, k) /\ Balance(p, i, k + 1) > 0
  BY <1>1 DEF LivesTo
<1>4. LivesTo(p, k + 1, k + 1) <=> Kept(p[k + 1]) /\ Balance(p, k + 1, k + 1) > 0
  BY <1>1, <1>2 DEF LivesTo
<1>5. Kept(p[k + 1]) => Balance(p, k + 1, k + 1) = 1
  <2>1. SUFFICES ASSUME NEW i \in Nat, i = k + 1, Kept(p[i])
                 PROVE  Balance(p, i, k + 1) = 1
    OBVIOUS
  <2>2. k \in Nat /\ i <= k + 1
    BY <2>1
  <2>3. Balance(p, i, k) = 0 /\ Balance(p, i, k + 1) = Balance(p, i, k) + 1
    BY <2>1, <2>2, BalanceStep
  <2>4. QED BY <2>3
<1>6. ClimbsTo(p, k + 1) <=> ClimbsTo(p, k) \/ Balance(p, 2, k + 1) < 0
  <2>1. 2 .. k + 1 = (2 .. k) \cup {k + 1}
    OBVIOUS
  <2>2. QED BY <2>1 DEF ClimbsTo
<1>7. GoesOnTo(p, k + 1) <=> GoesOnTo(p, k) \/ (Kept(p[k + 1]) /\ ClimbsTo(p, k))
  <2>1. 2 .. k + 1 = (2 .. k) \cup {k + 1}
    OBVIOUS
  <2>2. QED BY <1>2, <2>1 DEF GoesOnTo
<1>8. QED BY <1>3, <1>4, <1>5, <1>6, <1>7

\* A turn with a component that is kept, while the buffer is intact.
LEMMA KeptTurn ==
  ASSUME NEW p, NEW k \in Nat \ {0}, NEW C, NEW buf \in Seq(C) \ {<< >>}, NEW pos,
         Keeps(p, k, buf, pos), Kept(p[k + 1]), p[k + 1] \in C
  PROVE  \E new : Keeps(p, k + 1, Append(buf, p[k + 1]), new)
<1> DEFINE buf2 == Append(buf, p[k + 1])
           new == [r \in 1 .. Len(buf) + 1 |-> IF r = Len(buf) + 1 THEN k + 1 ELSE pos[r]]
<1>1. /\ Len(buf) \in Nat \ {0} /\ Len(buf2) = Len(buf) + 1
      /\ \A r \in 1 .. Len(buf) : buf2[r] = buf[r]
      /\ buf2[Len(buf) + 1] = p[k + 1]
  <2>1. Len(buf) \in Nat \ {0}
    BY EmptySeq
  <2>2. QED BY <2>1, AppendProperties
<1> HIDE DEF buf2
<1>2. /\ pos \in [1 .. Len(buf) -> 1 .. k] /\ pos[1] = 1
      /\ \A r, q \in 1 .. Len(buf) : r < q => pos[r] < pos[q]
      /\ \A r \in 1 .. Len(buf) : buf[r] = p[pos[r]]
      /\ \A i \in 2 .. k : LivesTo(p, i, k) <=> \E r \in 2 .. Len(buf) : pos[r] = i
      /\ \A r \in 2 .. Len(buf) : Balance(p, pos[r], k) = Len(buf) - r + 1
      /\ Balance(p, 2, k) = Len(buf) - 1
  BY DEF Keeps, Places
<1>3. \A i \in 1 .. k + 1 : /\ Balance(p, i, k) \in Int
                            /\ Balance(p, i, k + 1) = Balance(p, i, k) + 1
                            /\ i = k + 1 => Balance(p, i, k) = 0
  <2>1. TAKE i \in 1 .. k + 1
  <2>2. i \in Nat /\ k \in Nat /\ i <= k + 1
    OBVIOUS
  <2>3. QED BY <2>2, BalanceStep
<1>4. new \in [1 .. Len(buf2) -> 1 .. k + 1] /\ new[1] = 1
  BY <1>1, <1>2
<1>5. /\ \A r \in 1 .. Len(buf) : new[r] = pos[r] /\ new[r] \in 1 .. k
      /\ new[Len(buf) + 1] = k + 1
  BY <1>1, <1>2
<1> HIDE DEF new
<1>6. \A r, q \in 1 .. Len(buf2) : r < q => new[r] < new[q]
  <2>1. TAKE r, q \in 1 .. Len(buf2)
  <2>2. HAVE r < q
  <2>3. r \in 1 .. Len(buf) /\ (q \in 1 .. Len(buf) \/ q = Len(buf) + 1)
    BY <1>1, <2>2
  <2>4. QED BY <1>1, <1>2, <1>5, <2>2, <2>3
<1>7. \A r \in 1 .. Len(buf2) : buf2[r] = p[new[r]]
  BY <1>1, <1>2, <1>5
<1>8. \A i \in 2 .. k + 1 : LivesTo(p, i, k + 1) <=> \E r \in 2 .. Len(buf2) : new[r] = i
  <2>1. ASSUME NEW i \in 2 .. k
        PROVE  LivesTo(p, i, k + 1) <=> LivesTo(p, i, k)
    <3>1. LivesTo(p, i, k) => Balance(p, i, k) > 0
      BY DEF LivesTo
    <3>2. Balance(p, i, k) \in Int /\ Balance(p, i, k + 1) = Balance(p, i, k) + 1
      BY <1>3
    <3>3. LivesTo(p, i, k + 1) <=> LivesTo(p, i, k) /\ Balance(p, i, k + 1) > 0
      BY OneMore
    <3>4. QED BY <3>1, <3>2, <3>3
  <2>2. ASSUME NEW i \in 2 .. k
        PROVE  (\E r \in 2 .. Len(buf) : pos[r] = i) <=> \E r \in 2 .. Len(buf2) : new[r] = i
    <3>1. \A r \in 2 .. Len(buf) : r \in 2 .. Len(buf2) /\ new[r] = pos[r]
      BY <1>1, <1>5
    <3>2. \A r \in 2 .. Len(buf2) : r \in 2 .. Len(buf) \/ new[r] = k + 1
      BY <1>1, <1>5
    <3>3. QED BY <3>1, <3>2
  <2>3. LivesTo(p, k + 1, k + 1)
    BY OneMore
  <2>4. Len(buf2) \in 2 .. Len(buf2) /\ new[Len(buf2)] = k + 1
    BY <1>1, <1>5
  <2>5. \A i \in 2 .. k + 1 : i \in 2 .. k \/ i = k + 1
    OBVIOUS
  <2>6. QED BY <1>2, <2>1, <2>2, <2>3, <2>4, <2>5
<1>9. \A r \in 2 .. Len(buf2) : Balance(p, new[r], k + 1) = Len(buf2) - r + 1
  <2>1. TAKE r \in 2 .. Len(buf2)
  <2>2. CASE r = Len(buf) + 1
    <3>1. new[r] = k + 1 /\ Balance(p, k + 1, k + 1) = 1
      BY <1>3, <1>5, <2>2
    <3>2. QED BY <1>1, <2>2, <3>1
  <2>3. CASE r \in 2 .. Len(buf)
    <3>1. new[r] = pos[r] /\ pos[r] \in 1 .. k + 1 /\ Balance(p, pos[r], k) = Len(buf) - r + 1
      BY <1>2, <1>5, <2>3
    <3>2. Balance(p, pos[r], k + 1) = Balance(p, pos[r], k) + 1
      BY <1>3, <3>1
    <3>3. QED BY <1>1, <2>3, <3>1, <3>2
  <2>4. QED BY <1>1, <2>2, <2>3
<1>10. Balance(p, 2, k + 1) = Len(buf2) - 1
  BY <1>1, <1>2, <1>3, SMTT(60)
<1>11. Keeps(p, k + 1, buf2, new)
  BY <1>4, <1>6, <1>7, <1>8, <1>9, <1>10 DEF Keeps, Places
<1>12. QED BY <1>11 DEF buf2

\* A turn with ".." that takes the last entry away.
LEMMA UpTurn ==
  ASSUME NEW p, NEW k \in Nat \ {0}, NEW C, NEW buf \in Seq(C) \ {<< >>}, NEW pos,
         Keeps(p, k, buf, pos), p[k + 1] = "..", Len(buf) > 1
  PROVE  \E new : Keeps(p, k + 1, Front(buf), new)
<1> DEFINE buf2 == Front(buf)
           new == [r \in 1 .. Len(buf) - 1 |-> pos[r]]
<1>1. /\ Len(buf) \in Nat \ {0, 1} /\ Len(buf2) = Len(buf) - 1
      /\ \A r \in 1 .. Len(buf) - 1 : buf2[r] = buf[r]
  <2>1. Len(buf) \in Nat \ {0}
    BY EmptySeq
  <2>2. QED BY <2>1, Fronts
<1> HIDE DEF buf2
<1>2. /\ pos \in [1 .. Len(buf) -> 1 .. k] /\ pos[1] = 1
      /\ \A r, q \in 1 .. Len(buf) : r < q => pos[r] < pos[q]
      /\ \A r \in 1 .. Len(buf) : buf[r] = p[pos[r]]
      /\ \A i \in 2 .. k : LivesTo(p, i, k) <=> \E r \in 2 .. Len(buf) : pos[r] = i
      /\ \A r \in 2 .. Len(buf) : Balance(p, pos[r], k) = Len(buf) - r + 1
      /\ Balance(p, 2, k) = Len(buf) - 1
  BY DEF Keeps, Places
<1>3. /\ ~Kept(p[k + 1])
      /\ \A i \in 1 .. k + 1 : /\ Balance(p, i, k) \in Int
                               /\ Balance(p, i, k + 1) = Balance(p, i, k) - 1
  <2>1. ~Kept(p[k + 1])
    BY DEF Kept
  <2>2. ASSUME NEW i \in 1 .. k + 1
        PROVE  Balance(p, i, k) \in Int /\ Balance(p, i, k + 1) = Balance(p, i, k) - 1
    <3>1. i \in Nat /\ k \in Nat /\ i <= k + 1
      OBVIOUS
    <3>2. /\ Balance(p, i, k) \in Int
          /\ Balance(p, i, k + 1) = Balance(p, i, k) + (IF Kept(p[k + 1]) THEN 1
                                                        ELSE IF p[k + 1] = ".." THEN -1 ELSE 0)
      BY <3>1, BalanceStep
    <3>3. QED BY <2>1, <3>2
  <2>3. QED BY <2>1, <2>2
<1>4. new \in [1 .. Len(buf2) -> 1 .. k + 1] /\ new[1] = 1
  BY <1>1, <1>2
<1>5. \A r \in 1 .. Len(buf) - 1 : new[r] = pos[r] /\ r \in 1 .. Len(buf)
  BY <1>1, <1>2
<1> HIDE DEF new
<1>6. /\ \A r, q \in 1 .. Len(buf2) : r < q => new[r] < new[q]
      /\ \A r \in 1 .. Len(buf2) : buf2[r] = p[new[r]]
  BY <1>1, <1>2, <1>5
<1>7. \A i \in 2 .. k + 1 : LivesTo(p, i, k + 1) <=> \E r \in 2 .. Len(buf2) : new[r] = i
  <2>1. ASSUME NEW i \in 2 .. k, LivesTo(p, i, k + 1)
        PROVE  \E r \in 2 .. Len(buf2) : new[r] = i
    <3>1. LivesTo(p, i, k) /\ Balance(p, i, k + 1) > 0
      BY <2>1, OneMore
    <3>2. PICK r \in 2 .. Len(buf) : pos[r] = i
      BY <1>2, <3>1
    <3>3. Balance(p, i, k) = Len(buf) - r + 1 /\ Balance(p, i, k + 1) = Balance(p, i, k) - 1
      BY <1>2, <1>3, <3>2
    <3>4. r # Len(buf)
      BY <1>1, <3>1, <3>3
    <3>5. r \in 2 .. Len(buf2) /\ r \in 1 .. Len(buf) - 1
      BY <1>1, <3>4
    <3>6. QED BY <1>5, <3>2, <3>5
  <2>2. ASSUME NEW i \in 2 .. k, NEW r \in 2 .. Len(buf2), new[r] = i
        PROVE  LivesTo(p, i, k + 1)
    <3>1. r \in 2 .. Len(buf) /\ r \in 1 .. Len(buf) - 1 /\ pos[r] = i
      BY <1>1, <1>5, <2>2
    <3>2. LivesTo(p, i, k) /\ Balance(p, i, k) = Len(buf) - r + 1
      BY <1>2, <3>1
    <3>3. Balance(p, i, k + 1) > 0
      BY <1>1, <1>3, <3>1, <3>2
    <3>4. QED BY <3>2, <3>3, OneMore
  <2>3. ~LivesTo(p, k + 1, k + 1)
    BY <1>3, OneMore
  <2>4. ASSUME NEW r \in 2 .. Len(buf2) PROVE new[r] # k + 1
    <3>1. r \in 1 .. Len(buf) - 1 /\ r \in 1 .. Len(buf)
      BY <1>1
    <3>2. pos[r] \in 1 .. k
      BY <1>2, <3>1
    <3>3. QED BY <1>5, <3>1, <3>2
  <2>5. \A i \in 2 .. k + 1 : i \in 2 .. k \/ i = k + 1
    OBVIOUS
  <2>6. QED BY <2>1, <2>2, <2>3, <2>4, <2>5
<1>8. \A r \in 2 .. Len(buf2) : Balance(p, new[r], k + 1) = Len(buf2) - r + 1
  <2>1. TAKE r \in 2 .. Len(buf2)
  <2>2. /\ r \in 2 .. Len(buf) /\ new[r] = pos[r] /\ pos[r] \in 1 .. k + 1
        /\ Balance(p, pos[r], k) = Len(buf) - r + 1
    BY <1>1, <1>2, <1>5
  <2>3. Balance(p, pos[r], k + 1) = Balance(p, pos[r], k) - 1
    BY <1>3, <2>2
  <2>4. QED BY <1>1, <2>2, <2>3
<1>9. Balance(p, 2, k + 1) = Len(buf2) - 1
  BY <1>1, <1>2, <1>3
<1>10. Keeps(p, k + 1, buf2, new)
  BY <1>4, <1>6, <1>7, <1>8, <1>9 DEF Keeps, Places
<1>11. QED BY <1>10 DEF buf2

\* The loop begins with the first component in the buffer.
LEMMA ReadsFirst ==
  ASSUME NEW C, NEW p \in Seq(C) \ {<< >>}
  PROVE  /\ [buf |-> <<p[1]>>, state |-> "in"] \in Cleaned(C)
         /\ Reads(p, 1, [buf |-> <<p[1]>>, state |-> "in"])
<1> DEFINE buf == <<p[1]>>
           pos == [r \in 1 .. 1 |-> 1]
<1>1. Len(p) \in Nat \ {0} /\ p[1] \in C
  BY EmptySeq, ElementOfSeq
<1>2. buf \in Seq(C) \ {<< >>} /\ Len(buf) = 1 /\ buf[1] = p[1]
  BY <1>1
<1>3. Balance(p, 2, 1) = 0
  <2>1. 2 \in Nat /\ 1 \in Nat /\ 2 = 1 + 1
    OBVIOUS
  <2>2. QED BY <2>1, BalanceStep
<1>4. pos \in [1 .. 1 -> 1 .. 1] /\ pos[1] = 1
  OBVIOUS
<1> HIDE DEF pos, buf
<1>5. Keeps(p, 1, buf, pos)
  BY <1>2, <1>3, <1>4 DEF Keeps, Places
<1>6. ~ClimbsTo(p, 1)
  BY DEF ClimbsTo
<1>7. [buf |-> buf, state |-> "in"] \in Cleaned(C) /\ Reads(p, 1, [buf |-> buf, state |-> "in"])
  BY <1>2, <1>5, <1>6 DEF Cleaned, Reads
<1>8. QED BY <1>7 DEF buf

\* Every turn of the loop keeps Reads.
LEMMA ReadsNext ==
  ASSUME NEW C, NEW p \in Seq(C), NEW k \in 1 .. Len(p) - 1,
         NEW s \in Cleaned(C), Reads(p, k, s)
  PROVE  Put(s, p[k + 1]) \in Cleaned(C) /\ Reads(p, k + 1, Put(s, p[k + 1]))
<1> DEFINE c == p[k + 1]
           t == Put(s, c)
<1>1. c \in C /\ k \in Nat \ {0}
  BY LenProperties
<1>2. /\ s.buf \in Seq(C) \ {<< >>} /\ s.state \in {"in", "under", "overrun"}
      /\ Len(s.buf) \in Nat \ {0}
      /\ s = [buf |-> s.buf, state |-> s.state]
  BY EmptySeq DEF Cleaned
<1>3. /\ Kept(c) <=> c # "." /\ c # ".."
      /\ ".." # "."
  BY DEF Kept
<1>4. /\ \A i \in 2 .. k : LivesTo(p, i, k + 1) <=> LivesTo(p, i, k) /\ Balance(p, i, k + 1) > 0
      /\ LivesTo(p, k + 1, k + 1) <=> Kept(c)
      /\ ClimbsTo(p, k + 1) <=> ClimbsTo(p, k) \/ Balance(p, 2, k + 1) < 0
      /\ GoesOnTo(p, k + 1) <=> GoesOnTo(p, k) \/ (Kept(c) /\ ClimbsTo(p, k))
  BY <1>1, OneMore
<1>5. \A i \in 2 .. k + 1 :
         /\ Balance(p, i, k) \in Int
         /\ Balance(p, i, k + 1) = Balance(p, i, k) + (IF Kept(c) THEN 1
                                                       ELSE IF c = ".." THEN -1 ELSE 0)
  <2>1. TAKE i \in 2 .. k + 1
  <2>2. i \in Nat /\ k \in Nat /\ i <= k + 1
    OBVIOUS
  <2>3. QED BY <2>2, BalanceStep
<1>6. GoesOnTo(p, k) => ClimbsTo(p, k)
  BY <1>1 DEF GoesOnTo, ClimbsTo
<1>7. 2 \in 2 .. k + 1 /\ \A i \in 2 .. k + 1 : i \in 2 .. k \/ i = k + 1
  BY <1>1
<1>8. ASSUME NEW state \in {"in", "under", "overrun"}, NEW buf \in Seq(C) \ {<< >>}
      PROVE  /\ [buf |-> buf, state |-> state] \in Cleaned(C)
             /\ [buf |-> buf, state |-> state].buf = buf
             /\ [buf |-> buf, state |-> state].state = state
             /\ state = "in" /\ ~ClimbsTo(p, k + 1) /\ (\E pos : Keeps(p, k + 1, buf, pos))
                => Reads(p, k + 1, [buf |-> buf, state |-> state])
  <2> DEFINE r == [buf |-> buf, state |-> state]
  <2>1. r \in Cleaned(C) /\ r.buf = buf /\ r.state = state
    BY DEF Cleaned
  <2> HIDE DEF r
  <2>2. state = "in" /\ ~ClimbsTo(p, k + 1) /\ (\E pos : Keeps(p, k + 1, buf, pos))
        => Reads(p, k + 1, r)
    BY <2>1 DEF Reads
  <2>3. r \in Cleaned(C) /\ r.buf = buf /\ r.state = state
        /\ (state = "in" /\ ~ClimbsTo(p, k + 1) /\ (\E pos : Keeps(p, k + 1, buf, pos))
            => Reads(p, k + 1, r))
    BY <2>1, <2>2
  <2>4. QED BY <2>3 DEF r
<1>9. CASE s.state = "overrun"
  <2>1. t = s /\ Stuck(p, k, s) /\ GoesOnTo(p, k)
    BY <1>9 DEF Put, Reads
  <2>2. Stuck(p, k + 1, s) /\ GoesOnTo(p, k + 1)
    BY <1>4, <2>1 DEF Stuck
  <2>3. QED BY <1>9, <2>1, <2>2 DEF Reads
<1>10. CASE s.state # "overrun" /\ c = "."
  <2>1. t = s /\ ~Kept(c)
    BY <1>3, <1>10 DEF Put
  <2>2. \A i \in 2 .. k + 1 : Balance(p, i, k + 1) = Balance(p, i, k)
    BY <1>3, <1>5, <1>10
  <2>3. \A i \in 2 .. k : LivesTo(p, i, k + 1) <=> LivesTo(p, i, k)
    <3>1. TAKE i \in 2 .. k
    <3>2. LivesTo(p, i, k) => Balance(p, i, k) > 0
      BY DEF LivesTo
    <3>3. QED BY <1>1, <1>4, <2>2, <3>2
  <2>4. CASE s.state = "in"
    <3>1. ~ClimbsTo(p, k) /\ \E pos : Keeps(p, k, s.buf, pos)
      BY <2>4 DEF Reads
    <3>2. PICK pos : Keeps(p, k, s.buf, pos)
      BY <3>1
    <3>3. pos \in [1 .. Len(s.buf) -> 1 .. k + 1] /\ \A r \in 2 .. Len(s.buf) : pos[r] \in 2 .. k
      <4>1. /\ pos \in [1 .. Len(s.buf) -> 1 .. k] /\ pos[1] = 1
            /\ \A r, q \in 1 .. Len(s.buf) : r < q => pos[r] < pos[q]
        BY <3>2 DEF Keeps, Places
      <4>2. ASSUME NEW r \in 2 .. Len(s.buf) PROVE pos[r] \in 2 .. k
        <5>1. r \in 1 .. Len(s.buf) /\ 1 \in 1 .. Len(s.buf) /\ 1 < r
          BY <1>2
        <5>2. pos[1] < pos[r] /\ pos[r] \in 1 .. k
          BY <4>1, <5>1
        <5>3. QED BY <4>1, <5>2
      <4>3. 1 .. k \subseteq 1 .. k + 1
        BY <1>1
      <4>4. QED BY <4>1, <4>2, <4>3
    <3>4. Keeps(p, k + 1, s.buf, pos)
      <4>1. \A i \in 2 .. k + 1 : LivesTo(p, i, k + 1) <=> \E r \in 2 .. Len(s.buf) : pos[r] = i
        <5>1. \A r \in 2 .. Len(s.buf) : pos[r] # k + 1
          BY <1>1, <3>3
        <5>2. QED BY <1>4, <1>7, <2>1, <2>3, <3>2, <5>1 DEF Keeps, Places
      <4>2. \A r \in 2 .. Len(s.buf) : Balance(p, pos[r], k + 1) = Len(s.buf) - r + 1
        <5>1. TAKE r \in 2 .. Len(s.buf)
        <5>2. pos[r] \in 2 .. k + 1
          BY <1>1, <3>3
        <5>3. QED BY <2>2, <3>2, <5>2 DEF Keeps, Places
      <4>3. QED BY <1>7, <2>2, <3>2, <3>3, <4>1, <4>2 DEF Keeps, Places
    <3>5. ~ClimbsTo(p, k + 1)
      <4>1. Balance(p, 2, k + 1) = Len(s.buf) - 1
        BY <3>4 DEF Keeps, Places
      <4>2. QED BY <1>2, <1>4, <3>1, <4>1
    <3>6. QED BY <2>1, <2>4, <3>4, <3>5 DEF Reads
  <2>5. CASE s.state = "under"
    <3>1. /\ Stuck(p, k, s) /\ ~GoesOnTo(p, k)
          /\ Balance(p, 2, k) < 0 /\ \A i \in 2 .. k : ~LivesTo(p, i, k)
      BY <2>5 DEF Reads
    <3>2. /\ Stuck(p, k + 1, s) /\ ~GoesOnTo(p, k + 1)
          /\ Balance(p, 2, k + 1) < 0 /\ \A i \in 2 .. k + 1 : ~LivesTo(p, i, k + 1)
      BY <1>4, <1>7, <2>1, <2>2, <3>1 DEF Stuck
    <3>3. QED BY <2>1, <2>5, <3>2 DEF Reads
  <2>6. QED BY <1>2, <1>10, <2>4, <2>5
<1>11. CASE s.state = "in" /\ c = ".." /\ Len(s.buf) > 1
  <2>1. t = [buf |-> Front(s.buf), state |-> "in"]
    BY <1>2, <1>3, <1>11 DEF Put
  <2>2. ~ClimbsTo(p, k) /\ \E pos : Keeps(p, k, s.buf, pos)
    BY <1>11 DEF Reads
  <2>3. PICK pos : Keeps(p, k, s.buf, pos)
    BY <2>2
  <2>4. PICK new : Keeps(p, k + 1, Front(s.buf), new)
    BY <1>1, <1>2, <1>11, <2>3, UpTurn
  <2>5. Front(s.buf) \in Seq(C) \ {<< >>} /\ Len(Front(s.buf)) = Len(s.buf) - 1
    <3>1. Front(s.buf) \in Seq(C) /\ Len(Front(s.buf)) = Len(s.buf) - 1
      BY <1>2, Fronts
    <3>2. QED BY <1>2, <1>11, <3>1, EmptySeq
  <2>6. ~ClimbsTo(p, k + 1)
    <3>1. Balance(p, 2, k + 1) = Len(s.buf) - 1 - 1
      BY <2>4, <2>5 DEF Keeps, Places
    <3>2. QED BY <1>2, <1>4, <1>11, <2>2, <3>1
  <2>7. QED BY <1>8, <2>1, <2>4, <2>5, <2>6
<1>12. CASE s.state = "in" /\ c = ".." /\ Len(s.buf) = 1
  <2>1. t = [buf |-> s.buf, state |-> "under"] /\ ~Kept(c)
    BY <1>2, <1>3, <1>12 DEF Put
  <2>2. ~ClimbsTo(p, k) /\ \E pos : Keeps(p, k, s.buf, pos)
    BY <1>12 DEF Reads
  <2>3. PICK pos : Keeps(p, k, s.buf, pos)
    BY <2>2
  <2>4. /\ pos[1] = 1 /\ s.buf[1] = p[1] /\ Balance(p, 2, k) = 0
        /\ \A i \in 2 .. k : ~LivesTo(p, i, k)
    BY <1>12, <2>3 DEF Keeps, Places
  <2>5. s.buf = <<p[1]>>
    BY <1>2, <1>12, <2>4
  <2>6. Balance(p, 2, k + 1) < 0
    BY <1>3, <1>5, <1>7, <1>12, <2>4
  <2>7. /\ \A i \in 2 .. k + 1 : ~LivesTo(p, i, k + 1)
        /\ ~GoesOnTo(p, k + 1) /\ ClimbsTo(p, k + 1)
    BY <1>4, <1>6, <1>7, <2>1, <2>2, <2>4, <2>6
  <2>8. t \in Cleaned(C) /\ t.buf = s.buf /\ t.state = "under"
    BY <1>2, <1>8, <2>1
  <2>9. t \in Cleaned(C) /\ Reads(p, k + 1, t)
    <3> HIDE DEF t
    <3>1. QED BY <2>5, <2>6, <2>7, <2>8 DEF Reads, Stuck
  <2>10. QED BY <2>9
<1>13. CASE s.state = "under" /\ c = ".."
  <2>1. Stuck(p, k, s) /\ ~GoesOnTo(p, k) /\ Balance(p, 2, k) < 0 /\ \A i \in 2 .. k : ~LivesTo(p, i, k)
    BY <1>13 DEF Reads
  <2>2. t = s
    BY <1>2, <1>3, <1>13, <2>1 DEF Put, Stuck
  <2>3. Balance(p, 2, k + 1) < 0
    BY <1>3, <1>5, <1>7, <1>13, <2>1
  <2>4. /\ Stuck(p, k + 1, s) /\ ~GoesOnTo(p, k + 1)
        /\ \A i \in 2 .. k + 1 : ~LivesTo(p, i, k + 1)
    BY <1>3, <1>4, <1>7, <1>13, <2>1 DEF Stuck
  <2>5. QED BY <1>13, <2>2, <2>3, <2>4 DEF Reads
<1>14. CASE s.state = "in" /\ Kept(c)
  <2>1. t = [buf |-> Append(s.buf, c), state |-> "in"]
    BY <1>2, <1>3, <1>14 DEF Put
  <2>2. ~ClimbsTo(p, k) /\ \E pos : Keeps(p, k, s.buf, pos)
    BY <1>14 DEF Reads
  <2>3. PICK pos : Keeps(p, k, s.buf, pos)
    BY <2>2
  <2>4. PICK new : Keeps(p, k + 1, Append(s.buf, c), new)
    BY <1>1, <1>2, <1>14, <2>3, KeptTurn
  <2>5. /\ Append(s.buf, c) \in Seq(C) \ {<< >>} /\ Len(Append(s.buf, c)) = Len(s.buf) + 1
    BY <1>1, <1>2, AppendProperties
  <2>6. ~ClimbsTo(p, k + 1)
    <3>1. Balance(p, 2, k + 1) = Len(s.buf)
      BY <1>2, <2>4, <2>5 DEF Keeps, Places
    <3>2. QED BY <1>2, <1>4, <2>2, <3>1
  <2>7. QED BY <1>8, <2>1, <2>4, <2>5, <2>6, ZenonT(60)
<1>15. CASE s.state = "under" /\ Kept(c)
  <2>1. t = [buf |-> s.buf, state |-> "overrun"]
    BY <1>2, <1>3, <1>15 DEF Put
  <2>2. Stuck(p, k, s)
    BY <1>15 DEF Reads
  <2>3. s.buf = <<p[1]>> /\ ClimbsTo(p, k + 1) /\ GoesOnTo(p, k + 1)
    BY <1>4, <1>15, <2>2 DEF Stuck
  <2>4. t \in Cleaned(C) /\ t.buf = s.buf /\ t.state = "overrun"
    BY <1>2, <1>8, <2>1
  <2>5. t \in Cleaned(C) /\ Reads(p, k + 1, t)
    <3> HIDE DEF t
    <3>1. QED BY <2>3, <2>4 DEF Reads, Stuck
  <2>6. QED BY <2>5
<1>16. \/ s.state = "overrun"
       \/ s.state # "overrun" /\ c = "."
       \/ s.state = "in" /\ c = ".." /\ Len(s.buf) > 1
       \/ s.state = "in" /\ c = ".." /\ Len(s.buf) = 1
       \/ s.state = "under" /\ c = ".."
       \/ s.state = "in" /\ Kept(c)
       \/ s.state = "under" /\ Kept(c)
  <2>1. Len(s.buf) > 1 \/ Len(s.buf) = 1
    <3>1. PICK n \in Nat \ {0} : n = Len(s.buf)
      BY <1>2
    <3>2. n > 1 \/ n = 1
      OBVIOUS
    <3>3. QED BY <3>1, <3>2
  <2>2. c = "." \/ c = ".." \/ Kept(c)
    BY <1>3
  <2>3. s.state = "overrun" \/ s.state = "in" \/ s.state = "under"
    BY <1>2
  <2>4. QED BY <2>1, <2>2, <2>3
<1> HIDE DEF t, c
<1>17. QED BY <1>9, <1>10, <1>11, <1>12, <1>13, <1>14, <1>15, <1>16 DEF t, c

\* So it is what the loop has done after any number of components.
LEMMA ReadsAlways ==
  ASSUME NEW C, NEW p \in Seq(C) \ {<< >>}, NEW k \in 1 .. Len(p)
  PROVE  Simplifying(p)[k] \in Cleaned(C) /\ Reads(p, k, Simplifying(p)[k])
<1> DEFINE good == {n \in 1 .. Len(p) : /\ Simplifying(p)[n] \in Cleaned(C)
                                        /\ Reads(p, n, Simplifying(p)[n])}
<1>1. Len(p) \in Nat \ {0}
  BY EmptySeq
<1>2. 1 \in good
  <2>1. Simplifying(p)[1] = [buf |-> <<p[1]>>, state |-> "in"] /\ 1 \in 1 .. Len(p)
    BY <1>1, SimplifyingRuns
  <2>2. /\ [buf |-> <<p[1]>>, state |-> "in"] \in Cleaned(C)
        /\ Reads(p, 1, [buf |-> <<p[1]>>, state |-> "in"])
    BY ReadsFirst
  <2>3. QED BY <2>1, <2>2
<1>3. ASSUME NEW n \in 1 .. Len(p) - 1, n \in good PROVE n + 1 \in good
  <2>1. /\ Simplifying(p)[n] \in Cleaned(C) /\ Reads(p, n, Simplifying(p)[n])
        /\ n + 1 \in 2 .. Len(p) /\ (n + 1) - 1 = n /\ n + 1 \in 1 .. Len(p)
    BY <1>1, <1>3
  <2>2. Simplifying(p)[n + 1] = Put(Simplifying(p)[n], p[n + 1])
    BY <1>1, <2>1, SimplifyingRuns
  <2>3. /\ Put(Simplifying(p)[n], p[n + 1]) \in Cleaned(C)
        /\ Reads(p, n + 1, Put(Simplifying(p)[n], p[n + 1]))
    BY <2>1, ReadsNext
  <2>4. QED BY <2>1, <2>2, <2>3
<1>4. \A n \in 1 .. Len(p) : n \in good
  <2> HIDE DEF good
  <2>1. QED BY <1>1, <1>2, <1>3, Upwards
<1>5. QED BY <1>4

-----------------------------------------------------------------------------
(* What path_simplify computes.                                            *)

\* The components that live on to the end, read in order, are the entries of
\* the buffer: the recursion of Survivors has just those up to k.
LEMMA SurvivorsAreKept ==
  ASSUME NEW C, NEW p \in Seq(C) \ {<< >>}, NEW buf \in Seq(C) \ {<< >>}, NEW pos,
         Places(p, Len(p), buf, pos)
  PROVE  Survivors(p) = buf
<1> DEFINE m == Len(buf)
           UpTo(k, q) == /\ Surviving(p)[k] = SubSeq(buf, 1, q)
                         /\ \A r \in 1 .. m : pos[r] <= k <=> r <= q
           good == {k \in 1 .. Len(p) : \E q \in 1 .. m : UpTo(k, q)}
<1>1. Len(p) \in Nat \ {0} /\ m \in Nat \ {0} /\ \A r \in 1 .. m : buf[r] \in C
  BY EmptySeq, ElementOfSeq
<1>2. /\ pos \in [1 .. m -> 1 .. Len(p)] /\ pos[1] = 1
      /\ \A r, q \in 1 .. m : r < q => pos[r] < pos[q]
      /\ \A r \in 1 .. m : buf[r] = p[pos[r]]
      /\ \A i \in 2 .. Len(p) : Survives(p, i) <=> \E r \in 2 .. m : pos[r] = i
  BY DEF Places, Survives, LivesTo
<1> HIDE DEF m
<1>3. \A q \in 1 .. m : /\ SubSeq(buf, 1, q) \in Seq(C) /\ Len(SubSeq(buf, 1, q)) = q
                        /\ \A r \in 1 .. q : SubSeq(buf, 1, q)[r] = buf[r]
  <2>1. TAKE q \in 1 .. m
  <2>2. buf \in Seq(C) /\ q \in 1 .. Len(buf)
    BY DEF m
  <2>3. QED BY <2>2, PrefixFacts
<1>4. 1 \in good
  <2>1. Surviving(p)[1] = <<p[1]>>
    BY <1>1, SurvivingRuns
  <2>2. SubSeq(buf, 1, 1) = <<p[1]>>
    <3>1. 1 \in 1 .. m /\ 1 \in 1 .. 1
      BY <1>1
    <3>2. /\ SubSeq(buf, 1, 1) \in Seq(C) /\ Len(SubSeq(buf, 1, 1)) = 1
          /\ SubSeq(buf, 1, 1)[1] = p[1] /\ p[1] \in C
      BY <1>1, <1>2, <1>3, <3>1
    <3>3. <<p[1]>> \in Seq(C) /\ Len(<<p[1]>>) = 1 /\ <<p[1]>>[1] = p[1]
      BY <3>2
    <3>4. \A i \in 1 .. Len(SubSeq(buf, 1, 1)) : SubSeq(buf, 1, 1)[i] = <<p[1]>>[i]
      <4>1. \A i \in 1 .. 1 : i = 1
        OBVIOUS
      <4>2. QED BY <3>2, <3>3, <4>1
    <3>5. QED BY <3>2, <3>3, <3>4, SeqEqual
  <2>3. \A r \in 1 .. m : pos[r] <= 1 <=> r <= 1
    <3>1. TAKE r \in 1 .. m
    <3>2. 1 \in 1 .. m /\ pos[r] \in 1 .. Len(p) /\ (1 < r => pos[1] < pos[r])
      BY <1>1, <1>2
    <3>3. QED BY <1>1, <1>2, <3>2
  <2>4. UpTo(1, 1) /\ 1 \in 1 .. m /\ 1 \in 1 .. Len(p)
    <3>1. UpTo(1, 1)
      BY <2>1, <2>2, <2>3
    <3>2. QED BY <1>1, <3>1
  <2>5. \E q \in 1 .. m : UpTo(1, q)
    <3> HIDE DEF UpTo
    <3>1. QED BY <2>4
  <2>6. QED BY <2>4, <2>5
<1>5. ASSUME NEW k \in 1 .. Len(p) - 1, k \in good PROVE k + 1 \in good
  <2>1. PICK q \in 1 .. m : UpTo(k, q)
    BY <1>5
  <2>2. /\ k + 1 \in 2 .. Len(p) /\ (k + 1) - 1 = k /\ k + 1 \in 1 .. Len(p)
        /\ q \in Nat \ {0}
    BY <1>1
  <2>3. Surviving(p)[k + 1] = IF Survives(p, k + 1) THEN Append(SubSeq(buf, 1, q), p[k + 1])
                              ELSE SubSeq(buf, 1, q)
    BY <1>1, <2>1, <2>2, SurvivingRuns
  <2>4. CASE Survives(p, k + 1)
    <3>1. PICK r \in 2 .. m : pos[r] = k + 1
      BY <1>2, <2>2, <2>4
    <3>2. r \in 1 .. m /\ ~(r <= q)
      BY <1>1, <2>1, <2>2, <3>1
    <3>3. q + 1 \in 1 .. m
      BY <1>1, <2>2, <3>2
    <3>4. ~(pos[q + 1] <= k) /\ pos[q + 1] \in 1 .. Len(p)
      BY <1>2, <2>1, <2>2, <3>3
    <3>5. ~(q + 1 < r)
      BY <1>1, <1>2, <2>2, <3>1, <3>2, <3>3, <3>4
    <3>6. r = q + 1
      BY <1>1, <2>2, <3>2, <3>5
    <3>7. Append(SubSeq(buf, 1, q), p[k + 1]) = SubSeq(buf, 1, q + 1)
      <4>1. p[k + 1] = buf[q + 1] /\ p[k + 1] \in C
        BY <1>1, <1>2, <3>1, <3>2, <3>6
      <4>2. /\ SubSeq(buf, 1, q + 1) \in Seq(C) /\ Len(SubSeq(buf, 1, q + 1)) = q + 1
            /\ \A j \in 1 .. q + 1 : SubSeq(buf, 1, q + 1)[j] = buf[j]
        BY <1>3, <3>3
      <4>3. /\ SubSeq(buf, 1, q) \in Seq(C) /\ Len(SubSeq(buf, 1, q)) = q
            /\ \A j \in 1 .. q : SubSeq(buf, 1, q)[j] = buf[j]
        BY <1>3
      <4>4. /\ Append(SubSeq(buf, 1, q), p[k + 1]) \in Seq(C)
            /\ Len(Append(SubSeq(buf, 1, q), p[k + 1])) = q + 1
            /\ \A j \in 1 .. q : Append(SubSeq(buf, 1, q), p[k + 1])[j] = buf[j]
            /\ Append(SubSeq(buf, 1, q), p[k + 1])[q + 1] = buf[q + 1]
        BY <4>1, <4>3, AppendProperties
      <4>5. \A j \in 1 .. q + 1 : Append(SubSeq(buf, 1, q), p[k + 1])[j] = SubSeq(buf, 1, q + 1)[j]
        <5>1. TAKE j \in 1 .. q + 1
        <5>2. j \in 1 .. q \/ j = q + 1
          BY <2>2
        <5>3. QED BY <4>2, <4>4, <5>2
      <4>6. QED BY <4>2, <4>4, <4>5, SeqEqual
    <3>8. \A j \in 1 .. m : pos[j] <= k + 1 <=> j <= q + 1
      <4>1. TAKE j \in 1 .. m
      <4>2. /\ pos[j] \in Int /\ j \in Int /\ k \in Int
            /\ j < r => pos[j] < pos[r]
            /\ r < j => pos[r] < pos[j]
        BY <1>1, <1>2, <3>2
      <4>3. QED BY <2>2, <3>1, <3>6, <4>2
    <3>9. UpTo(k + 1, q + 1)
      BY <2>3, <2>4, <3>7, <3>8
    <3>10. \E n \in 1 .. m : UpTo(k + 1, n)
      <4> HIDE DEF UpTo
      <4>1. QED BY <3>3, <3>9
    <3>11. QED BY <2>2, <3>10
  <2>5. CASE ~Survives(p, k + 1)
    <3>1. \A j \in 1 .. m : pos[j] # k + 1
      <4>1. TAKE j \in 1 .. m
      <4>2. j = 1 \/ j \in 2 .. m
        BY <1>1
      <4>3. QED BY <1>1, <1>2, <2>2, <2>5, <4>2
    <3>2. \A j \in 1 .. m : pos[j] <= k + 1 <=> pos[j] <= k
      <4>1. TAKE j \in 1 .. m
      <4>2. pos[j] \in Int /\ k \in Int /\ pos[j] # k + 1
        BY <1>1, <1>2, <3>1
      <4>3. QED BY <4>2
    <3>3. UpTo(k + 1, q)
      BY <2>1, <2>3, <2>5, <3>2
    <3>4. \E n \in 1 .. m : UpTo(k + 1, n)
      <4> HIDE DEF UpTo
      <4>1. QED BY <3>3
    <3>5. QED BY <2>2, <3>4
  <2>6. QED BY <2>4, <2>5
<1>6. Len(p) \in good
  <2>1. \A k \in 1 .. Len(p) : k \in good
    <3> HIDE DEF good
    <3>1. QED BY <1>1, <1>4, <1>5, Upwards
  <2>2. Len(p) \in 1 .. Len(p)
    BY <1>1
  <2> HIDE DEF good
  <2>3. QED BY <2>1, <2>2
<1>7. PICK q \in 1 .. m : UpTo(Len(p), q)
  BY <1>6
<1>8. q = m
  <2>1. m \in 1 .. m /\ pos[m] \in 1 .. Len(p)
    BY <1>1, <1>2
  <2>2. m <= q
    BY <1>1, <1>7, <2>1
  <2>3. QED BY <1>1, <2>2
<1>9. SubSeq(buf, 1, m) = buf
  BY SubSeqFull DEF m
<1>10. QED BY <1>7, <1>8, <1>9 DEF Survivors

\* path_simplify is right for every path that does not go on after it climbed
\* above its first component: what it keeps are just the components that "."
\* and ".." do not call off.  For all that do, it writes in front of its buffer.
THEOREM CleaningIsExact ==
  ASSUME NEW C, NEW p \in Seq(C) \ {<< >>}
  PROVE  /\ Simplify(p).state = "overrun" <=> GoesOn(p)
         /\ Simplify(p).state # "in" <=> Climbs(p)
         /\ Simplify(p).state # "overrun" => Simplify(p).buf = Survivors(p)
<1> DEFINE s == Simplify(p)
           n == Len(p)
<1>1. n \in Nat \ {0} /\ n \in 1 .. n /\ p[1] \in C
  <2>1. n \in Nat \ {0}
    BY EmptySeq
  <2>2. n \in 1 .. n /\ 1 \in 1 .. n
    BY <2>1
  <2>3. QED BY <2>1, <2>2, ElementOfSeq
<1>2. s \in Cleaned(C) /\ Reads(p, n, s)
  BY <1>1, ReadsAlways DEF Simplify
<1>3. /\ ClimbsTo(p, n) <=> Climbs(p)
      /\ GoesOnTo(p, n) <=> GoesOn(p)
  BY DEF ClimbsTo, Climbs, GoesOnTo, GoesOn
<1>4. GoesOnTo(p, n) => ClimbsTo(p, n)
  BY <1>1 DEF GoesOnTo, ClimbsTo
<1> HIDE DEF s, n
<1>5. s.state = "overrun" <=> GoesOn(p)
  BY <1>2, <1>3, <1>4 DEF Reads
<1>6. s.state # "in" <=> Climbs(p)
  BY <1>2, <1>3 DEF Reads, Stuck
<1>7. CASE s.state = "in"
  <2>1. PICK pos : Keeps(p, n, s.buf, pos)
    BY <1>2, <1>7 DEF Reads
  <2>2. s.buf \in Seq(C) \ {<< >>} /\ Places(p, Len(p), s.buf, pos)
    BY <1>2, <2>1 DEF Cleaned, Keeps, n
  <2>3. Survivors(p) = s.buf
    BY <2>2, SurvivorsAreKept
  <2>4. QED BY <1>5, <1>6, <2>3 DEF s
<1>8. CASE s.state = "under"
  <2> DEFINE buf == <<p[1]>>
             pos == [r \in 1 .. 1 |-> 1]
  <2>1. s.buf = buf /\ \A i \in 2 .. n : ~LivesTo(p, i, n)
    BY <1>2, <1>8 DEF Reads, Stuck
  <2>2. buf \in Seq(C) \ {<< >>} /\ Len(buf) = 1 /\ buf[1] = p[1]
    BY <1>1
  <2>3. pos \in [1 .. 1 -> 1 .. n] /\ pos[1] = 1
    BY <1>1
  <2> HIDE DEF buf, pos
  <2>4. Places(p, n, buf, pos)
    BY <2>1, <2>2, <2>3 DEF Places
  <2>5. Survivors(p) = buf
    BY <2>2, <2>4, SurvivorsAreKept DEF n
  <2>6. QED BY <1>5, <1>6, <2>1, <2>5 DEF s
<1>9. CASE s.state = "overrun"
  BY <1>5, <1>6, <1>9 DEF s
<1>10. s.state \in {"in", "under", "overrun"}
  BY <1>2 DEF Cleaned
<1>11. QED BY <1>7, <1>8, <1>9, <1>10

\* What it leaves in the buffer: the first component, and after it components
\* of the path other than "." and "..".
LEMMA CleanedComponents ==
  ASSUME NEW C, NEW p \in Seq(C) \ {<< >>}
  PROVE  /\ Simplify(p) \in Cleaned(C) /\ Simplify(p).buf[1] = p[1]
         /\ \A r \in 2 .. Len(Simplify(p).buf) : Kept(Simplify(p).buf[r])
<1> DEFINE s == Simplify(p)
           n == Len(p)
<1>1. n \in Nat \ {0} /\ n \in 1 .. n
  BY EmptySeq
<1>2. s \in Cleaned(C) /\ Reads(p, n, s)
  BY <1>1, ReadsAlways DEF Simplify
<1> HIDE DEF s, n
<1>3. CASE s.state = "in"
  <2>1. PICK pos : Keeps(p, n, s.buf, pos)
    BY <1>2, <1>3 DEF Reads
  <2>2. s.buf \in Seq(C) \ {<< >>} /\ Len(s.buf) \in Nat \ {0}
    BY <1>2, EmptySeq DEF Cleaned
  <2>3. /\ pos \in [1 .. Len(s.buf) -> 1 .. n] /\ pos[1] = 1
        /\ \A r, q \in 1 .. Len(s.buf) : r < q => pos[r] < pos[q]
        /\ \A r \in 1 .. Len(s.buf) : s.buf[r] = p[pos[r]]
        /\ \A i \in 2 .. n : LivesTo(p, i, n) <=> \E r \in 2 .. Len(s.buf) : pos[r] = i
    BY <2>1 DEF Keeps, Places
  <2>4. s.buf[1] = p[1]
    BY <2>2, <2>3
  <2>5. ASSUME NEW r \in 2 .. Len(s.buf) PROVE Kept(s.buf[r])
    <3>1. r \in 1 .. Len(s.buf) /\ 1 \in 1 .. Len(s.buf) /\ 1 < r
      BY <2>2
    <3>2. pos[r] \in 1 .. n /\ pos[1] < pos[r]
      BY <2>3, <3>1
    <3>3. pos[r] \in 2 .. n
      BY <2>3, <3>2
    <3>4. LivesTo(p, pos[r], n)
      BY <2>3, <3>3
    <3>5. QED BY <2>3, <3>1, <3>4 DEF LivesTo
  <2>6. QED BY <1>2, <2>4, <2>5 DEF s
<1>4. CASE s.state # "in"
  <2>1. s.buf = <<p[1]>>
    BY <1>2, <1>4 DEF Reads, Stuck
  <2>2. s.buf[1] = p[1] /\ Len(s.buf) = 1
    BY <2>1
  <2>3. QED BY <1>2, <2>2 DEF s
<1>5. QED BY <1>3, <1>4
=============================================================================

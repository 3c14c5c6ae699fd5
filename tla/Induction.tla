------------------------------ MODULE Induction ------------------------------
(***************************************************************************)
(* Induction over the natural numbers, stated for sets: that is the form    *)
(* in which the provers can use it, because no lemma takes a predicate.    *)
(***************************************************************************)
EXTENDS Integers, FiniteSetTheorems, TLAPS

\* A set of natural numbers that is not empty has a least element: otherwise
\* the intervals below its elements would have no smallest one.
LEMMA Least ==
  ASSUME NEW S \in SUBSET Nat, S # {}
  PROVE  \E x \in S : \A y \in S : x <= y
<1> DEFINE below == {0 .. x : x \in S}
<1>1. below \subseteq FiniteSubsetsOf(Nat) /\ below # {}
  <2>1. \A x \in S : 0 .. x \in SUBSET Nat /\ IsFiniteSet(0 .. x)
    BY FS_Interval
  <2>2. QED BY <2>1 DEF FiniteSubsetsOf
<1>2. IsWellFoundedOn(StrictSubsetOrdering(Nat), FiniteSubsetsOf(Nat))
  BY FS_StrictSubsetOrderingWellFounded
<1>3. \E A \in below : \A B \in below : <<B, A>> \notin StrictSubsetOrdering(Nat)
  <2> HIDE DEF below
  <2>1. QED BY <1>1, <1>2, WFMin
<1>4. PICK x \in S : \A y \in S : <<0 .. y, 0 .. x>> \notin StrictSubsetOrdering(Nat)
  BY <1>3
<1>5. ASSUME NEW y \in S, y < x PROVE FALSE
  <2>1. /\ 0 .. y \subseteq 0 .. x /\ x \in 0 .. x /\ x \notin 0 .. y
        /\ 0 .. y \subseteq Nat /\ 0 .. x \subseteq Nat
    BY <1>5
  <2>2. QED BY <2>1, <1>4 DEF StrictSubsetOrdering
<1>6. QED BY <1>5

\* What holds at the low end of an interval and is handed on from a number to
\* the next one holds in the whole interval.
LEMMA Upwards ==
  ASSUME NEW low \in Nat, NEW high \in Nat, NEW S,
         low \in S, \A k \in low .. high - 1 : k \in S => k + 1 \in S
  PROVE  \A k \in low .. high : k \in S
<1> DEFINE bad == {k \in low .. high : k \notin S}
<1>1. SUFFICES ASSUME bad # {} PROVE FALSE
  OBVIOUS
<1>2. bad \in SUBSET Nat
  OBVIOUS
<1>3. PICK x \in bad : \A y \in bad : x <= y
  <2> HIDE DEF bad
  <2>1. QED BY <1>1, <1>2, Least
<1>4. x \in low .. high /\ x # low
  BY <1>3
<1>5. x - 1 \in low .. high - 1 /\ x - 1 \notin bad
  BY <1>3, <1>4
<1>6. QED BY <1>3, <1>5

\* The same from the high end.
LEMMA Downwards ==
  ASSUME NEW low \in Nat, NEW high \in Nat, NEW S,
         high \in S, \A k \in low + 1 .. high : k \in S => k - 1 \in S
  PROVE  \A k \in low .. high : k \in S
<1> DEFINE up == {k \in 0 .. high : k <= high - low => high - k \in S}
<1>1. 0 \in up
  OBVIOUS
<1>2. \A k \in 0 .. high - 1 : k \in up => k + 1 \in up
  OBVIOUS
<1>3. \A k \in 0 .. high : k \in up
  <2> HIDE DEF up
  <2>1. QED BY <1>1, <1>2, Upwards
<1>4. \A k \in low .. high : high - k \in 0 .. high /\ high - (high - k) = k
  OBVIOUS
<1>5. QED BY <1>3, <1>4
=============================================================================

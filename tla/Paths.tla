-------------------------------- MODULE Paths --------------------------------
(***************************************************************************)
(* src/utils/path.c: the functions on path names, as functions on          *)
(* sequences of components.  "/a/b" is <<"", "a", "b">>, "a/" is           *)
(* <<"a", "">>: what is between two slashes, before the first and after    *)
(* the last.  A drive letter and its colon come before the first component *)
(* and are no part of the sequence, so the first one is never "." or "..". *)
(***************************************************************************)
EXTENDS Integers, Sequences, FiniteSets, SequencesExt

\* The component in front of a first slash and behind a last one.
NoName == ""

\* Mutant: a slash in between, always.
JoinSlash(p, q) == p \o q

\* path_join: a slash in between, unless the first path ends in one.  (The
\* path of a drive alone ends in the colon.)
Join(p, q) == IF Len(p) > 1 /\ Last(p) = NoName THEN Front(p) \o q ELSE p \o q

\* Mutant: ".." takes the name away and not the slash in front of it.
PutKeepsSlash(s, c) ==
    CASE s.state = "overrun" \/ c = "." -> s
      [] c = ".." /\ s.state # "overrun" ->
            IF Len(s.buf) > 1 THEN [s EXCEPT !.buf = Append(Front(@), NoName)]
                              ELSE [s EXCEPT !.state = "under"]
      [] OTHER ->
            IF s.state = "under" THEN [s EXCEPT !.state = "overrun"]
                                 ELSE [s EXCEPT !.buf = Append(@, c)]

\* One turn of the loop of path_simplify.  The buffer holds the components
\* kept so far.  ".." at the first one leaves the write position one byte
\* before the buffer ("under"), where another ".." changes nothing, and the
\* next component overwrites what the allocator keeps there ("overrun").
Put(s, c) ==
    CASE s.state = "overrun" \/ c = "." -> s
      [] c = ".." /\ s.state # "overrun" ->
            IF Len(s.buf) > 1 THEN [s EXCEPT !.buf = Front(@)]
                              ELSE [s EXCEPT !.state = "under"]
      [] OTHER ->
            IF s.state = "under" THEN [s EXCEPT !.state = "overrun"]
                                 ELSE [s EXCEPT !.buf = Append(@, c)]

\* path_simplify, from the first component to the k-th.
Simplifying(p) ==
    LET after[k \in 1 .. Len(p)] ==
            IF k = 1 THEN [buf |-> <<p[1]>>, state |-> "in"] ELSE Put(after[k - 1], p[k])
    IN  after

Simplify(p) == Simplifying(p)[Len(p)]

\* Mutant: the slash is searched from the front.
DirnameFirst(p) == IF p[1] = NoName THEN <<NoName, NoName>> ELSE <<p[1]>>

\* path_dirname and path_p_basename; the directory of "/x" is "/".
Dirname(p) ==
    IF Len(p) = 1 THEN <<NoName>>
    ELSE IF Len(p) = 2 /\ p[1] = NoName THEN <<NoName, NoName>> ELSE Front(p)

Basename(p) == Last(p)

-----------------------------------------------------------------------------
(* What path_simplify should do, without a buffer: ".." takes away the     *)
(* nearest component before it that is not taken away yet.                 *)

Kept(c) == c \notin {".", ".."}

\* Components less "..", from the i-th to the k-th.
Balance(p, i, k) ==
    Cardinality({j \in i .. k : Kept(p[j])}) - Cardinality({j \in i .. k : p[j] = ".."})

Survives(p, i) == Kept(p[i]) /\ \A k \in i .. Len(p) : Balance(p, i, k) > 0

Surviving(p) ==
    LET upTo[k \in 1 .. Len(p)] ==
            IF k = 1 THEN <<p[1]>>
            ELSE IF Survives(p, k) THEN Append(upTo[k - 1], p[k]) ELSE upTo[k - 1]
    IN  upTo

Survivors(p) == Surviving(p)[Len(p)]

\* The path climbs above its first component, and goes on from there.
Climbs(p) == \E k \in 2 .. Len(p) : Balance(p, 2, k) < 0

GoesOn(p) == \E k \in 2 .. Len(p) : Kept(p[k]) /\ \E j \in 2 .. k - 1 : Balance(p, 2, j) < 0
=============================================================================

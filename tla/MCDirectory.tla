----------------------------- MODULE MCDirectory -----------------------------
(* The root and three more inodes, two names, and three entries to a       *)
(* directory: a directory within a directory, a file with three names, and *)
(* an entry that moves when another one goes.                              *)
EXTENDS Directory, TLC
CONSTANTS root, i1, i2, i3, n1, n2

MCInodes == {root, i1, i2, i3}
MCNames  == {n1, n2}

Symmetry == Permutations(MCInodes \ {root}) \cup Permutations(MCNames)

\* The exploration stops where the calls can promise nothing more, and at a
\* failed assertion: what is on disk then is also there after a Restart, or
\* after a call that died in the same place.
Bounded == spoiled \subseteq {"half"}
=============================================================================

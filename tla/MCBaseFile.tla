----------------------------- MODULE MCBaseFile -----------------------------
(* The root and one more inode, three slots and three blocks for files of   *)
(* two: all slots busy, all inodes in use and an empty free list are a few  *)
(* calls away from each other.                                              *)
EXTENDS BaseFile, TLC
CONSTANTS b1, b2, b3, s1, s2, s3

MCInodes == 0 .. 1
MCSlots  == {s1, s2, s3}
MCBlocks == {b1, b2, b3}

Symmetry == Permutations(MCBlocks) \cup Permutations(MCSlots)

\* The exploration stops where this layer's assumptions are broken, and
\* when crashes have put the count of inodes two above what the table holds.
Bounded == Sound /\ sb.inodes <= Cardinality(Inodes) + 1
=============================================================================

---------------------------- MODULE MCBlockFile ----------------------------
(* Two files, one direct block and two numbers per index block: a file of  *)
(* eight blocks uses the trees of all three levels and every data block.   *)
EXTENDS BlockFile
CONSTANTS f1, f2

MCFiles == {f1, f2}

Symmetry == Permutations(MCFiles)

\* After a file with an index tree was truncated blocks are given back that
\* the free list does not expect, and its behaviour is no longer the one
\* modelled here: the exploration ends with that step.
ContractKept == ~pruned
=============================================================================

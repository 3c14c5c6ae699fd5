---------------------------- MODULE MCFreeBlocks ----------------------------
(* Six data blocks in groups of two: three groups after the format, and a   *)
(* full group on top is split and merged again by every few operations.     *)
EXTENDS FreeBlocks
=============================================================================

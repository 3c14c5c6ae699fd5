------------------------------ MODULE MCFileIO ------------------------------
(* Two files of up to four bytes in blocks of two, three blocks for both    *)
(* and two inodes in memory, as many as cp needs at a time; pieces of three *)
(* bytes, so that reads and writes of a command cross and split blocks.     *)
EXTENDS FileIO, TLC
CONSTANTS f, g

MCFiles   == {f, g}
MCByte    == {"x", "y", "z"}
MCHandles == 1 .. 2
MCBlocks  == 1 .. 3
MCCounts  == {1, 3}
MCTexts   == {<<"x", "y", "z">>}
=============================================================================

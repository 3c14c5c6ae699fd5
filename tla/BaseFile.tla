------------------------------- MODULE BaseFile -------------------------------
(***************************************************************************)
(* src/fulfs/base_file.c, mem_inode.c, inode.c and superblock.c: the life  *)
(* of the files of one mounted file system, seen where three copies of the *)
(* same facts meet: the inode table and the superblock on disk, the        *)
(* superblock in memory, and a private inode copy per open file, written   *)
(* back when the file is closed.  The file system is never unmounted, so   *)
(* the end of the program is a crash like any other.                       *)
(*                                                                         *)
(* Abstractions.  Sizes and positions are counted in blocks and files are  *)
(* short enough to be named in the inode directly (BlockFile has the index *)
(* trees); the free list is a set, kept on disk at every moment, that only *)
(* held blocks are given back to (FreeBlocks).  Times are left out.  A     *)
(* slot's ref_count is 1 from mem_inode_get to mem_inode_put and is left   *)
(* out with it.  One call runs at a time; a crash falls between two calls  *)
(* or between two of the disk writes of one.                               *)
(***************************************************************************)
EXTENDS Integers, Sequences, FiniteSets, FiniteSetsExt, SequencesExt

CONSTANTS
    Inodes,         \* inode numbers, 0 .. INODE_MAX_COUNT - 1
    Slots,          \* entries of mem_inodes, MAX_MEM_INODE_COUNT of them
    Blocks,         \* data blocks
    NoBlock,        \* an indeterminate block number
    MaxBlocks,      \* bound: no file grows beyond this
    MaxLinks        \* bound: no more links to one file

ASSUME InodesAssumption == Inodes \subseteq Nat /\ 0 \in Inodes /\ IsFiniteSet(Inodes)
ASSUME SlotsAssumption == IsFiniteSet(Slots)
ASSUME BlocksAssumption == NoBlock \notin Blocks /\ IsFiniteSet(Blocks)
ASSUME BoundsAssumption == MaxBlocks \in Nat \ {0} /\ MaxLinks \in Nat \ {0}

VARIABLES
    table,          \* the inode table on disk
    sbDisk,         \* the used counts of the superblock on disk
    sb,             \* ... and of the superblock in memory
    free,           \* the blocks on the free list
    slot,           \* mem_inodes, with the position of the base_file_t using it
    crashed,        \* auxiliary: there was a crash
    spoiled         \* auxiliary: what has been done that this layer cannot take

vars == <<table, sbDisk, sb, free, slot, crashed, spoiled>>

Modes == {"empty", "used"}      \* 0, or any of the modes callers give

\* An inode; its size is the length of `blocks`, the block numbers in use.
Inode == [mode : Modes, links : 0 .. MaxLinks,
          blocks : SeqOf(Blocks \cup {NoBlock}, MaxBlocks)]

EmptyInode == [mode |-> "empty", links |-> 0, blocks |-> << >>]

Size(inode) == Len(inode.blocks)

\* An entry of mem_inodes and the base_file_t using it.
Slot == [state : {"free", "open", "leaked"}, no : Inodes, inode : Inode,
         pos : 0 .. MaxBlocks, cut : BOOLEAN]

FreeSlot == [state |-> "free", no |-> 0, inode |-> EmptyInode, pos |-> 0, cut |-> FALSE]

InUse     == {i \in Inodes : table[i].mode # "empty"}

\* Mutant: an inode without data passes for a free one.
UnusedBySize == {i \in Inodes : table[i].blocks = << >>}

Unused    == Inodes \ InUse                \* what inode_alloc looks for
FreeSlots == {s \in Slots : slot[s].state = "free"}
Open      == {s \in Slots : slot[s].state = "open"}
OpenOn(i) == {s \in Open : slot[s].no = i}

-----------------------------------------------------------------------------
(* base_file_create, inode_alloc.                                          *)

Created == [sb EXCEPT !.inodes = @ + 1]

\* Mutant: the superblock is not written when a file is created.
CreateUnsaved ==
    LET i == Min(Unused)
    IN  /\ Unused # {}
        /\ sb' = Created
        /\ table' = [table EXCEPT ![i].mode = "used", ![i].blocks = << >>, ![i].links = 1]
        /\ UNCHANGED <<free, slot, crashed, spoiled, sbDisk>>

\* The first inode of mode 0, with the block numbers of its earlier life.
Create ==
    LET i == Min(Unused)
    IN  /\ Unused # {}
        /\ sb' = Created
        /\ sbDisk' = sb'
        /\ table' = [table EXCEPT ![i].mode = "used", ![i].blocks = << >>, ![i].links = 1]
        /\ UNCHANGED <<free, slot, crashed, spoiled>>

-----------------------------------------------------------------------------
(* base_file_open, mem_inode_get: a fresh copy for every caller.           *)

Note(what, when) == spoiled' = IF when THEN spoiled \cup {what} ELSE spoiled

OpenFile(i) ==
    /\ i \in InUse
    /\ \E s \in FreeSlots :
          slot' = [slot EXCEPT ![s] = [state |-> "open", no |-> i, inode |-> table[i],
                                       pos |-> 0, cut |-> FALSE]]
    /\ Note("shared", OpenOn(i) # {})
    /\ UNCHANGED <<table, sbDisk, sb, free, crashed>>

\* base_file_seek; callers stay within the file.
Seek(s, pos) ==
    /\ s \in Open
    /\ pos <= Size(slot[s].inode)
    /\ slot' = [slot EXCEPT ![s].pos = pos]
    /\ UNCHANGED <<table, sbDisk, sb, free, crashed, spoiled>>

\* base_file_read or base_file_write of one block within the file, which moves
\* the position.
WriteInside(s) ==
    /\ s \in Open
    /\ slot[s].pos < Size(slot[s].inode)
    /\ slot' = [slot EXCEPT ![s].pos = @ + 1]
    /\ UNCHANGED <<table, sbDisk, sb, free, crashed, spoiled>>

\* base_file_write of one block past the last: the new block goes to the
\* entry after the last, the size follows the position.  What is between the
\* two reads as block numbers nobody put there.  (When no block is free the
\* call returns with nothing changed.)
WritePush(s) ==
    LET pos == slot[s].pos
        size == Size(slot[s].inode)
    IN  /\ s \in Open
        /\ pos >= size /\ pos < MaxBlocks
        /\ \E b \in free :
              /\ free' = free \ {b}
              /\ slot' = [slot EXCEPT ![s].pos = pos + 1,
                     ![s].inode.blocks = @ \o <<b>> \o [k \in 1 .. pos - size |-> NoBlock]]
        /\ sb' = [sb EXCEPT !.blocks = @ + 1]
        /\ Note("hole", pos > size)
        /\ UNCHANGED <<table, sbDisk, crashed>>

\* Mutant: the size is not brought down after the blocks were freed.
TruncateKeepsSize(s, size) ==
    LET blocks == slot[s].inode.blocks
        freed == SubSeq(blocks, size + 1, Len(blocks))
    IN  /\ s \in Open
        /\ size < Len(blocks)
        /\ free' = free \cup ToSet(freed)
        /\ slot' = [slot EXCEPT ![s].cut = TRUE]
        /\ sb' = [sb EXCEPT !.blocks = @ - Len(freed)]
        /\ UNCHANGED <<table, sbDisk, crashed, spoiled>>

\* Mutant: the count goes down by the whole size.
TruncateCountsAll(s, size) ==
    LET blocks == slot[s].inode.blocks
        freed == SubSeq(blocks, size + 1, Len(blocks))
    IN  /\ s \in Open
        /\ size < Len(blocks)
        /\ free' = free \cup ToSet(freed)
        /\ slot' = [slot EXCEPT ![s].inode.blocks = SubSeq(@, 1, size), ![s].cut = TRUE]
        /\ sb' = [sb EXCEPT !.blocks = @ - Len(blocks)]
        /\ UNCHANGED <<table, sbDisk, crashed, spoiled>>

\* base_file_truncate; the position stays where it is.
Truncate(s, size) ==
    LET blocks == slot[s].inode.blocks
        freed == SubSeq(blocks, size + 1, Len(blocks))
    IN  /\ s \in Open
        /\ size < Len(blocks)
        /\ free' = free \cup ToSet(freed)
        /\ slot' = [slot EXCEPT ![s].inode.blocks = SubSeq(@, 1, size), ![s].cut = TRUE]
        /\ sb' = [sb EXCEPT !.blocks = @ - Len(freed)]
        /\ UNCHANGED <<table, sbDisk, crashed, spoiled>>

\* Mutant: the inode copy of a file that was cut down is not written back.
CloseCutUndumped(s) ==
    /\ s \in Open
    /\ sbDisk' = sb
    /\ table' = IF slot[s].cut THEN table ELSE [table EXCEPT ![slot[s].no] = slot[s].inode]
    /\ slot' = [slot EXCEPT ![s] = FreeSlot]
    /\ UNCHANGED <<sb, free, crashed, spoiled>>

\* Mutant: the superblock is not written at close.
CloseUncounted(s) ==
    /\ s \in Open
    /\ table' = [table EXCEPT ![slot[s].no] = slot[s].inode]
    /\ slot' = [slot EXCEPT ![s] = FreeSlot]
    /\ UNCHANGED <<sb, free, crashed, spoiled, sbDisk>>

\* base_file_close: the superblock, then the inode.
Close(s) ==
    /\ s \in Open
    /\ sbDisk' = sb
    /\ table' = [table EXCEPT ![slot[s].no] = slot[s].inode]
    /\ slot' = [slot EXCEPT ![s] = FreeSlot]
    /\ UNCHANGED <<sb, free, crashed, spoiled>>

-----------------------------------------------------------------------------
(* base_file_ref, base_file_unref, base_file_del: on a copy of their own.  *)

Ref(i) ==
    /\ i \in InUse \ {0} /\ table[i].links < MaxLinks
    /\ FreeSlots # {}
    /\ table' = [table EXCEPT ![i].links = @ + 1]
    /\ Note("shared", OpenOn(i) # {})
    /\ UNCHANGED <<sbDisk, sb, free, slot, crashed>>

UnrefKeep(i) ==
    /\ i \in InUse
    /\ FreeSlots # {}
    /\ table[i].links > 1
    /\ table' = [table EXCEPT ![i].links = @ - 1]
    /\ Note("shared", OpenOn(i) # {})
    /\ UNCHANGED <<sbDisk, sb, free, slot, crashed>>

\* The counts once the blocks of file i are back on the free list.
Deleted(i) == [sb EXCEPT !.blocks = @ - Size(table[i])]

\* A slot is taken, and never put back: it is neither free nor somebody's.
LeakSlot == \E s \in FreeSlots : slot' = [slot EXCEPT ![s].state = "leaked"]

\* Mutant: the superblock is not written before the inode is freed.
UnrefDeleteUnsaved(i) ==
    /\ i \in InUse \ {0}
    /\ Cardinality(FreeSlots) > 1
    /\ table[i].links = 1
    /\ free' = free \cup ToSet(table[i].blocks)
    /\ sb' = [Deleted(i) EXCEPT !.inodes = @ - 1]
    /\ table' = [table EXCEPT ![i].blocks = << >>, ![i].mode = "empty"]
    /\ LeakSlot
    /\ Note("shared", OpenOn(i) # {})
    /\ UNCHANGED <<crashed, sbDisk>>

\* The last link: a second copy is opened, truncated and closed, which
\* writes the superblock; then the inode is freed and the count of inodes
\* goes down in memory.  The first copy, with no link left, is never put back.
UnrefDelete(i) ==
    /\ i \in InUse \ {0}
    /\ Cardinality(FreeSlots) > 1
    /\ table[i].links = 1
    /\ free' = free \cup ToSet(table[i].blocks)
    /\ sbDisk' = Deleted(i)
    /\ sb' = [Deleted(i) EXCEPT !.inodes = @ - 1]
    /\ table' = [table EXCEPT ![i].blocks = << >>, ![i].mode = "empty"]
    /\ LeakSlot
    /\ Note("shared", OpenOn(i) # {})
    /\ UNCHANGED crashed

\* No slot for the second copy: the call fails, the first slot is gone.
UnrefStuck(i) ==
    /\ i \in InUse \ {0}
    /\ Cardinality(FreeSlots) = 1
    /\ table[i].links = 1
    /\ LeakSlot
    /\ Note("shared", OpenOn(i) # {})
    /\ UNCHANGED <<table, sbDisk, sb, free, crashed>>

\* A copy taken by fulfs_stat, which is looked at and never put back.  (The
\* same happens in fulfs_link and fulfs_unlink when the type does not suit.)
Stat(i) ==
    /\ i \in InUse
    /\ LeakSlot
    /\ UNCHANGED <<table, sbDisk, sb, free, crashed, spoiled>>

-----------------------------------------------------------------------------
(* The end of the program, and the next mount: memory is lost, and the     *)
(* superblock is what the disk says (superblock_load).                     *)

Reboot(counts) ==
    /\ sbDisk' = counts
    /\ sb' = counts
    /\ slot' = [s \in Slots |-> FreeSlot]
    /\ crashed' = TRUE

Cut == \E s \in Open : slot[s].cut

Crash == Reboot(sbDisk) /\ Note("torn", Cut) /\ UNCHANGED <<table, free>>

\* Between the two writes of base_file_close, and of base_file_create.
CrashInClose(s)  == s \in Open /\ Reboot(sb) /\ Note("torn", Cut) /\ UNCHANGED <<table, free>>
CrashInCreate    == Unused # {} /\ Reboot(Created) /\ Note("torn", Cut) /\ UNCHANGED <<table, free>>

\* In base_file_del, before and after the truncated inode is written.
CrashInDelete(i) ==
    /\ i \in InUse \ {0} /\ table[i].links = 1
    /\ Cardinality(FreeSlots) > 1
    /\ free' = free \cup ToSet(table[i].blocks)
    /\ \/ /\ \E counts \in {sbDisk, Deleted(i)} : Reboot(counts)
          /\ Note("torn", Cut \/ table[i].blocks # << >>)
          /\ UNCHANGED table
       \/ /\ Reboot(Deleted(i))
          /\ Note("torn", Cut)
          /\ table' = [table EXCEPT ![i].blocks = << >>]

-----------------------------------------------------------------------------
\* A formatted device, mounted: the root directory has inode 0.
Init ==
    /\ table = [i \in Inodes |-> IF i = 0 THEN [EmptyInode EXCEPT !.mode = "used", !.links = 1]
                                          ELSE EmptyInode]
    /\ sbDisk = [inodes |-> 1, blocks |-> 0]
    /\ sb = sbDisk
    /\ free = Blocks
    /\ slot = [s \in Slots |-> FreeSlot]
    /\ crashed = FALSE
    /\ spoiled = {}

FileCall(s) ==
    \/ \E n \in 0 .. MaxBlocks : Seek(s, n) \/ Truncate(s, n)
    \/ WriteInside(s) \/ WritePush(s)
    \/ Close(s)

InodeCall(i) ==
    \/ OpenFile(i) \/ Stat(i) \/ Ref(i)
    \/ UnrefKeep(i) \/ UnrefDelete(i) \/ UnrefStuck(i)

Next ==
    \/ Create
    \/ \E i \in Inodes : InodeCall(i) \/ CrashInDelete(i)
    \/ \E s \in Slots : FileCall(s) \/ CrashInClose(s)
    \/ Crash \/ CrashInCreate

Spec == Init /\ [][Next]_vars

-----------------------------------------------------------------------------
(* Properties.  `spoiled` names the three ways out of this layer's depth: a *)
(* file opened (or linked, or unlinked) while it is open, a write beyond    *)
(* the end, a crash between a truncation and the close that records it.     *)
(* No code guards against them.  The superblock, the inodes and the free    *)
(* list survive every other history, every other crash included.            *)

Sound == spoiled = {}

\* The inode of file i as the running program sees it.
View(i) == IF OpenOn(i) = {} THEN table[i] ELSE slot[CHOOSE s \in OpenOn(i) : TRUE].inode

\* Where the files in use name a block in a table t of inodes: <<file, index>>.
Refs(t) == {r \in InUse \X (1 .. MaxBlocks) : r[2] <= Size(t[r[1]])}

At(t, r) == t[r[1]].blocks[r[2]]

\* In t every block number occurs once, and none is free.
Exclusive(t) ==
    /\ \A r \in Refs(t) : At(t, r) \in Blocks \ free
    /\ \A q, r \in Refs(t) : At(t, q) = At(t, r) => q = r

Claimed(t) == Cardinality(Refs(t))

Views == [i \in Inodes |-> View(i)]

\* Type invariant.
TypeOK ==
    /\ table \in [Inodes -> Inode]
    /\ {sb, sbDisk} \subseteq [inodes : Int, blocks : Int]
    /\ Sound => /\ {sb.inodes, sbDisk.inodes} \subseteq Nat
                /\ {sb.blocks, sbDisk.blocks} \subseteq 0 .. Cardinality(Blocks)
                /\ free \subseteq Blocks
    /\ free \subseteq Blocks \cup {NoBlock}
    /\ slot \in [Slots -> Slot]
    /\ crashed \in BOOLEAN
    /\ spoiled \in SUBSET {"shared", "hole", "torn"}

\* Whatever files are open, no block belongs to two files, or to a file and
\* the free list: data_block_free only gets blocks the file holds.
BlocksExclusive == Sound => Exclusive(Views)

\* What is on disk alone is just as sound, at every moment except between a
\* truncation and the close of that file.
DiskExclusive == (Sound /\ ~Cut) => Exclusive(table)

\* The count of used blocks never falls below what the files hold, so giving
\* them all up does not wrap it, in memory or after a crash; and until there
\* is a crash it is exact and no block is lost.
UsedBlocksCover ==
    Sound =>
      /\ sb.blocks >= Claimed(Views)
      /\ ~Cut => sbDisk.blocks >= Claimed(table)
      /\ ~crashed => /\ sb.blocks = Claimed(Views)
                     /\ sb.blocks = Cardinality(Blocks \ free)

\* The same for the count of inodes; without a crash it is exact.
UsedInodesCover ==
    Sound =>
      /\ sb.inodes >= Cardinality(InUse) /\ sbDisk.inodes >= Cardinality(InUse)
      /\ ~crashed => sb.inodes = Cardinality(InUse)

\* An open file exists: its inode was not freed, let alone given to another
\* file, and its copy shows the type and the links that the disk shows.
OpenFilesExist ==
    Sound => \A s \in Open :
                /\ slot[s].no \in InUse
                /\ slot[s].inode.mode = table[slot[s].no].mode
                /\ slot[s].inode.links = table[slot[s].no].links

\* When no file is open the next mount starts from the right count: after
\* closes, deletions and crashes alike the one on disk is the one in memory,
\* and until there is a crash it is exactly the blocks that the inodes on disk
\* name, and those that are off the free list.
ClosedIsDurable ==
    Open = {} =>
      /\ sbDisk.blocks = sb.blocks
      /\ Sound /\ ~crashed => /\ sbDisk.blocks = Claimed(table)
                              /\ sbDisk.blocks = Cardinality(Blocks \ free)

\* A file position is at most the size: base_file_seek asserts it.
PositionWithinFile == \A s \in Open : slot[s].pos <= Size(slot[s].inode)

\* "Write the superblock back" (base_file_del), "minus 1 when a file is
\* deleted" (superblock.h): the count on disk is the number of files.
InodeCountOnDisk == ~crashed => sbDisk.inodes = Cardinality(InUse)
=============================================================================

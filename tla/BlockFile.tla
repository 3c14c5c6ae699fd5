------------------------------ MODULE BlockFile ------------------------------
(***************************************************************************)
(* src/fulfs/base_block_file.c and the callers of it in base_file.c: which *)
(* data block holds block k of a file.  The first Direct blocks are named  *)
(* in the inode, the following ones are the leaves of three trees of index *)
(* blocks with PerIndex entries each, of height 1, 2 and 3.                *)
(*                                                                         *)
(* Abstractions.  Sizes are counted in blocks.  The free blocks are a      *)
(* stack: FreeBlocks hands out the block freed last, and its contract is   *)
(* that only a held block is given back.  Files are written at positions   *)
(* up to their size, as the assertion in base_file_seek demands.  What a   *)
(* block holds is seen through `index`, the numbers read when its bytes    *)
(* are taken for an index block, and `data`, the file block last written   *)
(* to it.  Device errors are the subject of FreeBlocks.                    *)
(***************************************************************************)
EXTENDS Integers, Sequences, FiniteSets, SequencesExt

CONSTANTS
    Files,          \* inodes in use
    Direct,         \* LEVEL_0_INDIRECT_COUNT, 10 in the code
    PerIndex,       \* block numbers per index block, 128 for 512 byte blocks
    Count,          \* how many data blocks the free list starts with
    MaxSize         \* bound: no file grows beyond this

ASSUME DirectAssumption == Direct \in Nat \ {0}
ASSUME PerIndexAssumption == PerIndex \in Nat \ {0, 1}
ASSUME CountAssumption == Count \in Nat

VARIABLES
    inode,          \* per file: size, direct, root (of the tree of each level)
    index,          \* the contents of every block read as an index block
    data,           \* the file block whose data every block holds
    pool,           \* the free blocks, the next one to be handed out last
    used,           \* sb->used_data_block_count
    refused,        \* auxiliary: an append was refused for want of space
    pruned          \* auxiliary: a file with an index tree was truncated

vars == <<inode, index, data, pool, used, refused, pruned>>

Blocks  == 1 .. Count
NoBlock == 0                            \* an indeterminate block number
NoData  == << >>
Levels  == 1 .. 3
Junk    == [i \in 0 .. PerIndex - 1 |-> NoBlock]

\* How many leaves are below a node that is so many levels above them.
Width(levels) ==
    CASE levels = 0 -> 1
      [] levels = 1 -> PerIndex
      [] levels = 2 -> PerIndex * PerIndex
      [] levels = 3 -> PerIndex * PerIndex * PerIndex

\* The first file block of each level (level_0_max_block_count and so on);
\* Base(4) is the largest file, after which push and locate assert(false).
Base(level) ==
    CASE level = 0 -> 0
      [] level = 1 -> Direct
      [] level = 2 -> Direct + Width(1)
      [] level = 3 -> Direct + Width(1) + Width(2)
      [] level = 4 -> Direct + Width(1) + Width(2) + Width(3)

ASSUME SizeAssumption == MaxSize \in 0 .. Base(4)

LevelOf(k) == CHOOSE level \in 0 .. 3 : Base(level) <= k /\ k < Base(level + 1)

-----------------------------------------------------------------------------
(* locate, base_block_file_locate.                                         *)

Slot(no) == no % PerIndex

\* The node numbered no at depth `level` of the tree that starts at first,
\* and the nodes on the way to it.
Locating(device, first, level, no) ==
    LET at[d \in 0 .. level] ==
            IF d = 0 THEN first
            ELSE device[at[d - 1]][Slot(no \div Width(level - d))]
    IN  at

Locate(device, first, level, no) == Locating(device, first, level, no)[level]

BlockAt(f, k) ==
    LET level == LevelOf(k)
    IN  IF level = 0 THEN inode[f].direct[k]
        ELSE Locate(index, inode[f].root[level], level, k - Base(level))

-----------------------------------------------------------------------------
(* data_block_alloc and data_block_free, seen from here.  A store is what  *)
(* add works on: its result and the parts of the state it changes.         *)

Store(f, level) == [ok |-> TRUE, block |-> NoBlock, root |-> inode[f].root[level],
                    index |-> index, pool |-> pool, used |-> used]

\* Mutant: the count goes up before the list is found to be empty.
TakeCountedFirst(store) ==
    IF store.pool = << >>
       THEN [store EXCEPT !.ok = FALSE, !.used = @ + 1]
       ELSE [store EXCEPT !.block = Last(store.pool), !.pool = Front(@), !.used = @ + 1]

\* Mutant: the block handed out stays on the list.
TakeKept(store) ==
    IF store.pool = << >>
       THEN [store EXCEPT !.ok = FALSE]
       ELSE [store EXCEPT !.block = Last(store.pool), !.used = @ + 1]

Take(store) ==
    IF store.pool = << >>
       THEN [store EXCEPT !.ok = FALSE]
       ELSE [store EXCEPT !.block = Last(store.pool), !.pool = Front(@), !.used = @ + 1]

-----------------------------------------------------------------------------
(* add: one more leaf for a tree with `size` leaves.  At each level the    *)
(* parent is either a new node of the level above or the one in use; it is *)
(* loaded, given the number of the new node, and dumped.  When the leaf    *)
(* cannot be allocated, the parents added on the way remain.               *)

\* Mutant: the parent that received the new number is not dumped.
AddLeafUndumped(f, level, size) ==
    LET grow[d \in 0 .. level] ==
            LET n == size \div Width(level - d)
                parent == IF Slot(n) = 0 THEN grow[d - 1]
                          ELSE [Store(f, level) EXCEPT !.block =
                                  Locate(index, inode[f].root[level], d - 1, (n - 1) \div PerIndex)]
                child == Take(parent)
            IN  IF d = 0 THEN LET s == Take(Store(f, level))
                              IN  IF s.ok THEN [s EXCEPT !.root = s.block] ELSE s
                ELSE IF ~parent.ok THEN parent ELSE child
    IN  grow[level]

\* Mutant: a new number always goes to the first entry of its parent.
AddLeafFirstSlot(f, level, size) ==
    LET grow[d \in 0 .. level] ==
            LET n == size \div Width(level - d)
                parent == IF Slot(n) = 0 THEN grow[d - 1]
                          ELSE [Store(f, level) EXCEPT !.block =
                                  Locate(index, inode[f].root[level], d - 1, (n - 1) \div PerIndex)]
                child == Take(parent)
            IN  IF d = 0 THEN LET s == Take(Store(f, level))
                              IN  IF s.ok THEN [s EXCEPT !.root = s.block] ELSE s
                ELSE IF ~parent.ok THEN parent
                ELSE IF ~child.ok THEN child
                ELSE [child EXCEPT !.index[parent.block][0] = child.block]
    IN  grow[level]

\* The stores after each depth of the recursion, from the root down.
Growing(f, level, size) ==
    LET grow[d \in 0 .. level] ==
            LET n == size \div Width(level - d)
                parent == IF Slot(n) = 0 THEN grow[d - 1]
                          ELSE [Store(f, level) EXCEPT !.block =
                                  Locate(index, inode[f].root[level], d - 1, (n - 1) \div PerIndex)]
                child == Take(parent)
            IN  IF d = 0 THEN LET s == Take(Store(f, level))
                              IN  IF s.ok THEN [s EXCEPT !.root = s.block] ELSE s
                ELSE IF ~parent.ok THEN parent
                ELSE IF ~child.ok THEN child
                ELSE [child EXCEPT !.index[parent.block][Slot(n)] = child.block]
    IN  grow

AddLeaf(f, level, size) == Growing(f, level, size)[level]

-----------------------------------------------------------------------------
(* base_file_write at the end of a file: push a block, then write the data *)
(* to it and count it in the size.                                         *)

AppendDirect(f) ==
    LET k == inode[f].size
        s == Take(Store(f, 1))
    IN  /\ k < Direct /\ k < MaxSize
        /\ inode' = [inode EXCEPT ![f].direct[k] = s.block,
                                  ![f].size = IF s.ok THEN k + 1 ELSE k]
        /\ index' = IF s.ok THEN [index EXCEPT ![s.block] = Junk] ELSE index
        /\ data' = IF s.ok THEN [data EXCEPT ![s.block] = <<f, k>>] ELSE data
        /\ pool' = s.pool
        /\ used' = s.used
        /\ refused' = (refused \/ ~s.ok)
        /\ UNCHANGED pruned

\* Blocks that become index blocks lose the data they held.
AppendIndirect(f) ==
    LET k == inode[f].size
        level == LevelOf(k)
        s == AddLeaf(f, level, k - Base(level))
        taken == ToSet(pool) \ ToSet(s.pool)
    IN  /\ k >= Direct /\ k < MaxSize
        /\ inode' = [inode EXCEPT ![f].root[level] = s.root,
                                  ![f].size = IF s.ok THEN k + 1 ELSE k]
        /\ index' = IF s.ok THEN [s.index EXCEPT ![s.block] = Junk] ELSE s.index
        /\ data' = [b \in Blocks |-> IF s.ok /\ b = s.block THEN <<f, k>>
                                     ELSE IF b \in taken /\ s.index[b] # index[b]
                                          THEN NoData ELSE data[b]]
        /\ pool' = s.pool
        /\ used' = s.used
        /\ refused' = (refused \/ ~s.ok)
        /\ UNCHANGED pruned

\* base_file_write below the end of a file.
Overwrite(f, k) ==
    LET b == BlockAt(f, k)
    IN  /\ k < inode[f].size
        /\ index' = [index EXCEPT ![b] = Junk]
        /\ data' = [data EXCEPT ![b] = <<f, k>>]
        /\ UNCHANGED <<inode, pool, used, refused, pruned>>

-----------------------------------------------------------------------------
(* base_file_truncate: one base_block_file_pop_block per block given up.   *)

\* The blocks that pop gives to data_block_free for a tree with `size`
\* leaves: the root, and before it what the level above gives when the last
\* leaf lies under the first node.  The leaf it has located is not among them.
Popping(f, level, size) ==
    LET n(d) == (size - 1) \div Width(level - d) + 1
        frees[d \in 0 .. level] ==
            IF d = 0 THEN <<inode[f].root[level]>>
            ELSE IF (n(d) - 1) \div PerIndex = 0
                 THEN Append(frees[d - 1], inode[f].root[level])
                 ELSE <<inode[f].root[level]>>
    IN  frees

Popped(f, level, size) == Popping(f, level, size)[level]

\* The blocks freed when the file of count blocks loses its last one.
FreedByPop(f, count) ==
    LET level == LevelOf(count - 1)
    IN  IF level = 0 THEN <<inode[f].direct[count - 1]>>
        ELSE Popped(f, level, count - Base(level))

\* Everything freed when f is cut down to n blocks, in order; the blocks that
\* are freed before f is down to i blocks are Cutting(f, n)[i].
Cutting(f, n) ==
    LET upto[i \in n .. inode[f].size] ==
            IF i = inode[f].size THEN << >>
            ELSE upto[i + 1] \o FreedByPop(f, i + 1)
    IN  upto

FreedByCut(f, n) == Cutting(f, n)[n]

\* Mutant: the loop over the blocks ends one block early.
TruncateShort(f, n) ==
    LET freed == FreedByCut(f, n + 1)
    IN  /\ n < inode[f].size
        /\ inode' = [inode EXCEPT ![f].size = n]
        /\ pool' = pool \o freed
        /\ used' = used - Len(freed)
        /\ pruned' = (pruned \/ inode[f].size > Direct)
        /\ UNCHANGED <<index, data, refused>>

\* Mutant: the freed blocks are not counted.
TruncateUncounted(f, n) ==
    LET freed == FreedByCut(f, n)
    IN  /\ n < inode[f].size
        /\ inode' = [inode EXCEPT ![f].size = n]
        /\ pool' = pool \o freed
        /\ pruned' = (pruned \/ inode[f].size > Direct)
        /\ UNCHANGED <<index, data, refused, used>>

Truncate(f, n) ==
    LET freed == FreedByCut(f, n)
    IN  /\ n < inode[f].size
        /\ inode' = [inode EXCEPT ![f].size = n]
        /\ pool' = pool \o freed
        /\ used' = used - Len(freed)
        /\ pruned' = (pruned \/ inode[f].size > Direct)
        /\ UNCHANGED <<index, data, refused>>

-----------------------------------------------------------------------------
Init ==
    /\ inode = [f \in Files |->
                  [size |-> 0, direct |-> [i \in 0 .. Direct - 1 |-> NoBlock],
                   root |-> [level \in Levels |-> NoBlock]]]
    /\ index = [b \in Blocks |-> Junk]
    /\ data = [b \in Blocks |-> NoData]
    /\ pool = [i \in Blocks |-> i]
    /\ used = 0
    /\ refused = FALSE
    /\ pruned = FALSE

Next ==
    \E f \in Files :
       \/ AppendDirect(f)
       \/ AppendIndirect(f)
       \/ \E k \in 0 .. MaxSize : Overwrite(f, k) \/ Truncate(f, k)

Spec == Init /\ [][Next]_vars

-----------------------------------------------------------------------------
(* Properties.  They speak of histories in which no file with an index     *)
(* tree was truncated: PruneFreesWhatWasCut shows what happens then.       *)

\* The nodes on the way to file block k, by level, depth and number at that
\* depth; the node at the depth of the level is the leaf.
Path(k) ==
    LET level == LevelOf(k)
    IN  {<<level, d, (k - Base(level)) \div Width(level - d)>> : d \in 0 .. level}

\* The nodes in use of the trees of f.
Nodes(f) == UNION {Path(k) : k \in 0 .. inode[f].size - 1}

NodeBlock(f, node) ==
    IF node[1] = 0 THEN inode[f].direct[node[3]]
    ELSE Locate(index, inode[f].root[node[1]], node[2], node[3])

Owned(f) == {NodeBlock(f, node) : node \in Nodes(f)}

\* Type invariant; the count stays within the data area.
TypeOK ==
    /\ \A f \in Files :
          /\ inode[f].size \in 0 .. MaxSize
          /\ inode[f].direct \in [0 .. Direct - 1 -> Blocks \cup {NoBlock}]
          /\ inode[f].root \in [Levels -> Blocks \cup {NoBlock}]
    /\ index \in [Blocks -> [0 .. PerIndex - 1 -> Blocks \cup {NoBlock}]]
    /\ data \in [Blocks -> (Files \X (0 .. MaxSize - 1)) \cup {NoData}]
    /\ pool \in Seq(Blocks)
    /\ refused \in BOOLEAN /\ pruned \in BOOLEAN
    /\ pruned \/ used \in 0 .. Count

\* Whatever the order in which files grow, shrink and are overwritten, what
\* was written to block k of a file is what a read of block k finds.
ReadBack ==
    pruned \/ \A f \in Files : \A k \in 0 .. inode[f].size - 1 :
                 data[BlockAt(f, k)] = <<f, k>>

\* No block plays two parts: no two nodes of any trees share a block, and no
\* node is on the free list, which has no number twice.
OwnedOnce ==
    pruned \/
      /\ \A f \in Files : Cardinality(Owned(f)) = Cardinality(Nodes(f))
      /\ \A f, g \in Files : f = g \/ Owned(f) \cap Owned(g) = {}
      /\ \A f \in Files : Owned(f) \cap ToSet(pool) = {}
      /\ IsInjective(pool)

\* Blocks leave the reach of both the files and the free list only when an
\* append runs out of space between an index block and its leaf.
NothingLeaked ==
    pruned \/ refused \/ (UNION {Owned(f) : f \in Files}) \cup ToSet(pool) = Blocks

\* The count kept for the superblock is the number of blocks off the list.
UsedMatches == pruned \/ used = Count - Len(pool)

\* A growing tree never moves a block: every block that a file keeps stays
\* where it is, whatever happens to this or to another file.
BlocksStay ==
    [][~pruned' => \A f \in Files : \A k \in 0 .. inode[f].size - 1 :
                      k < inode'[f].size => BlockAt(f, k)' = BlockAt(f, k)]_vars

\* "Prune a leaf of the tree" (base_block_file.c): the blocks a file loses
\* are back on the free list, once each.
PruneFreesWhatWasCut ==
    [][\A f \in Files : \A k \in 0 .. inode[f].size - 1 :
          k >= inode'[f].size =>
             Cardinality({i \in 1 .. Len(pool') : pool'[i] = BlockAt(f, k)}) = 1]_vars
=============================================================================

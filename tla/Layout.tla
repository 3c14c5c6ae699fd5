------------------------------- MODULE Layout -------------------------------
(***************************************************************************)
(* The arithmetic of fulfs_format (src/fulfs/filesystem.c), superblock.c   *)
(* and inode.c: where the inode table and the data blocks lie on a device, *)
(* in blocks of several sectors, and where in the table an inode lies.     *)
(* Block 0 is left to the superblock, which is in sector 0.                *)
(***************************************************************************)
EXTENDS Integers

CONSTANTS
    SectorBytes,        \* BYTES_PER_SECTOR, 512
    InodeBytes,         \* sizeof(inode_t)
    InodeCount,         \* INODE_MAX_COUNT, 65534
    MaxPerBlock         \* the most sectors in a block, 16

ASSUME LayoutAssumption ==
    /\ {SectorBytes, InodeBytes, InodeCount, MaxPerBlock} \subseteq Nat \ {0}
    /\ InodeBytes <= SectorBytes

\* count_groups.
Groups(n, size) == (n \div size) + (IF n % size = 0 THEN 0 ELSE 1)

\* superblock_block_size; inodes do not cross from one block to the next.
BlockBytes(perBlock) == perBlock * SectorBytes
InodesIn(perBlock)   == BlockBytes(perBlock) \div InodeBytes

\* Mutant: a last block that is not full is not counted.
InodeBlocksFull(perBlock) == InodeCount \div InodesIn(perBlock)

\* inode_block_count.
InodeBlocks(perBlock) == Groups(InodeCount, InodesIn(perBlock))

\* The first data block; fulfs_format wants one data block at least.
DataBlock(perBlock) == 1 + InodeBlocks(perBlock)
Fits(sectors, perBlock) == DataBlock(perBlock) < sectors \div perBlock

\* superblock_create.
Superblock(sectors, perBlock) ==
    [sectors    |-> sectors,
     perBlock   |-> perBlock,
     inodeTable |-> 1,
     dataBlock  |-> DataBlock(perBlock),
     totalSize  |-> ((sectors \div perBlock) - DataBlock(perBlock)) * BlockBytes(perBlock)]

\* superblock_block_count, superblock_data_block_size.
BlockCount(sb) == sb.sectors \div sb.perBlock
DataBlocks(sb) == BlockCount(sb) - sb.dataBlock

\* inode_no_to_block_no_and_offset.
InodePlace(sb, no) ==
    [block  |-> sb.inodeTable + (no \div InodesIn(sb.perBlock)),
     offset |-> (no % InodesIn(sb.perBlock)) * InodeBytes]

\* block_read and block_write: the sectors of a block, which device_read and
\* device_write cut short, without an error, at the end of the device.
SectorsOf(sb, block) == block * sb.perBlock .. (block * sb.perBlock) + sb.perBlock - 1
=============================================================================

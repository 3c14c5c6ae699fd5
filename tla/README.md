# fulfs in TLA+

A model of FILE_OS_Design, a Unix-like file system (fulfs) kept in an ordinary
file that plays the disk, with a system call layer and a shell on top. The
program is single-threaded C. What is hard about it is not concurrency but
state kept in several places at once: blocks that carry the free list while
they are free, trees of block numbers, private copies of inodes, counts in
memory and on disk, and calls that fail half way.

## The system

From top to bottom, with the state each part keeps:

| Part | Source | State | Calls |
|---|---|---|---|
| program and shell | `main.c`, `shell.c`, `shell_command.c` | none; `config.txt` names the drives | create, format, enter; system calls: `mv` is link then unlink, `cat`, `cp` and `ls` are loops |
| system calls | `fs.c`, `fs_def.h` | descriptors `g_fs_files`, mount table, current directory | the file system of the drive letter, through a table of functions |
| directories | `fulfs/file_dir.c` | none of its own; entries are file contents | base files |
| base files | `fulfs/base_file.c` | open files: position, pointer to an inode in memory | block files, inode table, superblock |
| block files | `fulfs/base_block_file.c` | block numbers in the inode and in index blocks | free list, block access |
| inodes in memory | `fulfs/mem_inode.c` | table of 1024 private copies | inode table |
| inode table | `fulfs/inode.c` | inodes on disk, mode 0 means free | block access |
| superblock | `fulfs/superblock.c`, `filesystem.c` | layout, used counts; in memory per mount, and in sector 0 | device |
| free list | `fulfs/data_block.c` | groups of block numbers inside the free blocks | block access |
| device | `device_io.c` | table of open image files, with the sticky error flag of each stream | C library |
| support | `utils/`, `datastruct/`, `memory/` | none | |

They interact by plain calls. Three couplings carry the correctness argument:
the free list trusts its callers to free only blocks they hold; an inode has a
copy on disk and one per open file, and the last close wins; the used counts
live in memory and reach the disk when a file is created or closed.

### What makes each part correct, and what is hard about it

* **Free list.** Every free block is on the list once, a block in a file never
  carries a group, allocation is refused only when nothing is left. Hard: the
  bottom entry of a group is at once a free block and the link to the next
  group; group boundaries move only after long sequences of calls; writes fail.
* **Block files.** What is written to block k is read back from block k, no
  block plays two parts, no block is lost. Hard: three heights of trees with a
  new parent at every multiple; running out of space between parent and leaf.
* **Base files, inodes, superblock.** No block in two files or in a file and on
  the list, in memory or on disk; counts that never fall below the truth. Hard:
  every open takes a private copy; blocks are freed at once and inodes are
  written at close; there is no unmount, so memory is always lost in the end.
* **Directories.** Link counts equal the number of entries, no entry without
  an inode, names are unique. Hard: several writes per call, no way back.
* **Reads and writes.** A file is a sequence of bytes whatever the blocks under
  it. Hard: pieces that start and end inside blocks, new blocks with old
  bytes, a device or a free list that gives out half way.
* **System calls.** A descriptor belongs to one open file, and its drive letter
  leads to that file's device; the current directory exists. Hard: close does
  not clear the descriptor, `rmdir` does not look at the current directory.
* **Paths.** A path leads where a walk along its names leads, looked up whole or
  in two parts. Hard: `..` at the root and slashes at the end, for which this
  is false.
* **Shell.** Commands end, and copy what they say. Hard: results that are not
  looked at.
* **Devices and format.** One image, one drive; inode table and data blocks fit
  the device. Hard: images are compared as spelled, for which the first is
  false; rounding, short counts taken for success.

## Modules

Done:

| Module | Models | Kind |
|---|---|---|
| `BlockPool` | what the free list promises | abstract specification |
| `FreeBlocks` | `data_block.c`, with failing writes | detailed, refines `BlockPool` |
| `FreeBlocksProofs` | theorems about `FreeBlocks` | proofs |
| `BlockFile` | `base_block_file.c`, truncation and writing by blocks | detailed |
| `BaseFile` | `base_file.c`, `mem_inode.c`, `inode.c`, the counts of `superblock.c` | detailed, with crashes |
| `Namespace` | what directories promise | abstract specification |
| `Directory` | `file_dir.c`: entries, paths, link counts | detailed, refines `Namespace`, with refusals and crashes |
| `ByteFiles` | what open files promise | abstract specification |
| `FileIO` | the loops of `base_file.c`, the calls on open files, the commands `createfile`, `cat`, `cp`, `ls` | detailed, refines `ByteFiles`, with a full and a failing device; liveness |
| `Paths` | `path.c`, with definitions of what it should do | functions |
| `Layout` | the arithmetic of `filesystem.c`, `superblock.c`, `inode.c`, `block.h` | functions |
| `SysCalls` | `main.c`, `device_io.c`, `fs.c`: whole sessions with calls by path and descriptors; extends `Paths` and `Layout` | detailed, composes drives, devices, images and descriptors |
| `Induction` | induction over numbers, as facts about sets of them | proofs |
| `BlockFileProofs` | theorems about `BlockFile` | proofs |
| `BaseFileProofs` | theorems about `BaseFile` | proofs |
| `DirectoryProofs` | theorems about `Directory`, with the refinement of `Namespace` | proofs |
| `PathsProofs` | theorems about the functions of `Paths` | proofs |
| `FileIOProofs` | theorems about `FileIO`, with the refinement of `ByteFiles` | proofs |
| `SysCallsProofs` | theorems about `SysCalls` and `Layout`; uses `PathsProofs` | proofs |
| `MCFreeBlocks`, `MCBlockFile`, `MCBaseFile`, `MCDirectory`, `MCFileIO`, `MCSysCalls` | instances for TLC | |

Not done, and worth doing next:

1. Failing writes in `BlockFile`, whose pop ignores the result of a free.
2. Directory handles that stay open while their directory changes: the close
   writes the old size back.

## How the modules correspond to the code

### FreeBlocks

`disk` is the data area, a block being either a group (the sequence of the
entries below `top`) or something else (`NotGroup`). An image created by
`ft_create_bin_file` is all zeros, which reads as a group with `top` = 0, and
that is the same value, the empty sequence. One action per path through the
code: `FormatGroup` and `FormatDone` are the loop of `data_blocks_init`,
`AllocPop` and `AllocNextGroup` the two branches of `data_block_alloc`,
`FreePush` and `FreeNewGroup` those of `data_block_free`; `FileWrite` is a
file that writes data to a block it holds. A refused allocation changes
nothing and is the predicate `Exhausted`. A write has an outcome: reported
success means it landed, a reported failure may have landed or not, and after
the first failure the stream's error flag makes every later call report one.
`held`, `lost` and `chain` are auxiliary. The assertions at the head of
`data_block_alloc` are `Loadable`.

### BlockFile

`inode[f]` has the size in blocks, the direct numbers and the roots of the
three trees; `index` and `data` are two readings of the bytes of each block:
as an index block, and as the block of the file that last wrote it. Locate,
`AddLeaf` and `Popped` are recursive functions over the levels and follow
`locate`, `add` and `pop`: the parent is a new node of the level above exactly
when the number of nodes is a multiple of `PerIndex`, and what was allocated
before a failure stays allocated. `AppendDirect` and `AppendIndirect` are
`base_block_file_push_block` with the write of the data that follows in
`base_file_write`; `Truncate` is `base_file_truncate` with its loop of
`base_block_file_pop_block`. The free list is a stack, as `data_block.c`
hands out the block freed last.

### BaseFile

`table` is the inode table on disk, `sb` and `sbDisk` the used counts in
memory and on disk, `slot` the table of inodes in memory joined with the
position of the `base_file_t` that uses each. An action is a whole call, with
the superblock and inode writes it makes. A crash falls between two calls
(`Crash`), between the writes of close (`CrashInClose`) and of create
(`CrashInCreate`), and inside the deletion of a file (`CrashInDelete`). Slots
that the code takes and never gives back (`base_file_unref` at the last link,
`fulfs_stat`) become "leaked". `Claimed` counts the places at which inodes in
use name a block. `spoiled` records the histories the code has no
defence against: a file opened, linked or unlinked while it is open
("shared"), a write beyond the end ("hole"), a crash between a truncation and
the close that records it ("torn"). Every property of the counts and the blocks
is about the other histories, `UsedInodesCover` among them: a stale copy that
is closed after its file was deleted puts the inode back without counting it.
`ClosedIsDurable` says that with no file open the count of blocks on disk is
the one in memory, in every history, the unsound ones too, and that in a sound
one, until there is a crash, it is exactly what the inodes on disk name and what
is off the free list. After a crash it may be too high (`UsedBlocksCover`).

### Directory

`table` has the mode and the links of each inode on disk, `entries` the
contents of each directory in their order, `slots` how many inodes in memory
are free; between two calls there is nothing else. `Find` is `dir_locate`,
`Walk` is `dir_tree_locate`, `With` and `Without` are what `dir_add` and
`dir_del` leave: the last entry takes the place of the one removed. Calls get
the place to which a path leads (a directory, "missing", or "aborts" where the
assertion of `dir_locate` fails) and a last name, so that two paths to one
place are one step. An action is a whole call. A call that comes to its end
half done, because no block is free for a bigger directory, because an
assertion fails, or because the program ends, is an action or a disjunct of its
own (`CreateNameless`, `LinkHalfway`, `CrashInUnlink`, `CrashInDirDel`, the
second half of `Unref`). `mkdir` and `rmdir` go on with a number that nobody
assigned when the directory, or for `rmdir` the name, does not exist: any inode
number of the table. `spoiled` records what went wrong. "half" and "aborted"
take something from the exact properties; "torn" (a crash inside `dir_del`),
"astray" (`rmdir` with an unassigned number) and "scribbled" (a directory
opened and written as a file) end all promises.

`Namespace` has no order, no links, no slots: for each directory how often it
binds each name to each file, and a kind per file. `Directory` implements it
with the number of entries that say so. A directory is in reach when it is in
the least set with the root that contains the directories its members name
(`Reach`, `Closed`). "missing" and "aborts", the two places that are none, are
assumed not to be inode numbers.

### FileIO

`table`, `data` and `free` are the disk: inodes by file, the bytes of each
block, the blocks on the free list. `handle` joins a `base_file_t` with the
private inode it points to and the place of the descriptor that names it;
`slots` counts the inodes in memory that are left. One turn of the loop in
`base_file_read` or `base_file_write` is one action (`ReadTurn`, `WriteTurn`;
`WriteRefused` when no block is left, `Fail` and `WriteFails` when the device
gives an error, which may come after the block was written), and `call` is
what is left to do. The loop variables of a command are `job`: `createfile`
asks stat and writes, `cat` and `cp` read `Buffer` bytes at a time, `ls` reads
entries. `base_file_close` is `CloseSlot`: on a device that failed the slot
stays taken. Stat, `ls` and a `cp` without a target take slots for good. The
calls of the code that are made without looking at a result are made here
without looking: `GoWild` is a command that goes on with the descriptor -1.

`spoiled` records what ends the promises: "stale" (two handles with different
inodes of one file), "strayed" (an `lseek` that goes elsewhere than it tells),
"beyond" (a truncation below the position), "aborted" (an assertion), "wild",
and "failed". After the first five no further call is followed.

`ByteFiles` has no blocks and no inodes: a sequence of bytes per file, a
position per handle, and a call that delivers or lays down its bytes some at a
time. `FileIO` implements it: the bytes of a file are those of its blocks, in
the order its inode names them, cut to its size.

### Paths and Layout

A path is the sequence of what lies between its slashes, so that `//`, a slash
at the end and the empty path are still there; the drive is kept apart.
`Put` is one turn of `path_simplify`, its buffer the components kept so far.
At the drive `..` puts the write position one byte in front of the buffer, and
the next component is written there: states "under" and "overrun".
`Survivors` says without a buffer what should be left, `Climbs` and `GoesOn`
which paths climb above the drive and which of them then go on. The last leave
the buffer, which is a defect: `CleanedExact` is about all other paths, and the
run `sys_calls_assertions` shows what these lead to.
Paths longer than the buffers and names longer than fourteen characters are
left out.

`Layout` has the numbers of a format: blocks of the inode table, first data
block, total size, the place of an inode, the sectors of a block.

### SysCalls

A behaviour is a sequence of runs of the program: `Create` and `Format` are
whole runs, `enter` goes through `phase` "config" (one `Line` of `config.txt`
after the other) to "shell" and back to "off". `devices` is the table of
`device_io.c` by the path each image was added with, `mount` the device of each
drive, `cwd` the current directory as its path, `fds` the descriptors that were
ever used (`fs_open` takes the first that was never used, and `fs_close` does
not give one back), `files` the open files by place in memory. The names on an
image are a tree. `Abs` is `fs_abs_path`, `Locate` is `dir_roottree_locate` on
its result, `Spot` the lookup of directory and last name with which `mkdir`,
`rmdir`, `link`, `unlink` and `open` begin.

A call is refused (nothing changes, so there is no step), succeeds, `Ends` the
program (a failed assertion, or a drive without functions, which is a null
pointer) or is `Lost`: it goes on with memory that was never filled (`mkdir`
below a directory that does not exist, a superblock from an image without a
sector) or writes outside its own, and is not followed. Calls that other
modules own end in `Lost` too: a change to an image that is mounted twice, or
to names while a file of the image is open (`BaseFile`), a name added that is
there already and a directory opened as a file (`Directory`). `spoiled` has
"gone" (the current directory was removed) and "crossed" (a descriptor closed
twice has closed the file of another).

`WalkAgrees` and `SplitAgrees` compare these with a walk along the path as it
was typed, directory by directory. The calls that split a path have to come to
the entry at which the walk ends, or at which its last name would be made.
`SplitAgrees` leaves out paths with a slash at the end and paths that end at the
root (`A:/d/`, `A:/`, `A:/d/..`), since it is false for them: `stat` finds the
directory, while `mkdir` and `open` go for an empty name, which no entry has.
`AssertionsHold` says of all paths that they fail no assertion, and is shown to
be violated.

## Runs

| Run | Shows |
|---|---|
| `free_blocks` | list intact, blocks conserved, counts and refusals right, refinement of `BlockPool`, with any write failing |
| `free_blocks_single` | violation: an area of one block fails the assertion of the first allocation |
| `block_file` | read back, ownership, no leak, counts, and no block ever moves, through all three levels |
| `block_file_prune` | violation: truncating a file with an index tree frees the root, not the leaf |
| `base_file` | exclusive blocks in memory and on disk, counts that cover, open files that exist, through crashes |
| `base_file_position` | violation: position beyond the end after a truncation |
| `base_file_inode_count` | violation: a deletion does not reach the superblock on disk |
| `directory` | links cover names through every crash but one, equal them until a call is left half done; the tree stays whole; refinement of `Namespace` |
| `file_io` | files are byte streams (refinement of `ByteFiles`), blocks are accounted for after every call, `cp` leaves a prefix and `cat` leaves nothing out, commands end |
| `sys_calls` | paths that do not leave the buffer are cleaned exactly, and paths lead where a walk leads, whole or (without a slash at the end) in two parts; the current directory exists; descriptors keep apart; the layout of a format fits |
| `sys_calls_images` | violation: one image under two spellings is mounted on two drives |
| `sys_calls_assertions` | violation: a path that climbs above its drive, and one without a last name, fail assertions |

Bounds, and why they are enough:

* `MCFreeBlocks`: six blocks, groups of two. The format writes three groups
  (two full ones and a last one with one entry); every two operations cross a
  group boundary, so splits, merges, the end mark and the empty list occur in
  every order. 1.2 million states, complete, no counter is cut off.
* `MCFreeBlocksTiny`: one block, the smallest area the format accepts.
* `MCBlockFile`: one direct block, two numbers per index block, fifteen blocks,
  files of up to eight (`MaxSize`): one file of eight blocks uses all three
  trees and every block there is, and two files compete for them so that
  appends are refused at every point. With two direct blocks and fourteen
  blocks the same properties hold on 126 thousand states. The constraint
  `ContractKept` ends a behaviour once a file with an index tree is truncated,
  since blocks are then freed twice and the stack no longer describes the
  free list. The two files are interchangeable, hence the symmetry.
* `MCBaseFile`: the root and one more inode, three slots, three blocks, files
  of two. Two files open at once, a deletion beside an open file, full tables
  and an empty free list are all reached. `MaxBlocks` and `MaxLinks` stop
  growth; the constraint `Bounded` ends a behaviour that is spoiled, or whose
  count of inodes crashes have driven two above what the table holds. Blocks
  and slots are interchangeable (the code takes the first free slot, the model
  any), hence the symmetry. The properties hold too with three inodes and two
  blocks and the count bound one tighter, 1.5 million states.

* `MCDirectory`: the root and three inodes, two names, directories of three
  entries, three links, paths of two directories, two entries to a block. A
  directory in a directory, a file with three names, a name twice in one
  directory, an entry that moves into the hole of another, a refusal at a block
  boundary and the last slot are all reached; `MaxEntries` and `MaxLinks` stop
  growth. Three slots are the fewest with which `symlink` succeeds. The
  constraint `Bounded` ends a behaviour that promises nothing more, and at a
  failed assertion, whose state on disk is reached without it as well. Names,
  and inodes other than the root, are interchangeable (the code takes the first
  free inode, the model any). 21 thousand states.
* `MCFileIO`: two files of up to four bytes, three blocks of two bytes, pieces of
  three, entries of two, two inodes in memory, at most one file opened by the
  program itself (`cp` opens two). So a piece begins and ends inside blocks,
  grows a file by a block and a half, takes over blocks another file wrote, runs
  out of blocks in its middle, and copies a file over itself; slots run out
  before and inside a command; the device fails at every turn. `MaxSize` bounds
  writes by the program; a copy is as long as its source. 446 thousand states.
  The safety properties and the refinement hold too with two files open at once
  and two blocks, 324 thousand states.
* `MCSysCalls`: two images, the first under two spellings, two drives, two
  lines of `config.txt`, two descriptors and two places for open files, two
  names and two nodes. The first image has no sector, or five, too few for
  blocks of two; the second has eight and blocks of two, with a last inode block
  that is not full. `Operands`, `Opened` and `Pairs` are twenty paths, two of
  them opened, and five pairs: with and without drive, `.` and `..` in front,
  inside and past the root, two slashes in a row, a slash at the end, a drive
  that is none. A line that is refused, an image mounted twice, a descriptor
  closed twice with and without another file in its place, a removed current
  directory and files on two drives at once are all reached. The places for
  open files are interchangeable, hence the symmetry. 38 thousand states.
  `MCSysCallsImages` has the same constants, `MCSysCallsAsserts` only two paths,
  `A:/../e` and `A:/`, each of which fails an assertion by itself in the first
  state of the shell.

Deadlock is not checked: a full device with nothing to write is a state in
which no call changes anything, and a program that stops calling is normal.

Fairness is assumed in `FileIO` only: `WF_vars(Turn)`, the steps that the
program takes by itself once it was asked. It is a single thread with nothing to
wait for, so it goes on; that anybody asks is not assumed, and neither is that
the device works. `CommandEnds` says that every command then comes back to the
prompt or the program dies, whatever fails on the way; it excepts `ls` on a
device that failed, whose loop looks only at a name that a failed read leaves
as it was, and really never ends. The other modules have whole calls as
actions and no liveness: nothing runs unless a caller asks for it.

## Disagreements between code and documents

Seven, shown by six runs, with the lines they are about under `findings` in
`PROJECT.json`:

* An area of one data block is formatted and then fails the assertion of the
  first allocation (`free_blocks_single`).
* Pop frees the root of an index tree in place of the leaf that was cut
  (`block_file_prune`).
* A truncation leaves the position beyond the end of the file
  (`base_file_position`).
* The line meant to write the superblock after a deletion is a declaration
  (`base_file_inode_count`).
* An image that is mounted may not be mounted again, says `device_io.c:24`; one
  that `config.txt` spells in two ways is (`sys_calls_images`).
* For a path that climbs above its drive and goes on, `path_simplify` writes in
  front of its buffer, and `fs_abs_path` finds no drive in what comes back
  (`sys_calls_assertions`).
* For a path that ends in a slash, `mkdir` and `open` create an inode and then
  fail the assertion that its name is not empty (`sys_calls_assertions`).

Met on the way and without a run of their own: a path through a regular file
fails the assertion of `dir_locate` (`file_dir.c:500`), and so may `mkdir` below
a directory that does not exist, both recorded as "aborted" in `Directory`; the
number of blocks that `stat` prints is off by one where a tree begins
(`base_block_file.c:257`).

## Proofs

Every safety property that a passing run checks is also a theorem, for every
value of the constants, and so are three refinements. Assumptions are those that the modules
name and TLC evaluates; the ones worth knowing are below.

**FreeBlocks.** `FreeBlocksProofs` proves, for every start of the data area,
every number of blocks from two up and every group size, that `FreeBlocks` has
its type invariant and `ChainIntact`, `Conserved`, `UsedCounted`,
`RefusalMeansEmpty`, that the assertions of `data_block_alloc` hold, and that it
implements `BlockPool`. The constants are positive, and the area has two
blocks (`Count >= 2`) since the theorems fail for one, as `free_blocks_single`
shows. The contract that only held blocks are freed is part of the action
`Free`. None of the invariants is inductive alone. `IInv` adds two things. While
the device is being formatted, `Formatting` says what the groups written so far
are: either none yet, or a list whose last bottom entry is the next block to
be written. In service, `Complete` says that the list is intact, with the
entries addressed as pairs of indices so that "no number occurs twice" can be
used by the provers, and that listed, held and lost blocks partition the data
area, which is what makes a freed block new to the list and a file's write
harmless to it. The refinement maps every step to `Take`, `Give`, `Falter`,
`Open`, `FailToOpen` or a stutter.

**BlockFile.** Nothing is bounded but the size of a file, which stays within
`Base(4)`, where `push` and `locate` assert false. A node is a file with a level,
a depth and a number at that depth, and the trees of a file with n blocks are
the nodes on the ways to its first n blocks. `Inv` is typing and, until a file
with an index tree is truncated, `Sound`: the nodes in use have blocks, no two
the same and none on the free list (`Apart`), the leaves hold what was written,
and the count with the free list makes the data area. The properties are not
inductive without `Apart`: that a block taken off the free list is in no tree
is what keeps the numbers in all index blocks and the data in all leaves. The
argument is that of one step, and all others are reduced to it: when the nodes
in use contain with each node the one above (`Closed`), putting the number of a
free block into the entry for one more node moves no node (`Still`), and taking
a free block for it leaves `Apart`. The loop of `add` is as many such steps as
parents are new, and one more. If space runs out in it, the index blocks taken
so far name no node in use, so only `NothingLeaked` has to except it. `Truncate`
of a file without trees gives back its last nodes one by one. Arithmetic is the rest: the
parent of node n is n div `PerIndex`, and it is new just when the number of
nodes is a multiple of `PerIndex`. After an index tree was pruned only typing is
proved, and more would be false (`PruneFreesWhatWasCut`).

**BaseFile.** `Inv` is typing and, while the history is sound, `Good`. Beyond the
properties it says what relates an open copy to the table: no inode is open
twice, the copy has the mode and links of the disk (`Agree`), and a copy that
was not cut down has the blocks of the disk and then perhaps more (`Behind`).
That is why a close can only add to what the disk names and a crash only take
away. `Books(t, U, F, n)` says of any table that its inodes name blocks once,
none of them free, and that n covers them; `Good` has it for the table with the
open copies over it and, unless something was cut down, for the table on disk.
Counting is by sets of places, so that one more block is one more element.

**Directory.** What the calls do is to add an entry and to take one away, while
the others change places. The proof counts entries without looking at places:
`Num(e, X)` is how many are in X, for any set X of pairs of directory and entry,
and `OneMore(e, f, x)` says that f has one x more and nothing else. Links are
`Num` for the entries that name a file, bindings of `Namespace` are `Num` for
one entry, and a set of directories is closed when `Num` for what leaves it is
0, so one lemma per change serves all three. `Inv` is typing, `Sane` (links
cover names, an inode has links just when it is in use, only directories have
entries) while the history is sound, and `Exact` (links are names, all in use is
in reach) while it is calm. `Exact` alone is not inductive: that a directory
taken away was empty and had one name needs `Sane`. For the refinement each
action is shown to do one of five things to bindings and kinds (`Allowed`), and
those are steps of `Namespace`.

**FileIO.** Three invariants, each resting on the ones before. `Sound` says that
each inode has as many blocks as its size asks for, that no handle stands beyond
the end of its file, and for each call and each command what must hold at the
place where its loop is; typing and `NothingLeftOut` follow. `BooksOK` says that
no block is in two files or in a file and free, where a file is as its handles
show it and otherwise as it is on disk: `SpaceAccounted` is about the states
between two calls only, and a write that took a block and has not put its inode
back yet is what makes it not inductive. `Exact` says how much of the target of
`cp` has the bytes of the source and where the bytes are that are on their way,
in the buffer or in a write that is half done. It needs `BooksOK`: a turn of a
write lands in one block, and because that block is in no other file, the source
keeps its bytes. The refinement needs no more than the first two: what a turn of
a write does to the bytes of its file, and to those of all others, is worked out
once, and each action is then a step of `ByteFiles` or a stutter. Assumed are
that texts are not empty and fit `MaxSize`, that `cp` finds two handles, that
`EntryBytes` divides `BlockBytes`, that `Junk`, what a block holds before it was
written, is no byte, and that `NoFile` is neither a file nor a text.

**Paths and Layout.** `CleaningIsExact` says of every path that does not go on
after climbing past its start that `Simplify` keeps exactly the components that
no `..` calls off, and of all others that they are written in front of the
buffer. The
induction goes along the path: the number of names less the number of `..`
from any place on (`Balance`) says which components are still in the buffer.
The first part of `SysCallsProofs` shows that what `fulfs_format` accepts fits
the device, for every device size and block size.

**SysCalls.** `Inv` says that the image of each device is one with a tree of
names or none, that a mounted drive has a device of its own and its letter is in
the table, that there are no descriptors before the shell, that the current
directory is a path of names, and has `CwdSound` and `DescriptorsOwn`
themselves, which are inductive only with the rest: `rmdir` keeps the parents of
the current directory because images are trees, and `mount` gives no device
away because no two drives share one. (That no two share an image is false.)
`WalkAgrees` and `SplitAgrees` then hold of every such state: by
`CleaningIsExact` the cleaned path is what a walk has on its stack, and by
induction over the walk's steps every prefix of it is found in the tree just when
the walk got there (`WalkShows`). For `SplitAgrees` the walk is followed to its
last step but one, which gives the directory; the last name need not exist.
Assumed are finitely many
drives, letters that are not `NoDrive`, names that are neither empty nor `.` or
`..`, and operands whose path is not empty and, after a drive, does not begin
with `.` or `..`.

The library's induction theorems take an operator as their argument, which the
provers here cannot instantiate. `Induction` therefore states it for sets:
every non-empty set of naturals has a least member, and a set that contains a
number and with each one the next contains all above (`Upwards`, `Downwards`).
Every recursive function of the models is reasoned about this way, its
definition being a fact about a function on 0 .. n.

A few leaves name a prover and a time because they take it a few seconds.

Only model-checked: `CommandEnds`, which is liveness, and the six runs that
show a property violated.

## Not modelled

* `mv` is link and then unlink, two calls of `SysCalls` and `Directory`, with no
  state between them. `pwd`, `tree`, `df` and `stat` only print; `stat` and
  `tree` take inodes in memory as `Stat` and `List` do. Splitting a line
  into words is left out. `shell.c:92` has a stray letter in front of `== 0` with
  which it does not compile; it is read without it.
* `readlink`, the used and total size of a file system
  (`superblock_free_size` and `superblock_set_used_size` have no caller).
* Paths longer than 2047 characters, names that are cut to fourteen, the one
  byte that `path_simplify` and `path_basename` write past a full buffer.
* Reads that fail without delivering data, outside `FileIO`; a full table of
  1024 devices.
* Directory handles that stay open while their directory changes.
* Times, modes other than file and directory, messages, tests, build files.

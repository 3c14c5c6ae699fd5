------------------------------- MODULE FileIO -------------------------------
(***************************************************************************)
(* Bytes in files: base_file_read, base_file_write and the other calls on  *)
(* an open file (src/fulfs/base_file.c, file_dir.c), and the commands of   *)
(* the shell that are loops over them: createfile, cat, cp and ls.  One    *)
(* turn of the loop in base_file_read or base_file_write is one action.    *)
(*                                                                         *)
(* Abstractions.  A handle is a base_file_t with the private inode copy it *)
(* points to.  Files are found by name at once and are short enough for    *)
(* their blocks to be named in the inode; the directory has room for every *)
(* name (Directory) and the inode table for every file.  An entry of a     *)
(* directory is EntryBytes bytes, whatever they say: opendir does not ask  *)
(* what it opens.  Descriptors are the handles they stand for (SysCalls).  *)
(* After a device error nothing more reaches the disk; the next session is *)
(* the subject of FreeBlocks and BaseFile.                                 *)
(***************************************************************************)
EXTENDS Integers, Sequences, FiniteSets, FiniteSetsExt, SequencesExt

CONSTANTS
    Files,          \* names of files
    NoFile,
    Byte,           \* the values of a byte
    Junk,           \* what a block holds that no file has written
    Handles,        \* bound: files open at once
    MaxSlots,       \* inodes in memory, 1024 in the code
    Blocks,         \* data blocks
    BlockBytes,     \* 512 to 8192
    EntryBytes,     \* 16, divides BlockBytes
    Buffer,         \* what cat and cp read at a time, 1023: no multiple of a block
    Texts,          \* bound: what is written by one call
    Counts,         \* bound: what one read asks for
    MaxSize,        \* bound: no file grows beyond this
    MaxOpen         \* bound: files that a program has open by itself

ASSUME NamesAssumption ==
    NoFile \notin Files \cup Seq(Byte \cup {Junk}) /\ Junk \notin Byte
ASSUME HandlesAssumption ==
    Handles \subseteq Nat \ {0} /\ IsFiniteSet(Handles) /\ Max({MaxOpen, 2}) <= Cardinality(Handles)
ASSUME BlocksAssumption == Blocks \subseteq Nat \ {0} /\ IsFiniteSet(Blocks)
ASSUME SizesAssumption ==
    /\ {BlockBytes, EntryBytes, Buffer, MaxSize, MaxOpen, MaxSlots} \subseteq Nat \ {0}
    /\ BlockBytes % EntryBytes = 0
ASSUME CountsAssumption == Counts \subseteq Nat \ {0}
ASSUME TextsAssumption ==
    \A text \in Texts : text \in Seq(Byte) \ {<< >>} /\ Len(text) <= MaxSize

VARIABLES
    table,          \* inodes on disk
    data,           \* the bytes of every block
    free,           \* blocks on the free list
    handle,         \* open files: inode in memory, position
    slots,          \* inodes in memory that are free
    call,           \* the read or write that is running, or the last one
    job,            \* the command that is running
    dead,           \* the device has failed; its error flag stays set
    spoiled         \* auxiliary: what this layer cannot take, see Note

vars == <<table, data, free, handle, slots, call, job, dead, spoiled>>

NoInode  == [size |-> -1, blocks |-> << >>]         \* no file of that name
Closed   == [file |-> NoFile, inode |-> NoInode, pos |-> 0]
NoCall   == [op |-> "none", h |-> 0, want |-> 0, rest |-> << >>, got |-> << >>]
NoJob    == [cmd |-> "none", pc |-> "none", src |-> 0, dst |-> 0, text |-> << >>]

Open      == {h \in Handles : handle[h] # Closed}
OpenOn(f) == {h \in Open : handle[h].file = f}
Exists(f) == table[f] # NoInode

\* count_groups: blocks for so many bytes.
Groups(size) == (size + BlockBytes - 1) \div BlockBytes

\* "stale": two handles show different inodes of one file, the last close
\* wins (BaseFile).  "strayed": lseek went elsewhere than it told.  "beyond":
\* a truncation below the position.  "aborted": an assertion failed.
\* "wild": a command went on with the descriptor -1.  "failed": the device.
Note(labels) == spoiled' = spoiled \cup labels

\* After the first of these, "failed" apart, no further call is followed.
Calm == spoiled \subseteq {"failed"}

\* No call is running; nor is a command, so another call may be made.  Once
\* the device has failed only commands are followed.
Returned == call.op = "none"
Prompt   == Returned /\ job = NoJob /\ Calm
Ready    == Prompt /\ ~dead

-----------------------------------------------------------------------------
(* fulfs_open, fulfs_opendir, fulfs_stat, fulfs_close: inodes in memory.   *)

CanOpen == slots > 0 /\ ~dead
New     == Min(Handles \ Open)

\* Mutant: the inode in memory stays marked as free.
OpenUntaken(f) ==
    LET inode == IF Exists(f) THEN table[f] ELSE [size |-> 0, blocks |-> << >>]
    IN  /\ CanOpen
        /\ table' = [table EXCEPT ![f] = inode]
        /\ handle' = [handle EXCEPT ![New] = [file |-> f, inode |-> inode, pos |-> 0]]
        /\ UNCHANGED slots
        /\ Note({"stale" : h \in {g \in OpenOn(f) : handle[g].inode # inode}})

\* base_file_open of f, of a new file if there is none.
OpenInto(f) ==
    LET inode == IF Exists(f) THEN table[f] ELSE [size |-> 0, blocks |-> << >>]
    IN  /\ CanOpen
        /\ table' = [table EXCEPT ![f] = inode]
        /\ handle' = [handle EXCEPT ![New] = [file |-> f, inode |-> inode, pos |-> 0]]
        /\ slots' = slots - 1
        /\ Note({"stale" : h \in {g \in OpenOn(f) : handle[g].inode # inode}})

\* Nobody has the file any more; its slot is given back, or is not.
Forget(h) == handle' = [handle EXCEPT ![h] = Closed]

\* base_file_close: the inode is written back and the slot is free, unless
\* the superblock cannot be written.
CloseSlot(h) ==
    /\ Forget(h)
    /\ IF dead THEN UNCHANGED <<table, slots>>
       ELSE /\ slots' = slots + 1
            /\ table' = [table EXCEPT ![handle[h].file] = handle[h].inode]

OpenFile(f) ==
    /\ Ready /\ Cardinality(Open) < MaxOpen
    /\ OpenInto(f)
    /\ UNCHANGED <<data, free, call, job, dead>>

CloseFile(h) ==
    /\ Ready /\ h \in Open
    /\ CloseSlot(h)
    /\ UNCHANGED <<data, free, call, job, dead, spoiled>>

-----------------------------------------------------------------------------
(* fulfs_lseek and fulfs_ftruncate.                                        *)

Target(h, off, where) ==
    CASE where = "set" -> off
      [] where = "cur" -> handle[h].pos + off
      [] where = "end" -> handle[h].inode.size + off

\* It checks and returns the new position, and goes to the offset.  A target
\* outside the file is refused: below 0 it is a huge unsigned number, as the
\* offset is when it reaches the assertion of base_file_seek.
Lseek(h, off, where) ==
    /\ Ready /\ h \in Open
    /\ Target(h, off, where) \in 0 .. handle[h].inode.size
    /\ IF off < 0
       THEN Note({"aborted"}) /\ UNCHANGED handle
       ELSE /\ handle' = [handle EXCEPT ![h].pos = off]
            /\ Note(IF Target(h, off, where) = off THEN {} ELSE {"strayed"})
    /\ UNCHANGED <<table, data, free, slots, call, job, dead>>

\* Mutant: one block too few is given back.
KeptOneMore(inode, size) == SubSeq(inode.blocks, 1, Min({Groups(size) + 1, Len(inode.blocks)}))

\* The blocks a file keeps when it is cut to a size.
Kept(inode, size) == SubSeq(inode.blocks, 1, Groups(size))

\* base_file_truncate: the position stays.  A freed block may come to hold a
\* group of the free list.
Ftruncate(h, size) ==
    LET inode == handle[h].inode
        kept  == Kept(inode, size)
        cut   == ToSet(inode.blocks) \ ToSet(kept)
    IN  /\ Ready /\ h \in Open
        /\ size < inode.size
        /\ handle' = [handle EXCEPT ![h].inode = [size |-> size, blocks |-> kept]]
        /\ free' = free \cup cut
        /\ data' = [b \in Blocks |-> IF b \in cut THEN [k \in 1 .. BlockBytes |-> Junk] ELSE data[b]]
        /\ Note({"stale" : g \in OpenOn(handle[h].file) \ {h}}
                \cup (IF handle[h].pos > size THEN {"beyond"} ELSE {}))
        /\ UNCHANGED <<table, slots, call, job, dead>>

-----------------------------------------------------------------------------
(* base_file_read and base_file_write.                                     *)

\* Reads are cut to what is left of the file.  `rest` is a number of bytes
\* for a read, the bytes themselves for a write.
Reading(h, want) ==
    [op |-> "read", h |-> h, want |-> want, got |-> << >>,
     rest |-> Min({want, handle[h].inode.size - handle[h].pos})]

Writing(h, bytes) ==
    [op |-> "write", h |-> h, want |-> 0, got |-> << >>, rest |-> bytes]

Read(h, want) ==
    /\ Ready /\ h \in Open
    /\ call' = Reading(h, want)
    /\ UNCHANGED <<table, data, free, handle, slots, job, dead, spoiled>>

Write(h, bytes) ==
    /\ Ready /\ h \in Open
    /\ handle[h].pos + Len(bytes) <= MaxSize
    /\ call' = Writing(h, bytes)
    /\ UNCHANGED <<table, data, free, handle, slots, job, dead, spoiled>>

\* The call ends, here or early; a command looks at what was read.
Stop == call' = IF job = NoJob THEN NoCall
                ELSE [NoCall EXCEPT !.got = call.got]

\* The device fails, or has failed.
Fail == dead' = TRUE /\ Note({"failed"}) /\ Stop

Here    == handle[call.h]                   \* the file, its block and offset
BlockNo == Here.pos \div BlockBytes
Offset  == Here.pos % BlockBytes

\* One turn of base_file_read: the rest of a block, or of the request.
ReadTurn ==
    LET n == Min({BlockBytes - Offset, call.rest})
        b == Here.inode.blocks[BlockNo + 1]
    IN  /\ call.op = "read" /\ call.rest > 0
        /\ \/ /\ ~dead
              /\ call' = [call EXCEPT !.rest = @ - n, !.got = @ \o SubSeq(data[b], Offset + 1, Offset + n)]
              /\ handle' = [handle EXCEPT ![call.h].pos = @ + n]
              /\ UNCHANGED <<dead, spoiled>>
           \/ Fail /\ UNCHANGED handle
        /\ UNCHANGED <<table, data, free, slots, job>>

\* Mutant: the block is not read before a piece of it is put in.
PatchBlank(bytes, off, piece) ==
    [k \in 1 .. off |-> Junk] \o piece \o [k \in 1 .. BlockBytes - off - Len(piece) |-> Junk]

\* The bytes of a block with a piece put in at an offset.
Patch(bytes, off, piece) ==
    SubSeq(bytes, 1, off) \o piece \o SubSeq(bytes, off + Len(piece) + 1, Len(bytes))

\* A piece of the bytes, in the block it belongs to: a new one, if the block
\* number is past the last.  The block is read, patched and written back.
WriteTurn ==
    LET n     == Min({BlockBytes - Offset, Len(call.rest)})
        piece == SubSeq(call.rest, 1, n)
        inode == Here.inode
        grows == BlockNo >= Groups(inode.size)
        b     == IF grows THEN Min(free) ELSE inode.blocks[BlockNo + 1]
        end   == Here.pos + n
    IN  /\ call.op = "write" /\ call.rest # << >>
        /\ grows => free # {}
        /\ ~dead
        /\ data' = [data EXCEPT ![b] = Patch(@, Offset, piece)]
        /\ free' = free \ {b}
        /\ handle' = [handle EXCEPT
              ![call.h].inode = [size   |-> Max({@.size, end}),
                                 blocks |-> IF grows THEN Append(@.blocks, b) ELSE @.blocks],
              ![call.h].pos = end]
        /\ call' = [call EXCEPT !.rest = SubSeq(@, n + 1, Len(@))]
        /\ Note({"stale" : g \in {x \in OpenOn(Here.file) \ {call.h} : end > inode.size}})
        /\ UNCHANGED <<table, slots, job, dead>>

\* No block is left: the call returns what it has written.
WriteRefused ==
    /\ call.op = "write" /\ call.rest # << >>
    /\ BlockNo >= Groups(Here.inode.size)
    /\ free = {} /\ ~dead
    /\ Stop
    /\ UNCHANGED <<table, data, free, handle, slots, job, dead, spoiled>>

\* The device fails before or after the block is written; a new block is lost.
WriteFails ==
    LET piece == SubSeq(call.rest, 1, Min({BlockBytes - Offset, Len(call.rest)}))
        grows == BlockNo >= Groups(Here.inode.size)
        b     == IF grows THEN Min(free) ELSE Here.inode.blocks[BlockNo + 1]
    IN  /\ call.op = "write" /\ call.rest # << >>
        /\ \/ UNCHANGED <<data, free>>
           \/ /\ grows => free # {}
              /\ data' = [data EXCEPT ![b] = Patch(@, Offset, piece)]
              /\ free' = free \ {b}
        /\ Fail
        /\ UNCHANGED <<table, handle, slots, job>>

Return ==
    /\ \/ call.op = "read" /\ call.rest = 0
       \/ call.op = "write" /\ call.rest = << >>
    /\ Stop
    /\ UNCHANGED <<table, data, free, handle, slots, job, dead, spoiled>>

-----------------------------------------------------------------------------
(* The commands.  They start when no file is open and run to their end.    *)

Start == Prompt /\ Open = {}

\* fulfs_stat takes a slot for good (see Stat in BaseFile).
Stat(f) == CanOpen /\ Exists(f)

\* The descriptor is -1, and is used: the entry before the table is read.
GoWild == Note({"wild"}) /\ UNCHANGED <<table, handle, slots, job>>

\* cmd_createfile on a new file, or where stat fails for want of a slot.
CreateFile(f, text) ==
    /\ Start
    /\ IF Stat(f)
       THEN slots' = slots - 1 /\ UNCHANGED <<table, handle, job, spoiled>>
       ELSE IF ~CanOpen THEN GoWild
       ELSE /\ OpenInto(f)
            /\ job' = [NoJob EXCEPT !.cmd = "createfile", !.pc = "opened", !.src = New, !.text = text]
    /\ UNCHANGED <<data, free, call, dead>>

\* cmd_cat: the slot for stat is lost, then the file is opened.
Cat(f) ==
    /\ Start
    /\ Stat(f)
    /\ slots' = slots - 1
    /\ job' = [NoJob EXCEPT !.cmd = "cat", !.pc = "stat", !.text = <<f>>]
    /\ UNCHANGED <<table, data, handle, free, call, dead, spoiled>>

CatOpen ==
    /\ job.cmd = "cat" /\ job.pc = "stat"
    /\ IF ~CanOpen THEN GoWild
       ELSE /\ OpenInto(job.text[1])
            /\ job' = [job EXCEPT !.pc = "opened", !.src = New]
    /\ UNCHANGED <<data, free, call, dead>>

\* cmd_cp: the source is opened, then the target, which may be the source.
Copy(f, g) ==
    /\ Start
    /\ OpenInto(f)
    /\ job' = [NoJob EXCEPT !.cmd = "cp", !.pc = "source", !.src = New, !.text = <<g>>]
    /\ UNCHANGED <<data, free, call, dead>>

\* Without a target the source is left open, and no command closes it.
CopyOpen ==
    /\ job.cmd = "cp" /\ job.pc = "source"
    /\ \/ /\ OpenInto(job.text[1])
          /\ job' = [job EXCEPT !.pc = "opened", !.dst = New]
       \/ /\ ~CanOpen
          /\ Forget(job.src)
          /\ job' = NoJob
          /\ UNCHANGED <<table, slots, spoiled>>
    /\ UNCHANGED <<data, free, call, dead>>

\* cmd_ls: fulfs_opendir.
List(f) ==
    /\ Start
    /\ Exists(f)
    /\ OpenInto(f)
    /\ job' = [NoJob EXCEPT !.cmd = "ls", !.pc = "opened", !.src = New]
    /\ UNCHANGED <<data, free, call, dead>>

\* The calls that are made in the loops: the files stay as they are.
JobCall(c, pc) ==
    /\ call' = c
    /\ job' = [job EXCEPT !.pc = pc]
    /\ UNCHANGED <<table, data, free, handle, slots, dead, spoiled>>

CreateFileWrite ==
    /\ job.cmd = "createfile" /\ job.pc = "opened"
    /\ JobCall(Writing(job.src, job.text), "last")

\* Mutant: cat compares the count with the size of its buffer, one too many.
CatAgainOffByOne ==
    job.pc = "opened" \/ (job.pc = "read" /\ Len(call.got) = Buffer + 1)

\* cmd_cat reads again as long as the buffer was filled.
CatAgain == job.pc = "opened" \/ (job.pc = "read" /\ Len(call.got) = Buffer)

CatRead ==
    /\ job.cmd = "cat" /\ job.pc # "stat" /\ Returned
    /\ CatAgain
    /\ JobCall(Reading(job.src, Buffer), "read")

\* The loop of cmd_cp; how much was written is not looked at.
CopyRead ==
    /\ job.cmd = "cp" /\ Returned
    /\ job.pc \in {"opened", "write"}
    /\ JobCall(Reading(job.src, Buffer), "read")

\* Mutant: the whole buffer is written, with what an earlier read left there.
CopyWriteBuffer ==
    /\ job.cmd = "cp" /\ job.pc = "read" /\ Returned
    /\ call.got # << >>
    /\ JobCall(Writing(job.dst, call.got \o [k \in 1 .. Buffer - Len(call.got) |-> Junk]), "write")

\* Mutant: the loop goes on while the count is not negative.
CopyWriteEmpty ==
    /\ job.cmd = "cp" /\ job.pc = "read" /\ Returned
    /\ JobCall(Writing(job.dst, call.got), "write")

CopyWrite ==
    /\ job.cmd = "cp" /\ job.pc = "read" /\ Returned
    /\ call.got # << >>
    /\ JobCall(Writing(job.dst, call.got), "write")

\* fulfs_readdir: one entry, or the end.  It fails without touching the name,
\* and the loop of cmd_ls looks at the name only.
ListRead ==
    /\ job.cmd = "ls" /\ Returned
    /\ job.pc \in {"opened", "read"}
    /\ handle[job.src].inode.size % EntryBytes = 0
    /\ handle[job.src].pos < handle[job.src].inode.size
    /\ JobCall(Reading(job.src, EntryBytes), "read")

\* The assertion of fulfs_readdir.
ListAborts ==
    /\ job.cmd = "ls" /\ job.pc = "opened"
    /\ handle[job.src].inode.size % EntryBytes # 0
    /\ Note({"aborted"})
    /\ UNCHANGED <<table, data, free, handle, slots, call, job, dead>>

\* The directory stays open, and nobody has it.
ListEnd ==
    /\ job.cmd = "ls" /\ Returned
    /\ handle[job.src].inode.size % EntryBytes = 0
    /\ handle[job.src].pos >= handle[job.src].inode.size
    /\ Forget(job.src)
    /\ job' = NoJob
    /\ call' = NoCall
    /\ UNCHANGED <<table, data, free, slots, dead, spoiled>>

\* What ends the loops of createfile, cat and cp.
LoopDone ==
    /\ Returned
    /\ \/ job.cmd = "createfile" /\ job.pc = "last"
       \/ job.cmd = "cat" /\ job.pc = "read" /\ ~CatAgain
       \/ job.cmd = "cp" /\ job.pc = "read" /\ call.got = << >>

\* They close the file they read, and cp then the one it wrote.
JobClose ==
    /\ LoopDone
    /\ CloseSlot(job.src)
    /\ job' = IF job.cmd = "cp" THEN [job EXCEPT !.pc = "close"] ELSE NoJob
    /\ call' = NoCall
    /\ UNCHANGED <<data, free, dead, spoiled>>

CopyClose ==
    /\ job.pc = "close"
    /\ CloseSlot(job.dst)
    /\ job' = NoJob
    /\ UNCHANGED <<data, free, call, dead, spoiled>>

\* The program ends, with no file open, and is started again.
Restart ==
    /\ Ready /\ Open = {}
    /\ slots' = MaxSlots
    /\ UNCHANGED <<table, data, free, handle, call, job, dead, spoiled>>

-----------------------------------------------------------------------------
Init ==
    /\ table = [f \in Files |-> NoInode]
    /\ data = [b \in Blocks |-> [k \in 1 .. BlockBytes |-> Junk]]
    /\ free = Blocks
    /\ handle = [h \in Handles |-> Closed]
    /\ slots = MaxSlots
    /\ call = NoCall
    /\ job = NoJob
    /\ dead = FALSE
    /\ spoiled = {}

\* What a program, or somebody at the prompt, asks for.
Request ==
    \/ \E f \in Files : OpenFile(f) \/ Cat(f) \/ List(f)
    \/ \E f \in Files, text \in Texts : CreateFile(f, text)
    \/ \E f, g \in Files : Copy(f, g)
    \/ \E h \in Handles :
          \/ CloseFile(h)
          \/ \E n \in 0 .. MaxSize : Ftruncate(h, n)
          \/ \E n \in Counts : Read(h, n)
          \/ \E text \in Texts : Write(h, text)
          \/ \E off \in -1 .. MaxSize, where \in {"set", "cur", "end"} : Lseek(h, off, where)
    \/ Restart

\* What the program does about it.
Turn ==
    \/ ReadTurn \/ WriteTurn \/ WriteRefused \/ WriteFails \/ Return
    \/ CatOpen \/ CopyOpen
    \/ CreateFileWrite \/ CatRead \/ CopyRead \/ CopyWrite
    \/ ListRead \/ ListAborts \/ ListEnd
    \/ JobClose \/ CopyClose

Next == Request \/ Turn

\* The program goes on by itself once it was asked; nobody has to ask.
Fairness == WF_vars(Turn)

Spec == Init /\ [][Next]_vars /\ Fairness

-----------------------------------------------------------------------------
(* Properties.                                                             *)

\* The inode of file f as its open handles show it, and its bytes.
View(f) == IF OpenOn(f) = {} THEN table[f] ELSE handle[Min(OpenOn(f))].inode

Stream(f) ==
    LET inode == View(f)
        byte(k) == data[inode.blocks[(k - 1) \div BlockBytes + 1]][((k - 1) % BlockBytes) + 1]
    IN  [k \in 1 .. inode.size |-> byte(k)]

\* Type invariant.
TypeOK ==
    LET Inode == [size : -1 .. MaxSize, blocks : SeqOf(Blocks, Groups(MaxSize))]
    IN  /\ \A f \in Files : table[f] \in Inode
        /\ \A b \in Blocks : data[b] \in [1 .. BlockBytes -> Byte \cup {Junk}]
        /\ free \subseteq Blocks
        /\ \A h \in Handles :
              /\ handle[h].file \in Files \cup {NoFile}
              /\ handle[h].inode \in Inode
              /\ handle[h].pos \in 0 .. MaxSize
        /\ slots + Cardinality(Open) \in 0 .. MaxSlots
        /\ call.op \in {"none", "read", "write"} /\ call.h \in Handles \cup {0}
        /\ job.cmd \in {"none", "createfile", "cat", "cp", "ls"}
        /\ {job.src, job.dst} \subseteq Handles \cup {0}
        /\ dead \in BOOLEAN
        /\ spoiled \subseteq {"stale", "strayed", "beyond", "aborted", "wild", "failed"}

\* Reads and writes that cross, fill and start blocks, in files that grow and
\* shrink and take over blocks of others, give the bytes of ByteFiles.
Abstract == INSTANCE ByteFiles WITH
    content <- [f \in Files |-> IF Exists(f) THEN Stream(f) ELSE NoFile],
    cursor  <- [h \in Handles |-> IF h \in Open
                    THEN [file |-> handle[h].file, pos |-> handle[h].pos]
                    ELSE [file |-> NoFile, pos |-> 0]],
    call    <- [call EXCEPT !.rest =
                    IF call.op = "write" THEN @
                    ELSE IF call.op = "none" THEN << >>
                    ELSE SubSeq(Stream(Here.file), Here.pos + 1, Here.pos + @)],
    broken  <- spoiled # {}

StreamsKept == Abstract!Spec

\* Between two calls every block is in the right number in one file, or free,
\* also after writes that were refused half way and copies over other files.
SpaceAccounted ==
    (Returned /\ spoiled = {}) =>
      LET files == {f \in Files : Exists(f)}
          held(f) == ToSet(View(f).blocks)
      IN  /\ \A f \in files : Cardinality(held(f)) = Groups(View(f).size)
          /\ \A f, g \in files : f # g => held(f) \cap held(g) = {}
          /\ UNION {held(f) : f \in files} = Blocks \ free

\* cp does not look at how much was written; still the target has, up to
\* where the copy is, the bytes of the source: what is refused is refused to
\* the end, on a full device and on a dead one, and there is never a gap.
CopyExact ==
    (Calm /\ job.cmd = "cp" /\ job.pc \in {"opened", "read", "write"}) =>
      LET src == Stream(handle[job.src].file)
          dst == Stream(handle[job.dst].file)
          p   == handle[job.dst].pos
      IN  /\ p <= Len(src)
          /\ SubSeq(dst, 1, p) = SubSeq(src, 1, p)
          /\ LoopDone => p = Len(src) \/ free = {} \/ dead

\* On a device that works cat and cp stop only at the end of the file, and
\* createfile writes all it was given unless no block is left.
NothingLeftOut ==
    (Calm /\ ~dead /\ LoopDone) =>
      CASE job.cmd \in {"cat", "cp"} -> handle[job.src].pos = handle[job.src].inode.size
        [] job.cmd = "createfile"    -> handle[job.src].pos = Len(job.text) \/ free = {}

\* A command comes back to the prompt, whatever fails on the way, or the
\* program dies: except ls, which never ends when the device fails under it.
CommandEnds ==
    (job # NoJob) ~> (job = NoJob \/ ~Calm \/ (job.cmd = "ls" /\ dead))
=============================================================================

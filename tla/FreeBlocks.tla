------------------------------ MODULE FreeBlocks ------------------------------
(***************************************************************************)
(* src/fulfs/data_block.c: the free data blocks of a fulfs device, kept as *)
(* a grouped linked list (TODOs.org, "Data blocks").                       *)
(*                                                                         *)
(* A group record is a stack of at most MaxGroup block numbers.  The group *)
(* on top lives in the first block of the data area, the stack block; the  *)
(* bottom entry of a group is both a free block and the address of the     *)
(* block that carries the next group; the bottom entry of the last group   *)
(* is GROUP_NEXT_END.  The records live inside the free blocks themselves, *)
(* so a block must stop being a carrier before a file may write to it.     *)
(*                                                                         *)
(* Abstractions.  A group is the sequence of the entries below top (the C  *)
(* array's entries from top on are never read).  A block whose bytes are   *)
(* not a group record holds NotGroup; a fresh device image is all zeros    *)
(* (utils/sys.c, ft_create_bin_file), which reads back as top = 0, the     *)
(* same value.  A read delivers the block; a write may fail at any moment, *)
(* and from then on the stream's error flag makes every call report        *)
(* failure although the bytes may still reach the disk (device_io.c).      *)
(*                                                                         *)
(* held, lost and chain are auxiliary: no guard of an operation reads lost *)
(* or chain, and held only says which blocks a caller can give back.       *)
(***************************************************************************)
EXTENDS Integers, Sequences, FiniteSets

CONSTANTS
    Stack,          \* data_block_start, the block number of the stack block
    Count,          \* data_block_count, stack block included
    MaxGroup        \* MAX_GROUP_COUNT, 100 in the code

ASSUME StackAssumption == Stack \in Nat \ {0}
ASSUME CountAssumption == Count \in Nat \ {0}
ASSUME GroupAssumption == MaxGroup \in Nat \ {0}

VARIABLES
    phase,          \* "format": data_blocks_init runs; "ready"; "failed"
    next,           \* data_blocks_init: the block the next record goes to
    cursor,         \* data_blocks_init: the loop variable `block`
    disk,           \* contents of the data blocks
    used,           \* sb.used_data_block_count
    broken,         \* the stream's error flag is set
    held,           \* auxiliary: blocks handed out and not given back
    lost,           \* auxiliary: blocks neither free nor handed out
    chain           \* auxiliary: the carriers of the groups, top group first

vars == <<phase, next, cursor, disk, used, broken, held, lost, chain>>

Limit    == Stack + Count               \* one past the last data block
Blocks   == Stack .. (Limit - 1)
Poolable == Blocks \ {Stack}
END      == 0                           \* GROUP_NEXT_END
NotGroup == << >>

Top == disk[Stack]                      \* what group_load reads first

-----------------------------------------------------------------------------
(* Writing a block: block_write, device_write.                             *)

\* The outcomes of one write: reported success implies it landed.
Outcomes == {[ok |-> TRUE,  landed |-> TRUE],
             [ok |-> FALSE, landed |-> TRUE],
             [ok |-> FALSE, landed |-> FALSE]}

\* Once the error flag is set no write reports success.
Possible(o) == broken => ~o.ok

Written(d, b, content, o) == IF o.landed THEN [d EXCEPT ![b] = content] ELSE d

-----------------------------------------------------------------------------
(* data_blocks_init: one iteration of the loop writes one group.           *)

IsEnd == Limit - cursor <= MaxGroup

GroupTop == IF IsEnd THEN Limit - cursor ELSE MaxGroup

NewGroup == [i \in 1 .. GroupTop |->
                IF i = 1 /\ IsEnd THEN END ELSE cursor + i - 1]

FormatGroup(o) ==
    /\ phase = "format"
    /\ cursor < Limit
    /\ Possible(o)
    /\ disk' = Written(disk, next, NewGroup, o)
    /\ broken' = (broken \/ ~o.ok)
    /\ IF o.ok
          THEN /\ next' = NewGroup[1]
               /\ cursor' = cursor + MaxGroup
               /\ chain' = Append(chain, next)
               /\ lost' = IF IsEnd THEN {cursor} ELSE {}
               /\ UNCHANGED phase
          ELSE /\ phase' = "failed"
               /\ UNCHANGED <<next, cursor, chain, lost>>
    /\ UNCHANGED <<used, held>>

\* The loop ends; the file system goes into service with used = 0.
FormatDone ==
    /\ phase = "format"
    /\ cursor >= Limit
    /\ phase' = "ready"
    /\ UNCHANGED <<next, cursor, disk, used, broken, held, lost, chain>>

-----------------------------------------------------------------------------
(* data_block_alloc.                                                       *)

\* The two assertions at the head of data_block_alloc.
Loadable == Len(Top) > 0 /\ Len(Top) <= MaxGroup

\* Mutant: the pop is not counted.
AllocPopUncounted(o) ==
    /\ phase = "ready" /\ Loadable /\ Possible(o)
    /\ Len(Top) # 1
    /\ disk' = Written(disk, Stack, SubSeq(Top, 1, Len(Top) - 1), o)
    /\ held' = IF o.ok THEN held \cup {Top[Len(Top)]} ELSE held
    /\ lost' = IF ~o.ok /\ o.landed THEN lost \cup {Top[Len(Top)]} ELSE lost
    /\ broken' = (broken \/ ~o.ok)
    /\ UNCHANGED <<phase, next, cursor, chain, used>>

\* Mutant: the stack block is not written back after the pop.
AllocPopUnsaved(o) ==
    /\ phase = "ready" /\ Loadable /\ Possible(o)
    /\ Len(Top) # 1
    /\ held' = IF o.ok THEN held \cup {Top[Len(Top)]} ELSE held
    /\ used' = IF o.ok THEN used + 1 ELSE used
    /\ broken' = (broken \/ ~o.ok)
    /\ UNCHANGED <<phase, next, cursor, chain, disk, lost>>

\* More than one entry: pop, and write the stack block back.
AllocPop(o) ==
    /\ phase = "ready" /\ Loadable /\ Possible(o)
    /\ Len(Top) # 1
    /\ LET b == Top[Len(Top)]
       IN  /\ disk' = Written(disk, Stack, SubSeq(Top, 1, Len(Top) - 1), o)
           /\ held' = IF o.ok THEN held \cup {b} ELSE held
           /\ lost' = IF ~o.ok /\ o.landed THEN lost \cup {b} ELSE lost
    /\ used' = IF o.ok THEN used + 1 ELSE used
    /\ broken' = (broken \/ ~o.ok)
    /\ UNCHANGED <<phase, next, cursor, chain>>

\* One entry, not the end: hand out the carrier of the next group after its
\* record moved to the stack block (block_copy: a read, then a write; the
\* read reports the error flag, so a broken device copies nothing).
AllocNextGroup(o) ==
    /\ phase = "ready" /\ Loadable /\ Possible(o)
    /\ Len(Top) = 1
    /\ Top[1] # END
    /\ broken => ~o.landed
    /\ LET b == Top[1]
       IN  /\ disk' = Written(disk, Stack, disk[b], o)
           /\ held' = IF o.ok THEN held \cup {b} ELSE held
           /\ lost' = IF ~o.ok /\ o.landed THEN lost \cup {b} ELSE lost
    /\ chain' = IF o.landed
                   THEN <<Stack>> \o SubSeq(chain, 3, Len(chain))
                   ELSE chain
    /\ used' = IF o.ok THEN used + 1 ELSE used
    /\ broken' = (broken \/ ~o.ok)
    /\ UNCHANGED <<phase, next, cursor>>

\* Mutant: a one-entry group counts as the end without looking at the entry.
ExhaustedEarly == Len(Top) = 1

\* data_block_alloc returns false without an I/O error.
Exhausted == Len(Top) = 1 /\ Top[1] = END

-----------------------------------------------------------------------------
(* data_block_free.  Callers give back blocks they hold.                   *)

\* Mutant: one push too many, off by one at MAX_GROUP_COUNT.
FreePushOverfull(b, o) ==
    /\ phase = "ready" /\ b \in held /\ Possible(o)
    /\ Len(Top) <= MaxGroup
    /\ disk' = Written(disk, Stack, Append(Top, b), o)
    /\ held' = held \ {b}
    /\ lost' = IF o.landed THEN lost ELSE lost \cup {b}
    /\ used' = IF o.ok THEN used - 1 ELSE used
    /\ broken' = (broken \/ ~o.ok)
    /\ UNCHANGED <<phase, next, cursor, chain>>

\* Room in the group on top: push, and write the stack block back.
FreePush(b, o) ==
    /\ phase = "ready" /\ b \in held /\ Possible(o)
    /\ Len(Top) < MaxGroup
    /\ disk' = Written(disk, Stack, Append(Top, b), o)
    /\ held' = held \ {b}
    /\ lost' = IF o.landed THEN lost ELSE lost \cup {b}
    /\ used' = IF o.ok THEN used - 1 ELSE used
    /\ broken' = (broken \/ ~o.ok)
    /\ UNCHANGED <<phase, next, cursor, chain>>

\* Mutant: a new group is started without checking that the copy succeeded.
FreeNewGroupUnchecked(b, copied, o) ==
    /\ phase = "ready" /\ b \in held /\ Possible(copied)
    /\ Len(Top) = MaxGroup
    /\ LET moved == Written(disk, b, Top, copied)
       IN  disk' = Written(moved, Stack, <<b>>, o)
    /\ held' = held \ {b}
    /\ chain' = IF o.landed THEN <<Stack, b>> \o SubSeq(chain, 2, Len(chain)) ELSE chain
    /\ lost' = IF o.landed THEN lost ELSE lost \cup {b}
    /\ used' = IF o.ok THEN used - 1 ELSE used
    /\ broken' = (broken \/ ~o.ok \/ ~copied.ok)
    /\ UNCHANGED <<phase, next, cursor>>

\* Mutant: the count is left alone when a group is started.
FreeNewGroupUncounted(b, copied, o) ==
    /\ phase = "ready" /\ b \in held /\ Possible(copied)
    /\ Len(Top) = MaxGroup
    /\ copied.ok
    /\ disk' = Written([disk EXCEPT ![b] = Top], Stack, <<b>>, o)
    /\ held' = held \ {b}
    /\ chain' = IF o.landed THEN <<Stack, b>> \o SubSeq(chain, 2, Len(chain)) ELSE chain
    /\ lost' = IF o.landed THEN lost ELSE lost \cup {b}
    /\ broken' = (broken \/ ~o.ok)
    /\ UNCHANGED <<phase, next, cursor, used>>

\* The group on top is full: move it into the freed block (copied), which
\* becomes the carrier of the second group and the only entry of the first.
FreeNewGroup(b, copied, o) ==
    /\ phase = "ready" /\ b \in held /\ Possible(copied)
    /\ Len(Top) = MaxGroup
    /\ broken => ~copied.landed
    /\ copied.ok \/ ~(o.ok \/ o.landed)         \* early return
    /\ LET moved == Written(disk, b, Top, copied)
       IN  disk' = Written(moved, Stack, <<b>>, o)
    /\ held' = held \ {b}
    /\ IF o.landed
          THEN /\ chain' = <<Stack, b>> \o SubSeq(chain, 2, Len(chain))
               /\ UNCHANGED lost
          ELSE /\ lost' = lost \cup {b}
               /\ UNCHANGED chain
    /\ used' = IF o.ok THEN used - 1 ELSE used
    /\ broken' = (broken \/ ~o.ok)
    /\ UNCHANGED <<phase, next, cursor>>

-----------------------------------------------------------------------------
(* A file writes data to a block it owns.                                  *)
FileWrite(b) ==
    /\ phase = "ready" /\ b \in held
    /\ disk' = [disk EXCEPT ![b] = NotGroup]
    /\ UNCHANGED <<phase, next, cursor, used, broken, held, lost, chain>>

-----------------------------------------------------------------------------
Init ==
    /\ phase = "format"
    /\ next = Stack
    /\ cursor = Stack + 1
    /\ disk = [b \in Blocks |-> NotGroup]
    /\ used = 0
    /\ broken = FALSE
    /\ held = {}
    /\ lost = {}
    /\ chain = << >>

Alloc == \E o \in Outcomes : AllocPop(o) \/ AllocNextGroup(o)

Free == \E b \in held, o \in Outcomes :
           \/ FreePush(b, o)
           \/ \E copied \in Outcomes : FreeNewGroup(b, copied, o)

Next ==
    \/ \E o \in Outcomes : FormatGroup(o)
    \/ FormatDone
    \/ Alloc
    \/ Free
    \/ \E b \in held : FileWrite(b)

Spec == Init /\ [][Next]_vars

-----------------------------------------------------------------------------
(* Properties.                                                             *)

\* Positions in the list whose carriers are c on disk contents d, and the
\* block number at one of them.
Slots(c, d) == {s \in (1 .. Len(c)) \X (1 .. MaxGroup) : s[2] <= Len(d[c[s[1]]])}

At(c, d, s) == d[c[s[1]]][s[2]]

\* The blocks the list offers.
Offered(c, d) == {At(c, d, s) : s \in Slots(c, d)} \ {END}

\* c is the carrier sequence of an intact list on d: it starts at the stack
\* block, groups are neither empty nor overfull, the bottom entry of a group
\* is the carrier of the next one (`last` in the last group), every other
\* entry is a data block, and no number occurs twice in the whole list.
IntactList(c, d, last) ==
    /\ Len(c) > 0 /\ c[1] = Stack
    /\ \A j \in 1 .. Len(c) : Len(d[c[j]]) \in 1 .. MaxGroup
    /\ \A j \in 1 .. Len(c) : d[c[j]][1] = IF j = Len(c) THEN last ELSE c[j + 1]
    /\ \A s \in Slots(c, d) : s = <<Len(c), 1>> \/ At(c, d, s) \in Poolable
    /\ \A s, t \in Slots(c, d) : At(c, d, s) = At(c, d, t) => s = t

Listed == Offered(chain, disk)

\* Type invariant; the auxiliary sequence only names data blocks.
TypeOK ==
    /\ phase \in {"format", "ready", "failed"}
    /\ next \in Nat /\ cursor \in Nat
    /\ disk \in [Blocks -> Seq(Nat)]
    /\ used \in Nat
    /\ broken \in BOOLEAN
    /\ held \in SUBSET Poolable
    /\ lost \in SUBSET Poolable
    /\ chain \in Seq(Blocks)

\* In service the grouped list is intact.  Hence data_block_alloc's assertions
\* hold, it never reads file data as a group, and it never hands out a block
\* that is already on offer somewhere else in the list.
ChainIntact == phase = "ready" => IntactList(chain, disk, END)

\* Every data block but the stack block is exactly one of: on the list, part
\* of a file, lost.  A block that a file writes to is therefore never a
\* carrier of the list.
Conserved ==
    phase = "ready" =>
      /\ Listed \cup held \cup lost = Poolable
      /\ Listed \cap held = {} /\ Listed \cap lost = {} /\ held \cap lost = {}

\* Nothing is lost beyond the one block data_blocks_init never lists, unless
\* the device failed; and then the count in the superblock errs only upwards,
\* so it never wraps below zero.
UsedCounted ==
    phase = "ready" =>
      /\ used >= Cardinality(held)
      /\ ~broken => used = Cardinality(held) /\ Cardinality(lost) = 1

\* data_block_alloc refuses for want of space only when no block is left.
RefusalMeansEmpty == (phase = "ready" /\ Exhausted) => Listed = {}

\* The list implements the pool of free blocks.
Pool == INSTANCE BlockPool WITH
    Blocks <- Poolable,
    open   <- phase = "ready",
    pool   <- IF phase = "ready" THEN Listed ELSE {},
    held   <- held,
    lost   <- IF phase = "ready" THEN lost ELSE {},
    faulty <- broken

PoolRefined == Pool!Spec

\* data_block_alloc asserts that the group on top is never empty.
TopNeverEmpty == phase = "ready" => Len(Top) > 0
=============================================================================

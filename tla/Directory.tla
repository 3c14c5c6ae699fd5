------------------------------ MODULE Directory ------------------------------
(***************************************************************************)
(* src/fulfs/file_dir.c: names, on top of base files.  A directory is a    *)
(* base file whose contents are entries of a name and an inode number.     *)
(* Every call opens and closes the directories it reads, so all there is   *)
(* between two calls is the disk, and how many inodes in memory are left;  *)
(* what a call does to the disk it does in steps, and it may be refused,   *)
(* fail an assertion or die with the program between two of them.          *)
(*                                                                         *)
(* Abstractions.  A path is its directories and its last name; splitting   *)
(* it and cutting names to 14 characters is done.  File contents are left  *)
(* out, and with them writes of contents that are refused; the entries are *)
(* the contents of directories, PerBlock of them to a data block.  A file  *)
(* is opened, written and closed without a call in between: what follows   *)
(* when a file is unlinked while it is open is the subject of BaseFile.  A *)
(* number that was never assigned is any inode number.                     *)
(***************************************************************************)
EXTENDS Naturals, Sequences, FiniteSets, FiniteSetsExt, SequencesExt

CONSTANTS
    Inodes,         \* inode numbers
    Root,           \* superblock_root_dir_inode
    Names,          \* names of one to 14 characters
    NoName,         \* the last name of a path that ends in /
    PerBlock,       \* entries in a data block, 32 for blocks of 512 bytes
    MaxSlots,       \* inodes in memory, 1024 in the code
    MaxEntries,     \* bound: no directory grows beyond this
    MaxLinks,       \* bound: no more links to one file
    MaxDepth        \* bound: directories in a path

ASSUME InodesAssumption ==
    Root \in Inodes /\ IsFiniteSet(Inodes) /\ {"missing", "aborts"} \cap Inodes = {}
ASSUME NamesAssumption == NoName \notin Names
ASSUME BoundsAssumption ==
    {PerBlock, MaxSlots, MaxEntries, MaxLinks, MaxDepth} \subseteq Nat \ {0}

VARIABLES
    table,          \* inodes on disk: mode, links
    entries,        \* the entries of every directory
    slots,          \* inodes in memory that are free
    spoiled         \* auxiliary: what has gone wrong, see Note

vars == <<table, entries, slots, spoiled>>

Modes   == {"empty", "file", "dir"}             \* 0, MODE_FILE, MODE_DIR
Entry   == [name : Names, no : Inodes]
Paths   == SeqOf(Names, MaxDepth)

IsDir(i) == table[i].mode = "dir"
Unused   == {i \in Inodes : table[i].mode = "empty"}

\* "half": a call was refused or died between two of its writes.  "aborted":
\* an assertion failed.  The others end what the calls can promise: "torn", a
\* crash inside dir_del; "astray", rmdir took a number that nobody assigned;
\* "scribbled", a directory was opened as a file and written to.
Note(labels) == spoiled' = spoiled \cup labels

-----------------------------------------------------------------------------
(* dir_locate, dir_tree_locate.                                            *)

\* The first entry of that name, 0 if there is none.
Find(d, n) ==
    LET at == {k \in DOMAIN entries[d] : entries[d][k].name = n}
    IN  IF at = {} THEN 0 ELSE Min(at)

\* One name further from d.  The walk stays where a name is missing, and on
\* the assertion of dir_locate where it is not in a directory.
StepInto(d, n) ==
    IF d \notin Inodes THEN d
    ELSE IF ~IsDir(d) THEN "aborts"
    ELSE IF Find(d, n) = 0 THEN "missing" ELSE entries[d][Find(d, n)].no

Walking(path) ==
    LET at[k \in 0 .. Len(path)] == IF k = 0 THEN Root ELSE StepInto(at[k - 1], path[k])
    IN  at

\* The inode a path leads to.
Walk(path) == Walking(path)[Len(path)]

\* The files that paths lead to.
Found == {Walk(path) : path \in Paths} \cap Inodes

\* Where paths to a directory lead; all callers look into it at once.
Places == {IF d \in Inodes /\ ~IsDir(d) THEN "aborts" ELSE d : d \in {Walk(path) : path \in Paths}}

\* Where mkdir and rmdir go on from place d: they do not look whether the
\* directory exists, and dir_no is not assigned if it does not.
Landing(d) == IF d = "missing" THEN Inodes ELSE {d} \cap Inodes

-----------------------------------------------------------------------------
(* dir_add and dir_del, on the entries of d.                               *)

With(d, n, i) == Append(entries[d], [name |-> n, no |-> i])

\* A new data block is needed and there may be none.
MayRefuse(d) == Len(entries[d]) % PerBlock = 0

\* Mutant: the last entry is cut off without being copied to the hole.
WithoutUnmoved(d, k) == Front(entries[d])

\* The last entry takes the place of entry k, and the directory is cut.
Without(d, k) ==
    IF k = 0 THEN entries[d] ELSE Front([entries[d] EXCEPT ![k] = Last(entries[d])])

-----------------------------------------------------------------------------
(* base_file_create, then dir_add: the middle of fulfs_open and of mkdir.  *)

CreateNamed(mode, d, n, lost) ==
    /\ n # NoName /\ Len(entries[d]) < MaxEntries
    /\ \E i \in Unused :
          /\ table' = [table EXCEPT ![i] = [mode |-> mode, links |-> 1]]
          /\ entries' = [entries EXCEPT ![i] = << >>, ![d] = With(d, n, i)]
    /\ slots' = slots - lost
    /\ UNCHANGED spoiled

\* The file exists and has no name: the directory could not grow, or the
\* assertion of dir_add met an empty name, or the program died.
CreateNameless(mode, d, n, lost) ==
    /\ \E i \in Unused :
          /\ table' = [table EXCEPT ![i] = [mode |-> mode, links |-> 1]]
          /\ entries' = [entries EXCEPT ![i] = << >>]
    /\ \/ n # NoName /\ MayRefuse(d) /\ slots' = slots - lost /\ Note({"half"})
       \/ n # NoName /\ slots' = MaxSlots /\ Note({"half"})
       \/ n = NoName /\ slots' = MaxSlots /\ Note({"half", "aborted"})

Create(mode, d, n, lost) ==
    CreateNamed(mode, d, n, lost) \/ CreateNameless(mode, d, n, lost)

\* base_file_open on what the name stands for, whatever it is, and a write.
WriteExisting(d, k, lost) ==
    /\ k # 0
    /\ slots' = slots - lost
    /\ Note(IF IsDir(entries[d][k].no) THEN {"scribbled"} ELSE {})
    /\ UNCHANGED <<table, entries>>

\* fulfs_open, fulfs_write, fulfs_close.
WriteFile(d, n) ==
    /\ slots > 0 /\ d \in Inodes
    /\ \/ WriteExisting(d, Find(d, n), 0)
       \/ Find(d, n) = 0 /\ Create("file", d, n, 0)

\* fulfs_symlink: two calls of fulfs_stat on the source, then the same
\* with the new path; what the source is makes no difference.
Symlink(d, n) ==
    /\ slots > 2 /\ d \in Inodes
    /\ \/ WriteExisting(d, Find(d, n), 2)
       \/ Find(d, n) = 0 /\ Create("file", d, n, 2)

SymlinkFails(d) ==
    /\ slots > 0
    /\ slots < 3 \/ d = "missing"
    /\ slots' = IF slots < 3 THEN 0 ELSE slots - 2
    /\ UNCHANGED <<table, entries, spoiled>>

Mkdir(place, n) ==
    /\ slots > 0
    /\ \E d \in Landing(place) :
          IsDir(d) /\ Find(d, n) = 0 /\ Create("dir", d, n, 0)

-----------------------------------------------------------------------------
(* base_file_unref: the last link deletes the file and a slot is lost; if   *)
(* there was one slot only, the call fails and the file stays.             *)

Stuck(i) == table[i].links = 1 /\ slots = 1

\* Mutant: the file is deleted when the count falls below zero.
UnrefLate(i) ==
    /\ table' = [table EXCEPT ![i].links = @ - 1]
    /\ UNCHANGED slots

Unref(i) ==
    \/ /\ table[i].links > 1
       /\ table' = [table EXCEPT ![i].links = @ - 1]
       /\ UNCHANGED slots
    \/ /\ table[i].links = 1
       /\ table' = IF Stuck(i) THEN table
                   ELSE [table EXCEPT ![i] = [mode |-> "empty", links |-> 0]]
       /\ slots' = slots - 1

Half(i) == IF Stuck(i) THEN {"half"} ELSE {}

\* Mutant: a directory need not be empty.
RmdirFull(place, n) ==
    /\ slots > 0
    /\ \E d \in Landing(place) :
          LET k == Find(d, n)
          IN  /\ IsDir(d)
              /\ \E i \in IF k = 0 THEN Inodes ELSE {entries[d][k].no} :
                    /\ IsDir(i)
                    /\ entries' = [entries EXCEPT ![i] = << >>, ![d] = Without(d, k)]
                    /\ Unref(i)
                    /\ Note(Half(i) \cup IF k = 0 THEN {"astray"} ELSE {})

\* fulfs_rmdir goes on when the name does not exist either.
Rmdir(place, n) ==
    /\ slots > 0
    /\ \E d \in Landing(place) :
          LET k == Find(d, n)
          IN  /\ IsDir(d)
              /\ \E i \in IF k = 0 THEN Inodes ELSE {entries[d][k].no} :
                    /\ IsDir(i) /\ entries[i] = << >>
                    /\ entries' = [entries EXCEPT ![d] = Without(d, k)]
                    /\ Unref(i)
                    /\ Note(Half(i) \cup IF k = 0 THEN {"astray"} ELSE {})

\* fulfs_unlink: the entry, then the link.
Unlink(d, n) ==
    LET k == Find(d, n)
        i == entries[d][k].no
    IN  /\ slots > 0 /\ d \in Inodes
        /\ k # 0 /\ ~IsDir(i)
        /\ entries' = [entries EXCEPT ![d] = Without(d, k)]
        /\ Unref(i)
        /\ Note(Half(i))

\* A slot is taken and not put back.
Leak == slots' = slots - 1 /\ UNCHANGED <<table, entries, spoiled>>

UnlinkDir(d, n) ==
    LET k == Find(d, n)
    IN  /\ slots > 0 /\ d \in Inodes
        /\ k # 0 /\ IsDir(entries[d][k].no)
        /\ Leak

\* fulfs_stat, fulfs_readlink (which only ever finds that the mode is not
\* that of a symbolic link), and the fulfs_opendir of cmd_ls.
Stat == slots > 0 /\ Leak

\* fulfs_link with a directory as the source.
LinkDir(i) == slots > 0 /\ IsDir(i) /\ Leak

-----------------------------------------------------------------------------
(* fulfs_link: the link, then the entry; the new name may be there already. *)

\* Mutant: the count is not taken back when the entry cannot be added.
LinkKept(i, d, n) ==
    /\ slots > 0 /\ n # NoName
    /\ ~IsDir(i) /\ table[i].links < MaxLinks
    /\ table' = [table EXCEPT ![i].links = @ + 1]
    /\ \/ /\ d \in Inodes /\ Len(entries[d]) < MaxEntries
          /\ entries' = [entries EXCEPT ![d] = With(d, n, i)]
       \/ /\ d = "missing" \/ (d \in Inodes /\ MayRefuse(d))
          /\ UNCHANGED entries
    /\ UNCHANGED <<slots, spoiled>>

Link(i, d, n) ==
    /\ slots > 0 /\ n # NoName
    /\ ~IsDir(i) /\ table[i].links < MaxLinks
    /\ \/ /\ d \in Inodes /\ Len(entries[d]) < MaxEntries
          /\ table' = [table EXCEPT ![i].links = @ + 1]
          /\ entries' = [entries EXCEPT ![d] = With(d, n, i)]
       \/ /\ d = "missing" \/ (d \in Inodes /\ MayRefuse(d))
          /\ UNCHANGED <<table, entries>>
    /\ UNCHANGED <<slots, spoiled>>

\* The program ends between the two, by itself or by an assertion.
LinkHalfway(i, d, n) ==
    LET dies == d = "aborts" \/ (d \in Inodes /\ n = NoName)
    IN  /\ slots > 0
        /\ ~IsDir(i) /\ table[i].links < MaxLinks
        /\ table' = [table EXCEPT ![i].links = @ + 1]
        /\ slots' = MaxSlots
        /\ Note(IF dies THEN {"half", "aborted"} ELSE {"half"})
        /\ UNCHANGED entries

-----------------------------------------------------------------------------
(* The end of the program.                                                 *)

Restart == slots' = MaxSlots /\ UNCHANGED <<table, entries, spoiled>>

\* An assertion fails before anything was changed: in a walk, or for mkdir
\* and rmdir on the way to a directory that does not exist.
Abort(place) ==
    /\ slots > 0
    /\ place = "aborts" \/ \E d \in Landing(place) : ~IsDir(d)
    /\ slots' = MaxSlots
    /\ Note({"aborted"})
    /\ UNCHANGED <<table, entries>>

\* What unlink and rmdir are about to remove.
Removable(d, k) ==
    LET i == entries[d][k].no
    IN  k # 0 /\ (IsDir(i) => entries[i] = << >>)

\* Mutant: the link goes before the entry.
CrashInUnlinkSwapped(d, n) ==
    LET k == Find(d, n)
        i == entries[d][k].no
    IN  /\ slots > 0 /\ d \in Inodes /\ Removable(d, k)
        /\ table' = IF table[i].links > 1 THEN [table EXCEPT ![i].links = @ - 1]
                    ELSE [table EXCEPT ![i] = [mode |-> "empty", links |-> 0]]
        /\ slots' = MaxSlots
        /\ Note({"half"})
        /\ UNCHANGED entries

\* Between the entry and the link.
CrashInUnlink(d, n) ==
    LET k == Find(d, n)
    IN  /\ slots > 0 /\ d \in Inodes /\ Removable(d, k)
        /\ entries' = [entries EXCEPT ![d] = Without(d, k)]
        /\ slots' = MaxSlots
        /\ Note({"half"})
        /\ UNCHANGED table

\* In dir_del, with the last entry in two places.
CrashInDirDel(d, n) ==
    LET k == Find(d, n)
    IN  /\ slots > 0 /\ d \in Inodes /\ Removable(d, k)
        /\ k < Len(entries[d])
        /\ entries' = [entries EXCEPT ![d][k] = Last(entries[d])]
        /\ slots' = MaxSlots
        /\ Note({"torn"})
        /\ UNCHANGED table

-----------------------------------------------------------------------------
Init ==
    /\ table = [i \in Inodes |-> IF i = Root THEN [mode |-> "dir", links |-> 1]
                                 ELSE [mode |-> "empty", links |-> 0]]
    /\ entries = [i \in Inodes |-> << >>]
    /\ slots = MaxSlots
    /\ spoiled = {}

Call(d, n) ==
    \/ WriteFile(d, n) \/ Mkdir(d, n) \/ Rmdir(d, n)
    \/ Unlink(d, n) \/ UnlinkDir(d, n) \/ Symlink(d, n)
    \/ \E i \in Found : Link(i, d, n)

Death(d, n) ==
    \/ CrashInUnlink(d, n) \/ CrashInDirDel(d, n)
    \/ \E i \in Found : LinkHalfway(i, d, n)

Next ==
    \/ \E d \in Places, n \in Names \cup {NoName} : Call(d, n) \/ Death(d, n)
    \/ \E d \in Places : SymlinkFails(d) \/ Abort(d)
    \/ \E i \in Found : LinkDir(i)
    \/ Stat
    \/ Restart

Spec == Init /\ [][Next]_vars

-----------------------------------------------------------------------------
(* Properties.                                                             *)

Sound == spoiled \subseteq {"half", "aborted"}

\* Where in the directories the pairs of a directory and an entry in X are
\* found, and how many entries of all directories are for file i.
Where(X) == {p \in Inodes \X (1 .. MaxEntries) :
                p[2] \in DOMAIN entries[p[1]] /\ <<p[1], entries[p[1]][p[2]]>> \in X}
Naming(i) == Inodes \X {e \in Entry : e.no = i}
Count(i)  == Cardinality(Where(Naming(i)))

\* Type invariant; an inode has links exactly when it is in use.
TypeOK ==
    /\ table \in [Inodes -> [mode : Modes, links : 0 .. MaxLinks]]
    /\ Sound => \A i \in Inodes : table[i].mode = "empty" <=> table[i].links = 0
    /\ entries \in [Inodes -> SeqOf(Entry, MaxEntries)]
    /\ \A i \in Inodes : Sound /\ ~IsDir(i) => entries[i] = << >>
    /\ slots \in 0 .. MaxSlots
    /\ spoiled \subseteq {"half", "aborted", "torn", "astray", "scribbled"}

\* However calls fail, and wherever the program dies outside dir_del, a file
\* has at least as many links as names, so that no entry is ever left for a
\* file that was deleted, and then for the next one of that inode number.
LinksCover ==
    Sound => \A i \in Inodes :
                /\ table[i].links >= Count(i)
                /\ IsDir(i) => table[i].links = 1
                /\ i = Root => Count(i) = 0 /\ IsDir(i)

\* Until a call is left half done the links are the names, for link, unlink
\* and mv over all directories and also when a call is refused.
LinksExact ==
    spoiled \subseteq {"aborted"} =>
        \A i \in Inodes \ {Root} : table[i].links = Count(i)

\* Every inode that names lead to from the root: those in all sets that hold
\* the root and whatever the directories in them name.
Closed(S) == Root \in S /\ \A d \in S : \A k \in DOMAIN entries[d] : entries[d][k].no \in S
Reach == {i \in Inodes : \A S \in SUBSET Inodes : Closed(S) => i \in S}

\* Directories form a tree and no file in use is out of reach, until a call
\* is left half done.
AllReachable == spoiled \subseteq {"aborted"} => Inodes \ Unused = Reach

\* The calls keep the promise of Namespace: each adds or removes one binding
\* of one name, and moving entries about in a directory hides and shows none.
Abstract == INSTANCE Namespace WITH
    kind <- [i \in Inodes |-> table[i].mode],
    bound <- [d \in Inodes |-> [b \in Entry |-> Cardinality({k \in DOMAIN entries[d] : entries[d][k] = b})]],
    broken <- ~Sound

NamespaceKept == Abstract!Spec
=============================================================================

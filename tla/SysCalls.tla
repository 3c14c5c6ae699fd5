------------------------------ MODULE SysCalls ------------------------------
(***************************************************************************)
(* The program as its user meets it: main.c (create, format, enter), the   *)
(* device table (device_io.c), the mount table, the current directory, the *)
(* descriptors and the calls with paths (fs.c), and what the calls do to   *)
(* the names on an image (fulfs/file_dir.c).                               *)
(*                                                                         *)
(* Abstractions.  The names on an image are a tree of directories and      *)
(* files; calls that are left half done, link counts, file contents and    *)
(* the 1024 inodes in memory are the subject of Directory and FileIO.  A   *)
(* call that is refused changes nothing.  A program that fails an          *)
(* assertion or follows a null pointer ends; one that goes on with memory  *)
(* it never wrote, or wrote outside its own, is "lost" and is not followed. *)
(* A session that is left keeps nothing in memory.  The devices that are   *)
(* read and written deliver.                                               *)
(***************************************************************************)
EXTENDS Paths, Layout

CONSTANTS
    Names,          \* names of files and directories
    Images,         \* files of the host that serve as devices
    Spellings,      \* paths of the host, as config.txt has them
    ImageOf,        \* the image that a spelling leads to
    Letters,        \* characters in front of a colon
    Drives,         \* 'a' to 'z'
    Lower,          \* tolower, on Letters; NoDrive if that is no letter
    NoDrive,        \* no drive letter
    Operands,       \* bound: what calls are given, a drive (or none) and a path
    Opened,         \* bound: those of them that open is given
    Pairs,          \* bound: the two paths that link is given
    SizesOf,        \* bound: sizes given to create, in bytes
    PerBlocksOf,    \* bound: block sizes given to format, in sectors
    FdCount,        \* FS_MAX_FILE_FD, 65535
    Lines,          \* bound: lines of config.txt, a letter and a path
    MaxLines,       \* bound: lines of config.txt that reach device_add
    MaxNodes,       \* bound: files and directories on all images
    Objs            \* bound: places in memory for open files

ASSUME LettersAssumption ==
    /\ IsFiniteSet(Drives) /\ NoDrive \notin Drives \cup Letters /\ "A" \in Letters
    /\ Lower \in [Letters -> Drives \cup {NoDrive}] /\ Lower["A"] # NoDrive
ASSUME ImagesAssumption ==
    /\ ImageOf \in [Spellings -> Images] /\ Lines \subseteq Letters \X Spellings
    /\ SizesOf \in [Images -> SUBSET Nat] /\ PerBlocksOf \in [Images -> SUBSET Nat]
ASSUME SysNamesAssumption == Names \cap {NoName, ".", ".."} = {}
ASSUME OperandsAssumption ==
    \A o \in Operands \cup UNION {{pair[1], pair[2]} : pair \in Pairs} :
        /\ o.drive \in Letters \cup {NoDrive}
        /\ o.path \in Seq(Names \cup {NoName, ".", ".."}) \ {<< >>}
        /\ o.drive # NoDrive => o.path[1] \notin {".", ".."}
ASSUME CountsAssumption ==
    {FdCount, MaxLines, MaxNodes} \subseteq Nat \ {0} /\ IsFiniteSet(Objs)

VARIABLES
    phase,          \* "off", "config" and "shell" in enter(), "lost"
    image,          \* the images: sectors, sectors per block, names
    devices,        \* device_handle: the spellings, in order
    mount,          \* g_device_filesystem: the device of a drive, 0 if none
    cwd,            \* g_current_dir
    fds,            \* g_fs_files: the slots that were ever used
    files,          \* the open files in memory: their device, 0 if none
    spoiled         \* auxiliary: "gone", "crossed"

session == <<devices, mount, cwd, fds, files, spoiled>>
vars == <<phase, image, session>>

Absent == [state |-> "absent", sectors |-> 0, perBlock |-> 0, tree |-> << >>]
NoCwd  == [drive |-> NoDrive, path |-> <<NoName>>]

\* A tree maps paths of names from the root to what is there.
Bare == [p \in {<< >>} |-> "dir"]
With(t, p, kind) == [q \in DOMAIN t \cup {p} |-> IF q = p THEN kind ELSE t[q]]
Without(t, p)    == [q \in DOMAIN t \ {p} |-> t[q]]

IsDir(t, p) == p \in DOMAIN t /\ t[p] = "dir"

\* Mutant: what is below is not looked at.
IsEmptyDirAny(t, p) == IsDir(t, p)

IsEmptyDir(t, p) == IsDir(t, p) /\ \A q \in DOMAIN t \ {p} : ~IsPrefix(p, q)

Nodes == UNION {{i} \X (DOMAIN image[i].tree \ {<< >>}) : i \in Images}
Room  == Cardinality(Nodes) < MaxNodes

-----------------------------------------------------------------------------
(* fs_abs_path, and dir_roottree_locate on what it returns.                *)

\* A path without a drive goes on from the current directory.
Full(o) == IF o.drive = NoDrive THEN Join(cwd.path, o.path) ELSE o.path

\* Where nothing is left behind the colon a slash is put there.
Abs(o) ==
    LET s == Simplify(Full(o))
    IN  [drive |-> IF o.drive = NoDrive THEN cwd.drive ELSE o.drive,
         path  |-> IF s.buf = <<NoName>> THEN <<NoName, NoName>> ELSE s.buf,
         wild  |-> s.state = "overrun"]

Yes(at)   == [found |-> "yes", at |-> at]
Nothing   == [found |-> "missing", at |-> << >>]
Abort     == [found |-> "aborts", at |-> << >>]

\* The names on the way; a last slash makes no difference.
Way(p) == IF Len(p) > 1 /\ Last(p) = NoName THEN Front(Tail(p)) ELSE Tail(p)

\* One slash in front and no second; dir_locate asserts that it looks into a
\* directory; two slashes in a row make the second part of a name.
Locate(t, p) ==
    LET w == Way(p)
        unknown == {k \in 1 .. Len(w) : SubSeq(w, 1, k) \notin DOMAIN t}
    IN  IF p[1] # NoName \/ (Len(p) > 2 /\ p[2] = NoName) THEN Abort
        ELSE IF unknown = {} THEN Yes(w)
        ELSE IF IsDir(t, SubSeq(w, 1, Min(unknown) - 1)) THEN Nothing ELSE Abort

-----------------------------------------------------------------------------
(* drive_letter_to_ctrl, path_check: how far a call with a path comes.     *)

DeviceOf(letter) ==
    IF letter \in Letters /\ Lower[letter] \in Drives THEN mount[Lower[letter]] ELSE 0

OnDevice(d)      == ImageOf[devices[d]]
ImageAt(letter)  == OnDevice(DeviceOf(letter))
TreeAt(letter)   == image[ImageAt(letter)].tree

\* "dies": no functions are recorded for the drive, or the superblock of an
\* image that was never formatted fails an assertion.  "lost": the path left
\* its buffer, or the image is too short for a superblock.
Reach(letter) ==
    IF Lower[letter] = NoDrive THEN "refused"
    ELSE IF DeviceOf(letter) = 0 THEN "dies"
    ELSE IF image[ImageAt(letter)].sectors = 0 THEN "lost"
    ELSE IF image[ImageAt(letter)].state = "blank" THEN "dies"
    ELSE "goes"

ReachOf(a) == IF a.wild THEN "lost" ELSE Reach(a.drive)

\* Two mounts of one image keep two superblocks, and an open file keeps its
\* inode: names that change behind them are the subject of BaseFile.
Mounts(i) == {d \in Drives : mount[d] # 0 /\ OnDevice(mount[d]) = i}
Twice(i)  == Cardinality(Mounts(i)) > 1
Held(i)   == \E f \in Objs : files[f] # 0 /\ OnDevice(files[f]) = i

-----------------------------------------------------------------------------
(* The end of a session.                                                   *)

NoSession ==
    /\ devices' = << >> /\ mount' = [d \in Drives |-> 0] /\ cwd' = NoCwd
    /\ fds' = << >> /\ files' = [f \in Objs |-> 0] /\ spoiled' = {}

\* The program is left at the prompt, or dies.
Ends == phase' = "off" /\ NoSession /\ UNCHANGED image

\* Anything may have been written to the images.
Lost == phase' = "lost" /\ NoSession /\ image' = [i \in Images |-> Absent]

Exit == phase = "shell" /\ Ends

-----------------------------------------------------------------------------
(* main: create, format, and enter up to the prompt.                       *)

\* ft_create_bin_file.
Create(i, size) ==
    /\ phase = "off"
    /\ image' = [image EXCEPT ![i] =
                    [state |-> "blank", sectors |-> size \div SectorBytes,
                     perBlock |-> 0, tree |-> << >>]]
    /\ UNCHANGED <<phase, session>>

\* fulfs_format.
Format(i, perBlock) ==
    /\ phase = "off" /\ image[i].state # "absent"
    /\ perBlock \in 1 .. MaxPerBlock /\ Fits(image[i].sectors, perBlock)
    /\ image' = [image EXCEPT ![i] =
                    [state |-> "fulfs", sectors |-> @.sectors,
                     perBlock |-> perBlock, tree |-> Bare]]
    /\ UNCHANGED <<phase, session>>

Enter == phase = "off" /\ phase' = "config" /\ UNCHANGED <<image, session>>

\* device_add: one device for one path.
Addable(spelling) == spelling \notin Range(devices)

\* fs_mount, with a device that was just added.
Mountable(letter) == Lower[letter] \in Drives /\ mount[Lower[letter]] = 0

\* A line of config.txt.  A drive that is refused leaves the device added.
Line(letter, spelling) ==
    /\ phase = "config" /\ Len(devices) < MaxLines
    /\ Addable(spelling) /\ image[ImageOf[spelling]].state # "absent"
    /\ devices' = Append(devices, spelling)
    /\ mount' = IF Mountable(letter) THEN [mount EXCEPT ![Lower[letter]] = Len(devices) + 1]
                ELSE mount
    /\ UNCHANGED <<phase, image, cwd, fds, files, spoiled>>

\* fopen returned no stream.
LineDies(spelling) ==
    /\ phase = "config" /\ Len(devices) < MaxLines
    /\ Addable(spelling) /\ image[ImageOf[spelling]].state = "absent"
    /\ Ends

\* shell_main goes to A:/ first.
EnterShell ==
    /\ phase = "config" /\ Reach("A") = "goes"
    /\ phase' = "shell" /\ cwd' = [drive |-> "A", path |-> <<NoName, NoName>>]
    /\ UNCHANGED <<image, devices, mount, fds, files, spoiled>>

EnterShellFails ==
    /\ phase = "config"
    /\ \/ Reach("A") = "dies" /\ Ends
       \/ Reach("A") = "lost" /\ Lost

-----------------------------------------------------------------------------
(* The calls with a path.                                                  *)

\* The directory in which the last name of a path is looked for, and what is
\* there under that name.  dir_locate and dir_add assert that it is a
\* directory; dir_add asserts that the name is not empty.
Spot(a) ==
    LET t  == TreeAt(a.drive)
        at == Locate(t, Dirname(a.path))
        p  == Append(at.at, Basename(a.path))
    IN  [parent |-> IF at.found = "yes" /\ ~IsDir(t, at.at) THEN "aborts" ELSE at.found,
         path   |-> p,
         kind   |-> IF Basename(a.path) = NoName THEN "nameless"
                    ELSE IF p \in DOMAIN t THEN t[p] ELSE "nothing"]

\* A new entry cannot be made there.
AddAborts(s) == s.parent = "aborts" \/ (s.parent = "yes" /\ s.kind = "nameless")

Inside(a) == ReachOf(a) = "goes"

\* The names on an image are t from now on.
Rename(i, t, labels) ==
    \/ Twice(i) /\ Lost
    \/ /\ ~Twice(i)
       /\ image' = [image EXCEPT ![i].tree = t]
       /\ spoiled' = spoiled \cup labels
       /\ UNCHANGED <<phase, devices, mount, cwd, fds, files>>

\* Every call with a path that does not reach the file system of its drive.
CallOutside(a) ==
    \/ ReachOf(a) = "dies" /\ Ends
    \/ ReachOf(a) = "lost" /\ Lost

\* Mutant: the mode is not looked at.
ChdirAny(a) ==
    /\ Locate(TreeAt(a.drive), a.path).found = "yes"
    /\ cwd' = [drive |-> a.drive, path |-> a.path]
    /\ spoiled' = spoiled \ {"gone"}
    /\ UNCHANGED <<phase, image, devices, mount, fds, files>>

\* fs_chdir, after fs_stat.
Chdir(a) ==
    /\ Locate(TreeAt(a.drive), a.path).found = "yes"
    /\ IsDir(TreeAt(a.drive), Locate(TreeAt(a.drive), a.path).at)
    /\ cwd' = [drive |-> a.drive, path |-> a.path]
    /\ spoiled' = spoiled \ {"gone"}
    /\ UNCHANGED <<phase, image, devices, mount, fds, files>>

\* fs_stat, fs_opendir, and the calls that begin with one of them.
StatAborts(a) == Locate(TreeAt(a.drive), a.path) = Abort /\ Ends

\* fulfs_mkdir.  It goes on with any number if there is no such parent.
Mkdir(a) ==
    LET i == ImageAt(a.drive)
        s == Spot(a)
    IN  \/ /\ s.parent = "yes" /\ s.kind = "nothing" /\ Room
           /\ Rename(i, With(image[i].tree, s.path, "dir"), {})
        \/ AddAborts(s) /\ Ends
        \/ s.parent = "missing" /\ Lost

\* fulfs_rmdir, likewise, and if there is no such directory.
Rmdir(a) ==
    LET i == ImageAt(a.drive)
        s == Spot(a)
        here == DeviceOf(cwd.drive) = DeviceOf(a.drive) /\ Way(cwd.path) = s.path
    IN  \/ /\ s.parent = "yes" /\ s.kind = "dir" /\ IsEmptyDir(image[i].tree, s.path)
           /\ Rename(i, Without(image[i].tree, s.path), IF here THEN {"gone"} ELSE {})
        \/ s.parent = "aborts" /\ Ends
        \/ s.parent = "missing" /\ Lost
        \/ s.parent = "yes" /\ s.kind \in {"nothing", "nameless"} /\ Lost

\* fulfs_unlink.
Unlink(a) ==
    LET i == ImageAt(a.drive)
        s == Spot(a)
    IN  \/ /\ s.parent = "yes" /\ s.kind = "file"
           /\ IF Held(i) THEN Lost ELSE Rename(i, Without(image[i].tree, s.path), {})
        \/ s.parent = "aborts" /\ Ends

\* fs_link: letters are compared as they are written; fulfs_link does not look
\* for an existing name.
Link(a, b) ==
    LET i  == ImageAt(a.drive)
        at == Locate(image[i].tree, a.path)
        s  == Spot(b)
    IN  /\ a.drive = b.drive
        /\ \/ b.wild /\ Lost
           \/ ~b.wild /\ at = Abort /\ Ends
           \/ /\ ~b.wild /\ at.found = "yes" /\ ~IsDir(image[i].tree, at.at)
              /\ \/ AddAborts(s) /\ Ends
                 \/ s.parent = "yes" /\ s.kind \in {"file", "dir"} /\ Lost
                 \/ s.parent = "yes" /\ s.kind = "nothing" /\ Held(i) /\ Lost
                 \/ /\ s.parent = "yes" /\ s.kind = "nothing" /\ ~Held(i) /\ Room
                    /\ Rename(i, With(image[i].tree, s.path, "file"), {})

-----------------------------------------------------------------------------
(* Descriptors.                                                            *)

\* Mutant: the letter is taken from the path as it was given.
DescriptorAsGiven(f, o) == [file |-> f, drive |-> o.drive, shut |-> FALSE]

\* What fs_open keeps in a slot; shut is auxiliary, fs_close leaves no trace.
Descriptor(f, o) == [file |-> f, drive |-> Abs(o).drive, shut |-> FALSE]

\* fs_open takes the first slot that was never used.  A directory opened as
\* a file is not followed.
Open(o, a) ==
    LET i == ImageAt(a.drive)
        s == Spot(a)
    IN  /\ Len(fds) < FdCount
        /\ \/ AddAborts(s) /\ Ends
           \/ s.parent = "yes" /\ s.kind = "dir" /\ Lost
           \/ s.parent = "yes" /\ s.kind = "nothing" /\ Twice(i) /\ Lost
           \/ /\ s.parent = "yes"
              /\ s.kind = "file" \/ (s.kind = "nothing" /\ Room /\ ~Twice(i))
              /\ \E f \in Objs :
                    /\ files[f] = 0
                    /\ files' = [files EXCEPT ![f] = DeviceOf(a.drive)]
                    /\ fds' = Append(fds, Descriptor(f, o))
              /\ image' = [image EXCEPT ![i].tree = With(@, s.path, "file")]
              /\ UNCHANGED <<phase, devices, mount, cwd, spoiled>>

\* fs_close, the first time or again: another file may be there by then.
Close(k) ==
    /\ files[fds[k].file] # 0
    /\ files' = [files EXCEPT ![fds[k].file] = 0]
    /\ fds' = [fds EXCEPT ![k].shut = TRUE]
    /\ spoiled' = spoiled \cup (IF fds[k].shut THEN {"crossed"} ELSE {})
    /\ UNCHANGED <<phase, image, devices, mount, cwd>>

\* Any call with a descriptor whose file was freed.
UseFreed(k) == files[fds[k].file] = 0 /\ Lost

-----------------------------------------------------------------------------
Init ==
    /\ phase = "off"
    /\ image = [i \in Images |-> Absent]
    /\ devices = << >> /\ mount = [d \in Drives |-> 0] /\ cwd = NoCwd
    /\ fds = << >> /\ files = [f \in Objs |-> 0] /\ spoiled = {}

\* The runs of the program up to the prompt, and the end of a session.
Program ==
    \/ \E i \in Images : \E size \in SizesOf[i] : Create(i, size)
    \/ \E i \in Images : \E n \in PerBlocksOf[i] : Format(i, n)
    \/ Enter
    \/ \E line \in Lines : Line(line[1], line[2])
    \/ \E line \in Lines : LineDies(line[2])
    \/ EnterShell
    \/ EnterShellFails
    \/ Exit

PathCall(o, a) ==
    \/ CallOutside(a)
    \/ Inside(a) /\ StatAborts(a)
    \/ Inside(a) /\ Chdir(a)
    \/ Inside(a) /\ Mkdir(a)
    \/ Inside(a) /\ Rmdir(a)
    \/ Inside(a) /\ Unlink(a)
    \/ o \in Opened /\ Inside(a) /\ Open(o, a)

\* After a descriptor closed the file of another one no call is followed.
Prompt == phase = "shell" /\ "crossed" \notin spoiled

Next ==
    \/ Program
    \/ Prompt /\ \E o \in Operands : LET a == Abs(o) IN PathCall(o, a)
    \/ Prompt /\ \E pair \in Pairs : Inside(Abs(pair[1])) /\ Link(Abs(pair[1]), Abs(pair[2]))
    \/ Prompt /\ \E k \in DOMAIN fds : Close(k) \/ UseFreed(k)

Spec == Init /\ [][Next]_vars

-----------------------------------------------------------------------------
(* Properties.                                                             *)

IsTree(t) ==
    /\ DOMAIN t \subseteq Seq(Names) /\ IsDir(t, << >>)
    /\ \A p \in DOMAIN t \ {<< >>} : t[p] \in {"dir", "file"} /\ IsDir(t, Front(p))

\* Typing; on an image that was formatted every name is in a directory that is
\* still there.
TypeOK ==
    /\ phase \in {"off", "config", "shell", "lost"}
    /\ \A i \in Images :
          /\ image[i].sectors \in Nat /\ image[i].perBlock \in 0 .. MaxPerBlock
          /\ \/ image[i].state \in {"absent", "blank"} /\ image[i].tree = << >>
             \/ image[i].state = "fulfs" /\ IsTree(image[i].tree)
    /\ devices \in Seq(Spellings) /\ Len(devices) <= MaxLines
    /\ mount \in [Drives -> 0 .. Len(devices)]
    /\ cwd.drive \in Letters \cup {NoDrive} /\ cwd.path \in Seq(Names \cup {NoName})
    /\ fds \in Seq([file : Objs, drive : Letters, shut : BOOLEAN]) /\ Len(fds) <= FdCount
    /\ files \in [Objs -> 0 .. Len(devices)]
    /\ spoiled \subseteq {"gone", "crossed"}

\* path_simplify takes away just the components that "." and ".." call off,
\* whatever the current directory, and stays inside its buffer, for every path
\* that does not go on after it climbed above the root.  Paths that do are
\* what AssertionsHold fails for.
CleanedExact ==
    phase = "shell" =>
        \A o \in Operands :
            LET s == Simplify(Full(o))
            IN  ~GoesOn(Full(o)) => s.state # "overrun" /\ s.buf = Survivors(Full(o))

\* A path that can be walked, directory by directory, from the current one (or
\* the root of its drive), leads fs_abs_path and dir_roottree_locate to where
\* the walk ends: no slash too many, no component lost or called off twice.
StepTo(t, at, c) ==
    IF at = Nothing \/ ~IsDir(t, at.at) THEN Nothing
    ELSE CASE c = "." -> at
           [] c = ".." -> IF at.at = << >> THEN Nothing ELSE Yes(Front(at.at))
           [] OTHER -> IF Append(at.at, c) \in DOMAIN t THEN Yes(Append(at.at, c)) ELSE Nothing

Steps(o) ==
    LET p == IF o.drive = NoDrive THEN o.path ELSE Tail(o.path)
    IN  IF p # << >> /\ Last(p) = NoName THEN Front(p) ELSE p

Walking(t, o) ==
    LET after[k \in 0 .. Len(Steps(o))] ==
            IF k = 0 THEN Yes(IF o.drive = NoDrive THEN Way(cwd.path) ELSE << >>)
            ELSE StepTo(t, after[k - 1], Steps(o)[k])
    IN  after

Walked(t, o) == Walking(t, o)[Len(Steps(o))]

Walkable(o) ==
    /\ NoName \notin Range(Steps(o)) /\ Reach(Abs(o).drive) = "goes"
    /\ IF o.drive = NoDrive THEN o.path[1] # NoName ELSE o.path[1] = NoName

WalkAgrees ==
    phase = "shell" =>
        \A o \in Operands :
            LET a == Abs(o)
            IN  Walkable(o) /\ Walked(TreeAt(a.drive), o) # Nothing
                => ~a.wild /\ Locate(TreeAt(a.drive), a.path) = Walked(TreeAt(a.drive), o)

\* The entry that a walk ends at, or at which its last name would be made.
Aim(t, o) ==
    LET n == Len(Steps(o))
        before == Walking(t, o)[n - 1]
    IN  IF n = 0 \/ Steps(o)[n] \notin Names THEN Walked(t, o)
        ELSE IF before = Nothing \/ ~IsDir(t, before.at) THEN Nothing
        ELSE Yes(Append(before.at, Steps(o)[n]))

\* The calls that split a path (mkdir, rmdir, link, unlink, open) come to the
\* directory and the name at which a walk along the path as it was given ends,
\* whether there is something under that name or not.  Without a slash at the
\* end, and not for the root, which no directory holds: for these the calls
\* look for an empty name, where stat finds the directory itself, and
\* AssertionsHold fails.
SplitAgrees ==
    phase = "shell" =>
        \A o \in Operands :
            LET a == Abs(o)
                aim == Aim(TreeAt(a.drive), o)
            IN  Walkable(o) /\ Last(o.path) # NoName /\ aim # Nothing /\ aim.at # << >>
                => ~a.wild /\ Spot(a).parent = "yes" /\ Spot(a).path = aim.at

\* The current directory is an existing directory on a mounted drive, spelled
\* without "." and "..", as long as rmdir has not removed it.
CwdSound ==
    phase = "shell" /\ "gone" \notin spoiled =>
        /\ Reach(cwd.drive) = "goes" /\ cwd.path[1] = NoName
        /\ IsDir(TreeAt(cwd.drive), Way(cwd.path))

\* "A file that is mounted already may not be mounted by others"
\* (device_io.c:24): no image is on two drives.  False when config.txt has its
\* path in two spellings, which device_add takes for two files; each drive
\* then has a superblock of its own.
OneDrivePerImage ==
    \A x, y \in Drives :
        x # y /\ mount[x] # 0 /\ mount[y] # 0 => OnDevice(mount[x]) # OnDevice(mount[y])

\* No path that is given to a call fails an assertion: fs_abs_path asserts that
\* its result still has a drive in front (fs.c:500), dir_locate that it looks
\* into a directory (file_dir.c:500), dir_add that the name is not empty
\* (line 535).  False for A:/../e, written from the byte before the buffer of
\* path_simplify on, so that the name lies over the drive, and for A:/, where
\* mkdir and open add an empty name to the root.
AssertionsHold ==
    phase = "shell" =>
        \A o \in Operands :
            LET a == Abs(o)
            IN  /\ ~a.wild
                /\ Inside(a) => Locate(TreeAt(a.drive), a.path) # Abort /\ ~AddAborts(Spot(a))

\* A descriptor that was not closed has a file of its own, on the device that
\* its recorded drive letter leads to, in whatever order descriptors are opened
\* and closed, until one is closed twice.
DescriptorsOwn ==
    "crossed" \notin spoiled =>
        \A k \in DOMAIN fds :
            ~fds[k].shut =>
                /\ files[fds[k].file] # 0
                /\ files[fds[k].file] = DeviceOf(fds[k].drive)
                /\ \A n \in DOMAIN fds \ {k} : fds[n].shut \/ fds[n].file # fds[k].file

\* What a format leaves: no two inodes share bytes, all of them lie between
\* the superblock and the data blocks, and the last block ends before the
\* device does, so that no read or write of a block is cut short.
LayoutSound ==
    \A i \in Images :
        image[i].state = "fulfs" =>
            LET sb == Superblock(image[i].sectors, image[i].perBlock)
                Place(no) == InodePlace(sb, no)
            IN  /\ \A no \in 0 .. InodeCount - 1 :
                      /\ 0 < Place(no).block /\ Place(no).block < sb.dataBlock
                      /\ Place(no).offset + InodeBytes <= BlockBytes(sb.perBlock)
                      /\ \A other \in 0 .. no - 1 :
                            Place(other).block = Place(no).block =>
                                Place(other).offset + InodeBytes <= Place(no).offset
                /\ DataBlocks(sb) > 0 /\ sb.totalSize = DataBlocks(sb) * BlockBytes(sb.perBlock)
                /\ \A block \in 0 .. BlockCount(sb) - 1 :
                      SectorsOf(sb, block) \subseteq 0 .. image[i].sectors - 1
=============================================================================

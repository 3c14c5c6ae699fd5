--------------------------- MODULE SysCallsProofs ---------------------------
(***************************************************************************)
(* Proofs about SysCalls, for every set of names, images, drives and       *)
(* operands: its type invariant and every safety property the run checks.  *)
(*                                                                         *)
(* The first part is about Layout: on a device that fulfs_format accepts,  *)
(* the inode table and the data blocks lie apart and inside the device,    *)
(* for every size of sectors, inodes and devices and number of inodes.     *)
(* The second part is about trees of names and what a path finds in them,  *)
(* the third is the inductive invariant with one lemma per action, the     *)
(* fourth draws the properties of path names from it.                      *)
(***************************************************************************)
EXTENDS SysCalls, PathsProofs

-----------------------------------------------------------------------------
(* Where the inode table and the data blocks lie.                          *)

\* Division: the remainder is smaller than the divisor.
LEMMA Division ==
  ASSUME NEW n \in Nat, NEW k \in Nat \ {0}
  PROVE  /\ n \div k \in Nat /\ n % k \in 0 .. k - 1
         /\ n = k * (n \div k) + (n % k)
OBVIOUS

\* Products are monotonic.
LEMMA Products ==
  ASSUME NEW a \in Nat, NEW b \in Nat, NEW c \in Nat, a <= b
  PROVE  /\ a * c \in Nat /\ b * c \in Nat /\ a * c <= b * c
         /\ (a + 1) * c = a * c + c
OBVIOUS

\* count_groups is large enough: every number below n is in a group.
LEMMA GroupsCover ==
  ASSUME NEW n \in Nat, NEW k \in Nat \ {0}, NEW m \in 0 .. n - 1
  PROVE  Groups(n, k) \in Nat /\ m \div k < Groups(n, k)
<1>1. n \div k \in Nat /\ n % k \in 0 .. k - 1 /\ n = k * (n \div k) + (n % k)
  BY Division
<1>2. m \div k \in Nat /\ m % k \in 0 .. k - 1 /\ m = k * (m \div k) + (m % k)
  <2>1. m \in Nat
    OBVIOUS
  <2>2. QED BY <2>1, Division
<1>3. \A q, r \in Nat : q < r => k * q + k <= k * r
  <2>1. TAKE q, r \in Nat
  <2>2. HAVE q < r
  <2>3. (q + 1) * k <= r * k /\ (q + 1) * k = q * k + k
    BY <2>2, Products
  <2>4. QED BY <2>3
<1>4. CASE n % k = 0
  <2>1. ~(n \div k < m \div k) /\ n \div k # m \div k
    BY <1>1, <1>2, <1>3, <1>4
  <2>2. Groups(n, k) = n \div k
    BY <1>1, <1>4 DEF Groups
  <2>3. QED BY <1>1, <1>2, <2>1, <2>2
<1>5. CASE n % k # 0
  <2>1. ~(n \div k < m \div k)
    BY <1>1, <1>2, <1>3
  <2>2. Groups(n, k) = (n \div k) + 1
    BY <1>5 DEF Groups
  <2>3. QED BY <1>1, <1>2, <2>1, <2>2
<1>6. QED BY <1>4, <1>5

\* A block holds at least one inode, and the inodes it holds fit in.
LEMMA InodesFit ==
  ASSUME NEW perBlock \in 1 .. MaxPerBlock
  PROVE  /\ BlockBytes(perBlock) \in Nat
         /\ InodesIn(perBlock) \in Nat \ {0}
         /\ InodesIn(perBlock) * InodeBytes <= BlockBytes(perBlock)
<1> USE LayoutAssumption
<1>1. BlockBytes(perBlock) \in Nat /\ InodeBytes <= BlockBytes(perBlock)
  <2>1. 1 * SectorBytes <= perBlock * SectorBytes /\ perBlock * SectorBytes \in Nat
    BY Products
  <2>2. QED BY <2>1 DEF BlockBytes
<1> DEFINE bytes == BlockBytes(perBlock)
           inodes == InodesIn(perBlock)
<1>2. /\ inodes \in Nat /\ bytes % InodeBytes \in 0 .. InodeBytes - 1
      /\ bytes = InodeBytes * inodes + (bytes % InodeBytes)
  BY <1>1, Division DEF InodesIn
<1>3. inodes # 0
  BY <1>1, <1>2
<1>4. QED BY <1>1, <1>2, <1>3

\* Two inodes of one block: the later one begins where the other one ends, or
\* after it; both lie inside the block.
LEMMA InodesApart ==
  ASSUME NEW perBlock \in 1 .. MaxPerBlock, NEW sectors \in Nat,
         NEW no \in 0 .. InodeCount - 1
  PROVE  LET sb == Superblock(sectors, perBlock)
             Place(n) == InodePlace(sb, n)
         IN  /\ 0 < Place(no).block /\ Place(no).block < sb.dataBlock
             /\ Place(no).offset + InodeBytes <= BlockBytes(sb.perBlock)
             /\ \A other \in 0 .. no - 1 :
                   Place(other).block = Place(no).block =>
                       Place(other).offset + InodeBytes <= Place(no).offset
<1> USE LayoutAssumption
<1> DEFINE sb == Superblock(sectors, perBlock)
           inodes == InodesIn(perBlock)
<1>1. inodes \in Nat \ {0} /\ inodes * InodeBytes <= BlockBytes(perBlock)
      /\ BlockBytes(perBlock) \in Nat
  BY InodesFit
<1>2. /\ sb.perBlock = perBlock /\ sb.dataBlock = 1 + Groups(InodeCount, inodes)
      /\ \A n : /\ InodePlace(sb, n).block = 1 + (n \div inodes)
                /\ InodePlace(sb, n).offset = (n % inodes) * InodeBytes
  BY DEF Superblock, DataBlock, InodeBlocks, InodePlace
<1> HIDE DEF inodes
<1>3. \A n \in 0 .. no : /\ n \div inodes \in Nat /\ n % inodes \in 0 .. inodes - 1
                         /\ n = inodes * (n \div inodes) + (n % inodes)
  <2>1. TAKE n \in 0 .. no
  <2>2. n \in Nat
    OBVIOUS
  <2>3. QED BY <1>1, <2>2, Division
<1>4. no \div inodes < Groups(InodeCount, inodes) /\ Groups(InodeCount, inodes) \in Nat
  BY <1>1, GroupsCover
<1>5. \A a, b \in Nat : a < b => a * InodeBytes + InodeBytes <= b * InodeBytes
  <2>1. TAKE a, b \in Nat
  <2>2. HAVE a < b
  <2>3. (a + 1) * InodeBytes <= b * InodeBytes /\ (a + 1) * InodeBytes = a * InodeBytes + InodeBytes
    BY <2>2, Products
  <2>4. QED BY <2>3
<1>6. (no % inodes) * InodeBytes + InodeBytes <= BlockBytes(perBlock)
  <2>1. no % inodes \in Nat /\ no % inodes < inodes
    BY <1>1, <1>3
  <2>2. (no % inodes) * InodeBytes + InodeBytes <= inodes * InodeBytes
    BY <1>1, <1>5, <2>1
  <2>3. (no % inodes) * InodeBytes \in Nat /\ inodes * InodeBytes \in Nat
    BY <1>1, <2>1, Products
  <2>4. QED BY <1>1, <2>2, <2>3
<1>7. ASSUME NEW other \in 0 .. no - 1, other \div inodes = no \div inodes
      PROVE  (other % inodes) * InodeBytes + InodeBytes <= (no % inodes) * InodeBytes
  <2>1. /\ other \in 0 .. no /\ no \in 0 .. no
    OBVIOUS
  <2>2. other % inodes \in Nat /\ no % inodes \in Nat /\ other % inodes < no % inodes
    <3>1. /\ other = inodes * (no \div inodes) + (other % inodes)
          /\ no = inodes * (no \div inodes) + (no % inodes)
          /\ other % inodes \in Nat /\ no % inodes \in Nat
      BY <1>1, <1>3, <1>7, <2>1
    <3>2. inodes * (no \div inodes) \in Nat
      BY <1>1, <1>3, Products
    <3>3. QED BY <3>1, <3>2
  <2>3. QED BY <1>5, <2>2
<1>8. /\ 0 < 1 + (no \div inodes)
      /\ 1 + (no \div inodes) < 1 + Groups(InodeCount, inodes)
  BY <1>3, <1>4
<1>9. ASSUME NEW other \in 0 .. no - 1, InodePlace(sb, other).block = InodePlace(sb, no).block
      PROVE  other \div inodes = no \div inodes
  <2>1. other \div inodes \in Nat /\ no \div inodes \in Nat
    BY <1>3
  <2>2. 1 + (other \div inodes) = 1 + (no \div inodes)
    BY <1>2, <1>9
  <2>3. QED BY <2>1, <2>2
<1> HIDE DEF sb
<1>10. QED
  <2>1. \A other \in 0 .. no - 1 :
           InodePlace(sb, other).block = InodePlace(sb, no).block =>
             InodePlace(sb, other).offset + InodeBytes <= InodePlace(sb, no).offset
    BY <1>2, <1>7, <1>9
  <2>2. QED BY <1>2, <1>6, <1>8, <2>1 DEF sb

\* What fulfs_format accepts has data blocks, and they end inside the device.
LEMMA BlocksInside ==
  ASSUME NEW perBlock \in 1 .. MaxPerBlock, NEW sectors \in Nat, Fits(sectors, perBlock)
  PROVE  LET sb == Superblock(sectors, perBlock)
         IN  /\ DataBlocks(sb) > 0
             /\ sb.totalSize = DataBlocks(sb) * BlockBytes(sb.perBlock)
             /\ \A block \in 0 .. BlockCount(sb) - 1 :
                   SectorsOf(sb, block) \subseteq 0 .. sectors - 1
<1> USE LayoutAssumption
<1> DEFINE sb == Superblock(sectors, perBlock)
<1>1. /\ sb.sectors = sectors /\ sb.perBlock = perBlock /\ sb.dataBlock = DataBlock(perBlock)
      /\ sb.totalSize = ((sectors \div perBlock) - DataBlock(perBlock)) * BlockBytes(perBlock)
  BY DEF Superblock
<1>2. /\ BlockCount(sb) = sectors \div perBlock
      /\ DataBlocks(sb) = (sectors \div perBlock) - DataBlock(perBlock)
      /\ \A block : SectorsOf(sb, block) = block * perBlock .. (block * perBlock) + perBlock - 1
  BY <1>1 DEF BlockCount, DataBlocks, SectorsOf
<1>3. DataBlock(perBlock) \in Nat
  <2>1. InodesIn(perBlock) \in Nat \ {0}
    BY InodesFit
  <2>2. 0 \in 0 .. InodeCount - 1 /\ InodeCount \in Nat
    OBVIOUS
  <2>3. Groups(InodeCount, InodesIn(perBlock)) \in Nat
    BY <2>1, <2>2, GroupsCover
  <2>4. QED BY <2>3 DEF DataBlock, InodeBlocks
<1>4. /\ sectors \div perBlock \in Nat /\ sectors % perBlock \in 0 .. perBlock - 1
      /\ sectors = perBlock * (sectors \div perBlock) + (sectors % perBlock)
  BY Division
<1>5. DataBlocks(sb) > 0
  BY <1>2, <1>3, <1>4 DEF Fits
<1>6. ASSUME NEW block \in 0 .. (sectors \div perBlock) - 1
      PROVE  block * perBlock .. (block * perBlock) + perBlock - 1 \subseteq 0 .. sectors - 1
  <2>1. /\ (block + 1) * perBlock <= (sectors \div perBlock) * perBlock
        /\ block * perBlock \in Nat /\ (block + 1) * perBlock = block * perBlock + perBlock
    BY <1>4, Products
  <2>2. QED BY <1>4, <2>1
<1>7. QED BY <1>1, <1>2, <1>5, <1>6

-----------------------------------------------------------------------------
Parts == Names \cup {NoName, ".", ".."}
Clean == Names \cup {NoName}

-----------------------------------------------------------------------------
(* Trees of names.                                                         *)

\* What dir_add does: a new entry in a directory, or one that is there.
LEMMA WithIsTree ==
  ASSUME NEW t, IsTree(t), NEW p \in Seq(Names) \ {<< >>}, NEW kind \in {"dir", "file"},
         IsDir(t, Front(p)), p \in DOMAIN t => t[p] = kind
  PROVE  /\ IsTree(With(t, p, kind))
         /\ \A q : IsDir(t, q) => IsDir(With(t, p, kind), q)
<1> DEFINE u == With(t, p, kind)
<1>1. /\ DOMAIN u = DOMAIN t \cup {p} /\ u[p] = kind
      /\ \A q \in DOMAIN t : u[q] = t[q]
  BY DEF With
<1> HIDE DEF u
<1>2. \A q : IsDir(t, q) => IsDir(u, q)
  BY <1>1 DEF IsDir
<1>3. /\ DOMAIN t \subseteq Seq(Names) /\ IsDir(t, << >>)
      /\ \A q \in DOMAIN t \ {<< >>} : t[q] \in {"dir", "file"} /\ IsDir(t, Front(q))
  BY DEF IsTree
<1>4. \A q \in DOMAIN u \ {<< >>} : u[q] \in {"dir", "file"} /\ IsDir(u, Front(q))
  BY <1>1, <1>2, <1>3
<1>5. IsTree(u)
  BY <1>1, <1>2, <1>3, <1>4 DEF IsTree
<1>6. QED BY <1>2, <1>5 DEF u

\* What dir_remove does, to an entry that nothing is below.
LEMMA WithoutIsTree ==
  ASSUME NEW t, IsTree(t), NEW p \in DOMAIN t \ {<< >>}, t[p] = "file" \/ IsEmptyDir(t, p)
  PROVE  /\ IsTree(Without(t, p))
         /\ \A q : IsDir(t, q) /\ q # p => IsDir(Without(t, p), q)
<1> DEFINE u == Without(t, p)
<1>1. DOMAIN u = DOMAIN t \ {p} /\ \A q \in DOMAIN u : u[q] = t[q]
  BY DEF Without
<1> HIDE DEF u
<1>2. \A q : IsDir(t, q) /\ q # p => IsDir(u, q)
  BY <1>1 DEF IsDir
<1>3. /\ DOMAIN t \subseteq Seq(Names) /\ IsDir(t, << >>)
      /\ \A q \in DOMAIN t \ {<< >>} : t[q] \in {"dir", "file"} /\ IsDir(t, Front(q))
  BY DEF IsTree
<1>4. ASSUME NEW q \in DOMAIN t \ {<< >>, p} PROVE Front(q) # p
  <2>1. CASE t[p] = "file"
    <3>1. t[Front(q)] = "dir"
      BY <1>3, <1>4 DEF IsDir
    <3>2. QED BY <2>1, <3>1
  <2>2. CASE IsEmptyDir(t, p)
    <3>1. ~IsPrefix(p, q)
      BY <1>4, <2>2 DEF IsEmptyDir
    <3>2. q \in Seq(Names) \ {<< >>}
      BY <1>3, <1>4
    <3>3. Len(Front(q)) = Len(q) - 1 /\ Len(q) \in Nat \ {0} /\ Front(q) \in Seq(Names)
      BY <3>2, Fronts
    <3>4. SubSeq(Front(q), 1, Len(Front(q))) = Front(q)
      BY <3>3, SubSeqFull
    <3>5. SubSeq(q, 1, Len(Front(q))) = Front(q)
      BY <3>3 DEF Front
    <3>6. IsPrefix(Front(q), q)
      BY <3>3, <3>4, <3>5 DEF IsPrefix
    <3>7. QED BY <3>1, <3>6
  <2>3. QED BY <2>1, <2>2
<1>5. \A q \in DOMAIN u \ {<< >>} : u[q] \in {"dir", "file"} /\ IsDir(u, Front(q))
  <2>1. TAKE q \in DOMAIN u \ {<< >>}
  <2>2. q \in DOMAIN t \ {<< >>, p} /\ u[q] = t[q]
    BY <1>1
  <2>3. QED BY <1>2, <1>3, <1>4, <2>2
<1>6. DOMAIN u \subseteq Seq(Names) /\ IsDir(u, << >>)
  BY <1>1, <1>2, <1>3
<1>7. IsTree(u)
  BY <1>5, <1>6 DEF IsTree
<1>8. QED BY <1>2, <1>7 DEF u

\* A formatted image has its root.
LEMMA BareIsTree == IsTree(Bare)
<1>1. DOMAIN Bare = {<< >>} /\ Bare[<< >>] = "dir"
  BY DEF Bare
<1>2. << >> \in Seq(Names)
  BY EmptySeq
<1>3. QED BY <1>1, <1>2 DEF IsTree, IsDir

-----------------------------------------------------------------------------
(* What a path finds.                                                      *)

\* Way takes the empty first component off, and a last one.
LEMMA WayFacts ==
  ASSUME NEW p \in Seq(Clean) \ {<< >>}
  PROVE  /\ Len(p) \in Nat \ {0} /\ Way(p) \in Seq(Clean)
         /\ Len(Way(p)) = IF Len(p) > 1 /\ p[Len(p)] = NoName THEN Len(p) - 2 ELSE Len(p) - 1
         /\ \A k \in 1 .. Len(Way(p)) : Way(p)[k] = p[k + 1]
<1>1. /\ Len(p) \in Nat \ {0} /\ Tail(p) \in Seq(Clean) /\ Len(Tail(p)) = Len(p) - 1
      /\ \A k \in 1 .. Len(p) - 1 : Tail(p)[k] = p[k + 1]
  BY EmptySeq, HeadTailProperties
<1>2. CASE Len(p) > 1 /\ p[Len(p)] = NoName
  <2>1. Tail(p) \in Seq(Clean) \ {<< >>}
    <3>1. PICK n \in Nat \ {0} : n = Len(p)
      BY <1>1
    <3>2. n > 1 /\ Len(Tail(p)) = n - 1
      BY <1>1, <1>2, <3>1
    <3>3. Len(Tail(p)) # 0
      BY <3>2
    <3>4. QED BY <1>1, <3>3, EmptySeq
  <2>2. /\ Front(Tail(p)) \in Seq(Clean) /\ Len(Front(Tail(p))) = Len(p) - 2
        /\ \A k \in 1 .. Len(p) - 2 : Front(Tail(p))[k] = Tail(p)[k]
    <3>1. /\ Len(Tail(p)) \in Nat \ {0} /\ Front(Tail(p)) \in Seq(Clean)
          /\ Len(Front(Tail(p))) = Len(Tail(p)) - 1
          /\ \A k \in 1 .. Len(Tail(p)) - 1 : Front(Tail(p))[k] = Tail(p)[k]
      BY <2>1, Fronts
    <3>2. Len(Tail(p)) - 1 = Len(p) - 2
      BY <1>1
    <3>3. QED BY <3>1, <3>2
  <2>3. Way(p) = Front(Tail(p))
    BY <1>2 DEF Way, Last
  <2>4. \A k \in 1 .. Len(p) - 2 : k \in 1 .. Len(p) - 1
    BY <1>1
  <2>5. QED BY <1>1, <1>2, <2>2, <2>3, <2>4
<1>3. CASE ~(Len(p) > 1 /\ p[Len(p)] = NoName)
  <2>1. Way(p) = Tail(p)
    BY <1>3 DEF Way, Last
  <2>2. QED BY <1>1, <1>3, <2>1
<1>4. QED BY <1>2, <1>3

\* What dir_roottree_locate finds is in the tree, under the names of the path.
LEMMA LocateFinds ==
  ASSUME NEW t, IsTree(t), NEW p \in Seq(Clean) \ {<< >>}, Locate(t, p).found = "yes"
  PROVE  /\ Locate(t, p).at = Way(p) /\ Way(p) \in DOMAIN t /\ Way(p) \in Seq(Names)
         /\ p[1] = NoName /\ ~(Len(p) > 2 /\ p[2] = NoName)
         /\ \A k \in 1 .. Len(Way(p)) : SubSeq(Way(p), 1, k) \in DOMAIN t
<1> DEFINE w == Way(p)
           unknown == {k \in 1 .. Len(w) : SubSeq(w, 1, k) \notin DOMAIN t}
<1>1. /\ Locate(t, p) = IF p[1] # NoName \/ (Len(p) > 2 /\ p[2] = NoName) THEN Abort
                        ELSE IF unknown = {} THEN Yes(w)
                        ELSE IF IsDir(t, SubSeq(w, 1, Min(unknown) - 1)) THEN Nothing ELSE Abort
  BY DEF Locate
<1>2. Abort.found # "yes" /\ Nothing.found # "yes" /\ Yes(w).at = w
  BY DEF Abort, Nothing, Yes
<1>3. /\ Locate(t, p) = Yes(w) /\ unknown = {}
      /\ p[1] = NoName /\ ~(Len(p) > 2 /\ p[2] = NoName)
  BY <1>1, <1>2
<1>4. \A k \in 1 .. Len(w) : SubSeq(w, 1, k) \in DOMAIN t
  BY <1>3
<1>5. w \in DOMAIN t
  <2>1. w \in Seq(Clean) /\ Len(w) \in Nat
    BY WayFacts, LenProperties
  <2>2. CASE w = << >>
    BY <2>2 DEF IsTree, IsDir
  <2>3. CASE w # << >>
    <3>1. Len(w) \in 1 .. Len(w) /\ SubSeq(w, 1, Len(w)) = w
      BY <2>1, <2>3, EmptySeq, SubSeqFull
    <3>2. QED BY <1>4, <3>1
  <2>4. QED BY <2>2, <2>3
<1>6. w \in Seq(Names)
  BY <1>5 DEF IsTree
<1>7. QED BY <1>2, <1>3, <1>4, <1>5, <1>6

\* A path that is found below the root has its last name found in the
\* directory that path_dirname leads to.
LEMMA SplitFinds ==
  ASSUME NEW t, IsTree(t), NEW p \in Seq(Clean) \ {<< >>},
         Last(p) # NoName, Locate(t, p).found = "yes"
  PROVE  /\ Locate(t, Dirname(p)).found = "yes"
         /\ IsDir(t, Locate(t, Dirname(p)).at)
         /\ Append(Locate(t, Dirname(p)).at, Basename(p)) = Locate(t, p).at
<1> DEFINE w == Way(p)
           dir == Dirname(p)
<1>1. /\ Locate(t, p).at = w /\ w \in DOMAIN t /\ w \in Seq(Names)
      /\ p[1] = NoName /\ ~(Len(p) > 2 /\ p[2] = NoName)
      /\ \A k \in 1 .. Len(w) : SubSeq(w, 1, k) \in DOMAIN t
  BY LocateFinds
<1>2. PICK n \in Nat \ {0} : n = Len(p)
  BY EmptySeq
<1>3. n > 1 /\ p[n] # NoName
  BY <1>1, <1>2 DEF Last
<1>4. Len(w) = n - 1 /\ \A k \in 1 .. n - 1 : w[k] = p[k + 1]
  <2>1. /\ Len(w) = IF n > 1 /\ p[n] = NoName THEN n - 2 ELSE n - 1
        /\ \A k \in 1 .. Len(w) : w[k] = p[k + 1]
    BY <1>2, WayFacts
  <2>2. QED BY <1>3, <2>1
<1> HIDE DEF w
<1>5. w \in Seq(Names) \ {<< >>}
  <2>1. n - 1 # 0
    BY <1>2, <1>3
  <2>2. Len(w) # 0
    BY <1>4, <2>1
  <2>3. QED BY <1>1, <2>2, EmptySeq
<1>6. /\ Front(w) \in Seq(Names) /\ Len(Front(w)) = n - 2
      /\ \A k \in 1 .. n - 2 : Front(w)[k] = w[k]
  <2>1. /\ Front(w) \in Seq(Names) /\ Len(Front(w)) = Len(w) - 1
        /\ \A k \in 1 .. Len(w) - 1 : Front(w)[k] = w[k]
    BY <1>5, Fronts
  <2>2. Len(w) - 1 = n - 2
    BY <1>2, <1>4
  <2>3. QED BY <2>1, <2>2
<1>7. /\ dir \in Seq(Clean) \ {<< >>} /\ dir[1] = NoName /\ ~(Len(dir) > 2 /\ dir[2] = NoName)
      /\ Way(dir) = Front(w)
  <2>1. CASE n = 2
    <3>1. dir = <<NoName, NoName>>
      BY <1>1, <1>2, <2>1 DEF Dirname
    <3>2. /\ <<NoName, NoName>> \in Seq(Clean) \ {<< >>} /\ Len(<<NoName, NoName>>) = 2
          /\ <<NoName, NoName>>[1] = NoName /\ <<NoName, NoName>>[2] = NoName
      BY DEF Clean
    <3>3. Len(Way(<<NoName, NoName>>)) = 0 /\ Way(<<NoName, NoName>>) \in Seq(Clean)
      <4> DEFINE q == <<NoName, NoName>>
      <4>1. q \in Seq(Clean) \ {<< >>} /\ Len(q) = 2 /\ q[2] = NoName
        BY <3>2
      <4> HIDE DEF q
      <4>2. /\ Way(q) \in Seq(Clean)
            /\ Len(Way(q)) = IF Len(q) > 1 /\ q[Len(q)] = NoName THEN Len(q) - 2 ELSE Len(q) - 1
        BY <4>1, WayFacts
      <4>3. Len(Way(q)) = 0
        BY <4>1, <4>2
      <4>4. QED BY <4>2, <4>3 DEF q
    <3>4. Way(<<NoName, NoName>>) = << >> /\ Front(w) = << >>
      BY <1>6, <2>1, <3>3, EmptySeq
    <3>5. QED BY <3>1, <3>2, <3>4
  <2>2. CASE n > 2
    <3>1. dir = Front(p)
      BY <1>2, <2>2 DEF Dirname
    <3>2. /\ Front(p) \in Seq(Clean) /\ Len(Front(p)) = n - 1
          /\ \A k \in 1 .. n - 1 : Front(p)[k] = p[k]
      BY <1>2, Fronts
    <3>3. Front(p) # << >>
      BY <1>2, <2>2, <3>2, EmptySeq
    <3>4. Front(p)[1] = NoName /\ Front(p)[2] = p[2]
      BY <1>1, <1>2, <2>2, <3>2
    <3>5. ~(Len(Front(p)) > 2 /\ Front(p)[2] = NoName)
      BY <1>1, <1>2, <2>2, <3>4
    <3>6. Front(p)[n - 1] # NoName
      <4>1. n - 2 \in 1 .. n - 1 /\ n - 1 \in 1 .. n - 1 /\ (n - 2) + 1 = n - 1
        BY <2>2
      <4>2. w[n - 2] \in Names
        BY <1>4, <1>5, <4>1, ElementOfSeq
      <4>3. Front(p)[n - 1] = w[n - 2]
        BY <1>4, <3>2, <4>1
      <4>4. QED BY <4>2, <4>3, SysNamesAssumption
    <3>7. /\ Way(Front(p)) \in Seq(Clean) /\ Len(Way(Front(p))) = n - 2
          /\ \A k \in 1 .. n - 2 : Way(Front(p))[k] = Front(p)[k + 1]
      <4>1. /\ Way(Front(p)) \in Seq(Clean)
            /\ Len(Way(Front(p))) = IF n - 1 > 1 /\ Front(p)[n - 1] = NoName THEN n - 1 - 2 ELSE n - 1 - 1
            /\ \A k \in 1 .. Len(Way(Front(p))) : Way(Front(p))[k] = Front(p)[k + 1]
        BY <3>2, <3>3, WayFacts
      <4>2. n - 1 - 1 = n - 2
        BY <1>2
      <4>3. QED BY <3>6, <4>1, <4>2
    <3>8. Way(Front(p)) = Front(w)
      <4>1. \A k \in 1 .. n - 2 : Way(Front(p))[k] = Front(w)[k]
        <5>1. TAKE k \in 1 .. n - 2
        <5>2. k \in 1 .. n - 1 /\ k + 1 \in 1 .. n - 1
          BY <1>2
        <5>3. QED BY <1>4, <1>6, <3>2, <3>7, <5>2
      <4>2. Front(w) \in Seq(Clean)
        BY <1>6, SeqMonotonic DEF Clean
      <4>3. QED BY <1>6, <3>7, <4>1, <4>2, SeqEqual
    <3>9. QED BY <3>1, <3>2, <3>3, <3>4, <3>5, <3>8
  <2>3. QED BY <1>2, <1>3, <2>1, <2>2
<1>8. \A k \in 1 .. Len(Front(w)) : SubSeq(Front(w), 1, k) \in DOMAIN t
  <2>1. TAKE k \in 1 .. Len(Front(w))
  <2>2. k \in 1 .. Len(w) /\ k \in 1 .. Len(w) - 1
    BY <1>2, <1>4, <1>6
  <2>3. SubSeq(Front(w), 1, k) = SubSeq(w, 1, k)
    <3>1. /\ SubSeq(w, 1, k) \in Seq(Names) /\ Len(SubSeq(w, 1, k)) = k
          /\ \A j \in 1 .. k : SubSeq(w, 1, k)[j] = w[j]
      BY <1>5, <2>2, PrefixFacts
    <3>2. /\ SubSeq(Front(w), 1, k) \in Seq(Names) /\ Len(SubSeq(Front(w), 1, k)) = k
          /\ \A j \in 1 .. k : SubSeq(Front(w), 1, k)[j] = Front(w)[j]
      BY <1>6, <2>1, PrefixFacts
    <3>3. \A j \in 1 .. k : Front(w)[j] = w[j]
      BY <1>4, <1>6, <2>2
    <3>4. QED BY <3>1, <3>2, <3>3, SeqEqual
  <2>4. QED BY <1>1, <2>2, <2>3
<1>9. Locate(t, dir) = Yes(Front(w))
  BY <1>7, <1>8 DEF Locate
<1>10. IsDir(t, Front(w))
  BY <1>1, <1>5 DEF IsTree
<1>11. Append(Front(w), Basename(p)) = w
  <2>1. Basename(p) = w[n - 1] /\ w[n - 1] \in Names
    <3>1. n - 1 \in 1 .. n - 1 /\ (n - 1) + 1 = n
      BY <1>2, <1>3
    <3>2. QED BY <1>2, <1>4, <1>5, <3>1, ElementOfSeq DEF Basename, Last
  <2>2. /\ Append(Front(w), w[n - 1]) \in Seq(Names)
        /\ Len(Append(Front(w), w[n - 1])) = n - 2 + 1
        /\ \A k \in 1 .. n - 2 : Append(Front(w), w[n - 1])[k] = Front(w)[k]
        /\ Append(Front(w), w[n - 1])[n - 2 + 1] = w[n - 1]
    BY <1>6, <2>1, AppendProperties
  <2>3. n - 2 + 1 = n - 1 /\ \A k \in 1 .. n - 1 : k \in 1 .. n - 2 \/ k = n - 1
    BY <1>2, <1>3
  <2>4. \A k \in 1 .. n - 1 : Append(Front(w), w[n - 1])[k] = w[k]
    BY <1>6, <2>2, <2>3
  <2>5. QED BY <1>1, <1>4, <2>1, <2>2, <2>3, <2>4, SeqEqual
<1>12. QED BY <1>1, <1>9, <1>10, <1>11 DEF Yes, w

-----------------------------------------------------------------------------
(* Operands.                                                               *)

AllOperands == Operands \cup UNION {{pair[1], pair[2]} : pair \in Pairs}

\* In the shell: where a path without a drive goes on from.
Home ==
    phase = "shell" =>
        /\ cwd.drive \in Letters
        /\ cwd.path \in Seq(Clean) \ {<< >>} /\ cwd.path[1] = NoName
        /\ Way(cwd.path) \in Seq(Names)

\* NoName is no dot; the parts of a path that are kept are names.
LEMMA KeptParts ==
  /\ \A c \in Clean : Kept(c) /\ c \in Parts
  /\ \A c \in Parts : Kept(c) => c \in Clean
  /\ Kept(NoName) /\ NoName \notin Names
<1>1. NoName # "." /\ NoName # ".."
  BY Zenon DEF NoName
<1>2. QED BY <1>1, SysNamesAssumption DEF Clean, Parts, Kept

\* A concatenation begins with what its first part begins with.
LEMMA ConcatHead ==
  ASSUME NEW S, NEW q \in Seq(S) \ {<< >>}, NEW r \in Seq(S)
  PROVE  q \o r \in Seq(S) \ {<< >>} /\ (q \o r)[1] = q[1]
<1>1. /\ q \o r \in Seq(S) /\ Len(q \o r) = Len(q) + Len(r)
      /\ \A i \in 1 .. Len(q) + Len(r) : (q \o r)[i] = IF i <= Len(q) THEN q[i] ELSE r[i - Len(q)]
  BY ConcatProperties
<1>2. Len(q) \in Nat \ {0} /\ Len(r) \in Nat
  BY EmptySeq, LenProperties
<1>3. 1 \in 1 .. Len(q) + Len(r) /\ Len(q) + Len(r) # 0 /\ 1 <= Len(q)
  BY <1>2
<1>4. QED BY <1>1, <1>3, EmptySeq

\* The path that fs_abs_path hands to path_simplify.
LEMMA FullFacts ==
  ASSUME NEW o \in AllOperands, phase = "shell", Home
  PROVE  /\ Full(o) \in Seq(Parts) \ {<< >>} /\ Kept(Full(o)[1])
         /\ Abs(o).drive \in Letters
<1>1. /\ o.drive \in Letters \cup {NoDrive} /\ o.path \in Seq(Parts) \ {<< >>}
      /\ o.drive # NoDrive => Kept(o.path[1])
  BY OperandsAssumption DEF AllOperands, Parts, Kept
<1>2. /\ cwd.drive \in Letters /\ cwd.path[1] = NoName
      /\ cwd.path \in Seq(Parts) \ {<< >>}
  <2>1. Clean \subseteq Parts
    BY KeptParts
  <2>2. QED BY <2>1, SeqMonotonic DEF Home
<1>3. Abs(o).drive \in Letters
  BY <1>1, <1>2 DEF Abs
<1>4. CASE o.drive # NoDrive
  BY <1>1, <1>3, <1>4 DEF Full
<1>5. CASE o.drive = NoDrive
  <2>1. Full(o) = Join(cwd.path, o.path)
    BY <1>5 DEF Full
  <2>2. PICK n \in Nat \ {0} : n = Len(cwd.path)
    BY <1>2, EmptySeq
  <2>3. CASE n > 1 /\ Last(cwd.path) = NoName
    <3>1. /\ Front(cwd.path) \in Seq(Parts) /\ Len(Front(cwd.path)) = n - 1
          /\ \A k \in 1 .. n - 1 : Front(cwd.path)[k] = cwd.path[k]
      BY <1>2, <2>2, Fronts
    <3>2. n - 1 \in Nat \ {0} /\ 1 \in 1 .. n - 1
      BY <2>3
    <3>3. Full(o) = Front(cwd.path) \o o.path
      BY <2>1, <2>2, <2>3 DEF Join
    <3>4. Front(cwd.path) \in Seq(Parts) \ {<< >>} /\ Front(cwd.path)[1] = NoName
      BY <1>2, <3>1, <3>2, EmptySeq
    <3>5. /\ Front(cwd.path) \o o.path \in Seq(Parts) \ {<< >>}
          /\ (Front(cwd.path) \o o.path)[1] = NoName
      BY <1>1, <3>4, ConcatHead
    <3>6. QED BY <1>3, <3>3, <3>5, KeptParts
  <2>4. CASE ~(n > 1 /\ Last(cwd.path) = NoName)
    <3>1. Full(o) = cwd.path \o o.path
      BY <2>1, <2>2, <2>4 DEF Join
    <3>2. cwd.path \o o.path \in Seq(Parts) \ {<< >>} /\ (cwd.path \o o.path)[1] = NoName
      BY <1>1, <1>2, ConcatHead
    <3>3. QED BY <1>3, <3>1, <3>2, KeptParts
  <2>5. QED BY <2>3, <2>4
<1>6. QED BY <1>3, <1>4, <1>5

\* What fs_abs_path returns has neither "." nor "..".
LEMMA AbsFacts ==
  ASSUME NEW o \in AllOperands, phase = "shell", Home
  PROVE  Abs(o).drive \in Letters /\ Abs(o).path \in Seq(Clean) \ {<< >>}
<1> DEFINE p == Full(o)
           buf == Simplify(p).buf
<1>1. p \in Seq(Parts) \ {<< >>} /\ Kept(p[1]) /\ Abs(o).drive \in Letters
  BY FullFacts
<1> HIDE DEF p
<1>2. /\ Simplify(p) \in Cleaned(Parts) /\ buf[1] = p[1]
      /\ \A r \in 2 .. Len(buf) : Kept(buf[r])
  BY <1>1, CleanedComponents
<1> HIDE DEF buf
<1>3. buf \in Seq(Parts) \ {<< >>}
  BY <1>2 DEF Cleaned, buf
<1>4. buf \in Seq(Clean) \ {<< >>}
  <2>1. Len(buf) \in Nat /\ \A r \in 1 .. Len(buf) : buf[r] \in Parts
    BY <1>3, LenProperties, ElementOfSeq
  <2>2. \A r \in 1 .. Len(buf) : Kept(buf[r])
    <3>1. TAKE r \in 1 .. Len(buf)
    <3>2. r = 1 \/ r \in 2 .. Len(buf)
      BY <2>1
    <3>3. QED BY <1>1, <1>2, <3>2
  <2>3. \A r \in 1 .. Len(buf) : buf[r] \in Clean
    BY <2>1, <2>2, KeptParts
  <2>4. buf = [r \in 1 .. Len(buf) |-> buf[r]]
    BY <1>3, LenProperties
  <2>5. buf \in Seq(Clean)
    BY <2>1, <2>3, <2>4, IsASeq
  <2>6. QED BY <1>3, <2>5
<1>5. <<NoName, NoName>> \in Seq(Clean) \ {<< >>}
  BY DEF Clean
<1>6. Abs(o).path = IF buf = <<NoName>> THEN <<NoName, NoName>> ELSE buf
  BY DEF Abs, buf, p
<1>7. QED BY <1>1, <1>4, <1>5, <1>6

-----------------------------------------------------------------------------
(* The inductive invariant.                                                *)

\* An image: a record; formatted ones went through fulfs_format, and what is
\* not there has no sectors.
ImageOK(m) ==
    /\ m = [state |-> m.state, sectors |-> m.sectors, perBlock |-> m.perBlock, tree |-> m.tree]
    /\ m.sectors \in Nat /\ m.perBlock \in 0 .. MaxPerBlock
    /\ \/ m.state = "absent" /\ m.tree = << >> /\ m.sectors = 0
       \/ m.state = "blank" /\ m.tree = << >>
       \/ /\ m.state = "fulfs" /\ IsTree(m.tree)
          /\ m.perBlock \in 1 .. MaxPerBlock /\ Fits(m.sectors, m.perBlock)

ImagesOK ==
    /\ image = [i \in Images |-> image[i]]
    /\ \A i \in Images : ImageOK(image[i])

\* Every device is there once, and no two drives have the same one.
MountsOK ==
    /\ devices \in Seq(Spellings) /\ Len(devices) <= MaxLines
    /\ mount \in [Drives -> 0 .. Len(devices)]
    /\ \A k, l \in 1 .. Len(devices) : devices[k] = devices[l] => k = l
    /\ \A x, y \in Drives : x # y /\ mount[x] # 0 => mount[x] # mount[y]

CwdOK == cwd.drive \in Letters \cup {NoDrive} /\ cwd.path \in Seq(Clean) /\ Home

\* Nothing is open before the shell.
FdsOK ==
    /\ fds \in Seq([file : Objs, drive : Letters, shut : BOOLEAN]) /\ Len(fds) <= FdCount
    /\ files \in [Objs -> 0 .. Len(devices)]
    /\ phase # "shell" => fds = << >>

PhaseOK == phase \in {"off", "config", "shell", "lost"} /\ spoiled \subseteq {"gone", "crossed"}

Inv ==
    /\ ImagesOK /\ MountsOK /\ CwdOK /\ FdsOK /\ PhaseOK
    /\ CwdSound /\ DescriptorsOwn

\* Where a call with a path arrives.
LEMMA ReachFacts ==
  ASSUME Inv, NEW letter \in Letters, Reach(letter) = "goes"
  PROVE  /\ Lower[letter] \in Drives /\ DeviceOf(letter) = mount[Lower[letter]]
         /\ DeviceOf(letter) \in 1 .. Len(devices) /\ ImageAt(letter) \in Images
         /\ image[ImageAt(letter)].state = "fulfs" /\ IsTree(TreeAt(letter))
<1>1. /\ Lower[letter] # NoDrive /\ DeviceOf(letter) # 0
      /\ image[ImageAt(letter)].sectors # 0 /\ image[ImageAt(letter)].state # "blank"
  BY DEF Reach
<1>2. Lower[letter] \in Drives /\ DeviceOf(letter) = mount[Lower[letter]]
  BY <1>1, LettersAssumption DEF DeviceOf
<1>3. DeviceOf(letter) \in 1 .. Len(devices)
  <2>1. mount[Lower[letter]] \in 0 .. Len(devices) /\ Len(devices) \in Nat
    BY <1>2, LenProperties DEF Inv, MountsOK
  <2>2. QED BY <1>1, <1>2, <2>1
<1>4. ImageAt(letter) \in Images
  <2>1. devices[DeviceOf(letter)] \in Spellings
    BY <1>3, ElementOfSeq DEF Inv, MountsOK
  <2>2. QED BY <2>1, ImagesAssumption DEF ImageAt, OnDevice
<1>5. ImageOK(image[ImageAt(letter)])
  BY <1>4 DEF Inv, ImagesOK
<1>6. QED BY <1>1, <1>2, <1>3, <1>4, <1>5 DEF ImageOK, TreeAt

\* The invariant holds before the first run of the program.
LEMMA InitInv == Init => Inv
<1> SUFFICES ASSUME Init PROVE Inv
  OBVIOUS
<1>1. << >> \in Seq(Spellings) /\ << >> \in Seq([file : Objs, drive : Letters, shut : BOOLEAN])
      /\ Len(<< >>) = 0
  OBVIOUS
<1>2. ImagesOK
  <2>1. ImageOK(Absent)
    BY LayoutAssumption DEF ImageOK, Absent
  <2>2. QED BY <2>1 DEF Init, ImagesOK
<1>3. MountsOK
  BY <1>1, CountsAssumption DEF Init, MountsOK
<1>4. CwdOK
  BY DEF Init, CwdOK, Home, NoCwd, Clean
<1>5. FdsOK
  BY <1>1, CountsAssumption DEF Init, FdsOK
<1>6. PhaseOK /\ CwdSound
  BY DEF Init, PhaseOK, CwdSound
<1>7. DescriptorsOwn
  BY DEF Init, DescriptorsOwn
<1>8. QED BY <1>2, <1>3, <1>4, <1>5, <1>6, <1>7 DEF Inv

\* The end of a session, whatever is left of the images.
LEMMA NoSessionInv ==
  ASSUME NoSession, phase' \in {"off", "lost"}, ImagesOK'
  PROVE  Inv'
<1>1. << >> \in Seq(Spellings) /\ << >> \in Seq([file : Objs, drive : Letters, shut : BOOLEAN])
      /\ Len(<< >>) = 0
  OBVIOUS
<1>2. MountsOK'
  BY <1>1, CountsAssumption DEF NoSession, MountsOK
<1>3. CwdOK'
  BY DEF NoSession, CwdOK, Home, NoCwd, Clean
<1>4. FdsOK'
  BY <1>1, CountsAssumption DEF NoSession, FdsOK
<1>5. PhaseOK' /\ CwdSound'
  BY DEF NoSession, PhaseOK, CwdSound
<1>6. DescriptorsOwn'
  BY DEF NoSession, DescriptorsOwn
<1>7. QED BY <1>2, <1>3, <1>4, <1>5, <1>6 DEF Inv

\* The program ends and leaves the images as they are.
LEMMA EndsInv ==
  ASSUME Inv, Ends
  PROVE  Inv'
<1>1. NoSession /\ phase' \in {"off", "lost"}
  BY DEF Ends
<1>2. ImagesOK'
  BY DEF Ends, Inv, ImagesOK
<1>3. QED BY <1>1, <1>2, NoSessionInv

\* The program goes on with memory it never wrote: nothing is kept.
LEMMA LostInv ==
  ASSUME Inv, Lost
  PROVE  Inv'
<1>1. NoSession /\ phase' \in {"off", "lost"}
  BY DEF Lost
<1>2. ImagesOK'
  <2>1. ImageOK(Absent)
    BY LayoutAssumption DEF ImageOK, Absent
  <2>2. QED BY <2>1 DEF Lost, ImagesOK
<1>3. QED BY <1>1, <1>2, NoSessionInv

\* Outside the shell a step that leaves the session alone has to keep the
\* images in order, no more.
LEMMA OutsideInv ==
  ASSUME Inv, phase # "shell", phase' \in {"off", "config"}, UNCHANGED session, ImagesOK'
  PROVE  Inv'
<1>1. MountsOK'
  BY DEF Inv, MountsOK, session
<1>2. CwdOK'
  BY DEF Inv, CwdOK, Home, session
<1>3. FdsOK'
  BY DEF Inv, FdsOK, session
<1>4. PhaseOK' /\ CwdSound'
  BY DEF Inv, PhaseOK, CwdSound, session
<1>5. DescriptorsOwn'
  <2>1. fds' = << >>
    BY DEF Inv, FdsOK, session
  <2>2. QED BY <2>1 DEF DescriptorsOwn
<1>6. QED BY <1>1, <1>2, <1>3, <1>4, <1>5 DEF Inv

\* ft_create_bin_file makes a device without a file system.
LEMMA CreateInv ==
  ASSUME Inv, NEW i \in Images, NEW size \in SizesOf[i], Create(i, size)
  PROVE  Inv'
<1> DEFINE m == [state |-> "blank", sectors |-> size \div SectorBytes, perBlock |-> 0, tree |-> << >>]
<1>1. size \div SectorBytes \in Nat
  <2>1. size \in Nat
    BY ImagesAssumption
  <2>2. QED BY <2>1, LayoutAssumption, Division
<1>2. ImageOK(m)
  BY <1>1, LayoutAssumption DEF ImageOK
<1>3. image' = [image EXCEPT ![i] = m]
  BY DEF Create
<1> HIDE DEF m
<1>4. ImagesOK'
  BY <1>2, <1>3 DEF Inv, ImagesOK
<1>5. QED BY <1>4, OutsideInv DEF Create

\* fulfs_format leaves a root, on a device with room for it.
LEMMA FormatInv ==
  ASSUME Inv, NEW i \in Images, NEW n \in PerBlocksOf[i], Format(i, n)
  PROVE  Inv'
<1> DEFINE m == [state |-> "fulfs", sectors |-> image[i].sectors, perBlock |-> n, tree |-> Bare]
<1>1. ImageOK(image[i]) /\ image = [j \in Images |-> image[j]]
  BY DEF Inv, ImagesOK
<1>2. ImageOK(m)
  BY <1>1, BareIsTree DEF ImageOK, Format
<1>3. image' = [image EXCEPT ![i] = m]
  BY DEF Format
<1> HIDE DEF m
<1>4. ImagesOK'
  BY <1>1, <1>2, <1>3 DEF Inv, ImagesOK
<1>5. QED BY <1>4, OutsideInv DEF Format

\* enter() begins to read config.txt.
LEMMA EnterInv ==
  ASSUME Inv, Enter
  PROVE  Inv'
<1>1. ImagesOK'
  BY DEF Inv, ImagesOK, Enter
<1>2. QED BY <1>1, OutsideInv DEF Enter

\* A line of config.txt: device_add takes a spelling once, and the drive gets
\* the device that was just added.
LEMMA LineInv ==
  ASSUME Inv, NEW line \in Lines, Line(line[1], line[2])
  PROVE  Inv'
<1> DEFINE letter == line[1]
           spelling == line[2]
           n == Len(devices)
<1>1. letter \in Letters /\ spelling \in Spellings
  BY ImagesAssumption
<1> HIDE DEF letter, spelling
<1>2. /\ phase = "config" /\ n < MaxLines /\ spelling \notin Range(devices)
      /\ devices' = Append(devices, spelling)
      /\ mount' = IF Mountable(letter) THEN [mount EXCEPT ![Lower[letter]] = n + 1] ELSE mount
      /\ UNCHANGED <<phase, image, cwd, fds, files, spoiled>>
  BY DEF Line, Addable, letter, spelling
<1>3. /\ devices \in Seq(Spellings) /\ n \in Nat
      /\ mount \in [Drives -> 0 .. n]
      /\ \A k, l \in 1 .. n : devices[k] = devices[l] => k = l
      /\ \A x, y \in Drives : x # y /\ mount[x] # 0 => mount[x] # mount[y]
  BY LenProperties DEF Inv, MountsOK
<1>4. /\ devices' \in Seq(Spellings) /\ Len(devices') = n + 1
      /\ \A k \in 1 .. n : devices'[k] = devices[k]
      /\ devices'[n + 1] = spelling
  BY <1>1, <1>2, <1>3, AppendProperties
<1>5. \A k \in 1 .. n : devices[k] # spelling
  BY <1>2, <1>3, LenProperties DEF Range
<1> HIDE DEF n
<1>6. \A k, l \in 1 .. n + 1 : devices'[k] = devices'[l] => k = l
  <2>1. TAKE k, l \in 1 .. n + 1
  <2>2. (k \in 1 .. n \/ k = n + 1) /\ (l \in 1 .. n \/ l = n + 1)
    BY <1>3
  <2>3. QED BY <1>3, <1>4, <1>5, <2>2
<1>7. /\ mount' \in [Drives -> 0 .. n + 1]
      /\ \A x, y \in Drives : x # y /\ mount'[x] # 0 => mount'[x] # mount'[y]
  <2>1. CASE Mountable(letter)
    <3>1. mount' = [mount EXCEPT ![Lower[letter]] = n + 1] /\ Lower[letter] \in Drives
      BY <1>2, <2>1 DEF Mountable
    <3>2. \A x \in Drives : mount[x] \in 0 .. n /\ mount[x] # n + 1
      BY <1>3
    <3>3. \A x \in Drives : mount'[x] = IF x = Lower[letter] THEN n + 1 ELSE mount[x]
      BY <1>3, <3>1
    <3>4. \A x, y \in Drives : x # y /\ mount'[x] # 0 => mount'[x] # mount'[y]
      BY <1>3, <3>2, <3>3
    <3>5. mount' \in [Drives -> 0 .. n + 1]
      BY <1>3, <3>1
    <3>6. QED BY <3>4, <3>5
  <2>2. CASE ~Mountable(letter)
    BY <1>2, <1>3, <2>2
  <2>3. QED BY <2>1, <2>2
<1>8. MountsOK'
  <2>1. n + 1 <= MaxLines
    BY <1>2, <1>3, CountsAssumption
  <2>2. QED BY <1>4, <1>6, <1>7, <2>1 DEF MountsOK
<1>9. ImagesOK' /\ CwdOK' /\ PhaseOK' /\ CwdSound'
  BY <1>2 DEF Inv, ImagesOK, CwdOK, Home, PhaseOK, CwdSound
<1>10. FdsOK' /\ fds' = << >>
  <2>1. \A x : x \in 0 .. n => x \in 0 .. n + 1
    BY <1>3
  <2>2. files \in [Objs -> 0 .. n] /\ files' = files /\ fds = << >> /\ fds' = fds
    BY <1>2 DEF Inv, FdsOK, n
  <2>3. files' \in [Objs -> 0 .. Len(devices')]
    BY <1>4, <2>1, <2>2
  <2>4. QED BY <1>2, <2>2, <2>3 DEF Inv, FdsOK
<1>11. DescriptorsOwn'
  BY <1>10 DEF DescriptorsOwn
<1>12. QED BY <1>8, <1>9, <1>10, <1>11 DEF Inv

\* The shell begins in the root of drive A.
LEMMA EnterShellInv ==
  ASSUME Inv, EnterShell
  PROVE  Inv'
<1> DEFINE q == <<NoName, NoName>>
<1>1. /\ phase = "config" /\ Reach("A") = "goes" /\ phase' = "shell"
      /\ cwd' = [drive |-> "A", path |-> q]
      /\ UNCHANGED <<image, devices, mount, fds, files, spoiled>>
  BY DEF EnterShell
<1>2. "A" \in Letters
  BY LettersAssumption
<1>3. q \in Seq(Clean) \ {<< >>} /\ q[1] = NoName /\ Len(q) = 2 /\ q[2] = NoName
  BY DEF Clean
<1> HIDE DEF q
<1>4. Way(q) = << >>
  <2>1. /\ Way(q) \in Seq(Clean)
        /\ Len(Way(q)) = IF Len(q) > 1 /\ q[Len(q)] = NoName THEN Len(q) - 2 ELSE Len(q) - 1
    BY <1>3, WayFacts
  <2>2. Len(Way(q)) = 0
    BY <1>3, <2>1
  <2>3. QED BY <2>1, <2>2, EmptySeq
<1>5. cwd'.drive = "A" /\ cwd'.path = q
  BY <1>1
<1>6. CwdOK'
  <2>1. Way(q) \in Seq(Names)
    BY <1>4
  <2>2. QED BY <1>2, <1>3, <1>5, <2>1 DEF CwdOK, Home
<1>7. CwdSound'
  <2>1. IsDir(TreeAt("A"), << >>)
    BY <1>1, <1>2, ReachFacts DEF IsTree
  <2>2. /\ Reach("A")' = Reach("A") /\ TreeAt("A")' = TreeAt("A")
    BY <1>1 DEF Reach, TreeAt, ImageAt, OnDevice, DeviceOf
  <2>3. Reach(cwd.drive)' = "goes" /\ TreeAt(cwd.drive)' = TreeAt("A")
    BY <1>1, <1>5, <2>2 DEF Reach, TreeAt, ImageAt, OnDevice, DeviceOf
  <2>4. QED BY <1>3, <1>4, <1>5, <2>1, <2>3 DEF CwdSound
<1>8. ImagesOK' /\ MountsOK' /\ PhaseOK'
  BY <1>1 DEF Inv, ImagesOK, MountsOK, PhaseOK
<1>9. FdsOK' /\ fds' = << >>
  BY <1>1 DEF Inv, FdsOK
<1>10. DescriptorsOwn'
  BY <1>9 DEF DescriptorsOwn
<1>11. QED BY <1>6, <1>7, <1>8, <1>9, <1>10 DEF Inv

-----------------------------------------------------------------------------
(* The calls with a path.                                                  *)

\* An image on which the names change stays in order.
LEMMA TreeChange ==
  ASSUME ImagesOK, NEW i \in Images, NEW t, image[i].state = "fulfs", IsTree(t),
         image' = [image EXCEPT ![i].tree = t]
  PROVE  /\ ImagesOK'
         /\ \A j \in Images : /\ image'[j].tree = IF j = i THEN t ELSE image[j].tree
                              /\ image'[j].state = image[j].state
                              /\ image'[j].sectors = image[j].sectors
<1>1. image = [j \in Images |-> image[j]] /\ \A j \in Images : ImageOK(image[j])
  BY DEF ImagesOK
<1>2. PICK st, k, b, u : image[i] = [state |-> st, sectors |-> k, perBlock |-> b, tree |-> u]
  BY <1>1 DEF ImageOK
<1> DEFINE m == [state |-> st, sectors |-> k, perBlock |-> b, tree |-> t]
<1>3. [image[i] EXCEPT !.tree = t] = m
  BY <1>2
<1>4. /\ image[i].state = st /\ image[i].sectors = k /\ image[i].perBlock = b
      /\ m.state = st /\ m.sectors = k /\ m.perBlock = b /\ m.tree = t
  BY <1>2
<1> HIDE DEF m
<1>5. \A j \in Images : image'[j] = IF j = i THEN m ELSE image[j]
  BY <1>1, <1>3
<1>6. image' = [j \in Images |-> image'[j]]
  BY <1>1
<1>7. ImageOK(m)
  <2>1. /\ k \in Nat /\ b \in 1 .. MaxPerBlock /\ b \in 0 .. MaxPerBlock
        /\ Fits(k, b) /\ st = "fulfs"
    BY <1>1, <1>4 DEF ImageOK
  <2>2. m = [state |-> m.state, sectors |-> m.sectors, perBlock |-> m.perBlock, tree |-> m.tree]
    BY <1>4 DEF m
  <2>3. QED BY <1>4, <2>1, <2>2 DEF ImageOK
<1>8. ImagesOK'
  BY <1>1, <1>5, <1>6, <1>7 DEF ImagesOK
<1>9. QED BY <1>4, <1>5, <1>8

\* A step in the shell that changes names on one image, and perhaps files and
\* descriptors.
LEMMA NamesInv ==
  ASSUME Inv, phase = "shell", UNCHANGED <<phase, devices, mount, cwd>>,
         NEW i \in Images, NEW t, image[i].state = "fulfs", IsTree(t),
         image' = [image EXCEPT ![i].tree = t],
         FdsOK', DescriptorsOwn', spoiled' \subseteq {"gone", "crossed"},
         "gone" \notin spoiled' =>
             /\ "gone" \notin spoiled
             /\ Reach(cwd.drive) = "goes" /\ ImageAt(cwd.drive) = i => IsDir(t, Way(cwd.path))
  PROVE  Inv'
<1>1. /\ ImagesOK'
      /\ \A j \in Images : /\ image'[j].tree = IF j = i THEN t ELSE image[j].tree
                           /\ image'[j].state = image[j].state
                           /\ image'[j].sectors = image[j].sectors
  BY TreeChange DEF Inv
<1>2. MountsOK' /\ CwdOK' /\ PhaseOK'
  BY DEF Inv, MountsOK, CwdOK, Home, PhaseOK
<1>3. CwdSound'
  <2>1. SUFFICES ASSUME "gone" \notin spoiled'
                 PROVE  /\ Reach(cwd.drive)' = "goes" /\ cwd'.path[1] = NoName
                        /\ IsDir(TreeAt(cwd.drive), Way(cwd.path))'
    BY DEF CwdSound
  <2>2. /\ Reach(cwd.drive) = "goes" /\ cwd.path[1] = NoName
        /\ IsDir(TreeAt(cwd.drive), Way(cwd.path)) /\ cwd.drive \in Letters
    BY <2>1 DEF Inv, CwdSound, CwdOK, Home
  <2>3. ImageAt(cwd.drive) \in Images
    BY <2>2, ReachFacts
  <2>4. /\ ImageAt(cwd.drive)' = ImageAt(cwd.drive)
        /\ DeviceOf(cwd.drive)' = DeviceOf(cwd.drive) /\ cwd' = cwd
    BY DEF ImageAt, OnDevice, DeviceOf
  <2>5. Reach(cwd.drive)' = Reach(cwd.drive)
    BY <1>1, <2>3, <2>4 DEF Reach
  <2>6. TreeAt(cwd.drive)' = IF ImageAt(cwd.drive) = i THEN t ELSE TreeAt(cwd.drive)
    BY <1>1, <2>3, <2>4 DEF TreeAt
  <2>7. IsDir(TreeAt(cwd.drive)', Way(cwd.path))
    BY <2>1, <2>2, <2>6
  <2>8. IsDir(TreeAt(cwd.drive), Way(cwd.path))'
    BY <2>4, <2>7 DEF IsDir, Way
  <2>9. QED BY <2>2, <2>4, <2>5, <2>8
<1>4. QED BY <1>1, <1>2, <1>3 DEF Inv

\* path_dirname returns a path of the same kind.
LEMMA DirnameFacts ==
  ASSUME NEW p \in Seq(Clean) \ {<< >>}
  PROVE  Dirname(p) \in Seq(Clean) \ {<< >>}
<1>1. PICK n \in Nat \ {0} : n = Len(p)
  BY EmptySeq
<1>2. Front(p) \in Seq(Clean) /\ Len(Front(p)) = n - 1
  BY <1>1, Fronts
<1>3. <<NoName>> \in Seq(Clean) \ {<< >>} /\ <<NoName, NoName>> \in Seq(Clean) \ {<< >>}
  BY DEF Clean
<1>4. CASE n = 1
  BY <1>1, <1>3, <1>4 DEF Dirname
<1>5. CASE n # 1
  <2>1. n - 1 \in Nat \ {0}
    BY <1>1, <1>5
  <2>2. Front(p) # << >>
    BY <1>2, <2>1, EmptySeq
  <2>3. QED BY <1>1, <1>2, <1>3, <1>5, <2>2 DEF Dirname
<1>6. QED BY <1>4, <1>5

\* Where dir_add and dir_locate look: an entry under a name, in a directory.
LEMMA SpotFacts ==
  ASSUME NEW a, IsTree(TreeAt(a.drive)), a.path \in Seq(Clean) \ {<< >>},
         Spot(a).parent = "yes", Spot(a).kind # "nameless"
  PROVE  /\ Spot(a).path \in Seq(Names) \ {<< >>}
         /\ IsDir(TreeAt(a.drive), Front(Spot(a).path))
         /\ Spot(a).path \in DOMAIN TreeAt(a.drive) =>
                TreeAt(a.drive)[Spot(a).path] = Spot(a).kind
         /\ Spot(a).path \notin DOMAIN TreeAt(a.drive) => Spot(a).kind = "nothing"
         /\ Spot(a).kind \in {"dir", "file"} => Spot(a).path \in DOMAIN TreeAt(a.drive)
<1> DEFINE t    == TreeAt(a.drive)
           dir  == Dirname(a.path)
           at   == Locate(t, dir)
           name == Basename(a.path)
           p    == Append(at.at, name)
<1>1. /\ Spot(a).parent = IF at.found = "yes" /\ ~IsDir(t, at.at) THEN "aborts" ELSE at.found
      /\ Spot(a).path = p
      /\ Spot(a).kind = IF name = NoName THEN "nameless"
                        ELSE IF p \in DOMAIN t THEN t[p] ELSE "nothing"
  BY DEF Spot
<1>2. dir \in Seq(Clean) \ {<< >>}
  BY DirnameFacts
<1>3. IsTree(t)
  OBVIOUS
<1> HIDE DEF t, dir, name
<1>4. at.found = "yes" /\ IsDir(t, at.at)
  BY <1>1
<1>5. at.at \in Seq(Names)
  <2>1. at.at = Way(dir) /\ Way(dir) \in Seq(Names)
    BY <1>2, <1>3, <1>4, LocateFinds
  <2>2. QED BY <2>1
<1>6. name \in Names
  <2>1. Last(a.path) \in Clean
    BY Fronts
  <2>2. QED BY <1>1, <2>1 DEF Clean, Basename, name
<1> DEFINE w == at.at
<1>7. w \in Seq(Names) /\ IsDir(t, w) /\ p = Append(w, name)
  BY <1>4, <1>5
<1> HIDE DEF w, p, at
<1>8. /\ p \in Seq(Names) /\ Len(p) = Len(w) + 1 /\ Len(w) \in Nat
      /\ \A k \in 1 .. Len(w) : p[k] = w[k]
  BY <1>6, <1>7, AppendProperties, LenProperties
<1>9. p # << >>
  <2>1. Len(p) # 0
    BY <1>8
  <2>2. QED BY <2>1, EmptySeq, <1>8
<1>10. Front(p) = w
  <2>1. /\ Front(p) \in Seq(Names) /\ Len(Front(p)) = Len(p) - 1
        /\ \A k \in 1 .. Len(p) - 1 : Front(p)[k] = p[k]
    BY <1>8, <1>9, Fronts
  <2>2. Len(p) - 1 = Len(w)
    BY <1>8
  <2>3. QED BY <1>7, <1>8, <2>1, <2>2, SeqEqual
<1>11. p \in DOMAIN t => t[p] \in {"dir", "file"}
  BY <1>3, <1>9 DEF IsTree
<1>12. /\ p \in DOMAIN t => t[p] = Spot(a).kind
       /\ p \notin DOMAIN t => Spot(a).kind = "nothing"
  BY <1>1
<1>13. Spot(a).path = p
  BY <1>1
<1>14. QED BY <1>7, <1>8, <1>9, <1>10, <1>11, <1>12, <1>13 DEF t

\* An image that is not mounted twice belongs to one drive.
LEMMA OnceMounted ==
  ASSUME NEW i, ~Twice(i), NEW x \in Mounts(i), NEW y \in Mounts(i)
  PROVE  x = y
<1>1. SUFFICES ASSUME x # y PROVE FALSE
  OBVIOUS
<1>2. IsFiniteSet(Mounts(i))
  BY LettersAssumption, FS_Subset DEF Mounts
<1>3. Cardinality({x, y}) = 2 /\ IsFiniteSet({x, y})
  <2>1. Cardinality({x}) = 1 /\ IsFiniteSet({x})
    BY FS_Singleton
  <2>2. {x, y} = {x} \cup {y} /\ y \notin {x}
    BY <1>1
  <2>3. QED BY <2>1, <2>2, FS_AddElement
<1>4. Cardinality({x, y}) <= Cardinality(Mounts(i)) /\ Cardinality(Mounts(i)) \in Nat
  BY <1>2, FS_Subset, FS_CardinalityType
<1>5. QED BY <1>3, <1>4 DEF Twice

\* A call whose path was cleaned and whose drive has a file system.
Arrives(a) ==
    /\ phase = "shell" /\ a.drive \in Letters /\ a.path \in Seq(Clean) \ {<< >>}
    /\ Reach(a.drive) = "goes"

\* A change of names that spares the current directory, or says that it is gone.
LEMMA RenameInv ==
  ASSUME Inv, phase = "shell", NEW i \in Images, NEW t, NEW labels \in SUBSET {"gone"},
         image[i].state = "fulfs", IsTree(t), Rename(i, t, labels),
         "gone" \notin labels /\ ~Twice(i) /\ Reach(cwd.drive) = "goes" /\ ImageAt(cwd.drive) = i
             /\ IsDir(image[i].tree, Way(cwd.path)) => IsDir(t, Way(cwd.path))
  PROVE  Inv'
<1>1. CASE Lost
  BY <1>1, LostInv
<1>2. CASE /\ ~Twice(i)
           /\ image' = [image EXCEPT ![i].tree = t]
           /\ spoiled' = spoiled \cup labels
           /\ UNCHANGED <<phase, devices, mount, cwd, fds, files>>
  <2>1. FdsOK'
    BY <1>2 DEF Inv, FdsOK
  <2>2. DescriptorsOwn'
    BY <1>2 DEF Inv, DescriptorsOwn, DeviceOf
  <2>3. spoiled' \subseteq {"gone", "crossed"}
    BY <1>2 DEF Inv, PhaseOK
  <2>4. ASSUME "gone" \notin spoiled'
        PROVE  /\ "gone" \notin spoiled
               /\ Reach(cwd.drive) = "goes" /\ ImageAt(cwd.drive) = i => IsDir(t, Way(cwd.path))
    <3>1. "gone" \notin spoiled /\ "gone" \notin labels
      BY <1>2, <2>4
    <3>2. IsDir(TreeAt(cwd.drive), Way(cwd.path))
      BY <3>1 DEF Inv, CwdSound
    <3>3. QED BY <1>2, <3>1, <3>2 DEF TreeAt
  <2>5. QED BY <1>2, <2>1, <2>2, <2>3, <2>4, NamesInv
<1>3. QED BY <1>1, <1>2 DEF Rename

\* fs_chdir: the new current directory was looked up as it is spelled.
LEMMA ChdirInv ==
  ASSUME Inv, NEW a, Arrives(a), Chdir(a)
  PROVE  Inv'
<1> DEFINE t == TreeAt(a.drive)
<1>1. /\ Locate(t, a.path).found = "yes" /\ IsDir(t, Locate(t, a.path).at)
      /\ cwd' = [drive |-> a.drive, path |-> a.path]
      /\ spoiled' = spoiled \ {"gone"}
      /\ UNCHANGED <<phase, image, devices, mount, fds, files>>
  BY DEF Chdir
<1>2. IsTree(t)
  BY ReachFacts DEF Arrives
<1>3. /\ Locate(t, a.path).at = Way(a.path) /\ Way(a.path) \in Seq(Names)
      /\ a.path[1] = NoName
  <2> HIDE DEF t
  <2>1. QED BY <1>1, <1>2, LocateFinds DEF Arrives
<1>4. cwd'.drive = a.drive /\ cwd'.path = a.path
  BY <1>1
<1>5. CwdOK'
  BY <1>3, <1>4 DEF Arrives, CwdOK, Home
<1>6. /\ Reach(a.drive)' = Reach(a.drive) /\ TreeAt(a.drive)' = t
      /\ DeviceOf(a.drive)' = DeviceOf(a.drive)
  <2>1. UNCHANGED a
    BY <1>4
  <2>2. QED BY <1>1 DEF Reach, TreeAt, ImageAt, OnDevice, DeviceOf
<1>7. CwdSound'
  <2>1. Reach(cwd.drive)' = "goes" /\ TreeAt(cwd.drive)' = t
    BY <1>1, <1>4 DEF Reach, TreeAt, ImageAt, OnDevice, DeviceOf, Arrives
  <2>2. IsDir(TreeAt(cwd.drive), Way(cwd.path))'
    BY <1>1, <1>3, <1>4, <2>1 DEF IsDir
  <2>3. QED BY <1>3, <1>4, <2>1, <2>2 DEF CwdSound
<1>8. DescriptorsOwn'
  BY <1>1 DEF Inv, DescriptorsOwn, DeviceOf
<1>9. ImagesOK' /\ MountsOK' /\ FdsOK' /\ PhaseOK'
  BY <1>1 DEF Inv, ImagesOK, MountsOK, FdsOK, PhaseOK
<1>10. QED BY <1>5, <1>7, <1>8, <1>9 DEF Inv

\* fulfs_mkdir, fulfs_link: a new name in a directory.
LEMMA AddInv ==
  ASSUME Inv, NEW a, Arrives(a), NEW kind \in {"dir", "file"},
         Spot(a).parent = "yes", Spot(a).kind = "nothing",
         Rename(ImageAt(a.drive), With(image[ImageAt(a.drive)].tree, Spot(a).path, kind), {})
  PROVE  Inv'
<1> DEFINE i == ImageAt(a.drive)
           t == image[i].tree
           p == Spot(a).path
           u == With(t, p, kind)
<1>1. i \in Images /\ image[i].state = "fulfs" /\ IsTree(t) /\ t = TreeAt(a.drive)
  BY ReachFacts DEF Arrives, TreeAt
<1>2. /\ p \in Seq(Names) \ {<< >>} /\ IsDir(t, Front(p))
      /\ p \in DOMAIN t => t[p] = "nothing"
  BY <1>1, SpotFacts DEF Arrives
<1>3. p \notin DOMAIN t
  BY <1>1, <1>2 DEF IsTree
<1>4. IsTree(u) /\ \A q : IsDir(t, q) => IsDir(u, q)
  <2> HIDE DEF t, p
  <2>1. QED BY <1>1, <1>2, <1>3, WithIsTree
<1>5. Rename(i, u, {}) /\ phase = "shell"
  BY DEF Arrives
<1> HIDE DEF u
<1>6. QED BY <1>1, <1>4, <1>5, RenameInv

\* fulfs_mkdir, with its ways to fail.
LEMMA MkdirInv ==
  ASSUME Inv, NEW a, Arrives(a), Mkdir(a)
  PROVE  Inv'
<1>1. CASE Ends
  BY <1>1, EndsInv
<1>2. CASE Lost
  BY <1>2, LostInv
<1>3. CASE /\ Spot(a).parent = "yes" /\ Spot(a).kind = "nothing"
           /\ Rename(ImageAt(a.drive),
                     With(image[ImageAt(a.drive)].tree, Spot(a).path, "dir"), {})
  BY <1>3, AddInv
<1>4. QED BY <1>1, <1>2, <1>3 DEF Mkdir

\* fs_link and fulfs_link, with their ways to fail.
LEMMA LinkInv ==
  ASSUME Inv, NEW a, Arrives(a), NEW b, b.path \in Seq(Clean) \ {<< >>}, Link(a, b)
  PROVE  Inv'
<1>1. CASE Ends
  BY <1>1, EndsInv
<1>2. CASE Lost
  BY <1>2, LostInv
<1>3. CASE /\ Spot(b).parent = "yes" /\ Spot(b).kind = "nothing"
           /\ Rename(ImageAt(a.drive),
                     With(image[ImageAt(a.drive)].tree, Spot(b).path, "file"), {})
  <2>1. a.drive = b.drive
    BY DEF Link
  <2>2. Arrives(b)
    BY <2>1 DEF Arrives
  <2>3. Rename(ImageAt(b.drive), With(image[ImageAt(b.drive)].tree, Spot(b).path, "file"), {})
    BY <1>3, <2>1
  <2>4. QED BY <1>3, <2>2, <2>3, AddInv
<1>4. QED BY <1>1, <1>2, <1>3 DEF Link

\* What is taken off a tree was there, and nothing was below it.
LEMMA RemoveInv ==
  ASSUME Inv, NEW a, Arrives(a), Spot(a).parent = "yes",
         NEW labels \in SUBSET {"gone"},
         \/ Spot(a).kind = "file"
         \/ Spot(a).kind = "dir" /\ IsEmptyDir(image[ImageAt(a.drive)].tree, Spot(a).path),
         Rename(ImageAt(a.drive), Without(image[ImageAt(a.drive)].tree, Spot(a).path), labels),
         Spot(a).kind = "dir" /\ Way(cwd.path) = Spot(a).path
             /\ DeviceOf(cwd.drive) = DeviceOf(a.drive) => "gone" \in labels
  PROVE  Inv'
<1> DEFINE i == ImageAt(a.drive)
           t == image[i].tree
           p == Spot(a).path
           u == Without(t, p)
<1>1. i \in Images /\ image[i].state = "fulfs" /\ IsTree(t) /\ t = TreeAt(a.drive)
  BY ReachFacts DEF Arrives, TreeAt
<1>2. Spot(a).kind \in {"dir", "file"} /\ Spot(a).kind # "nameless"
  OBVIOUS
<1>3. /\ p \in Seq(Names) \ {<< >>} /\ p \in DOMAIN t /\ t[p] = Spot(a).kind
  BY <1>1, <1>2, SpotFacts DEF Arrives
<1>4. t[p] = "file" \/ IsEmptyDir(t, p)
  BY <1>3
<1>5. IsTree(u) /\ \A q : IsDir(t, q) /\ q # p => IsDir(u, q)
  <2> HIDE DEF t, p
  <2>1. QED BY <1>1, <1>3, <1>4, WithoutIsTree
<1>6. ASSUME "gone" \notin labels, ~Twice(i), Reach(cwd.drive) = "goes",
             ImageAt(cwd.drive) = i, IsDir(t, Way(cwd.path))
      PROVE  Way(cwd.path) # p
  <2>1. CASE Spot(a).kind = "file"
    BY <1>3, <1>6, <2>1 DEF IsDir
  <2>2. CASE Spot(a).kind = "dir"
    <3>1. cwd.drive \in Letters /\ a.drive \in Letters
      BY DEF Inv, CwdOK, Home, Arrives
    <3>2. /\ Lower[cwd.drive] \in Drives /\ DeviceOf(cwd.drive) = mount[Lower[cwd.drive]]
          /\ DeviceOf(cwd.drive) \in 1 .. Len(devices)
      BY <1>6, <3>1, ReachFacts
    <3>3. /\ Lower[a.drive] \in Drives /\ DeviceOf(a.drive) = mount[Lower[a.drive]]
          /\ DeviceOf(a.drive) \in 1 .. Len(devices)
      BY <3>1, ReachFacts DEF Arrives
    <3>4. Lower[cwd.drive] \in Mounts(i) /\ Lower[a.drive] \in Mounts(i)
      <4>1. DeviceOf(cwd.drive) # 0 /\ DeviceOf(a.drive) # 0
        BY <3>2, <3>3
      <4>2. QED BY <1>6, <3>2, <3>3, <4>1 DEF Mounts, ImageAt
    <3>5. Lower[cwd.drive] = Lower[a.drive]
      <4> HIDE DEF i
      <4>1. QED BY <1>6, <3>4, OnceMounted
    <3>6. DeviceOf(cwd.drive) = DeviceOf(a.drive)
      BY <3>2, <3>3, <3>5
    <3>7. QED BY <1>6, <2>2, <3>6
  <2>3. QED BY <1>2, <2>1, <2>2
<1>7. /\ Rename(i, u, labels) /\ phase = "shell"
      /\ "gone" \notin labels /\ ~Twice(i) /\ Reach(cwd.drive) = "goes" /\ ImageAt(cwd.drive) = i
             /\ IsDir(image[i].tree, Way(cwd.path)) => IsDir(u, Way(cwd.path))
  BY <1>5, <1>6 DEF Arrives
<1> HIDE DEF u
<1>8. QED BY <1>1, <1>5, <1>7, RenameInv

\* fulfs_rmdir: the current directory goes only if it is noted.
LEMMA RmdirInv ==
  ASSUME Inv, NEW a, Arrives(a), Rmdir(a)
  PROVE  Inv'
<1> DEFINE i    == ImageAt(a.drive)
           here == DeviceOf(cwd.drive) = DeviceOf(a.drive) /\ Way(cwd.path) = Spot(a).path
           labels == IF here THEN {"gone"} ELSE {}
<1>1. CASE Ends
  BY <1>1, EndsInv
<1>2. CASE Lost
  BY <1>2, LostInv
<1>3. CASE /\ Spot(a).parent = "yes" /\ Spot(a).kind = "dir"
           /\ IsEmptyDir(image[i].tree, Spot(a).path)
           /\ Rename(i, Without(image[i].tree, Spot(a).path), labels)
  <2>1. ASSUME here PROVE "gone" \in labels
    <3>1. labels = {"gone"}
      BY <2>1
    <3>2. QED BY <3>1
  <2>2. Spot(a).kind = "dir" /\ Way(cwd.path) = Spot(a).path
            /\ DeviceOf(cwd.drive) = DeviceOf(a.drive) => "gone" \in labels
    BY <2>1
  <2>3. labels \in SUBSET {"gone"}
    OBVIOUS
  <2> HIDE DEF labels
  <2>4. QED BY <1>3, <2>2, <2>3, RemoveInv
<1>4. QED BY <1>1, <1>2, <1>3 DEF Rmdir

\* fulfs_unlink takes a file, so no current directory.
LEMMA UnlinkInv ==
  ASSUME Inv, NEW a, Arrives(a), Unlink(a)
  PROVE  Inv'
<1>1. CASE Ends
  BY <1>1, EndsInv
<1>2. CASE Lost
  BY <1>2, LostInv
<1>3. CASE /\ Spot(a).parent = "yes" /\ Spot(a).kind = "file"
           /\ Rename(ImageAt(a.drive), Without(image[ImageAt(a.drive)].tree, Spot(a).path), {})
  <2> DEFINE none == {}
  <2>1. /\ none \in SUBSET {"gone"} /\ Spot(a).kind # "dir"
        /\ Rename(ImageAt(a.drive), Without(image[ImageAt(a.drive)].tree, Spot(a).path), none)
    BY <1>3
  <2> HIDE DEF none
  <2>2. QED BY <1>3, <2>1, RemoveInv
<1>4. QED BY <1>1, <1>2, <1>3 DEF Unlink

-----------------------------------------------------------------------------
(* The calls with a descriptor.                                            *)

\* fs_open: the file in memory was free, so no open descriptor had it.
LEMMA OpenInv ==
  ASSUME Inv, NEW o, NEW a, Arrives(a), a.drive = Abs(o).drive, Open(o, a)
  PROVE  Inv'
<1>1. CASE Ends
  BY <1>1, EndsInv
<1>2. CASE Lost
  BY <1>2, LostInv
<1>3. ASSUME Len(fds) < FdCount, Spot(a).parent = "yes", Spot(a).kind \in {"file", "nothing"},
             NEW f \in Objs, files[f] = 0,
             files' = [files EXCEPT ![f] = DeviceOf(a.drive)],
             fds' = Append(fds, Descriptor(f, o)),
             image' = [image EXCEPT ![ImageAt(a.drive)].tree = With(@, Spot(a).path, "file")],
             UNCHANGED <<phase, devices, mount, cwd, spoiled>>
      PROVE  Inv'
  <2> DEFINE i == ImageAt(a.drive)
             t == image[i].tree
             p == Spot(a).path
             u == With(t, p, "file")
             d == [file |-> f, drive |-> a.drive, shut |-> FALSE]
             n == Len(fds)
  <2>1. i \in Images /\ image[i].state = "fulfs" /\ IsTree(t) /\ t = TreeAt(a.drive)
    BY ReachFacts DEF Arrives, TreeAt
  <2>2. /\ p \in Seq(Names) \ {<< >>} /\ IsDir(t, Front(p))
        /\ p \in DOMAIN t => t[p] = Spot(a).kind
    BY <1>3, <2>1, SpotFacts DEF Arrives
  <2>3. p \in DOMAIN t => t[p] = "file"
    BY <1>3, <2>1, <2>2 DEF IsTree
  <2>4. IsTree(u) /\ \A q : IsDir(t, q) => IsDir(u, q)
    <3> HIDE DEF t, p
    <3>1. QED BY <2>1, <2>2, <2>3, WithIsTree
  <2>5. image' = [image EXCEPT ![i].tree = u]
    <3>1. image = [j \in Images |-> image[j]] /\ ImageOK(image[i])
      BY <2>1 DEF Inv, ImagesOK
    <3>2. QED BY <1>3, <2>1, <3>1
  <2>6. fds' = Append(fds, d)
    BY <1>3 DEF Descriptor
  <2>7. /\ DeviceOf(a.drive) \in 1 .. Len(devices)
        /\ DeviceOf(a.drive)' = DeviceOf(a.drive)
    <3>1. DeviceOf(a.drive) \in 1 .. Len(devices)
      BY ReachFacts DEF Arrives
    <3>2. QED BY <1>3, <3>1 DEF DeviceOf
  <2>8. /\ fds \in Seq([file : Objs, drive : Letters, shut : BOOLEAN])
        /\ files \in [Objs -> 0 .. Len(devices)] /\ n \in Nat
        /\ d \in [file : Objs, drive : Letters, shut : BOOLEAN]
    BY <1>3, LenProperties DEF Inv, FdsOK, Arrives
  <2>9. /\ fds' \in Seq([file : Objs, drive : Letters, shut : BOOLEAN])
        /\ Len(fds') = n + 1 /\ DOMAIN fds' = 1 .. n + 1
        /\ \A k \in 1 .. n : fds'[k] = fds[k]
        /\ fds'[n + 1] = d
    <3> HIDE DEF d
    <3>1. QED BY <2>6, <2>8, AppendProperties, LenProperties
  <2>10. /\ files' \in [Objs -> 0 .. Len(devices)]
         /\ files'[f] = DeviceOf(a.drive)
         /\ \A g \in Objs \ {f} : files'[g] = files[g]
    BY <1>3, <2>7, <2>8
  <2>11. FdsOK'
    <3>1. n + 1 <= FdCount
      BY <1>3, <2>8, CountsAssumption
    <3>2. phase' = "shell" /\ Len(devices') = Len(devices)
      BY <1>3 DEF Arrives
    <3>3. QED BY <2>9, <2>10, <3>1, <3>2 DEF FdsOK
  <2>12. DescriptorsOwn'
    <3>1. SUFFICES ASSUME "crossed" \notin spoiled
                   PROVE  \A k \in 1 .. n + 1 :
                            ~fds'[k].shut =>
                              /\ files'[fds'[k].file] # 0
                              /\ files'[fds'[k].file] = DeviceOf(fds[k].drive)'
                              /\ \A m \in 1 .. n + 1 \ {k} :
                                    fds'[m].shut \/ fds'[m].file # fds'[k].file
      BY <1>3, <2>9 DEF DescriptorsOwn
    <3>2. \A k \in 1 .. n : ~fds[k].shut =>
              /\ files[fds[k].file] # 0
              /\ files[fds[k].file] = DeviceOf(fds[k].drive)
              /\ \A m \in 1 .. n \ {k} : fds[m].shut \/ fds[m].file # fds[k].file
      BY <2>8, <3>1, LenProperties DEF Inv, DescriptorsOwn
    <3>3. \A k \in 1 .. n : fds[k] \in [file : Objs, drive : Letters, shut : BOOLEAN]
      BY <2>8, ElementOfSeq
    <3>4. \A k \in 1 .. n : ~fds[k].shut => fds[k].file \in Objs \ {f}
      BY <1>3, <3>2, <3>3
    <3>5. ASSUME NEW k \in 1 .. n + 1, ~fds'[k].shut
          PROVE  /\ files'[fds'[k].file] # 0
                 /\ files'[fds'[k].file] = DeviceOf(fds[k].drive)'
                 /\ \A m \in 1 .. n + 1 \ {k} :
                       fds'[m].shut \/ fds'[m].file # fds'[k].file
      <4>1. CASE k \in 1 .. n
        <5>1. fds'[k] = fds[k] /\ ~fds[k].shut /\ fds[k].file \in Objs \ {f}
          BY <2>9, <3>4, <3>5, <4>1
        <5>2. DeviceOf(fds[k].drive)' = DeviceOf(fds[k].drive)
          <6>1. fds'[k].drive = fds[k].drive
            BY <5>1
          <6>2. QED BY <1>3, <6>1 DEF DeviceOf
        <5>3. \A m \in 1 .. n + 1 \ {k} : fds'[m].shut \/ fds'[m].file # fds'[k].file
          <6>1. TAKE m \in 1 .. n + 1 \ {k}
          <6>2. m \in 1 .. n \/ m = n + 1
            BY <2>8
          <6>3. QED BY <2>9, <3>2, <4>1, <5>1, <6>2
        <5>4. QED BY <2>10, <3>2, <4>1, <5>1, <5>2, <5>3
      <4>2. CASE k = n + 1
        <5>1. fds'[k] = d /\ fds'[k].file = f /\ fds'[k].drive = a.drive
          BY <2>9, <4>2
        <5>2. DeviceOf(fds[k].drive)' = DeviceOf(a.drive)
          BY <1>3, <5>1 DEF DeviceOf
        <5>3. files'[f] # 0
          BY <2>7, <2>10
        <5>4. \A m \in 1 .. n + 1 \ {k} : fds'[m].shut \/ fds'[m].file # f
          <6>1. TAKE m \in 1 .. n + 1 \ {k}
          <6>2. m \in 1 .. n
            BY <2>8, <4>2
          <6>3. QED BY <2>9, <3>4, <6>2
        <5>5. QED BY <2>10, <5>1, <5>2, <5>3, <5>4
      <4>3. QED BY <2>8, <4>1, <4>2
    <3>6. QED BY <3>5
  <2>13. ASSUME "gone" \notin spoiled'
         PROVE  /\ "gone" \notin spoiled
                /\ Reach(cwd.drive) = "goes" /\ ImageAt(cwd.drive) = i => IsDir(u, Way(cwd.path))
    <3>1. "gone" \notin spoiled /\ IsDir(TreeAt(cwd.drive), Way(cwd.path))
      BY <1>3, <2>13 DEF Inv, CwdSound, Arrives
    <3>2. QED BY <2>4, <3>1 DEF TreeAt
  <2>14. spoiled' \subseteq {"gone", "crossed"}
    BY <1>3 DEF Inv, PhaseOK
  <2>15. phase = "shell" /\ UNCHANGED <<phase, devices, mount, cwd>>
    BY <1>3 DEF Arrives
  <2> HIDE DEF u, i
  <2>16. QED BY <2>1, <2>4, <2>5, <2>11, <2>12, <2>13, <2>14, <2>15, NamesInv DEF i
<1>4. QED BY <1>1, <1>2, <1>3 DEF Open

\* fs_close: what is freed belonged to no other open descriptor, unless this
\* one was closed before.
LEMMA CloseInv ==
  ASSUME Inv, phase = "shell", NEW k \in DOMAIN fds, Close(k)
  PROVE  Inv'
<1> DEFINE n == Len(fds)
           D == [file : Objs, drive : Letters, shut : BOOLEAN]
<1>1. fds \in Seq(D) /\ n \in Nat /\ DOMAIN fds = 1 .. n /\ files \in [Objs -> 0 .. Len(devices)]
  BY LenProperties DEF Inv, FdsOK
<1>2. \A m \in 1 .. n : fds[m] \in D
  BY <1>1, ElementOfSeq
<1>3. /\ files' = [files EXCEPT ![fds[k].file] = 0]
      /\ fds' = [fds EXCEPT ![k].shut = TRUE]
      /\ spoiled' = spoiled \cup (IF fds[k].shut THEN {"crossed"} ELSE {})
      /\ UNCHANGED <<phase, image, devices, mount, cwd>>
  BY DEF Close
<1> DEFINE d == [fds[k] EXCEPT !.shut = TRUE]
<1>4. d \in D /\ d.file = fds[k].file /\ d.drive = fds[k].drive /\ d.shut
  <2>1. fds[k] \in D
    BY <1>1, <1>2
  <2>2. QED BY <2>1
<1>5. fds' = [fds EXCEPT ![k] = d]
  BY <1>3
<1> HIDE DEF d, D
<1>7. fds' \in Seq(D) /\ Len(fds') = n /\ DOMAIN fds' = 1 .. n
      /\ \A m \in 1 .. n : fds'[m] = IF m = k THEN d ELSE fds[m]
  <2>1. fds' \in Seq(D) /\ Len(fds') = n
    BY <1>1, <1>4, <1>5, ExceptSeq
  <2>2. QED BY <1>1, <1>5, <2>1, LenProperties
<1>8. FdsOK'
  <2>1. files' \in [Objs -> 0 .. Len(devices)]
    <3>1. 0 \in 0 .. Len(devices)
      BY LenProperties DEF Inv, MountsOK
    <3>2. QED BY <1>1, <1>3, <3>1
  <2>2. n <= FdCount
    BY DEF Inv, FdsOK
  <2>3. QED BY <1>3, <1>7, <2>1, <2>2 DEF FdsOK, D
<1>9. DescriptorsOwn'
  <2>1. CASE "crossed" \in spoiled'
    BY <2>1 DEF DescriptorsOwn
  <2>2. CASE "crossed" \notin spoiled'
    <3>1. ~fds[k].shut /\ "crossed" \notin spoiled
      BY <1>3, <2>2
    <3>2. \A m \in 1 .. n : ~fds[m].shut =>
              /\ files[fds[m].file] # 0
              /\ files[fds[m].file] = DeviceOf(fds[m].drive)
              /\ \A l \in 1 .. n \ {m} : fds[l].shut \/ fds[l].file # fds[m].file
      BY <1>1, <3>1 DEF Inv, DescriptorsOwn
    <3>3. ASSUME NEW m \in 1 .. n, ~fds'[m].shut
          PROVE  /\ files'[fds'[m].file] # 0
                 /\ files'[fds'[m].file] = DeviceOf(fds[m].drive)'
                 /\ \A l \in 1 .. n \ {m} : fds'[l].shut \/ fds'[l].file # fds'[m].file
      <4>1. m # k /\ fds'[m] = fds[m] /\ ~fds[m].shut
        BY <1>4, <1>7, <3>3
      <4>2. fds[m].file # fds[k].file /\ fds[m].file \in Objs
        BY <1>1, <1>2, <3>1, <3>2, <4>1 DEF D
      <4>3. files'[fds[m].file] = files[fds[m].file]
        BY <1>1, <1>3, <4>2
      <4>4. DeviceOf(fds[m].drive)' = DeviceOf(fds[m].drive)
        <5>1. fds'[m].drive = fds[m].drive
          BY <4>1
        <5>2. QED BY <1>3, <5>1 DEF DeviceOf
      <4>5. \A l \in 1 .. n \ {m} : fds'[l].shut \/ fds'[l].file # fds'[m].file
        <5>1. TAKE l \in 1 .. n \ {m}
        <5>2. CASE l = k
          BY <1>4, <1>7, <5>2
        <5>3. CASE l # k
          BY <1>7, <3>2, <4>1, <5>3
        <5>4. QED BY <5>2, <5>3
      <4>6. QED BY <3>2, <4>1, <4>3, <4>4, <4>5
    <3>4. QED BY <1>7, <3>3 DEF DescriptorsOwn
  <2>3. QED BY <2>1, <2>2
<1>10. CwdSound'
  <2>1. "gone" \in spoiled' <=> "gone" \in spoiled
    BY <1>3
  <2>2. /\ Reach(cwd.drive)' = Reach(cwd.drive) /\ TreeAt(cwd.drive)' = TreeAt(cwd.drive)
        /\ cwd' = cwd /\ phase' = phase
    BY <1>3 DEF Reach, TreeAt, ImageAt, OnDevice, DeviceOf
  <2>3. IsDir(TreeAt(cwd.drive), Way(cwd.path))' <=> IsDir(TreeAt(cwd.drive), Way(cwd.path))
    BY <2>2 DEF IsDir, Way
  <2>4. QED BY <2>1, <2>2, <2>3 DEF Inv, CwdSound
<1>11. ImagesOK' /\ MountsOK' /\ CwdOK'
  BY <1>3 DEF Inv, ImagesOK, MountsOK, CwdOK, Home
<1>12. PhaseOK'
  <2>1. spoiled' \subseteq {"gone", "crossed"}
    BY <1>3 DEF Inv, PhaseOK
  <2>2. QED BY <1>3, <2>1 DEF Inv, PhaseOK
<1>13. QED BY <1>8, <1>9, <1>10, <1>11, <1>12 DEF Inv

-----------------------------------------------------------------------------
(* The invariant holds.                                                    *)

\* A step that changes no variable.
LEMMA StutterInv ==
  ASSUME Inv, UNCHANGED vars
  PROVE  Inv'
<1>1. /\ ImagesOK' /\ MountsOK' /\ CwdOK' /\ FdsOK' /\ PhaseOK'
  BY DEF Inv, vars, session, ImagesOK, MountsOK, CwdOK, Home, FdsOK, PhaseOK
<1>2. CwdSound' /\ DescriptorsOwn'
  <2>1. /\ Reach(cwd.drive)' = Reach(cwd.drive) /\ TreeAt(cwd.drive)' = TreeAt(cwd.drive)
        /\ \A k \in DOMAIN fds : DeviceOf(fds[k].drive)' = DeviceOf(fds[k].drive)
    BY DEF vars, session, Reach, TreeAt, ImageAt, OnDevice, DeviceOf
  <2>2. IsDir(TreeAt(cwd.drive), Way(cwd.path))' <=> IsDir(TreeAt(cwd.drive), Way(cwd.path))
    BY <2>1 DEF IsDir, Way, vars, session
  <2>3. CwdSound'
    BY <2>1, <2>2 DEF Inv, CwdSound, vars, session
  <2>4. DescriptorsOwn'
    BY <2>1 DEF Inv, DescriptorsOwn, vars, session
  <2>5. QED BY <2>3, <2>4
<1>3. QED BY <1>1, <1>2 DEF Inv

\* Create, format, enter, exit.
LEMMA ProgramInv ==
  ASSUME Inv, Program
  PROVE  Inv'
<1>1. CASE \E i \in Images : \E size \in SizesOf[i] : Create(i, size)
  BY <1>1, CreateInv
<1>2. CASE \E i \in Images : \E n \in PerBlocksOf[i] : Format(i, n)
  BY <1>2, FormatInv
<1>3. CASE Enter
  BY <1>3, EnterInv
<1>4. CASE \E line \in Lines : Line(line[1], line[2])
  BY <1>4, LineInv
<1>5. CASE \E line \in Lines : LineDies(line[2])
  BY <1>5, EndsInv DEF LineDies
<1>6. CASE EnterShell
  BY <1>6, EnterShellInv
<1>7. CASE EnterShellFails
  BY <1>7, EndsInv, LostInv DEF EnterShellFails
<1>8. CASE Exit
  BY <1>8, EndsInv DEF Exit
<1>9. QED BY <1>1, <1>2, <1>3, <1>4, <1>5, <1>6, <1>7, <1>8 DEF Program

\* Every call with one path.
LEMMA PathCallInv ==
  ASSUME Inv, phase = "shell", NEW o \in Operands, NEW a, a = Abs(o), PathCall(o, a)
  PROVE  Inv'
<1>1. a.drive \in Letters /\ a.path \in Seq(Clean) \ {<< >>}
  BY AbsFacts DEF Inv, CwdOK, AllOperands
<1>2. CASE CallOutside(a)
  BY <1>2, EndsInv, LostInv DEF CallOutside
<1>3. CASE Inside(a)
  <2>1. Arrives(a) /\ a.drive = Abs(o).drive
    BY <1>1, <1>3 DEF Arrives, Inside, ReachOf
  <2>2. CASE StatAborts(a)
    BY <2>2, EndsInv DEF StatAborts
  <2>3. CASE Chdir(a)
    BY <2>1, <2>3, ChdirInv
  <2>4. CASE Mkdir(a)
    BY <2>1, <2>4, MkdirInv
  <2>5. CASE Rmdir(a)
    BY <2>1, <2>5, RmdirInv
  <2>6. CASE Unlink(a)
    BY <2>1, <2>6, UnlinkInv
  <2>7. CASE Open(o, a)
    BY <2>1, <2>7, OpenInv
  <2>8. QED BY <1>2, <2>2, <2>3, <2>4, <2>5, <2>6, <2>7 DEF PathCall
<1>4. QED BY <1>2, <1>3 DEF PathCall

\* The invariant is inductive.
LEMMA NextInv ==
  ASSUME Inv, [Next]_vars
  PROVE  Inv'
<1>1. CASE UNCHANGED vars
  BY <1>1, StutterInv
<1>2. CASE Program
  BY <1>2, ProgramInv
<1>3. CASE Prompt /\ \E o \in Operands : LET a == Abs(o) IN PathCall(o, a)
  <2>1. PICK o \in Operands : PathCall(o, Abs(o))
    BY <1>3
  <2>2. PICK a : a = Abs(o)
    OBVIOUS
  <2>3. PathCall(o, a)
    BY <2>1, <2>2
  <2>4. phase = "shell"
    BY <1>3 DEF Prompt
  <2>5. QED BY <2>2, <2>3, <2>4, PathCallInv
<1>4. CASE Prompt /\ \E pair \in Pairs : Inside(Abs(pair[1])) /\ Link(Abs(pair[1]), Abs(pair[2]))
  <2>1. PICK pair \in Pairs : Inside(Abs(pair[1])) /\ Link(Abs(pair[1]), Abs(pair[2]))
    BY <1>4
  <2>2. PICK a, b : a = Abs(pair[1]) /\ b = Abs(pair[2])
    OBVIOUS
  <2>3. Inside(a) /\ Link(a, b)
    BY <2>1, <2>2
  <2>4. phase = "shell"
    BY <1>4 DEF Prompt
  <2>5. pair[1] \in AllOperands /\ pair[2] \in AllOperands
    BY DEF AllOperands
  <2>6. /\ a.drive \in Letters /\ a.path \in Seq(Clean) \ {<< >>}
        /\ b.path \in Seq(Clean) \ {<< >>}
    BY <2>2, <2>4, <2>5, AbsFacts DEF Inv, CwdOK
  <2>7. Arrives(a)
    BY <2>3, <2>4, <2>6 DEF Arrives, Inside, ReachOf
  <2>8. QED BY <2>3, <2>6, <2>7, LinkInv
<1>5. CASE Prompt /\ \E k \in DOMAIN fds : Close(k) \/ UseFreed(k)
  BY <1>5, CloseInv, LostInv DEF Prompt, UseFreed
<1>6. QED BY <1>1, <1>2, <1>3, <1>4, <1>5 DEF Next

\* In every reachable state images, mounts, the current directory and the
\* descriptors are in order: the invariant from which the properties below
\* follow.
THEOREM Invariance == Spec => []Inv
<1>1. QED BY InitInv, NextInv, PTL DEF Spec

-----------------------------------------------------------------------------
(* The properties the run checks.                                          *)

\* The variables have their types, and on a formatted image every name is in a
\* directory that is still there, after every sequence of the calls of fs.c.
THEOREM TypeCorrect == Spec => []TypeOK
<1>1. ASSUME Inv PROVE TypeOK
  <2>1. Clean = Names \cup {NoName}
    BY DEF Clean
  <2>2. \A i \in Images :
          /\ image[i].sectors \in Nat /\ image[i].perBlock \in 0 .. MaxPerBlock
          /\ \/ image[i].state \in {"absent", "blank"} /\ image[i].tree = << >>
             \/ image[i].state = "fulfs" /\ IsTree(image[i].tree)
    BY <1>1 DEF Inv, ImagesOK, ImageOK
  <2>3. QED BY <1>1, <2>1, <2>2 DEF Inv, MountsOK, CwdOK, FdsOK, PhaseOK, TypeOK
<1>2. QED BY <1>1, Invariance, PTL

\* The current directory stays an existing directory of a mounted drive until
\* rmdir takes it away (fs_chdir against fs_rmdir, fs_unlink, fs_open).
THEOREM CwdIsSound == Spec => []CwdSound
<1>1. Inv => CwdSound
  BY DEF Inv
<1>2. QED BY <1>1, Invariance, PTL

\* A descriptor has a file of its own until one is closed twice (fs_open,
\* fs_close).
THEOREM DescriptorsDoOwn == Spec => []DescriptorsOwn
<1>1. Inv => DescriptorsOwn
  BY DEF Inv
<1>2. QED BY <1>1, Invariance, PTL

\* What fulfs_format accepts has room for every inode and every block, for
\* every device size and every block size up to the limit.
THEOREM LayoutIsSound == Spec => []LayoutSound
<1>1. ASSUME Inv PROVE LayoutSound
  <2>1. SUFFICES ASSUME NEW i \in Images, image[i].state = "fulfs"
        PROVE LET sb == Superblock(image[i].sectors, image[i].perBlock)
                  Place(no) == InodePlace(sb, no)
              IN  /\ \A no \in 0 .. InodeCount - 1 :
                        /\ 0 < Place(no).block /\ Place(no).block < sb.dataBlock
                        /\ Place(no).offset + InodeBytes <= BlockBytes(sb.perBlock)
                        /\ \A other \in 0 .. no - 1 :
                              Place(other).block = Place(no).block =>
                                  Place(other).offset + InodeBytes <= Place(no).offset
                  /\ DataBlocks(sb) > 0
                  /\ sb.totalSize = DataBlocks(sb) * BlockBytes(sb.perBlock)
                  /\ \A block \in 0 .. BlockCount(sb) - 1 :
                        SectorsOf(sb, block) \subseteq 0 .. image[i].sectors - 1
    BY DEF LayoutSound
  <2> DEFINE perBlock == image[i].perBlock
             sectors  == image[i].sectors
  <2>2. perBlock \in 1 .. MaxPerBlock /\ sectors \in Nat /\ Fits(sectors, perBlock)
    BY <1>1, <2>1 DEF Inv, ImagesOK, ImageOK
  <2> HIDE DEF perBlock, sectors
  <2>3. LET sb == Superblock(sectors, perBlock)
            Place(no) == InodePlace(sb, no)
        IN  \A no \in 0 .. InodeCount - 1 :
              /\ 0 < Place(no).block /\ Place(no).block < sb.dataBlock
              /\ Place(no).offset + InodeBytes <= BlockBytes(sb.perBlock)
              /\ \A other \in 0 .. no - 1 :
                    Place(other).block = Place(no).block =>
                        Place(other).offset + InodeBytes <= Place(no).offset
    BY <2>2, InodesApart
  <2>4. LET sb == Superblock(sectors, perBlock)
        IN  /\ DataBlocks(sb) > 0
            /\ sb.totalSize = DataBlocks(sb) * BlockBytes(sb.perBlock)
            /\ \A block \in 0 .. BlockCount(sb) - 1 :
                  SectorsOf(sb, block) \subseteq 0 .. sectors - 1
    BY <2>2, BlocksInside
  <2>5. QED BY <2>3, <2>4 DEF perBlock, sectors
<1>2. QED BY <1>1, Invariance, PTL

\* path_simplify stays in its buffer and keeps just the components that "."
\* and ".." do not call off, whatever current directory and path fs_abs_path
\* hands to it, unless the path goes on after it climbed above the root.
THEOREM CleanedIsExact == Spec => []CleanedExact
<1>1. ASSUME Inv PROVE CleanedExact
  <2>1. SUFFICES ASSUME phase = "shell", NEW o \in Operands, ~GoesOn(Full(o))
        PROVE  /\ Simplify(Full(o)).state # "overrun"
               /\ Simplify(Full(o)).buf = Survivors(Full(o))
    BY DEF CleanedExact
  <2> DEFINE p == Full(o)
  <2>2. p \in Seq(Parts) \ {<< >>}
    BY <1>1, <2>1, FullFacts DEF Inv, CwdOK, AllOperands
  <2>3. ~GoesOn(p)
    BY <2>1
  <2> HIDE DEF p
  <2>4. Simplify(p).state # "overrun" /\ Simplify(p).buf = Survivors(p)
    BY <2>2, <2>3, CleaningIsExact
  <2>5. QED BY <2>4 DEF p
<1>2. QED BY <1>1, Invariance, PTL

-----------------------------------------------------------------------------
(* A walk, directory by directory, against path_simplify and one lookup.   *)

\* The recursion in Walked.
LEMMA WalkingRuns ==
  ASSUME NEW t, NEW o, Len(Steps(o)) \in Nat
  PROVE  /\ Walking(t, o)[0] = Yes(IF o.drive = NoDrive THEN Way(cwd.path) ELSE << >>)
         /\ \A k \in 1 .. Len(Steps(o)) :
               Walking(t, o)[k] = StepTo(t, Walking(t, o)[k - 1], Steps(o)[k])
<1> DEFINE last == Len(Steps(o))
           start == Yes(IF o.drive = NoDrive THEN Way(cwd.path) ELSE << >>)
           Turn(f, k) == IF k = 0 THEN start ELSE StepTo(t, f[k - 1], Steps(o)[k])
           Runs(f, n) == f = [k \in 0 .. n |-> Turn(f, k)]
           can == {n \in 0 .. last : \E f : Runs(f, n)}
<1>1. 0 \in can
  <2> DEFINE f0 == [k \in 0 .. 0 |-> start]
  <2>1. Runs(f0, 0)
    OBVIOUS
  <2>2. \E f : Runs(f, 0)
    <3> HIDE DEF Runs, f0
    <3>1. QED BY <2>1
  <2>3. QED BY <2>2
<1>2. \A n \in 0 .. last - 1 : n \in can => n + 1 \in can
  <2>1. TAKE n \in 0 .. last - 1
  <2>2. HAVE n \in can
  <2>3. PICK f : Runs(f, n)
    BY <2>2
  <2> DEFINE next == StepTo(t, f[n], Steps(o)[n + 1])
             g == [k \in 0 .. n + 1 |-> IF k = n + 1 THEN next ELSE f[k]]
  <2>4. \A j \in 0 .. n : f[j] = Turn(f, j)
    <3> HIDE DEF Turn
    <3>1. QED BY <2>3
  <2>5. \A j \in 0 .. n : g[j] = f[j]
    OBVIOUS
  <2>6. g[n + 1] = next
    <3> HIDE DEF next
    <3>1. QED OBVIOUS
  <2>7. \A k \in 0 .. n + 1 : g[k] = Turn(g, k)
    <3> HIDE DEF g
    <3>1. TAKE k \in 0 .. n + 1
    <3>2. CASE k = n + 1
      <4>1. k # 0 /\ k - 1 = n /\ n \in 0 .. n
        BY <3>2
      <4>2. QED BY <2>5, <2>6, <3>2, <4>1
    <3>3. CASE k # n + 1
      <4>1. k \in 0 .. n /\ (k # 0 => k - 1 \in 0 .. n)
        BY <3>3
      <4>2. QED BY <2>4, <2>5, <4>1
    <3>4. QED BY <3>2, <3>3
  <2>8. Runs(g, n + 1)
    <3>1. g = [k \in 0 .. n + 1 |-> g[k]]
      OBVIOUS
    <3> HIDE DEF g, Turn
    <3>2. QED BY <2>7, <3>1
  <2>9. \E h : Runs(h, n + 1)
    <3> HIDE DEF Runs, g
    <3>1. QED BY <2>8
  <2>10. QED BY <2>9, SMTT(60)
<1>3. last \in can
  <2> HIDE DEF can, last
  <2>1. last \in Nat /\ 0 \in Nat
    BY DEF last
  <2>2. \A n \in 0 .. last : n \in can
    BY <1>1, <1>2, <2>1, Upwards
  <2>3. QED BY <2>1, <2>2
<1>4. \E f : Runs(f, last)
  BY <1>3
<1>5. Walking(t, o) = CHOOSE f : Runs(f, last)
  BY DEF Walking
<1>6. Runs(Walking(t, o), last)
  <2> HIDE DEF Runs
  <2>1. QED BY <1>4, <1>5
<1>7. \A k \in 0 .. last : Walking(t, o)[k] = Turn(Walking(t, o), k)
  <2> HIDE DEF Turn
  <2>1. QED BY <1>6
<1>8. 0 \in 0 .. last /\ \A k \in 1 .. last : k \in 0 .. last /\ k # 0
  OBVIOUS
<1>9. QED BY <1>7, <1>8

\* What is in a tree is below directories that are in it.
LEMMA AboveIsThere ==
  ASSUME NEW t, IsTree(t), NEW q \in DOMAIN t, NEW k \in 1 .. Len(q)
  PROVE  SubSeq(q, 1, k) \in DOMAIN t
<1>1. q \in Seq(Names) /\ Len(q) \in Nat
  BY LenProperties DEF IsTree
<1> DEFINE there == {n \in 0 .. Len(q) : SubSeq(q, 1, n) \in DOMAIN t}
<1>2. Len(q) \in there
  <2>1. SubSeq(q, 1, Len(q)) = q
    BY <1>1, SubSeqFull
  <2>2. SubSeq(q, 1, Len(q)) \in DOMAIN t
    BY <2>1
  <2>3. QED BY <1>1, <2>2
<1>3. \A n \in 0 + 1 .. Len(q) : n \in there => n - 1 \in there
  <2>1. TAKE n \in 0 + 1 .. Len(q)
  <2>2. HAVE n \in there
  <2>3. CASE n = 1
    <3>1. SubSeq(q, 1, 0) = << >>
      BY <1>1, SubSeqEmpty
    <3>2. << >> \in DOMAIN t
      BY DEF IsTree, IsDir
    <3>3. SubSeq(q, 1, 0) \in DOMAIN t
      BY <3>1, <3>2
    <3>4. QED BY <1>1, <2>3, <3>3
  <2>4. CASE n > 1
    <3> DEFINE r == SubSeq(q, 1, n)
    <3>1. /\ r \in Seq(Names) /\ Len(r) = n /\ \A j \in 1 .. n : r[j] = q[j]
      BY <1>1, PrefixFacts
    <3>2. r \in DOMAIN t
      BY <2>2
    <3> HIDE DEF r
    <3>3. r # << >>
      BY <2>4, <3>1, EmptySeq
    <3>4. Front(r) \in DOMAIN t
      BY <3>2, <3>3 DEF IsTree, IsDir
    <3>5. /\ Front(r) \in Seq(Names) /\ Len(Front(r)) = n - 1
          /\ \A j \in 1 .. n - 1 : Front(r)[j] = r[j]
      <4>1. r \in Seq(Names) \ {<< >>}
        BY <3>1, <3>3
      <4>2. /\ Front(r) \in Seq(Names) /\ Len(Front(r)) = Len(r) - 1
            /\ \A j \in 1 .. Len(r) - 1 : Front(r)[j] = r[j]
        BY <4>1, Fronts
      <4>3. QED BY <3>1, <4>2
    <3>6. n - 1 \in 1 .. Len(q) /\ \A j \in 1 .. n - 1 : j \in 1 .. n
      BY <2>4
    <3>7. /\ SubSeq(q, 1, n - 1) \in Seq(Names) /\ Len(SubSeq(q, 1, n - 1)) = n - 1
          /\ \A j \in 1 .. n - 1 : SubSeq(q, 1, n - 1)[j] = q[j]
      BY <1>1, <3>6, PrefixFacts
    <3>8. SubSeq(q, 1, n - 1) = Front(r)
      BY <3>1, <3>5, <3>6, <3>7, SeqEqual
    <3>9. SubSeq(q, 1, n - 1) \in DOMAIN t
      BY <3>4, <3>8
    <3>10. n - 1 \in 0 .. Len(q)
      BY <2>4
    <3> HIDE DEF r
    <3>11. QED BY <3>9, <3>10
  <2>5. QED BY <2>3, <2>4
<1>4. \A n \in 0 .. Len(q) : n \in there
  <2> HIDE DEF there
  <2>1. QED BY <1>1, <1>2, <1>3, Downwards
<1>5. k \in 0 .. Len(q)
  BY <1>1
<1>6. QED BY <1>4, <1>5

\* The buffer of path_simplify holds the names of q, from the root.
Shows(b, q) ==
    /\ b \in Seq(Clean) /\ q \in Seq(Names) /\ Len(b) = Len(q) + 1
    /\ b[1] = NoName /\ \A k \in 1 .. Len(q) : b[k + 1] = q[k]

\* A name is appended.
LEMMA ShowsMore ==
  ASSUME NEW b, NEW q, Shows(b, q), NEW c \in Names
  PROVE  Shows(Append(b, c), Append(q, c))
<1>1. PICK n \in Nat : n = Len(q)
  BY LenProperties DEF Shows
<1>2. c \in Clean
  BY DEF Clean
<1>3. /\ b \in Seq(Clean) /\ q \in Seq(Names) /\ Len(b) = n + 1
      /\ b[1] = NoName /\ \A k \in 1 .. n : b[k + 1] = q[k]
  BY <1>1 DEF Shows
<1> DEFINE bb == Append(b, c)
           qq == Append(q, c)
<1>4. /\ bb \in Seq(Clean) /\ Len(bb) = n + 2 /\ bb[n + 2] = c
      /\ \A k \in 1 .. n + 1 : bb[k] = b[k]
  <2>1. n + 1 + 1 = n + 2
    BY <1>1
  <2>2. QED BY <1>2, <1>3, <2>1, AppendProperties
<1>5. /\ qq \in Seq(Names) /\ Len(qq) = n + 1 /\ qq[n + 1] = c
      /\ \A k \in 1 .. n : qq[k] = q[k]
  BY <1>1, <1>3, AppendProperties
<1> HIDE DEF bb, qq
<1>6. ASSUME NEW k \in 1 .. n + 1 PROVE bb[k + 1] = qq[k]
  <2>1. CASE k = n + 1
    <3>1. k + 1 = n + 2
      BY <2>1
    <3>2. QED BY <1>4, <1>5, <2>1, <3>1
  <2>2. CASE k # n + 1
    <3>1. k \in 1 .. n /\ k + 1 \in 1 .. n + 1
      BY <1>6, <2>2
    <3>2. QED BY <1>3, <1>4, <1>5, <3>1
  <2>3. QED BY <2>1, <2>2
<1>7. bb[1] = NoName /\ n + 2 = (n + 1) + 1
  BY <1>3, <1>4
<1>8. Shows(bb, qq)
  BY <1>4, <1>5, <1>6, <1>7 DEF Shows
<1>9. QED BY <1>8 DEF bb, qq

\* A name is taken away.
LEMMA ShowsLess ==
  ASSUME NEW b, NEW q, Shows(b, q), q # << >>
  PROVE  Shows(Front(b), Front(q)) /\ Len(b) > 1
<1>1. PICK n \in Nat \ {0} : n = Len(q)
  BY EmptySeq DEF Shows
<1>2. /\ b \in Seq(Clean) /\ q \in Seq(Names) /\ Len(b) = n + 1
      /\ b[1] = NoName /\ \A k \in 1 .. n : b[k + 1] = q[k]
  BY <1>1 DEF Shows
<1>3. b # << >>
  BY <1>2, EmptySeq
<1> DEFINE bb == Front(b)
           qq == Front(q)
<1>4. /\ bb \in Seq(Clean) /\ Len(bb) = n /\ \A k \in 1 .. n : bb[k] = b[k]
  <2>1. b \in Seq(Clean) \ {<< >>} /\ Len(b) - 1 = n
    BY <1>1, <1>2, <1>3
  <2>2. /\ bb \in Seq(Clean) /\ Len(bb) = Len(b) - 1
        /\ \A k \in 1 .. Len(b) - 1 : bb[k] = b[k]
    BY <2>1, Fronts
  <2>3. QED BY <2>1, <2>2
<1>5. /\ qq \in Seq(Names) /\ Len(qq) = n - 1 /\ \A k \in 1 .. n - 1 : qq[k] = q[k]
  <2>1. q \in Seq(Names) \ {<< >>}
    BY <1>2
  <2>2. /\ qq \in Seq(Names) /\ Len(qq) = Len(q) - 1
        /\ \A k \in 1 .. Len(q) - 1 : qq[k] = q[k]
    BY <2>1, Fronts
  <2>3. QED BY <1>1, <2>2
<1> HIDE DEF bb, qq
<1>6. \A k \in 1 .. n - 1 : bb[k + 1] = qq[k]
  <2>1. TAKE k \in 1 .. n - 1
  <2>2. k \in 1 .. n /\ k + 1 \in 1 .. n
    BY <1>1
  <2>3. QED BY <1>2, <1>4, <1>5, <2>2
<1>7. bb[1] = NoName /\ n = n - 1 + 1 /\ Len(b) > 1
  BY <1>1, <1>2, <1>4
<1>8. Shows(bb, qq)
  BY <1>4, <1>5, <1>6, <1>7 DEF Shows
<1>9. QED BY <1>7, <1>8 DEF bb, qq

\* What is in a tree is found under its names, with or without a last slash.
LEMMA ShownIsFound ==
  ASSUME NEW t, IsTree(t), NEW q \in DOMAIN t, NEW p \in Seq(Clean) \ {<< >>}, p[1] = NoName,
         Len(p) = Len(q) + 1 \/ (Len(p) = Len(q) + 2 /\ p[Len(p)] = NoName),
         \A k \in 1 .. Len(q) : p[k + 1] = q[k]
  PROVE  Locate(t, p) = Yes(q)
<1>1. q \in Seq(Names)
  BY DEF IsTree
<1>2. PICK n \in Nat : n = Len(q)
  BY <1>1, LenProperties
<1>3. \A k \in 1 .. n : q[k] \in Names /\ q[k] # NoName
  BY <1>1, <1>2, ElementOfSeq, KeptParts
<1>4. Len(Way(p)) = n
  <2>1. Len(Way(p)) = IF Len(p) > 1 /\ p[Len(p)] = NoName THEN Len(p) - 2 ELSE Len(p) - 1
    BY WayFacts
  <2>2. CASE Len(p) = n + 2 /\ p[Len(p)] = NoName
    BY <2>1, <2>2
  <2>3. CASE Len(p) = n + 1
    <3>1. CASE n = 0
      BY <2>1, <2>3, <3>1
    <3>2. CASE n # 0
      <4>1. n \in 1 .. n
        BY <3>2
      <4>2. p[n + 1] # NoName
        BY <1>2, <1>3, <4>1
      <4>3. QED BY <2>1, <2>3, <4>2
    <3>3. QED BY <3>1, <3>2
  <2>4. QED BY <1>2, <2>2, <2>3
<1>5. Way(p) = q
  <2>1. Way(p) \in Seq(Clean) /\ \A k \in 1 .. n : Way(p)[k] = p[k + 1]
    BY <1>4, WayFacts
  <2>2. q \in Seq(Clean)
    BY <1>1, SeqMonotonic DEF Clean
  <2>3. QED BY <1>2, <1>4, <2>1, <2>2, SeqEqual
<1>6. ~(Len(p) > 2 /\ p[2] = NoName)
  <2>1. CASE n = 0
    BY <1>2, <2>1
  <2>2. CASE n # 0
    <3>1. 1 \in 1 .. n
      BY <2>2
    <3>2. p[1 + 1] = q[1] /\ q[1] # NoName
      BY <1>2, <1>3, <3>1
    <3>3. QED BY <3>2
  <2>3. QED BY <2>1, <2>2
<1>7. {k \in 1 .. Len(q) : SubSeq(q, 1, k) \notin DOMAIN t} = {}
  BY AboveIsThere
<1>8. QED BY <1>5, <1>6, <1>7 DEF Locate

\* The components of a path: empty, the names of w, the steps st, and e times
\* an empty one.
Laid(p, w, st, e) ==
    /\ p \in Seq(Parts) /\ w \in Seq(Names) /\ st \in Seq(Parts) /\ e \in {0, 1}
    /\ Len(p) = 1 + Len(w) + Len(st) + e /\ p[1] = NoName
    /\ \A k \in 1 .. Len(w) : p[1 + k] = w[k]
    /\ \A k \in 1 .. Len(st) : p[1 + Len(w) + k] = st[k] /\ st[k] # NoName
    /\ e = 1 => p[Len(p)] = NoName

Keeping(b) == [buf |-> b, state |-> "in"]

\* What one turn of path_simplify does above the root.
LEMMA KeepingTurns ==
  ASSUME NEW b, NEW c
  PROVE  /\ c = "." => Put(Keeping(b), c) = Keeping(b)
         /\ c = ".." /\ Len(b) > 1 => Put(Keeping(b), c) = Keeping(Front(b))
         /\ Kept(c) => Put(Keeping(b), c) = Keeping(Append(b, c))
<1>1. /\ Keeping(b).buf = b /\ Keeping(b).state = "in"
      /\ [Keeping(b) EXCEPT !.buf = Front(@)] = Keeping(Front(b))
      /\ [Keeping(b) EXCEPT !.buf = Append(@, c)] = Keeping(Append(b, c))
  BY DEF Keeping
<1>2. c = "." => Put(Keeping(b), c) = Keeping(b)
  BY DEF Put
<1>3. c = ".." /\ Len(b) > 1 => Put(Keeping(b), c) = Keeping(Front(b))
  BY <1>1 DEF Put
<1>4. Kept(c) => Put(Keeping(b), c) = Keeping(Append(b, c))
  BY <1>1 DEF Put, Kept
<1>5. QED BY <1>2, <1>3, <1>4

\* The names of the current directory are kept as they are.
LEMMA NamesAreKept ==
  ASSUME NEW p, NEW w, NEW st, NEW e, Laid(p, w, st, e)
  PROVE  \E b : Shows(b, w) /\ Simplifying(p)[1 + Len(w)] = Keeping(b)
<1> DEFINE f == Simplifying(p)
           m == Len(w)
           At(b, j) == /\ b \in Seq(Clean) /\ Len(b) = j + 1 /\ b[1] = NoName
                       /\ \A k \in 1 .. j : b[k + 1] = w[k]
           good == {j \in 0 .. m : \E b : At(b, j) /\ f[1 + j] = Keeping(b)}
<1>1. /\ m \in Nat /\ Len(st) \in Nat /\ Len(p) \in Nat \ {0} /\ m < Len(p)
      /\ p[1] = NoName /\ \A k \in 1 .. m : p[1 + k] = w[k] /\ w[k] \in Names
  <2>1. m \in Nat /\ Len(st) \in Nat /\ \A k \in 1 .. m : w[k] \in Names
    BY LenProperties, ElementOfSeq DEF Laid
  <2>2. QED BY <2>1 DEF Laid
<1>2. /\ f[1] = [buf |-> <<p[1]>>, state |-> "in"]
      /\ \A k \in 2 .. Len(p) : f[k] = Put(f[k - 1], p[k])
  BY <1>1, SimplifyingRuns
<1> HIDE DEF f, m
<1>3. 0 \in good
  <2> DEFINE b == <<NoName>>
  <2>1. b \in Seq(Clean) /\ Len(b) = 1 /\ b[1] = NoName
    BY DEF Clean
  <2>2. f[1 + 0] = Keeping(b)
    BY <1>1, <1>2 DEF Keeping
  <2>3. At(b, 0)
    <3> HIDE DEF b
    <3>1. QED BY <2>1
  <2>4. \E bb : At(bb, 0) /\ f[1 + 0] = Keeping(bb)
    <3> HIDE DEF b, At
    <3>1. QED BY <2>2, <2>3
  <2>5. QED BY <1>1, <2>4
<1>4. \A j \in 0 .. m - 1 : j \in good => j + 1 \in good
  <2>1. TAKE j \in 0 .. m - 1
  <2>2. HAVE j \in good
  <2>3. PICK b : At(b, j) /\ f[1 + j] = Keeping(b)
    BY <2>2
  <2> DEFINE c == w[j + 1]
             bb == Append(b, c)
  <2>4. /\ c \in Names /\ j + 1 \in 1 .. m /\ 1 + (j + 1) \in 2 .. Len(p)
        /\ (1 + (j + 1)) - 1 = 1 + j /\ p[1 + (j + 1)] = c
    BY <1>1
  <2>5. c \in Clean /\ Kept(c)
    BY <2>4, KeptParts DEF Clean
  <2> HIDE DEF c
  <2>6. f[1 + (j + 1)] = Keeping(bb)
    BY <1>2, <2>3, <2>4, <2>5, KeepingTurns
  <2>7. /\ bb \in Seq(Clean) /\ Len(bb) = j + 1 + 1
        /\ \A k \in 1 .. j + 1 : bb[k] = b[k]
        /\ bb[j + 1 + 1] = c
    BY <2>3, <2>5, AppendProperties
  <2> HIDE DEF bb
  <2>8. At(bb, j + 1)
    <3>1. bb[1] = NoName
      BY <2>3, <2>7
    <3>2. ASSUME NEW k \in 1 .. j + 1 PROVE bb[k + 1] = w[k]
      <4>1. CASE k = j + 1
        BY <2>7, <4>1 DEF c
      <4>2. CASE k # j + 1
        <5>1. k \in 1 .. j /\ k + 1 \in 1 .. j + 1
          BY <3>2, <4>2
        <5>2. QED BY <2>3, <2>7, <5>1
      <4>3. QED BY <4>1, <4>2
    <3>3. QED BY <2>7, <3>1, <3>2
  <2>9. \E new : At(new, j + 1) /\ f[1 + (j + 1)] = Keeping(new)
    <3> HIDE DEF At
    <3>1. QED BY <2>6, <2>8
  <2>10. j + 1 \in 0 .. m
    BY <1>1
  <2>11. QED BY <2>9, <2>10
<1>5. m \in good
  <2> HIDE DEF good
  <2>1. \A j \in 0 .. m : j \in good
    BY <1>1, <1>3, <1>4, Upwards
  <2>2. QED BY <1>1, <2>1
<1>6. PICK b : At(b, m) /\ f[1 + m] = Keeping(b)
  BY <1>5
<1>7. Shows(b, w)
  BY <1>6 DEF Shows, Laid, m
<1>8. QED BY <1>6, <1>7 DEF f, m

\* One step of the walk and one turn of path_simplify.
LEMMA OneStep ==
  ASSUME NEW t, IsTree(t), NEW q, NEW b, Shows(b, q), NEW c \in Parts, c # NoName,
         StepTo(t, Yes(q), c) # Nothing
  PROVE  \E bb, qq : /\ Shows(bb, qq) /\ qq \in DOMAIN t
                     /\ StepTo(t, Yes(q), c) = Yes(qq)
                     /\ Put(Keeping(b), c) = Keeping(bb)
<1>1. IsDir(t, q) /\ Yes(q).at = q /\ Yes(q) # Nothing
  BY DEF StepTo, Yes, Nothing
<1>2. q \in DOMAIN t
  BY <1>1 DEF IsDir
<1>3. CASE c = "."
  <2>1. StepTo(t, Yes(q), c) = Yes(q)
    BY <1>1, <1>3 DEF StepTo
  <2>2. Put(Keeping(b), c) = Keeping(b)
    BY <1>3, KeepingTurns
  <2>3. QED BY <1>2, <2>1, <2>2
<1>4. CASE c = ".."
  <2>1. q # << >> /\ StepTo(t, Yes(q), c) = Yes(Front(q))
    BY <1>1, <1>4 DEF StepTo
  <2>2. Shows(Front(b), Front(q)) /\ Len(b) > 1
    BY <2>1, ShowsLess
  <2>3. Put(Keeping(b), c) = Keeping(Front(b))
    BY <1>4, <2>2, KeepingTurns
  <2>4. Front(q) \in DOMAIN t
    BY <1>2, <2>1 DEF IsTree, IsDir
  <2>5. QED BY <2>1, <2>2, <2>3, <2>4
<1>5. CASE c # "." /\ c # ".."
  <2>1. c \in Names /\ Kept(c)
    BY <1>5 DEF Parts, Kept
  <2>2. Append(q, c) \in DOMAIN t /\ StepTo(t, Yes(q), c) = Yes(Append(q, c))
    BY <1>1, <1>5 DEF StepTo
  <2>3. Put(Keeping(b), c) = Keeping(Append(b, c))
    BY <2>1, KeepingTurns
  <2>4. Shows(Append(b, c), Append(q, c))
    BY <2>1, ShowsMore
  <2>5. QED BY <2>2, <2>3, <2>4
<1>6. QED BY <1>3, <1>4, <1>5

\* The names that a buffer shows are found under it, as fs_abs_path completes
\* it.
LEMMA ShownAnyway ==
  ASSUME NEW t, IsTree(t), NEW q \in DOMAIN t, NEW b, Shows(b, q)
  PROVE  Locate(t, IF b = <<NoName>> THEN <<NoName, NoName>> ELSE b) = Yes(q)
<1>1. /\ b \in Seq(Clean) /\ q \in Seq(Names) /\ Len(b) = Len(q) + 1
      /\ b[1] = NoName /\ \A k \in 1 .. Len(q) : b[k + 1] = q[k]
  BY DEF Shows
<1>2. PICK l \in Nat : l = Len(q)
  BY <1>1, LenProperties
<1>3. b # << >> /\ NoName \in Clean
  <2>1. Len(b) # 0
    BY <1>1, <1>2
  <2>2. QED BY <1>1, <2>1, EmptySeq DEF Clean
<1>4. CASE b = <<NoName>>
  <2> DEFINE r == <<NoName, NoName>>
  <2>1. Len(b) = 1
    BY <1>4
  <2>2. l = 0 /\ Len(q) = 0
    BY <1>1, <1>2, <2>1
  <2>3. r \in Seq(Clean) /\ Len(r) = 2 /\ r[1] = NoName /\ r[2] = NoName
    BY <1>3
  <2> HIDE DEF r
  <2>4. r # << >>
    <3>1. Len(r) # 0
      BY <2>3
    <3>2. Len(<< >>) = 0
      OBVIOUS
    <3>3. QED BY <3>1, <3>2, Zenon
  <2>5. Len(r) = Len(q) + 2 /\ r[Len(r)] = NoName /\ \A k \in 1 .. Len(q) : r[k + 1] = q[k]
    BY <2>2, <2>3
  <2>6. Locate(t, r) = Yes(q)
    BY <2>3, <2>4, <2>5, ShownIsFound
  <2>7. QED BY <1>4, <2>6 DEF r
<1>5. CASE b # <<NoName>>
  <2>1. Locate(t, b) = Yes(q)
    BY <1>1, <1>3, ShownIsFound
  <2>2. QED BY <1>5, <2>1
<1>6. QED BY <1>4, <1>5

\* One more name after what a buffer shows: the path splits into the two.
LEMMA ShownSplits ==
  ASSUME NEW t, IsTree(t), NEW q \in DOMAIN t, NEW b, Shows(b, q), NEW c \in Names
  PROVE  /\ Locate(t, Dirname(Append(b, c))) = Yes(q)
         /\ Basename(Append(b, c)) = c
         /\ Append(b, c) # <<NoName>>
<1>1. PICK l \in Nat : l = Len(q)
  BY LenProperties DEF Shows
<1>2. b \in Seq(Clean) /\ Len(b) = l + 1 /\ b[1] = NoName /\ c \in Clean
  BY <1>1 DEF Shows, Clean
<1> DEFINE p == Append(b, c)
<1>3. /\ p \in Seq(Clean) /\ Len(p) = l + 1 + 1 /\ p[l + 1 + 1] = c
      /\ \A k \in 1 .. l + 1 : p[k] = b[k]
  BY <1>2, AppendProperties
<1> HIDE DEF p
<1>4. p # << >> /\ p # <<NoName>> /\ p[1] = NoName
  <2>1. Len(<<NoName>>) = 1 /\ Len(<< >>) = 0
    OBVIOUS
  <2>2. Len(p) # 1 /\ Len(p) # 0
    BY <1>1, <1>3
  <2>3. 1 \in 1 .. l + 1
    BY <1>1
  <2>4. QED BY <1>2, <1>3, <2>1, <2>2, <2>3
<1>5. Basename(p) = c
  BY <1>3 DEF Basename, Last
<1>6. Front(p) = b
  <2>1. /\ Front(p) \in Seq(Clean) /\ Len(Front(p)) = Len(p) - 1
        /\ \A k \in 1 .. Len(p) - 1 : Front(p)[k] = p[k]
    BY <1>3, <1>4, Fronts
  <2>2. Len(p) - 1 = l + 1
    BY <1>3
  <2>3. QED BY <1>2, <1>3, <2>1, <2>2, SeqEqual
<1>7. Dirname(p) = IF b = <<NoName>> THEN <<NoName, NoName>> ELSE b
  <2>1. Len(p) # 1
    BY <1>1, <1>3
  <2>2. Len(p) = 2 <=> b = <<NoName>>
    <3>1. Len(p) = 2 <=> Len(b) = 1
      BY <1>1, <1>2, <1>3
    <3>2. b = <<NoName>> => Len(b) = 1
      OBVIOUS
    <3>3. ASSUME Len(b) = 1 PROVE b = <<NoName>>
      <4>1. <<NoName>> \in Seq(Clean) /\ Len(<<NoName>>) = 1 /\ <<NoName>>[1] = NoName
        BY DEF Clean
      <4>2. \A k \in 1 .. 1 : b[k] = <<NoName>>[k]
        BY <1>2, <4>1
      <4>3. QED BY <1>2, <3>3, <4>1, <4>2, SeqEqual
    <3>4. QED BY <3>1, <3>2, <3>3
  <2>3. QED BY <1>4, <1>6, <2>1, <2>2 DEF Dirname
<1>8. Locate(t, Dirname(p)) = Yes(q)
  BY <1>7, ShownAnyway
<1>9. QED BY <1>4, <1>5, <1>8 DEF p

\* While the walk goes on, path_simplify has in its buffer where it is.
LEMMA WalkShows ==
  ASSUME NEW t, IsTree(t), NEW p, NEW w, NEW st, NEW e, Laid(p, w, st, e),
         NEW walk, walk[0] = Yes(w),
         \A k \in 1 .. Len(st) : walk[k] = StepTo(t, walk[k - 1], st[k]),
         NEW i \in 0 .. Len(st), walk[i] # Nothing
  PROVE  \E b, q : /\ Shows(b, q) /\ walk[i] = Yes(q)
                   /\ Simplifying(p)[1 + Len(w) + i] = Keeping(b)
                   /\ i > 0 => q \in DOMAIN t
                   /\ i = 0 => q = w
<1> DEFINE f == Simplifying(p)
           m == Len(w)
           n == Len(st)
           On(k, b, q) == /\ Shows(b, q) /\ walk[k] = Yes(q) /\ f[1 + m + k] = Keeping(b)
                          /\ k > 0 => q \in DOMAIN t
                          /\ k = 0 => q = w
           good == {k \in 0 .. n : walk[k] # Nothing => \E b, q : On(k, b, q)}
<1>1. /\ m \in Nat /\ n \in Nat /\ e \in {0, 1} /\ Len(p) = 1 + m + n + e
      /\ \A k \in 1 .. n : p[1 + m + k] = st[k] /\ st[k] # NoName /\ st[k] \in Parts
      /\ e = 1 => p[Len(p)] = NoName
  <2>1. m \in Nat /\ n \in Nat /\ \A k \in 1 .. n : st[k] \in Parts
    BY LenProperties, ElementOfSeq DEF Laid
  <2>2. QED BY <2>1 DEF Laid
<1>2. \A k \in 2 .. Len(p) : f[k] = Put(f[k - 1], p[k])
  <2>1. Len(p) \in Nat \ {0}
    BY <1>1
  <2>2. QED BY <2>1, SimplifyingRuns
<1>3. PICK b0 : Shows(b0, w) /\ f[1 + m] = Keeping(b0)
  BY NamesAreKept
<1> HIDE DEF f, m, n
<1>4. \A k \in 1 .. n : walk[k] = StepTo(t, walk[k - 1], st[k])
  BY DEF n
<1>5. 0 \in good
  <2>1. 1 + m + 0 = 1 + m /\ 0 \in 0 .. n
    BY <1>1
  <2>2. On(0, b0, w)
    BY <1>3, <2>1
  <2>3. \E b, q : On(0, b, q)
    <3> HIDE DEF On
    <3>1. QED BY <2>2
  <2>4. QED BY <2>1, <2>3
<1>6. \A k \in 0 .. n - 1 : k \in good => k + 1 \in good
  <2>1. TAKE k \in 0 .. n - 1
  <2>2. HAVE k \in good
  <2>3. SUFFICES ASSUME walk[k + 1] # Nothing PROVE \E b, q : On(k + 1, b, q)
    <3>1. k + 1 \in 0 .. n
      BY <1>1
    <3> HIDE DEF On
    <3>2. QED BY <3>1
  <2> DEFINE c == st[k + 1]
  <2>4. k + 1 \in 1 .. n /\ (k + 1) - 1 = k
    BY <1>1
  <2>5. walk[k + 1] = StepTo(t, walk[k], c) /\ c \in Parts /\ c # NoName
    BY <1>1, <1>4, <2>4
  <2>6. walk[k] # Nothing
    BY <2>3, <2>5 DEF StepTo
  <2>7. PICK b, q : On(k, b, q)
    BY <2>2, <2>6
  <2> HIDE DEF c
  <2>8. Shows(b, q) /\ walk[k] = Yes(q) /\ f[1 + m + k] = Keeping(b)
    BY <2>7
  <2>9. StepTo(t, Yes(q), c) # Nothing
    BY <2>3, <2>5, <2>8
  <2>10. PICK bb, qq : /\ Shows(bb, qq) /\ qq \in DOMAIN t
                       /\ StepTo(t, Yes(q), c) = Yes(qq)
                       /\ Put(Keeping(b), c) = Keeping(bb)
    BY <2>5, <2>8, <2>9, OneStep
  <2>11. f[1 + m + (k + 1)] = Keeping(bb)
    <3>1. /\ 1 + m + (k + 1) \in 2 .. Len(p) /\ (1 + m + (k + 1)) - 1 = 1 + m + k
          /\ p[1 + m + (k + 1)] = c
      BY <1>1, <2>4 DEF c
    <3>2. f[1 + m + (k + 1)] = Put(f[1 + m + k], c)
      BY <1>2, <3>1
    <3>3. QED BY <2>8, <2>10, <3>2
  <2>12. k + 1 # 0 /\ walk[k + 1] = Yes(qq)
    BY <2>5, <2>8, <2>10
  <2>13. On(k + 1, bb, qq)
    BY <2>10, <2>11, <2>12
  <2>14. QED
    <3> HIDE DEF On
    <3>1. QED BY <2>13
<1>7. i \in good
  <2> HIDE DEF good
  <2>1. \A k \in 0 .. n : k \in good
    BY <1>1, <1>5, <1>6, Upwards
  <2>2. i \in 0 .. n
    BY DEF n
  <2>3. QED BY <2>1, <2>2
<1>8. PICK b, q : On(i, b, q)
  BY <1>7
<1>9. QED BY <1>8 DEF f, m

\* A walk that arrives somewhere arrives where the cleaned path is found.
LEMMA WalkCleans ==
  ASSUME NEW t, IsTree(t), NEW p, NEW w, NEW st, NEW e, Laid(p, w, st, e),
         w # << >> => st # << >>,
         NEW walk, walk[0] = Yes(w),
         \A k \in 1 .. Len(st) : walk[k] = StepTo(t, walk[k - 1], st[k]),
         walk[Len(st)] # Nothing
  PROVE  \E b : /\ Simplify(p) = Keeping(b)
                /\ Locate(t, IF b = <<NoName>> THEN <<NoName, NoName>> ELSE b) = walk[Len(st)]
<1> DEFINE f == Simplifying(p)
           m == Len(w)
           n == Len(st)
<1>1. /\ m \in Nat /\ n \in Nat /\ e \in {0, 1} /\ Len(p) = 1 + m + n + e
      /\ e = 1 => p[Len(p)] = NoName
  BY LenProperties DEF Laid
<1>2. \A k \in 2 .. Len(p) : f[k] = Put(f[k - 1], p[k])
  <2>1. Len(p) \in Nat \ {0}
    BY <1>1
  <2>2. QED BY <2>1, SimplifyingRuns
<1>3. Simplify(p) = f[Len(p)]
  BY DEF Simplify
<1>4. n \in 0 .. n
  BY <1>1
<1>5. PICK b, q : /\ Shows(b, q) /\ walk[n] = Yes(q) /\ f[1 + m + n] = Keeping(b)
                  /\ n > 0 => q \in DOMAIN t
                  /\ n = 0 => q = w
  BY <1>4, WalkShows
<1>6. q \in DOMAIN t
  <2>1. CASE n = 0
    <3>1. st = << >>
      BY <2>1, EmptySeq DEF Laid
    <3>2. q = << >>
      BY <1>5, <2>1, <3>1
    <3>3. QED BY <3>2 DEF IsTree, IsDir
  <2>2. CASE n > 0
    BY <1>5, <2>2
  <2>3. QED BY <1>1, <2>1, <2>2
<1>7. /\ b \in Seq(Clean) /\ q \in Seq(Names) /\ Len(b) = Len(q) + 1
      /\ b[1] = NoName /\ \A k \in 1 .. Len(q) : b[k + 1] = q[k]
  BY <1>5 DEF Shows
<1>8. PICK l \in Nat : l = Len(q)
  BY <1>7, LenProperties
<1>9. NoName \in Clean
  BY DEF Clean
<1> HIDE DEF f, m, n
<1>10. CASE e = 0
  <2>1. Simplify(p) = Keeping(b)
    <3>1. Len(p) = 1 + m + n
      BY <1>1, <1>10
    <3>2. QED BY <1>3, <1>5, <3>1
  <2>2. Locate(t, IF b = <<NoName>> THEN <<NoName, NoName>> ELSE b) = Yes(q)
    BY <1>5, <1>6, ShownAnyway
  <2>3. QED BY <1>5, <2>1, <2>2 DEF n
<1>11. CASE e = 1
  <2> DEFINE r == Append(b, NoName)
  <2>1. Simplify(p) = Keeping(r)
    <3>1. /\ Len(p) \in 2 .. Len(p) /\ Len(p) - 1 = 1 + m + n /\ p[Len(p)] = NoName
      BY <1>1, <1>11
    <3>2. f[Len(p)] = Put(Keeping(b), NoName)
      BY <1>2, <1>5, <3>1
    <3>3. QED BY <1>3, <3>2, KeepingTurns, KeptParts
  <2>2. /\ r \in Seq(Clean) /\ Len(r) = l + 1 + 1 /\ r[l + 1 + 1] = NoName
        /\ \A k \in 1 .. l + 1 : r[k] = b[k]
    BY <1>7, <1>8, <1>9, AppendProperties
  <2> HIDE DEF r
  <2>3. r # << >> /\ r # <<NoName>>
    <3>1. Len(<<NoName>>) = 1 /\ Len(<< >>) = 0
      OBVIOUS
    <3>2. Len(r) # 1 /\ Len(r) # 0
      BY <1>8, <2>2
    <3>3. QED BY <3>1, <3>2
  <2>4. /\ r[1] = NoName /\ Len(r) = Len(q) + 2 /\ r[Len(r)] = NoName
        /\ \A k \in 1 .. Len(q) : r[k + 1] = q[k]
    <3>1. 1 \in 1 .. l + 1 /\ l + 1 + 1 = l + 2 /\ \A k \in 1 .. l : k + 1 \in 1 .. l + 1
      BY <1>8
    <3>2. r[1] = NoName /\ \A k \in 1 .. l : r[k + 1] = q[k]
      BY <1>7, <1>8, <2>2, <3>1
    <3>3. QED BY <1>8, <2>2, <3>1, <3>2
  <2>5. Locate(t, r) = Yes(q)
    BY <1>6, <2>2, <2>3, <2>4, ShownIsFound
  <2>6. QED BY <1>5, <2>1, <2>3, <2>5 DEF n
<1>12. QED BY <1>1, <1>10, <1>11

\* The components that are walked: all but an empty last one, and the empty
\* first one of a path with a drive.
LEMMA StepsFacts ==
  ASSUME NEW o, NEW r \in Seq(Parts),
         r = IF o.drive = NoDrive THEN o.path ELSE Tail(o.path)
  PROVE  \E e \in {0, 1} :
           /\ Steps(o) \in Seq(Parts) /\ Len(r) = Len(Steps(o)) + e
           /\ \A k \in 1 .. Len(Steps(o)) : r[k] = Steps(o)[k]
           /\ e = 1 => r[Len(r)] = NoName
           /\ e = 0 => Steps(o) = r
<1>1. Steps(o) = IF r # << >> /\ Last(r) = NoName THEN Front(r) ELSE r
  BY DEF Steps
<1>2. CASE r # << >> /\ Last(r) = NoName
  <2>1. r \in Seq(Parts) \ {<< >>}
    BY <1>2
  <2>2. /\ Len(r) \in Nat \ {0} /\ Front(r) \in Seq(Parts) /\ Len(Front(r)) = Len(r) - 1
        /\ \A k \in 1 .. Len(r) - 1 : Front(r)[k] = r[k]
    BY <2>1, Fronts, ZenonT(60)
  <2>3. Len(r) = Len(Front(r)) + 1 /\ r[Len(r)] = NoName /\ Steps(o) = Front(r)
    BY <1>1, <1>2, <2>2 DEF Last
  <2> DEFINE e == 1
  <2>4. /\ e \in {0, 1} /\ Len(r) = Len(Steps(o)) + e /\ e # 0 /\ Steps(o) \in Seq(Parts)
        /\ \A k \in 1 .. Len(Steps(o)) : r[k] = Steps(o)[k]
        /\ r[Len(r)] = NoName
    BY <2>2, <2>3
  <2> HIDE DEF e
  <2>5. QED BY <2>4
<1>3. CASE ~(r # << >> /\ Last(r) = NoName)
  <2> DEFINE e == 0
  <2>1. Steps(o) = r /\ Len(r) \in Nat
    BY <1>1, <1>3, LenProperties
  <2>2. e \in {0, 1} /\ Len(r) = Len(Steps(o)) + e /\ e # 1
    BY <2>1
  <2> HIDE DEF e
  <2>3. QED BY <2>1, <2>2
<1>4. QED BY <1>2, <1>3

\* The path that fs_abs_path hands to path_simplify: the root, the names of the
\* current directory if the path has no drive, and the steps.
LEMMA FullIsLaid ==
  ASSUME NEW o \in AllOperands, phase = "shell", Home, NoName \notin Range(Steps(o)),
         IF o.drive = NoDrive THEN o.path[1] # NoName ELSE o.path[1] = NoName,
         NEW w, w = IF o.drive = NoDrive THEN Way(cwd.path) ELSE << >>
  PROVE  /\ \E e : Laid(Full(o), w, Steps(o), e) /\ (e = 1 => Last(o.path) = NoName)
         /\ w # << >> => Steps(o) # << >>
<1> DEFINE r == IF o.drive = NoDrive THEN o.path ELSE Tail(o.path)
           st == Steps(o)
           p == Full(o)
<1>1. o.path \in Seq(Parts) \ {<< >>} /\ p \in Seq(Parts) \ {<< >>}
  BY OperandsAssumption, FullFacts DEF AllOperands, Parts
<1>2. r \in Seq(Parts)
  BY <1>1, HeadTailProperties
<1>3. PICK e \in {0, 1} :
        /\ st \in Seq(Parts) /\ Len(r) = Len(st) + e
        /\ \A k \in 1 .. Len(st) : r[k] = st[k]
        /\ e = 1 => r[Len(r)] = NoName
        /\ e = 0 => st = r
  BY <1>2, StepsFacts
<1>4. \A k \in 1 .. Len(st) : st[k] # NoName
  BY <1>3, LenProperties DEF Range
<1>5. /\ w \in Seq(Names) /\ Len(p) = 1 + Len(w) + Len(r) /\ p[1] = NoName
      /\ \A k \in 1 .. Len(w) : p[1 + k] = w[k]
      /\ \A k \in 1 .. Len(r) : p[1 + Len(w) + k] = r[k]
      /\ w # << >> => st # << >>
  <2>1. CASE o.drive # NoDrive
    <3>1. p = o.path /\ r = Tail(o.path) /\ w = << >> /\ p[1] = NoName
      BY <2>1 DEF Full
    <3>2. /\ Len(o.path) \in Nat /\ Len(Tail(o.path)) = Len(o.path) - 1
          /\ \A k \in 1 .. Len(o.path) - 1 : Tail(o.path)[k] = o.path[k + 1]
      BY <1>1, HeadTailProperties, LenProperties
    <3>3. Len(w) = 0 /\ w \in Seq(Names)
      BY <3>1
    <3>4. Len(p) = 1 + Len(w) + Len(r)
      <4>1. PICK n \in Nat : n = Len(o.path)
        BY <3>2
      <4>2. Len(p) = n /\ Len(r) = n - 1
        BY <3>1, <3>2, <4>1
      <4>3. n = 1 + 0 + (n - 1)
        OBVIOUS
      <4>4. QED BY <3>3, <4>2, <4>3
    <3>5. \A k \in 1 .. Len(r) : 1 + Len(w) + k = k + 1 /\ k \in 1 .. Len(o.path) - 1
      BY <3>1, <3>2, <3>3
    <3>6. \A k \in 1 .. Len(r) : p[1 + Len(w) + k] = r[k]
      BY <3>1, <3>2, <3>5
    <3>7. \A k \in 1 .. Len(w) : p[1 + k] = w[k]
      BY <3>3
    <3> HIDE DEF p, r, st
    <3>8. QED BY <3>1, <3>3, <3>4, <3>6, <3>7
  <2>2. CASE o.drive = NoDrive
    <3> DEFINE c == cwd.path
    <3>1. /\ c \in Seq(Clean) \ {<< >>} /\ c[1] = NoName /\ Way(c) \in Seq(Names)
          /\ w = Way(c) /\ r = o.path /\ p = Join(c, r) /\ r[1] # NoName /\ r # << >>
      BY <1>1, <2>2 DEF Home, Full
    <3> HIDE DEF c, r, p
    <3>2. PICK n \in Nat \ {0} : n = Len(c)
      BY <3>1, EmptySeq
    <3>3. /\ Len(Way(c)) = IF n > 1 /\ c[n] = NoName THEN n - 2 ELSE n - 1
          /\ \A k \in 1 .. Len(Way(c)) : Way(c)[k] = c[k + 1]
      BY <3>1, <3>2, WayFacts
    <3>4. \E h \in Seq(Parts) :
            /\ p = h \o r /\ Len(h) = 1 + Len(w)
            /\ \A k \in 1 .. 1 + Len(w) : h[k] = c[k]
      <4>1. c \in Seq(Parts)
        <5>1. Clean \subseteq Parts
          BY KeptParts
        <5>2. QED BY <3>1, <5>1, SeqMonotonic
      <4>2. CASE n > 1 /\ c[n] = NoName
        <5>1. /\ Front(c) \in Seq(Parts) /\ Len(Front(c)) = n - 1
              /\ \A k \in 1 .. n - 1 : Front(c)[k] = c[k]
          BY <3>1, <3>2, <4>1, Fronts, SMTT(60)
        <5>2. Len(w) = n - 2
          BY <3>1, <3>3, <4>2
        <5>3. 1 + Len(w) = n - 1
          BY <3>2, <5>2
        <5>4. p = Front(c) \o r
          BY <3>1, <3>2, <4>2 DEF Join, Last
        <5>5. QED BY <5>1, <5>3, <5>4
      <4>3. CASE ~(n > 1 /\ c[n] = NoName)
        <5>1. Len(w) = n - 1
          BY <3>1, <3>3, <4>3
        <5>2. 1 + Len(w) = n
          BY <3>2, <5>1
        <5>3. p = c \o r
          BY <3>1, <3>2, <4>3 DEF Join, Last
        <5>4. QED BY <3>2, <4>1, <5>2, <5>3
      <4>4. QED BY <4>2, <4>3
    <3>5. PICK h \in Seq(Parts) :
            /\ p = h \o r /\ Len(h) = 1 + Len(w)
            /\ \A k \in 1 .. 1 + Len(w) : h[k] = c[k]
      BY <3>4
    <3>6. PICK m \in Nat : m = Len(w)
      BY <3>1, LenProperties
    <3>7. PICK l \in Nat : l = Len(r)
      BY <1>2, LenProperties
    <3>8. /\ Len(p) = 1 + m + l
          /\ \A i \in 1 .. 1 + m + l : p[i] = IF i <= 1 + m THEN h[i] ELSE r[i - (1 + m)]
      <4>1. /\ Len(h \o r) = Len(h) + Len(r)
            /\ \A i \in 1 .. Len(h) + Len(r) : (h \o r)[i] = IF i <= Len(h) THEN h[i] ELSE r[i - Len(h)]
        <5>1. r \in Seq(Parts)
          BY <1>2 DEF r
        <5>2. QED BY <5>1, ConcatProperties
      <4>2. Len(h) = 1 + m /\ Len(r) = l /\ p = h \o r
        BY <3>5, <3>6, <3>7
      <4>3. QED BY <4>1, <4>2
    <3>9. p[1] = NoName
      BY <3>1, <3>5, <3>6, <3>8
    <3>10. \A k \in 1 .. m : p[1 + k] = w[k]
      <4>1. TAKE k \in 1 .. m
      <4>2. 1 + k \in 1 .. 1 + m + l /\ 1 + k <= 1 + m /\ 1 + k \in 1 .. 1 + m /\ 1 + k = k + 1
        OBVIOUS
      <4>3. QED BY <3>1, <3>3, <3>5, <3>6, <3>8, <4>2
    <3>11. \A k \in 1 .. l : p[1 + m + k] = r[k]
      <4>1. TAKE k \in 1 .. l
      <4>2. /\ 1 + m + k \in 1 .. 1 + m + l /\ ~(1 + m + k <= 1 + m)
            /\ (1 + m + k) - (1 + m) = k
        OBVIOUS
      <4>3. QED BY <3>8, <4>2
    <3>12. st # << >>
      <4>1. CASE e = 0
        BY <1>3, <3>1, <4>1
      <4>2. CASE e = 1
        <5>1. l # 1 /\ l # 0
          BY <1>2, <1>3, <3>1, <3>7, <4>2, EmptySeq
        <5>2. Len(st) \in Nat /\ l = Len(st) + 1
          BY <1>3, <3>7, <4>2, LenProperties
        <5>3. Len(st) # 0
          BY <5>1, <5>2
        <5>4. QED BY <5>3
      <4>3. QED BY <1>3, <4>1, <4>2
    <3>13. QED BY <3>1, <3>6, <3>7, <3>8, <3>9, <3>10, <3>11, <3>12
  <2>3. QED BY <2>1, <2>2
<1>6. Laid(p, w, st, e)
  <2> HIDE DEF r, st, p
  <2>1. PICK m \in Nat, n \in Nat : m = Len(w) /\ n = Len(st)
    <3>1. Len(w) \in Nat /\ Len(st) \in Nat
      BY <1>3, <1>5, LenProperties
    <3>2. QED BY <3>1
  <2>2. Len(r) = n + e /\ Len(p) = 1 + m + n + e
    <3>1. Len(r) = n + e /\ Len(p) = 1 + m + Len(r)
      BY <1>3, <1>5, <2>1
    <3>2. 1 + m + (n + e) = 1 + m + n + e
      BY <1>3
    <3>3. QED BY <3>1, <3>2
  <2>3. \A k \in 1 .. n : p[1 + m + k] = st[k]
    <3>1. TAKE k \in 1 .. n
    <3>2. k \in 1 .. n + e
      BY <1>3
    <3>3. QED BY <1>3, <1>5, <2>1, <2>2, <3>2
  <2>4. e = 1 => p[Len(p)] = NoName
    <3>1. HAVE e = 1
    <3>2. n + e \in 1 .. n + e /\ 1 + m + (n + e) = 1 + m + n + e
      BY <3>1
    <3>3. p[1 + m + (n + e)] = r[n + e]
      BY <1>5, <2>1, <2>2, <3>2
    <3>4. QED BY <1>3, <2>2, <3>1, <3>2, <3>3
  <2>5. p \in Seq(Parts)
    BY <1>1
  <2>6. QED BY <1>3, <1>4, <1>5, <2>1, <2>2, <2>3, <2>4, <2>5 DEF Laid
<1>7. e = 1 => Last(o.path) = NoName
  <2>1. HAVE e = 1
  <2>2. CASE o.drive = NoDrive
    BY <1>3, <2>1, <2>2 DEF Last
  <2>3. CASE o.drive # NoDrive
    <3>1. PICK n \in Nat \ {0} : n = Len(o.path)
      BY <1>1, EmptySeq
    <3>2. r = Tail(o.path)
      BY <2>3
    <3> HIDE DEF r, p, st
    <3>3. Len(r) = n - 1 /\ \A k \in 1 .. n - 1 : r[k] = o.path[k + 1]
      <4>1. /\ Len(Tail(o.path)) = Len(o.path) - 1
            /\ \A k \in 1 .. Len(o.path) - 1 : Tail(o.path)[k] = o.path[k + 1]
        BY <1>1, HeadTailProperties
      <4>2. QED BY <3>1, <3>2, <4>1
    <3>4. Len(st) \in Nat /\ Len(r) = Len(st) + 1 /\ r[Len(r)] = NoName
      BY <1>3, <2>1, LenProperties
    <3>5. n - 1 \in 1 .. n - 1 /\ (n - 1) + 1 = n
      BY <3>1, <3>3, <3>4
    <3>6. o.path[n] = NoName
      BY <3>3, <3>4, <3>5
    <3>7. QED BY <3>1, <3>6 DEF Last
  <2>4. QED BY <2>2, <2>3
<1>8. QED BY <1>5, <1>6, <1>7

\* fs_abs_path and dir_roottree_locate arrive where a walk arrives that goes
\* from directory to directory, for every path, current directory and tree.
THEOREM WalkDoesAgree == Spec => []WalkAgrees
<1>1. ASSUME Inv PROVE WalkAgrees
  <2>1. SUFFICES ASSUME phase = "shell", NEW o \in Operands, Walkable(o),
                        Walked(TreeAt(Abs(o).drive), o) # Nothing
                 PROVE  /\ ~Abs(o).wild
                        /\ Locate(TreeAt(Abs(o).drive), Abs(o).path)
                               = Walked(TreeAt(Abs(o).drive), o)
    BY DEF WalkAgrees
  <2> DEFINE p == Full(o)
             w == IF o.drive = NoDrive THEN Way(cwd.path) ELSE << >>
             st == Steps(o)
             t == TreeAt(Abs(o).drive)
             walk == Walking(t, o)
  <2>2. o \in AllOperands /\ Home
    BY <1>1, <2>1 DEF AllOperands, Inv, CwdOK
  <2>3. IsTree(t)
    <3> DEFINE drive == Abs(o).drive
    <3>1. drive \in Letters /\ Reach(drive) = "goes"
      BY <2>1, <2>2, AbsFacts DEF Walkable
    <3> HIDE DEF drive
    <3>2. IsTree(TreeAt(drive))
      BY <1>1, <3>1, ReachFacts
    <3>3. QED BY <3>2 DEF drive
  <2>4. /\ \E e : Laid(p, w, st, e)
        /\ w # << >> => st # << >>
    BY <2>1, <2>2, FullIsLaid DEF Walkable
  <2>5. PICK e : Laid(p, w, st, e)
    BY <2>4
  <2>6. Len(st) \in Nat
    BY <2>5, LenProperties DEF Laid
  <2>7. /\ walk[0] = Yes(w)
        /\ \A k \in 1 .. Len(st) : walk[k] = StepTo(t, walk[k - 1], st[k])
    BY <2>6, WalkingRuns
  <2>8. walk[Len(st)] = Walked(t, o) /\ walk[Len(st)] # Nothing
    BY <2>1 DEF Walked
  <2>9. PICK b : /\ Simplify(p) = Keeping(b)
                 /\ Locate(t, IF b = <<NoName>> THEN <<NoName, NoName>> ELSE b) = walk[Len(st)]
    <3> HIDE DEF p, w, st, t, walk
    <3>1. QED BY <2>3, <2>4, <2>5, <2>7, <2>8, WalkCleans
  <2>10. /\ Simplify(p).buf = b /\ Simplify(p).state = "in"
    BY <2>9 DEF Keeping
  <2>11. /\ Abs(o).path = IF b = <<NoName>> THEN <<NoName, NoName>> ELSE b
         /\ ~Abs(o).wild
    BY <2>10 DEF Abs
  <2>12. QED BY <2>8, <2>9, <2>11
<1>2. QED BY <1>1, Invariance, PTL

\* The calls that split a path with path_dirname and path_p_basename come to
\* the entry at which a walk along the path ends, whether it is there or not,
\* unless there is a slash at the end or the walk ends at the root.
LEMMA AimIsSplit ==
  ASSUME NEW t, IsTree(t), NEW p, NEW w, NEW st, Laid(p, w, st, 0),
         NEW walk, walk[0] = Yes(w),
         \A k \in 1 .. Len(st) : walk[k] = StepTo(t, walk[k - 1], st[k]),
         Len(st) # 0,
         NEW at, at # << >>,
         IF st[Len(st)] \in Names
         THEN /\ walk[Len(st) - 1] # Nothing /\ IsDir(t, walk[Len(st) - 1].at)
              /\ at = Append(walk[Len(st) - 1].at, st[Len(st)])
         ELSE walk[Len(st)] = Yes(at) /\ Yes(at) # Nothing
  PROVE  \E r : /\ Simplify(p) = Keeping(r) /\ r # <<NoName>>
                /\ Locate(t, Dirname(r)).found = "yes"
                /\ IsDir(t, Locate(t, Dirname(r)).at)
                /\ Append(Locate(t, Dirname(r)).at, Basename(r)) = at
<1> DEFINE f == Simplifying(p)
           m == Len(w)
           n == Len(st)
<1>1. /\ m \in Nat /\ n \in Nat \ {0} /\ Len(p) = 1 + m + n
      /\ p[1 + m + n] = st[n] /\ st[n] # NoName
  <2>1. m \in Nat /\ n \in Nat \ {0}
    BY LenProperties DEF Laid
  <2>2. Len(p) = 1 + m + n
    BY <2>1 DEF Laid
  <2>3. n \in 1 .. n
    BY <2>1
  <2>4. QED BY <2>1, <2>2, <2>3 DEF Laid
<1>2. f[1 + m + n] = Put(f[1 + m + (n - 1)], st[n])
  <2>1. 1 + m + n \in 2 .. Len(p) /\ (1 + m + n) - 1 = 1 + m + (n - 1) /\ Len(p) \in Nat \ {0}
    BY <1>1
  <2>2. f[1 + m + n] = Put(f[(1 + m + n) - 1], p[1 + m + n])
    BY <2>1, SimplifyingRuns
  <2>3. QED BY <1>1, <2>1, <2>2
<1>3. Simplify(p) = f[1 + m + n]
  BY <1>1 DEF Simplify
<1>4. n \in 0 .. n /\ n - 1 \in 0 .. n /\ n > 0
  BY <1>1
<1>5. CASE st[n] \in Names
  <2> DEFINE c == st[n]
  <2>1. /\ walk[n - 1] # Nothing /\ IsDir(t, walk[n - 1].at)
        /\ at = Append(walk[n - 1].at, c)
    BY <1>5
  <2>2. PICK b, q : Shows(b, q) /\ walk[n - 1] = Yes(q) /\ f[1 + m + (n - 1)] = Keeping(b)
    BY <1>4, <2>1, WalkShows
  <2>3. Yes(q).at = q /\ Yes(q).found = "yes"
    BY DEF Yes
  <2>4. q \in DOMAIN t /\ IsDir(t, q) /\ at = Append(q, c)
    BY <2>1, <2>2, <2>3 DEF IsDir
  <2>5. c \in Names /\ Kept(c)
    BY <1>5, KeptParts DEF Clean
  <2>6. Put(Keeping(b), c) = Keeping(Append(b, c))
    BY <2>5, KeepingTurns
  <2>7. Simplify(p) = Keeping(Append(b, c))
    BY <1>2, <1>3, <2>2, <2>6
  <2>8. /\ Locate(t, Dirname(Append(b, c))) = Yes(q)
        /\ Basename(Append(b, c)) = c
        /\ Append(b, c) # <<NoName>>
    BY <2>2, <2>4, <2>5, ShownSplits
  <2>9. QED BY <2>3, <2>4, <2>7, <2>8
<1>6. CASE st[n] \notin Names
  <2>1. walk[n] = Yes(at) /\ walk[n] # Nothing
    BY <1>6
  <2>2. PICK b, q : /\ Shows(b, q) /\ walk[n] = Yes(q) /\ f[1 + m + n] = Keeping(b)
                    /\ q \in DOMAIN t
    BY <1>4, <2>1, WalkShows
  <2>3. q = at /\ Yes(q).at = q /\ Yes(q).found = "yes"
    BY <2>1, <2>2 DEF Yes
  <2>4. PICK l \in Nat \ {0} : l = Len(q)
    BY <2>2, <2>3, EmptySeq DEF Shows
  <2>5. /\ b \in Seq(Clean) /\ Len(b) = l + 1 /\ b[l + 1] = q[l] /\ q[l] \in Names
    <3>1. l \in 1 .. l
      BY <2>4
    <3>2. QED BY <2>2, <2>4, <3>1, ElementOfSeq DEF Shows
  <2>6. Last(b) # NoName
    BY <2>5, KeptParts DEF Last
  <2>7. b # << >> /\ b # <<NoName>>
    <3>1. Len(<<NoName>>) = 1 /\ Len(<< >>) = 0
      OBVIOUS
    <3>2. Len(b) # 1 /\ Len(b) # 0
      BY <2>4, <2>5
    <3>3. QED BY <3>1, <3>2
  <2>8. Locate(t, b) = Yes(q)
    BY <2>2, <2>7, ShownAnyway
  <2>9. /\ Locate(t, Dirname(b)).found = "yes"
        /\ IsDir(t, Locate(t, Dirname(b)).at)
        /\ Append(Locate(t, Dirname(b)).at, Basename(b)) = at
    BY <2>3, <2>5, <2>6, <2>7, <2>8, SplitFinds
  <2>10. Simplify(p) = Keeping(b)
    BY <1>3, <2>2
  <2>11. QED BY <2>7, <2>9, <2>10
<1>7. QED BY <1>5, <1>6

\* mkdir, rmdir, link, unlink and open come to the entry at which a walk ends
\* that goes from directory to directory along the path as it was given.
THEOREM SplitDoesAgree == Spec => []SplitAgrees
<1>1. ASSUME Inv PROVE SplitAgrees
  <2>1. SUFFICES ASSUME phase = "shell", NEW o \in Operands, Walkable(o),
                        Last(o.path) # NoName,
                        Aim(TreeAt(Abs(o).drive), o) # Nothing,
                        Aim(TreeAt(Abs(o).drive), o).at # << >>
                 PROVE  /\ ~Abs(o).wild /\ Spot(Abs(o)).parent = "yes"
                        /\ Spot(Abs(o)).path = Aim(TreeAt(Abs(o).drive), o).at
    BY DEF SplitAgrees
  <2> DEFINE p == Full(o)
             w == IF o.drive = NoDrive THEN Way(cwd.path) ELSE << >>
             st == Steps(o)
             t == TreeAt(Abs(o).drive)
             walk == Walking(t, o)
             at == Aim(t, o).at
             r == Abs(o).path
             dir == Locate(t, Dirname(r))
  <2>2. o \in AllOperands /\ Home
    BY <1>1, <2>1 DEF AllOperands, Inv, CwdOK
  <2>3. IsTree(t)
    <3> DEFINE drive == Abs(o).drive
    <3>1. drive \in Letters /\ Reach(drive) = "goes"
      BY <2>1, <2>2, AbsFacts DEF Walkable
    <3> HIDE DEF drive
    <3>2. IsTree(TreeAt(drive))
      BY <1>1, <3>1, ReachFacts
    <3>3. QED BY <3>2 DEF drive
  <2>4. Laid(p, w, st, 0) /\ (w # << >> => st # << >>)
    <3>1. PICK e : Laid(p, w, st, e) /\ (e = 1 => Last(o.path) = NoName)
      BY <2>1, <2>2, FullIsLaid DEF Walkable
    <3>2. e = 0
      BY <2>1, <3>1 DEF Laid
    <3>3. w # << >> => st # << >>
      BY <2>1, <2>2, FullIsLaid DEF Walkable
    <3>4. QED BY <3>1, <3>2, <3>3
  <2>5. Len(st) \in Nat /\ st \in Seq(Parts)
    BY <2>4, LenProperties DEF Laid
  <2>6. /\ walk[0] = Yes(w)
        /\ \A k \in 1 .. Len(st) : walk[k] = StepTo(t, walk[k - 1], st[k])
    BY <2>5, WalkingRuns
  <2>7. /\ Aim(t, o) = IF Len(st) = 0 \/ st[Len(st)] \notin Names THEN walk[Len(st)]
                       ELSE IF walk[Len(st) - 1] = Nothing \/ ~IsDir(t, walk[Len(st) - 1].at) THEN Nothing
                       ELSE Yes(Append(walk[Len(st) - 1].at, st[Len(st)]))
        /\ Aim(t, o) # Nothing /\ at # << >>
    <3> HIDE DEF t
    <3>1. Aim(t, o) = IF Len(st) = 0 \/ st[Len(st)] \notin Names THEN walk[Len(st)]
                      ELSE IF walk[Len(st) - 1] = Nothing \/ ~IsDir(t, walk[Len(st) - 1].at) THEN Nothing
                      ELSE Yes(Append(walk[Len(st) - 1].at, st[Len(st)]))
      BY Zenon DEF Aim, Walked
    <3>2. Aim(t, o) # Nothing /\ at # << >>
      BY <2>1 DEF t
    <3>3. QED BY <3>1, <3>2
  <2>8. \A q : Yes(q).at = q
    BY DEF Yes
  <2> HIDE DEF p, w, st, t, walk
  <2>9. Len(st) # 0
    <3>1. SUFFICES ASSUME Len(st) = 0 PROVE FALSE
      OBVIOUS
    <3>2. st = << >> /\ w = << >>
      BY <2>4, <2>5, <3>1, EmptySeq
    <3>3. Aim(t, o) = Yes(w)
      BY <2>6, <2>7, <3>1
    <3>4. QED BY <2>7, <2>8, <3>2, <3>3
  <2>10. Len(st) - 1 \in 0 .. Len(st) /\ Len(st) \in 0 .. Len(st)
    BY <2>5, <2>9
  <2>11. IF st[Len(st)] \in Names
         THEN /\ walk[Len(st) - 1] # Nothing /\ IsDir(t, walk[Len(st) - 1].at)
              /\ at = Append(walk[Len(st) - 1].at, st[Len(st)])
         ELSE walk[Len(st)] = Yes(at) /\ Yes(at) # Nothing
    <3>1. CASE st[Len(st)] \in Names
      BY <2>7, <2>8, <2>9, <3>1
    <3>2. CASE st[Len(st)] \notin Names
      <4>1. walk[Len(st)] = Aim(t, o) /\ walk[Len(st)] # Nothing
        BY <2>7, <3>2
      <4>2. \E b, q : Shows(b, q) /\ walk[Len(st)] = Yes(q)
        BY <2>3, <2>4, <2>6, <2>10, <4>1, WalkShows
      <4>3. PICK q : walk[Len(st)] = Yes(q)
        BY <4>2
      <4>4. QED BY <2>8, <3>2, <4>1, <4>3
    <3>3. QED BY <3>1, <3>2
  <2>12. PICK b : /\ Simplify(p) = Keeping(b) /\ b # <<NoName>>
                  /\ Locate(t, Dirname(b)).found = "yes"
                  /\ IsDir(t, Locate(t, Dirname(b)).at)
                  /\ Append(Locate(t, Dirname(b)).at, Basename(b)) = at
    <3> HIDE DEF at
    <3>1. at # << >>
      BY <2>7 DEF at
    <3>2. QED BY <2>3, <2>4, <2>6, <2>9, <2>11, <3>1, AimIsSplit, SMTT(30)
  <2>13. Simplify(p).buf = b /\ Simplify(p).state = "in"
    BY <2>12 DEF Keeping
  <2>14. r = b /\ ~Abs(o).wild
    BY <2>12, <2>13 DEF Abs, p
  <2>15. /\ Spot(Abs(o)).parent = IF dir.found = "yes" /\ ~IsDir(t, dir.at) THEN "aborts" ELSE dir.found
         /\ Spot(Abs(o)).path = Append(dir.at, Basename(r))
    BY DEF Spot, t
  <2>16. Spot(Abs(o)).parent = "yes" /\ Spot(Abs(o)).path = at
    BY <2>12, <2>14, <2>15
  <2>17. QED BY <2>14, <2>16 DEF t
<1>2. QED BY <1>1, Invariance, PTL
=============================================================================

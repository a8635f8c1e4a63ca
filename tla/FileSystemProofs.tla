-------------------------- MODULE FileSystemProofs --------------------------
(***************************************************************************)
(* Theorems about FileSystem, for every geometry the assumptions allow:    *)
(* types, formatting, fsck and the journal, in ordinary use and in every   *)
(* other, failing writes, crashes, repairs and defragmentation included.   *)
(***************************************************************************)
EXTENDS FileSystem, FiniteSetTheorems, NatLemmas, TLAPS

Disks == [FsBlocks -> BlockImages]

-----------------------------------------------------------------------------
(* The layout.                                                             *)

(* The regions of the disk lie within it and the root inode exists.        *)
LEMMA Regions ==
  /\ InodeTable \subseteq FsBlocks
  /\ DataBlocks \subseteq FsBlocks
  /\ DATA_START_BLOCK \in DataBlocks
  /\ ROOT_INODE \in InodeIds
  /\ 0 \notin FsBlocks /\ 0 \notin DataBlocks
  /\ BadPtr \notin FsBlocks /\ BadPtr \notin DataBlocks /\ BadPtr # 0
  /\ 0 \in Slots /\ 0 \in Places /\ 0 \in Lines /\ 0 \in DirectIdx
  /\ DATA_START_BLOCK \in Nat /\ TOTAL_BLOCKS \in Nat
<1> DEFINE P == InodesPerBlock
           L == CellsPerInode
<1>1. P \in Nat \ {0} /\ L \in Nat \ {0}
  <2>1. DIRECT_BLOCKS \div PointersPerCell \in Nat
    BY GeometryAssumption
  <2> QED BY <2>1, GeometryAssumption
<1>2. P * L - 1 \in Nat
  <2> HIDE DEF P, L
  <2> QED BY <1>1
<1>3. 0 \in Slots /\ 0 \in Places /\ 0 \in Lines
  BY <1>1, <1>2 DEF Slots, Places, Lines
<1> QED
  BY <1>3, GeometryAssumption
     DEF InodeTable, FsBlocks, DataBlocks, DATA_START_BLOCK, INODE_TABLE_START,
         InodeIds, ROOT_INODE, BadPtr, DirectIdx

(* The quotient and the remainder of a division are the only ones.          *)
LEMMA Division ==
  ASSUME NEW S \in Nat \ {0}, NEW q \in Int, NEW r \in 0 .. S - 1
  PROVE  (q * S + r) \div S = q /\ (q * S + r) % S = r
OBVIOUS

LEMMA DivisionOf ==
  ASSUME NEW S \in Nat \ {0}, NEW n \in Nat
  PROVE  /\ n \div S \in Nat /\ n % S \in 0 .. S - 1
         /\ (n \div S) * S + (n % S) = n
OBVIOUS

LEMMA DivisionBelow ==
  ASSUME NEW S \in Nat \ {0}, NEW T \in Nat, NEW n \in Nat, n < T * S
  PROVE  n \div S \in 0 .. T - 1
OBVIOUS

LEMMA ProductBelow ==
  ASSUME NEW S \in Nat \ {0}, NEW T \in Nat, NEW q \in 0 .. T - 1, NEW r \in 0 .. S - 1
  PROVE  q * S + r \in 0 .. T * S - 1
OBVIOUS

(* The sizes that divide a block into inodes and cells.                     *)
LEMMA Strides ==
  /\ InodesPerBlock \in Nat \ {0} /\ CellsPerInode \in Nat \ {0}
  /\ PointersPerCell \in Nat \ {0} /\ DIRECT_BLOCKS \in Nat \ {0}
  /\ DIRECT_BLOCKS < (CellsPerInode - 1) * PointersPerCell
<1> DEFINE P == PointersPerCell
           D == DIRECT_BLOCKS
           L == CellsPerInode
<1>1. /\ P \in Nat \ {0} /\ D \in Nat \ {0} /\ L \in Nat /\ L > 1 + D \div P
      /\ InodesPerBlock \in Nat \ {0}
  BY GeometryAssumption
<1> HIDE DEF P, D, L
<1>2. D \div P \in Nat /\ D % P \in 0 .. P - 1 /\ (D \div P) * P + (D % P) = D
  BY <1>1, DivisionOf
<1>3. L - 1 >= D \div P + 1
  BY <1>1, <1>2
<1>4. \A a, b \in Nat : b >= a + 1 => b * P >= a * P + P
  BY <1>1
<1>5. (L - 1) * P >= (D \div P) * P + P
  BY <1>1, <1>2, <1>3, <1>4
<1> QED BY <1>1, <1>2, <1>5 DEF P, D, L

(* A cell of a block is a line of one inode.                                *)
LEMMA CellParts ==
  ASSUME NEW s \in Slots
  PROVE  /\ PlaceOf(s) \in Places /\ LineOf(s) \in Lines
         /\ CellOf(PlaceOf(s), LineOf(s)) = s
<1> DEFINE T == InodesPerBlock
           L == CellsPerInode
<1>1. T \in Nat /\ L \in Nat \ {0}
  BY Strides
<1>2. s \in 0 .. T * L - 1
  BY DEF Slots
<1> HIDE DEF T, L
<1>3. s \in Nat /\ s < T * L
  BY <1>1, <1>2
<1>4. s \div L \in 0 .. T - 1 /\ s % L \in 0 .. L - 1 /\ (s \div L) * L + (s % L) = s
  BY <1>1, <1>3, DivisionOf, DivisionBelow
<1> QED BY <1>4 DEF PlaceOf, LineOf, CellOf, Places, Lines, T, L

LEMMA CellAt ==
  ASSUME NEW k \in Places, NEW r \in Lines
  PROVE  /\ CellOf(k, r) \in Slots
         /\ PlaceOf(CellOf(k, r)) = k /\ LineOf(CellOf(k, r)) = r
<1> DEFINE T == InodesPerBlock
           L == CellsPerInode
<1>1. T \in Nat /\ L \in Nat \ {0} /\ k \in 0 .. T - 1 /\ r \in 0 .. L - 1
  BY Strides DEF Places, Lines
<1> HIDE DEF T, L
<1>2. k \in Int /\ k * L + r \in 0 .. T * L - 1
  BY <1>1, ProductBelow
<1>3. (k * L + r) \div L = k /\ (k * L + r) % L = r
  BY <1>1, <1>2, Division
<1> QED BY <1>2, <1>3 DEF PlaceOf, LineOf, CellOf, Slots, T, L

(* A pointer of an inode is a word of one of its lines.                     *)
LEMMA PointerParts ==
  ASSUME NEW j \in 0 .. DIRECT_BLOCKS
  PROVE  LET r == 1 + j \div PointersPerCell
             w == j % PointersPerCell
         IN  /\ r \in Lines /\ r # 0 /\ w \in Words
             /\ (r - 1) * PointersPerCell + w = j
<1> DEFINE P == PointersPerCell
           L == CellsPerInode
<1>1. P \in Nat \ {0} /\ L \in Nat \ {0} /\ j \in Nat /\ j < (L - 1) * P
  <2>1. P \in Nat \ {0} /\ L \in Nat \ {0} /\ DIRECT_BLOCKS \in Nat
        /\ DIRECT_BLOCKS < (L - 1) * P
    BY Strides
  <2> HIDE DEF P, L
  <2> QED BY <2>1
<1> HIDE DEF P, L
<1>2. j \div P \in 0 .. (L - 1) - 1 /\ j % P \in 0 .. P - 1 /\ (j \div P) * P + (j % P) = j
  <2>1. L - 1 \in Nat
    BY <1>1
  <2> DEFINE T == L - 1
  <2>2. T \in Nat /\ j < T * P
    BY <1>1, <2>1
  <2> HIDE DEF T
  <2>3. j \div P \in 0 .. T - 1
    BY <1>1, <2>2, DivisionBelow
  <2>4. j % P \in 0 .. P - 1 /\ (j \div P) * P + (j % P) = j
    BY <1>1, DivisionOf
  <2> QED BY <2>3, <2>4 DEF T
<1>3. /\ 1 + j \div P \in 0 .. L - 1 /\ 1 + j \div P # 0
      /\ (1 + j \div P) - 1 = j \div P
  BY <1>1, <1>2
<1> QED BY <1>2, <1>3 DEF Lines, Words, P, L

LEMMA PointerWord ==
  ASSUME NEW r \in Lines, r # 0, NEW w \in Words
  PROVE  LET j == (r - 1) * PointersPerCell + w
         IN  /\ j \in Nat
             /\ 1 + j \div PointersPerCell = r /\ j % PointersPerCell = w
<1> DEFINE P == PointersPerCell
<1>1. P \in Nat \ {0} /\ r - 1 \in Nat /\ w \in 0 .. P - 1 /\ r \in Int
  BY Strides DEF Lines, Words
<1> HIDE DEF P
<1>2. ((r - 1) * P + w) \div P = r - 1 /\ ((r - 1) * P + w) % P = w
  <2> DEFINE q == r - 1
  <2>1. q \in Int
    BY <1>1
  <2> HIDE DEF q
  <2>2. (q * P + w) \div P = q /\ (q * P + w) % P = w
    BY <1>1, <2>1, Division
  <2> QED BY <2>2 DEF q
<1>3. (r - 1) * P + w \in Nat
  BY <1>1
<1> QED BY <1>1, <1>2, <1>3 DEF P

(* read_inode and write_inode stay within the disk for every inode id the   *)
(* bitmap can hand out, the ids beyond the inode table included.            *)
LEMMA InodeHome ==
  ASSUME NEW id \in InodeIds
  PROVE  InodeBlock(id) \in FsBlocks /\ InodeSlot(id) \in Places
<1> DEFINE S == InodesPerBlock
           T == TOTAL_BLOCKS - INODE_TABLE_START
<1>1. S \in Nat \ {0} /\ T \in Nat /\ id \in Nat /\ id < S * T
  BY GeometryAssumption DEF InodeIds, INODE_TABLE_START, DATA_START_BLOCK
<1>2. id \div S \in Nat /\ id \div S < T /\ id % S \in 0 .. S - 1
  <2> HIDE DEF S, T
  <2> QED BY <1>1
<1> QED
  BY <1>1, <1>2, GeometryAssumption
     DEF InodeBlock, InodeSlot, FsBlocks, Places, INODE_TABLE_START

-----------------------------------------------------------------------------
(* Cells and inodes.                                                        *)

LEMMA CellKinds ==
  ASSUME NEW c \in Cells
  PROVE  /\ c.kind = "header" <=> c \in Headers
         /\ c.kind = "words" <=> c \in WordCells
         /\ c.kind = "dirent" <=> c \in Dirents
         /\ c.kind = "ptr" <=> c \in PtrCells
         /\ c.kind = "zero" <=> c = ZeroCell
         /\ c.kind \in {"header", "words", "dirent", "ptr", "zero", "text", "garbage"}
BY DEF Cells, ZeroCell, GarbageCell, Headers, WordCells, Dirents, TextCells, PtrCells

LEMMA CellTypes ==
  /\ ZeroCell \in Cells /\ GarbageCell \in Cells
  /\ Headers \subseteq Cells /\ WordCells \subseteq Cells /\ Dirents \subseteq Cells
  /\ TextCells \subseteq Cells /\ PtrCells \subseteq Cells
BY DEF Cells

LEMMA HeaderOfType ==
  ASSUME NEW c \in Cells
  PROVE  /\ HeaderOf(c) = [type |-> HeaderOf(c).type, size |-> HeaderOf(c).size]
         /\ HeaderOf(c).type \in FileTypes /\ HeaderOf(c).size \in Nat
<1>1. CASE c.kind = "header"
  <2>1. c \in Headers
    BY <1>1, CellKinds
  <2> QED BY <1>1, <2>1 DEF Headers, HeaderOf
<1>2. CASE c.kind = "zero"
  BY <1>2 DEF HeaderOf, FileTypes
<1>3. CASE c.kind \notin {"header", "zero"}
  BY <1>3 DEF HeaderOf, FileTypes
<1> QED BY <1>1, <1>2, <1>3

(* Every word of a cell is null, out of range or a block of the disk.       *)
LEMMA WordsOfType ==
  ASSUME NEW c \in Cells
  PROVE  WordsOf(c) \in [Words -> Pointers]
<1>1. CASE c.kind = "words"
  <2>1. c \in WordCells
    BY <1>1, CellKinds
  <2> QED BY <1>1, <2>1 DEF WordCells, WordsOf
<1>2. CASE c.kind = "zero"
  BY <1>2 DEF WordsOf, Pointers
<1>3. CASE c.kind = "dirent"
  <2>1. c \in Dirents
    BY <1>3, CellKinds
  <2>2. PointerOf(c.id) \in Pointers
    BY DEF PointerOf, Pointers
  <2>3. \A w \in Words : w # 0 => w \in 1 .. PointersPerCell - 1
    BY Strides DEF Words
  <2>4. \A w \in Words : w # 0 => NameWords[c.name][w] \in Pointers
    <3>1. c.name \in Names
      BY <2>1 DEF Dirents
    <3>2. NameWords[c.name] \in [1 .. PointersPerCell - 1 -> Pointers]
      BY <3>1, GeometryAssumption
    <3> QED BY <2>3, <3>2
  <2> QED BY <1>3, <2>2, <2>4 DEF WordsOf
<1>4. CASE c.kind \notin {"words", "zero", "dirent"}
  BY <1>4 DEF WordsOf, Pointers
<1> QED BY <1>1, <1>2, <1>3, <1>4

LEMMA HeaderCellType ==
  ASSUME NEW type \in FileTypes, NEW size \in Nat
  PROVE  /\ HeaderCell(type, size) \in Cells
         /\ HeaderOf(HeaderCell(type, size)) = [type |-> type, size |-> size]
<1>1. CASE type = "NONE" /\ size = 0
  BY <1>1, CellTypes DEF HeaderCell, HeaderOf, ZeroCell
<1>2. CASE ~ (type = "NONE" /\ size = 0)
  <2>1. HeaderCell(type, size) = [kind |-> "header", type |-> type, size |-> size]
    BY <1>2 DEF HeaderCell
  <2>2. HeaderCell(type, size) \in Headers
    BY <2>1 DEF Headers
  <2> QED BY <2>1, <2>2, CellTypes DEF HeaderOf
<1> QED BY <1>1, <1>2

LEMMA WordCellType ==
  ASSUME NEW ws \in [Words -> Pointers]
  PROVE  WordCell(ws) \in Cells /\ WordsOf(WordCell(ws)) = ws
<1>1. CASE \A w \in Words : ws[w] = 0
  <2>1. WordCell(ws) = ZeroCell
    BY <1>1 DEF WordCell
  <2>2. WordsOf(ZeroCell) = [w \in Words |-> 0]
    BY DEF WordsOf, ZeroCell
  <2> QED BY <1>1, <2>1, <2>2, CellTypes
<1>2. CASE ~ \A w \in Words : ws[w] = 0
  <2>1. WordCell(ws) = [kind |-> "words", words |-> ws]
    BY <1>2 DEF WordCell
  <2>2. WordCell(ws) \in WordCells
    BY <2>1 DEF WordCells
  <2> QED BY <2>1, <2>2, CellTypes DEF WordsOf
<1> QED BY <1>1, <1>2

LEMMA NewInodeType ==
  ASSUME NEW type \in FileTypes
  PROVE  NewInode(type) \in Inodes
BY DEF NewInode, Inodes, Pointers

(* read_inode yields an inode whatever the bytes at its home are.           *)
LEMMA AsInodeType ==
  ASSUME NEW l \in InodeImages
  PROVE  AsInode(l) \in Inodes
<1>1. ASSUME NEW j \in 0 .. DIRECT_BLOCKS PROVE PointerIn(l, j) \in Pointers
  <2> DEFINE r == 1 + j \div PointersPerCell
             w == j % PointersPerCell
  <2>1. r \in Lines /\ w \in Words
    BY PointerParts
  <2>2. PointerIn(l, j) = WordsOf(l[r])[w]
    BY DEF PointerIn
  <2> HIDE DEF r, w
  <2>3. WordsOf(l[r]) \in [Words -> Pointers]
    BY <2>1, WordsOfType DEF InodeImages
  <2> QED BY <2>1, <2>2, <2>3
<1>2. /\ \A i \in DirectIdx : i \in 0 .. DIRECT_BLOCKS
      /\ DIRECT_BLOCKS \in 0 .. DIRECT_BLOCKS
  BY Strides DEF DirectIdx
<1>3. DirectOf(l) \in [DirectIdx -> Pointers] /\ PointerIn(l, DIRECT_BLOCKS) \in Pointers
  BY <1>1, <1>2 DEF DirectOf
<1>4. HeaderOf(l[0]).type \in FileTypes /\ HeaderOf(l[0]).size \in Nat
  BY Regions, HeaderOfType DEF InodeImages
<1> QED BY <1>3, <1>4 DEF AsInode, Inodes

LEMMA WordsWithType ==
  ASSUME NEW c \in Cells, NEW r \in Lines, r # 0, NEW ino \in Inodes
  PROVE  WordsWith(c, r, ino) \in [Words -> Pointers]
<1>1. ASSUME NEW w \in Words, NEW j \in Nat
      PROVE  (IF j < DIRECT_BLOCKS THEN ino.direct[j]
              ELSE IF j = DIRECT_BLOCKS THEN ino.ind ELSE WordsOf(c)[w]) \in Pointers
  <2>1. j < DIRECT_BLOCKS => j \in DirectIdx
    BY Strides DEF DirectIdx
  <2>2. WordsOf(c)[w] \in Pointers
    BY WordsOfType
  <2> QED BY <2>1, <2>2 DEF Inodes
<1>2. \A w \in Words : (r - 1) * PointersPerCell + w \in Nat
  BY PointerWord
<1> QED BY <1>1, <1>2 DEF WordsWith

LEMMA LineWithType ==
  ASSUME NEW c \in Cells, NEW r \in Lines, NEW ino \in Inodes
  PROVE  /\ LineWith(c, r, ino) \in Cells
         /\ r = 0 => HeaderOf(LineWith(c, r, ino)) = [type |-> ino.type, size |-> ino.size]
         /\ r # 0 => WordsOf(LineWith(c, r, ino)) = WordsWith(c, r, ino)
<1>1. CASE r = 0
  <2>1. ino.type \in FileTypes /\ ino.size \in Nat
    BY DEF Inodes
  <2> QED BY <1>1, <2>1, HeaderCellType DEF LineWith
<1>2. CASE r # 0
  BY <1>2, WordsWithType, WordCellType DEF LineWith
<1> QED BY <1>1, <1>2

(* What write_inode stores, read_inode finds.                               *)
LEMMA UpdatedInode ==
  ASSUME NEW l \in InodeImages, NEW ino \in Inodes
  PROVE  Updated(l, ino) \in InodeImages /\ AsInode(Updated(l, ino)) = ino
<1> DEFINE u == Updated(l, ino)
<1>1. \A r \in Lines : l[r] \in Cells /\ u[r] = LineWith(l[r], r, ino)
  BY DEF InodeImages, Updated
<1>2. u \in InodeImages
  BY LineWithType DEF InodeImages, Updated
<1> HIDE DEF u
<1>3. HeaderOf(u[0]) = [type |-> ino.type, size |-> ino.size]
  BY <1>1, LineWithType, Regions
<1>4. ASSUME NEW j \in 0 .. DIRECT_BLOCKS
      PROVE  PointerIn(u, j) = IF j < DIRECT_BLOCKS THEN ino.direct[j] ELSE ino.ind
  <2> DEFINE r == 1 + j \div PointersPerCell
             w == j % PointersPerCell
  <2>1. r \in Lines /\ r # 0 /\ w \in Words /\ (r - 1) * PointersPerCell + w = j
    BY PointerParts
  <2>2. PointerIn(u, j) = WordsOf(u[r])[w]
    BY DEF PointerIn
  <2>3. j \in Int /\ DIRECT_BLOCKS \in Int /\ (~ (j < DIRECT_BLOCKS) => j = DIRECT_BLOCKS)
    BY Strides
  <2> HIDE DEF r, w
  <2>4. WordsOf(u[r]) = WordsWith(l[r], r, ino)
    BY <1>1, <2>1, LineWithType
  <2>5. WordsWith(l[r], r, ino)[w]
          = IF j < DIRECT_BLOCKS THEN ino.direct[j] ELSE ino.ind
    BY <2>1, <2>3 DEF WordsWith
  <2> QED BY <2>2, <2>4, <2>5
<1>5. DirectOf(u) = ino.direct
  <2>1. \A i \in DirectIdx : i \in 0 .. DIRECT_BLOCKS /\ i < DIRECT_BLOCKS
    BY Strides DEF DirectIdx
  <2>2. \A i \in DirectIdx : PointerIn(u, i) = ino.direct[i]
    BY <1>4, <2>1
  <2>3. ino.direct = [i \in DirectIdx |-> ino.direct[i]]
    BY DEF Inodes
  <2> QED BY <2>2, <2>3 DEF DirectOf
<1>6. PointerIn(u, DIRECT_BLOCKS) = ino.ind
  BY <1>4, Strides
<1>7. AsInode(u) = ino
  BY <1>3, <1>5, <1>6 DEF AsInode, Inodes
<1> QED BY <1>2, <1>7 DEF u

(* An inode written back as it was read changes nothing.                    *)
LEMMA SameInode ==
  ASSUME NEW l \in InodeImages
  PROVE  Updated(l, AsInode(l)) = l
<1> DEFINE ino == AsInode(l)
<1>1. \A r \in Lines : l[r] \in Cells
  BY DEF InodeImages
<1>2. LineWith(l[0], 0, ino) = l[0]
  <2>1. HeaderOf(l[0]) = [type |-> HeaderOf(l[0]).type, size |-> HeaderOf(l[0]).size]
    BY <1>1, Regions, HeaderOfType
  <2>2. ino.type = HeaderOf(l[0]).type /\ ino.size = HeaderOf(l[0]).size
    BY DEF AsInode
  <2> QED BY <2>1, <2>2 DEF LineWith
<1>3. ASSUME NEW r \in Lines, r # 0
      PROVE  LineWith(l[r], r, ino) = l[r]
  <2>1. ASSUME NEW w \in Words
        PROVE  WordsWith(l[r], r, ino)[w] = WordsOf(l[r])[w]
    <3> DEFINE j == (r - 1) * PointersPerCell + w
    <3>1. /\ j \in Nat
          /\ 1 + j \div PointersPerCell = r /\ j % PointersPerCell = w
      BY <1>3, PointerWord
    <3>2. WordsWith(l[r], r, ino)[w]
            = IF j < DIRECT_BLOCKS THEN ino.direct[j]
              ELSE IF j = DIRECT_BLOCKS THEN ino.ind ELSE WordsOf(l[r])[w]
      BY DEF WordsWith
    <3> HIDE DEF j
    <3>3. PointerIn(l, j) = WordsOf(l[r])[w]
      BY <3>1 DEF PointerIn
    <3>4. j < DIRECT_BLOCKS => ino.direct[j] = PointerIn(l, j)
      <4>1. j < DIRECT_BLOCKS => j \in DirectIdx
        BY <3>1, Strides DEF DirectIdx
      <4> QED BY <4>1 DEF AsInode, DirectOf
    <3>5. ino.ind = PointerIn(l, DIRECT_BLOCKS)
      BY DEF AsInode
    <3> HIDE DEF ino
    <3> QED BY <3>2, <3>3, <3>4, <3>5
  <2>2. WordsOf(l[r]) \in [Words -> Pointers]
    BY <1>1, WordsOfType
  <2>3. WordsWith(l[r], r, ino) = WordsOf(l[r])
    BY <2>1, <2>2 DEF WordsWith
  <2> QED BY <1>3, <2>3 DEF LineWith
<1> HIDE DEF ino
<1>4. \A r \in Lines : LineWith(l[r], r, ino) = l[r]
  BY <1>2, <1>3
<1> QED BY <1>4 DEF Updated, InodeImages, ino

LEMMA BlankInodeType ==
  BlankInode \in InodeImages /\ AsInode(BlankInode) = NewInode("NONE")
<1>1. BlankInode \in InodeImages
  BY CellTypes DEF BlankInode, InodeImages
<1>2. HeaderOf(BlankInode[0]) = [type |-> "NONE", size |-> 0]
  BY Regions DEF BlankInode, HeaderOf, ZeroCell
<1>3. \A j \in 0 .. DIRECT_BLOCKS : PointerIn(BlankInode, j) = 0
  <2>1. WordsOf(ZeroCell) = [w \in Words |-> 0]
    BY DEF WordsOf, ZeroCell
  <2> QED BY <2>1, PointerParts DEF PointerIn, BlankInode
<1>4. \A i \in DirectIdx : PointerIn(BlankInode, i) = 0
  BY <1>3, Strides DEF DirectIdx
<1>5. PointerIn(BlankInode, DIRECT_BLOCKS) = 0
  BY <1>3, Strides
<1> QED BY <1>1, <1>2, <1>4, <1>5 DEF AsInode, DirectOf, NewInode

LEMMA FreshInodeType ==
  ASSUME NEW type \in FileTypes
  PROVE  FreshInode(type) \in InodeImages /\ AsInode(FreshInode(type)) = NewInode(type)
BY NewInodeType, BlankInodeType, UpdatedInode DEF FreshInode

LEMMA RootDirectoryType == RootDirectory \in Inodes
<1>1. NewInode("DIRECTORY") \in Inodes
  BY NewInodeType DEF FileTypes
<1>2. DATA_START_BLOCK \in Pointers
  BY Regions DEF Pointers
<1> QED BY <1>1, <1>2, Regions DEF RootDirectory, Inodes

-----------------------------------------------------------------------------
(* Reading and writing an inode at its home.                                *)

LEMMA ImageAtType ==
  ASSUME NEW img \in BlockImages, NEW k \in Places
  PROVE  ImageAt(img, k) \in InodeImages
BY CellAt DEF ImageAt, InodeImages, BlockImages

LEMMA InodeImageType ==
  ASSUME NEW d \in Disks, NEW id \in InodeIds
  PROVE  InodeImage(d, id) \in InodeImages
BY InodeHome, ImageAtType DEF InodeImage, Disks

LEMMA ReadInodeType ==
  ASSUME NEW d \in Disks, NEW id \in InodeIds
  PROVE  ReadInode(d, id) \in Inodes
BY InodeImageType, AsInodeType DEF ReadInode

(* The homes of inodes are told apart by block and place.                   *)
LEMMA HomesDiffer ==
  ASSUME NEW a \in InodeIds, NEW b \in InodeIds, InodeBlock(a) = InodeBlock(b),
         InodeSlot(a) = InodeSlot(b)
  PROVE  a = b
<1> DEFINE S == InodesPerBlock
<1>1. S \in Nat \ {0} /\ a \in Nat /\ b \in Nat
  BY GeometryAssumption DEF InodeIds
<1>2. a \div S = b \div S /\ a % S = b % S
  <2>1. a \div S \in Int /\ b \div S \in Int
    BY <1>1
  <2> QED BY <2>1 DEF InodeBlock, InodeSlot, INODE_TABLE_START
<1> HIDE DEF S
<1> QED BY <1>1, <1>2, DivisionOf

(* write_inode replaces the cells of one inode, in one block.               *)
LEMMA WrittenCell ==
  ASSUME NEW d, DOMAIN d = FsBlocks, NEW id \in InodeIds, NEW l,
         NEW b \in FsBlocks, NEW s \in Slots
  PROVE  WriteInode(d, id, l)[b][s]
           = IF b = InodeBlock(id) /\ PlaceOf(s) = InodeSlot(id) THEN l[LineOf(s)]
             ELSE d[b][s]
BY DEF WriteInode

LEMMA WrittenElsewhere ==
  ASSUME NEW d, DOMAIN d = FsBlocks, NEW id \in InodeIds, NEW l,
         NEW b \in FsBlocks, b # InodeBlock(id)
  PROVE  WriteInode(d, id, l)[b] = d[b]
BY DEF WriteInode

LEMMA WrittenImage ==
  ASSUME NEW d, DOMAIN d = FsBlocks, NEW id \in InodeIds, NEW l \in InodeImages,
         NEW other \in InodeIds
  PROVE  InodeImage(WriteInode(d, id, l), other)
           = IF other = id THEN l ELSE InodeImage(d, other)
<1> DEFINE e == WriteInode(d, id, l)
           b == InodeBlock(other)
           k == InodeSlot(other)
<1>1. b \in FsBlocks /\ k \in Places
  BY InodeHome
<1>2. \A r \in Lines : CellOf(k, r) \in Slots /\ PlaceOf(CellOf(k, r)) = k
                       /\ LineOf(CellOf(k, r)) = r
  BY <1>1, CellAt
<1>3. b = InodeBlock(id) /\ k = InodeSlot(id) <=> other = id
  BY HomesDiffer
<1>4. \A r \in Lines : e[b][CellOf(k, r)] = IF other = id THEN l[r] ELSE d[b][CellOf(k, r)]
  <2> HIDE DEF e, b, k
  <2>1. \A r \in Lines :
          WriteInode(d, id, l)[b][CellOf(k, r)]
            = IF b = InodeBlock(id) /\ PlaceOf(CellOf(k, r)) = InodeSlot(id)
              THEN l[LineOf(CellOf(k, r))] ELSE d[b][CellOf(k, r)]
    BY <1>1, <1>2, WrittenCell
  <2> QED BY <1>2, <1>3, <2>1 DEF e
<1>5. l = [r \in Lines |-> l[r]]
  BY DEF InodeImages
<1>6. InodeImage(e, other) = [r \in Lines |-> e[b][CellOf(k, r)]]
  BY DEF InodeImage, ImageAt
<1>7. InodeImage(d, other) = [r \in Lines |-> d[b][CellOf(k, r)]]
  BY DEF InodeImage, ImageAt
<1> HIDE DEF e, b, k
<1>8. InodeImage(e, other) = IF other = id THEN l ELSE InodeImage(d, other)
  BY <1>4, <1>5, <1>6, <1>7
<1> QED BY <1>8 DEF e

LEMMA WrittenInode ==
  ASSUME NEW d, DOMAIN d = FsBlocks, NEW id \in InodeIds, NEW l \in InodeImages,
         NEW other \in InodeIds
  PROVE  ReadInode(WriteInode(d, id, l), other)
           = IF other = id THEN AsInode(l) ELSE ReadInode(d, other)
BY WrittenImage DEF ReadInode

LEMMA WriteCellType ==
  ASSUME NEW d \in Disks, NEW b, NEW s, NEW c \in Cells
  PROVE  WriteCell(d, b, s, c) \in Disks
BY DEF WriteCell, Disks, BlockImages

LEMMA WriteInodeType ==
  ASSUME NEW d \in Disks, NEW id, NEW l \in InodeImages
  PROVE  WriteInode(d, id, l) \in Disks
<1>1. \A s \in Slots : l[LineOf(s)] \in Cells
  BY CellParts DEF InodeImages
<1> QED BY <1>1 DEF WriteInode, Disks, BlockImages

LEMMA ZeroBlocksType ==
  ASSUME NEW d \in Disks, NEW B
  PROVE  ZeroBlocks(d, B) \in Disks
BY CellTypes DEF ZeroBlocks, ZeroBlock, Disks, BlockImages

(* Every pointer read from the disk is null, out of range or a block.       *)
LEMMA PointersOfType ==
  ASSUME NEW d \in Disks, NEW b \in Pointers
  PROVE  PointersOf(d, b) \in [Slots -> Pointers]
<1>1. ASSUME NEW c \in Cells PROVE AsPointer(c) \in Pointers
  <2>1. CASE c.kind = "ptr"
    BY <2>1, CellKinds, Regions DEF AsPointer, PtrCells, Pointers
  <2>2. CASE c.kind # "ptr"
    BY <2>2 DEF AsPointer, Pointers
  <2> QED BY <2>1, <2>2
<1>2. ASSUME NEW s \in Slots, b \in FsBlocks PROVE d[b][s] \in Cells
  BY <1>2 DEF Disks, BlockImages
<1> QED BY <1>1, <1>2 DEF PointersOf

-----------------------------------------------------------------------------
(* Counting.                                                               *)

LEMMA CountType ==
  ASSUME NEW a \in Int, NEW b \in Int, NEW S \in SUBSET (a .. b)
  PROVE  Count(S) \in Nat /\ Count(S) <= Count(a .. b)
BY FS_Interval, FS_Subset, FS_CardinalityType DEF Count

LEMMA WrapType ==
  ASSUME NEW n \in Int
  PROVE  Wrap(n) \in 0 .. WORD - 1
<1>1. WORD \in Nat \ {0}
  BY ContentAssumption, GeometryAssumption
<1> QED BY <1>1 DEF Wrap

LEMMA CountPointers ==
  ASSUME NEW m \in Nat, NEW g \in [0 .. m - 1 -> Pointers]
  PROVE  FreedCount(g) \in Nat
<1>1. Reached(g) \in SUBSET (0 .. m - 1)
  BY DEF Reached
<1> QED BY <1>1, CountType DEF FreedCount

(* Only data blocks are freed: the first pointer out of range ends it.     *)
LEMMA FreedByType ==
  ASSUME NEW I \in SUBSET Int, NEW g \in [I -> Pointers]
  PROVE  FreedBy(g) \subseteq DataBlocks
BY DEF FreedBy, Reached, Freeable

LEMMA CountBlocks ==
  ASSUME NEW S \in SUBSET DataBlocks
  PROVE  Count(S) \in Nat /\ Count(S) <= Count(DataBlocks)
<1>1. DATA_START_BLOCK \in Int /\ TOTAL_BLOCKS - 1 \in Int
  BY Regions
<1>2. S \in SUBSET (DATA_START_BLOCK .. TOTAL_BLOCKS - 1)
  BY DEF DataBlocks
<1> QED BY <1>1, <1>2, CountType DEF DataBlocks

(* The counters of a fresh file system are in range.                       *)
LEMMA Sizes ==
  /\ Count(DataBlocks) = TOTAL_BLOCKS - DATA_START_BLOCK
  /\ Count(DataBlocks) \in 1 .. WORD - 1
  /\ INODE_COUNT \in 1 .. WORD - 1
<1>1. /\ DATA_START_BLOCK \in Nat /\ TOTAL_BLOCKS \in Nat
      /\ DATA_START_BLOCK < TOTAL_BLOCKS /\ WORD \in Nat /\ TOTAL_BLOCKS < WORD
  BY GeometryAssumption, ContentAssumption
     DEF DATA_START_BLOCK, INODE_TABLE_START
<1>2. Cardinality(DATA_START_BLOCK .. TOTAL_BLOCKS - 1)
        = TOTAL_BLOCKS - DATA_START_BLOCK
  BY <1>1, FS_Interval
<1>3. Count(DataBlocks) = TOTAL_BLOCKS - DATA_START_BLOCK
  BY <1>2 DEF Count, DataBlocks
<1>4. INODE_COUNT \in 1 .. WORD - 1
  BY GeometryAssumption, ContentAssumption
<1> QED BY <1>1, <1>3, <1>4

-----------------------------------------------------------------------------
(* The root directory.                                                     *)

LEMMA DirOfRoot ==
  ASSUME NEW d
  PROVE  DirOf(d) = ReadInode(d, ROOT_INODE).direct
BY DEF DirOf, ReadInode, AsInode

LEMMA DirOfType ==
  ASSUME NEW d \in Disks
  PROVE  DirOf(d) \in [DirectIdx -> Pointers]
BY ReadInodeType, Regions, DirOfRoot DEF Inodes

LEMMA MatchesType ==
  ASSUME NEW d \in Disks, RootReadable(d), NEW n, NEW p \in Matches(d, n)
  PROVE  /\ p[1] \in DirectIdx /\ p[2] \in Slots
         /\ DirOf(d)[p[1]] \in FsBlocks
         /\ EntryAt(d, p) \in Dirents
<1>1. p \in DirectIdx \X Slots /\ DirOf(d)[p[1]] # 0
  BY DEF Matches
<1>2. p[1] \in DirectIdx /\ p[2] \in Slots
  BY <1>1
<1>3. DirOf(d)[p[1]] \in FsBlocks
  BY <1>1, <1>2, DirOfType DEF RootReadable, Pointers
<1>4. EntryAt(d, p) \in Cells
  BY <1>2, <1>3, Regions DEF EntryAt, Disks, BlockImages
<1>5. EntryAt(d, p).kind = "dirent"
  BY DEF Matches, EntryAt
<1>6. EntryAt(d, p) \in Dirents
  BY <1>4, <1>5, CellKinds
<1> QED BY <1>2, <1>3, <1>6

(* find_in_root returns the id of an inode.                                *)
LEMMA IdsOfType ==
  ASSUME blk \in Disks, NEW n
  PROVE  IdsOf(n) \subseteq InodeIds
<1> SUFFICES ASSUME RootReadable(blk), NEW p \in FirstOf(Matches(blk, n))
             PROVE  EntryAt(blk, p).id \in InodeIds
  BY DEF IdsOf
<1>1. p \in Matches(blk, n)
  BY DEF FirstOf
<1> QED BY <1>1, MatchesType DEF Dirents

LEMMA EntryType ==
  ASSUME NEW n \in Names, NEW id \in InodeIds
  PROVE  Entry(n, id) \in Cells
BY DEF Entry, Cells, Dirents

LEMMA AddToRootType ==
  ASSUME NEW d \in Disks, NEW n \in Names, NEW id \in InodeIds,
         data_bm \subseteq DataBlocks, AddToRoot(d, n, id)
  PROVE  blk' \in Disks /\ data_bm' \subseteq DataBlocks
<1>1. ASSUME NEW i, NEW s,
             blk' = WriteCell(d, DirOf(d)[i], s, Entry(n, id)), UNCHANGED data_bm
      PROVE  blk' \in Disks /\ data_bm' \subseteq DataBlocks
  BY <1>1, WriteCellType, EntryType
<1>2. ASSUME NEW i \in RoomAt(d), NEW b \in LeastOf(FreeData), DirOf(d)[i] = 0,
             LET root == [ReadInode(d, ROOT_INODE) EXCEPT !.direct[i] = b]
                 d1   == WriteInode(ZeroBlocks(d, {b}), ROOT_INODE,
                                    Updated(InodeImage(d, ROOT_INODE), root))
             IN  blk' = WriteCell(d1, b, 0, Entry(n, id)),
             data_bm' = data_bm \cup {b}
      PROVE  blk' \in Disks /\ data_bm' \subseteq DataBlocks
  <2> DEFINE root == [ReadInode(d, ROOT_INODE) EXCEPT !.direct[i] = b]
             l    == Updated(InodeImage(d, ROOT_INODE), root)
             d1   == WriteInode(ZeroBlocks(d, {b}), ROOT_INODE, l)
  <2>1. i \in DirectIdx /\ b \in DataBlocks
    BY DEF RoomAt, LeastOf, FreeData
  <2>2. l \in InodeImages
    <3>1. ReadInode(d, ROOT_INODE) \in Inodes /\ b \in Pointers
      BY <2>1, ReadInodeType, Regions DEF Pointers
    <3>2. root \in Inodes
      BY <2>1, <3>1 DEF Inodes
    <3> HIDE DEF root
    <3> QED BY <3>2, Regions, InodeImageType, UpdatedInode
  <2>3. d1 \in Disks
    BY <2>2, ZeroBlocksType, WriteInodeType
  <2>4. WriteCell(d1, b, 0, Entry(n, id)) \in Disks
    BY <2>3, WriteCellType, EntryType
  <2> QED BY <1>2, <2>1, <2>4
<1>3. ASSUME blk' = d, UNCHANGED data_bm
      PROVE  blk' \in Disks /\ data_bm' \subseteq DataBlocks
  BY <1>3
<1> QED BY <1>1, <1>2, <1>3 DEF AddToRoot

LEMMA RemoveFromRootType ==
  ASSUME NEW d \in Disks, NEW n
  PROVE  RemoveFromRoot(d, n) \in Disks
BY DEF RemoveFromRoot, Disks, BlockImages, Cells

-----------------------------------------------------------------------------
(* Type correctness of the file commands, one lemma per command.           *)

LEMMA PersistType ==
  ASSUME Persist, sb' \in Superblocks,
         inode_bm' \subseteq InodeIds, data_bm' \subseteq DataBlocks
  PROVE  /\ disk_sb' \in Superblocks
         /\ disk_ibm' \subseteq InodeIds /\ disk_dbm' \subseteq DataBlocks
BY DEF Persist

LEMMA MkfsType ==
  ASSUME TypeOK, Mkfs, mounted' \in BOOLEAN
  PROVE  TypeOK'
<1>1. Updated(BlankInode, RootDirectory) \in InodeImages
  BY BlankInodeType, RootDirectoryType, UpdatedInode
<1>2. blk' \in Disks
  BY <1>1, ZeroBlocksType, WriteInodeType DEF Mkfs, TypeOK, Disks
<1>3. inode_bm' \subseteq InodeIds /\ data_bm' \subseteq DataBlocks
  BY Regions DEF Mkfs
<1>4. sb' \in Superblocks
  <2>1. WORD \in Nat
    BY ContentAssumption
  <2>2. INODE_COUNT - 1 \in 0 .. WORD - 1 /\ Count(DataBlocks) - 1 \in 0 .. WORD - 1
    BY <2>1, Sizes
  <2>3. sb' = [magic |-> TRUE, free_inodes |-> INODE_COUNT - 1,
               free_blocks |-> Count(DataBlocks) - 1, fs_state |-> CLEAN]
    BY DEF Mkfs
  <2> QED BY <2>2, <2>3 DEF Superblocks
<1>5. Persist
  BY DEF Mkfs
<1> QED BY <1>2, <1>3, <1>4, <1>5, PersistType DEF TypeOK, Disks

LEMMA ZeroSuperblockType == ZeroSuperblock \in Superblocks
BY ContentAssumption, GeometryAssumption DEF ZeroSuperblock, Superblocks

LEMMA MountType ==
  ASSUME TypeOK, Mount
  PROVE  TypeOK'
<1>1. CASE ~ disk_sb.magic /\ Mkfs
  BY <1>1, MkfsType DEF Mount
<1>2. CASE disk_sb.magic /\ ~ Mkfs
  <2>1. [disk_sb EXCEPT !.fs_state = DIRTY] \in Superblocks
    BY DEF TypeOK, Superblocks, DIRTY
  <2> QED BY <1>2, <2>1 DEF Mount, TypeOK
<1> QED BY <1>1, <1>2, MkfsType DEF Mount

LEMMA ProcessGoneType ==
  ASSUME TypeOK, ProcessGone
  PROVE  /\ sb' \in Superblocks /\ inode_bm' \subseteq InodeIds
         /\ data_bm' \subseteq DataBlocks /\ mounted' \in BOOLEAN
BY ZeroSuperblockType DEF ProcessGone

LEMMA UnmountType ==
  ASSUME TypeOK, Unmount
  PROVE  TypeOK'
<1>1. disk_sb' \in Superblocks
  BY DEF Unmount, TypeOK, Superblocks, CLEAN
<1> QED BY <1>1, ProcessGoneType DEF Unmount, TypeOK

LEMMA KillType ==
  ASSUME TypeOK, Kill
  PROVE  TypeOK'
BY ProcessGoneType DEF Kill, TypeOK, diskVars

LEMMA CreateFileType ==
  ASSUME TypeOK, NEW n \in Names, CreateFile(n)
  PROVE  TypeOK'
<1>1. PICK id \in LeastOf(FreeInodes) :
        /\ inode_bm' = inode_bm \cup {id}
        /\ AddToRoot(WriteInode(blk, id, FreshInode("REGULAR")), n, id)
  BY DEF CreateFile
<1>2. id \in InodeIds
  BY DEF LeastOf, FreeInodes
<1>3. WriteInode(blk, id, FreshInode("REGULAR")) \in Disks
  <2>1. FreshInode("REGULAR") \in InodeImages
    BY FreshInodeType DEF FileTypes
  <2> QED BY <2>1, WriteInodeType DEF TypeOK, Disks
<1>4. blk' \in Disks /\ data_bm' \subseteq DataBlocks
  BY <1>1, <1>2, <1>3, AddToRootType DEF TypeOK
<1>5. inode_bm' \subseteq InodeIds
  BY <1>1, <1>2 DEF TypeOK
<1>6. sb' \in Superblocks
  <2>1. Count(data_bm' \ data_bm) \in Nat
    BY <1>4, CountBlocks
  <2>2. sb.free_inodes \in Nat /\ sb.free_blocks \in Nat
    BY DEF TypeOK, Superblocks
  <2>3. /\ Wrap(sb.free_inodes - 1) \in 0 .. WORD - 1
        /\ Wrap(sb.free_blocks - Count(data_bm' \ data_bm)) \in 0 .. WORD - 1
    BY <2>1, <2>2, WrapType
  <2> QED BY <2>3 DEF CreateFile, TypeOK, Superblocks
<1> QED BY <1>4, <1>5, <1>6, PersistType DEF CreateFile, TypeOK, Disks

LEMMA FreedCountType ==
  ASSUME NEW d \in Disks, NEW id \in InodeIds
  PROVE  LET ino == ReadInode(d, id)
         IN  /\ FreedCount(ino.direct) \in Nat
             /\ ino.ind \in Pointers
<1>1. ReadInode(d, id).direct \in [0 .. DIRECT_BLOCKS - 1 -> Pointers]
  BY ReadInodeType DEF Inodes, DirectIdx
<1>2. DIRECT_BLOCKS \in Nat
  BY GeometryAssumption
<1> QED BY <1>1, <1>2, CountPointers, ReadInodeType DEF Inodes

LEMMA PointersCountType ==
  ASSUME NEW d \in Disks, NEW b \in Pointers
  PROVE  FreedCount(PointersOf(d, b)) \in Nat
<1> DEFINE m == InodesPerBlock * CellsPerInode
<1>1. m \in Nat /\ PointersOf(d, b) \in [0 .. m - 1 -> Pointers]
  BY PointersOfType, Strides DEF Slots
<1> HIDE DEF m
<1> QED BY <1>1, CountPointers

LEMMA DeleteFileType ==
  ASSUME TypeOK, NEW n \in Names, DeleteFile(n)
  PROVE  TypeOK'
<1>1. PICK id \in IdsOf(n) :
        LET ino  == ReadInode(blk, id)
            d1   == ZeroBlocks(blk, FreedBy(ino.direct))
            ptrs == PointersOf(d1, ino.ind)
            gone == FreedBy(ptrs) \cup ({ino.ind} \ {0})
            d2   == WriteInode(ZeroBlocks(d1, gone), id, BlankInode)
        IN  /\ blk' = RemoveFromRoot(d2, n)
            /\ data_bm' = data_bm \ (FreedBy(ino.direct) \cup gone)
            /\ inode_bm' = inode_bm \ {id}
            /\ sb' = [sb EXCEPT
                 !.free_inodes = Wrap(@ + 1),
                 !.free_blocks = Wrap(@ + FreedCount(ino.direct) + FreedCount(ptrs)
                                        + Count({ino.ind} \ {0}))]
  BY DEF DeleteFile
<1> DEFINE ino  == ReadInode(blk, id)
           d1   == ZeroBlocks(blk, FreedBy(ino.direct))
           ptrs == PointersOf(d1, ino.ind)
           gone == FreedBy(ptrs) \cup ({ino.ind} \ {0})
           d2   == WriteInode(ZeroBlocks(d1, gone), id, BlankInode)
<1>2. id \in InodeIds /\ blk \in Disks
  BY IdsOfType DEF TypeOK, Disks
<1>3. d1 \in Disks
  BY <1>2, ZeroBlocksType
<1>4. ZeroBlocks(d1, gone) \in Disks
  BY <1>3, ZeroBlocksType
<1>5. d2 \in Disks
  BY <1>4, WriteInodeType, BlankInodeType
<1>6. blk' \in Disks
  BY <1>1, <1>5, RemoveFromRootType
<1>7. inode_bm' \subseteq InodeIds /\ data_bm' \subseteq DataBlocks
  BY <1>1 DEF TypeOK
<1>8. sb' \in Superblocks
  <2> DEFINE freed == sb.free_blocks + FreedCount(ino.direct) + FreedCount(ptrs)
                        + Count({ino.ind} \ {0})
  <2>1. FreedCount(ino.direct) \in Nat /\ ino.ind \in Pointers
    BY <1>2, FreedCountType
  <2>2. FreedCount(ptrs) \in Nat
    BY <1>3, <2>1, PointersCountType
  <2>3. Count({ino.ind} \ {0}) \in Nat
    BY FS_Singleton, FS_Difference, FS_CardinalityType DEF Count
  <2>4. sb.free_inodes \in Nat /\ sb.free_blocks \in Nat
    BY DEF TypeOK, Superblocks
  <2>5. sb.free_inodes + 1 \in Int /\ freed \in Int
    BY <2>1, <2>2, <2>3, <2>4
  <2>6. Wrap(sb.free_inodes + 1) \in 0 .. WORD - 1 /\ Wrap(freed) \in 0 .. WORD - 1
    BY <2>5, WrapType
  <2>7. sb' = [sb EXCEPT !.free_inodes = Wrap(sb.free_inodes + 1),
                         !.free_blocks = Wrap(freed)]
    BY <1>1
  <2> QED BY <2>6, <2>7 DEF TypeOK, Superblocks
<1> QED BY <1>6, <1>7, <1>8, PersistType DEF DeleteFile, TypeOK, Disks

(* The allocator's results: n different blocks of S, in ascending order.   *)
LEMMA LowestType ==
  ASSUME NEW S \in SUBSET Int, NEW m \in Nat, NEW f \in Lowest(S, m)
  PROVE  f \in [1 .. m -> S]
BY DEF Lowest

LEMMA ChunkBlocksType ==
  ASSUME NEW m \in Nat, NEW f \in [1 .. m -> DataBlocks]
  PROVE  LET n == IF m <= DIRECT_BLOCKS THEN m ELSE m - 1
         IN  ChunkBlocks(f) \in [1 .. n -> DataBlocks]
<1>1. Len(f) = m
  OBVIOUS
<1>2. DIRECT_BLOCKS \in Nat
  BY GeometryAssumption
<1> QED BY <1>1, <1>2 DEF ChunkBlocks

LEMMA WriteChunksType ==
  ASSUME NEW d \in Disks, NEW c \in Contents, NEW m \in Nat,
         m <= Len(c), NEW bs \in [1 .. m -> DataBlocks]
  PROVE  WriteChunks(d, bs, c) \in Disks
<1>1. c \in Seq(Texts)
  BY ContentAssumption
<1>2. ASSUME NEW k \in DOMAIN bs PROVE Chunk(c[k]) \in BlockImages
  <2>1. c[k] \in Texts
    BY <1>1, <1>2
  <2> QED BY <2>1 DEF Chunk, BlockImages, Cells, TextCells
<1>3. ASSUME NEW b \in FsBlocks, \E k \in DOMAIN bs : bs[k] = b
      PROVE  (CHOOSE k \in DOMAIN bs : bs[k] = b) \in DOMAIN bs
  BY <1>3
<1> QED BY <1>2, <1>3 DEF WriteChunks, Disks

LEMMA WriteFileType ==
  ASSUME TypeOK, NEW n \in Names, NEW c \in Contents, WriteFile(n, c)
  PROVE  TypeOK'
<1>1. PICK id \in IdsOf(n) :
        LET ino   == ReadInode(blk, id)
            free  == FreeData \cup FreedBy(ino.direct)
            d1    == ZeroBlocks(blk, FreedBy(ino.direct))
            large == Len(c) > DIRECT_BLOCKS
        IN  /\ Intact(ino.direct)
            /\ \E f \in Lowest(free, Need(c)) :
                 LET bs   == ChunkBlocks(f)
                     d2   == WriteChunks(d1, bs, c)
                     d3   == IF large
                             THEN [d2 EXCEPT ![f[DIRECT_BLOCKS + 1]] = IndirectBlock(f)]
                             ELSE d2
                     new  == [ino EXCEPT
                                !.size   = Len(c),
                                !.direct = [i \in DirectIdx |->
                                              IF i < Len(c) THEN bs[i + 1] ELSE 0],
                                !.ind    = IF large THEN f[DIRECT_BLOCKS + 1] ELSE @]
                 IN  /\ blk' = WriteInode(d3, id, Updated(InodeImage(blk, id), new))
                     /\ data_bm' = (data_bm \ FreedBy(ino.direct)) \cup {f[i] : i \in DOMAIN f}
            /\ sb' = [sb EXCEPT !.free_blocks =
                         Wrap(@ + FreedCount(ino.direct) - Need(c))]
  BY DEF WriteFile
<1> DEFINE ino   == ReadInode(blk, id)
           free  == FreeData \cup FreedBy(ino.direct)
           d1    == ZeroBlocks(blk, FreedBy(ino.direct))
           large == Len(c) > DIRECT_BLOCKS
<1>2. PICK f \in Lowest(free, Need(c)) :
        LET bs   == ChunkBlocks(f)
            d2   == WriteChunks(d1, bs, c)
            d3   == IF large
                    THEN [d2 EXCEPT ![f[DIRECT_BLOCKS + 1]] = IndirectBlock(f)]
                    ELSE d2
            new  == [ino EXCEPT
                       !.size   = Len(c),
                       !.direct = [i \in DirectIdx |->
                                     IF i < Len(c) THEN bs[i + 1] ELSE 0],
                       !.ind    = IF large THEN f[DIRECT_BLOCKS + 1] ELSE @]
        IN  /\ blk' = WriteInode(d3, id, Updated(InodeImage(blk, id), new))
            /\ data_bm' = (data_bm \ FreedBy(ino.direct)) \cup {f[i] : i \in DOMAIN f}
  BY <1>1
<1> DEFINE bs   == ChunkBlocks(f)
           d2   == WriteChunks(d1, bs, c)
           d3   == IF large
                   THEN [d2 EXCEPT ![f[DIRECT_BLOCKS + 1]] = IndirectBlock(f)]
                   ELSE d2
           new  == [ino EXCEPT
                      !.size   = Len(c),
                      !.direct = [i \in DirectIdx |->
                                    IF i < Len(c) THEN bs[i + 1] ELSE 0],
                      !.ind    = IF large THEN f[DIRECT_BLOCKS + 1] ELSE @]
<1>3. /\ id \in InodeIds /\ blk \in Disks
      /\ ino \in Inodes /\ d1 \in Disks
  BY IdsOfType, ReadInodeType, ZeroBlocksType DEF TypeOK, Disks
<1>4. /\ Len(c) \in Nat /\ DIRECT_BLOCKS \in Nat \ {0}
      /\ Need(c) = IF large THEN Len(c) + 1 ELSE Len(c)
  BY ContentAssumption, GeometryAssumption DEF Need
<1>5. f \in [1 .. Need(c) -> DataBlocks]
  <2>1. ino.direct \in [DirectIdx -> Pointers]
    BY <1>3 DEF Inodes
  <2>2. FreedBy(ino.direct) \subseteq DataBlocks
    BY <2>1, FreedByType, GeometryAssumption DEF DirectIdx
  <2>3. free \subseteq DataBlocks
    BY <2>2 DEF FreeData
  <2>4. free \subseteq Int
    BY <2>3, Regions DEF DataBlocks
  <2> QED BY <1>4, <2>3, <2>4, LowestType
<1>6. bs \in [1 .. Len(c) -> DataBlocks]
  BY <1>4, <1>5, ChunkBlocksType
<1>7. d2 \in Disks
  BY <1>3, <1>4, <1>6, WriteChunksType
<1>8. IndirectBlock(f) \in BlockImages
  <2>1. Len(f) = Need(c)
    BY <1>4, <1>5
  <2>2. ASSUME NEW s \in Slots, DIRECT_BLOCKS + 2 + s <= Len(f)
        PROVE  f[DIRECT_BLOCKS + 2 + s] \in DataBlocks
    <3>1. s \in Nat
      BY Strides DEF Slots
    <3> QED BY <1>4, <1>5, <2>1, <2>2, <3>1
  <2> QED BY <2>2 DEF IndirectBlock, BlockImages, Cells, PtrCells
<1>9. d3 \in Disks
  BY <1>7, <1>8 DEF Disks
<1>10. Updated(InodeImage(blk, id), new) \in InodeImages
  <2> DEFINE direct == [i \in DirectIdx |-> IF i < Len(c) THEN bs[i + 1] ELSE 0]
             ind    == IF large THEN f[DIRECT_BLOCKS + 1] ELSE ino.ind
  <2>1. direct \in [DirectIdx -> {0} \cup DataBlocks]
    BY <1>4, <1>6, GeometryAssumption DEF DirectIdx
  <2>2. large => f[DIRECT_BLOCKS + 1] \in DataBlocks
    BY <1>4, <1>5
  <2>3. ind \in Pointers
    BY <1>3, <2>2, Regions DEF Inodes, Pointers
  <2>4. direct \in [DirectIdx -> Pointers]
    <3> HIDE DEF direct
    <3> QED BY <2>1, Regions DEF Pointers
  <2>5. new = [ino EXCEPT !.size = Len(c), !.direct = direct, !.ind = ind]
    OBVIOUS
  <2> HIDE DEF direct, ind
  <2>6. new \in Inodes
    BY <1>3, <1>4, <2>3, <2>4, <2>5 DEF Inodes
  <2> HIDE DEF new
  <2> QED BY <1>3, <2>6, InodeImageType, UpdatedInode
<1>11. blk' \in Disks
  BY <1>2, <1>9, <1>10, WriteInodeType
<1>12. data_bm' \subseteq DataBlocks
  BY <1>2, <1>5 DEF TypeOK
<1>13. sb' \in Superblocks
  <2>1. FreedCount(ino.direct) \in Nat
    BY <1>3, FreedCountType
  <2>2. sb.free_blocks \in Nat
    BY DEF TypeOK, Superblocks
  <2>3. sb.free_blocks + FreedCount(ino.direct) - Need(c) \in Int
    <3>1. Need(c) \in Int
      BY <1>4
    <3> HIDE DEF ino
    <3> QED BY <2>1, <2>2, <3>1
  <2>4. Wrap(sb.free_blocks + FreedCount(ino.direct) - Need(c)) \in 0 .. WORD - 1
    BY <2>3, WrapType
  <2> QED BY <1>1, <2>4 DEF TypeOK, Superblocks
<1> QED
  BY <1>11, <1>12, <1>13, PersistType DEF WriteFile, TypeOK, Disks

(* No file command leaves the types: reads and writes stay on the disk, the *)
(* counters within their width, the bitmaps within their bits.              *)
LEMMA FileNextType ==
  ASSUME TypeOK, FileNext
  PROVE  TypeOK'
<1>1. CASE Format
  BY <1>1, MkfsType DEF Format, TypeOK
<1>2. CASE Mount
  BY <1>2, MountType
<1>3. CASE Unmount
  BY <1>3, UnmountType
<1>4. CASE Kill
  BY <1>4, KillType
<1>5. CASE \E n \in Names : CreateFile(n)
  BY <1>5, CreateFileType
<1>6. CASE \E n \in Names : DeleteFile(n)
  BY <1>6, DeleteFileType
<1>7. CASE \E n \in Names : \E c \in Contents : WriteFile(n, c)
  BY <1>7, WriteFileType
<1> QED BY <1>1, <1>2, <1>3, <1>4, <1>5, <1>6, <1>7 DEF FileNext

LEMMA InitType ==
  ASSUME Init
  PROVE  TypeOK
<1>1. ZeroBlock \in BlockImages
  BY CellTypes DEF ZeroBlock, BlockImages
<1> QED BY <1>1, ZeroSuperblockType DEF Init, TypeOK

LEMMA HealthyTypes ==
  ASSUME TypeOK, [HealthyNext]_vars
  PROVE  TypeOK'
<1>1. CASE HealthyNext
  BY <1>1, FileNextType DEF HealthyNext
<1>2. CASE UNCHANGED vars
  BY <1>2 DEF vars, diskVars, memVars, TypeOK
<1> QED BY <1>1, <1>2

(* In ordinary use every command keeps the state well typed: no command     *)
(* reads or writes outside the disk or hands out an inode or block number   *)
(* that does not exist.                                                     *)
THEOREM HealthyTypeOK == HealthySpec => []TypeOK
<1>1. Init => TypeOK
  BY InitType
<1>2. TypeOK /\ [HealthyNext]_vars => TypeOK'
  BY HealthyTypes
<1> QED BY <1>1, <1>2, PTL DEF HealthySpec

LEMMA MemoryStays ==
  ASSUME MemoryOnDisk, [HealthyNext]_vars
  PROVE  MemoryOnDisk'
<1>1. CASE Format
  BY <1>1 DEF Format, Mkfs, Persist, MemoryOnDisk
<1>2. CASE Mount
  BY <1>2 DEF Mount, Mkfs, Persist, MemoryOnDisk
<1>3. CASE Unmount \/ Kill
  BY <1>3 DEF Unmount, Kill, ProcessGone, MemoryOnDisk
<1>4. ASSUME NEW n \in Names, CreateFile(n) PROVE MemoryOnDisk'
  BY <1>4 DEF CreateFile, Persist, MemoryOnDisk
<1>5. ASSUME NEW n \in Names, DeleteFile(n) PROVE MemoryOnDisk'
  BY <1>5 DEF DeleteFile, Persist, MemoryOnDisk
<1>6. ASSUME NEW n \in Names, NEW c \in Contents, WriteFile(n, c)
      PROVE  MemoryOnDisk'
  BY <1>6 DEF WriteFile, Persist, MemoryOnDisk
<1>7. CASE UNCHANGED vars
  BY <1>7 DEF vars, diskVars, memVars, MemoryOnDisk
<1> QED BY <1>1, <1>2, <1>3, <1>4, <1>5, <1>6, <1>7 DEF HealthyNext, FileNext

(* In ordinary use the disk always holds what the process knows: losing the *)
(* process between two commands loses no allocation and no count.           *)
THEOREM HealthyMemoryOnDisk == HealthySpec => []MemoryOnDisk
<1>1. Init => MemoryOnDisk
  BY DEF Init, MemoryOnDisk
<1>2. MemoryOnDisk /\ [HealthyNext]_vars => MemoryOnDisk'
  BY MemoryStays
<1> QED BY <1>1, <1>2, PTL DEF HealthySpec

-----------------------------------------------------------------------------
(* Formatting.                                                             *)

LEMMA TableHome ==
  ASSUME NEW id \in TableIds
  PROVE  InodeBlock(id) \in InodeTable /\ id \in InodeIds
<1> DEFINE S == InodesPerBlock
           T == INODE_TABLE_BLOCKS
<1>1. S \in Nat \ {0} /\ T \in Nat /\ id \in Nat /\ id < S * T
  BY GeometryAssumption DEF TableIds, InTable, InodeIds
<1>2. id \div S \in Nat /\ id \div S < T
  <2> HIDE DEF S, T
  <2> QED BY <1>1
<1> QED
  BY <1>1, <1>2 DEF InodeBlock, InodeTable, TableIds, INODE_TABLE_START,
                    DATA_START_BLOCK

(* The disk after mkfs: an inode table that is empty but for the root, and  *)
(* an empty first directory block.                                          *)
FormattedDisk(d) ==
  /\ ReadInode(d, ROOT_INODE) = RootDirectory
  /\ \A id \in TableIds \ {ROOT_INODE} : ReadInode(d, id) = NewInode("NONE")
  /\ d[DATA_START_BLOCK] = ZeroBlock

LEMMA MkfsFormats ==
  ASSUME Mkfs
  PROVE  FormattedDisk(blk')
<1> DEFINE dir == DATA_START_BLOCK
           d   == ZeroBlocks(blk, InodeTable \cup {dir})
           l   == Updated(BlankInode, RootDirectory)
<1>1. l \in InodeImages /\ AsInode(l) = RootDirectory
  BY BlankInodeType, RootDirectoryType, UpdatedInode
<1>2. /\ DOMAIN d = FsBlocks
      /\ \A b \in FsBlocks : b \in InodeTable \cup {dir} => d[b] = ZeroBlock
  BY DEF ZeroBlocks
<1>3. blk' = WriteInode(d, ROOT_INODE, l)
  BY DEF Mkfs
<1> HIDE DEF d, l
<1>4. ReadInode(blk', ROOT_INODE) = RootDirectory
  BY <1>1, <1>2, <1>3, Regions, WrittenInode
<1>5. ASSUME NEW id \in TableIds \ {ROOT_INODE}
      PROVE  ReadInode(blk', id) = NewInode("NONE")
  <2>1. id \in InodeIds /\ id # ROOT_INODE /\ InodeBlock(id) \in InodeTable
    BY TableHome
  <2>2. ReadInode(blk', id) = ReadInode(d, id)
    BY <1>1, <1>2, <1>3, <2>1, Regions, WrittenInode
  <2>3. d[InodeBlock(id)] = ZeroBlock /\ InodeSlot(id) \in Places
    BY <1>2, <2>1, InodeHome
  <2>4. InodeImage(d, id) = BlankInode
    BY <2>3, CellAt DEF InodeImage, ImageAt, ZeroBlock, BlankInode
  <2> QED BY <2>2, <2>4, BlankInodeType DEF ReadInode
<1>6. blk'[dir] = ZeroBlock
  <2>1. InodeBlock(ROOT_INODE) = INODE_TABLE_START
    BY Strides DEF InodeBlock, ROOT_INODE, INODE_TABLE_START
  <2>2. dir # InodeBlock(ROOT_INODE) /\ dir \in FsBlocks
    BY <2>1, Regions, GeometryAssumption DEF DATA_START_BLOCK, INODE_TABLE_START
  <2> HIDE DEF dir
  <2>3. d[dir] = ZeroBlock
    BY <1>2, <2>2
  <2> QED BY <1>2, <1>3, <2>2, <2>3, Regions, WrittenElsewhere
<1> QED BY <1>4, <1>5, <1>6 DEF FormattedDisk

(* A pointer of the table is read as read_inode reads it.                   *)
LEMMA PointerAtRead ==
  ASSUME NEW d, NEW r \in Sites
  PROVE  PointerAt(d, r) =
           LET ino == ReadInode(d, r[1])
           IN  IF r[2][1] = "direct" THEN ino.direct[r[2][2]]
               ELSE IF r[2][1] = "pointer" THEN PointersOf(d, ino.ind)[r[2][2]]
               ELSE ino.ind
<1>1. r[2][1] = "direct" => r[2][2] \in DirectIdx
  BY DEF Sites
<1> QED BY <1>1 DEF PointerAt, ReadInode, AsInode, DirectOf

(* The only pointer of a formatted disk is the root's first.                *)
LEMMA FormattedPointers ==
  ASSUME NEW d, FormattedDisk(d), NEW r \in Sites, PointerAt(d, r) # 0
  PROVE  r = <<ROOT_INODE, <<"direct", 0>>>> /\ PointerAt(d, r) = DATA_START_BLOCK
<1> DEFINE ino == ReadInode(d, r[1])
<1>1. /\ r[1] \in TableIds /\ r = <<r[1], r[2]>>
      /\ \/ r[2] \in {"direct"} \X DirectIdx
         \/ r[2] \in {"pointer"} \X Slots
         \/ r[2] = <<"indirect", 0>>
  BY DEF Sites
<1>2. /\ ino.ind = 0
      /\ \A i \in DirectIdx : ino.direct[i] # 0 =>
           r[1] = ROOT_INODE /\ i = 0 /\ ino.direct[i] = DATA_START_BLOCK
  <2>1. CASE r[1] = ROOT_INODE
    BY <2>1, Regions DEF FormattedDisk, RootDirectory, NewInode
  <2>2. CASE r[1] # ROOT_INODE
    BY <1>1, <2>2 DEF FormattedDisk, NewInode
  <2> QED BY <2>1, <2>2
<1>3. \A s \in Slots : PointersOf(d, ino.ind)[s] = 0
  BY <1>2, Regions DEF PointersOf
<1>4. CASE r[2] \in {"direct"} \X DirectIdx
  <2>1. r[2] = <<"direct", r[2][2]>> /\ r[2][2] \in DirectIdx
    BY <1>4
  <2>2. PointerAt(d, r) = ino.direct[r[2][2]]
    BY <2>1, PointerAtRead
  <2> QED BY <1>1, <1>2, <2>1, <2>2
<1>5. CASE r[2] \in {"pointer"} \X Slots
  <2>1. r[2][1] = "pointer" /\ r[2][2] \in Slots
    BY <1>5
  <2>2. PointerAt(d, r) = PointersOf(d, ino.ind)[r[2][2]]
    BY <2>1, PointerAtRead
  <2> QED BY <1>3, <2>1, <2>2
<1>6. CASE r[2] = <<"indirect", 0>>
  <2>1. PointerAt(d, r) = ino.ind
    BY <1>6, PointerAtRead
  <2> QED BY <1>2, <2>1
<1> QED BY <1>1, <1>4, <1>5, <1>6

(* The root directory of a formatted disk has no entry.                     *)
LEMMA FormattedDirectory ==
  ASSUME NEW d, FormattedDisk(d), NEW p \in DirectIdx \X Slots, DirOf(d)[p[1]] # 0
  PROVE  ~ EntryUsed(EntryAt(d, p))
<1>1. p[1] \in DirectIdx /\ p[2] \in Slots
  OBVIOUS
<1>2. DirOf(d)[p[1]] = DATA_START_BLOCK
  BY <1>1, Regions, DirOfRoot DEF FormattedDisk, RootDirectory, NewInode
<1>3. EntryAt(d, p) = ZeroCell
  BY <1>1, <1>2 DEF EntryAt, FormattedDisk, ZeroBlock
<1> QED BY <1>3 DEF EntryUsed, ZeroCell

(* From whatever state, of whatever types, mkfs makes everything consistent. *)
LEMMA MkfsConsistent ==
  ASSUME Mkfs
  PROVE  Consistent'
<1>1. FormattedDisk(blk')
  BY MkfsFormats
<1>2. /\ sb' = [magic |-> TRUE, free_inodes |-> INODE_COUNT - 1,
                free_blocks |-> Count(DataBlocks) - 1, fs_state |-> CLEAN]
      /\ inode_bm' = {ROOT_INODE} /\ data_bm' = {DATA_START_BLOCK}
      /\ disk_sb' = sb' /\ disk_ibm' = inode_bm' /\ disk_dbm' = data_bm'
  BY DEF Mkfs, Persist
<1>3. SingleOwner'
  BY <1>1, FormattedPointers DEF SingleOwner, Unshared
<1>4. OwnedAllocated'
  BY <1>1, <1>2, FormattedPointers DEF OwnedAllocated, Allocated
<1>5. NamesResolve'
  <2>1. UsedEntries(blk') = {}
    BY <1>1, FormattedDirectory DEF UsedEntries
  <2> QED BY <1>2, <2>1 DEF NamesResolve, Resolves, Backed, Distinct, Recorded
<1>6. CountersExact'
  <2>1. \A x : Count({x}) = 1
    BY FS_Singleton DEF Count
  <2> QED BY <1>2, <2>1 DEF CountersExact, Counted
<1>7. MemoryOnDisk'
  BY <1>2 DEF MemoryOnDisk
<1> QED BY <1>3, <1>4, <1>5, <1>6, <1>7 DEF Consistent

(* Whatever state the disk and the process are in, well typed or not,       *)
(* formatting makes them consistent again (filesystem.cpp:47-86).           *)
THEOREM FormatRestoresAll == Spec => FormatRestores
<1>1. Format => Consistent'
  BY MkfsConsistent DEF Format
<1> QED BY <1>1, PTL DEF FormatRestores

-----------------------------------------------------------------------------
(* fsck.                                                                   *)

InRange(ino) == \A i \in DirectIdx : ino.direct[i] # 0 => InFsckRange(ino.direct[i])

(* What pass 1 leaves at the home of an inode: no invalid type and no direct *)
(* pointer out of range; a valid inode keeps its type and good pointers.     *)
LEMMA RepairedInode ==
  ASSUME NEW l \in InodeImages
  PROVE  /\ Repair(l) \in InodeImages
         /\ AsInode(Repair(l)).type \in {"NONE", "REGULAR", "DIRECTORY"}
         /\ AsInode(Repair(l)).type # "NONE" =>
              /\ AsInode(Repair(l)).type = AsInode(l).type
              /\ InRange(AsInode(Repair(l)))
         /\ AsInode(l).type \in {"REGULAR", "DIRECTORY"} =>
              /\ AsInode(Repair(l)).type = AsInode(l).type
              /\ \A i \in DirectIdx :
                   AsInode(Repair(l)).direct[i]
                     = IF InFsckRange(AsInode(l).direct[i]) THEN AsInode(l).direct[i] ELSE 0
<1> DEFINE ino == AsInode(l)
           bad == {i \in DirectIdx : ino.direct[i] # 0 /\ ~ InFsckRange(ino.direct[i])}
           new == [ino EXCEPT !.direct = [i \in DirectIdx |-> IF i \in bad THEN 0 ELSE @[i]]]
<1>1. ino \in Inodes
  BY AsInodeType
<1>2. ~ InFsckRange(0)
  BY GeometryAssumption DEF InFsckRange, DATA_START_BLOCK, INODE_TABLE_START
<1>3. CASE ino.type = "NONE"
  <2>1. Repair(l) = l
    BY <1>3 DEF Repair
  <2> QED BY <1>3, <2>1
<1>4. CASE ino.type = "INVALID"
  <2>1. Repair(l) = BlankInode
    BY <1>4 DEF Repair
  <2>2. AsInode(BlankInode).type = "NONE"
    BY BlankInodeType DEF NewInode
  <2> QED BY <1>4, <2>1, <2>2, BlankInodeType
<1>5. CASE ino.type \in {"REGULAR", "DIRECTORY"}
  <2>1. Repair(l) = Updated(l, new)
    BY <1>5 DEF Repair
  <2>2. /\ new \in Inodes /\ new.type = ino.type
        /\ \A i \in DirectIdx : new.direct[i] = IF i \in bad THEN 0 ELSE ino.direct[i]
    BY <1>1 DEF Inodes, Pointers
  <2> HIDE DEF new
  <2>3. Repair(l) \in InodeImages /\ AsInode(Repair(l)) = new
    BY <2>1, <2>2, UpdatedInode
  <2>4. \A i \in DirectIdx :
          new.direct[i] = IF InFsckRange(ino.direct[i]) THEN ino.direct[i] ELSE 0
    BY <1>2, <2>2
  <2>5. InRange(new)
    BY <2>4 DEF InRange
  <2> QED BY <1>5, <2>2, <2>3, <2>4, <2>5
<1> QED BY <1>1, <1>3, <1>4, <1>5 DEF Inodes, FileTypes

(* An inode pass 1 has seen is one it leaves alone.                         *)
LEMMA RepairTwice ==
  ASSUME NEW l \in InodeImages
  PROVE  Repair(Repair(l)) = Repair(l)
<1> DEFINE r   == Repair(l)
           ino == AsInode(r)
           bad == {i \in DirectIdx : ino.direct[i] # 0 /\ ~ InFsckRange(ino.direct[i])}
<1>1. /\ r \in InodeImages
      /\ ino.type \in {"NONE", "REGULAR", "DIRECTORY"}
      /\ ino.type # "NONE" => InRange(ino)
  BY RepairedInode
<1>2. ino \in Inodes
  BY <1>1, AsInodeType
<1> HIDE DEF r
<1>3. ino.type = "NONE" => Repair(r) = r
  BY DEF Repair
<1>4. ASSUME ino.type # "NONE" PROVE Repair(r) = r
  <2>1. bad = {}
    BY <1>1, <1>4 DEF InRange
  <2>2. [ino EXCEPT !.direct = [i \in DirectIdx |-> IF i \in bad THEN 0 ELSE @[i]]] = ino
    BY <1>2, <2>1 DEF Inodes
  <2>3. Repair(r) = Updated(r, ino)
    BY <1>1, <1>4, <2>2 DEF Repair
  <2> QED BY <1>1, <2>3, SameInode
<1> QED BY <1>3, <1>4 DEF r

(* The homes of inodes after pass 1.                                        *)
LEMMA FsckHome ==
  ASSUME NEW d \in Disks, NEW b \in FsBlocks, NEW k \in Places, IsHome(b, k)
  PROVE  /\ ImageAt(d[b], k) \in InodeImages
         /\ ImageAt(FsckDisk(d)[b], k) = Repair(ImageAt(d[b], k))
<1> DEFINE l == ImageAt(d[b], k)
           e == FsckDisk(d)
<1>1. l \in InodeImages
  BY ImageAtType DEF Disks
<1>2. \A r \in Lines : CellOf(k, r) \in Slots /\ PlaceOf(CellOf(k, r)) = k
                       /\ LineOf(CellOf(k, r)) = r
  BY CellAt
<1>3. \A r \in Lines : e[b][CellOf(k, r)] = Repair(l)[r]
  BY <1>2 DEF FsckDisk
<1>4. ImageAt(e[b], k) = [r \in Lines |-> e[b][CellOf(k, r)]]
  BY DEF ImageAt
<1> HIDE DEF l, e
<1>5. Repair(l) = [r \in Lines |-> Repair(l)[r]]
  BY <1>1, RepairedInode DEF InodeImages
<1>6. ImageAt(e[b], k) = Repair(l)
  BY <1>3, <1>4, <1>5
<1> QED BY <1>1, <1>6 DEF l, e

LEMMA FsckDiskType ==
  ASSUME NEW d \in Disks
  PROVE  FsckDisk(d) \in Disks
<1>1. ASSUME NEW b \in FsBlocks, NEW s \in Slots, IsHome(b, PlaceOf(s))
      PROVE  Repair(ImageAt(d[b], PlaceOf(s)))[LineOf(s)] \in Cells
  <2>1. PlaceOf(s) \in Places /\ LineOf(s) \in Lines
    BY CellParts
  <2>2. Repair(ImageAt(d[b], PlaceOf(s))) \in InodeImages
    BY <1>1, <2>1, FsckHome, RepairedInode
  <2> QED BY <2>1, <2>2 DEF InodeImages
<1> QED BY <1>1 DEF FsckDisk, Disks, BlockImages

LEMMA FsckDiskTwice ==
  ASSUME NEW d \in Disks
  PROVE  FsckDisk(FsckDisk(d)) = FsckDisk(d)
<1> DEFINE e == FsckDisk(d)
<1>1. e \in Disks
  BY FsckDiskType
<1>2. ASSUME NEW b \in FsBlocks, NEW s \in Slots
      PROVE  FsckDisk(e)[b][s] = e[b][s]
  <2> DEFINE k == PlaceOf(s)
             r == LineOf(s)
  <2>1. k \in Places /\ r \in Lines
    BY CellParts
  <2>2. CASE IsHome(b, k)
    <3>1. e[b][s] = Repair(ImageAt(d[b], k))[r]
      BY <2>2 DEF FsckDisk
    <3>2. FsckDisk(e)[b][s] = Repair(ImageAt(e[b], k))[r]
      BY <2>2 DEF FsckDisk
    <3> HIDE DEF e, k, r
    <3>3. ImageAt(d[b], k) \in InodeImages /\ ImageAt(e[b], k) = Repair(ImageAt(d[b], k))
      BY <2>1, <2>2, FsckHome DEF e
    <3> QED BY <3>1, <3>2, <3>3, RepairTwice
  <2>3. CASE ~ IsHome(b, k)
    BY <2>3 DEF FsckDisk
  <2> QED BY <2>2, <2>3
<1>3. /\ e = [b \in FsBlocks |-> [s \in Slots |-> e[b][s]]]
      /\ FsckDisk(e) = [b \in FsBlocks |-> [s \in Slots |-> FsckDisk(e)[b][s]]]
  BY DEF FsckDisk
<1> HIDE DEF e
<1>4. FsckDisk(e) = e
  BY <1>2, <1>3
<1> QED BY <1>4 DEF e

(* read_inode after pass 1.                                                 *)
LEMMA FsckReads ==
  ASSUME NEW d \in Disks, NEW id \in InodeIds
  PROVE  /\ InodeImage(d, id) \in InodeImages
         /\ ReadInode(FsckDisk(d), id) = AsInode(Repair(InodeImage(d, id)))
<1>1. /\ InodeBlock(id) \in FsBlocks /\ InodeSlot(id) \in Places
      /\ IsHome(InodeBlock(id), InodeSlot(id))
  BY InodeHome DEF IsHome
<1> QED BY <1>1, FsckHome DEF InodeImage, ReadInode

LEMMA FsckDataKept ==
  ASSUME NEW d \in Disks
  PROVE  FsckData(FsckDisk(d)) = FsckData(d)
<1> SUFFICES ASSUME NEW b \in DataBlocks, InFsckRange(b), NEW id \in InodeIds,
                    NEW i \in DirectIdx
             PROVE  (/\ ReadInode(FsckDisk(d), id).type \in {"REGULAR", "DIRECTORY"}
                     /\ ReadInode(FsckDisk(d), id).direct[i] = b)
                    <=> (/\ ReadInode(d, id).type \in {"REGULAR", "DIRECTORY"}
                         /\ ReadInode(d, id).direct[i] = b)
  BY DEF FsckData
<1> DEFINE l == InodeImage(d, id)
<1>1. l \in InodeImages /\ ReadInode(FsckDisk(d), id) = AsInode(Repair(l))
  BY FsckReads
<1>2. ReadInode(d, id) = AsInode(l)
  BY DEF ReadInode
<1>3. b # 0
  BY Regions
<1> HIDE DEF l
<1> QED BY <1>1, <1>2, <1>3, RepairedInode

(* A second fsck finds no inode to repair and no data bit to fix, a third   *)
(* nothing at all, on every well-typed disk (filesystem.cpp:314-399).          *)
THEOREM FsckIdempotent == TypeOK => FsckConverges
<1> SUFFICES ASSUME TypeOK PROVE FsckConverges
  OBVIOUS
<1>1. blk \in Disks
  BY DEF TypeOK, Disks
<1>2. FsckDisk(FsckDisk(blk)) = FsckDisk(blk) /\ FsckData(FsckDisk(blk)) = FsckData(blk)
  BY <1>1, FsckDiskTwice, FsckDataKept
<1> QED BY <1>2 DEF FsckConverges

(* The data bits fsck sets are those of the blocks the repaired inodes      *)
(* reach: every type it counts is one it leaves, and the reverse.           *)
LEMMA FsckDataReached ==
  ASSUME NEW d \in Disks
  PROVE  FsckData(d) = {b \in Pointers \ {0} : \E id \in InodeIds, i \in DirectIdx :
                          /\ ReadInode(FsckDisk(d), id).type # "NONE"
                          /\ ReadInode(FsckDisk(d), id).direct[i] = b}
<1> DEFINE e == FsckDisk(d)
<1>1. \A id \in InodeIds :
        /\ ReadInode(e, id).type \in {"NONE", "REGULAR", "DIRECTORY"}
        /\ ReadInode(e, id).type # "NONE" => InRange(ReadInode(e, id))
  BY FsckReads, RepairedInode
<1>2. FsckData(d) = FsckData(e)
  BY FsckDataKept
<1>3. \A b \in Pointers \ {0} : InFsckRange(b) => b \in DataBlocks
  <2>1. /\ DATA_START_BLOCK \in Nat /\ TOTAL_BLOCKS \in Nat
        /\ JOURNAL_SIZE_BLOCKS \in Nat
    BY Regions, GeometryAssumption
  <2> QED BY <2>1 DEF InFsckRange, DataBlocks
<1>4. \A b \in DataBlocks : b \in Pointers \ {0}
  BY Regions DEF Pointers
<1> HIDE DEF e
<1>5. ASSUME NEW b \in FsckData(e)
      PROVE  /\ b \in Pointers \ {0}
             /\ \E id \in InodeIds, i \in DirectIdx :
                  ReadInode(e, id).type # "NONE" /\ ReadInode(e, id).direct[i] = b
  BY <1>4, <1>5 DEF FsckData
<1>6. ASSUME NEW b \in Pointers \ {0}, NEW id \in InodeIds, NEW i \in DirectIdx,
             ReadInode(e, id).type # "NONE", ReadInode(e, id).direct[i] = b
      PROVE  b \in FsckData(e)
  BY <1>1, <1>3, <1>6 DEF FsckData, InRange
<1> QED BY <1>2, <1>5, <1>6 DEF e

LEMMA DirectReached ==
  ASSUME NEW d \in Disks
  PROVE  DirectBlocks(d) = {b \in Pointers \ {0} : \E id \in InodeIds, i \in DirectIdx :
                              /\ ReadInode(d, id).type # "NONE"
                              /\ ReadInode(d, id).direct[i] = b}
<1>1. \A id \in InodeIds, i \in DirectIdx : ReadInode(d, id).direct[i] \in Pointers
  BY ReadInodeType DEF Inodes
<1> DEFINE U    == {ino \in {ReadInode(d, id) : id \in InodeIds} : ino.type # "NONE"}
           Of(u) == {u.direct[i] : i \in DirectIdx}
<1>2. ASSUME NEW b \in (UNION {Of(u) : u \in U}) \ {0}
      PROVE  /\ b \in Pointers \ {0}
             /\ \E id \in InodeIds, i \in DirectIdx :
                  ReadInode(d, id).type # "NONE" /\ ReadInode(d, id).direct[i] = b
  <2>1. PICK u \in U : b \in Of(u)
    OBVIOUS
  <2>2. PICK id \in InodeIds : u = ReadInode(d, id) /\ u.type # "NONE"
    OBVIOUS
  <2> QED BY <1>1, <2>1, <2>2
<1>3. ASSUME NEW b \in Pointers \ {0}, NEW id \in InodeIds, NEW i \in DirectIdx,
             ReadInode(d, id).type # "NONE", ReadInode(d, id).direct[i] = b
      PROVE  b \in (UNION {Of(u) : u \in U}) \ {0}
  <2>1. ReadInode(d, id) \in U /\ b \in Of(ReadInode(d, id))
    BY <1>3
  <2> HIDE DEF U, Of
  <2>2. Of(ReadInode(d, id)) \in {Of(u) : u \in U}
    BY <2>1
  <2> QED BY <2>1, <2>2
<1>4. DirectBlocks(d) = (UNION {Of(u) : u \in U}) \ {0}
  BY DEF DirectBlocks, UsedInodes
<1> HIDE DEF U, Of
<1> QED BY <1>2, <1>3, <1>4

(* While the state is well typed, every fsck leaves a data bitmap that has  *)
(* the blocks direct pointers reach and none no pointer reaches, counters   *)
(* that match both bitmaps, and all of it on disk.                          *)
THEOREM FsckLeavesAccounts == []TypeOK => FsckAccounts
<1>1. TypeOK /\ Fsck =>
        (/\ DirectBlocks(blk) \subseteq disk_dbm /\ disk_dbm \subseteq OwnedBlocks(blk)
         /\ CountersExact /\ MemoryOnDisk)'
  <2> SUFFICES ASSUME TypeOK, Fsck
               PROVE  (/\ DirectBlocks(blk) \subseteq disk_dbm
                       /\ disk_dbm \subseteq OwnedBlocks(blk)
                       /\ CountersExact /\ MemoryOnDisk)'
    OBVIOUS
  <2>1. /\ blk \in Disks /\ sb \in Superblocks
        /\ blk' = FsckDisk(blk) /\ data_bm' = FsckData(blk)
        /\ sb' = [sb EXCEPT !.free_inodes = INODE_COUNT - Count(inode_bm'),
                            !.free_blocks = Count(DataBlocks) - Count(data_bm'),
                            !.fs_state    = CLEAN]
        /\ disk_sb' = sb' /\ disk_ibm' = inode_bm' /\ disk_dbm' = data_bm'
    BY DEF TypeOK, Disks, Fsck, Persist
  <2>2. disk_dbm' = DirectBlocks(blk')
    <3>1. FsckDisk(blk) \in Disks
      BY <2>1, FsckDiskType
    <3> QED BY <2>1, <3>1, FsckDataReached, DirectReached
  <2>3. DirectBlocks(blk') \subseteq OwnedBlocks(blk')
    BY DEF OwnedBlocks
  <2>4. CountersExact'
    BY <2>1 DEF CountersExact, Counted, Superblocks
  <2>5. MemoryOnDisk'
    BY <2>1 DEF MemoryOnDisk
  <2> QED BY <2>2, <2>3, <2>4, <2>5
<1> QED BY <1>1, PTL DEF FsckAccounts

-----------------------------------------------------------------------------
(* The journal.                                                            *)

(* What a loop that copies some of the records leaves: only those records.  *)
LEMMA KeptType ==
  ASSUME NEW S, NEW s \in Seq(S), NEW K
  PROVE  Kept(s, K) \in Seq({s[i] : i \in K \cap DOMAIN s})
<1> SUFFICES ASSUME NEW n, n = Len(s), NEW e, e = <<>>,
                    NEW R, R = {s[i] : i \in K \cap DOMAIN s}, NEW V, V = Seq(R)
             PROVE  Kept(s, K) \in V
  OBVIOUS
<1>1. n \in Nat /\ DOMAIN s = 1 .. n
  OBVIOUS
<1>2. e \in V /\ \A i \in K \cap (1 .. n), v \in V : Append(v, s[i]) \in V
  BY <1>1
<1>3. PICK step \in [(1 .. n) \X V -> V] :
        \A i \in 1 .. n, v \in V :
          step[<<i, v>>] = IF i \in K THEN Append(v, s[i]) ELSE v
  <2> DEFINE step == [x \in (1 .. n) \X V |->
                        IF x[1] \in K THEN Append(x[2], s[x[1]]) ELSE x[2]]
  <2>1. step \in [(1 .. n) \X V -> V]
    BY <1>2
  <2> QED BY <2>1
<1>4. n \in Nat /\ e \in V /\ step \in [(1 .. n) \X V -> V]
  BY <1>1, <1>2
<1>5. PICK f : f \in Runs(n, V, e, step)
  BY <1>4, StepwiseExists
<1>6. /\ f \in [0 .. n -> V] /\ f[0] = e
       /\ \A i \in 1 .. n : f[i] = step[<<i, f[i - 1]>>]
  BY ONLY <1>5 DEF Runs
<1>7. \A i \in 1 .. n : f[i] = IF i \in K THEN Append(f[i - 1], s[i]) ELSE f[i - 1]
  <2>1. \A i \in 1 .. n : f[i - 1] \in V
    <3>1. \A i \in 1 .. n : i - 1 \in 0 .. n
      BY <1>1
    <3> QED BY ONLY <1>6, <3>1
  <2> QED BY <1>3, <1>6, <2>1
<1>8. f = [i \in 0 .. n |-> IF i = 0 THEN e
                              ELSE IF i \in K THEN Append(f[i - 1], s[i])
                              ELSE f[i - 1]]
  <2>1. \A i \in 0 .. n : i # 0 => i \in 1 .. n
    BY <1>1
  <2> QED BY <1>6, <1>7, <2>1
<1> DEFINE g == KeptUpTo(s, K)
<1>9. g = [i \in 0 .. n |-> IF i = 0 THEN e
                            ELSE IF i \in K THEN Append(g[i - 1], s[i])
                            ELSE g[i - 1]]
  BY <1>8 DEF KeptUpTo
<1> HIDE DEF g
<1>10. \A i \in 0 .. n : g[i] = f[i]
  <2>1. ASSUME NEW i \in 0 .. n - 1, g[i] = f[i]
        PROVE  g[i + 1] = f[i + 1]
    <3>1. i + 1 \in 0 .. n /\ i + 1 # 0 /\ (i + 1) - 1 = i
      BY <1>1
    <3>2. f[i + 1] = IF i + 1 \in K THEN Append(f[i], s[i + 1]) ELSE f[i]
      BY ONLY <1>8, <3>1
    <3>3. g[i + 1] = IF i + 1 \in K THEN Append(g[i], s[i + 1]) ELSE g[i]
      BY ONLY <1>9, <3>1
    <3> QED BY <2>1, <3>2, <3>3
  <2>2. g[0] = f[0]
    <3>1. 0 \in 0 .. n
      BY <1>1
    <3> QED BY ONLY <1>8, <1>9, <3>1
  <2> QED BY ONLY <1>1, <2>1, <2>2, AgreeUp
<1>11. n \in 0 .. n
  BY <1>1
<1>12. Kept(s, K) = g[n]
  BY DEF Kept, g
<1>13. f[n] \in V
  BY ONLY <1>6, <1>11
<1> QED BY ONLY <1>10, <1>11, <1>12, <1>13

(* The records of a journal that no command is using: marks, never images.  *)
Marks(T)      == [type : {"BEGIN", "COMMIT"}, txn : T]
Journals(T)   == [pending : Seq(Marks(T)), committed : Seq(Marks(T))]
(* A journal in which transaction t has logged the records of D.            *)
Open(T, D, t) ==
  {j \in [pending : Seq(Marks(T) \cup D), committed : Seq(Marks(T))] :
     \A r \in D : r.txn = t}
JournalMarked == \E T : journal \in Journals(T)

(* Sequences over more values.                                             *)
LEMMA SeqGrow ==
  ASSUME NEW S, NEW U, S \subseteq U
  PROVE  Seq(S) \subseteq Seq(U)
OBVIOUS

LEMMA MarksGrow ==
  ASSUME NEW T, NEW U, T \subseteq U
  PROVE  Seq(Marks(T)) \subseteq Seq(Marks(U))
<1>1. Marks(T) \subseteq Marks(U)
  BY DEF Marks
<1> QED BY ONLY <1>1

LEMMA WithoutMarks ==
  ASSUME NEW T, NEW D, NEW t, NEW s \in Seq(Marks(T) \cup D), \A r \in D : r.txn = t
  PROVE  Without(s, t) \in Seq(Marks(T))
<1> DEFINE K == {i \in DOMAIN s : s[i].txn # t}
<1>1. {s[i] : i \in K \cap DOMAIN s} \subseteq Marks(T)
  <2>1. \A i \in DOMAIN s : s[i] \in Marks(T) \cup D
    OBVIOUS
  <2> QED BY ONLY <2>1, \A r \in D : r.txn = t
<1>2. Kept(s, K) \in Seq({s[i] : i \in K \cap DOMAIN s})
  <2> HIDE DEF K
  <2> QED BY KeptType
<1>3. Kept(s, K) \in Seq(Marks(T))
  <2> HIDE DEF K
  <2> QED BY ONLY <1>1, <1>2
<1> QED BY <1>3 DEF Without

(* A transaction adds to the pending records its BEGIN and the images of    *)
(* the blocks it logs, all under its own id.                                *)
LEMMA LoggedRecords ==
  ASSUME NEW T, NEW j \in Journals(T), NEW m \in Nat, NEW B, NEW bs \in [1 .. m -> B],
         NEW images, NEW t, t = FreshTxn(j)
  PROVE  \E D : LogBlocks(BeginTransaction(j), t, bs, images) \in Open(T \cup {t}, D, t)
<1> DEFINE more == [k \in DOMAIN bs |-> DataRecord(t, bs[k], images[k])]
           D    == {more[k] : k \in 1 .. m}
           All  == Marks(T \cup {t}) \cup D
<1>1. DOMAIN bs = 1 .. m
  OBVIOUS
<1>2. more \in Seq(D)
  BY <1>1
<1>3. \A r \in D : r.txn = t
  BY <1>1 DEF DataRecord
<1>4. Append(j.pending, Record("BEGIN", t)) \in Seq(Marks(T \cup {t}))
  <2>1. Record("BEGIN", t) \in Marks(T \cup {t})
    BY DEF Record, Marks
  <2>2. j.pending \in Seq(Marks(T \cup {t}))
    <3>1. j.pending \in Seq(Marks(T))
      BY DEF Journals
    <3> QED BY <3>1, MarksGrow
  <2> QED BY ONLY <2>1, <2>2
<1>5. Append(j.pending, Record("BEGIN", t)) \o more \in Seq(All)
  <2> HIDE DEF more, D
  <2>1. Marks(T \cup {t}) \subseteq All /\ D \subseteq All
    OBVIOUS
  <2> HIDE DEF All
  <2>2. Append(j.pending, Record("BEGIN", t)) \in Seq(All)
    BY ONLY <1>4, <2>1, SeqGrow, Zenon
  <2>3. more \in Seq(All)
    BY ONLY <1>2, <2>1, SeqGrow, Zenon
  <2> QED BY ONLY <2>2, <2>3
<1>6. BeginTransaction(j) = [j EXCEPT !.pending = Append(@, Record("BEGIN", t))]
  BY DEF BeginTransaction
<1>7. LogBlocks(BeginTransaction(j), t, bs, images)
        = [pending |-> Append(j.pending, Record("BEGIN", t)) \o more,
           committed |-> j.committed]
  <2> DEFINE q == Append(j.pending, Record("BEGIN", t))
             p == j.committed
  <2>1. j = [pending |-> j.pending, committed |-> p]
    BY DEF Journals
  <2>2. BeginTransaction(j) = [pending |-> q, committed |-> p]
    <3> HIDE DEF q, p
    <3> QED BY <1>6, <2>1 DEF q
  <2> DEFINE x == BeginTransaction(j)
  <2>3. LogBlocks(x, t, bs, images) = [x EXCEPT !.pending = @ \o more]
    BY DEF LogBlocks
  <2> HIDE DEF q, p, more, x
  <2>4. LogBlocks(x, t, bs, images) = [pending |-> q \o more, committed |-> p]
    <3>1. x = [pending |-> q, committed |-> p]
      BY <2>2 DEF x
    <3>2. \A z : [x EXCEPT !.pending = z] = [pending |-> z, committed |-> p]
      BY ONLY <3>1
    <3>3. x.pending \o more = q \o more
      BY ONLY <3>1
    <3> QED BY ONLY <2>3, <3>2, <3>3, Zenon
  <2> QED BY <2>4 DEF q, p, x
<1>8. j.committed \in Seq(Marks(T \cup {t}))
  <2>1. j.committed \in Seq(Marks(T)) /\ T \subseteq T \cup {t}
    BY DEF Journals
  <2> QED BY ONLY <2>1, MarksGrow, Zenon
<1>9. LogBlocks(BeginTransaction(j), t, bs, images) \in Open(T \cup {t}, D, t)
  <2> HIDE DEF D, more
  <2> QED BY <1>3, <1>5, <1>7, <1>8 DEF Open
<1> QED BY <1>9

LEMMA CommittedMarks ==
  ASSUME NEW T, NEW D, NEW t \in T, NEW j \in Open(T, D, t)
  PROVE  Committed(j, t) \in Journals(T)
<1> USE DEF Open
<1> DEFINE all == j.committed \o Append(j.pending, Record("COMMIT", t))
<1>1. all \in Seq(Marks(T) \cup D)
  <2> DEFINE S == Marks(T) \cup D
             r == Record("COMMIT", t)
             p == j.pending
             c == j.committed
  <2>1. r \in S
    BY DEF Record, Marks
  <2>2. p \in Seq(S) /\ c \in Seq(S)
    OBVIOUS
  <2> HIDE DEF S, r, p, c
  <2>3. c \o Append(p, r) \in Seq(S)
    BY ONLY <2>1, <2>2
  <2> QED BY <2>3 DEF S, r, p, c
<1>2. Without(all, t) \in Seq(Marks(T))
  <2> HIDE DEF all
  <2> QED BY <1>1, WithoutMarks
<1>3. Committed(j, t) = [pending |-> <<>>, committed |-> Without(all, t)]
  <2>1. Commit(j, t) = [pending |-> <<>>, committed |-> all]
    <3> HIDE DEF all
    <3>1. Commit(j, t) = [j EXCEPT !.committed = all, !.pending = <<>>]
      BY DEF Commit, all
    <3>2. j = [pending |-> j.pending, committed |-> j.committed]
      OBVIOUS
    <3> QED BY ONLY <3>1, <3>2
  <2> HIDE DEF all
  <2>2. Checkpoint(Commit(j, t), t)
          = [Commit(j, t) EXCEPT !.committed = Without(Commit(j, t).committed, t)]
    BY DEF Checkpoint
  <2>3. Commit(j, t).committed = all
    BY ONLY <2>1
  <2> QED BY ONLY <2>1, <2>2, <2>3 DEF Committed
<1>4. <<>> \in Seq(Marks(T))
  OBVIOUS
<1> QED BY <1>2, <1>3, <1>4 DEF Journals

LEMMA AbortedMarks ==
  ASSUME NEW T, NEW D, NEW t, NEW j \in Open(T, D, t)
  PROVE  Abort(j, t) \in Journals(T)
<1> USE DEF Open
<1>1. Without(j.pending, t) \in Seq(Marks(T))
  <2> DEFINE p == j.pending
  <2>1. p \in Seq(Marks(T) \cup D)
    OBVIOUS
  <2> HIDE DEF p
  <2>2. Without(p, t) \in Seq(Marks(T))
    BY <2>1, WithoutMarks
  <2> QED BY <2>2 DEF p
<1>2. Abort(j, t) = [pending |-> Without(j.pending, t), committed |-> j.committed]
  BY DEF Abort
<1> QED BY <1>1, <1>2 DEF Journals

(* A transaction that logs nothing.                                         *)
LEMMA BegunMarks ==
  ASSUME NEW T, NEW j \in Journals(T)
  PROVE  /\ BeginTransaction(j) \in Journals(T \cup {FreshTxn(j)})
         /\ Committed(BeginTransaction(j), FreshTxn(j)) \in Journals(T \cup {FreshTxn(j)})
<1> DEFINE t == FreshTxn(j)
           U == T \cup {t}
           b == BeginTransaction(j)
<1> HIDE DEF t
<1>1. Append(j.pending, Record("BEGIN", t)) \in Seq(Marks(U))
  <2>1. Record("BEGIN", t) \in Marks(U)
    BY DEF Record, Marks
  <2>2. j.pending \in Seq(Marks(T)) /\ T \subseteq U
    BY DEF Journals
  <2> HIDE DEF U
  <2>3. j.pending \in Seq(Marks(U))
    BY ONLY <2>2, MarksGrow, Zenon
  <2> QED BY ONLY <2>1, <2>3
<1>2. j.committed \in Seq(Marks(U))
  <2>1. j.committed \in Seq(Marks(T)) /\ T \subseteq U
    BY DEF Journals
  <2> HIDE DEF U
  <2> QED BY ONLY <2>1, MarksGrow, Zenon
<1>3. b = [pending |-> Append(j.pending, Record("BEGIN", t)), committed |-> j.committed]
  <2> DEFINE q == Append(j.pending, Record("BEGIN", t))
             p == j.committed
  <2>1. j = [pending |-> j.pending, committed |-> p]
    BY DEF Journals
  <2>2. b = [j EXCEPT !.pending = q]
    BY DEF BeginTransaction, t
  <2> HIDE DEF q, p, b
  <2> QED BY <2>1, <2>2 DEF q, p
<1>4. b \in Journals(U)
  BY <1>1, <1>2, <1>3 DEF Journals
<1>5. b \in Open(U, {}, t) /\ t \in U
  <2>1. Marks(U) \cup {} = Marks(U)
    OBVIOUS
  <2> HIDE DEF b, U
  <2>2. b \in Open(U, {}, t)
    BY <1>4, <2>1 DEF Journals, Open
  <2> QED BY <2>2 DEF U
<1>6. Committed(b, t) \in Journals(U)
  <2> HIDE DEF b, U
  <2> QED BY <1>5, CommittedMarks
<1> QED BY <1>4, <1>6 DEF t

LEMMA AllocatedType ==
  ASSUME TypeOK, NEW id \in InodeIds, NEW m \in Nat,
         NEW f \in Lowest(FreeData \cup FreedBy(ReadInode(blk, id).direct), m)
  PROVE  f \in [1 .. m -> DataBlocks]
<1>1. ReadInode(blk, id).direct \in [DirectIdx -> Pointers]
  BY ReadInodeType DEF TypeOK, Disks, Inodes
<1>2. FreedBy(ReadInode(blk, id).direct) \subseteq DataBlocks
  BY <1>1, FreedByType, GeometryAssumption DEF DirectIdx
<1>3. FreeData \cup FreedBy(ReadInode(blk, id).direct) \subseteq DataBlocks
  BY <1>2 DEF FreeData
<1>4. DataBlocks \subseteq Int
  BY Regions DEF DataBlocks
<1> QED BY <1>3, <1>4, LowestType

(* The blocks freed or free are some of the disk's.                         *)
LEMMA FreeCountType ==
  ASSUME TypeOK, NEW id \in InodeIds
  PROVE  Count(FreeData \cup FreedBy(ReadInode(blk, id).direct)) \in Nat
<1>1. ReadInode(blk, id).direct \in [DirectIdx -> Pointers]
  BY ReadInodeType DEF TypeOK, Disks, Inodes
<1>2. FreedBy(ReadInode(blk, id).direct) \subseteq DataBlocks
  BY <1>1, FreedByType, GeometryAssumption DEF DirectIdx
<1> QED BY <1>2, CountBlocks DEF FreeData

LEMMA LoggedMarks ==
  ASSUME NEW T, journal \in Journals(T), NEW m \in Nat, NEW f \in [1 .. m -> DataBlocks],
         NEW c
  PROVE  LET t == FreshTxn(journal)
         IN  /\ Committed(Logged(f, c), t) \in Journals(T \cup {t})
             /\ Abort(Logged(f, c), t) \in Journals(T \cup {t})
<1> DEFINE t == FreshTxn(journal)
           U == T \cup {t}
           j == Logged(f, c)
           bs == ChunkBlocks(f)
           images == [k \in DOMAIN c |-> Chunk(c[k])]
           n == IF m <= DIRECT_BLOCKS THEN m ELSE m - 1
<1>1. n \in Nat /\ bs \in [1 .. n -> DataBlocks]
  <2>1. n \in Nat
    BY GeometryAssumption
  <2> QED BY <2>1, ChunkBlocksType
<1>2. j = LogBlocks(BeginTransaction(journal), t, bs, images)
  BY DEF Logged
<1> HIDE DEF bs, images, n
<1>3. PICK D : j \in Open(U, D, t)
  <2> HIDE DEF t
  <2>1. t = FreshTxn(journal) /\ journal \in Journals(T)
    BY DEF t
  <2> HIDE DEF j
  <2>2. \E D : LogBlocks(BeginTransaction(journal), t, bs, images) \in Open(T \cup {t}, D, t)
    BY ONLY <1>1, <2>1, LoggedRecords
  <2> QED BY <1>2, <2>2 DEF U
<1>4. t \in U
  OBVIOUS
<1> HIDE DEF j, U, t
<1>5. Committed(j, t) \in Journals(U) /\ Abort(j, t) \in Journals(U)
  BY <1>3, <1>4, CommittedMarks, AbortedMarks
<1> QED BY <1>5 DEF j, U, t

LEMMA MarkedStep ==
  ASSUME TypeOK, JournalMarked, [Next]_vars
  PROVE  JournalMarked'
<1> USE DEF JournalMarked
<1>1. PICK T : journal \in Journals(T)
  OBVIOUS
<1>2. NewJournal \in Journals(T)
  BY DEF NewJournal, Journals
<1>3. ASSUME journal' \in {journal, NewJournal} PROVE JournalMarked'
  BY <1>1, <1>2, <1>3
<1>4. ASSUME journal' = JournalNothing \/ JournalAbandons PROVE JournalMarked'
  BY <1>1, <1>4, BegunMarks DEF JournalNothing, JournalAbandons
<1>5. CASE Format \/ Mount \/ Unmount \/ Kill
  BY <1>3, <1>5 DEF Format, Mount, Unmount, Kill, ProcessGone
<1>6. CASE Fsck \/ Defragment \/ DefragmentThrows \/ UNCHANGED vars
  BY <1>3, <1>6 DEF Fsck, Defragment, DefragmentThrows, vars, memVars
<1>7. CASE Recover
  BY <1>3, <1>7 DEF Recover, Clear
<1>8. ASSUME NEW n \in Names, CreateFile(n) \/ DeleteFile(n) PROVE JournalMarked'
  BY <1>4, <1>8 DEF CreateFile, DeleteFile
<1>9. ASSUME NEW n \in Names, FreeingThrows(n) PROVE JournalMarked'
  BY <1>4, <1>9 DEF FreeingThrows
<1>10. ASSUME NEW n \in Names, SimulateCrash(n) PROVE JournalMarked'
  BY <1>3, <1>10 DEF SimulateCrash, memVars
<1>11. ASSUME NEW n \in Names, NEW c \in Contents, WriteFile(n, c)
       PROVE  JournalMarked'
  <2>1. PICK id \in IdsOf(n) :
          \E f \in Lowest(FreeData \cup FreedBy(ReadInode(blk, id).direct), Need(c)) :
            journal' = Committed(Logged(f, c), FreshTxn(journal))
    BY <1>11 DEF WriteFile
  <2>2. PICK f \in Lowest(FreeData \cup FreedBy(ReadInode(blk, id).direct), Need(c)) :
          journal' = Committed(Logged(f, c), FreshTxn(journal))
    BY <2>1
  <2>3. id \in InodeIds /\ Need(c) \in Nat
    BY IdsOfType, ContentAssumption DEF TypeOK, Disks, Need
  <2>4. f \in [1 .. Need(c) -> DataBlocks]
    BY <2>3, AllocatedType
  <2> QED BY <1>1, <2>2, <2>3, <2>4, LoggedMarks
<1>12. ASSUME NEW n \in Names, NEW c \in Contents, WriteDiskFull(n, c)
       PROVE  JournalMarked'
  <2>1. PICK id \in IdsOf(n) :
          \E f \in Lowest(FreeData \cup FreedBy(ReadInode(blk, id).direct),
                          Count(FreeData \cup FreedBy(ReadInode(blk, id).direct))) :
            journal' = Abort(Logged(f, c), FreshTxn(journal))
    BY <1>12 DEF WriteDiskFull
  <2> DEFINE m == Count(FreeData \cup FreedBy(ReadInode(blk, id).direct))
  <2>2. PICK f \in Lowest(FreeData \cup FreedBy(ReadInode(blk, id).direct), m) :
          journal' = Abort(Logged(f, c), FreshTxn(journal))
    BY <2>1
  <2>3. id \in InodeIds
    BY IdsOfType DEF TypeOK, Disks
  <2>4. m \in Nat
    BY <2>3, FreeCountType
  <2> HIDE DEF m
  <2>5. f \in [1 .. m -> DataBlocks]
    BY <2>3, <2>4, AllocatedType
  <2> QED BY <1>1, <2>2, <2>4, <2>5, LoggedMarks
<1> QED
  BY <1>5, <1>6, <1>7, <1>8, <1>9, <1>10, <1>11, <1>12 DEF Next, FileNext, TroubleNext

LEMMA MarkedNothing ==
  ASSUME JournalMarked
  PROVE  /\ NothingToReplay
         /\ ReplayRecords(journal) = <<>>
<1>1. PICK T : journal \in Journals(T)
  BY DEF JournalMarked
<1>2. /\ journal.pending \in Seq(Marks(T)) /\ journal.committed \in Seq(Marks(T))
      /\ \A r \in Marks(T) : r.type # "DATA_BLOCK"
  BY <1>1 DEF Journals, Marks
<1>3. NothingToReplay
  <2> DEFINE p == journal.pending
             c == journal.committed
             all == p \o c
  <2>1. p \in Seq(Marks(T)) /\ c \in Seq(Marks(T))
    BY <1>2
  <2> HIDE DEF p, c
  <2>2. all \in Seq(Marks(T))
    BY ONLY <2>1
  <2> HIDE DEF all
  <2>3. \A k \in DOMAIN all : all[k].type # "DATA_BLOCK"
    BY <1>2, <2>2
  <2> QED BY <2>3 DEF NothingToReplay, all, p, c
<1>4. ReplayRecords(journal) = <<>>
  <2> DEFINE c == journal.committed
             K == {i \in DOMAIN c : c[i].type = "DATA_BLOCK"}
  <2>1. c \in Seq(Marks(T))
    BY <1>2
  <2> HIDE DEF c
  <2>2. \A i \in DOMAIN c : c[i] \in Marks(T)
    BY ONLY <2>1
  <2>3. K = {}
    BY <1>2, <2>2
  <2>4. Kept(c, K) \in Seq({c[i] : i \in K \cap DOMAIN c})
    <3> HIDE DEF K
    <3> QED BY ONLY <2>1, KeptType
  <2>5. {c[i] : i \in K \cap DOMAIN c} = {}
    BY <2>3
  <2>6. Kept(c, K) \in Seq({})
    BY ONLY <2>4, <2>5
  <2>7. Kept(c, K) = <<>>
    <3> DEFINE s == Kept(c, K)
    <3> HIDE DEF s
    <3>1. s \in Seq({}) => s = <<>>
      OBVIOUS
    <3> QED BY <2>6, <3>1 DEF s
  <2> QED BY <2>7 DEF ReplayRecords, c
<1> QED BY <1>3, <1>4

-----------------------------------------------------------------------------
(* Type correctness of the commands of TroubleNext.                        *)

LEMMA FreeingThrowsType ==
  ASSUME TypeOK, NEW n \in Names, FreeingThrows(n)
  PROVE  TypeOK'
<1>1. PICK id \in IdsOf(n) :
        LET ino  == ReadInode(blk, id)
            d1   == ZeroBlocks(blk, FreedBy(ino.direct))
            ptrs == IF Intact(ino.direct) THEN PointersOf(d1, ino.ind)
                    ELSE [s \in Slots |-> BadPtr]
        IN  /\ blk' = ZeroBlocks(d1, FreedBy(ptrs))
            /\ data_bm' = data_bm \ (FreedBy(ino.direct) \cup FreedBy(ptrs))
            /\ sb' = [sb EXCEPT !.free_blocks =
                         Wrap(@ + FreedCount(ino.direct) + FreedCount(ptrs))]
  BY DEF FreeingThrows
<1> DEFINE ino  == ReadInode(blk, id)
           d1   == ZeroBlocks(blk, FreedBy(ino.direct))
           ptrs == IF Intact(ino.direct) THEN PointersOf(d1, ino.ind)
                   ELSE [s \in Slots |-> BadPtr]
<1>2. id \in InodeIds /\ blk \in Disks
  BY IdsOfType DEF TypeOK, Disks
<1>3. d1 \in Disks /\ ino.ind \in Pointers /\ FreedCount(ino.direct) \in Nat
  BY <1>2, ZeroBlocksType, FreedCountType
<1>4. blk' \in Disks
  BY <1>1, <1>3, ZeroBlocksType
<1>5. FreedCount(ptrs) \in Nat
  <2>1. CASE Intact(ino.direct)
    BY <1>3, <2>1, PointersCountType
  <2>2. CASE ~ Intact(ino.direct)
    <3> DEFINE m == InodesPerBlock * CellsPerInode
    <3>1. m \in Nat /\ ptrs \in [0 .. m - 1 -> Pointers]
      BY <2>2, Strides DEF Slots, Pointers
    <3> HIDE DEF m, ptrs
    <3> QED BY <3>1, CountPointers
  <2> QED BY <2>1, <2>2
<1>6. sb' \in Superblocks
  <2> DEFINE freed == sb.free_blocks + FreedCount(ino.direct) + FreedCount(ptrs)
  <2>1. sb.free_blocks \in Nat
    BY DEF TypeOK, Superblocks
  <2>2. freed \in Int
    <3> HIDE DEF ino, ptrs
    <3> QED BY <1>3, <1>5, <2>1
  <2>3. Wrap(freed) \in 0 .. WORD - 1
    <3> HIDE DEF freed
    <3> QED BY <2>2, WrapType
  <2>4. sb' = [sb EXCEPT !.free_blocks = Wrap(freed)]
    BY <1>1
  <2> HIDE DEF freed
  <2> QED BY <2>3, <2>4 DEF TypeOK, Superblocks
<1>7. data_bm' \subseteq DataBlocks
  BY <1>1 DEF TypeOK
<1> QED BY <1>4, <1>6, <1>7 DEF FreeingThrows, TypeOK, Disks

LEMMA WriteDiskFullType ==
  ASSUME TypeOK, NEW n \in Names, NEW c \in Contents, WriteDiskFull(n, c)
  PROVE  TypeOK'
<1>1. PICK id \in IdsOf(n) :
        LET ino  == ReadInode(blk, id)
            free == FreeData \cup FreedBy(ino.direct)
            d1   == ZeroBlocks(blk, FreedBy(ino.direct))
        IN  /\ Count(free) < Need(c)
            /\ \E f \in Lowest(free, Count(free)) :
                 blk' = WriteChunks(d1, ChunkBlocks(f), c)
            /\ sb' = [sb EXCEPT !.free_blocks =
                         Wrap(@ + FreedCount(ino.direct) - Count(free))]
  BY DEF WriteDiskFull
<1> DEFINE ino  == ReadInode(blk, id)
           free == FreeData \cup FreedBy(ino.direct)
           d1   == ZeroBlocks(blk, FreedBy(ino.direct))
           m    == Count(free)
           k    == IF m <= DIRECT_BLOCKS THEN m ELSE m - 1
<1>2. PICK f \in Lowest(free, m) : blk' = WriteChunks(d1, ChunkBlocks(f), c)
  BY <1>1
<1>3. id \in InodeIds /\ d1 \in Disks
  BY IdsOfType, ZeroBlocksType DEF TypeOK, Disks
<1>4. m \in Nat /\ m < Need(c)
  BY <1>1, <1>3, FreeCountType
<1>5. f \in [1 .. m -> DataBlocks]
  <2> HIDE DEF m
  <2> QED BY <1>3, <1>4, AllocatedType
<1>6. ChunkBlocks(f) \in [1 .. k -> DataBlocks]
  <2> HIDE DEF m
  <2> QED BY <1>4, <1>5, ChunkBlocksType
<1>7. k \in Nat /\ k <= Len(c)
  <2> HIDE DEF m
  <2> QED BY <1>4, GeometryAssumption, ContentAssumption DEF Need
<1>8. blk' \in Disks
  <2> HIDE DEF k, d1
  <2> QED BY <1>2, <1>3, <1>6, <1>7, WriteChunksType
<1>9. sb' \in Superblocks
  <2> DEFINE left == sb.free_blocks + FreedCount(ino.direct) - m
  <2>1. sb.free_blocks \in Nat
    BY DEF TypeOK, Superblocks
  <2>2. FreedCount(ino.direct) \in Nat
    BY <1>3, FreedCountType DEF TypeOK, Disks
  <2>3. left \in Int
    <3> HIDE DEF ino, m
    <3> QED BY <1>4, <2>1, <2>2
  <2>4. Wrap(left) \in 0 .. WORD - 1
    <3> HIDE DEF left
    <3> QED BY <2>3, WrapType
  <2>5. sb' = [sb EXCEPT !.free_blocks = Wrap(left)]
    BY <1>1
  <2> HIDE DEF left
  <2> QED BY <2>4, <2>5 DEF TypeOK, Superblocks
<1> QED BY <1>8, <1>9 DEF WriteDiskFull, TypeOK, Disks

LEMMA SimulateCrashType ==
  ASSUME TypeOK, NEW n \in Names, SimulateCrash(n)
  PROVE  TypeOK'
<1>1. [s \in Slots |-> GarbageCell] \in BlockImages
  BY DEF BlockImages, Cells
<1>2. blk' \in Disks
  BY <1>1 DEF SimulateCrash, TypeOK, Disks
<1> QED BY <1>2 DEF SimulateCrash, memVars, TypeOK, Disks

LEMMA FsckType ==
  ASSUME TypeOK, Fsck
  PROVE  TypeOK'
<1>1. blk' \in Disks
  BY FsckDiskType DEF Fsck, TypeOK, Disks
<1>2. inode_bm' \subseteq InodeIds /\ data_bm' \subseteq DataBlocks
  BY DEF Fsck, FsckInodes, FsckData
<1>3. INODE_COUNT - Count(inode_bm') \in 0 .. WORD - 1
  <2>1. Cardinality(0 .. INODE_COUNT - 1) = INODE_COUNT
    BY FS_Interval, GeometryAssumption
  <2>2. INODE_COUNT - 1 \in Int /\ inode_bm' \in SUBSET (0 .. INODE_COUNT - 1)
    BY <1>2, GeometryAssumption DEF InodeIds
  <2>3. Count(inode_bm') \in Nat /\ Count(inode_bm') <= Count(0 .. INODE_COUNT - 1)
    <3>1. 0 \in Int /\ INODE_COUNT - 1 \in Int
      BY <2>2
    <3>2. \A S \in SUBSET (0 .. INODE_COUNT - 1) :
            Count(S) \in Nat /\ Count(S) <= Count(0 .. INODE_COUNT - 1)
      BY ONLY <3>1, CountType
    <3> QED BY <2>2, <3>2
  <2>4. WORD \in Nat
    BY ContentAssumption
  <2> QED BY <2>1, <2>3, <2>4, Sizes DEF Count
<1>4. Count(DataBlocks) - Count(data_bm') \in 0 .. WORD - 1
  <2>1. Count(data_bm') \in Nat /\ Count(data_bm') <= Count(DataBlocks)
    BY <1>2, CountBlocks
  <2>2. WORD \in Nat
    BY ContentAssumption
  <2> QED BY <2>1, <2>2, Sizes
<1>5. sb' \in Superblocks
  BY <1>3, <1>4 DEF Fsck, TypeOK, Superblocks, CLEAN
<1> QED BY <1>1, <1>2, <1>5, PersistType DEF Fsck, TypeOK, Disks

(* recover finds nothing to write back.                                     *)
LEMMA RecoverType ==
  ASSUME TypeOK, JournalMarked, Recover
  PROVE  TypeOK'
<1>1. blk' = Replay(blk, <<>>)
  BY MarkedNothing DEF Recover
<1>2. blk' = [b \in FsBlocks |-> blk[b]]
  BY <1>1 DEF Replay
<1>3. blk' = blk
  BY <1>2 DEF TypeOK
<1>4. sb' \in Superblocks
  BY DEF Recover, TypeOK, Superblocks, CLEAN
<1> QED BY <1>3, <1>4 DEF Recover, TypeOK

-----------------------------------------------------------------------------
(* Defragmentation.                                                        *)

(* Sets of numbers between 0 and n.                                         *)
LEMMA FiniteCount ==
  ASSUME NEW n \in Nat, NEW S, S \subseteq 0 .. n
  PROVE  IsFiniteSet(S) /\ Count(S) \in Nat /\ (S = {} <=> Count(S) = 0)
<1>1. IsFiniteSet(0 .. n)
  BY FS_Interval
<1>2. IsFiniteSet(S)
  BY <1>1, FS_Subset
<1> QED BY <1>2, FS_CardinalityType, FS_EmptySet DEF Count

(* The number k counts the members of S up to one of them.                  *)
LEMMA RankExists ==
  ASSUME NEW n \in Nat, NEW S, S \subseteq 0 .. n, NEW k \in 1 .. Count(S)
  PROVE  \E i \in S : Count({j \in S : j <= i}) = k
<1> DEFINE Up(i) == {j \in S : j <= i}
           T     == {i \in S : k <= Count(Up(i))}
<1>0. S \subseteq Nat
  OBVIOUS
<1>1. \A i : Up(i) \subseteq 0 .. n /\ Count(Up(i)) \in Nat
  <2>1. \A i : Up(i) \subseteq 0 .. n
    OBVIOUS
  <2> HIDE DEF Up
  <2> QED BY <2>1, FiniteCount
<1>2. Count(S) \in Nat /\ k \in Nat /\ k >= 1 /\ k <= Count(S) /\ S # {}
  <2>1. Count(S) \in Nat /\ (S = {} <=> Count(S) = 0)
    BY FiniteCount
  <2> QED BY <2>1
<1>3. T \subseteq Nat /\ T # {}
  <2>1. PICK x \in S : \A y \in S : y <= x
    BY <1>2, GreatestNat
  <2>2. Up(x) = S
    BY <2>1
  <2>3. x \in T
    BY <1>2, <2>2
  <2>4. T \subseteq Nat
    BY <1>0
  <2> QED BY <2>3, <2>4
<1>4. PICK i \in T : \A y \in T : i <= y
  <2> HIDE DEF T
  <2> QED BY <1>3, LeastNat
<1> DEFINE Below == {j \in S : j < i}
<1>5. Count(Up(i)) = Count(Below) + 1 /\ Count(Below) \in Nat
  <2>1. Up(i) = Below \cup {i} /\ i \notin Below /\ Below \subseteq 0 .. n
    <3>1. i \in S /\ i \in Int /\ \A j \in S : j \in Int
      BY <1>0
    <3>2. \A j \in S : j <= i <=> (j < i \/ j = i)
      BY <3>1
    <3>3. ~ (i < i)
      BY <3>1
    <3>4. Below \subseteq 0 .. n
      OBVIOUS
    <3> QED BY <3>1, <3>2, <3>3, <3>4, Zenon
  <2>2. IsFiniteSet(Below) /\ Count(Below) \in Nat
    <3> HIDE DEF Below
    <3> QED BY <2>1, FiniteCount
  <2> HIDE DEF Below, Up
  <2> QED BY <2>1, <2>2, FS_AddElement DEF Count
<1>6. CASE Count(Up(i)) = k
  BY <1>6
<1>7. CASE Count(Up(i)) # k
  <2>1. Count(Below) >= k
    <3>1. k <= Count(Up(i)) /\ Count(Up(i)) \in Nat
      BY <1>1
    <3> HIDE DEF Up, Below, T
    <3> QED BY <1>2, <1>5, <1>7, <3>1
  <2>2. Below # {} /\ Below \subseteq 0 .. n
    <3>1. Below \subseteq 0 .. n
      OBVIOUS
    <3> HIDE DEF Below
    <3>2. Below = {} <=> Count(Below) = 0
      BY <3>1, FiniteCount
    <3> QED BY <1>2, <1>5, <2>1, <3>1, <3>2
  <2>3. PICK x \in Below : \A y \in Below : y <= x
    <3> HIDE DEF Below
    <3> QED BY <2>2, GreatestNat
  <2>4. Up(x) = Below
    <3>1. i \in Int /\ x \in Int /\ x < i /\ \A j \in S : j \in Int
      BY <1>0, <2>3
    <3>2. \A j \in S : j <= x => j < i
      BY <3>1
    <3>3. \A j \in Below : j <= x
      BY <2>3
    <3> QED BY <3>2, <3>3, Zenon
  <2>5. x \in T
    BY <2>1, <2>3, <2>4
  <2> QED BY <1>3, <1>4, <2>3, <2>5
<1> QED BY <1>6, <1>7

(* The members of a set of numbers in increasing order are its members.     *)
LEMMA AscendingLists ==
  ASSUME NEW n \in Nat, NEW S, S \subseteq 0 .. n
  PROVE  /\ Count(S) \in Nat
         /\ Ascending(S) \in [1 .. Count(S) -> S]
         /\ \A x \in S : \E k \in 1 .. Count(S) : Ascending(S)[k] = x
<1> DEFINE Up(i) == {j \in S : j <= i}
           pick(k) == CHOOSE i \in S : Count(Up(i)) = k
<1>0. \A j \in S : j \in Int
  OBVIOUS
<1>1. Count(S) \in Nat /\ IsFiniteSet(S)
  BY FiniteCount
<1>2. \A k \in 1 .. Count(S) : pick(k) \in S /\ Count(Up(pick(k))) = k
  <2> TAKE k \in 1 .. Count(S)
  <2>1. \E i \in S : Count(Up(i)) = k
    BY RankExists
  <2> QED BY <2>1
<1>3. Ascending(S) = [k \in 1 .. Count(S) |-> pick(k)]
  BY DEF Ascending, Count
<1>4. ASSUME NEW x \in S, NEW y \in S, x < y
      PROVE  Count(Up(x)) # Count(Up(y))
  <2>1. \A j \in S : j <= x => j <= y
    BY <1>0, <1>4
  <2>2. Up(x) \subseteq Up(y) /\ y \in Up(y) /\ y \notin Up(x) /\ Up(y) \subseteq S
    <3>1. y <= y /\ ~ (y <= x)
      BY <1>0, <1>4
    <3> QED BY <2>1, <3>1
  <2> HIDE DEF Up
  <2>3. IsFiniteSet(Up(y))
    BY <1>1, <2>2, FS_Subset
  <2> QED BY <2>2, <2>3, FS_Subset DEF Count
<1>5. ASSUME NEW x \in S PROVE \E k \in 1 .. Count(S) : pick(k) = x
  <2> DEFINE k == Count(Up(x))
  <2>1. Up(x) \subseteq S /\ x \in Up(x)
    OBVIOUS
  <2>2. k \in 1 .. Count(S)
    <3> HIDE DEF Up
    <3>1. IsFiniteSet(Up(x)) /\ k \in Nat /\ k <= Count(S) /\ Count(S) \in Nat
      BY <1>1, <2>1, FS_Subset, FS_CardinalityType DEF Count
    <3>2. k # 0
      BY <2>1, <3>1, FS_EmptySet DEF Count
    <3> HIDE DEF k
    <3> QED BY <3>1, <3>2
  <2>3. pick(k) \in S /\ Count(Up(pick(k))) = Count(Up(x))
    BY <1>2, <2>2
  <2> HIDE DEF pick, Up, k
  <2>4. pick(k) \in Int /\ x \in Int
    BY <1>0, <2>3
  <2>5. pick(k) = x
    BY <1>4, <2>3, <2>4
  <2> QED BY <2>2, <2>5
<1> HIDE DEF pick
<1>6. Ascending(S) \in [1 .. Count(S) -> S]
  BY <1>2, <1>3
<1> QED BY <1>1, <1>3, <1>5, <1>6

(* The blocks defragment collects for a file.                               *)
LEMMA BlocksType ==
  ASSUME TypeOK, NEW id \in Defragmented
  PROVE  /\ id \in InodeIds
         /\ Len(Blocks(id)) \in 1 .. DIRECT_BLOCKS
         /\ Blocks(id) \in [1 .. Len(Blocks(id)) -> Pointers \ {0}]
<1> DEFINE ptrs == ReadInode(blk, id).direct
           N    == NonNull(ptrs)
           m    == Count(N)
<1>1. id \in InodeIds /\ Blocks(id) # <<>>
  BY DEF Defragmented, TypeOK
<1>2. ReadInode(blk, id) \in Inodes
  BY <1>1, ReadInodeType DEF TypeOK, Disks
<1>3. ptrs \in [DirectIdx -> Pointers]
  BY <1>2 DEF Inodes
<1>4. \A i \in N : ptrs[i] \in Pointers \ {0}
  BY <1>3 DEF NonNull
<1>5. DIRECT_BLOCKS \in Nat \ {0} /\ DirectIdx = 0 .. DIRECT_BLOCKS - 1
  BY GeometryAssumption DEF DirectIdx
<1>6. N \subseteq DirectIdx
  BY <1>3 DEF NonNull
<1>7. m \in Nat /\ m <= DIRECT_BLOCKS
  <2>1. IsFiniteSet(DirectIdx) /\ Cardinality(DirectIdx) = DIRECT_BLOCKS
    BY <1>5, FS_Interval
  <2> HIDE DEF N
  <2> QED BY <1>6, <2>1, FS_Subset, FS_CardinalityType DEF Count
<1>8. Ascending(N) \in [1 .. m -> N]
  <2>1. N \subseteq 0 .. (DIRECT_BLOCKS - 1) /\ DIRECT_BLOCKS - 1 \in Nat
    BY <1>5, <1>6
  <2> HIDE DEF N
  <2> QED BY <2>1, AscendingLists
<1>9. Blocks(id) = [k \in 1 .. m |-> ptrs[Ascending(N)[k]]]
  BY <1>8 DEF Blocks
<1> HIDE DEF N, m, ptrs
<1>10. Blocks(id) \in [1 .. m -> Pointers \ {0}]
  BY <1>4, <1>8, <1>9
<1>11. Len(Blocks(id)) = m
  BY <1>7, <1>10
<1>12. m # 0
  BY <1>1, <1>9
<1> QED BY <1>1, <1>7, <1>10, <1>11, <1>12

LEMMA MoveBlockType ==
  ASSUME NEW d \in Disks, NEW old \in FsBlocks, NEW new
  PROVE  MoveBlock(d, old, new) \in Disks
BY DEF MoveBlock, Disks, ZeroBlock, BlockImages, Cells

(* Whichever of a file's blocks can be moved, the disk stays well formed.   *)
LEMMA MovedType ==
  ASSUME TypeOK, NEW id \in Defragmented, NEW d \in Disks
  PROVE  \A k \in 0 .. Len(Blocks(id)) : MovedUpTo(d, id)[k] \in Disks
<1> SUFFICES ASSUME NEW old, old = Blocks(id), NEW n, n = Len(old)
             PROVE  \A k \in 0 .. n : MovedUpTo(d, id)[k] \in Disks
  OBVIOUS
<1> DEFINE to(k)      == NewBlock(<<id, k>>)
           moves(k)   == Movable(<<id, k>>)
           next(e, k) == IF moves(k) THEN MoveBlock(e, old[k], to(k)) ELSE e
<1>1. n \in Nat /\ \A k \in 1 .. n : old[k] \in Pointers \ {0}
  <2>1. /\ Len(Blocks(id)) \in 1 .. DIRECT_BLOCKS
        /\ Blocks(id) \in [1 .. Len(Blocks(id)) -> Pointers \ {0}]
    BY BlocksType
  <2>2. n \in 1 .. DIRECT_BLOCKS /\ old \in [1 .. n -> Pointers \ {0}]
    BY <2>1, Zenon
  <2> QED BY ONLY <2>2
<1>2. \A k \in 1 .. n, e \in Disks : next(e, k) \in Disks
  <2>1. \A k \in 1 .. n : moves(k) => old[k] \in FsBlocks
    BY <1>1 DEF Movable, Pointers
  <2> HIDE DEF moves, to
  <2> QED BY <2>1, MoveBlockType
<1>3. PICK step \in [(1 .. n) \X Disks -> Disks] :
        \A k \in 1 .. n, e \in Disks : step[<<k, e>>] = next(e, k)
  <2> HIDE DEF next
  <2> DEFINE step == [x \in (1 .. n) \X Disks |-> next(x[2], x[1])]
  <2>1. step \in [(1 .. n) \X Disks -> Disks]
    BY <1>2
  <2> QED BY <2>1
<1>4. PICK f : f \in Runs(n, Disks, d, step)
  BY <1>1, StepwiseExists
<1>5. /\ f \in [0 .. n -> Disks] /\ f[0] = d
      /\ \A k \in 1 .. n : f[k] = step[<<k, f[k - 1]>>]
  BY ONLY <1>4 DEF Runs
<1>6. \A k \in 1 .. n : k - 1 \in 0 .. n
  BY <1>1
<1>7. \A k \in 1 .. n : f[k] = next(f[k - 1], k)
  <2> HIDE DEF next
  <2> QED BY <1>3, <1>5, <1>6
<1>8. f = [k \in 0 .. n |-> IF k = 0 THEN d ELSE next(f[k - 1], k)]
  <2>1. \A k \in 0 .. n : k # 0 => k \in 1 .. n
    BY <1>1
  <2> HIDE DEF next
  <2> QED BY <1>5, <1>7, <2>1
<1> DEFINE g == MovedUpTo(d, id)
<1>9. g = [k \in 0 .. n |-> IF k = 0 THEN d ELSE next(g[k - 1], k)]
  BY <1>8 DEF MovedUpTo
<1> HIDE DEF g, next
<1>10. g[0] \in Disks
  <2>1. 0 \in 0 .. n
    BY <1>1
  <2>2. g[0] = d
    BY ONLY <1>9, <2>1
  <2> QED BY <2>2
<1>11. ASSUME NEW i \in 0 .. n - 1, g[i] \in Disks
       PROVE  g[i + 1] \in Disks
  <2>1. i + 1 \in 0 .. n /\ i + 1 # 0 /\ (i + 1) - 1 = i /\ i + 1 \in 1 .. n
    BY <1>1
  <2>2. g[i + 1] = next(g[i], i + 1)
    BY ONLY <1>9, <2>1
  <2> QED BY <1>2, <1>11, <2>1, <2>2
<1>12. \A i \in 0 .. n : g[i] \in Disks
  BY <1>1, <1>10, <1>11, StaysIn
<1> QED BY <1>12 DEF g

LEMMA PackFileType ==
  ASSUME TypeOK, NEW id \in Defragmented, NEW d \in Disks
  PROVE  PackFile(d, id) \in Disks
<1> DEFINE ino == ReadInode(d, id)
           len == Len(Blocks(id))
           direct == [i \in DirectIdx |-> IF i < len THEN PointerOf(Target(id) + i)
                                          ELSE ino.direct[i]]
           new == [ino EXCEPT !.direct = direct]
           l   == Updated(InodeImage(d, id), new)
<1>1. id \in InodeIds /\ len \in 1 .. DIRECT_BLOCKS
  BY BlocksType
<1>2. ino \in Inodes
  BY <1>1, ReadInodeType
<1>3. direct \in [DirectIdx -> Pointers]
  <2>1. \A x : PointerOf(x) \in Pointers
    BY DEF PointerOf, Pointers
  <2>2. ino.direct \in [DirectIdx -> Pointers]
    BY <1>2 DEF Inodes
  <2> HIDE DEF len, ino
  <2> QED BY <2>1, <2>2
<1>4. l \in InodeImages
  <2>1. new \in Inodes
    <3> HIDE DEF direct, ino
    <3> QED BY <1>2, <1>3 DEF Inodes
  <2> HIDE DEF new
  <2> QED BY <1>1, <2>1, InodeImageType, UpdatedInode
<1>5. PackFile(d, id) = WriteInode(MovedUpTo(d, id)[len], id, l)
  BY DEF PackFile
<1>6. MovedUpTo(d, id)[len] \in Disks
  <2>1. len \in 0 .. len
    BY <1>1
  <2> QED BY <2>1, MovedType
<1> QED BY <1>4, <1>5, <1>6, WriteInodeType

LEMMA PackedType ==
  ASSUME TypeOK
  PROVE  \A k \in 0 .. INODE_COUNT : PackedUpTo[k] \in Disks
<1> SUFFICES ASSUME NEW n, n = INODE_COUNT, NEW d, d = blk, NEW D, D = Defragmented
             PROVE  \A k \in 0 .. n : PackedUpTo[k] \in Disks
  OBVIOUS
<1>1. n \in Nat /\ d \in Disks
  BY GeometryAssumption DEF TypeOK, Disks
<1>2. \A id \in D, e \in Disks : PackFile(e, id) \in Disks
  BY PackFileType
<1>3. PICK step \in [(1 .. n) \X Disks -> Disks] :
        \A k \in 1 .. n, e \in Disks :
          step[<<k, e>>] = IF k - 1 \in D THEN PackFile(e, k - 1) ELSE e
  <2> DEFINE step == [x \in (1 .. n) \X Disks |->
                        IF x[1] - 1 \in D THEN PackFile(x[2], x[1] - 1) ELSE x[2]]
  <2>1. step \in [(1 .. n) \X Disks -> Disks]
    BY <1>2
  <2> QED BY <2>1
<1>4. PICK f : f \in Runs(n, Disks, d, step)
  BY <1>1, StepwiseExists
<1>5. /\ f \in [0 .. n -> Disks] /\ f[0] = d
      /\ \A k \in 1 .. n : f[k] = step[<<k, f[k - 1]>>]
  BY ONLY <1>4 DEF Runs
<1>6. \A k \in 1 .. n : k - 1 \in 0 .. n
  BY <1>1
<1>7. \A k \in 1 .. n :
        f[k] = IF k - 1 \in D THEN PackFile(f[k - 1], k - 1) ELSE f[k - 1]
  BY <1>3, <1>5, <1>6
<1>8. f = [k \in 0 .. n |-> IF k = 0 THEN d
                            ELSE IF k - 1 \in D THEN PackFile(f[k - 1], k - 1)
                                 ELSE f[k - 1]]
  <2>1. \A k \in 0 .. n : k # 0 => k \in 1 .. n
    BY <1>1
  <2> QED BY <1>5, <1>7, <2>1
<1> DEFINE g == PackedUpTo
<1>9. g = [k \in 0 .. n |-> IF k = 0 THEN d
                            ELSE IF k - 1 \in D THEN PackFile(g[k - 1], k - 1)
                                 ELSE g[k - 1]]
  BY <1>8 DEF PackedUpTo
<1> HIDE DEF g
<1>10. g[0] \in Disks
  <2>1. 0 \in 0 .. n
    BY <1>1
  <2>2. g[0] = d
    BY ONLY <1>9, <2>1
  <2> QED BY <1>1, <2>2
<1>11. ASSUME NEW i \in 0 .. n - 1, g[i] \in Disks
       PROVE  g[i + 1] \in Disks
  <2>1. i + 1 \in 0 .. n /\ i + 1 # 0 /\ (i + 1) - 1 = i
    BY <1>1
  <2>2. g[i + 1] = IF i \in D THEN PackFile(g[i], i) ELSE g[i]
    BY ONLY <1>9, <2>1
  <2> QED BY <1>11, <2>2, PackFileType
<1>12. \A i \in 0 .. n : g[i] \in Disks
  BY <1>1, <1>10, <1>11, StaysIn
<1> QED BY <1>12 DEF g

LEMMA NewBlocksType ==
  ASSUME NEW S, S \subseteq AllMoves, \A m \in S : Movable(m)
  PROVE  {NewBlock(m) : m \in S} \subseteq DataBlocks
BY DEF Movable

LEMMA DefragmentType ==
  ASSUME TypeOK, Defragment
  PROVE  TypeOK'
<1>1. blk' \in Disks
  <2>1. INODE_COUNT \in 0 .. INODE_COUNT
    BY GeometryAssumption
  <2> QED BY <2>1, PackedType DEF Defragment
<1>2. data_bm' \subseteq DataBlocks
  BY NewBlocksType DEF Defragment, Unmovable
<1>3. Count(DataBlocks) - Count(data_bm') \in 0 .. WORD - 1
  <2>1. Count(data_bm') \in Nat /\ Count(data_bm') <= Count(DataBlocks)
    BY <1>2, CountBlocks
  <2>2. WORD \in Nat
    BY ContentAssumption
  <2> QED BY <2>1, <2>2, Sizes
<1>4. sb' \in Superblocks
  BY <1>3 DEF Defragment, TypeOK, Superblocks
<1>5. inode_bm' \subseteq InodeIds
  BY DEF Defragment, TypeOK
<1> QED BY <1>1, <1>2, <1>4, <1>5, PersistType DEF Defragment, TypeOK, Disks

(* The moves before the first that fails have not failed.                   *)
LEMMA MovedBefore ==
  ASSUME TypeOK, NEW m \in FirstOf(Unmovable), NEW q \in AllMoves, Precedes(q, m), q # m
  PROVE  Movable(q)
<1>1. m \in Unmovable /\ \A p \in Unmovable : Precedes(m, p)
  BY DEF FirstOf
<1>2. /\ q = <<q[1], q[2]>> /\ m = <<m[1], m[2]>>
      /\ q[1] \in Int /\ q[2] \in Int /\ m[1] \in Int /\ m[2] \in Int
  <2>1. Defragmented \subseteq Int /\ 1 .. DIRECT_BLOCKS \subseteq Int
    <3>1. 1 .. DIRECT_BLOCKS \subseteq Int /\ InodeIds \subseteq Int
      BY GeometryAssumption DEF InodeIds
    <3>2. Defragmented \subseteq InodeIds
      BY DEF Defragmented, TypeOK
    <3> QED BY <3>1, <3>2
  <2>2. m \in Defragmented \X (1 .. DIRECT_BLOCKS) /\ q \in Defragmented \X (1 .. DIRECT_BLOCKS)
    BY <1>1 DEF Unmovable, AllMoves
  <2> HIDE DEF Defragmented
  <2>3. \A x \in Defragmented \X (1 .. DIRECT_BLOCKS) :
          x = <<x[1], x[2]>> /\ x[1] \in Int /\ x[2] \in Int
    <3> TAKE x \in Defragmented \X (1 .. DIRECT_BLOCKS)
    <3>1. x = <<x[1], x[2]>> /\ x[1] \in Defragmented /\ x[2] \in 1 .. DIRECT_BLOCKS
      OBVIOUS
    <3> QED BY <2>1, <3>1
  <2> QED BY ONLY <2>2, <2>3
<1>3. ~ Precedes(m, q)
  BY <1>2 DEF Precedes
<1> QED BY <1>1, <1>3 DEF Unmovable

LEMMA DefragmentThrowsType ==
  ASSUME TypeOK, DefragmentThrows
  PROVE  TypeOK'
<1>1. PICK m \in FirstOf(Unmovable) :
        /\ blk' = MovedUpTo(PackedUpTo[m[1]], m[1])[m[2] - 1]
        /\ data_bm' = {NewBlock(q) : q \in {p \in AllMoves : Precedes(p, m)} \ {m}}
  BY DEF DefragmentThrows
<1>2. m \in AllMoves
  BY DEF FirstOf, Unmovable
<1>3. /\ m[1] \in Defragmented /\ m[2] \in 1 .. DIRECT_BLOCKS
      /\ m[2] <= Len(Blocks(m[1]))
  BY <1>2 DEF AllMoves
<1>4. blk' \in Disks
  <2>1. m[1] \in InodeIds /\ Len(Blocks(m[1])) \in 1 .. DIRECT_BLOCKS
    BY <1>3, BlocksType
  <2>2. m[1] \in 0 .. INODE_COUNT
    BY <2>1, GeometryAssumption DEF InodeIds
  <2>3. m[2] - 1 \in 0 .. Len(Blocks(m[1]))
    BY <1>3, <2>1
  <2> QED BY <1>1, <1>3, <2>2, <2>3, PackedType, MovedType
<1>5. data_bm' \subseteq DataBlocks
  <2> DEFINE S == {p \in AllMoves : Precedes(p, m)} \ {m}
  <2>1. S \subseteq AllMoves /\ \A q \in S : Movable(q)
    BY MovedBefore
  <2> HIDE DEF S
  <2>2. {NewBlock(q) : q \in S} \subseteq DataBlocks
    BY <2>1, NewBlocksType
  <2> QED BY <1>1, <2>2 DEF S
<1> QED BY <1>4, <1>5 DEF DefragmentThrows, TypeOK, Disks

-----------------------------------------------------------------------------
(* Every command.                                                          *)

LEMMA NextType ==
  ASSUME TypeOK, JournalMarked, [Next]_vars
  PROVE  TypeOK'
<1>1. CASE FileNext
  BY <1>1, FileNextType
<1>2. CASE Fsck
  BY <1>2, FsckType
<1>3. CASE Recover
  BY <1>3, RecoverType
<1>4. CASE Defragment
  BY <1>4, DefragmentType
<1>5. CASE \E n \in Names : FreeingThrows(n)
  BY <1>5, FreeingThrowsType
<1>6. CASE \E n \in Names : SimulateCrash(n)
  BY <1>6, SimulateCrashType
<1>7. CASE \E n \in Names, c \in Contents : WriteDiskFull(n, c)
  BY <1>7, WriteDiskFullType
<1>8. CASE UNCHANGED vars
  BY <1>8 DEF vars, diskVars, memVars, TypeOK
<1>9. CASE DefragmentThrows
  BY <1>9, DefragmentThrowsType
<1> QED BY <1>1, <1>2, <1>3, <1>4, <1>5, <1>6, <1>7, <1>8, <1>9 DEF Next, TroubleNext

(* Neither invariant is inductive alone: what recover writes is well typed   *)
(* because the journal holds no image, and the journal never keeps one       *)
(* because the number of blocks a failing write logs is well typed.          *)
LEMMA TypedAndMarked == Spec => [](TypeOK /\ JournalMarked)
<1>1. Init => TypeOK /\ JournalMarked
  <2>1. ASSUME Init PROVE JournalMarked
    <3>1. journal \in Journals({})
      BY <2>1 DEF Init, NewJournal, Journals
    <3> QED BY <3>1 DEF JournalMarked
  <2> QED BY <2>1, InitType
<1>2. TypeOK /\ JournalMarked /\ [Next]_vars => (TypeOK /\ JournalMarked)'
  BY NextType, MarkedStep
<1> QED BY <1>1, <1>2, PTL DEF Spec

(* In every use, crashes, failed writes, repairs and defragmentation        *)
(* included, the state stays well typed: no command reads or writes outside *)
(* the disk, and the counters and bitmaps stay within their widths.         *)
THEOREM SpecTypeOK == Spec => []TypeOK
BY TypedAndMarked, PTL

(* In every use the journal never keeps the image of a block between two    *)
(* commands: recover (filesystem.cpp:415-434) writes no block back, ever.   *)
THEOREM SpecNothingToReplay == Spec => []NothingToReplay
<1>1. JournalMarked => NothingToReplay
  BY MarkedNothing
<1> QED BY <1>1, TypedAndMarked, PTL

(* Wherever fsck is run, its second pass finds no inode to repair and no    *)
(* data bit to fix, and its third nothing at all (filesystem.cpp:314-399).  *)
THEOREM SpecFsckConverges == Spec => []FsckConverges
BY SpecTypeOK, FsckIdempotent, PTL

(* Every fsck leaves a data bitmap that has the blocks direct pointers reach *)
(* and none no pointer reaches, counters that match both bitmaps, and all of *)
(* it on disk.                                                               *)
THEOREM SpecFsckAccounts == Spec => FsckAccounts
BY SpecTypeOK, FsckLeavesAccounts, PTL

=============================================================================

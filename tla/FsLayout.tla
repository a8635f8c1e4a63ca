------------------------------ MODULE FsLayout ------------------------------
(***************************************************************************)
(* The on-disk layout of fs_structures.h and the ways filesystem.cpp reads *)
(* a block.                                                                *)
(*                                                                         *)
(* A block is divided into cells of the size of a directory entry (128 of  *)
(* 32 bytes in the code), and an inode is CellsPerInode of them in a row   *)
(* (16): the first cell is its header, the next ones hold its pointers,    *)
(* PointersPerCell (8) in each, and the rest is padding.  The code never   *)
(* records what a block holds: the same bytes are part of an inode to      *)
(* read_inode, a directory entry to find_in_root and a pointer to the      *)
(* indirect-block loops.  A cell therefore remembers what was last written *)
(* to it, and AsInode, EntryUsed and AsPointer say how each reader of the  *)
(* code decodes it.                                                        *)
(*                                                                         *)
(* Abstractions.  A cell of an indirect block holds one pointer (8 in the  *)
(* code).  File data are texts, one per block, and file_size counts        *)
(* blocks.  Names and texts are printable, as they are when typed at the   *)
(* CLI, and names have five characters at least, so that the bytes of a    *)
(* name, of a text or of an indirect block's pointers decode as an inode   *)
(* of an invalid type and some size; a cell that holds any of them is      *)
(* taken to be full of them.  Bytes of another kind read as a pointer of   *)
(* an indirect block are out of range.  The fields no reader inspects      *)
(* (permissions, link_count, timestamps, the inode's own id) are left out. *)
(***************************************************************************)
EXTENDS FirstFree, Sequences

CONSTANTS
  TOTAL_BLOCKS,         \* blocks of the disk
  INODE_TABLE_BLOCKS,   \* blocks reserved for the inode table
  InodesPerBlock,       \* BLOCK_SIZE / sizeof(Inode)
  CellsPerInode,        \* sizeof(Inode) / sizeof(DirEntry)
  PointersPerCell,      \* sizeof(DirEntry) / sizeof(uint32_t)
  INODE_COUNT,          \* inodes the bitmap can hand out
  DIRECT_BLOCKS,        \* direct pointers of an inode
  JOURNAL_SIZE_BLOCKS,  \* blocks fsck treats as the journal's
  Names,                \* file names
  NameWords,            \* the words of a name, as the pointers they would be
  Texts,                \* block-sized pieces of file data
  ShortTexts            \* the texts that fill only the first cell of a block

INODE_TABLE_START == 3
DATA_START_BLOCK  == INODE_TABLE_START + INODE_TABLE_BLOCKS
ROOT_INODE        == 0

(* The blocks a pointer can reach, and the pointers: 0 is the null pointer, *)
(* and every number that validate_block rejects is BadPtr.  (So are 1 and 2,*)
(* the blocks of the bitmaps, which no command makes a file's pointer.)     *)
DirectIdx  == 0 .. DIRECT_BLOCKS - 1
InodeIds   == 0 .. INODE_COUNT - 1
FsBlocks   == INODE_TABLE_START .. TOTAL_BLOCKS - 1
InodeTable == INODE_TABLE_START .. DATA_START_BLOCK - 1
DataBlocks == DATA_START_BLOCK .. TOTAL_BLOCKS - 1
BadPtr     == TOTAL_BLOCKS
Pointers   == {0, BadPtr} \cup FsBlocks

ASSUME GeometryAssumption ==
  /\ INODE_TABLE_BLOCKS \in Nat \ {0}
  /\ InodesPerBlock \in Nat \ {0}
  /\ PointersPerCell \in Nat \ {0}
  /\ DIRECT_BLOCKS \in Nat \ {0}
  /\ CellsPerInode \in Nat
  /\ CellsPerInode > 1 + DIRECT_BLOCKS \div PointersPerCell
  /\ INODE_COUNT \in Nat \ {0}
  /\ JOURNAL_SIZE_BLOCKS \in Nat
  /\ TOTAL_BLOCKS \in Nat
  /\ DATA_START_BLOCK + JOURNAL_SIZE_BLOCKS < TOTAL_BLOCKS
  /\ INODE_COUNT <= InodesPerBlock * (TOTAL_BLOCKS - INODE_TABLE_START)
  /\ ShortTexts \subseteq Texts
  /\ NameWords \in [Names -> [1 .. PointersPerCell - 1 -> Pointers]]

Lines  == 0 .. CellsPerInode - 1                      \* the cells of an inode
Words  == 0 .. PointersPerCell - 1                    \* the words of a cell
Places == 0 .. InodesPerBlock - 1                     \* the inodes of a block
Slots  == 0 .. InodesPerBlock * CellsPerInode - 1     \* the cells of a block

CellOf(k, r) == k * CellsPerInode + r
PlaceOf(s)   == s \div CellsPerInode
LineOf(s)    == s % CellsPerInode

FileTypes == {"NONE", "REGULAR", "DIRECTORY", "INVALID"}

(* The fields of an inode the code reads, and what Inode::init leaves in a  *)
(* fresh one of the given type.                                             *)
Inodes == [type : FileTypes, size : Nat, direct : [DirectIdx -> Pointers],
           ind : Pointers]
NewInode(type) == [type |-> type, size |-> 0,
                   direct |-> [i \in DirectIdx |-> 0], ind |-> 0]

ZeroCell    == [kind |-> "zero"]
GarbageCell == [kind |-> "garbage"]
Headers     == [kind : {"header"}, type : FileTypes, size : Nat]
WordCells   == [kind : {"words"}, words : [Words -> Pointers]]
Dirents     == [kind : {"dirent"}, name : Names, id : InodeIds]
TextCells   == [kind : {"text"}, text : Texts]
PtrCells    == [kind : {"ptr"}, ptr : DataBlocks]
Cells       == {ZeroCell, GarbageCell} \cup Headers \cup WordCells
                  \cup Dirents \cup TextCells \cup PtrCells

(* Zeroed bytes are one cell, whatever field they were written as.          *)
HeaderCell(type, size) == IF type = "NONE" /\ size = 0 THEN ZeroCell
                          ELSE [kind |-> "header", type |-> type, size |-> size]
WordCell(ws) == IF \A w \in Words : ws[w] = 0 THEN ZeroCell
                ELSE [kind |-> "words", words |-> ws]

BlockImages == [Slots -> Cells]
InodeImages == [Lines -> Cells]
ZeroBlock   == [s \in Slots |-> ZeroCell]
BlankInode  == [r \in Lines |-> ZeroCell]
Chunk(t)    == [s \in Slots |-> IF s = 0 \/ t \notin ShortTexts
                                THEN [kind |-> "text", text |-> t]
                                ELSE ZeroCell]

-----------------------------------------------------------------------------
(* How the code decodes a cell.                                            *)

(* The header of an inode: bytes that are none decode as an invalid type.   *)
HeaderOf(c) ==
  CASE c.kind = "header" -> [type |-> c.type, size |-> c.size]
    [] c.kind = "zero"   -> [type |-> "NONE", size |-> 0]
    [] OTHER             -> [type |-> "INVALID", size |-> 1]

(* The words of a cell as pointers.  A directory entry starts with its id,  *)
(* which is the number of a block as well.                                  *)
PointerOf(id) == IF id \in {0} \cup FsBlocks THEN id ELSE BadPtr
WordsOf(c) ==
  CASE c.kind = "words"  -> c.words
    [] c.kind = "zero"   -> [w \in Words |-> 0]
    [] c.kind = "dirent" -> [w \in Words |-> IF w = 0 THEN PointerOf(c.id)
                                             ELSE NameWords[c.name][w]]
    [] OTHER             -> [w \in Words |-> BadPtr]

(* Pointer number j of an inode image: its direct pointers, then the        *)
(* indirect one.                                                            *)
PointerIn(l, j) == WordsOf(l[1 + j \div PointersPerCell])[j % PointersPerCell]

DirectOf(l) == [i \in DirectIdx |-> PointerIn(l, i)]

AsInode(l) == [type   |-> HeaderOf(l[0]).type,
               size   |-> HeaderOf(l[0]).size,
               direct |-> DirectOf(l),
               ind    |-> PointerIn(l, DIRECT_BLOCKS)]

(* The words of cell c, on line r of an inode image, with ino's pointers.   *)
WordsWith(c, r, ino) ==
  [w \in Words |-> LET j == (r - 1) * PointersPerCell + w
                   IN  IF j < DIRECT_BLOCKS THEN ino.direct[j]
                       ELSE IF j = DIRECT_BLOCKS THEN ino.ind ELSE WordsOf(c)[w]]

(* The cell on line r of an inode image when the fields of the inode in it  *)
(* become ino: a cell none of whose bytes change stays what it was.         *)
LineWith(c, r, ino) ==
  IF r = 0
  THEN IF HeaderOf(c) = [type |-> ino.type, size |-> ino.size] THEN c
       ELSE HeaderCell(ino.type, ino.size)
  ELSE IF WordsOf(c) = WordsWith(c, r, ino) THEN c ELSE WordCell(WordsWith(c, r, ino))

Updated(l, ino) == [r \in Lines |-> LineWith(l[r], r, ino)]
FreshInode(type) == Updated(BlankInode, NewInode(type))

(* An entry is in use when its first four bytes, its inode_id, are not 0;   *)
(* in the header of an inode these are its own id, 0 for the root.          *)
EntryUsed(c) == CASE c.kind = "zero"   -> FALSE
                  [] c.kind = "dirent" -> c.id # 0
                  [] c.kind = "header" -> c.type \in {"REGULAR", "INVALID"}
                  [] c.kind = "words"  -> c.words[0] # 0
                  [] OTHER             -> TRUE

AsPointer(c) == IF c.kind = "ptr" THEN c.ptr
                ELSE IF c.kind = "zero" THEN 0
                ELSE BadPtr

-----------------------------------------------------------------------------
(* Where an inode lives, and reading and writing it there.                 *)

InodeBlock(id) == INODE_TABLE_START + (id \div InodesPerBlock)
InodeSlot(id)  == id % InodesPerBlock

ImageAt(img, k)   == [r \in Lines |-> img[CellOf(k, r)]]
InodeImage(d, id) == ImageAt(d[InodeBlock(id)], InodeSlot(id))
ReadInode(d, id)  == AsInode(InodeImage(d, id))

WriteCell(d, b, s, c) == [d EXCEPT ![b] = [@ EXCEPT ![s] = c]]

(* write_inode puts back the whole of an inode that was read, or is new.    *)
WriteInode(d, id, l) ==
  [d EXCEPT ![InodeBlock(id)] =
     [s \in Slots |-> IF PlaceOf(s) = InodeSlot(id) THEN l[LineOf(s)] ELSE @[s]]]

ZeroBlocks(d, B) == [b \in FsBlocks |-> IF b \in B THEN ZeroBlock ELSE d[b]]

(* What a reader of block b as an indirect block sees.  The null pointer is  *)
(* not followed; an out-of-range one is refused before anything is read,     *)
(* exactly as if the first pointer of the block were.                        *)
PointersOf(d, b) == [s \in Slots |-> IF b \in FsBlocks THEN AsPointer(d[b][s])
                                     ELSE b]

=============================================================================

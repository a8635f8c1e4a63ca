----------------------------- MODULE FileSystem -----------------------------
(***************************************************************************)
(* The FileSystem class: the commands of the CLI on the in-memory          *)
(* superblock and bitmaps, the journal object and the disk.                *)
(*                                                                         *)
(* The program is one thread that runs one command at a time, so a command *)
(* is one action; the module says what the disk holds when it has ended,   *)
(* normally or by an exception that main's loop catches.  Kill ends the    *)
(* process between two commands, without the destructor.  Commands that    *)
(* change nothing (read, ls, info, cache, and those refused before their   *)
(* first effect) are stuttering steps.                                     *)
(***************************************************************************)
EXTENDS FsLayout, Journal

CONSTANTS
  Contents,      \* the file contents write_file is called with
  WORD,          \* 2^32 in the code: the counters of the superblock wrap
  MaxStale,      \* bound: records that failed commands may leave in the journal
  NoFile         \* the value ReadFile gives a name the directory does not hold

(* A file fits the direct blocks and one indirect block, and only its last *)
(* block may be partly filled.                                             *)
ASSUME ContentAssumption ==
  /\ WORD \in Nat /\ WORD > TOTAL_BLOCKS /\ WORD > INODE_COUNT
  /\ \A c \in Contents :
       /\ c \in Seq(Texts)
       /\ Len(c) \in 1 .. DIRECT_BLOCKS + Cardinality(Slots)
       /\ \A i \in 1 .. Len(c) - 1 : c[i] \notin ShortTexts

(* The name of no file is told apart from whatever read_file returns.      *)
ASSUME NoFileAssumption == NoFile \notin Seq(BlockImages)

VARIABLES
  blk,         \* the disk from the inode table on: [FsBlocks -> BlockImages]
  disk_sb,     \* block 0 on disk
  disk_ibm,    \* block 1 on disk, as the set of inode ids whose bit is set
  disk_dbm,    \* block 2 on disk, as the set of blocks whose bit is set
  sb,          \* sb_
  inode_bm,    \* *inode_bm_
  data_bm,     \* *data_bm_
  journal,     \* journal_
  mounted      \* a FileSystem object exists

diskVars == <<blk, disk_sb, disk_ibm, disk_dbm>>
memVars  == <<sb, inode_bm, data_bm, journal>>
vars     == <<diskVars, memVars, mounted>>

CLEAN == 1
DIRTY == 2

Superblocks == [magic : BOOLEAN, free_inodes : 0 .. WORD - 1,
                free_blocks : 0 .. WORD - 1, fs_state : {0, CLEAN, DIRTY}]
ZeroSuperblock == [magic |-> FALSE, free_inodes |-> 0, free_blocks |-> 0,
                   fs_state |-> 0]

Wrap(x) == x % WORD

TypeOK ==
  /\ blk \in [FsBlocks -> BlockImages]
  /\ disk_sb \in Superblocks /\ sb \in Superblocks
  /\ disk_ibm \subseteq InodeIds /\ inode_bm \subseteq InodeIds
  /\ disk_dbm \subseteq DataBlocks /\ data_bm \subseteq DataBlocks
  /\ mounted \in BOOLEAN

(* A disk file of zeros, as VirtualDisk creates it, and no process yet.    *)
Init ==
  /\ blk = [b \in FsBlocks |-> ZeroBlock]
  /\ disk_sb = ZeroSuperblock /\ disk_ibm = {} /\ disk_dbm = {}
  /\ sb = ZeroSuperblock /\ inode_bm = {} /\ data_bm = {}
  /\ journal = NewJournal
  /\ mounted = FALSE

-----------------------------------------------------------------------------
(* The root directory.                                                     *)

(* Variant with a bug: a bitmap of one block too many.                      *)
FreeDataOneTooMany == (DATA_START_BLOCK .. TOTAL_BLOCKS) \ data_bm

FreeInodes == InodeIds \ inode_bm
FreeData   == DataBlocks \ data_bm

DirOf(d)        == DirectOf(InodeImage(d, ROOT_INODE))
RootReadable(d) == \A i \in DirectIdx : DirOf(d)[i] # BadPtr

(* The entries for a name, as <<directory block index, cell>>.             *)
Matches(d, n) ==
  LET dir == DirOf(d)
  IN  {p \in DirectIdx \X Slots :
         /\ dir[p[1]] # 0
         /\ LET c == d[dir[p[1]]][p[2]]
            IN  c.kind = "dirent" /\ c.id # 0 /\ c.name = n}

Precedes(p, q) == p[1] < q[1] \/ (p[1] = q[1] /\ p[2] <= q[2])
FirstOf(P)     == {p \in P : \A q \in P : Precedes(p, q)}
EntryAt(d, p)  == d[DirOf(d)[p[1]]][p[2]]

FreeEntries(d, b) == {s \in Slots : ~ EntryUsed(d[b][s])}
Entry(n, id)      == [kind |-> "dirent", name |-> n, id |-> id]

(* add_to_root looks at the directory blocks in order and stops at the     *)
(* first that has a free entry or does not exist yet.                      *)
RoomAt(d) == LeastOf({i \in DirectIdx :
                        DirOf(d)[i] = 0 \/ FreeEntries(d, DirOf(d)[i]) # {}})

(* add_to_root on disk d, with the directory block it may have to allocate. *)
AddToRoot(d, n, id) ==
  \/ \E i \in RoomAt(d) :
       /\ DirOf(d)[i] # 0
       /\ \E s \in LeastOf(FreeEntries(d, DirOf(d)[i])) :
            blk' = WriteCell(d, DirOf(d)[i], s, Entry(n, id))
       /\ UNCHANGED data_bm
  \/ \E i \in RoomAt(d), b \in LeastOf(FreeData) :
       /\ DirOf(d)[i] = 0
       /\ LET root == [ReadInode(d, ROOT_INODE) EXCEPT !.direct[i] = b]
              d1   == WriteInode(ZeroBlocks(d, {b}), ROOT_INODE,
                                 Updated(InodeImage(d, ROOT_INODE), root))
          IN  blk' = WriteCell(d1, b, 0, Entry(n, id))
       /\ data_bm' = data_bm \cup {b}
  \/ (* it returns false, which create_file ignores *)
     /\ \A i \in RoomAt(d) : DirOf(d)[i] = 0 /\ FreeData = {}
     /\ blk' = d
     /\ UNCHANGED data_bm

(* Variant with a bug: the entry found is not written back.                 *)
RemoveFromRootKeeps(d, n) == d

(* remove_from_root clears the first entry for the name, if it finds one.   *)
RemoveFromRoot(d, n) ==
  [b \in FsBlocks |-> [s \in Slots |->
     IF \E p \in FirstOf(Matches(d, n)) : DirOf(d)[p[1]] = b /\ p[2] = s
     THEN ZeroCell ELSE d[b][s]]]

-----------------------------------------------------------------------------
(* Counters, persistence and the journal around a command.                 *)

Count(S) == Cardinality(S)

(* Variant with a bug: write_bitmaps writes only its first block.           *)
PersistOneBitmap == /\ disk_sb'  = sb'
                    /\ disk_ibm' = inode_bm'
                    /\ UNCHANGED disk_dbm

(* write_superblock and write_bitmaps at the end of a command.             *)
Persist == /\ disk_sb'  = sb'
           /\ disk_ibm' = inode_bm'
           /\ disk_dbm' = data_bm'

Committed(j, t)  == Checkpoint(Commit(j, t), t)
JournalNothing   == Committed(BeginTransaction(journal), FreshTxn(journal))

(* A command that throws between begin and commit or abort leaves its BEGIN *)
(* record behind; MaxStale bounds how many the model lets pile up.          *)
JournalAbandons ==
  /\ Len(journal.pending) + Len(journal.committed) < MaxStale
  /\ journal' = BeginTransaction(journal)

-----------------------------------------------------------------------------
(* format, mounting and unmounting.                                        *)

RootDirectory == [NewInode("DIRECTORY") EXCEPT !.direct[0] = DATA_START_BLOCK,
                                               !.size = 1]

(* Variant with a bug: the inode table keeps the old inodes.                *)
MkfsKeepsTable ==
  LET dir  == DATA_START_BLOCK
  IN  /\ blk' = WriteInode(ZeroBlocks(blk, {dir}), ROOT_INODE,
                           Updated(BlankInode, RootDirectory))
      /\ inode_bm' = {ROOT_INODE}
      /\ data_bm' = {dir}
      /\ sb' = [magic |-> TRUE, free_inodes |-> INODE_COUNT - 1,
                free_blocks |-> Count(DataBlocks) - 1, fs_state |-> CLEAN]
      /\ Persist

Mkfs ==
  LET dir  == DATA_START_BLOCK
      d    == ZeroBlocks(blk, InodeTable \cup {dir})
  IN  /\ blk' = WriteInode(d, ROOT_INODE, Updated(BlankInode, RootDirectory))
      /\ inode_bm' = {ROOT_INODE}
      /\ data_bm' = {dir}
      /\ sb' = [magic |-> TRUE, free_inodes |-> INODE_COUNT - 1,
                free_blocks |-> Count(DataBlocks) - 1, fs_state |-> CLEAN]
      /\ Persist

Format == mounted /\ Mkfs /\ UNCHANGED <<journal, mounted>>

(* Variant with a bug: mounting does not read the bitmaps.                  *)
MountForgetsBitmaps ==
  /\ ~ mounted
  /\ mounted' = TRUE
  /\ journal' = NewJournal
  /\ \/ ~ disk_sb.magic /\ Mkfs
     \/ /\ disk_sb.magic
        /\ sb' = [disk_sb EXCEPT !.fs_state = DIRTY]
        /\ disk_sb' = sb'
        /\ UNCHANGED <<blk, disk_ibm, disk_dbm, inode_bm, data_bm>>

(* The constructor.  An invalid superblock means format; a valid one is     *)
(* marked dirty and written back, and the recovery that follows finds the   *)
(* new Journal object empty.                                                *)
Mount ==
  /\ ~ mounted
  /\ mounted' = TRUE
  /\ journal' = NewJournal
  /\ \/ ~ disk_sb.magic /\ Mkfs
     \/ /\ disk_sb.magic
        /\ sb' = [disk_sb EXCEPT !.fs_state = DIRTY]
        /\ disk_sb' = sb'
        /\ inode_bm' = disk_ibm
        /\ data_bm' = disk_dbm
        /\ UNCHANGED <<blk, disk_ibm, disk_dbm>>

ProcessGone ==
  /\ mounted' = FALSE
  /\ sb' = ZeroSuperblock /\ inode_bm' = {} /\ data_bm' = {}
  /\ journal' = NewJournal

(* The destructor, on quit or at the end of the input.                      *)
Unmount ==
  /\ mounted
  /\ disk_sb' = [sb EXCEPT !.fs_state = CLEAN]
  /\ disk_ibm' = inode_bm
  /\ disk_dbm' = data_bm
  /\ ProcessGone
  /\ UNCHANGED blk

Kill == mounted /\ ProcessGone /\ UNCHANGED diskVars

-----------------------------------------------------------------------------
(* create_file.  With no free inode the command throws and undoes its       *)
(* BEGIN, which changes nothing.                                            *)

InTable(id) == id < InodesPerBlock * INODE_TABLE_BLOCKS

CreateFile(n) ==
  /\ mounted
  /\ RootReadable(blk)
  /\ Matches(blk, n) = {}
  /\ \E id \in LeastOf(FreeInodes) :
       /\ inode_bm' = inode_bm \cup {id}
       /\ AddToRoot(WriteInode(blk, id, FreshInode("REGULAR")), n, id)
  /\ sb' = [sb EXCEPT !.free_inodes = Wrap(@ - 1),
                      !.free_blocks = Wrap(@ - Count(data_bm' \ data_bm))]
  /\ Persist
  /\ journal' = JournalNothing
  /\ UNCHANGED mounted

-----------------------------------------------------------------------------
(* Freeing a list of pointers in order: null pointers are skipped, and the  *)
(* first that is no data block throws, with those before it already freed.  *)

Freeable == {0} \cup DataBlocks
Intact(ptrs)     == \A i \in DOMAIN ptrs : ptrs[i] \in Freeable
Reached(ptrs)    == {i \in DOMAIN ptrs :
                       /\ ptrs[i] # 0
                       /\ \A j \in DOMAIN ptrs : j <= i => ptrs[j] \in Freeable}
FreedBy(ptrs)    == {ptrs[i] : i \in Reached(ptrs)}

(* Variant with a bug: the null pointers are counted too.                   *)
FreedCountAll(ptrs) == Count(DOMAIN ptrs)

FreedCount(ptrs) == Count(Reached(ptrs))

(* The existing file a command names: find_in_root's id for it.             *)
IdsOf(n) == IF RootReadable(blk)
            THEN {EntryAt(blk, p).id : p \in FirstOf(Matches(blk, n))}
            ELSE {}

DeleteFile(n) ==
  /\ mounted
  /\ \E id \in IdsOf(n) :
       LET ino  == ReadInode(blk, id)
           d1   == ZeroBlocks(blk, FreedBy(ino.direct))
           ptrs == PointersOf(d1, ino.ind)
           gone == FreedBy(ptrs) \cup ({ino.ind} \ {0})
           d2   == WriteInode(ZeroBlocks(d1, gone), id, BlankInode)
       IN  /\ Intact(ino.direct)
           /\ Intact(ptrs) /\ ino.ind \in Freeable
           /\ blk' = RemoveFromRoot(d2, n)
           /\ data_bm' = data_bm \ (FreedBy(ino.direct) \cup gone)
           /\ inode_bm' = inode_bm \ {id}
           /\ sb' = [sb EXCEPT
                !.free_inodes = Wrap(@ + 1),
                !.free_blocks = Wrap(@ + FreedCount(ino.direct) + FreedCount(ptrs)
                                       + Count({ino.ind} \ {0}))]
  /\ Persist
  /\ journal' = JournalNothing
  /\ UNCHANGED mounted

(* delete_file, or write_file, on an inode whose pointers are not all to    *)
(* data blocks: it ends where free_data_block or read_block throws.         *)
FreeingThrows(n) ==
  /\ mounted
  /\ \E id \in IdsOf(n) :
       LET ino  == ReadInode(blk, id)
           d1   == ZeroBlocks(blk, FreedBy(ino.direct))
           ptrs == IF Intact(ino.direct) THEN PointersOf(d1, ino.ind)
                   ELSE [s \in Slots |-> BadPtr]
       IN  /\ ~ (Intact(ptrs) /\ ino.ind \in Freeable)
           /\ blk' = ZeroBlocks(d1, FreedBy(ptrs))
           /\ data_bm' = data_bm \ (FreedBy(ino.direct) \cup FreedBy(ptrs))
           /\ sb' = [sb EXCEPT !.free_blocks =
                        Wrap(@ + FreedCount(ino.direct) + FreedCount(ptrs))]
  /\ JournalAbandons
  /\ UNCHANGED <<inode_bm, disk_sb, disk_ibm, disk_dbm, mounted>>

-----------------------------------------------------------------------------
(* write_file.  It frees the direct blocks, then allocates one block per    *)
(* chunk and, when the chunks outnumber the direct pointers, the indirect   *)
(* block after the last direct one.  f is the sequence of allocations.      *)

Need(c) == IF Len(c) <= DIRECT_BLOCKS THEN Len(c) ELSE Len(c) + 1

(* Variant with a bug: the indirect block's place is not skipped.           *)
ChunkBlocksOverlap(f) ==
  [k \in 1 .. (IF Len(f) <= DIRECT_BLOCKS THEN Len(f) ELSE Len(f) - 1) |-> f[k]]

(* The blocks of f that receive the file's chunks, in chunk order.          *)
ChunkBlocks(f) ==
  LET m == Len(f)
  IN  [k \in 1 .. (IF m <= DIRECT_BLOCKS THEN m ELSE m - 1) |->
         f[IF k <= DIRECT_BLOCKS THEN k ELSE k + 1]]

WriteChunks(d, bs, c) ==
  [b \in FsBlocks |-> IF \E k \in DOMAIN bs : bs[k] = b
                      THEN Chunk(c[CHOOSE k \in DOMAIN bs : bs[k] = b])
                      ELSE d[b]]

(* Variant with a bug: the pointers start one allocation early.             *)
IndirectBlockShifted(f) ==
  [s \in Slots |-> IF DIRECT_BLOCKS + 1 + s <= Len(f)
                   THEN [kind |-> "ptr", ptr |-> f[DIRECT_BLOCKS + 1 + s]]
                   ELSE ZeroCell]

IndirectBlock(f) ==
  [s \in Slots |-> IF DIRECT_BLOCKS + 2 + s <= Len(f)
                   THEN [kind |-> "ptr", ptr |-> f[DIRECT_BLOCKS + 2 + s]]
                   ELSE ZeroCell]

Logged(f, c) == LogBlocks(BeginTransaction(journal), FreshTxn(journal),
                          ChunkBlocks(f), [k \in DOMAIN c |-> Chunk(c[k])])

WriteFile(n, c) ==
  /\ mounted
  /\ \E id \in IdsOf(n) :
       LET ino   == ReadInode(blk, id)
           free  == FreeData \cup FreedBy(ino.direct)
           d1    == ZeroBlocks(blk, FreedBy(ino.direct))
           large == Len(c) > DIRECT_BLOCKS
       IN  /\ Intact(ino.direct)
           /\ \E f \in Lowest(free, Need(c)) :
                LET bs   == ChunkBlocks(f)
                    d2   == WriteChunks(d1, bs, c)
                    d3   == IF large
                            THEN [d2 EXCEPT ![f[DIRECT_BLOCKS + 1]] = IndirectBlock(f)]
                            ELSE d2
                    new  == [ino EXCEPT
                               !.size   = Len(c),
                               !.direct = [i \in DirectIdx |->
                                             IF i < Len(c) THEN bs[i + 1] ELSE 0],
                               !.ind    = IF large THEN f[DIRECT_BLOCKS + 1] ELSE @]
                IN  /\ blk' = WriteInode(d3, id, Updated(InodeImage(blk, id), new))
                    /\ data_bm' = (data_bm \ FreedBy(ino.direct)) \cup {f[i] : i \in DOMAIN f}
                    /\ journal' = Committed(Logged(f, c), FreshTxn(journal))
           /\ sb' = [sb EXCEPT !.free_blocks =
                        Wrap(@ + FreedCount(ino.direct) - Need(c))]
  /\ UNCHANGED inode_bm
  /\ Persist
  /\ UNCHANGED mounted

(* The allocator runs out: what was freed and written so far stays on disk, *)
(* and neither the inode nor the bitmaps nor the superblock are written.    *)
WriteDiskFull(n, c) ==
  /\ mounted
  /\ \E id \in IdsOf(n) :
       LET ino  == ReadInode(blk, id)
           free == FreeData \cup FreedBy(ino.direct)
           d1   == ZeroBlocks(blk, FreedBy(ino.direct))
       IN  /\ Intact(ino.direct)
           /\ Count(free) < Need(c)
           /\ \E f \in Lowest(free, Count(free)) :
                /\ blk' = WriteChunks(d1, ChunkBlocks(f), c)
                /\ journal' = Abort(Logged(f, c), FreshTxn(journal))
           /\ sb' = [sb EXCEPT !.free_blocks =
                        Wrap(@ + FreedCount(ino.direct) - Count(free))]
  /\ data_bm' = DataBlocks
  /\ UNCHANGED <<inode_bm, disk_sb, disk_ibm, disk_dbm, mounted>>

-----------------------------------------------------------------------------
(* simulate_crash overwrites the whole block the file's inode lies in.      *)

SimulateCrash(n) ==
  /\ mounted
  /\ \E id \in IdsOf(n) :
       blk' = [blk EXCEPT ![InodeBlock(id)] = [s \in Slots |-> GarbageCell]]
  /\ UNCHANGED <<disk_sb, disk_ibm, disk_dbm, memVars, mounted>>

-----------------------------------------------------------------------------
(* fsck.  Pass 1 visits the home of every inode id, those that lie beyond   *)
(* the inode table included.                                                *)

InFsckRange(b) == b \in DATA_START_BLOCK .. TOTAL_BLOCKS - JOURNAL_SIZE_BLOCKS - 1

(* Variants with a bug: an invalid inode is given a valid type instead of   *)
(* being cleared; out-of-range pointers are reported and kept.              *)
RepairSalvages(l) ==
  LET ino == AsInode(l)
      bad == {i \in DirectIdx : ino.direct[i] # 0 /\ ~ InFsckRange(ino.direct[i])}
  IN  IF ino.type = "NONE" THEN l
      ELSE IF ino.type = "INVALID" THEN Updated(l, [ino EXCEPT !.type = "REGULAR"])
      ELSE Updated(l, [ino EXCEPT !.direct =
                         [i \in DirectIdx |-> IF i \in bad THEN 0 ELSE @[i]]])
RepairKeepsPointers(l) == IF AsInode(l).type = "INVALID" THEN BlankInode ELSE l

Repair(l) ==
  LET ino == AsInode(l)
      bad == {i \in DirectIdx : ino.direct[i] # 0 /\ ~ InFsckRange(ino.direct[i])}
  IN  IF ino.type = "NONE" THEN l
      ELSE IF ino.type = "INVALID" THEN BlankInode
      ELSE Updated(l, [ino EXCEPT !.direct =
                         [i \in DirectIdx |-> IF i \in bad THEN 0 ELSE @[i]]])

IsHome(b, k) == \E id \in InodeIds : InodeBlock(id) = b /\ InodeSlot(id) = k

FsckDisk(d) == [b \in FsBlocks |-> [s \in Slots |->
                  IF IsHome(b, PlaceOf(s))
                  THEN Repair(ImageAt(d[b], PlaceOf(s)))[LineOf(s)] ELSE d[b][s]]]

(* The reference bitmaps.  An id counts as used before its type is checked, *)
(* and only direct pointers count as references.                            *)
FsckInodes(d) == {id \in InodeIds : ReadInode(d, id).type # "NONE"}
FsckData(d)   ==
  {b \in DataBlocks :
     /\ InFsckRange(b)
     /\ \E id \in InodeIds, i \in DirectIdx :
          /\ ReadInode(d, id).type \in {"REGULAR", "DIRECTORY"}
          /\ ReadInode(d, id).direct[i] = b}

(* When nothing was fixed nothing is written and the command is a stutter.  *)
Fsck ==
  /\ mounted
  /\ blk' = FsckDisk(blk)
  /\ inode_bm' = FsckInodes(blk)
  /\ data_bm' = FsckData(blk)
  /\ <<blk, inode_bm, data_bm>>' # <<blk, inode_bm, data_bm>>
  /\ sb' = [sb EXCEPT !.free_inodes = INODE_COUNT - Count(inode_bm'),
                      !.free_blocks = Count(DataBlocks) - Count(data_bm'),
                      !.fs_state    = CLEAN]
  /\ Persist
  /\ UNCHANGED <<journal, mounted>>

-----------------------------------------------------------------------------
(* recover.                                                                 *)

Replay(d, records) ==
  [b \in FsBlocks |->
     LET hits == {k \in DOMAIN records : records[k].target = b}
     IN  IF hits = {} THEN d[b]
         ELSE records[CHOOSE k \in hits : \A m \in hits : m <= k].data]

Recover ==
  /\ mounted
  /\ journal.committed # <<>>
  /\ blk' = Replay(blk, ReplayRecords(journal))
  /\ journal' = Clear(journal)
  /\ sb' = [sb EXCEPT !.fs_state = CLEAN]
  /\ disk_sb' = sb'
  /\ UNCHANGED <<inode_bm, data_bm, disk_ibm, disk_dbm, mounted>>

-----------------------------------------------------------------------------
(* defragment.  Blocks(id) are the direct blocks collected for a file, and  *)
(* Target(id) the block its first one moves to: next_free when its turn     *)
(* comes.  A file's inode is read again just before its blocks move.        *)

NonNull(ptrs) == {i \in DOMAIN ptrs : ptrs[i] # 0}
Blocks(id)    ==
  LET ptrs == ReadInode(blk, id).direct
      is   == Ascending(NonNull(ptrs))
  IN  [k \in DOMAIN is |-> ptrs[is[k]]]

Defragmented == {id \in inode_bm : /\ ReadInode(blk, id).type = "REGULAR"
                                   /\ Blocks(id) # <<>>}
AllMoves     == {m \in Defragmented \X (1 .. DIRECT_BLOCKS) :
                   m[2] <= Len(Blocks(m[1]))}
Target(id)   == DATA_START_BLOCK + Count({m \in AllMoves : m[1] < id})
NewBlock(m)  == Target(m[1]) + m[2] - 1

(* A move fails whose old block cannot be read or whose new one is past the *)
(* end of the disk, as it is once files share most of their blocks.         *)
Movable(m) == Blocks(m[1])[m[2]] # BadPtr /\ NewBlock(m) \in DataBlocks
Unmovable  == {m \in AllMoves : ~ Movable(m)}

MoveBlock(d, old, new) ==
  IF old = new THEN d ELSE [d EXCEPT ![new] = d[old], ![old] = ZeroBlock]

(* The disk when the first k blocks of a file have moved.  A move that fails *)
(* moves nothing, and the command ends there.                               *)
MovedUpTo(d, id) ==
  LET old == Blocks(id)
      moved[k \in 0 .. Len(old)] ==
        IF k = 0 THEN d
        ELSE IF Movable(<<id, k>>) THEN MoveBlock(moved[k - 1], old[k], NewBlock(<<id, k>>))
        ELSE moved[k - 1]
  IN  moved

PackFile(d, id) ==
  LET old == Blocks(id)
      ino == ReadInode(d, id)
      new == [ino EXCEPT !.direct = [i \in DirectIdx |->
                           IF i < Len(old) THEN PointerOf(Target(id) + i) ELSE @[i]]]
  IN  WriteInode(MovedUpTo(d, id)[Len(old)], id, Updated(InodeImage(d, id), new))

(* The disk when the files of the first k inodes have moved.                *)
PackedUpTo ==
  LET packed[k \in 0 .. INODE_COUNT] ==
        IF k = 0 THEN blk
        ELSE IF k - 1 \in Defragmented THEN PackFile(packed[k - 1], k - 1)
             ELSE packed[k - 1]
  IN  packed

Defragment ==
  /\ mounted
  /\ Unmovable = {}
  /\ blk' = PackedUpTo[INODE_COUNT]
  /\ data_bm' = {NewBlock(m) : m \in AllMoves}
  /\ sb' = [sb EXCEPT !.free_blocks = Count(DataBlocks) - Count(data_bm')]
  /\ UNCHANGED inode_bm
  /\ Persist
  /\ UNCHANGED <<journal, mounted>>

(* It ends at the first move that fails, with the blocks before it moved    *)
(* and their bits alone in the bitmap in memory; write_bitmaps is not reached.*)
DefragmentThrows ==
  /\ mounted
  /\ \E m \in FirstOf(Unmovable) :
       /\ blk' = MovedUpTo(PackedUpTo[m[1]], m[1])[m[2] - 1]
       /\ data_bm' = {NewBlock(q) : q \in {p \in AllMoves : Precedes(p, m)} \ {m}}
  /\ UNCHANGED <<sb, inode_bm, journal, disk_sb, disk_ibm, disk_dbm, mounted>>

-----------------------------------------------------------------------------
(* Every command of the CLI: the commands that succeed on files, and the    *)
(* crashes, failures, repairs and relocations.                              *)

FileNext ==
  \/ Format \/ Mount \/ Unmount \/ Kill
  \/ \E n \in Names : \/ CreateFile(n) \/ DeleteFile(n)
                      \/ \E c \in Contents : WriteFile(n, c)

TroubleNext ==
  \/ Fsck \/ Recover \/ Defragment \/ DefragmentThrows
  \/ \E n \in Names : \/ FreeingThrows(n) \/ SimulateCrash(n)
                      \/ \E c \in Contents : WriteDiskFull(n, c)

Next == FileNext \/ TroubleNext
Spec == Init /\ [][Next]_vars

(* Ordinary use: only file commands, and no inode beyond the inode table.   *)
HealthyNext == FileNext /\ \A id \in inode_bm' : InTable(id)
HealthySpec == Init /\ [][HealthyNext]_vars

-----------------------------------------------------------------------------
(* What a user reads.                                                       *)

(* The direct pointers read_file follows: up to file_size or a null one.    *)
(* The indirect block serves what file_size leaves over.                    *)
DirectRead(ino) ==
  {i \in DirectIdx : i < ino.size /\ \A j \in 0 .. i : ino.direct[j] # 0}
IndirectRead(d, ino) ==
  LET ptrs == PointersOf(d, ino.ind)
      left == ino.size - Count(DirectRead(ino))
  IN  {s \in Slots : s < left /\ \A j \in 0 .. s : ptrs[j] # 0}

BlocksRead(d, ino) ==
  LET ptrs == PointersOf(d, ino.ind)
  IN  [k \in 1 .. Count(DirectRead(ino)) |-> ino.direct[k - 1]]
        \o [k \in 1 .. Count(IndirectRead(d, ino)) |-> ptrs[k - 1]]

Images(d, bs) == IF \E k \in DOMAIN bs : bs[k] = BadPtr THEN NoFile
                 ELSE [k \in DOMAIN bs |-> d[bs[k]]]

(* What read_file returns for a name, or NoFile where it throws.            *)
ReadFile(d, n) ==
  IF ~ RootReadable(d) \/ Matches(d, n) = {} THEN NoFile
  ELSE LET ids   == {EntryAt(d, p).id : p \in FirstOf(Matches(d, n))}
           inos  == {ReadInode(d, id) : id \in ids}
           lists == {BlocksRead(d, ino) : ino \in inos}
       IN  CHOOSE r \in {Images(d, bs) : bs \in lists} : TRUE

Files == [n \in Names |-> ReadFile(blk, n)]

Store == INSTANCE FileStore
           WITH files    <- Files,
                Contents <- {[k \in DOMAIN c |-> Chunk(c[k])] : c \in Contents},
                Empty    <- <<>>

-----------------------------------------------------------------------------
(* Consistency of the disk between two commands.                            *)

TableIds == {id \in InodeIds : InTable(id)}

(* Every place of the inode table and its indirect blocks a pointer can be. *)
Sites == TableIds \X (({"direct"} \X DirectIdx) \cup ({"pointer"} \X Slots)
                        \cup {<<"indirect", 0>>})

PointerAt(d, r) ==
  LET l == InodeImage(d, r[1])
      ind == PointerIn(l, DIRECT_BLOCKS)
  IN  IF r[2][1] = "direct" THEN PointerIn(l, r[2][2])
      ELSE IF r[2][1] = "pointer" THEN PointersOf(d, ind)[r[2][2]]
      ELSE ind

Unshared(d) ==
  LET used == {r \in Sites : PointerAt(d, r) # 0}
  IN  \A r, q \in used : PointerAt(d, q) = PointerAt(d, r) => q = r
Allocated(d, B) == \A r \in Sites : PointerAt(d, r) # 0 => PointerAt(d, r) \in B

UsedEntries(d) ==
  {p \in DirectIdx \X Slots : DirOf(d)[p[1]] # 0 /\ EntryUsed(EntryAt(d, p))}
Backed(d) ==
  \A p \in UsedEntries(d) : ReadInode(d, EntryAt(d, p).id).type = "REGULAR"
Distinct(d) ==
  \A p, q \in UsedEntries(d) :
    EntryAt(d, p).id = EntryAt(d, q).id \/ EntryAt(d, p).name = EntryAt(d, q).name => p = q
Recorded(d, I) == I = {ROOT_INODE} \cup {EntryAt(d, p).id : p \in UsedEntries(d)}

Counted(s, I, B) == /\ s.free_inodes = INODE_COUNT - Count(I)
                    /\ s.free_blocks = Count(DataBlocks) - Count(B)

(* No data block is reached by two pointers: alloc_data_block hands out a   *)
(* block only after every pointer to it is gone ("double allocation").      *)
SingleOwner == Unshared(blk)

(* Every block a pointer reaches is allocated in the data bitmap on disk, so *)
(* that no later command, before or after a remount, hands it out again.    *)
OwnedAllocated == Allocated(blk, disk_dbm)

(* The root directory and the inode bitmap on disk agree: the entries name  *)
(* pairwise different files with pairwise different allocated inodes of     *)
(* regular files, and no other inode but the root's is allocated.           *)
Resolves(d, s, I) ==
  /\ \A p \in UsedEntries(d) : EntryAt(d, p).kind = "dirent"
  /\ Backed(d) /\ Distinct(d)
  /\ s.magic => Recorded(d, I)
NamesResolve == Resolves(blk, disk_sb, disk_ibm)

(* The free counts of the superblock on disk are those of the bitmaps on    *)
(* disk: alloc_* and free_* keep them in step by hand.                      *)
CountersExact == disk_sb.magic => Counted(disk_sb, disk_ibm, disk_dbm)

(* Between two commands the memory of the process holds nothing the disk    *)
(* does not: losing the process there (Kill) loses no allocation.           *)
MemoryOnDisk ==
  mounted => sb = disk_sb /\ inode_bm = disk_ibm /\ data_bm = disk_dbm

Consistent == /\ SingleOwner /\ OwnedAllocated /\ NamesResolve
              /\ CountersExact /\ MemoryOnDisk

(* In ordinary use the commands implement the map from names to contents,   *)
(* whatever mounting, unmounting and losing the process do in between.      *)
FilesAreAStore == Store!Spec

-----------------------------------------------------------------------------
(* What holds in every use, crashed, repaired and relocated disks included. *)

(* No command, not even one that failed, leaves a block image in the        *)
(* journal: whatever the journal holds, recover writes no block back.       *)
NothingToReplay ==
  \A k \in DOMAIN (journal.pending \o journal.committed) :
    (journal.pending \o journal.committed)[k].type # "DATA_BLOCK"

(* Wherever fsck is run, its second pass over the disk finds no inode to    *)
(* repair and no data bit to fix, and the third finds nothing at all.       *)
FsckConverges ==
  LET d1 == FsckDisk(blk)
      d2 == FsckDisk(d1)
  IN  mounted => /\ d2 = d1
                 /\ FsckData(d1) = FsckData(blk)
                 /\ FsckInodes(d2) = FsckInodes(d1)

(* Whatever it starts from, fsck leaves a data bitmap that has every block  *)
(* the direct pointers of the used inodes reach, and none that no pointer   *)
(* of a used inode reaches, counters that match the bitmaps, and all of it  *)
(* on disk.                                                                 *)
UsedInodes(d)   == {ino \in {ReadInode(d, id) : id \in InodeIds} : ino.type # "NONE"}
DirectBlocks(d) ==
  (UNION {{ino.direct[i] : i \in DirectIdx} : ino \in UsedInodes(d)}) \ {0}
OwnedBlocks(d)  == DirectBlocks(d) \cup UNION {{ino.ind} \cup
                     {PointersOf(d, ino.ind)[s] : s \in Slots} : ino \in UsedInodes(d)}
FsckAccounts ==
  [][Fsck => (/\ DirectBlocks(blk) \subseteq disk_dbm /\ disk_dbm \subseteq OwnedBlocks(blk)
              /\ CountersExact /\ MemoryOnDisk)']_vars

(* Whatever state the disk and the process are in, formatting makes them    *)
(* consistent again, although it leaves the old data blocks as they are.    *)
FormatRestores == [][Format => Consistent']_vars

-----------------------------------------------------------------------------
(* What comments and the README say of the program, and the code does not   *)
(* do.  TLC finds a counterexample to each of the following.                *)

(* fsck on a consistent file system leaves every file as it is and every    *)
(* block of a file, its indirect blocks included, allocated.                *)
FsckSparesFiles ==
  [][Fsck /\ Consistent => UNCHANGED Files /\ OwnedAllocated']_vars

(* fsck leaves an inode bitmap that says which inodes are in use.           *)
FsckFixesInodeBitmap ==
  [][Fsck => inode_bm' = FsckInodes(blk')]_vars

(* Defragmentation relocates blocks and changes no file.                    *)
DefragmentKeepsFiles == [][Defragment /\ Consistent => UNCHANGED Files]_vars

(* A command does to the files all that it says and nothing else, or it     *)
(* fails and does nothing: a write that finds the disk full leaves every    *)
(* file as it was, and a creation that reports success, with whatever room  *)
(* and whatever inode number, has made one empty file and changed no other. *)
AllOrNothing ==
  [][/\ (\E n \in Names, c \in Contents : WriteDiskFull(n, c)) => UNCHANGED Files
     /\ \A n \in Names : CreateFile(n) => Files' = [Files EXCEPT ![n] = <<>>]]_vars

(* Every allocated data block is reached by a pointer: overwriting a file   *)
(* frees all the blocks it had.                                             *)
NoLeak == mounted => disk_dbm \subseteq {PointerAt(blk, r) : r \in Sites}

=============================================================================

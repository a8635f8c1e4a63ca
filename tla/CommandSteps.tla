---------------------------- MODULE CommandSteps ----------------------------
(***************************************************************************)
(* The commands of FileSystem at the granularity of the disk: a command is *)
(* a list of block writes that reach the disk one at a time, because       *)
(* write_block flushes each of them, and the process may end between any   *)
(* two.  Everything a command computes it computes from what it read when  *)
(* it began and from its own writes, so the list is fixed at its start.    *)
(*                                                                         *)
(* inode and cell writes stand for the read-modify-write of a block in     *)
(* write_inode, add_to_root and remove_from_root.  The memory takes its    *)
(* final value when the command begins: nothing reads it before the        *)
(* command has ended. recover writes the superblock only (NothingToReplay) *)
(* and defragment is left to FileSystem; both are absent here.             *)
(***************************************************************************)
EXTENDS FileSystem

CONSTANT Idle    \* no command is running

VARIABLES
  cmd,      \* the command that is running, or Idle
  todo,     \* the writes it has still to make
  before,   \* disk and process when it began, or Idle
  cutOp     \* the command whose cut no mount has followed yet, or Idle

stepVars == <<vars, cmd, todo, before, cutOp>>

StepsInit == Init /\ cmd = Idle /\ todo = <<>> /\ before = Idle /\ cutOp = Idle

-----------------------------------------------------------------------------
(* The writes.                                                              *)

SuperblockWrite(v)  == [to |-> "superblock", value |-> v]
InodeBitmapWrite(S) == [to |-> "inode bitmap", value |-> S]
DataBitmapWrite(S)  == [to |-> "data bitmap", value |-> S]
BlockWrite(b, v)    == [to |-> "block", block |-> b, value |-> v]
CellWrite(b, s, c)  == [to |-> "cell", block |-> b, slot |-> s, value |-> c]
InodeWrite(id, l)   == [to |-> "inode", id |-> id, value |-> l]

(* The disk, and what one write makes of it.                                *)
Disk == [blk |-> blk, disk_sb |-> disk_sb, disk_ibm |-> disk_ibm, disk_dbm |-> disk_dbm]

Overlay(d, w) ==
  CASE w.to = "superblock"   -> [d EXCEPT !.disk_sb = w.value]
    [] w.to = "inode bitmap" -> [d EXCEPT !.disk_ibm = w.value]
    [] w.to = "data bitmap"  -> [d EXCEPT !.disk_dbm = w.value]
    [] w.to = "block"        -> [d EXCEPT !.blk[w.block] = w.value]
    [] w.to = "inode"        -> [d EXCEPT !.blk = WriteInode(@, w.id, w.value)]
    [] w.to = "cell"         -> [d EXCEPT !.blk = WriteCell(@, w.block, w.slot, w.value)]

(* Variant with a bug: the superblock is left to the destructor.            *)
PersistingBitmaps(s, i, d) == <<InodeBitmapWrite(i), DataBitmapWrite(d)>>

(* write_superblock and write_bitmaps.                                      *)
Persisting(s, i, d) ==
  <<SuperblockWrite(s), InodeBitmapWrite(i), DataBitmapWrite(d)>>

(* Variant with a bug: each free_data_block zeroes the next block.          *)
ZeroingNext(ptrs) ==
  LET is == Ascending(Reached(ptrs))
  IN  [k \in DOMAIN is |-> BlockWrite(ptrs[is[k]] + 1, ZeroBlock)]

(* The zero_block of each free_data_block over a list of pointers.          *)
Zeroing(ptrs) ==
  LET is == Ascending(Reached(ptrs))
  IN  [k \in DOMAIN is |-> BlockWrite(ptrs[is[k]], ZeroBlock)]

-----------------------------------------------------------------------------
(* A command begins, writes, and ends or is cut.                            *)

State == [blk |-> blk, disk_sb |-> disk_sb, disk_ibm |-> disk_ibm,
          disk_dbm |-> disk_dbm, sb |-> sb, inode_bm |-> inode_bm,
          data_bm |-> data_bm, journal |-> journal, mounted |-> mounted]

Ready == mounted /\ cmd = Idle

Begin(op, n, writes) ==
  /\ cmd' = [op |-> op, name |-> n]
  /\ todo' = writes
  /\ before' = State
  /\ UNCHANGED <<diskVars, cutOp>>

Memory(s, i, d, j) == /\ sb' = s /\ inode_bm' = i /\ data_bm' = d /\ journal' = j
                      /\ mounted' = TRUE

WriteNext ==
  /\ cmd # Idle /\ todo # <<>>
  /\ LET d == Overlay(Disk, Head(todo))
     IN  /\ blk' = d.blk /\ disk_sb' = d.disk_sb
         /\ disk_ibm' = d.disk_ibm /\ disk_dbm' = d.disk_dbm
  /\ todo' = Tail(todo)
  /\ UNCHANGED <<memVars, mounted, cmd, before, cutOp>>

Ends(op) == cmd # Idle /\ cmd.op = op /\ todo = <<>> /\ cmd' = Idle

Finish ==
  /\ cmd # Idle /\ todo = <<>>
  /\ cmd' = Idle /\ before' = Idle
  /\ cutOp' = IF cmd.op = "mount" THEN Idle ELSE cutOp
  /\ UNCHANGED <<vars, todo>>

(* The process ends inside a command, or while it waits for the next one.   *)
Cut ==
  /\ cmd # Idle /\ todo # <<>>
  /\ ProcessGone
  /\ cutOp' = cmd.op
  /\ cmd' = Idle /\ todo' = <<>> /\ before' = Idle
  /\ UNCHANGED diskVars

KillIdle == Kill /\ cmd = Idle /\ UNCHANGED <<cmd, todo, before, cutOp>>

-----------------------------------------------------------------------------
(* format, mount, unmount.                                                  *)

FreshSuperblock == [magic |-> TRUE, free_inodes |-> INODE_COUNT,
                    free_blocks |-> Count(DataBlocks), fs_state |-> CLEAN]
FormattedSuperblock == [FreshSuperblock EXCEPT !.free_inodes = @ - 1,
                                               !.free_blocks = @ - 1]
RootWrite == InodeWrite(ROOT_INODE, Updated(BlankInode, RootDirectory))

(* Variant with a bug: the inode table keeps what it held.                  *)
FormattingOverOldTable ==
  Persisting(FreshSuperblock, {}, {})
    \o <<BlockWrite(DATA_START_BLOCK, ZeroBlock), RootWrite>>
    \o Persisting(FormattedSuperblock, {ROOT_INODE}, {DATA_START_BLOCK})

Formatting ==
  Persisting(FreshSuperblock, {}, {})
    \o [k \in 1 .. INODE_TABLE_BLOCKS |-> BlockWrite(INODE_TABLE_START + k - 1, ZeroBlock)]
    \o <<BlockWrite(DATA_START_BLOCK, ZeroBlock), RootWrite>>
    \o Persisting(FormattedSuperblock, {ROOT_INODE}, {DATA_START_BLOCK})

Formatted(j) == Memory(FormattedSuperblock, {ROOT_INODE}, {DATA_START_BLOCK}, j)

BeginFormat == Ready /\ Begin("format", Idle, Formatting) /\ Formatted(journal)

BeginMount ==
  /\ ~ mounted /\ cmd = Idle
  /\ \/ /\ ~ disk_sb.magic
        /\ Begin("mount", Idle, Formatting)
        /\ Formatted(NewJournal)
     \/ LET dirty == [disk_sb EXCEPT !.fs_state = DIRTY]
        IN  /\ disk_sb.magic
            /\ Begin("mount", Idle, <<SuperblockWrite(dirty)>>)
            /\ Memory(dirty, disk_ibm, disk_dbm, NewJournal)

BeginUnmount ==
  /\ Ready
  /\ Begin("unmount", Idle,
           Persisting([sb EXCEPT !.fs_state = CLEAN], inode_bm, data_bm))
  /\ ProcessGone

-----------------------------------------------------------------------------
(* create_file.                                                             *)

(* Variant with a bug: the entry is written before its inode.               *)
EntryFirst(id, entry) == entry \o <<InodeWrite(id, FreshInode("REGULAR"))>>

InodeThenEntry(id, entry) == <<InodeWrite(id, FreshInode("REGULAR"))>> \o entry

Created(n, id, i, d, writes) ==
  LET s == [sb EXCEPT !.free_inodes = Wrap(@ - 1),
                      !.free_blocks = Wrap(@ - Count(d \ data_bm))]
  IN  /\ Begin("create", n, InodeThenEntry(id, writes) \o Persisting(s, i, d))
      /\ Memory(s, i, d, JournalNothing)

BeginCreate(n) ==
  /\ Ready
  /\ RootReadable(blk)
  /\ Matches(blk, n) = {}
  /\ \E id \in LeastOf(FreeInodes) :
       LET d    == WriteInode(blk, id, FreshInode("REGULAR"))
           dir  == DirOf(d)
           ids  == inode_bm \cup {id}
           room == RoomAt(d)
       IN  \/ \E i \in room :
                /\ dir[i] # 0
                /\ \E s \in LeastOf(FreeEntries(d, dir[i])) :
                     Created(n, id, ids, data_bm,
                             <<CellWrite(dir[i], s, Entry(n, id))>>)
           \/ \E i \in room, b \in LeastOf(FreeData) :
                /\ dir[i] = 0
                /\ Created(n, id, ids, data_bm \cup {b},
                     <<BlockWrite(b, ZeroBlock),
                       InodeWrite(ROOT_INODE, Updated(InodeImage(d, ROOT_INODE),
                         [ReadInode(d, ROOT_INODE) EXCEPT !.direct[i] = b])),
                       CellWrite(b, 0, Entry(n, id))>>)
           \/ /\ \A i \in room : dir[i] = 0 /\ FreeData = {}
              /\ Created(n, id, ids, data_bm, <<>>)

-----------------------------------------------------------------------------
(* delete_file; and delete_file or write_file ended by a bad pointer.       *)

(* remove_from_root on disk d: one write, or none when it finds no entry.   *)
Removal(d, n) ==
  IF Matches(d, n) = {} THEN {<<>>}
  ELSE {<<CellWrite(DirOf(d)[p[1]], p[2], ZeroCell)>> : p \in FirstOf(Matches(d, n))}

BeginDelete(n) ==
  /\ Ready
  /\ \E id \in IdsOf(n) :
       LET ino   == ReadInode(blk, id)
           d1    == ZeroBlocks(blk, FreedBy(ino.direct))
           ptrs  == PointersOf(d1, ino.ind)
           gone  == FreedBy(ptrs) \cup ({ino.ind} \ {0})
           d2    == WriteInode(ZeroBlocks(d1, gone), id, BlankInode)
           data  == data_bm \ (FreedBy(ino.direct) \cup gone)
           s     == [sb EXCEPT
                       !.free_inodes = Wrap(@ + 1),
                       !.free_blocks = Wrap(@ + FreedCount(ino.direct) + FreedCount(ptrs)
                                              + Count({ino.ind} \ {0}))]
       IN  /\ Intact(ino.direct) /\ Intact(ptrs) /\ ino.ind \in Freeable
           /\ \E entry \in Removal(d2, n) :
                Begin("delete", n,
                      Zeroing(ino.direct) \o Zeroing(ptrs) \o Zeroing([i \in {0} |-> ino.ind])
                        \o <<InodeWrite(id, BlankInode)>> \o entry
                        \o Persisting(s, inode_bm \ {id}, data))
           /\ Memory(s, inode_bm \ {id}, data, JournalNothing)

BeginFreeing(n) ==
  /\ Ready
  /\ \E id \in IdsOf(n) :
       LET ino  == ReadInode(blk, id)
           ptrs == IF Intact(ino.direct)
                   THEN PointersOf(ZeroBlocks(blk, FreedBy(ino.direct)), ino.ind)
                   ELSE [s \in Slots |-> BadPtr]
       IN  /\ ~ (Intact(ptrs) /\ ino.ind \in Freeable)
           /\ Begin("freeing", n, Zeroing(ino.direct) \o Zeroing(ptrs))
           /\ data_bm' = data_bm \ (FreedBy(ino.direct) \cup FreedBy(ptrs))
           /\ sb' = [sb EXCEPT !.free_blocks =
                        Wrap(@ + FreedCount(ino.direct) + FreedCount(ptrs))]
  /\ JournalAbandons
  /\ UNCHANGED <<inode_bm, mounted>>

-----------------------------------------------------------------------------
(* write_file.                                                              *)

(* Variant with a bug: free_data_block clears the next block's bit.         *)
AllocatableNext(ino) ==
  FreeData \cup {b \in DataBlocks : b - 1 \in FreedBy(ino.direct)}

(* What the allocator can hand out once the direct blocks are freed.        *)
Allocatable(ino) == FreeData \cup FreedBy(ino.direct)

ChunkWrites(f, c) == LET bs == ChunkBlocks(f)
                     IN  [k \in DOMAIN bs |-> BlockWrite(bs[k], Chunk(c[k]))]
IndirectWrite(f, c) == IF Len(c) > DIRECT_BLOCKS
                       THEN <<BlockWrite(f[DIRECT_BLOCKS + 1], IndirectBlock(f))>>
                       ELSE <<>>

BeginWrite(n, c) ==
  /\ Ready
  /\ \E id \in IdsOf(n) :
       LET ino == ReadInode(blk, id)
       IN  /\ Intact(ino.direct)
           /\ \E f \in Lowest(Allocatable(ino), Need(c)) :
                LET bs  == ChunkBlocks(f)
                    new == [ino EXCEPT
                              !.size   = Len(c),
                              !.direct = [i \in DirectIdx |-> IF i < Len(c) THEN bs[i + 1] ELSE 0],
                              !.ind    = IF Len(c) > DIRECT_BLOCKS THEN f[DIRECT_BLOCKS + 1] ELSE @]
                    s   == [sb EXCEPT !.free_blocks =
                              Wrap(@ + FreedCount(ino.direct) - Need(c))]
                    d   == (data_bm \ FreedBy(ino.direct)) \cup {f[i] : i \in DOMAIN f}
                IN  /\ Begin("write", n,
                             Zeroing(ino.direct) \o ChunkWrites(f, c) \o IndirectWrite(f, c)
                               \o <<InodeWrite(id, Updated(InodeImage(blk, id), new))>>
                               \o Persisting(s, inode_bm, d))
                    /\ Memory(s, inode_bm, d, Committed(Logged(f, c), FreshTxn(journal)))

BeginWriteFull(n, c) ==
  /\ Ready
  /\ \E id \in IdsOf(n) :
       LET ino == ReadInode(blk, id)
           all == Allocatable(ino)
       IN  /\ Intact(ino.direct)
           /\ Count(all) < Need(c)
           /\ \E f \in Lowest(all, Count(all)) :
                /\ Begin("full", n, Zeroing(ino.direct) \o ChunkWrites(f, c))
                /\ Memory([sb EXCEPT !.free_blocks =
                             Wrap(@ + FreedCount(ino.direct) - Count(all))],
                          inode_bm, DataBlocks,
                          Abort(Logged(f, c), FreshTxn(journal)))

-----------------------------------------------------------------------------
(* simulate_crash and fsck.                                                 *)

BeginCrash(n) ==
  /\ Ready
  /\ \E id \in IdsOf(n) :
       Begin("crash", n, <<BlockWrite(InodeBlock(id), [s \in Slots |-> GarbageCell])>>)
  /\ UNCHANGED <<memVars, mounted>>

BadAt(ino) == {i \in DirectIdx : ino.direct[i] # 0 /\ ~ InFsckRange(ino.direct[i])}
WithoutPointers(l, I) ==
  Updated(l, [AsInode(l) EXCEPT !.direct = [i \in DirectIdx |-> IF i \in I THEN 0 ELSE @[i]]])

(* Variant with a bug: an inode is blanked before it is written repaired.   *)
FixesOverBlank(id) ==
  LET l   == InodeImage(blk, id)
      ino == AsInode(l)
      bad == Ascending(BadAt(ino))
  IN  IF ino.type \in {"NONE"} \/ (ino.type # "INVALID" /\ bad = <<>>) THEN <<>>
      ELSE IF ino.type = "INVALID" THEN <<InodeWrite(id, BlankInode)>>
      ELSE <<InodeWrite(id, BlankInode), InodeWrite(id, WithoutPointers(l, BadAt(ino)))>>

(* Pass 1 at one id: the inode is written once for every bad pointer.       *)
Fixes(id) ==
  LET l   == InodeImage(blk, id)
      ino == AsInode(l)
      bad == Ascending(BadAt(ino))
  IN  IF ino.type = "NONE" THEN <<>>
      ELSE IF ino.type = "INVALID" THEN <<InodeWrite(id, BlankInode)>>
      ELSE [k \in DOMAIN bad |-> InodeWrite(id, WithoutPointers(l, {bad[m] : m \in 1 .. k}))]

(* Pass 1 over the first k ids.                                             *)
FixesUpTo ==
  LET fixes[k \in 0 .. INODE_COUNT] ==
        IF k = 0 THEN <<>> ELSE fixes[k - 1] \o Fixes(k - 1)
  IN  fixes

BeginFsck ==
  /\ Ready
  /\ LET ids   == FsckInodes(blk)
         data  == FsckData(blk)
         fixes == FixesUpTo[INODE_COUNT]
         s     == [sb EXCEPT !.free_inodes = INODE_COUNT - Count(ids),
                             !.free_blocks = Count(DataBlocks) - Count(data),
                             !.fs_state    = CLEAN]
     IN  /\ fixes # <<>> \/ ids # inode_bm \/ data # data_bm
         /\ Begin("fsck", Idle,
                  fixes \o <<InodeBitmapWrite(ids), DataBitmapWrite(data), SuperblockWrite(s)>>)
         /\ Memory(s, ids, data, journal)

-----------------------------------------------------------------------------
FileCommand ==
  \/ BeginFormat \/ BeginUnmount
  \/ \E n \in Names : \/ BeginCreate(n) \/ BeginDelete(n)
                      \/ \E c \in Contents : BeginWrite(n, c)

TroubleCommand ==
  \E n \in Names : \/ BeginCrash(n)
                   \/ \E c \in Contents : BeginWriteFull(n, c)

RepairOrThrow == BeginFsck \/ \E n \in Names : BeginFreeing(n)

Proceed == BeginMount \/ WriteNext \/ Finish \/ KillIdle

StepsNext == FileCommand \/ TroubleCommand \/ RepairOrThrow \/ Proceed \/ Cut
StepsSpec == StepsInit /\ [][StepsNext]_stepVars

-----------------------------------------------------------------------------
(* Uncut, the writes of a command come to exactly the command of FileSystem *)
(* that takes it from the state it began in to the state it ends in.        *)
Began == IF cmd = Idle THEN State ELSE before
Whole == INSTANCE FileSystem
           WITH blk <- Began.blk, disk_sb <- Began.disk_sb,
                disk_ibm <- Began.disk_ibm, disk_dbm <- Began.disk_dbm,
                sb <- Began.sb, inode_bm <- Began.inode_bm,
                data_bm <- Began.data_bm, journal <- Began.journal,
                mounted <- Began.mounted
StepsAreCommands == [][Began' = Began \/ Whole!Next \/ Cut]_stepVars

(* A command of ops is running that began when Consistent held, and neither *)
(* the inodes in use nor one that it takes lie beyond the inode table.      *)
WasConsistent ==
  LET b == before
  IN  /\ b.disk_sb.magic => Counted(b.disk_sb, b.disk_ibm, b.disk_dbm)
      /\ b.mounted => <<b.sb, b.inode_bm, b.data_bm>> = <<b.disk_sb, b.disk_ibm, b.disk_dbm>>
      /\ Unshared(b.blk) /\ Allocated(b.blk, b.disk_dbm)
      /\ Resolves(b.blk, b.disk_sb, b.disk_ibm)
Inside(ops) == /\ cmd # Idle /\ cmd.op \in ops
               /\ \A id \in before.inode_bm \cup inode_bm : InTable(id)
               /\ WasConsistent

(* Wherever a command on one file is cut, on a disk that was consistent,    *)
(* every other file reads as before, and every block it owns is still       *)
(* allocated on disk, so that nothing takes it after the next mount.        *)
BlocksOf(d, n) ==
  LET ids == {EntryAt(d, p).id : p \in Matches(d, n)}
  IN  {PointerAt(d, r) : r \in {q \in Sites : q[1] \in ids}} \ {0}
CutSparesOthers ==
  Inside({"create", "write", "delete", "full"}) =>
    \A n \in Names \ {cmd.name} :
      /\ ReadFile(blk, n) = ReadFile(before.blk, n)
      /\ BlocksOf(blk, n) \subseteq disk_dbm

(* At no point inside a command do two pointers on disk reach one block:    *)
(* a block changes hands only after its old pointer is gone.                *)
NoSharingInside ==
  Inside({"format", "mount", "unmount", "create", "write", "delete", "full"}) => SingleOwner

(* At no point inside a command but the deletion of its own file does an    *)
(* entry of the directory lead to an inode that is not a file's.            *)
EntriesBacked ==
  Inside({"mount", "unmount", "create", "write", "full"}) => Backed(blk)

(* A cut fsck can be run again: at every point, on whatever disk it began,  *)
(* the repair of what is there now ends where the whole run would have.     *)
FsckResumes ==
  cmd # Idle /\ cmd.op = "fsck" =>
    /\ FsckDisk(blk) = FsckDisk(before.blk)
    /\ FsckData(blk) = FsckData(before.blk)

(* A format that ends makes the disk consistent, whatever was cut before,   *)
(* an earlier format included.                                              *)
FormatHeals == [][Ends("format") => Consistent']_stepVars

-----------------------------------------------------------------------------
(* What README.md and journal.h say of a crash inside a command: recovery,  *)
(* which mounting runs, leads back to a consistent state; and, the least of *)
(* it, to a root directory when the command was format.                     *)
RecoveryRestores ==
  [][Ends("mount") =>
       /\ cutOp \in {"create", "write", "delete"} => Consistent'
       /\ cutOp = "format" => ReadInode(blk, ROOT_INODE).type = "DIRECTORY"]_stepVars

=============================================================================

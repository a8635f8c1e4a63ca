------------------------------ MODULE Dashboard ------------------------------
(***************************************************************************)
(* fs_web/app.js: the simulation of the file system in the browser.  It is *)
(* a program of its own that never talks to the C++ tool.  Each button is  *)
(* a handler that runs to its end, but runFsck only starts a chain of      *)
(* three timers, and any button may be pressed between their callbacks.    *)
(*                                                                         *)
(* Left out: contents (a size in blocks stands for one), the block cache   *)
(* and its statistics, the log, and of the journal every record but those  *)
(* recoverJournal looks for.  readFile, showCacheStats, clearLog and       *)
(* quickSelect change nothing that is left.                                *)
(***************************************************************************)
EXTENDS FirstFree, Sequences

CONSTANTS
  FileNames,          \* names typed into the form
  Sizes,              \* blocksNeeded of the contents typed into the form
  DATA_BLOCK_COUNT, INODE_SLOTS,
  MaxFscks            \* bound: fscks whose timers are pending at once

ASSUME DashboardAssumption ==
  /\ DATA_BLOCK_COUNT \in Nat \ {0} /\ INODE_SLOTS \in Nat \ {0}
  /\ Sizes \subseteq Nat \ {0}
  /\ MaxFscks \in Nat \ {0}

VARIABLES
  files,         \* state.files, in order; corrupt is a file's corruptBlocks
  inodeBitmap,   \* state.inodeBitmap, as the set of inodes in use
  dataBitmap,    \* state.dataBitmap, as the set of block numbers in use
  fsState,       \* state.fsState
  incomplete,    \* journalRecords has a BEGIN record marked as incomplete
  fscks          \* the pending fscks, oldest first: the callback that comes
                 \* next, and which of its corruptFiles still exist
vars == <<files, inodeBitmap, dataBitmap, fsState, incomplete, fscks>>

FIRST_BLOCK == 11
DiskBlocks  == FIRST_BLOCK .. FIRST_BLOCK + DATA_BLOCK_COUNT - 1
InodeRange  == 0 .. INODE_SLOTS - 1

Statuses == {"OK", "CORRUPT", "REPAIRED"}
FileRecords == [name : FileNames, inodeId : InodeRange, blockNums : Seq(DiskBlocks),
                status : Statuses, corruptBlocks : SUBSET DiskBlocks]

TypeOK ==
  /\ files \in Seq(FileRecords)
  /\ inodeBitmap \subseteq InodeRange
  /\ dataBitmap \subseteq DiskBlocks
  /\ fsState \in {"CLEAN", "DIRTY", "REPAIRING"}
  /\ incomplete \in BOOLEAN
  /\ fscks \in Seq([stage : 1 .. 3, corruptFiles : SUBSET FileNames])

Init ==
  /\ files = <<>> /\ inodeBitmap = {} /\ dataBitmap = {}
  /\ fsState = "CLEAN" /\ incomplete = FALSE /\ fscks = <<>>

-----------------------------------------------------------------------------
(* Files and blocks.                                                        *)

At(n)        == {i \in DOMAIN files : files[i].name = n}
Corrupt(i)   == files[i].status = "CORRUPT"
BlockSet(bs) == {bs[j] : j \in DOMAIN bs}
BlocksOf(f)  == BlockSet(f.blockNums)

Least(k, m) == IF k <= m THEN k ELSE m

(* Variant with a bug: the index in the bitmap is returned.                 *)
AllocatedIndex(used, k) == {[j \in 1 .. k |-> j - 1]}

(* What k calls of allocDataBlock return one after the other, when the disk *)
(* holds fewer than k free blocks up to the call that fails.                *)
Allocated(used, k) ==
  LET free == DiskBlocks \ used IN Lowest(free, Least(k, Cardinality(free)))

-----------------------------------------------------------------------------
(* createFile, writeFile, deleteFile.                                       *)

CreateFile(n, k) ==
  /\ At(n) = {}
  /\ Cardinality(DiskBlocks \ dataBitmap) >= k
  /\ \E id \in LeastOf(InodeRange \ inodeBitmap), bs \in Allocated(dataBitmap, k) :
       /\ files' = Append(files, [name |-> n, inodeId |-> id, blockNums |-> bs,
                                  status |-> "OK", corruptBlocks |-> {}])
       /\ dataBitmap' = dataBitmap \cup BlockSet(bs)
       /\ inodeBitmap' = inodeBitmap \cup {id}
  /\ UNCHANGED <<fsState, incomplete, fscks>>

(* When the disk fills up the handler returns with the blocks it has got    *)
(* so far in the file.                                                      *)
WriteFile(n, k) ==
  \E i \in At(n) :
    LET kept == dataBitmap \ BlocksOf(files[i])
    IN  /\ ~ Corrupt(i)
        /\ \E bs \in Allocated(kept, k) :
             /\ files' = [files EXCEPT ![i].blockNums = bs]
             /\ dataBitmap' = kept \cup BlockSet(bs)
        /\ UNCHANGED <<inodeBitmap, fsState, incomplete, fscks>>

(* What a callback does to a deleted file shows nowhere.                    *)
Forgotten(gone) ==
  [k \in DOMAIN fscks |-> [fscks[k] EXCEPT !.corruptFiles = @ \ gone]]

(* Variant with a bug: the inode is not freed.                              *)
FreeInodeKeeps(id) == inodeBitmap
FreeInode(id)      == inodeBitmap \ {id}

DeleteFile(n) ==
  \E i \in At(n) :
    /\ files' = [j \in 1 .. Len(files) - 1 |-> files[IF j < i THEN j ELSE j + 1]]
    /\ dataBitmap' = dataBitmap \ BlocksOf(files[i])
    /\ inodeBitmap' = FreeInode(files[i].inodeId)
    /\ fscks' = Forgotten({n})
    /\ UNCHANGED <<fsState, incomplete>>

-----------------------------------------------------------------------------
(* simulateCrash.  A name that no file has is refused only after the state  *)
(* has been set; without a name a file is drawn.                            *)

(* Variant with a bug: a file of one or two blocks has none corrupted.      *)
CorruptCountFloor(m) == (2 * m) \div 5
CorruptCount(m) == IF (2 * m) \div 5 = 0 THEN 1 ELSE (2 * m) \div 5

SimulateCrash ==
  \E i \in DOMAIN files :
    /\ files' = [files EXCEPT
         ![i].status = "CORRUPT",
         ![i].corruptBlocks = {files[i].blockNums[k] :
                                 k \in 1 .. CorruptCount(Len(files[i].blockNums))}]
    /\ fsState' = "DIRTY" /\ incomplete' = TRUE
    /\ UNCHANGED <<inodeBitmap, dataBitmap, fscks>>

CrashWithoutTarget ==
  /\ files # <<>>
  /\ \E n \in FileNames : At(n) = {}
  /\ fsState' = "DIRTY"
  /\ UNCHANGED <<files, inodeBitmap, dataBitmap, incomplete, fscks>>

-----------------------------------------------------------------------------
(* runFsck and its timers.                                                  *)

CorruptFiles == {files[i].name : i \in {j \in DOMAIN files : Corrupt(j)}}

RunFsck ==
  /\ Len(fscks) < MaxFscks
  /\ fscks' = Append(fscks, [stage |-> 1, corruptFiles |-> CorruptFiles])
  /\ fsState' = "REPAIRING"
  /\ UNCHANGED <<files, inodeBitmap, dataBitmap, incomplete>>

(* Variant with a bug: a callback gives up when another fsck is pending.    *)
DueAlone(k) == k \in DOMAIN fscks /\ Len(fscks) = 1

(* Every fsck sets the same delays, so the callbacks of one stage come in   *)
(* the order in which the fscks were started.                               *)
Due(k) == k \in DOMAIN fscks /\ (k > 1 => fscks[k - 1].stage > fscks[k].stage)

(* The callbacks of 500 and 700 ms log, and set the next timer.             *)
Advance(k) ==
  /\ Due(k) /\ fscks[k].stage < 3
  /\ fscks' = [fscks EXCEPT ![k].stage = @ + 1]
  /\ UNCHANGED <<files, inodeBitmap, dataBitmap, fsState, incomplete>>

WithStatus(S, s) ==
  [i \in DOMAIN files |-> IF i \in S
                          THEN [files[i] EXCEPT !.status = s, !.corruptBlocks = {}]
                          ELSE files[i]]

(* Variant with a bug: only the first file of the list is repaired.         *)
FixedFirst(names) ==
  {i \in DOMAIN files : /\ files[i].name \in names
                        /\ \A j \in 1 .. i - 1 : files[j].name \notin names}
Fixed(names) == {i \in DOMAIN files : files[i].name \in names}

(* Variant with a bug: the state is set only if something was repaired.     *)
StateAfterFixes(names) == IF names = {} THEN fsState ELSE "CLEAN"
StateAfter(names)      == "CLEAN"

(* The callback of 600 ms ends the oldest fsck.                             *)
FinishFsck ==
  /\ Due(1) /\ fscks[1].stage = 3
  /\ files' = WithStatus(Fixed(fscks[1].corruptFiles), "REPAIRED")
  /\ fsState' = StateAfter(fscks[1].corruptFiles)
  /\ fscks' = Tail(fscks)
  /\ UNCHANGED <<inodeBitmap, dataBitmap, incomplete>>

-----------------------------------------------------------------------------
(* recoverJournal, defragment, format.                                      *)

(* Variant with a bug: the files a pending fsck has listed are left to it.  *)
RecoveredUnlisted ==
  {i \in DOMAIN files :
     Corrupt(i) /\ \A k \in DOMAIN fscks : files[i].name \notin fscks[k].corruptFiles}
Recovered == {i \in DOMAIN files : Corrupt(i)}

RecoverJournal ==
  /\ incomplete \/ fsState = "DIRTY"
  /\ files' = WithStatus(Recovered, "OK")
  /\ fsState' = "CLEAN"
  /\ UNCHANGED <<inodeBitmap, dataBitmap, incomplete, fscks>>

(* How many blocks the files before the i-th have.                          *)
Before(i) == Cardinality({p \in (1 .. i - 1) \X (1 .. DATA_BLOCK_COUNT) :
                            p[2] <= Len(files[p[1]].blockNums)})

Packed(i) == [k \in DOMAIN files[i].blockNums |-> FIRST_BLOCK + Before(i) + k - 1]

Defragment ==
  /\ files # <<>>
  /\ files' = [i \in DOMAIN files |-> [files[i] EXCEPT !.blockNums = Packed(i)]]
  /\ dataBitmap' = UNION {BlockSet(Packed(i)) : i \in DOMAIN files}
  /\ UNCHANGED <<inodeBitmap, fsState, incomplete, fscks>>

(* Pending timers are not cancelled.                                        *)
Format ==
  /\ files' = <<>> /\ inodeBitmap' = {} /\ dataBitmap' = {}
  /\ fsState' = "CLEAN" /\ incomplete' = FALSE
  /\ fscks' = Forgotten(FileNames)

-----------------------------------------------------------------------------
Button ==
  \/ \E n \in FileNames : \/ DeleteFile(n)
                          \/ \E k \in Sizes : CreateFile(n, k) \/ WriteFile(n, k)
  \/ SimulateCrash \/ CrashWithoutTarget \/ RunFsck
  \/ RecoverJournal \/ Defragment \/ Format

Timer == (\E k \in 1 .. MaxFscks : Advance(k)) \/ FinishFsck

Next == Button \/ Timer
Spec == Init /\ [][Next]_vars

(* The browser calls back a timer some time after it is due; nobody has to  *)
(* press a button.                                                          *)
FairSpec == Spec /\ WF_vars(Timer)

-----------------------------------------------------------------------------
(* No block and no inode belongs to two files, and the bitmaps mark those   *)
(* the files have and no others.                                            *)
Accounts ==
  /\ \A i, j \in DOMAIN files :
       i # j => /\ files[i].name # files[j].name
                /\ files[i].inodeId # files[j].inodeId
                /\ BlocksOf(files[i]) \cap BlocksOf(files[j]) = {}
  /\ dataBitmap = UNION {BlocksOf(files[i]) : i \in DOMAIN files}
  /\ inodeBitmap = {files[i].inodeId : i \in DOMAIN files}

(* While the dashboard says REPAIRING an fsck is pending that will say      *)
(* CLEAN, whichever buttons were pressed and other fscks ended meanwhile.   *)
RepairingIsPending == fsState = "REPAIRING" => fscks # <<>>

(* The state turns CLEAN over a corrupted file only at the end of an fsck   *)
(* that began before the file was corrupted.                                *)
CleanIsEarned ==
  [][(fsState # "CLEAN" /\ fsState' = "CLEAN") =>
       \A i \in DOMAIN files' : files'[i].status = "CORRUPT" =>
         FinishFsck /\ files'[i].name \notin fscks[1].corruptFiles]_vars

(* Every corrupted file has a block that renderDiskGrid paints red, and     *)
(* only defragment can take the paint away.                                 *)
Red(i) == files[i].corruptBlocks \cap BlocksOf(files[i]) # {}
RedShown == \A i \in DOMAIN files : Corrupt(i) => Red(i)
RedStays == [][RedShown /\ ~ Defragment => RedShown']_vars

(* The page shows corruption while there is any: a corrupted file has a red *)
(* block, and the state is not CLEAN.  Defragmentation breaks the first,    *)
(* and an fsck the second, when a file is crashed that was not yet on the   *)
(* list the fsck took when it began.                                        *)
CorruptionShown ==
  RedShown /\ (fsState = "CLEAN" => \A i \in DOMAIN files : ~ Corrupt(i))

(* The dashboard does not stay in REPAIRING.                                *)
RepairingEnds == fsState = "REPAIRING" ~> fsState # "REPAIRING"

(* A file that was corrupted when an fsck began does not stay corrupted.    *)
FsckRepairs ==
  \A n \in FileNames :
    (\E k \in DOMAIN fscks : n \in fscks[k].corruptFiles)
      ~> (\A i \in At(n) : ~ Corrupt(i))

=============================================================================

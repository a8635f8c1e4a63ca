# TLA+ verification of the file-system recovery tool

This directory specifies the user-level file system of `src/fs_tool` in TLA+,
model-checks it with TLC on small instances and proves theorems about it with
TLAPS. Paths such as `filesystem.cpp:190` are relative to `src/fs_tool/`.

## 1. Inventory

| Component | State it keeps | Operations | Interacts with |
|---|---|---|---|
| On-disk structures (`fs_structures.h`) | the layout: superblock, two bitmap blocks, inode table, data blocks | `init` of a superblock and an inode | everything above it |
| `FileSystem` (`filesystem.h/.cpp`) | superblock and both bitmaps in memory, a journal object, a disk | format, create, write, read, delete, list, crash simulation, fsck, recover, defragment, mount (constructor), unmount (destructor) | calls bitmap, journal and disk |
| `Journal` (`journal.h`) | two vectors of records, pending and committed, in memory only | begin, log, commit, checkpoint, abort, clear | called by `FileSystem` |
| `Bitmap` (`bitmap.h`) | an array of bytes | set, clear, test, first free, count, raw copy | called by `FileSystem` |
| `VirtualDisk` (`virtual_disk.h`) | an open file and a cache | read, write (write-through), zero, corrupt an inode block, flush | called by `FileSystem`, calls the cache |
| `LRUCache` (`lru_cache.h`) | recency list and map | get, put, invalidate, evict, dirty entries | called by `VirtualDisk` |
| Command loop (`main.cpp`) | none besides the file system | one command per line; an exception ends the command, not the process | calls `FileSystem` |
| Dashboard (`fs_web/app.js`) | its own simulated file system, cache and journal; timers | buttons; fsck in three timer callbacks | independent of the C++ program |

What is hard here. The program is a single thread, so nothing interleaves
inside it; the difficulty is in long sequences of commands on shared on-disk
structures, in commands that fail half way, in the process ending at an
arbitrary point, and in blocks whose bytes are read under a different type from
the one they were written as. The dashboard does interleave: fsck runs in
timers while the other buttons stay live. The full list, with its lines, is
under `hazards` in `PROJECT.json`.

What makes each component correct:

* file system: a block belongs to one pointer and is marked allocated; names
  and inodes correspond; the counters are those of the bitmaps; every command
  changes only the file it names; what is on disk suffices to continue;
* fsck, recover, defragment, format: repair leaves accounts that match the
  inodes, running it again changes nothing, healthy files survive it;
* journal: what is replayed is committed and not older than the disk;
* disk and cache: reading returns what was last written, at any capacity;
* bitmap: bits are independent of each other and of the padding;
* dashboard: fsck ends, and blocks are not shared between files.

## 2. Modules

| Module | Models |
|---|---|
| `FsLayout` | geometry, cells, reading and writing inodes and pointers |
| `Journal` | the journal object as operators on a pair of record sequences |
| `FileStore` | the abstract promise: a map from names to contents |
| `FileSystem` | every command of the CLI; the properties |
| `MCFileSystem` | constants and the bound on troubles for TLC |
| `NatLemmas` | facts about naturals and recursive functions, without induction rules |
| `FileSystemProofs` | lemmas about `FileSystem`'s operators; theorems about `Spec`, in which anything may go wrong |
| `SoundDiskProofs` | what the file commands do to a sound disk |
| `HealthyProofs` | theorems about `HealthySpec`: consistency, and the refinement of `FileStore` |
| `LRUCache` | the cache object as operators on its list and map |
| `BlockDevice` | the abstract promise: a block holds what was last written |
| `CachedDisk` | `VirtualDisk`: the file, the stream's fail bit, the cache |
| `MCCachedDisk`, `CachedDiskProofs` | the instance for TLC; lemmas and theorems |
| `FirstFree` | first-fit allocation, one block or inode or a run of them |
| `CommandSteps` | the commands as lists of block writes, cut anywhere |
| `MCCommandSteps` | the instance for TLC, with the bound on mishaps |
| `CommandProofs` | theorems about `StepsSpec`: what a command leaves that is cut |
| `ByteBitmap`, `ByteBitmapProofs` | a bitmap as an array of bytes; theorems that it is a set of bits |
| `Dashboard` | the simulation of `app.js` with the timers of fsck |
| `MCDashboard`, `DashboardProofs` | the instance for TLC; lemmas and theorems |

`CommandSteps` extends `FileSystem`, whose helpers its commands compute with,
and has one instance of it besides: `Whole`, on the state in which the running
command began, is the specification its commands implement.
`FileSystem`, `CommandSteps` and `Dashboard` share `FirstFree`.

**Blocks.** The code never records what a block holds. `FsLayout` divides a
block into cells of the size of a directory entry (128 of 32 bytes in the code),
and an inode is `CellsPerInode` of them in a row (16 in the code): its header,
which holds type and size, then the words of its pointers, `PointersPerCell` to a
cell (8), then padding. A cell remembers what was last written to it: zeros,
garbage, the header or the words of an inode, a directory entry, text or a
pointer of an indirect block. `AsInode`, `EntryUsed` and `AsPointer` give the
meaning that `read_inode`, `find_in_root` and the indirect-block loops take from
such cells, whoever wrote them. This matters because inode ids beyond the inode
table live, by the arithmetic of `read_inode` (`filesystem.cpp:551`), in data
blocks: the table's eight blocks hold 64 inodes and the bitmap hands out 128.
The first of them is the root directory's, and the same bytes are then an inode
and sixteen entries: `add_to_root` finds the zeroed pointers of inode 64 to be
free entries and writes the next name there, which `read_inode` reads as
pointers; fsck and defragmentation write an inode back over entries. `Updated`
says which cells such a write changes: a cell none of whose bytes change stays
the entry, or the text, that it was.

**Commands.** A command of the CLI is one action, because the program runs one
command to its end before it reads the next line. `FileSystem`'s variables are
the disk (`blk`, and blocks 0 to 2 as `disk_sb`, `disk_ibm`, `disk_dbm`), the
memory (`sb`, `inode_bm`, `data_bm`, `journal`) and whether a process exists
(`mounted`). A command that throws part of the way is an action of its own that
says how far it came (`FreeingThrows`, `WriteDiskFull`). `Kill` ends the process
between two commands, without the destructor; `Unmount` is the destructor.
Commands refused before any effect, and those that only print, are stuttering.

| Action | Code |
|---|---|
| `Mount`, `Unmount`, `Kill` | constructor, destructor, process ended by a signal |
| `Format` | `format` |
| `CreateFile`, `DeleteFile`, `WriteFile` | the same-named functions, with every helper they call |
| `WriteDiskFull` | `write_file` ending in "Disk full" |
| `FreeingThrows` | `delete_file` or `write_file` ended by an out-of-range pointer |
| `SimulateCrash` | `simulate_crash`: the whole inode-table block becomes garbage |
| `Fsck`, `Recover`, `Defragment` | the same-named functions |
| `DefragmentThrows` | `defragment` ended by a pointer that is no block's, or by packing past the last block: the bitmap in memory is cleared, the blocks before the failing move have moved, nothing is persisted |

`FileNext` holds the commands that succeed on files, `TroubleNext` the crashes,
failures, repairs and relocations. `Spec` allows both; `HealthySpec` allows
`FileNext` while no inode beyond the table is in use.

**The disk.** `CachedDisk` models `VirtualDisk` call by call. Its state is the
file (whether it is there, its length in blocks, what it holds), the fail bit of
the stream, and the cache. `ReadHit`, `ReadMiss`, `Write` and `WriteAndDrop` (a
`zero_block` or `simulate_crash`) are the calls that succeed; `ReadFails` and
`WriteFails` those that throw, for a reason of the host, because the file ends
before the block, or because an earlier call failed and nothing clears the fail
bit. `Open` is the constructor, whose creation loop does not look at the result
of its writes, `CreationCut` the process ending inside that loop, `Close` the
destructor with its flush, `Kill` the end of the process. `FileSystem` uses the
disk as a store of blocks; `KeepsPromise` is what entitles it to, as long as no
call fails. The two modules are joined by this promise and not by an instance:
`FileSystem` names a block's content by cells, `CachedDisk` by opaque values.

**The commands, write by write.** `write_block` flushes every block it writes,
so a command that is ended by the process ending leaves on disk exactly a prefix
of its writes. `CommandSteps` begins a command by computing that list (`todo`)
from what it reads, and then makes one write at a time (`WriteNext`); `Cut` ends
the process between two of them, `Finish` ends the command. `cmd` is the running
command, `before` the state it began in, `cutOp` the command that was cut last.
The list can be computed at once because a command reads nothing that is not on
disk when it begins or written by itself. A list says what the code's order is:
`Formatting` has the superblock and empty bitmaps first, then the table, the
root, and the superblock and bitmaps again; `InodeThenEntry` the new inode
before its name; `Zeroing` one zeroed block per `free_data_block`; `Fixes` one
inode write per bad pointer of a pass 1; and most end with `Persisting`,
superblock and both bitmaps. fsck writes the bitmaps before the superblock. A
single block is written whole or not at all. The memory takes the values it will
have at the end when the command begins; no step reads it before, except that a
cut loses it. `Recover` writes only the superblock and `Defragment` destroys the
directory uncut, so both stay with `FileSystem`.

**The bitmap.** `ByteBitmap` has the constructor, `set`, `clear`, `test`,
`allocate_first_free`, `free_count` and `clear_all` on an array of bytes, the
copies of `write_bitmaps` and `read_bitmaps`, and the loop of fsck that compares
two bitmaps. The loops are recursive functions over the index, as the code runs
them. It has operators and no state: the state is `FileSystem`'s, and the
theorems say that each operator does to the set `Allocated` what `FileSystem`
does to its bitmaps.

**The dashboard.** `Dashboard` has one action per button and per timer callback
of `app.js`. `files` are the file objects in order; `fscks` are the pending
fscks, oldest first, each with the callback that comes next and those of its
`corruptFiles` that still exist (a closure holds the file objects, and what it
does to an object no longer in `state.files` shows nowhere, which is why
deleting and formatting take names out of it, and a new file of the same name is
another object). The two first callbacks are `Advance`, the third `FinishFsck`.

| Action | Code in `fs_web/app.js` |
|---|---|
| `CreateFile`, `WriteFile`, `DeleteFile` | the same-named handlers with `allocDataBlock`, `freeDataBlock`, `allocInode`, `freeInode` |
| `SimulateCrash`, `CrashWithoutTarget` | `simulateCrash`, which sets DIRTY before it looks for the name |
| `RunFsck`, `Advance`, `FinishFsck` | `runFsck` and its three callbacks |
| `RecoverJournal`, `Defragment`, `Format` | the same-named handlers |

`writeFile` may fill the disk half way and return with the blocks it has got.
`createFile` checks for room first, so its return at line 165 is never reached.
A size is a number of blocks. Left out: contents, the log, the simulated cache
and its statistics, the journal's records except whether one is marked
incomplete, and drawing, except which blocks are red. Two places where the page
shows an older `fsState` than the variable (`format` does not repaint the badge,
`runFsck` not the superblock panel) are therefore out of the model.

**Abstractions**, each as it is stated in the modules: a cell of an indirect
block holds one pointer (eight in the code); `file_size` counts blocks and a
text says whether it fills its last block; names and texts are printable and
names have five characters or more, so that their bytes decode as the header of
an inode of invalid type (the type is the fifth byte of an inode, the first of a
name), as do an indirect block's pointers; a cell that holds any of them is taken
to be full of them. As pointers, the bytes of a text or of garbage are out of
range; of a directory entry the first word is its inode id, which is the number
of a block too, and the others are `NameWords`, any pointers at all: the proofs
allow every choice, and the runs take the out-of-range ones that printable
characters are. Pointers that `validate_block` or `Bitmap::validate` would reject
are one value, `BadPtr`, and so are 1 and 2, the bitmaps' blocks, which are read
as pointers only out of a directory entry that names inode 1 or 2 and lies in
an inode beyond the table. A bitmap is the set of its set bits; the disk is a write-through store; transaction ids are the least
unused ones; I/O never fails. The superblock fields that never change are
represented by `magic`. In `CachedDisk` a block is one value, the statistics counters are left
out, and `mark_dirty` and `clear` are absent because nothing calls them.

## 3. Runs

| Run | Question | Result |
|---|---|---|
| `healthy` | Is the disk consistent in ordinary use, and do the commands implement `FileStore`? | holds |
| `full` | With crashes, failures and repairs in any order: types, journal, fsck, format | holds |
| `device` | Does a read return what was last written, whatever the cache does? | holds |
| `cut` | What does a command leave that is cut between two of its writes? | holds |
| `dashboard` | Does the dashboard stay consistent, and does fsck end, with buttons pressed between its timers? | holds |
| `fsck_healthy` | Does fsck spare the files of a consistent disk, and their blocks' allocation? | violated |
| `fsck_bitmap` | Does fsck leave an inode bitmap that matches the inodes? | violated |
| `defrag` | Does defragmentation preserve the files? | violated |
| `disk_full` | Does a command that meets a full disk, directory or inode table do all or nothing? | violated |
| `leak` | Does overwriting free all that the file had? | violated |
| `journaling` | Does mounting after a cut restore consistency? | violated |
| `dashboard_red` | Does the page show corruption while there is any? | violated |

`healthy` checks, after every command, `SingleOwner` (no block is reached by two
pointers), `OwnedAllocated` (a reached block is allocated on disk),
`NamesResolve` (directory and inode bitmap agree), `CountersExact`,
`MemoryOnDisk` (losing the process loses nothing), and `FilesAreAStore`: under
the mapping `Files`, which is what `read_file` returns for every name, each
command is a step of the abstract map or changes nothing.

`full` shows what is left when anything may have gone wrong: the state stays
well typed (`TypeOK`), the journal never holds a block image between commands,
so `recover` writes nothing back (`NothingToReplay`: every command checkpoints
what it commits in the same call, and the journal dies with the process),
`FsckConverges` (a second fsck changes at most the inode bitmap, a third
nothing), `FsckAccounts` (after fsck the data bitmap has every block that direct
pointers reach and none that nothing reaches, with exact counters and everything
on disk; whether it has the indirect blocks too, which it should, is left to
`FsckSparesFiles`), and
`FormatRestores` (formatting restores everything `healthy` checks).

`device` checks `CacheWellFormed` (list and map of the cache name the same
blocks, within its capacity), `Coherent` (cached blocks equal the file's and
none is dirty, so eviction without write-back loses nothing), `AgesByOne` (a
call moves a cached block back by at most one place and evicts only the oldest
of a full cache, so a block survives the next capacity - 1 calls on others) and
`KeepsPromise` (refinement of `BlockDevice`, in which a failed write leaves
doubt about its own block only: the cache may go on serving the old value while
the file holds the new one, until the disk is opened again). `BlockDevice`
answers a read with what some block may hold and does not record which block
was asked for; stale copies are caught because `Content`, the refinement mapping,
is for every block what a read of it would return now.

`cut` checks at every point inside a command, hence at every point where it may
be cut:

* `CutSparesOthers`: on a disk that was consistent, every file but the one the
  command names reads as before, and its blocks are allocated in the bitmap on
  disk, so that nothing takes them after the next mount. This is what is left of
  atomicity: a cut write loses the file it was writing, and no other. This
  property and the next two ask (`Inside`) that neither the inodes in use nor
  the one a creation takes lie beyond the inode table. The instance checked
  never gets that far with its two names, but the proof showed that the
  condition is needed: the home of such an inode is a data block, perhaps
  another file's.
* `NoSharingInside`: no two pointers on disk reach one block. It holds because
  inodes are written after the blocks they point to, and holds no longer once a
  disk with a stale bitmap, left by an earlier cut, is written to again.
* `EntriesBacked`: no entry leads to an inode that is not a file's, except
  inside the deletion of its own file.
* `FsckResumes`: fsck started again on what a cut fsck has left ends with the
  same inodes and the same data bitmap, whatever the disk it began on.
* `FormatHeals`: a format that ends leaves a consistent disk, after any cuts, a
  cut format included (whose valid superblock and missing root the next mount
  takes for a file system).
* `StepsAreCommands`: the refinement. If a command is not cut, the state in
  which it began and the state in which it ends are related by `FileSystem`'s
  `Next`: the list of writes is neither short nor long.

`dashboard` checks `Accounts` (no block or inode in two files, the bitmaps are
those of the files), `RepairingIsPending` (while it says REPAIRING, an fsck is
pending that will say CLEAN), `CleanIsEarned` (CLEAN is not shown over a
corrupted file, except by an fsck that began before the corruption: that fsck
does show CLEAN, and the exception states exactly this), `RedStays` (only
defragmentation takes the red blocks from a corrupted file), and under fairness
`RepairingEnds` and `FsckRepairs` (a file in the list of a pending fsck does not
stay corrupted).

The first five violations are disagreements between the code and its comments or
README, quoted under `findings`. In each the counterexample is a handful of
commands: format, create, fsck loses the directory; create, crash, fsck leaves a
stale bit; create, write, defrag overwrites the directory; a write larger than
the free space empties the file it was to replace; two large writes to one file
leak.

Two of these properties say more than their first counterexample shows.
`FsckSparesFiles` also asks that the blocks of a file stay allocated. In an
instance whose table holds every inode, so that fsck reads no inode from a data
block, it is violated by format, create, write of a large file, fsck: pass 1 counts
direct pointers only (`filesystem.cpp:346`), and the bits of the indirect block
and of the blocks it lists are cleared under the file. `AllOrNothing` also speaks
of creation. With the disk full and the directory's block too, `create_file`
ignores that `add_to_root` returned false (`filesystem.cpp:104`) and reports a
file that has an inode and no name. And the first file whose inode lies beyond the
table (file 64 in the code, where `README.md` promises 127) has its inode written
into the root directory's block, over the entries of earlier files. Each of
these was confirmed by checking the conjunct alone on such an instance.

`journaling` is about the claim of the whole project, a write-ahead log:
format, create cut between the directory entry and the bitmap, mount; the entry
is there, its inode is free in the bitmap, and there was no journal to read,
since `journal.h` keeps it in two vectors of the process. Of a format that was cut
`RecoveryRestores` asks the least, that there be a root directory, and this fails as
well: the superblock is valid after the first write, and the next mount finds
nothing to format. `dashboard_red` (`CorruptionShown`): create, create,
delete the first, crash the second, defragment, and no red block is left. Its
other half, that the state is not CLEAN while a file is corrupted, fails by
create, fsck, crash, and then the three callbacks: the file is not on the list
the fsck took when it began.

**Bounds.** `healthy`: two names, a content of one short block and one of three
blocks with two direct pointers (so the indirect block and a pointer in it are
used), four table inodes, eight data blocks, enough for two files of which one
is large or for leaked blocks to fill the disk. A directory block has room for
both names, as the code's 128 entries have for its 64 table inodes. `full`: one
direct pointer, five inodes of which two lie in the root directory's block and one
in the next, four data blocks of which the last lies in the journal's area, so that the disk fills and
fsck finds pointers out of its range; at most `MaxTroubles` = 3 commands of
`TroubleNext` in a behaviour, which is what it takes for a crash, a command that
throws because of it and a recover of the record this leaves; `MaxStale` = 1
record left by such commands at a time. `WORD` = 16 stands for 2^32. Names are
interchangeable in `full`, which is why it uses a symmetry set.
An inode has two cells, a header and one of pointers, and a block two inodes, which
is the least in which an entry written into an inode becomes its pointers, and
the next one its neighbour's header. `full` gets there: with one block of inode
table, the second file's inode is written over the first one's entry and gets its
own name into its pointers. `disk_full` has
one inode to a block, hence two entries to a directory block, four table inodes
and a fifth beyond, two data blocks and four names: directory, disk and table run
out within five commands.

`device`: three blocks and two cache entries, the least that has a hit, a miss
with room and a miss that evicts, with a list long enough to have an order.
Values: zeros, the crash pattern, a partly written block and one other.

`cut`: the instance of `full` with a second block of inode table, so that only one
inode lies beyond it, and a journal's area of two blocks, so that a direct pointer
out of fsck's range exists. At
most `MaxMishaps` = 1 crash, failed write or cut, then at most one fsck, or one
write or delete that throws, cut or not, and after that mounts only. One mishap
is enough for each property: it leaves the disk that a later command, repair or
format works on, and the cut of that repair is allowed on top.

`dashboard`: three names, two inodes, five data blocks and files of one or four
blocks, so that blocks and inodes run out separately, a write fills the disk
half way and defragmentation moves blocks; `MaxFscks` = 2 fscks pending, each at
its own callback. A file has at most four blocks, so `corruptCount`, 40 % of them,
is never more than one here; the proofs have no such bound.

**Deadlock and fairness.** The command loop waits for its user, who may stop, so
deadlock is not checked there and no fairness is assumed for the C++ program,
which is synchronous. `CommandSteps` states none either: a command that is
not finished is one the process ended in. `device`
checks for deadlock: the disk can always be used or closed. `Dashboard` assumes
`WF_vars(Timer)`: a browser calls back a timer that is due, some time later.
The callbacks of one stage come in the order in which they were set, because all
fscks set the same delays (500, 700 and 600 ms); callbacks of different stages
come in any order that lets each fsck take its own three in turn. Nothing is
assumed of the buttons, so that the liveness properties hold with a user who
goes on pressing them. A user who presses fsck again before the last one has
ended, for ever, keeps the state in REPAIRING only between two ends of an fsck.

## 4. Proofs

The theorems about `FileSystem` hold for every geometry allowed by
`GeometryAssumption`, every set of names, and every set of contents allowed by
`ContentAssumption` (a content fits the direct pointers and one indirect block)
and `NoFileAssumption` (the value that says "no such file" is not the content of
one). `FsLayout` and `FileSystem` state these, and TLC evaluates them on every
run.

**Everything may go wrong** (`FileSystemProofs`): theorems about `Spec`, with its
failing commands, crashes, repairs and relocations.

* `SpecTypeOK` and `SpecNothingToReplay`: `Spec => [](TypeOK /\ JournalMarked)`,
  and neither half is inductive without the other. `recover` writes to the disk
  what the journal holds, so types need the journal to hold no block image; the
  journal comes to hold none only because the number of records a failing write
  leaves is that of blocks it was typed to have. `JournalMarked` says more than
  `NothingToReplay`: each record is a mark of a transaction. Nothing is claimed of
  what an inode's pointers are: an inode beyond the table may have an entry for
  its pointers, and whatever they are, the commands end where the code throws
  and touch nothing outside the disk. The lemmas follow the code: `InodeHome` (the home
  of every inode id is on the disk, which needs the assumption that the ids
  beyond the table still fit the disk), where a pointer lies in an inode's
  cells (`PointerWord`), `read_inode` of arbitrary bytes (`AsInodeType`), what a
  write of an inode leaves to be read there and elsewhere (`UpdatedInode`,
  `WrittenInode`), the directory helpers, the allocator, and one lemma per command. The
  loops of `defragment` and of the journal are recursive functions; `NatLemmas`
  gives existence and uniqueness of such a function by a least counterexample.
  That a move which is not `Movable` ends the command is what keeps both
  `Defragment` and `DefragmentThrows` on the disk.
* `SpecFsckConverges` and `SpecFsckAccounts`, on `RepairedInode`, what pass 1
  makes of arbitrary bytes, text, garbage and directory entries included.
* `FormatRestoresAll`: `Spec => FormatRestores`, from no invariant at all:
  `MkfsFormats` says what mkfs leaves on whatever was there (it rests on
  `HomesDiffer`: two inode ids never share a place), and the three parts about
  the disk follow because the only pointer left is the root's first
  (`FormattedPointers`).

**Ordinary use** (`HealthyProofs`, on `SoundDiskProofs`): theorems about
`HealthySpec`, in which commands succeed and no inode beyond the table is used.

* `HealthyInvariant`: `HealthySpec => []HealthyInv`. The invariant is types,
  `MemoryOnDisk`, and: where the disk has a valid superblock, its inodes and
  directory are `Sound` for its bitmaps and its counters are exact; where it
  has none, it is blank and not mounted. Of what `healthy` checks only
  `MemoryOnDisk` is inductive alone. That no block has two owners needs, at the next allocation,
  that every owned block is allocated; that, at the next deletion, that the freed
  blocks had one owner; and deletion frees the inode its entry names,
  so the entries must name different, allocated inodes, of which the root is
  none. `Sound` joins these, and says besides that an indirect block is owned
  like the blocks it lists and that the root's first pointer is used. The steps
  are taken in `SoundDiskProofs`, which
  takes each command apart into its writes: which blocks an inode owns
  (`Owned`), that a write elsewhere `Keeps` a file, and where a new
  file's blocks are put (`Allocation`, `Place`).
* `HealthySingleOwner`, `HealthyOwnedAllocated`, `HealthyCountersExact`,
  and, in `FileSystemProofs`, `HealthyMemoryOnDisk` and `HealthyTypeOK`: the
  invariants of the run. The counters are
  right because each block given back is counted once, no two pointers reaching
  it; and `WrapExact` says that the arithmetic modulo `WORD` loses nothing, a
  count never exceeding what is there to count.
* `HealthyNamesResolve`: every inode in use has its entry, under the hypothesis
  `RoomInDirectory`: a block has as many cells as there are names, or table inodes
  besides the root. The code's has 128 cells and 63 such inodes. The
  hypothesis is needed: `create_file` takes the inode before it looks for a slot
  and ends with success if there is none. The proof is the pigeonhole principle on
  the slots of the root's first block (`DirectoryHasRoom`).
* `HealthyFilesAreAStore`: `HealthySpec => FilesAreAStore`, the refinement of
  `FileStore`, without that hypothesis: a file whose name found no slot cannot be
  read, and its creation is a stutter. The lemmas say what `read_file` returns
  (`SoundReadFile`), that a kept inode reads as before (`KeepsFile`),
  that what `write_file` wrote is read back chunk by chunk across the
  direct and indirect pointers (`WrittenFileReads`), and then per command that one
  name changes and the others do not (`OneFileChanges`).

`CachedDiskProofs` proves, for every disk size, every capacity of at least one
and every set of block values (`DiskAssumption`):

* `DiskTypeOK`, `DiskCacheWellFormed`, `DiskCoherent`: `Spec => []IInv`, where `IInv` joins
  types, `Shaped(cache)` and `Coherent`. Coherence alone is not inductive: what
  a put displaces is known only if list and map agree. The lemmas go from
  sequences without repetition (`EraseList`, `PushFront`, `DropLast`,
  `SpliceList`) to the operations of the cache (`GetShape`, `MakeRoomShape`,
  `PutShape`, `InvalidateShape`) to the calls of the disk.
* `DiskAges`: `Spec => AgesByOne`, from the same lemmas, each of which also says
  where every block of the list has gone.
* `DiskKeepsPromise`: `Spec => KeepsPromise`, one lemma per kind of call, with
  `Content` (what the file and the cache hold for a block) as refinement
  mapping.

`DashboardProofs` proves, for every number of blocks and inodes, every set of
names and sizes and every number of pending fscks (`DashboardAssumption`):

* `DashboardTypeOK`, `DashboardAccounts`: `Spec => []IInv`, where `IInv` joins
  `TypeOK`, `Accounts`, `NoBlockTwice` (a file has no block twice) and
  `EveryFileHasABlock` (which crash simulation needs, to corrupt the first).
  `Accounts` alone is not inductive: defragmentation numbers blocks
  consecutively from the first, and stays on the disk only because all blocks
  of all files are distinct and of that disk, which `Accounts` does not say
  within one file. The lemmas count them (`PackedFits`, `PackedApart`).
* `DashboardRepairing`: `RepairingIsPending`, inductive as it stands with types.
* `DashboardCleanIsEarned` and `DashboardRedStays`: the action properties, one
  case per action; the second needs that a crash corrupts at least the first
  block of a file and that every file has one.

**Commands cut between two writes** (`CommandProofs`, on `HealthyProofs`):
theorems about `StepsSpec`, in which any number of commands may be cut, crash,
fail or throw.

* `StepsInvariant`: `StepsSpec => []StepsInv`. What `cut` checks is not
  inductive: that the next write does no harm cannot be seen from the disk and
  the list of writes without knowing how the list was computed. `StepsInv`
  therefore follows the running command into its future: `Leads(D, ws, S, E)`
  says that the writes `ws` lead from the disk `D` to `E` through disks of the
  set `S`, and the invariant is types, a valid superblock wherever a process
  runs, and that what is left of the command leads from the present disk,
  through disks in `Safe`, to some end. `Safe` holds the disks on which all
  that is claimed of a cut is true. `WriteNext` and `Cut` are then immediate, and
  the work is to show, for each command, that its list leads safely to its end
  when it begins (`MountLeads`, `WriteLeads`, `DeleteLeads`, `CreateLeads` and
  so on).
* `StepsNoSharing`, `StepsEntriesBacked`, `StepsCutSpares`: what is claimed of
  commands that began on a consistent disk, which is `Sound` (`SoundBegun`). A
  list is taken apart where the code's order matters. While `write_file` zeroes
  and fills blocks the disk is `Near` the one it began with, different only
  in blocks the file gives back or that are free, and no block has a second
  owner whatever they hold (`NearSound`); the inode write that follows makes
  only the one file another (`ChangesOnly`); the directory of the others stays
  (`Spares`). The bitmaps come last, and the old and the new one both cover the
  blocks of the other files (`Covering`).
* `StepsFsckResumes`, from no consistency at all: each write of pass 1 puts
  into the home of an inode bytes of which the repair is what it was of the
  bytes before (`Mending`, `MendingStays`), for every number of bad
  pointers cleared so far (`FixesUpToMend`).
* `StepsFormatHeals`, an action property: a format leads to one known disk
  (`Healed`), from any disk, with which the process agrees from the beginning.
* `StepsTypeOK`: no write of any list falls outside the disk.

`ByteBitmapProofs` proves, for every number of bits and every block that can
hold them (`Fits`), that bytes implement a set of bits: `BitmapSetClear`,
`BitmapIsItsSet`, `BitmapFirstFree`, `BitmapFreeCount`, `BitmapCompared`. The
loops are recursive functions; each is shown to exist, because a function given
in closed form satisfies its equation, and to be that function, by a least
counterexample (`AgreeUp`, `AgreeDown` of `NatLemmas`, from the well-foundedness of the
natural numbers). The theorems justify that `FileSystem` and `CommandSteps` keep
bitmaps as sets, count them with `Cardinality` and allocate with `LeastOf`. No
run evaluates bytes: no property of the runs could tell them from the sets.

Only model-checked: `StepsAreCommands`, that an uncut command of `CommandSteps`
is the command of `FileSystem`; the dashboard's two liveness properties, which
are out of the prover's reach; and the violations, for which a counterexample
says everything. `StepsInv` is not evaluated by TLC, because it speaks of a
path of disks for every state; what it implies, the runs check.

## 5. Plan

Done: every module of section 2, their runs, and the theorems of section 4:
all that `healthy`, `full` and `device` check, the safety of `dashboard`, and of
`cut` all but one property.

Left: `StepsAreCommands` as a theorem. It relates the states in which a command
begins and ends, so every action of `FileSystem` has to be restated as a relation
between two recorded states, and `Follows` has to say of each command which disk
it ends on, as it does for format.

Not modelled and not planned: printing and tokenizing in `main.cpp`, page markup
and styling, the simulated cache of the dashboard (its hits and misses are
numbers on the page that nothing reads), the Makefile.

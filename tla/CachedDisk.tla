----------------------------- MODULE CachedDisk -----------------------------
(***************************************************************************)
(* VirtualDisk: a disk file behind a write-through LRUCache.               *)
(*                                                                         *)
(* The file may be shorter than the disk: the loop that creates it does    *)
(* not look at the result of its writes, and the process may end inside    *)
(* it.  size counts the whole blocks there are.  Once a read or a write of *)
(* the stream has failed its fail bit stays set, since nothing clears it:  *)
(* from then on blocks are served from the cache or not at all.            *)
(***************************************************************************)
EXTENDS Integers, FiniteSets

CONSTANTS TOTAL_BLOCKS, CAPACITY,
          Values,                \* what a block can hold
          Zero, Garbage, Torn,   \* zeros; the crash pattern; partly written
          Done, Failed           \* how a call that returns no block ended

Blocks == 0 .. TOTAL_BLOCKS - 1

ASSUME DiskAssumption ==
  /\ TOTAL_BLOCKS \in Nat \ {0}
  /\ CAPACITY \in Nat \ {0}
  /\ {Zero, Garbage, Torn} \subseteq Values

VARIABLES
  exists,   \* the disk file is there
  size,     \* its length in whole blocks
  file,     \* what the file holds; zeros past its end, as in a hole
  open,     \* a VirtualDisk object exists
  failed,   \* the fail bit of file_
  cache,    \* cache_
  answer    \* what the last call returned, or how it ended

fileVars == <<exists, size, file>>
vars     == <<fileVars, open, failed, cache, answer>>

LRU == INSTANCE LRUCache WITH CacheBlocks <- Blocks

Init ==
  /\ exists = FALSE /\ size = 0 /\ file = [b \in Blocks |-> Zero]
  /\ open = FALSE /\ failed = FALSE
  /\ cache = LRU!EmptyCache
  /\ answer = Done

-----------------------------------------------------------------------------
(* The constructor.  A file that is not there is created, and some of its  *)
(* blocks may be missing afterwards; one that is there is taken as it is.   *)
Open ==
  /\ ~ open
  /\ open' = TRUE /\ failed' = FALSE
  /\ cache' = LRU!EmptyCache
  /\ exists' = TRUE
  /\ IF exists THEN UNCHANGED size ELSE size' \in 0 .. TOTAL_BLOCKS
  /\ answer' = Done
  /\ UNCHANGED file

(* The process ends while the constructor creates the file.                 *)
CreationCut ==
  /\ ~ open /\ ~ exists
  /\ exists' = TRUE
  /\ size' \in 0 .. TOTAL_BLOCKS - 1
  /\ UNCHANGED <<file, open, failed, cache, answer>>

-----------------------------------------------------------------------------
(* read_block.                                                              *)

ReadHit(b) ==
  /\ open
  /\ b \in LRU!Cached(cache)
  /\ cache' = LRU!Get(cache, b)
  /\ answer' = cache.map[b].data
  /\ UNCHANGED <<fileVars, open, failed>>

ReadMiss(b) ==
  /\ open
  /\ b \notin LRU!Cached(cache)
  /\ ~ failed /\ b < size
  /\ cache' = LRU!Put(cache, b, LRU!Clean(file[b]))
  /\ answer' = file[b]
  /\ UNCHANGED <<fileVars, open, failed>>

(* Past the end of the file, after an earlier failure, or for a reason of   *)
(* the host: the read fails and nothing is cached.                          *)
ReadFails(b) ==
  /\ open
  /\ b \notin LRU!Cached(cache)
  /\ failed' = TRUE
  /\ answer' = Failed
  /\ UNCHANGED <<fileVars, open, cache>>

-----------------------------------------------------------------------------
(* write_block, and zero_block and simulate_crash, which are a write_block  *)
(* of zeros or garbage whose cache entry is dropped again.                  *)

AtLeast(n) == IF size < n THEN n ELSE size

(* Variant with a bug: every write is taken to append.                      *)
StoreAppends(b, v) ==
  /\ file' = [file EXCEPT ![b] = v]
  /\ size' = size + 1

Store(b, v) ==
  /\ file' = [file EXCEPT ![b] = v]
  /\ size' = AtLeast(b + 1)

(* Variant with a bug: the file is left to flush_cache, but eviction drops  *)
(* dirty entries.                                                           *)
WriteBack(b, v) ==
  /\ open /\ ~ failed
  /\ cache' = LRU!Put(cache, b, LRU!Dirty(v))
  /\ answer' = Done
  /\ UNCHANGED <<fileVars, open, failed>>

Write(b, v) ==
  /\ open /\ ~ failed
  /\ Store(b, v)
  /\ cache' = LRU!Put(cache, b, LRU!Clean(v))
  /\ answer' = Done
  /\ UNCHANGED <<exists, open, failed>>

WriteAndDrop(b, v) ==
  /\ open /\ ~ failed
  /\ Store(b, v)
  /\ cache' = LRU!Invalidate(LRU!Put(cache, b, LRU!Clean(v)), b)
  /\ answer' = Done
  /\ UNCHANGED <<exists, open, failed>>

(* A write that throws never reaches the cache.  If the stream was good     *)
(* before, all, a part or nothing of the block is in the file.              *)
WriteFails(b, v) ==
  /\ open
  /\ failed' = TRUE
  /\ answer' = Failed
  /\ \/ UNCHANGED <<file, size>>
     \/ ~ failed /\ Store(b, v)
     \/ ~ failed /\ file' = [file EXCEPT ![b] = Torn] /\ size' = AtLeast(b)
  /\ UNCHANGED <<exists, open, cache>>

-----------------------------------------------------------------------------
(* flush_cache, in the destructor; and the process ending without it.       *)

Flushed == [b \in Blocks |-> IF b \in LRU!DirtyIn(cache) /\ ~ failed
                             THEN cache.map[b].data ELSE file[b]]

Gone ==
  /\ open' = FALSE /\ failed' = FALSE
  /\ cache' = LRU!EmptyCache
  /\ answer' = Done

Close == open /\ Gone /\ file' = Flushed /\ UNCHANGED <<exists, size>>
Kill  == open /\ Gone /\ UNCHANGED fileVars

Next ==
  \/ Open \/ CreationCut \/ Close \/ Kill
  \/ \E b \in Blocks :
       \/ ReadHit(b) \/ ReadMiss(b) \/ ReadFails(b)
       \/ \E v \in {Zero, Garbage} : WriteAndDrop(b, v)
       \/ \E v \in Values : Write(b, v) \/ WriteFails(b, v)

Spec == Init /\ [][Next]_vars

-----------------------------------------------------------------------------
TypeOK ==
  /\ exists \in BOOLEAN /\ open \in BOOLEAN /\ failed \in BOOLEAN
  /\ size \in 0 .. TOTAL_BLOCKS
  /\ file \in [Blocks -> Values]
  /\ LRU!Cached(cache) \subseteq Blocks
  /\ cache = [list |-> cache.list, map |-> cache.map]
  /\ cache.map \in [LRU!Cached(cache) -> [data : Values, dirty : BOOLEAN]]

(* The list and the map of the cache name the same blocks, each of them     *)
(* once, and no more than its capacity (lru_cache.h:55-57): no sequence of  *)
(* hits, insertions, evictions and invalidations drives them apart.         *)
CacheWellFormed == LRU!WellFormed(cache)

(* While no call has failed, a cached block is what the file holds, so that *)
(* dropping any entry at any time (lru_cache.h:93, the end of the process)  *)
(* loses nothing: every entry is clean.                                     *)
Coherent ==
  /\ LRU!DirtyIn(cache) = {}
  /\ ~ failed => \A b \in LRU!Cached(cache) : cache.map[b].data = file[b]

(* Recency: whatever a call does to other blocks, a cached block moves back *)
(* by at most one place, and leaves the cache only from the last place of a *)
(* full list (lru_cache.h:55), or because it is itself zeroed or corrupted. *)
Ages(b, i) ==
  \/ \E k \in 1 .. i + 1 : k \in DOMAIN cache'.list /\ cache'.list[k] = b
  \/ i = CAPACITY
  \/ \E v \in {Zero, Garbage} : WriteAndDrop(b, v)
AgesByOne ==
  [][open /\ open' => \A i \in DOMAIN cache.list : Ages(cache.list[i], i)]_vars

(* The disk and its cache keep the promise of BlockDevice: a read returns   *)
(* what was last written, through evictions, invalidations, failures and    *)
(* reopening.  After a failed write the file and the cache may disagree.    *)
Copies(b) == IF b \in LRU!Cached(cache) THEN {cache.map[b].data} ELSE {}
Content   == [b \in Blocks |-> {file[b]} \cup Copies(b)]
Device    == INSTANCE BlockDevice WITH content <- Content
KeepsPromise == Device!Spec

=============================================================================

--------------------------- MODULE HealthyProofs ---------------------------
(***************************************************************************)
(* Ordinary use of the file system: no crash inside a command, no failure, *)
(* and no inode beyond the inode table (HealthySpec).  The disk is always  *)
(* sound, the free counts are exact, and the commands implement the map    *)
(* from names to contents of FileStore.                                    *)
(***************************************************************************)
EXTENDS SoundDiskProofs

-----------------------------------------------------------------------------
(* The counters.                                                           *)

LEMMA WrapExact ==
  ASSUME NEW x \in 0 .. WORD - 1
  PROVE  Wrap(x) = x
<1>1. WORD \in Nat \ {0}
  BY ContentAssumption, GeometryAssumption
<1> QED BY <1>1 DEF Wrap

(* Sets of inode ids are finite.                                            *)
LEMMA IdsFinite ==
  ASSUME NEW S \in SUBSET InodeIds
  PROVE  IsFiniteSet(S) /\ Count(S) \in Nat /\ Count(S) <= INODE_COUNT
<1>1. INODE_COUNT \in Nat /\ INODE_COUNT > 0 /\ InodeIds = 0 .. INODE_COUNT - 1
  BY GeometryAssumption DEF InodeIds
<1>2. IsFiniteSet(InodeIds) /\ Cardinality(InodeIds) = INODE_COUNT
  BY <1>1, FS_Interval
<1> QED BY <1>2, FS_Subset, FS_CardinalityType DEF Count

(* What a change of the bitmaps does to the counts.                         *)
LEMMA CountChanges ==
  /\ \A I \in SUBSET InodeIds : \A id \in InodeIds \ I :
       /\ Count(I \cup {id}) = Count(I) + 1
       /\ Count(I \cup {id}) \in 1 .. INODE_COUNT
  /\ \A I \in SUBSET InodeIds : \A id \in I :
       Count(I \ {id}) = Count(I) - 1 /\ Count(I) \in 1 .. INODE_COUNT
  /\ \A B \in SUBSET DataBlocks, F \in SUBSET DataBlocks :
       F \subseteq B => Count(B \ F) = Count(B) - Count(F)
<1>1. ASSUME NEW I \in SUBSET InodeIds, NEW id \in InodeIds \ I
      PROVE  /\ Count(I \cup {id}) = Count(I) + 1
             /\ Count(I \cup {id}) \in 1 .. INODE_COUNT
  <2>1. IsFiniteSet(I) /\ Count(I) \in Nat
    BY IdsFinite
  <2>2. Count(I \cup {id}) = Count(I) + 1
    BY <2>1, FS_AddElement DEF Count
  <2>3. I \cup {id} \in SUBSET InodeIds
    OBVIOUS
  <2>4. Count(I \cup {id}) <= INODE_COUNT
    BY <2>3, IdsFinite
  <2>5. INODE_COUNT \in Nat
    BY GeometryAssumption
  <2> QED BY <2>1, <2>2, <2>4, <2>5
<1>2. ASSUME NEW I \in SUBSET InodeIds, NEW id \in I
      PROVE  Count(I \ {id}) = Count(I) - 1 /\ Count(I) \in 1 .. INODE_COUNT
  <2>1. IsFiniteSet(I) /\ Count(I) \in Nat /\ Count(I) <= INODE_COUNT
    BY IdsFinite
  <2>2. Count(I \ {id}) = Count(I) - 1
    BY <2>1, FS_RemoveElement DEF Count
  <2>3. Count(I) # 0
    BY <2>1, FS_EmptySet DEF Count
  <2>4. INODE_COUNT \in Nat
    BY GeometryAssumption
  <2> QED BY <2>1, <2>2, <2>3, <2>4
<1>3. ASSUME NEW B \in SUBSET DataBlocks, NEW F \in SUBSET DataBlocks, F \subseteq B
      PROVE  Count(B \ F) = Count(B) - Count(F)
  <2>1. Count((B \ F) \cup F) = Count(B \ F) + Count(F)
    <3>1. (B \ F) \in SUBSET DataBlocks /\ (B \ F) \cap F = {}
      OBVIOUS
    <3> QED BY <3>1, DataFinite
  <2>2. (B \ F) \cup F = B
    BY <1>3
  <2> DEFINE D == B \ F
  <2>3. D \in SUBSET DataBlocks
    OBVIOUS
  <2>4. Count(B) = Count(D) + Count(F)
    BY <2>1, <2>2, Zenon
  <2> HIDE DEF D
  <2>5. Count(D) \in Nat /\ Count(F) \in Nat
    BY <2>3, CountBlocks
  <2>6. Count(D) = Count(B) - Count(F)
    BY <2>4, <2>5
  <2> QED BY <2>6 DEF D
<1> QED BY <1>1, <1>2, <1>3

(* delete_file counts each block it frees once.                             *)
LEMMA OwnedCount ==
  ASSUME NEW d, NEW I, NEW B, Sound(d, I, B), NEW id \in TableIds
  PROVE  LET ino == ReadInode(d, id)
             ptr == PointersOf(d, ino.ind)
         IN  /\ Count(Owned(d, id)) = FreedCount(ino.direct) + FreedCount(ptr)
                                        + Count({ino.ind} \ {0})
             /\ FreedCount(ino.direct) = Count(GivenBack(d, id))
             /\ FreedCount(ino.direct) \in Nat /\ FreedCount(ptr) \in Nat
             /\ Count({ino.ind} \ {0}) \in Nat
<1> DEFINE ino == ReadInode(d, id)
           ptr == PointersOf(d, ino.ind)
           g   == ino.direct
           F1  == FreedBy(g)
           F2  == FreedBy(ptr)
           F3  == {ino.ind} \ {0}
<1>1. /\ g \in [DirectIdx -> {0} \cup B]
      /\ ino.ind \in {0} \cup B
      /\ ptr \in [Slots -> {0} \cup B]
      /\ B \subseteq DataBlocks
  BY SoundInode DEF Sound
<1>2. /\ \A i \in DirectIdx : g[i] # 0 =>
           /\ \A k \in DirectIdx : g[k] = g[i] => i = k
           /\ ino.ind # g[i]
           /\ \A s \in Slots : ptr[s] # g[i]
      /\ ino.ind # 0 => \A s \in Slots : ptr[s] # ino.ind
      /\ \A s, t \in Slots : ptr[s] # 0 /\ ptr[t] = ptr[s] => s = t
  BY SoundApart
<1>3. /\ F1 \subseteq {g[i] : i \in DirectIdx} \ {0}
      /\ F2 \subseteq {ptr[s] : s \in Slots} \ {0}
      /\ Owned(d, id) \subseteq B
  BY OwnedAreAllocated
<1>4. Owned(d, id) = F1 \cup F2 \cup F3 /\ GivenBack(d, id) = F1
  BY DEF Owned, GivenBack
<1> HIDE DEF ino, ptr, g
<1>5. DIRECT_BLOCKS \in Nat /\ SlotCount \in Nat
  BY GeometryAssumption, SlotNumbers
<1>6. FreedCount(g) = Count(F1)
  <2>1. g \in [0 .. DIRECT_BLOCKS - 1 -> {0} \cup DataBlocks]
    BY <1>1 DEF DirectIdx
  <2>2. \A i, k \in 0 .. DIRECT_BLOCKS - 1 : g[i] # 0 /\ g[k] = g[i] => i = k
    BY <1>2 DEF DirectIdx
  <2> QED BY <1>5, <2>1, <2>2, FreesOnce
<1>7. FreedCount(ptr) = Count(F2)
  <2>1. ptr \in [0 .. SlotCount - 1 -> {0} \cup DataBlocks]
    BY <1>1, SlotNumbers
  <2>2. \A i, k \in 0 .. SlotCount - 1 : ptr[i] # 0 /\ ptr[k] = ptr[i] => i = k
    BY <1>2, SlotNumbers
  <2> QED BY <1>5, <2>1, <2>2, FreesOnce
<1> HIDE DEF F1, F2
<1>8. F1 \in SUBSET DataBlocks /\ F2 \in SUBSET DataBlocks /\ F3 \in SUBSET DataBlocks
  BY <1>1, <1>3, <1>4
<1>9. F1 \cap F2 = {} /\ (F1 \cup F2) \cap F3 = {}
  <2>1. ASSUME NEW x \in F1, x \in F2 PROVE FALSE
    BY <1>2, <1>3, <2>1
  <2>2. ASSUME NEW x \in F1, x \in F3 PROVE FALSE
    BY <1>2, <1>3, <2>2
  <2>3. ASSUME NEW x \in F2, x \in F3 PROVE FALSE
    BY <1>2, <1>3, <2>3
  <2> QED BY <2>1, <2>2, <2>3
<1> HIDE DEF F3
<1>10. Count(F1 \cup F2) = Count(F1) + Count(F2)
  BY <1>8, <1>9, DataFinite
<1>11. Count((F1 \cup F2) \cup F3) = Count(F1 \cup F2) + Count(F3)
  <2>1. F1 \cup F2 \in SUBSET DataBlocks
    BY <1>8
  <2> QED BY <1>8, <1>9, <2>1, DataFinite
<1>12. Count(F1) \in Nat /\ Count(F2) \in Nat /\ Count(F3) \in Nat
  BY <1>8, CountBlocks
<1>13. /\ Count(Owned(d, id)) = FreedCount(g) + FreedCount(ptr) + Count(F3)
       /\ FreedCount(g) = Count(GivenBack(d, id))
       /\ FreedCount(g) \in Nat /\ FreedCount(ptr) \in Nat /\ Count(F3) \in Nat
  BY <1>4, <1>6, <1>7, <1>10, <1>11, <1>12
<1> QED BY <1>13 DEF ino, ptr, g, F3

(* An allocation counts as many blocks as it has places.                    *)
LEMMA TakenCount ==
  ASSUME NEW f, IsFiniteSet(DOMAIN f), \A i, j \in DOMAIN f : f[i] = f[j] => i = j
  PROVE  Count(Taken(f)) = Count(DOMAIN f)
BY InjectiveCount DEF Taken

(* write_file takes as many blocks as it counts.                            *)
LEMMA WrittenCount ==
  ASSUME NEW d, NEW I, NEW B, Sound(d, I, B), NEW id \in TableIds, NEW c \in Contents,
         NEW f, Allocation(d, B, id, c, f)
  PROVE  /\ Count((B \ GivenBack(d, id)) \cup Taken(f))
              = Count(B) - Count(GivenBack(d, id)) + Need(c)
         /\ Need(c) \in Nat
<1> DEFINE G == GivenBack(d, id)
           T == Taken(f)
           m == Need(c)
<1>1. G \subseteq B /\ B \subseteq DataBlocks
  <2>1. FreedBy(ReadInode(d, id).direct) \subseteq Owned(d, id) /\ Owned(d, id) \subseteq B
    BY OwnedAreAllocated DEF Owned
  <2> QED BY <2>1 DEF Sound, GivenBack
<1>2. m \in Nat
  BY ContentSize
<1>3. /\ f \in [1 .. m -> (DataBlocks \ B) \cup G]
      /\ \A i, j \in 1 .. m : f[i] = f[j] => i = j
  BY DEF Allocation
<1> HIDE DEF G, m
<1>4. T \subseteq (DataBlocks \ B) \cup G
  BY <1>3 DEF Taken
<1>5. Count(T) = m
  <2>1. IsFiniteSet(1 .. m) /\ Cardinality(1 .. m) = m
    BY <1>2, FS_Interval
  <2>2. DOMAIN f = 1 .. m
    BY <1>3
  <2>3. Count(T) = Count(DOMAIN f)
    BY <1>3, <2>1, <2>2, TakenCount
  <2> QED BY <2>1, <2>2, <2>3 DEF Count
<1> HIDE DEF T
<1>6. Count((B \ G) \cup T) = Count(B \ G) + Count(T)
  <2>1. B \ G \in SUBSET DataBlocks /\ T \in SUBSET DataBlocks /\ (B \ G) \cap T = {}
    BY <1>1, <1>4
  <2> QED BY <2>1, DataFinite
<1>7. Count(B \ G) = Count(B) - Count(G)
  <2>1. B \in SUBSET DataBlocks /\ G \in SUBSET DataBlocks
    BY <1>1
  <2> QED BY <1>1, <2>1, CountChanges
<1> QED BY <1>2, <1>5, <1>6, <1>7 DEF G, T, m

-----------------------------------------------------------------------------
(* The superblock is valid, the disk sound for the bitmaps, the counts      *)
(* right.                                                                   *)
InOrder(d, s, I, B) == s.magic /\ Sound(d, I, B) /\ Counted(s, I, B)

(* The counts of the bitmaps of a sound disk fit the counters.              *)
LEMMA SoundBounds ==
  ASSUME NEW d, NEW I, NEW B, Sound(d, I, B)
  PROVE  /\ I \subseteq InodeIds /\ B \subseteq DataBlocks
         /\ Count(I) \in Nat /\ Count(I) <= INODE_COUNT
         /\ Count(B) \in Nat /\ Count(B) <= Count(DataBlocks)
         /\ Count(DataBlocks) \in 1 .. WORD - 1 /\ INODE_COUNT \in 1 .. WORD - 1
         /\ WORD \in Nat
<1>1. I \subseteq InodeIds /\ B \subseteq DataBlocks
  BY DEF Sound, TableIds
<1> QED BY <1>1, IdsFinite, CountBlocks, Sizes, ContentAssumption

(* create_file takes one inode and at most one block, and counts them.      *)
LEMMA CreateFileKeeps ==
  ASSUME sb \in Superblocks, InOrder(blk, sb, inode_bm, data_bm), NEW n \in Names,
         CreateFile(n), inode_bm' \subseteq TableIds
  PROVE  InOrder(blk', sb', inode_bm', data_bm')
<1>1. Sound(blk, inode_bm, data_bm) /\ Counted(sb, inode_bm, data_bm) /\ sb.magic
  BY DEF InOrder
<1>2. PICK id \in TableIds \ inode_bm :
        /\ inode_bm' = inode_bm \cup {id}
        /\ Sound(blk', inode_bm', data_bm')
        /\ \/ data_bm' = data_bm
           \/ \E b \in DataBlocks \ data_bm : data_bm' = data_bm \cup {b}
  BY <1>1, CreateFileSound
<1>3. Count(inode_bm') = Count(inode_bm) + 1
  <2>1. inode_bm \in SUBSET InodeIds
    BY <1>1, SoundBounds
  <2>2. id \in InodeIds \ inode_bm
    BY <1>2, TableIdIsId
  <2> QED BY <1>2, <2>1, <2>2, CountChanges
<1>4. /\ Count(data_bm' \ data_bm) \in Nat
      /\ Count(data_bm') = Count(data_bm) + Count(data_bm' \ data_bm)
  <2> DEFINE T == data_bm' \ data_bm
  <2>1. T \in SUBSET DataBlocks /\ data_bm \in SUBSET DataBlocks
    BY <1>1, <1>2, SoundBounds
  <2>2. data_bm \cap T = {} /\ data_bm' = data_bm \cup T
    BY <1>2
  <2> HIDE DEF T
  <2>3. Count(data_bm \cup T) = Count(data_bm) + Count(T)
    BY <2>1, <2>2, DataFinite
  <2>4. Count(data_bm') = Count(data_bm) + Count(T) /\ Count(T) \in Nat
    BY <2>1, <2>2, <2>3, CountBlocks
  <2> QED BY <2>4 DEF T
<1>5. sb' = [sb EXCEPT !.free_inodes = Wrap(@ - 1),
                       !.free_blocks = Wrap(@ - Count(data_bm' \ data_bm))]
  BY DEF CreateFile
<1>6. /\ sb'.magic = sb.magic
      /\ sb'.free_inodes = Wrap(sb.free_inodes - 1)
      /\ sb'.free_blocks = Wrap(sb.free_blocks - Count(data_bm' \ data_bm))
  BY <1>5 DEF Superblocks
<1>7. /\ sb.free_inodes = INODE_COUNT - Count(inode_bm)
      /\ sb.free_blocks = Count(DataBlocks) - Count(data_bm)
  BY <1>1 DEF Counted
<1>8. /\ sb.free_inodes - 1 = INODE_COUNT - Count(inode_bm')
      /\ sb.free_blocks - Count(data_bm' \ data_bm) = Count(DataBlocks) - Count(data_bm')
      /\ sb.free_inodes - 1 \in 0 .. WORD - 1
      /\ sb.free_blocks - Count(data_bm' \ data_bm) \in 0 .. WORD - 1
  <2>1. /\ Count(inode_bm) \in Nat /\ Count(data_bm) \in Nat
        /\ INODE_COUNT \in 1 .. WORD - 1 /\ Count(DataBlocks) \in 1 .. WORD - 1
        /\ WORD \in Nat
    BY <1>1, SoundBounds
  <2>2. /\ Count(inode_bm') \in Nat /\ Count(inode_bm') <= INODE_COUNT
        /\ Count(data_bm') \in Nat /\ Count(data_bm') <= Count(DataBlocks)
    BY <1>2, SoundBounds
  <2> QED BY <1>3, <1>4, <1>7, <2>1, <2>2
<1>9. /\ sb'.free_inodes = INODE_COUNT - Count(inode_bm')
      /\ sb'.free_blocks = Count(DataBlocks) - Count(data_bm')
  BY <1>6, <1>8, WrapExact
<1> QED BY <1>1, <1>2, <1>6, <1>9 DEF InOrder, Counted

(* delete_file frees what the file owned, and nothing else.                 *)
LEMMA DeleteFileSound ==
  ASSUME Sound(blk, inode_bm, data_bm), NEW n, NEW id \in IdsOf(n)
  PROVE  Sound(Deleted(blk, id, n), inode_bm \ {id}, data_bm \ Owned(blk, id))
<1>1. /\ id \in TableIds \ {ROOT_INODE}
      /\ \E p \in Matches(blk, n) : EntryAt(blk, p).id = id
  BY SoundName
<1> QED BY <1>1, DeletedSound

(* delete_file counts each block it frees, direct, indirect and index,      *)
(* once.                                                                    *)
LEMMA DeleteFileKeeps ==
  ASSUME sb \in Superblocks, InOrder(blk, sb, inode_bm, data_bm), NEW n, DeleteFile(n)
  PROVE  InOrder(blk', sb', inode_bm', data_bm')
<1>1. Sound(blk, inode_bm, data_bm) /\ Counted(sb, inode_bm, data_bm) /\ sb.magic
  BY DEF InOrder
<1>2. PICK id \in IdsOf(n) :
        LET ino == ReadInode(blk, id)
            ptr == PointersOf(blk, ino.ind)
        IN  /\ blk' = Deleted(blk, id, n)
            /\ data_bm' = data_bm \ Owned(blk, id)
            /\ inode_bm' = inode_bm \ {id}
            /\ sb' = [sb EXCEPT
                 !.free_inodes = Wrap(@ + 1),
                 !.free_blocks = Wrap(@ + FreedCount(ino.direct) + FreedCount(ptr)
                                        + Count({ino.ind} \ {0}))]
  BY <1>1, DeleteFileDeletes
<1> DEFINE ino == ReadInode(blk, id)
           ptr == PointersOf(blk, ino.ind)
           x   == FreedCount(ino.direct)
           y   == FreedCount(ptr)
           z   == Count({ino.ind} \ {0})
<1>3. Sound(blk', inode_bm', data_bm')
  <2>1. blk' = Deleted(blk, id, n) /\ data_bm' = data_bm \ Owned(blk, id)
        /\ inode_bm' = inode_bm \ {id}
    BY <1>2
  <2>2. Sound(Deleted(blk, id, n), inode_bm \ {id}, data_bm \ Owned(blk, id))
    BY <1>1, DeleteFileSound
  <2> QED BY <2>1, <2>2
<1>4. id \in inode_bm /\ id \in TableIds
  BY <1>1, SoundName
<1>5. Count(inode_bm') = Count(inode_bm) - 1
  <2>1. inode_bm \in SUBSET InodeIds
    BY <1>1, SoundBounds
  <2> QED BY <1>2, <1>4, <2>1, CountChanges
<1>6. /\ Count(Owned(blk, id)) = x + y + z
      /\ x \in Nat /\ y \in Nat /\ z \in Nat
  BY <1>1, <1>4, OwnedCount
<1>7. Count(data_bm') = Count(data_bm) - Count(Owned(blk, id))
  <2>1. data_bm \in SUBSET DataBlocks
    BY <1>1, SoundBounds
  <2>2. Owned(blk, id) \subseteq data_bm
    BY <1>1, <1>4, OwnedAreAllocated
  <2>3. Owned(blk, id) \in SUBSET DataBlocks
    BY <2>1, <2>2
  <2>4. data_bm' = data_bm \ Owned(blk, id)
    BY <1>2
  <2> QED BY <2>1, <2>2, <2>3, <2>4, CountChanges
<1>8. sb' = [sb EXCEPT !.free_inodes = Wrap(@ + 1),
                       !.free_blocks = Wrap(@ + x + y + z)]
  BY <1>2
<1> HIDE DEF x, y, z
<1>9. /\ sb'.magic = sb.magic
      /\ sb'.free_inodes = Wrap(sb.free_inodes + 1)
      /\ sb'.free_blocks = Wrap(sb.free_blocks + x + y + z)
  BY <1>8 DEF Superblocks
<1>10. /\ sb.free_inodes = INODE_COUNT - Count(inode_bm)
       /\ sb.free_blocks = Count(DataBlocks) - Count(data_bm)
  BY <1>1 DEF Counted
<1>11. /\ sb.free_inodes + 1 = INODE_COUNT - Count(inode_bm')
       /\ sb.free_blocks + x + y + z = Count(DataBlocks) - Count(data_bm')
       /\ sb.free_inodes + 1 \in 0 .. WORD - 1
       /\ sb.free_blocks + x + y + z \in 0 .. WORD - 1
  <2>1. /\ Count(inode_bm) \in Nat /\ Count(data_bm) \in Nat
        /\ INODE_COUNT \in 1 .. WORD - 1 /\ Count(DataBlocks) \in 1 .. WORD - 1
        /\ WORD \in Nat
    BY <1>1, SoundBounds
  <2>2. /\ Count(inode_bm') \in Nat /\ Count(inode_bm') <= INODE_COUNT
        /\ Count(data_bm') \in Nat /\ Count(data_bm') <= Count(DataBlocks)
    BY <1>3, SoundBounds
  <2> QED BY <1>5, <1>6, <1>7, <1>10, <2>1, <2>2
<1>12. /\ sb'.free_inodes = INODE_COUNT - Count(inode_bm')
       /\ sb'.free_blocks = Count(DataBlocks) - Count(data_bm')
  BY <1>9, <1>11, WrapExact
<1> QED BY <1>1, <1>3, <1>9, <1>12 DEF InOrder, Counted

(* write_file counts the direct blocks it frees and every block it takes.   *)
LEMMA WriteFileKeeps ==
  ASSUME sb \in Superblocks, InOrder(blk, sb, inode_bm, data_bm), NEW n,
         NEW c \in Contents, WriteFile(n, c)
  PROVE  InOrder(blk', sb', inode_bm', data_bm')
<1>1. Sound(blk, inode_bm, data_bm) /\ Counted(sb, inode_bm, data_bm) /\ sb.magic
  BY DEF InOrder
<1>2. PICK id, f :
        /\ id \in IdsOf(n)
        /\ id \in TableIds \ {ROOT_INODE}
        /\ Allocation(blk, data_bm, id, c, f)
        /\ blk' = Written(blk, id, f, c)
        /\ data_bm' = (data_bm \ GivenBack(blk, id)) \cup Taken(f)
        /\ inode_bm' = inode_bm
        /\ sb' = [sb EXCEPT !.free_blocks =
                     Wrap(@ + FreedCount(ReadInode(blk, id).direct) - Need(c))]
        /\ Sound(blk', inode_bm', data_bm')
        /\ ChangesOnly(blk, blk', id)
  BY <1>1, WriteFileSound
<1> DEFINE x == FreedCount(ReadInode(blk, id).direct)
<1>3. x = Count(GivenBack(blk, id)) /\ x \in Nat
  BY <1>1, <1>2, OwnedCount
<1>4. Count(data_bm') = Count(data_bm) - x + Need(c) /\ Need(c) \in Nat
  <2>1. /\ Count((data_bm \ GivenBack(blk, id)) \cup Taken(f))
             = Count(data_bm) - Count(GivenBack(blk, id)) + Need(c)
        /\ Need(c) \in Nat
    BY <1>1, <1>2, WrittenCount
  <2> QED BY <1>2, <1>3, <2>1
<1> HIDE DEF x
<1>5. /\ sb'.magic = sb.magic
      /\ sb'.free_inodes = sb.free_inodes
      /\ sb'.free_blocks = Wrap(sb.free_blocks + x - Need(c))
  BY <1>2 DEF Superblocks, x
<1>6. /\ sb.free_inodes = INODE_COUNT - Count(inode_bm')
      /\ sb.free_blocks = Count(DataBlocks) - Count(data_bm)
  BY <1>1, <1>2 DEF Counted
<1>7. /\ sb.free_blocks + x - Need(c) = Count(DataBlocks) - Count(data_bm')
      /\ sb.free_blocks + x - Need(c) \in 0 .. WORD - 1
  <2>1. /\ Count(data_bm) \in Nat /\ Count(DataBlocks) \in 1 .. WORD - 1
        /\ WORD \in Nat
    BY <1>1, SoundBounds
  <2>2. Count(data_bm') \in Nat /\ Count(data_bm') <= Count(DataBlocks)
    BY <1>2, SoundBounds
  <2> QED BY <1>3, <1>4, <1>6, <2>1, <2>2
<1>8. sb'.free_blocks = Count(DataBlocks) - Count(data_bm')
  BY <1>5, <1>7, WrapExact
<1> QED BY <1>1, <1>2, <1>5, <1>6, <1>8 DEF InOrder, Counted

-----------------------------------------------------------------------------
(* The inductive invariant.                                                *)
(* The root inode lies in the inode table.                                  *)
LEMMA RootInTable == ROOT_INODE \in TableIds
<1>1. InodesPerBlock \in Nat \ {0} /\ INODE_TABLE_BLOCKS \in Nat \ {0}
  BY GeometryAssumption
<1>2. InodesPerBlock * INODE_TABLE_BLOCKS > 0
  BY <1>1
<1> QED BY <1>2, Regions DEF TableIds, InTable, ROOT_INODE

(* A formatted disk is sound.                                               *)
LEMMA FormattedSound ==
  ASSUME NEW d \in Disks, FormattedDisk(d)
  PROVE  /\ Sound(d, {ROOT_INODE}, {DATA_START_BLOCK})
         /\ UsedEntries(d) = {}
<1>1. UsedEntries(d) = {}
  BY FormattedDirectory DEF UsedEntries
<1>3. Unshared(d)
  BY FormattedPointers DEF Unshared
<1>4. Allocated(d, {DATA_START_BLOCK})
  BY FormattedPointers DEF Allocated
<1>5. GoodEntries(d, {ROOT_INODE}) /\ Distinct(d)
  BY <1>1 DEF GoodEntries, Distinct
<1> QED BY <1>1, <1>3, <1>4, <1>5, RootInTable, Regions DEF Sound

(* format leaves a disk, a superblock and bitmaps that go together.         *)
LEMMA MkfsKeeps ==
  ASSUME blk' \in Disks, Mkfs
  PROVE  /\ InOrder(blk', sb', inode_bm', data_bm')
         /\ UsedEntries(blk') = {} /\ inode_bm' = {ROOT_INODE}
         /\ disk_sb' = sb' /\ disk_ibm' = inode_bm' /\ disk_dbm' = data_bm'
<1>1. FormattedDisk(blk')
  BY MkfsFormats
<1>2. /\ sb' = [magic |-> TRUE, free_inodes |-> INODE_COUNT - 1,
                free_blocks |-> Count(DataBlocks) - 1, fs_state |-> CLEAN]
      /\ inode_bm' = {ROOT_INODE} /\ data_bm' = {DATA_START_BLOCK}
      /\ disk_sb' = sb' /\ disk_ibm' = inode_bm' /\ disk_dbm' = data_bm'
  BY DEF Mkfs, Persist
<1>3. Sound(blk', inode_bm', data_bm') /\ UsedEntries(blk') = {}
  BY <1>1, <1>2, FormattedSound
<1>4. Counted(sb', inode_bm', data_bm')
  <2>1. \A x : Count({x}) = 1
    BY FS_Singleton DEF Count
  <2> QED BY <1>2, <2>1 DEF Counted
<1> QED BY <1>2, <1>3, <1>4 DEF InOrder

(* A disk file that has never been formatted.                               *)
Blank == blk = [b \in FsBlocks |-> ZeroBlock] /\ disk_ibm = {}

HealthyInv ==
  /\ TypeOK /\ MemoryOnDisk
  /\ disk_sb.magic => InOrder(blk, disk_sb, disk_ibm, disk_dbm)
  /\ ~ disk_sb.magic => ~ mounted /\ Blank

(* What a command starts from.                                              *)
LEMMA MountedKept ==
  ASSUME HealthyInv, mounted
  PROVE  /\ InOrder(blk, sb, inode_bm, data_bm)
         /\ sb \in Superblocks
         /\ sb = disk_sb /\ inode_bm = disk_ibm /\ data_bm = disk_dbm
<1>1. sb = disk_sb /\ inode_bm = disk_ibm /\ data_bm = disk_dbm /\ sb \in Superblocks
  BY DEF HealthyInv, MemoryOnDisk, TypeOK
<1>2. disk_sb.magic /\ InOrder(blk, disk_sb, disk_ibm, disk_dbm)
  BY DEF HealthyInv
<1> QED BY <1>1, <1>2

(* The clean or dirty mark of the superblock does not matter.               *)
LEMMA SameKept ==
  ASSUME NEW d, NEW s \in Superblocks, NEW t \in Superblocks, NEW I, NEW B,
         InOrder(d, s, I, B), t.magic = s.magic, t.free_inodes = s.free_inodes,
         t.free_blocks = s.free_blocks
  PROVE  InOrder(d, t, I, B)
BY DEF InOrder, Counted

(* What a command leaves when it persists what it did.                      *)
LEMMA PersistKeeps ==
  ASSUME TypeOK', MemoryOnDisk', InOrder(blk', sb', inode_bm', data_bm'), Persist
  PROVE  HealthyInv'
<1>1. disk_sb' = sb' /\ disk_ibm' = inode_bm' /\ disk_dbm' = data_bm'
  BY DEF Persist
<1>2. InOrder(blk', disk_sb', disk_ibm', disk_dbm') /\ disk_sb'.magic
  BY <1>1 DEF InOrder
<1> QED BY <1>2 DEF HealthyInv

(* The condition of ordinary use on the inode bitmap.                       *)
LEMMA InTableSubset ==
  ASSUME inode_bm' \subseteq InodeIds, \A id \in inode_bm' : InTable(id)
  PROVE  inode_bm' \subseteq TableIds
BY DEF TableIds

(* Every step of ordinary use keeps the invariant.                          *)
LEMMA HealthyStep ==
  ASSUME HealthyInv, [HealthyNext]_vars
  PROVE  HealthyInv'
<1>1. TypeOK' /\ MemoryOnDisk'
  BY HealthyTypes, MemoryStays DEF HealthyInv
<1>2. blk' \in Disks /\ inode_bm' \subseteq InodeIds
      /\ disk_sb \in Superblocks /\ disk_sb' \in Superblocks
  BY <1>1 DEF TypeOK, Disks, HealthyInv
<1>3. ASSUME Mkfs PROVE HealthyInv'
  <2>1. InOrder(blk', sb', inode_bm', data_bm')
    BY <1>2, <1>3, MkfsKeeps
  <2>2. Persist
    BY <1>3 DEF Mkfs
  <2> QED BY <1>1, <2>1, <2>2, PersistKeeps
<1>4. CASE Format
  BY <1>3, <1>4 DEF Format
<1>5. CASE Mount
  <2>1. CASE Mkfs
    BY <1>3, <2>1
  <2>2. CASE /\ disk_sb.magic
             /\ sb' = [disk_sb EXCEPT !.fs_state = DIRTY]
             /\ disk_sb' = sb'
             /\ UNCHANGED <<blk, disk_ibm, disk_dbm>>
    <3>1. InOrder(blk, disk_sb, disk_ibm, disk_dbm)
      BY <2>2 DEF HealthyInv
    <3>2. /\ disk_sb'.magic = disk_sb.magic
          /\ disk_sb'.free_inodes = disk_sb.free_inodes
          /\ disk_sb'.free_blocks = disk_sb.free_blocks
      BY <1>2, <2>2 DEF Superblocks
    <3>3. InOrder(blk, disk_sb', disk_ibm, disk_dbm)
      BY <1>2, <3>1, <3>2, SameKept
    <3>4. InOrder(blk', disk_sb', disk_ibm', disk_dbm') /\ disk_sb'.magic
      BY <2>2, <3>2, <3>3
    <3> QED BY <1>1, <3>4 DEF HealthyInv
  <2> QED BY <1>5, <2>1, <2>2 DEF Mount
<1>6. CASE Unmount
  <2>1. InOrder(blk, sb, inode_bm, data_bm) /\ sb \in Superblocks
    BY <1>6, MountedKept DEF Unmount
  <2>2. /\ disk_sb' = [sb EXCEPT !.fs_state = CLEAN]
        /\ disk_ibm' = inode_bm /\ disk_dbm' = data_bm /\ blk' = blk
    BY <1>6 DEF Unmount
  <2>3. /\ disk_sb'.magic = sb.magic
        /\ disk_sb'.free_inodes = sb.free_inodes
        /\ disk_sb'.free_blocks = sb.free_blocks
    BY <2>1, <2>2 DEF Superblocks
  <2>4. InOrder(blk, disk_sb', inode_bm, data_bm)
    BY <1>2, <2>1, <2>3, SameKept
  <2>5. InOrder(blk', disk_sb', disk_ibm', disk_dbm') /\ disk_sb'.magic
    BY <2>1, <2>2, <2>3, <2>4 DEF InOrder
  <2> QED BY <1>1, <2>5 DEF HealthyInv
<1>7. CASE Kill
  <2>1. /\ disk_sb' = disk_sb /\ disk_ibm' = disk_ibm /\ disk_dbm' = disk_dbm
        /\ blk' = blk /\ mounted'  = FALSE
    BY <1>7 DEF Kill, ProcessGone, diskVars
  <2> QED BY <1>1, <2>1 DEF HealthyInv, Blank
<1>8. ASSUME NEW n \in Names, CreateFile(n), \A id \in inode_bm' : InTable(id)
      PROVE  HealthyInv'
  <2>1. mounted /\ Persist
    BY <1>8 DEF CreateFile
  <2>2. inode_bm' \subseteq TableIds
    BY <1>2, <1>8, InTableSubset
  <2>3. InOrder(blk', sb', inode_bm', data_bm')
    BY <1>8, <2>1, <2>2, MountedKept, CreateFileKeeps
  <2> QED BY <1>1, <2>1, <2>3, PersistKeeps
<1>9. ASSUME NEW n \in Names, DeleteFile(n)
      PROVE  HealthyInv'
  <2>1. mounted /\ Persist
    BY <1>9 DEF DeleteFile
  <2>2. InOrder(blk', sb', inode_bm', data_bm')
    BY <1>9, <2>1, MountedKept, DeleteFileKeeps
  <2> QED BY <1>1, <2>1, <2>2, PersistKeeps
<1>10. ASSUME NEW n \in Names, NEW c \in Contents, WriteFile(n, c)
       PROVE  HealthyInv'
  <2>1. mounted /\ Persist
    BY <1>10 DEF WriteFile
  <2>2. InOrder(blk', sb', inode_bm', data_bm')
    BY <1>10, <2>1, MountedKept, WriteFileKeeps
  <2> QED BY <1>1, <2>1, <2>2, PersistKeeps
<1>11. CASE UNCHANGED vars
  BY <1>11, <1>1 DEF vars, diskVars, memVars, HealthyInv, Blank
<1> QED BY <1>4, <1>5, <1>6, <1>7, <1>8, <1>9, <1>10, <1>11 DEF HealthyNext, FileNext

(* The invariant holds of a disk file of zeros and no process.              *)
LEMMA HealthyInit ==
  ASSUME Init
  PROVE  HealthyInv
<1>1. TypeOK
  BY InitType
<1> QED BY <1>1 DEF Init, MemoryOnDisk, ZeroSuperblock, HealthyInv, Blank

(* The inductive invariant of ordinary use: the disk is sound for the       *)
(* bitmaps on it, the process knows no more than the disk, and the free     *)
(* counts are exact.                                                        *)
THEOREM HealthyInvariant == HealthySpec => []HealthyInv
<1>1. Init => HealthyInv
  BY HealthyInit
<1>2. HealthyInv /\ [HealthyNext]_vars => HealthyInv'
  BY HealthyStep
<1> QED BY <1>1, <1>2, PTL DEF HealthySpec

(* A blank disk holds no pointer.                                           *)
LEMMA BlankPointers ==
  ASSUME Blank, NEW r \in Sites
  PROVE  PointerAt(blk, r) = 0
<1>1. r[1] \in TableIds /\ InodeBlock(r[1]) \in FsBlocks /\ InodeSlot(r[1]) \in Places
  BY SiteCases, TableIdIsId
<1>2. ReadInode(blk, r[1]) = NewInode("NONE")
  <2>1. InodeImage(blk, r[1]) = BlankInode
    BY <1>1, CellAt DEF Blank, ZeroBlock, InodeImage, ImageAt, BlankInode
  <2> QED BY <2>1, BlankInodeType DEF ReadInode
<1>3. \A s \in Slots : PointersOf(blk, 0)[s] = 0
  BY Regions DEF PointersOf
<1>4. CASE \E i \in DirectIdx : r = DirectSite(r[1], i)
  BY <1>2, <1>4, PointerAtSite DEF NewInode
<1>5. CASE \E s \in Slots : r = PointerSite(r[1], s)
  BY <1>2, <1>3, <1>5, PointerAtSite DEF NewInode
<1>6. CASE r = IndirectSite(r[1])
  BY <1>2, <1>6, PointerAtSite DEF NewInode
<1> QED BY <1>4, <1>5, <1>6, SiteCases

(* What the invariant says of the properties the runs check.                *)
LEMMA HealthyConsistent ==
  ASSUME HealthyInv
  PROVE  SingleOwner /\ OwnedAllocated /\ CountersExact
<1>1. CASE disk_sb.magic
  <2>1. Sound(blk, disk_ibm, disk_dbm) /\ Counted(disk_sb, disk_ibm, disk_dbm)
    BY <1>1 DEF HealthyInv, InOrder
  <2>2. SingleOwner
    BY <2>1 DEF Sound, SingleOwner
  <2>3. OwnedAllocated
    BY <2>1 DEF Sound, OwnedAllocated
  <2> QED BY <2>1, <2>2, <2>3 DEF CountersExact
<1>2. CASE ~ disk_sb.magic
  <2>1. \A r \in Sites : PointerAt(blk, r) = 0
    BY <1>2, BlankPointers DEF HealthyInv
  <2> QED BY <1>2, <2>1 DEF SingleOwner, OwnedAllocated, CountersExact, Unshared, Allocated
<1> QED BY <1>1, <1>2

(* In ordinary use no data block is ever reached by two pointers:           *)
(* alloc_data_block (filesystem.cpp:535-540) never hands out a block that   *)
(* is in use.                                                               *)
THEOREM HealthySingleOwner == HealthySpec => []SingleOwner
BY HealthyInvariant, HealthyConsistent, PTL

(* In ordinary use every block a pointer reaches is allocated in the data   *)
(* bitmap on disk, whenever the process is lost or the disk mounted again.  *)
THEOREM HealthyOwnedAllocated == HealthySpec => []OwnedAllocated
BY HealthyInvariant, HealthyConsistent, PTL

(* In ordinary use the free counts of the superblock, kept by hand in       *)
(* alloc_* and free_*, are those of the bitmaps and never wrap.             *)
THEOREM HealthyCountersExact == HealthySpec => []CountersExact
BY HealthyInvariant, HealthyConsistent, PTL

-----------------------------------------------------------------------------
(* Every file keeps its name.                                              *)
RoomInDirectory ==
  \/ IsFiniteSet(Names) /\ Cardinality(Names) <= SlotCount
  \/ Cardinality(TableIds \ {ROOT_INODE}) <= SlotCount

(* A block has SlotCount cells.                                             *)
LEMMA SlotsCount == IsFiniteSet(Slots) /\ Count(Slots) = SlotCount /\ SlotCount \in Nat
<1>1. SlotCount \in Nat
  BY SlotNumbers
<1>2. IsFiniteSet(0 .. SlotCount - 1) /\ Cardinality(0 .. SlotCount - 1) = SlotCount
  BY <1>1, FS_Interval
<1> QED BY <1>1, <1>2, SlotNumbers DEF Count

(* More slots than values to tell them apart.                               *)
LEMMA TooFew ==
  ASSUME NEW g, \A s, t \in Slots : g[s] = g[t] => s = t,
         NEW S, IsFiniteSet(S), Cardinality(S) <= SlotCount,
         NEW x \in S, \A s \in Slots : g[s] \in S \ {x}
  PROVE  FALSE
<1> DEFINE G == {g[s] : s \in Slots}
<1>1. IsFiniteSet(G) /\ Count(G) = SlotCount
  BY SlotsCount, InjectiveCount
<1>2. IsFiniteSet(S \ {x}) /\ Cardinality(S \ {x}) = Cardinality(S) - 1
  BY FS_RemoveElement
<1>3. G \subseteq S \ {x}
  OBVIOUS
<1> HIDE DEF G
<1>4. Cardinality(G) <= Cardinality(S \ {x})
  BY <1>2, <1>3, FS_Subset
<1> QED BY <1>1, <1>2, <1>4, FS_CardinalityType, SlotsCount DEF Count

(* create_file finds room for the entry in the first directory block: the   *)
(* entries in it would otherwise be too many files.                         *)
LEMMA DirectoryHasRoom ==
  ASSUME RoomInDirectory, NEW d, NEW I, NEW B, Sound(d, I, B), DirOf(d)[0] # 0,
         NEW n \in Names, Matches(d, n) = {}, NEW id \in TableIds \ I
  PROVE  ~ DirectoryFull(d)
<1> SUFFICES ASSUME DirectoryFull(d) PROVE FALSE
  OBVIOUS
<1> DEFINE e(s) == EntryAt(d, <<0, s>>)
<1>1. \A s \in Slots : <<0, s>> \in UsedEntries(d)
  <2>1. 0 \in DirectIdx
    BY Regions
  <2>2. \A s \in Slots : EntryUsed(d[DirOf(d)[0]][s])
    BY DEF DirectoryFull, FreeEntries
  <2>3. \A s \in Slots : EntryAt(d, <<0, s>>) = d[DirOf(d)[0]][s]
    BY DEF EntryAt
  <2> QED BY <2>1, <2>2, <2>3 DEF UsedEntries
<1>2. \A s \in Slots : /\ e(s).id \in I \ {ROOT_INODE}
                       /\ e(s).name \in Names
  <2> SUFFICES ASSUME NEW s \in Slots
               PROVE  e(s).id \in I \ {ROOT_INODE} /\ e(s).name \in Names
    OBVIOUS
  <2>1. EntryAt(d, <<0, s>>) \in Dirents /\ EntryAt(d, <<0, s>>).id \in I
    BY <1>1 DEF Sound, GoodEntries
  <2>2. EntryUsed(EntryAt(d, <<0, s>>))
    BY <1>1 DEF UsedEntries
  <2>3. EntryAt(d, <<0, s>>).id # 0
    BY <2>1, <2>2 DEF EntryUsed, Dirents
  <2> QED BY <2>1, <2>3 DEF Dirents, ROOT_INODE
<1>3. \A s, t \in Slots : e(s).id = e(t).id \/ e(s).name = e(t).name => s = t
  BY <1>1 DEF Sound, Distinct
<1>4. \A s \in Slots : e(s).name # n
  <2>1. Matches(d, n) = {p \in UsedEntries(d) : EntryAt(d, p).name = n}
    BY SoundMatches
  <2> QED BY <1>1, <2>1
<1> HIDE DEF e
<1>5. CASE IsFiniteSet(Names) /\ Cardinality(Names) <= SlotCount
  <2> DEFINE g == [s \in Slots |-> e(s).name]
  <2>1. \A s, t \in Slots : g[s] = g[t] => s = t
    BY <1>3
  <2>2. \A s \in Slots : g[s] \in Names \ {n}
    BY <1>2, <1>4
  <2> HIDE DEF g
  <2> QED BY <1>5, <2>1, <2>2, TooFew
<1>6. CASE Cardinality(TableIds \ {ROOT_INODE}) <= SlotCount
  <2> DEFINE g == [s \in Slots |-> e(s).id]
             S == TableIds \ {ROOT_INODE}
  <2>1. \A s, t \in Slots : g[s] = g[t] => s = t
    BY <1>3
  <2>2. id \in S /\ \A s \in Slots : g[s] \in S \ {id}
    BY <1>2 DEF Sound
  <2>3. IsFiniteSet(S)
    <3>1. S \in SUBSET InodeIds
      BY DEF TableIds
    <3> QED BY <3>1, IdsFinite
  <2> HIDE DEF g, S
  <2>4. Cardinality(S) <= SlotCount
    BY <1>6 DEF S
  <2> QED BY <2>1, <2>2, <2>3, <2>4, TooFew
<1> QED BY <1>5, <1>6 DEF RoomInDirectory

(* The allocated inodes are the root and the named ones, and the root       *)
(* directory has a first block.                                             *)
Named(d, I) == Recorded(d, I) /\ DirOf(d)[0] # 0

(* create_file adds an entry for the inode it takes.                        *)
LEMMA CreateFileRecords ==
  ASSUME RoomInDirectory, Sound(blk, inode_bm, data_bm), Named(blk, inode_bm),
         NEW n \in Names, CreateFile(n), inode_bm' \subseteq TableIds
  PROVE  Named(blk', inode_bm')
<1>1. PICK id \in TableIds \ inode_bm :
        /\ inode_bm' = inode_bm \cup {id}
        /\ RootKept(blk, blk')
        /\ \A p \in UsedEntries(blk) : EntryAt(blk', p) = EntryAt(blk, p)
        /\ \/ \E p : /\ UsedEntries(blk') = UsedEntries(blk) \cup {p}
                     /\ EntryAt(blk', p) = Entry(n, id)
           \/ UsedEntries(blk') = UsedEntries(blk) /\ DirectoryFull(blk)
  BY CreateFileSound
<1>2. Matches(blk, n) = {}
  BY DEF CreateFile
<1>3. ~ DirectoryFull(blk)
  BY <1>2, DirectoryHasRoom DEF Named
<1>4. PICK p : /\ UsedEntries(blk') = UsedEntries(blk) \cup {p}
               /\ EntryAt(blk', p) = Entry(n, id)
  BY <1>1, <1>3
<1>5. EntryAt(blk', p).id = id
  BY <1>4 DEF Entry
<1>6. {EntryAt(blk', q).id : q \in UsedEntries(blk')}
        = {EntryAt(blk, q).id : q \in UsedEntries(blk)} \cup {id}
  BY <1>1, <1>4, <1>5
<1>7. DirOf(blk')[0] # 0
  BY <1>1, Regions DEF Named, RootKept
<1> QED BY <1>1, <1>6, <1>7 DEF Named, Recorded

(* delete_file clears the entry of the inode it gives back.                 *)
LEMMA DeleteFileRecords ==
  ASSUME Sound(blk, inode_bm, data_bm), Named(blk, inode_bm), NEW n, DeleteFile(n)
  PROVE  Named(blk', inode_bm')
<1>1. PICK id \in IdsOf(n) : blk' = Deleted(blk, id, n) /\ inode_bm' = inode_bm \ {id}
  BY DeleteFileDeletes
<1>2. /\ id \in TableIds \ {ROOT_INODE}
      /\ \E p \in Matches(blk, n) : EntryAt(blk, p).id = id /\ p \in UsedEntries(blk)
  BY SoundName
<1>3. PICK p \in UsedEntries(blk) : EntryAt(blk, p).id = id /\ p \in Matches(blk, n)
  BY <1>2
<1>4. Matches(blk, n) = {p}
  BY <1>3, SoundMatches
<1>5. /\ UsedEntries(blk') = UsedEntries(blk) \ {p}
      /\ \A q \in UsedEntries(blk') : EntryAt(blk', q) = EntryAt(blk, q)
      /\ DirOf(blk') = DirOf(blk)
  BY <1>1, <1>2, <1>4, DeletedReads
<1>6. \A q \in UsedEntries(blk) : EntryAt(blk, q).id = id => q = p
  BY <1>3 DEF Sound, Distinct
<1>7. {EntryAt(blk', q).id : q \in UsedEntries(blk')}
        = {EntryAt(blk, q).id : q \in UsedEntries(blk)} \ {id}
  BY <1>3, <1>5, <1>6
<1> QED BY <1>1, <1>2, <1>5, <1>7 DEF Named, Recorded

(* write_file changes neither entries nor inode bitmap.                     *)
LEMMA WriteFileRecords ==
  ASSUME Sound(blk, inode_bm, data_bm), Named(blk, inode_bm), NEW n,
         NEW c \in Contents, WriteFile(n, c)
  PROVE  Named(blk', inode_bm')
<1>1. inode_bm' = inode_bm /\ \E id : id # ROOT_INODE /\ ChangesOnly(blk, blk', id)
  BY WriteFileSound
<1>2. /\ UsedEntries(blk') = UsedEntries(blk)
      /\ \A p \in UsedEntries(blk) : EntryAt(blk', p) = EntryAt(blk, p)
  BY <1>1 DEF ChangesOnly
<1>3. {EntryAt(blk', p).id : p \in UsedEntries(blk')}
        = {EntryAt(blk, p).id : p \in UsedEntries(blk)}
  BY <1>2
<1>4. DirOf(blk') = DirOf(blk)
  BY <1>1, RootInTable, DirOfRoot DEF ChangesOnly, Keeps
<1> QED BY <1>1, <1>3, <1>4 DEF Named, Recorded

NamesInv == disk_sb.magic => Named(blk, disk_ibm)

(* Every step of ordinary use keeps it.                                     *)
LEMMA NamesStep ==
  ASSUME RoomInDirectory, HealthyInv, NamesInv, [HealthyNext]_vars
  PROVE  NamesInv'
<1>1. HealthyInv'
  BY HealthyStep
<1>2. blk' \in Disks /\ inode_bm' \subseteq InodeIds
      /\ disk_sb \in Superblocks /\ disk_sb' \in Superblocks
  BY <1>1 DEF TypeOK, Disks, HealthyInv
<1>3. ASSUME Named(blk', inode_bm'), Persist PROVE NamesInv'
  BY <1>3 DEF Persist, NamesInv
<1>4. ASSUME mounted
      PROVE  /\ Sound(blk, inode_bm, data_bm) /\ Named(blk, inode_bm)
             /\ inode_bm = disk_ibm
  <2>1. InOrder(blk, sb, inode_bm, data_bm) /\ sb = disk_sb /\ inode_bm = disk_ibm
    BY <1>4, MountedKept
  <2> QED BY <2>1 DEF InOrder, NamesInv
<1>5. ASSUME Mkfs PROVE NamesInv'
  <2>1. UsedEntries(blk') = {} /\ inode_bm' = {ROOT_INODE} /\ Persist
    BY <1>2, <1>5, MkfsKeeps DEF Mkfs
  <2>2. Named(blk', inode_bm')
    <3>1. DirOf(blk')[0] # 0
      BY <1>5, MkfsFormats, Regions, DirOfRoot DEF FormattedDisk, RootDirectory, NewInode
    <3> QED BY <2>1, <3>1 DEF Named, Recorded
  <2> QED BY <1>3, <2>1, <2>2
<1>6. CASE Format
  BY <1>5, <1>6 DEF Format
<1>7. CASE Mount
  <2>1. CASE disk_sb.magic /\ UNCHANGED <<blk, disk_ibm, disk_dbm>>
    BY <2>1 DEF NamesInv
  <2> QED BY <1>5, <1>7, <2>1 DEF Mount
<1>8. CASE Unmount
  <2>1. Named(blk, inode_bm)
    BY <1>4, <1>8 DEF Unmount
  <2> QED BY <1>8, <2>1 DEF Unmount, NamesInv
<1>9. CASE Kill
  BY <1>9 DEF Kill, diskVars, NamesInv
<1>10. ASSUME NEW n \in Names, CreateFile(n), \A id \in inode_bm' : InTable(id)
       PROVE  NamesInv'
  <2>1. mounted /\ Persist
    BY <1>10 DEF CreateFile
  <2>2. inode_bm' \subseteq TableIds
    BY <1>2, <1>10, InTableSubset
  <2> QED BY <1>3, <1>4, <1>10, <2>1, <2>2, CreateFileRecords
<1>11. ASSUME NEW n \in Names, DeleteFile(n) PROVE NamesInv'
  <2>1. mounted /\ Persist
    BY <1>11 DEF DeleteFile
  <2> QED BY <1>3, <1>4, <1>11, <2>1, DeleteFileRecords
<1>12. ASSUME NEW n \in Names, NEW c \in Contents, WriteFile(n, c) PROVE NamesInv'
  <2>1. mounted /\ Persist
    BY <1>12 DEF WriteFile
  <2> QED BY <1>3, <1>4, <1>12, <2>1, WriteFileRecords
<1>13. CASE UNCHANGED vars
  BY <1>13 DEF vars, diskVars, NamesInv
<1> QED BY <1>6, <1>7, <1>8, <1>9, <1>10, <1>11, <1>12, <1>13 DEF HealthyNext, FileNext

(* A blank disk has no entries.                                             *)
LEMMA BlankDirectory ==
  ASSUME Blank
  PROVE  UsedEntries(blk) = {}
<1>1. \A i \in DirectIdx : DirOf(blk)[i] = 0
  <2> SUFFICES ASSUME NEW i \in DirectIdx PROVE DirOf(blk)[i] = 0
    OBVIOUS
  <2>1. DirectSite(ROOT_INODE, i) \in Sites
    BY RootInTable, SiteOf
  <2>2. PointerAt(blk, DirectSite(ROOT_INODE, i)) = 0
    BY <2>1, BlankPointers
  <2> QED BY <2>2, PointerAtSite, DirOfRoot
<1> QED BY <1>1 DEF UsedEntries

(* The two invariants give the property the run checks.                     *)
LEMMA NamesInvResolves ==
  ASSUME HealthyInv, NamesInv
  PROVE  NamesResolve
<1>1. CASE disk_sb.magic
  <2>1. GoodEntries(blk, disk_ibm) /\ Distinct(blk)
    BY <1>1 DEF HealthyInv, InOrder, Sound
  <2>2. Backed(blk) /\ \A p \in UsedEntries(blk) : EntryAt(blk, p).kind = "dirent"
    BY <2>1 DEF GoodEntries, Dirents, Backed
  <2>3. Recorded(blk, disk_ibm)
    BY <1>1 DEF NamesInv, Named
  <2> QED BY <2>1, <2>2, <2>3 DEF NamesResolve, Resolves
<1>2. CASE ~ disk_sb.magic
  <2>1. UsedEntries(blk) = {}
    BY <1>2, BlankDirectory DEF HealthyInv
  <2> QED BY <1>2, <2>1 DEF NamesResolve, Resolves, Backed, Distinct
<1> QED BY <1>1, <1>2

(* In ordinary use the entries of the root directory name different regular *)
(* files, and the allocated inodes are theirs and the root: no file without *)
(* a name and no name without a file (filesystem.cpp:86-157).               *)
THEOREM HealthyNamesResolve ==
  ASSUME RoomInDirectory
  PROVE  HealthySpec => []NamesResolve
<1>1. Init => NamesInv
  BY DEF Init, ZeroSuperblock, NamesInv
<1>2. HealthyInv /\ NamesInv /\ [HealthyNext]_vars => NamesInv'
  BY NamesStep
<1>3. HealthyInv /\ NamesInv => NamesResolve
  BY NamesInvResolves
<1> QED BY <1>1, <1>2, <1>3, HealthyInvariant, PTL DEF HealthySpec

-----------------------------------------------------------------------------
(* What a reader of a sound disk gets.                                     *)

LEMMA Prefix ==
  ASSUME NEW m \in Nat, NEW S \in SUBSET (0 .. m - 1),
         \A y \in S : \A x \in 0 .. y : x \in S
  PROVE  Count(S) \in 0 .. m /\ S = 0 .. Count(S) - 1
<1> DEFINE T == (0 .. m) \ S
<1>1. m \in T /\ T \subseteq Nat
  OBVIOUS
<1>2. PICK x \in T : \A y \in T : x <= y
  BY <1>1, LeastNat
<1>3. x \in 0 .. m
  BY <1>2
<1>4. S = 0 .. x - 1
  <2>1. ASSUME NEW y \in 0 .. x - 1 PROVE y \in S
    BY <1>2, <1>3, <2>1
  <2>2. ASSUME NEW y \in S PROVE y \in 0 .. x - 1
    <3>1. CASE x <= y
      <4>1. x \in 0 .. y
        BY <1>3, <3>1
      <4> QED BY <1>2, <4>1
    <3> QED BY <1>3, <3>1
  <2> QED BY <2>1, <2>2
<1>5. Count(S) = x
  BY <1>3, <1>4, FS_Interval DEF Count
<1> QED BY <1>3, <1>4, <1>5

(* r is s followed by t.                                                    *)
IsJoin(r, s, t, a, b, S) ==
  /\ r \in [1 .. a + b -> S] /\ Len(r) = a + b
  /\ \A k \in 1 .. a + b : r[k] = IF k <= a THEN s[k] ELSE t[k - a]

(* Concatenation, by length and by element.                                 *)
LEMMA Joined ==
  ASSUME NEW a \in Nat, NEW b \in Nat, NEW S,
         NEW s \in [1 .. a -> S], NEW t \in [1 .. b -> S]
  PROVE  IsJoin(s \o t, s, t, a, b, S)
<1> DEFINE r == s \o t
<1>1. s \in Seq(S) /\ Len(s) = a /\ t \in Seq(S) /\ Len(t) = b
  OBVIOUS
<1>2. /\ r \in Seq(S) /\ Len(r) = a + b
      /\ \A k \in 1 .. a + b : r[k] = IF k <= a THEN s[k] ELSE t[k - a]
  BY <1>1
<1> HIDE DEF r
<1>3. r \in [1 .. a + b -> S]
  BY <1>2
<1>4. IsJoin(r, s, t, a, b, S)
  BY <1>2, <1>3 DEF IsJoin
<1> QED BY <1>4 DEF r

(* The blocks of a file, direct ones first, and where it reads them from.   *)
DirectCount(ino)      == Count(DirectRead(ino))
IndirectCount(d, ino) == Count(IndirectRead(d, ino))

(* The list read_file follows: first direct pointers, then those of the     *)
(* indirect block, all of them allocated blocks.                            *)
ReadsAre(d, ino, B) ==
  LET a  == DirectCount(ino)
      b  == IndirectCount(d, ino)
      bs == BlocksRead(d, ino)
  IN  /\ a \in 0 .. DIRECT_BLOCKS /\ b \in 0 .. SlotCount
      /\ DirectRead(ino) = 0 .. a - 1 /\ IndirectRead(d, ino) = 0 .. b - 1
      /\ bs \in [1 .. a + b -> B] /\ Len(bs) = a + b
      /\ \A k \in 1 .. a + b :
           bs[k] = IF k <= a THEN ino.direct[k - 1] ELSE PointersOf(d, ino.ind)[k - a - 1]

(* On a sound disk read_file follows no null and no out-of-range pointer.   *)
LEMMA SoundReads ==
  ASSUME NEW d, NEW I, NEW B, Sound(d, I, B), NEW id \in TableIds
  PROVE  ReadsAre(d, ReadInode(d, id), B)
<1> DEFINE ino == ReadInode(d, id)
           ptr == PointersOf(d, ino.ind)
           a   == DirectCount(ino)
           b   == IndirectCount(d, ino)
           s   == [k \in 1 .. a |-> ino.direct[k - 1]]
           t   == [k \in 1 .. b |-> ptr[k - 1]]
<1>1. /\ ino.direct \in [DirectIdx -> {0} \cup B] /\ ptr \in [Slots -> {0} \cup B]
      /\ ino.size \in Nat
  BY SoundInode DEF Inodes
<1>2. DIRECT_BLOCKS \in Nat /\ SlotCount \in Nat
  BY GeometryAssumption, SlotNumbers
<1>3. a \in 0 .. DIRECT_BLOCKS /\ DirectRead(ino) = 0 .. a - 1
  <2> DEFINE S == DirectRead(ino)
  <2>1. S \in SUBSET (0 .. DIRECT_BLOCKS - 1)
    BY DEF DirectRead, DirectIdx
  <2>2. ASSUME NEW y \in S, NEW x \in 0 .. y PROVE x \in S
    BY <1>1, <1>2, <2>2 DEF DirectRead, DirectIdx
  <2> HIDE DEF S
  <2>3. Count(S) \in 0 .. DIRECT_BLOCKS /\ S = 0 .. Count(S) - 1
    BY <1>2, <2>1, <2>2, Prefix
  <2> QED BY <2>3 DEF S, DirectCount
<1>4. b \in 0 .. SlotCount /\ IndirectRead(d, ino) = 0 .. b - 1
  <2> DEFINE S == IndirectRead(d, ino)
  <2>1. S \in SUBSET (0 .. SlotCount - 1)
    BY SlotNumbers DEF IndirectRead
  <2>2. ASSUME NEW y \in S, NEW x \in 0 .. y PROVE x \in S
    <3>1. Count(DirectRead(ino)) \in Nat
      BY <1>3 DEF DirectCount
    <3> QED BY <1>1, <1>2, <2>2, <3>1, SlotNumbers DEF IndirectRead
  <2> HIDE DEF S
  <2>3. Count(S) \in 0 .. SlotCount /\ S = 0 .. Count(S) - 1
    BY <1>2, <2>1, <2>2, Prefix
  <2> QED BY <2>3 DEF S, IndirectCount
<1>5. s \in [1 .. a -> B]
  <2>1. ASSUME NEW k \in 1 .. a PROVE ino.direct[k - 1] \in B
    <3>1. k - 1 \in DirectRead(ino)
      BY <1>3
    <3>2. k - 1 \in DirectIdx /\ ino.direct[k - 1] # 0
      BY <3>1, <1>2 DEF DirectRead, DirectIdx
    <3> QED BY <1>1, <3>2
  <2> QED BY <2>1
<1>6. t \in [1 .. b -> B]
  <2>1. ASSUME NEW k \in 1 .. b PROVE ptr[k - 1] \in B
    <3>1. k - 1 \in IndirectRead(d, ino)
      BY <1>4
    <3>2. k - 1 \in Slots /\ ptr[k - 1] # 0
      BY <3>1, <1>2, SlotNumbers DEF IndirectRead
    <3> QED BY <1>1, <3>2
  <2> QED BY <2>1
<1>7. BlocksRead(d, ino) = s \o t
  BY DEF BlocksRead, DirectCount, IndirectCount
<1> HIDE DEF a, b
<1>8. a \in Nat /\ b \in Nat
  BY <1>2, <1>3, <1>4
<1>9. \A k \in 1 .. a : s[k] = ino.direct[k - 1]
  OBVIOUS
<1>10. \A k \in 1 .. b : t[k] = ptr[k - 1]
  OBVIOUS
<1> HIDE DEF s, t, ptr
<1>11. /\ s \o t \in [1 .. a + b -> B] /\ Len(s \o t) = a + b
       /\ \A k \in 1 .. a + b : (s \o t)[k] = IF k <= a THEN s[k] ELSE t[k - a]
  <2>1. IsJoin(s \o t, s, t, a, b, B)
    BY <1>5, <1>6, <1>8, Joined
  <2> QED BY <2>1 DEF IsJoin
<1>12. \A k \in 1 .. a + b :
         (s \o t)[k] = IF k <= a THEN ino.direct[k - 1] ELSE ptr[k - a - 1]
  <2> TAKE k \in 1 .. a + b
  <2>1. CASE k <= a
    BY <1>8, <1>9, <1>11, <2>1
  <2>2. CASE ~ (k <= a)
    <3>1. k - a \in 1 .. b
      BY <1>8, <2>2
    <3> QED BY <1>10, <1>11, <2>2, <3>1
  <2> QED BY <2>1, <2>2
<1>13. /\ a \in 0 .. DIRECT_BLOCKS /\ b \in 0 .. SlotCount
       /\ DirectRead(ino) = 0 .. a - 1 /\ IndirectRead(d, ino) = 0 .. b - 1
       /\ BlocksRead(d, ino) \in [1 .. a + b -> B] /\ Len(BlocksRead(d, ino)) = a + b
       /\ \A k \in 1 .. a + b :
            BlocksRead(d, ino)[k] = IF k <= a THEN ino.direct[k - 1] ELSE ptr[k - a - 1]
  BY <1>3, <1>4, <1>7, <1>11, <1>12
<1> QED BY <1>13 DEF ReadsAre, a, b, ptr

(* The content of the file of inode id.                                     *)
FileOf(d, id) == Images(d, BlocksRead(d, ReadInode(d, id)))

(* So it reads one block image per pointer.                                 *)
LEMMA SoundFile ==
  ASSUME NEW d, NEW I, NEW B, Sound(d, I, B), NEW id \in TableIds
  PROVE  LET bs == BlocksRead(d, ReadInode(d, id))
         IN  /\ FileOf(d, id) = [k \in DOMAIN bs |-> d[bs[k]]]
             /\ FileOf(d, id) \in Seq(BlockImages)
<1> DEFINE ino == ReadInode(d, id)
           bs  == BlocksRead(d, ino)
           n   == DirectCount(ino) + IndirectCount(d, ino)
<1>1. bs \in [1 .. n -> B] /\ n \in Nat
  BY SoundReads, GeometryAssumption DEF ReadsAre
<1>2. B \subseteq DataBlocks /\ d \in Disks
  BY DEF Sound
<1> HIDE DEF n, bs
<1>3. \A k \in DOMAIN bs : bs[k] # BadPtr /\ d[bs[k]] \in BlockImages
  BY <1>1, <1>2, Regions DEF Disks
<1>4. FileOf(d, id) = [k \in DOMAIN bs |-> d[bs[k]]]
  BY <1>3 DEF FileOf, Images, bs
<1>5. [k \in DOMAIN bs |-> d[bs[k]]] \in [1 .. n -> BlockImages]
  BY <1>1, <1>3
<1>6. [1 .. n -> BlockImages] \subseteq Seq(BlockImages)
  BY <1>1
<1> QED BY <1>4, <1>5, <1>6 DEF bs

(* read_file on a sound disk: the file of the one entry for the name.       *)
LEMMA SoundReadFile ==
  ASSUME NEW d, NEW I, NEW B, Sound(d, I, B), NEW n
  PROVE  /\ Matches(d, n) = {} => ReadFile(d, n) = NoFile
         /\ \A p \in Matches(d, n) : ReadFile(d, n) = FileOf(d, EntryAt(d, p).id)
<1>1. RootReadable(d)
  BY SoundRoot
<1>2. Matches(d, n) = {} => ReadFile(d, n) = NoFile
  BY DEF ReadFile
<1>3. ASSUME NEW p \in Matches(d, n)
      PROVE  ReadFile(d, n) = FileOf(d, EntryAt(d, p).id)
  <2> DEFINE lists == {BlocksRead(d, ReadInode(d, EntryAt(d, q).id)) :
                         q \in FirstOf(Matches(d, n))}
             v     == BlocksRead(d, ReadInode(d, EntryAt(d, p).id))
  <2>1. FirstOf(Matches(d, n)) = {p}
    BY SoundMatches
  <2>2. lists = {v}
    BY <2>1
  <2>3. ReadFile(d, n) = CHOOSE r \in {Images(d, bs) : bs \in lists} : TRUE
    BY <1>1, <1>3 DEF ReadFile
  <2> HIDE DEF lists, v
  <2>4. {Images(d, bs) : bs \in lists} = {Images(d, v)}
    BY <2>2
  <2>5. ReadFile(d, n) = CHOOSE r \in {Images(d, v)} : TRUE
    BY <2>3, <2>4, Zenon
  <2>6. (CHOOSE r \in {Images(d, v)} : TRUE) = Images(d, v)
    OBVIOUS
  <2> QED BY <2>5, <2>6 DEF FileOf, v
<1> QED BY <1>2, <1>3

(* A file the command keeps reads the same afterwards.                      *)
LEMMA KeepsFile ==
  ASSUME NEW d, NEW I, NEW B, Sound(d, I, B), NEW e, NEW id \in TableIds, Keeps(d, e, id)
  PROVE  FileOf(e, id) = FileOf(d, id)
<1> DEFINE ino == ReadInode(d, id)
           bs  == BlocksRead(d, ino)
           a   == DirectCount(ino)
           b   == IndirectCount(d, ino)
<1>1. ReadInode(e, id) = ino
  BY DEF Keeps
<1>2. PointersOf(e, ino.ind) = PointersOf(d, ino.ind)
  <2>1. \A s \in Slots : PointersOf(e, ino.ind)[s] = PointersOf(d, ino.ind)[s]
    <3> TAKE s \in Slots
    <3>1. PointerSite(id, s) \in Sites /\ PointerSite(id, s)[1] = id
      BY SiteOf DEF PointerSite
    <3>2. PointerAt(e, PointerSite(id, s)) = PointerAt(d, PointerSite(id, s))
      BY <3>1 DEF Keeps
    <3> QED BY <1>1, <3>2, PointerAtSite
  <2> QED BY <2>1 DEF PointersOf
<1>3. BlocksRead(e, ino) = bs
  BY <1>2 DEF BlocksRead, IndirectRead
<1>4. /\ a \in 0 .. DIRECT_BLOCKS /\ b \in 0 .. SlotCount
      /\ bs \in [1 .. a + b -> B]
      /\ \A k \in 1 .. a + b :
           bs[k] = IF k <= a THEN ino.direct[k - 1] ELSE PointersOf(d, ino.ind)[k - a - 1]
  BY SoundReads DEF ReadsAre
<1>5. B \subseteq DataBlocks /\ DIRECT_BLOCKS \in Nat /\ SlotCount \in Nat
  BY GeometryAssumption, SlotNumbers DEF Sound
<1>6. ASSUME NEW k \in DOMAIN bs PROVE e[bs[k]] = d[bs[k]]
  <2>1. k \in 1 .. a + b /\ bs[k] # 0
    BY <1>4, <1>5, <1>6, Regions
  <2>2. CASE k <= a
    <3>1. k - 1 \in DirectIdx
      BY <1>4, <1>5, <2>1, <2>2 DEF DirectIdx
    <3>2. DirectSite(id, k - 1) \in Sites /\ DirectSite(id, k - 1)[1] = id
      BY <3>1, SiteOf DEF DirectSite
    <3>3. PointerAt(d, DirectSite(id, k - 1)) = bs[k]
      BY <1>4, <2>1, <2>2, <3>1, PointerAtSite
    <3> QED BY <2>1, <3>2, <3>3 DEF Keeps
  <2>3. CASE ~ (k <= a)
    <3>1. k - a - 1 \in Slots
      BY <1>4, <1>5, <2>1, <2>3, SlotNumbers
    <3>2. PointerSite(id, k - a - 1) \in Sites /\ PointerSite(id, k - a - 1)[1] = id
      BY <3>1, SiteOf DEF PointerSite
    <3>3. PointerAt(d, PointerSite(id, k - a - 1)) = bs[k]
      BY <1>4, <2>1, <2>3, PointerAtSite
    <3> QED BY <2>1, <3>2, <3>3 DEF Keeps
  <2> QED BY <2>2, <2>3
<1>7. FileOf(d, id) = [k \in DOMAIN bs |-> d[bs[k]]]
  BY SoundFile
<1>8. FileOf(e, id) = [k \in DOMAIN bs |-> e[bs[k]]]
  <2>1. BlocksRead(e, ReadInode(e, id)) = bs
    BY <1>1, <1>3
  <2>2. \A k \in DOMAIN bs : bs[k] # BadPtr
    BY <1>4, <1>5, Regions
  <2> HIDE DEF bs
  <2> QED BY <2>1, <2>2 DEF FileOf, Images
<1> HIDE DEF bs
<1> QED BY <1>6, <1>7, <1>8

(* Intervals from 0 are told apart by their length.                         *)
LEMMA SameInterval ==
  ASSUME NEW a \in Nat, NEW b \in Nat, 0 .. a - 1 = 0 .. b - 1
  PROVE  a = b
<1>1. CASE a < b
  <2>1. a \in 0 .. b - 1 /\ a \notin 0 .. a - 1
    BY <1>1
  <2> QED BY <2>1
<1>2. CASE b < a
  <2>1. b \in 0 .. a - 1 /\ b \notin 0 .. b - 1
    BY <1>2
  <2> QED BY <2>1
<1> QED BY <1>1, <1>2

(* A file just created is empty.                                            *)
LEMMA NewFileReads ==
  ASSUME NEW d, NEW I, NEW B, Sound(d, I, B), NEW id \in TableIds,
         ReadInode(d, id) = NewInode("REGULAR")
  PROVE  FileOf(d, id) = <<>>
<1> DEFINE ino == ReadInode(d, id)
           a   == DirectCount(ino)
           b   == IndirectCount(d, ino)
           bs  == BlocksRead(d, ino)
<1>1. ino.size = 0
  BY DEF NewInode
<1>2. /\ a \in 0 .. DIRECT_BLOCKS /\ b \in 0 .. SlotCount
      /\ DirectRead(ino) = 0 .. a - 1 /\ IndirectRead(d, ino) = 0 .. b - 1
      /\ bs \in [1 .. a + b -> B]
  BY SoundReads DEF ReadsAre
<1>3. DIRECT_BLOCKS \in Nat /\ SlotCount \in Nat
  BY GeometryAssumption, SlotNumbers
<1> HIDE DEF a, b, bs, ino
<1>4. a = 0
  <2>1. DirectRead(ino) = {}
    BY <1>1, <1>3 DEF DirectRead, DirectIdx
  <2> QED BY <1>2, <1>3, <2>1
<1>5. b = 0
  <2>1. Count(DirectRead(ino)) = 0
    BY <1>4 DEF a, DirectCount
  <2>2. IndirectRead(d, ino) = {}
    BY <1>1, <1>3, <2>1, SlotNumbers DEF IndirectRead
  <2>3. b # 0 => 0 \in 0 .. b - 1
    BY <1>2, <1>3
  <2> QED BY <1>2, <2>2, <2>3
<1>6. DOMAIN bs = {}
  BY <1>2, <1>4, <1>5
<1>7. FileOf(d, id) = [k \in DOMAIN bs |-> d[bs[k]]] /\ FileOf(d, id) \in Seq(BlockImages)
  BY SoundFile DEF bs, ino
<1>8. DOMAIN FileOf(d, id) = {}
  BY <1>6, <1>7
<1> DEFINE q == FileOf(d, id)
<1>9. q \in Seq(BlockImages) /\ DOMAIN q = {}
  BY <1>7, <1>8
<1> HIDE DEF q
<1>10. q = <<>>
  BY <1>9
<1> QED BY <1>10 DEF q

(* What write_file leaves is read back, chunk by chunk.                     *)
LEMMA WrittenFileReads ==
  ASSUME NEW d, NEW I, NEW B, Sound(d, I, B), NEW id \in TableIds, NEW c \in Contents,
         NEW f, Allocation(d, B, id, c, f),
         NEW J, NEW C, Sound(Written(d, id, f, c), J, C)
  PROVE  FileOf(Written(d, id, f, c), id) = [k \in DOMAIN c |-> Chunk(c[k])]
<1> DEFINE e   == Written(d, id, f, c)
           new == NewPointers(d, id, f, c)
           L   == Len(c)
           D   == DIRECT_BLOCKS
           a   == DirectCount(new)
           b   == IndirectCount(e, new)
           bs  == BlocksRead(e, new)
           g   == ChunkBlocks(f)
           ptr == PointersOf(e, new.ind)
<1>1. /\ L \in Nat \ {0} /\ D \in Nat \ {0} /\ SlotCount \in Nat
      /\ Need(c) = (IF L > D THEN L + 1 ELSE L)
      /\ L <= D + SlotCount
  BY ContentSize
<1>2. /\ ReadInode(e, id) = new
      /\ new.size = L
      /\ \A i \in DirectIdx : new.direct[i] = IF i < L THEN f[i + 1] ELSE 0
      /\ L > D => new.ind = f[D + 1]
      /\ \A k \in 1 .. L : e[g[k]] = Chunk(c[k])
      /\ L > D => e[f[D + 1]] = IndirectBlock(f)
  BY WrittenReads
<1>3. Placed(f, c)
  <2>1. GivenBack(d, id) \subseteq DataBlocks /\ B \in SUBSET DataBlocks
    BY OwnedAreAllocated DEF GivenBack, Owned, Sound
  <2> QED BY <2>1, ChunkPlaces
<1>4. /\ DOMAIN f = 1 .. Need(c) /\ f \in [1 .. Need(c) -> DataBlocks]
      /\ \A k \in 1 .. L : /\ k <= D => g[k] = f[k]
                           /\ k > D => g[k] = f[k + 1]
      /\ L > D => D + 1 \in 1 .. Need(c)
  BY <1>3 DEF Placed
<1>5. /\ a \in 0 .. D /\ b \in 0 .. SlotCount
      /\ DirectRead(new) = 0 .. a - 1 /\ IndirectRead(e, new) = 0 .. b - 1
      /\ bs \in [1 .. a + b -> C]
      /\ \A k \in 1 .. a + b : bs[k] = IF k <= a THEN new.direct[k - 1] ELSE ptr[k - a - 1]
  <2>1. ReadsAre(e, ReadInode(e, id), C)
    BY SoundReads
  <2>2. ReadsAre(e, new, C)
    BY <1>2, <2>1
  <2> QED BY <2>2 DEF ReadsAre
<1>6. FileOf(e, id) = [k \in DOMAIN bs |-> e[bs[k]]]
  <2>1. FileOf(e, id) = [k \in DOMAIN BlocksRead(e, ReadInode(e, id)) |->
                           e[BlocksRead(e, ReadInode(e, id))[k]]]
    BY SoundFile
  <2> HIDE DEF new, e
  <2> QED BY <1>2, <2>1
<1>7. L > D => \A s \in Slots :
        ptr[s] = IF D + 2 + s <= Need(c) THEN f[D + 2 + s] ELSE 0
  <2> SUFFICES ASSUME L > D, NEW s \in Slots
               PROVE  ptr[s] = IF D + 2 + s <= Need(c) THEN f[D + 2 + s] ELSE 0
    OBVIOUS
  <2>1. new.ind \in DataBlocks /\ new.ind = f[D + 1]
    BY <1>2, <1>4
  <2>2. ptr[s] = AsPointer(e[new.ind][s])
    BY <2>1, Regions DEF PointersOf
  <2>3. e[new.ind] = IndirectBlock(f)
    BY <1>2, <2>1
  <2>4. AsPointer(IndirectBlock(f)[s])
          = IF D + 2 + s <= Need(c) THEN f[D + 2 + s] ELSE 0
    BY <1>1, <1>4, IndirectBlockReads
  <2> QED BY <2>2, <2>3, <2>4
<1>8. c \in Seq(Texts) /\ DOMAIN c = 1 .. L
  BY ContentAssumption
<1> HIDE DEF e, new, L, D, a, b, bs, g, ptr
<1>9. D = DIRECT_BLOCKS
  BY DEF D
<1>10. a = IF L > D THEN D ELSE L
  <2> DEFINE m == IF L > D THEN D ELSE L
  <2>1. m \in Nat /\ a \in Nat
    BY <1>1, <1>5
  <2>2. DirectRead(new) = 0 .. m - 1
    <3>1. ASSUME NEW i \in DirectRead(new) PROVE i \in 0 .. m - 1
      BY <1>1, <1>2, <1>9, <3>1 DEF DirectRead, DirectIdx
    <3>2. ASSUME NEW i \in 0 .. m - 1 PROVE i \in DirectRead(new)
      <4>1. i \in DirectIdx /\ i < L /\ i \in Nat
        BY <1>1, <1>9, <3>2 DEF DirectIdx
      <4>2. ASSUME NEW j \in 0 .. i PROVE new.direct[j] # 0
        <5>1. j \in DirectIdx /\ j < L
          BY <1>1, <1>9, <4>1, <4>2 DEF DirectIdx
        <5>2. j + 1 \in 1 .. Need(c)
          BY <1>1, <4>1, <4>2, <5>1
        <5> QED BY <1>2, <1>4, <5>1, <5>2, Regions
      <4> QED BY <1>2, <4>1, <4>2 DEF DirectRead
    <3> QED BY <3>1, <3>2
  <2> HIDE DEF m
  <2>3. a = m
    BY <1>5, <2>1, <2>2, SameInterval
  <2> QED BY <2>3 DEF m
<1>11. b = IF L > D THEN L - D ELSE 0
  <2> DEFINE m == IF L > D THEN L - D ELSE 0
  <2>1. m \in Nat /\ b \in Nat
    BY <1>1, <1>5
  <2>2. Count(DirectRead(new)) = a
    BY DEF a, DirectCount
  <2>3. IndirectRead(e, new) = 0 .. m - 1
    <3>1. ASSUME NEW s \in IndirectRead(e, new) PROVE s \in 0 .. m - 1
      BY <1>1, <1>2, <1>10, <2>2, <3>1, SlotNumbers DEF IndirectRead
    <3>2. ASSUME NEW s \in 0 .. m - 1 PROVE s \in IndirectRead(e, new)
      <4>1. L > D /\ s \in Slots /\ s + a < L /\ s \in Nat
        BY <1>1, <1>10, <3>2, SlotNumbers
      <4>2. ASSUME NEW j \in 0 .. s PROVE ptr[j] # 0
        <5>1. j \in Slots /\ D + 2 + j \in 1 .. Need(c)
          BY <1>1, <1>10, <4>1, <4>2, SlotNumbers
        <5>2. ptr[j] = f[D + 2 + j]
          BY <1>7, <4>1, <5>1
        <5> QED BY <1>4, <5>1, <5>2, Regions
      <4>3. s < new.size - Count(DirectRead(new))
        BY <1>1, <1>2, <1>5, <2>2, <4>1
      <4> QED BY <4>1, <4>2, <4>3 DEF IndirectRead, ptr
    <3> QED BY <3>1, <3>2
  <2> HIDE DEF m
  <2>4. b = m
    BY <1>5, <2>1, <2>3, SameInterval
  <2> QED BY <2>4 DEF m
<1>12. a + b = L
  BY <1>1, <1>10, <1>11
<1>13. \A k \in 1 .. L : bs[k] = g[k]
  <2> TAKE k \in 1 .. L
  <2>1. CASE k <= a
    <3>1. k - 1 \in DirectIdx /\ k - 1 < L /\ k <= D
      BY <1>1, <1>5, <1>9, <2>1 DEF DirectIdx
    <3> QED BY <1>1, <1>2, <1>4, <1>5, <1>12, <2>1, <3>1
  <2>2. CASE ~ (k <= a)
    <3>1. L > D /\ a = D /\ k > D /\ k - a - 1 \in Slots
          /\ D + 2 + (k - a - 1) = k + 1 /\ k + 1 <= Need(c)
      BY <1>1, <1>10, <2>2, SlotNumbers
    <3> QED BY <1>4, <1>5, <1>7, <1>12, <2>2, <3>1
  <2> QED BY <2>1, <2>2
<1>14. DOMAIN bs = 1 .. L
  BY <1>5, <1>12
<1>15. \A k \in 1 .. L : e[bs[k]] = Chunk(c[k])
  BY <1>2, <1>13
<1>16. FileOf(e, id) = [k \in DOMAIN c |-> Chunk(c[k])]
  BY <1>6, <1>8, <1>14, <1>15
<1> QED BY <1>16 DEF e

-----------------------------------------------------------------------------
(* The commands implement FileStore.                                       *)

(* The entry for a name leads to an inode of the table that is not the      *)
(* root.                                                                    *)
LEMMA MatchIds ==
  ASSUME NEW d, NEW I, NEW B, Sound(d, I, B), NEW n, NEW p \in Matches(d, n)
  PROVE  /\ p \in UsedEntries(d) /\ EntryAt(d, p).name = n
         /\ EntryAt(d, p).id \in I \ {ROOT_INODE} /\ EntryAt(d, p).id \in TableIds
<1>1. p \in UsedEntries(d) /\ EntryAt(d, p).name = n
  BY SoundMatches
<1>2. EntryAt(d, p) \in Dirents /\ EntryAt(d, p).id \in I /\ I \subseteq TableIds
  BY <1>1 DEF Sound, GoodEntries
<1>3. EntryUsed(EntryAt(d, p))
  BY <1>1 DEF UsedEntries
<1>4. EntryAt(d, p).id # ROOT_INODE
  BY <1>2, <1>3 DEF EntryUsed, Dirents, ROOT_INODE
<1> QED BY <1>1, <1>2, <1>4

(* A file that has a name can be read.                                      *)
LEMMA NamedFileReads ==
  ASSUME NEW d, NEW I, NEW B, Sound(d, I, B), NEW n, Matches(d, n) # {}
  PROVE  ReadFile(d, n) # NoFile
<1>1. PICK p \in Matches(d, n) : TRUE
  OBVIOUS
<1>2. ReadFile(d, n) = FileOf(d, EntryAt(d, p).id)
  BY SoundReadFile
<1>3. EntryAt(d, p).id \in TableIds
  BY MatchIds
<1>4. FileOf(d, EntryAt(d, p).id) \in Seq(BlockImages)
  BY <1>3, SoundFile
<1> QED BY <1>2, <1>4, NoFileAssumption

(* A name whose entry and file a command keeps reads the same.              *)
LEMMA SameFile ==
  ASSUME NEW d, NEW I, NEW B, Sound(d, I, B), NEW e, RootReadable(e),
         NEW n, Matches(e, n) = Matches(d, n),
         \A p \in Matches(d, n) : /\ EntryAt(e, p) = EntryAt(d, p)
                                  /\ Keeps(d, e, EntryAt(d, p).id)
  PROVE  ReadFile(e, n) = ReadFile(d, n)
<1>1. CASE Matches(d, n) = {}
  BY <1>1, SoundReadFile DEF ReadFile
<1>2. ASSUME NEW p \in Matches(d, n)
      PROVE  ReadFile(e, n) = ReadFile(d, n)
  <2>1. ReadFile(d, n) = FileOf(d, EntryAt(d, p).id)
    BY SoundReadFile
  <2>3. ReadFile(e, n) = FileOf(e, EntryAt(e, p).id)
    <3>1. FirstOf(Matches(e, n)) = {p}
      BY <1>2, SoundMatches
    <3>2. Matches(e, n) # {}
      BY <1>2
    <3> QED BY <3>1, <3>2 DEF ReadFile, FileOf
  <2>2. FileOf(e, EntryAt(d, p).id) = FileOf(d, EntryAt(d, p).id)
    BY MatchIds, KeepsFile
  <2> QED BY <1>2, <2>1, <2>2, <2>3
<1> QED BY <1>1, <1>2

(* create_file makes the named file exist, empty, unless the directory is   *)
(* full; every other file stays as it is.                                   *)
LEMMA CreateFileStores ==
  ASSUME Sound(blk, inode_bm, data_bm), NEW n \in Names, CreateFile(n),
         inode_bm' \subseteq TableIds
  PROVE  /\ ReadFile(blk, n) = NoFile
         /\ ReadFile(blk', n) \in {NoFile, <<>>}
         /\ \A m \in Names \ {n} : ReadFile(blk', m) = ReadFile(blk, m)
<1>1. PICK id \in TableIds \ inode_bm :
        /\ inode_bm' = inode_bm \cup {id}
        /\ Sound(blk', inode_bm', data_bm')
        /\ \A j \in TableIds \ {ROOT_INODE, id} : Keeps(blk, blk', j)
        /\ ReadInode(blk', id) = NewInode("REGULAR")
        /\ \A p \in UsedEntries(blk) : EntryAt(blk', p) = EntryAt(blk, p)
        /\ \/ \E p : /\ UsedEntries(blk') = UsedEntries(blk) \cup {p}
                     /\ EntryAt(blk', p) = Entry(n, id)
           \/ UsedEntries(blk') = UsedEntries(blk) /\ DirectoryFull(blk)
  BY CreateFileSound
<1>2. Matches(blk, n) = {}
  BY DEF CreateFile
<1>3. ReadFile(blk, n) = NoFile
  BY <1>2, SoundReadFile
<1>4. /\ \A m : Matches(blk, m) = {p \in UsedEntries(blk) : EntryAt(blk, p).name = m}
      /\ \A m : Matches(blk', m) = {p \in UsedEntries(blk') : EntryAt(blk', p).name = m}
  BY <1>1, SoundMatches
<1>5. /\ Entry(n, id).name = n /\ Entry(n, id).id = id
  BY DEF Entry
<1>6. \A m \in Names \ {n} : Matches(blk', m) = Matches(blk, m)
  BY <1>1, <1>4, <1>5
<1>7. ASSUME NEW m \in Names \ {n} PROVE ReadFile(blk', m) = ReadFile(blk, m)
  <2>1. \A p \in Matches(blk, m) : /\ EntryAt(blk', p) = EntryAt(blk, p)
                                   /\ Keeps(blk, blk', EntryAt(blk, p).id)
    <3> TAKE p \in Matches(blk, m)
    <3>1. /\ p \in UsedEntries(blk) /\ EntryAt(blk, p).id \in TableIds
          /\ EntryAt(blk, p).id \in inode_bm \ {ROOT_INODE}
      BY MatchIds
    <3> QED BY <1>1, <3>1
  <2> QED BY <1>1, <1>6, <2>1, SameFile, SoundRoot
<1>8. ReadFile(blk', n) \in {NoFile, <<>>}
  <2>1. \A p \in Matches(blk', n) : EntryAt(blk', p) = Entry(n, id)
    BY <1>1, <1>2, <1>4
  <2>2. CASE Matches(blk', n) = {}
    BY <1>1, <2>2, SoundReadFile
  <2>3. ASSUME NEW p \in Matches(blk', n) PROVE ReadFile(blk', n) = <<>>
    <3>1. ReadFile(blk', n) = FileOf(blk', EntryAt(blk', p).id)
      BY <1>1, SoundReadFile
    <3>2. EntryAt(blk', p).id = id
      BY <1>5, <2>1
    <3>3. FileOf(blk', id) = <<>>
      BY <1>1, NewFileReads
    <3> QED BY <3>1, <3>2, <3>3
  <2> QED BY <2>2, <2>3
<1> QED BY <1>3, <1>7, <1>8

(* delete_file keeps every other file.                                      *)
LEMMA DeletedKeeps ==
  ASSUME NEW d, NEW I, NEW B, Sound(d, I, B), NEW n, NEW id \in TableIds \ {ROOT_INODE},
         NEW j \in TableIds \ {ROOT_INODE, id}
  PROVE  Keeps(d, Deleted(d, id, n), j)
<1> DEFINE e == Deleted(d, id, n)
           T == Owned(d, id) \cup {DirOf(d)[i] : i \in {k \in DirectIdx : DirOf(d)[k] # 0}}
<1>1. /\ ReadInode(e, j) = ReadInode(d, j)
      /\ \A b \in DataBlocks :
           b \notin Owned(d, id) /\ (\A i \in DirectIdx : DirOf(d)[i] # b) => e[b] = d[b]
  BY DeletedReads
<1>2. \A b \in DataBlocks \ T : e[b] = d[b]
  <2> TAKE b \in DataBlocks \ T
  <2>1. \A i \in DirectIdx : DirOf(d)[i] # b
    BY Regions
  <2> QED BY <1>1, <2>1
<1>3. \A r \in Sites : r[1] = j => PointerAt(d, r) \notin T
  <2> SUFFICES ASSUME NEW r \in Sites, r[1] = j PROVE PointerAt(d, r) \notin T
    OBVIOUS
  <2>1. PointerAt(d, r) \notin Owned(d, id)
    BY OwnedApart
  <2>2. \A i \in DirectIdx : DirOf(d)[i] # 0 => PointerAt(d, r) # DirOf(d)[i]
    BY DirectoryApart
  <2> QED BY <2>1, <2>2
<1> HIDE DEF e, T
<1>4. Keeps(d, e, j)
  BY <1>1, <1>2, <1>3, KeepsUntouched
<1> QED BY <1>4 DEF e

(* delete_file makes the named file, and no other, disappear.               *)
LEMMA DeleteFileStores ==
  ASSUME Sound(blk, inode_bm, data_bm), NEW n \in Names, DeleteFile(n)
  PROVE  /\ ReadFile(blk, n) # NoFile
         /\ ReadFile(blk', n) = NoFile
         /\ \A m \in Names \ {n} : ReadFile(blk', m) = ReadFile(blk, m)
<1>1. PICK id \in IdsOf(n) : /\ blk' = Deleted(blk, id, n)
                             /\ data_bm' = data_bm \ Owned(blk, id)
                             /\ inode_bm' = inode_bm \ {id}
  BY DeleteFileDeletes
<1>2. id \in TableIds \ {ROOT_INODE}
  BY SoundName
<1>3. PICK p \in Matches(blk, n) : EntryAt(blk, p).id = id /\ p \in UsedEntries(blk)
  BY SoundName
<1>4. Sound(blk', inode_bm', data_bm')
  BY <1>1, DeleteFileSound
<1>5. /\ UsedEntries(blk') = UsedEntries(blk) \ Matches(blk, n)
      /\ \A q \in UsedEntries(blk') : EntryAt(blk', q) = EntryAt(blk, q)
  BY <1>1, <1>2, DeletedReads
<1>6. /\ \A m : Matches(blk, m) = {q \in UsedEntries(blk) : EntryAt(blk, q).name = m}
      /\ \A m : Matches(blk', m) = {q \in UsedEntries(blk') : EntryAt(blk', q).name = m}
  BY <1>4, SoundMatches
<1>7. ReadFile(blk, n) # NoFile
  BY <1>3, NamedFileReads
<1>8. ReadFile(blk', n) = NoFile
  <2>1. Matches(blk', n) = {}
    BY <1>5, <1>6
  <2> QED BY <1>4, <2>1, SoundReadFile
<1>9. ASSUME NEW m \in Names \ {n} PROVE ReadFile(blk', m) = ReadFile(blk, m)
  <2>1. Matches(blk', m) = Matches(blk, m)
    BY <1>5, <1>6
  <2>2. \A q \in Matches(blk, m) : /\ EntryAt(blk', q) = EntryAt(blk, q)
                                   /\ Keeps(blk, blk', EntryAt(blk, q).id)
    <3> TAKE q \in Matches(blk, m)
    <3>1. /\ q \in UsedEntries(blk) /\ EntryAt(blk, q).name = m
          /\ EntryAt(blk, q).id \in TableIds /\ EntryAt(blk, q).id # ROOT_INODE
      BY MatchIds
    <3>2. q # p /\ EntryAt(blk, q).id # id
      BY <1>3, <1>6, <3>1 DEF Sound, Distinct
    <3>3. Keeps(blk, blk', EntryAt(blk, q).id)
      BY <1>1, <1>2, <3>1, <3>2, DeletedKeeps
    <3> QED BY <1>5, <2>1, <1>6, <3>3
  <2> QED BY <1>4, <2>1, <2>2, SameFile, SoundRoot
<1> QED BY <1>7, <1>8, <1>9

(* write_file replaces the content of the named file, and of no other.      *)
LEMMA WriteFileStores ==
  ASSUME Sound(blk, inode_bm, data_bm), NEW n \in Names,
         NEW c \in Contents, WriteFile(n, c)
  PROVE  /\ ReadFile(blk, n) # NoFile
         /\ ReadFile(blk', n) = [k \in DOMAIN c |-> Chunk(c[k])]
         /\ \A m \in Names \ {n} : ReadFile(blk', m) = ReadFile(blk, m)
<1>1. PICK id, f :
        /\ id \in IdsOf(n)
        /\ id \in TableIds \ {ROOT_INODE}
        /\ Allocation(blk, data_bm, id, c, f)
        /\ blk' = Written(blk, id, f, c)
        /\ Sound(blk', inode_bm', data_bm')
        /\ ChangesOnly(blk, blk', id)
  BY WriteFileSound
<1>2. PICK p \in Matches(blk, n) : EntryAt(blk, p).id = id /\ p \in UsedEntries(blk)
  BY <1>1, SoundName
<1>3. /\ \A j \in TableIds \ {id} : Keeps(blk, blk', j)
      /\ \A q \in UsedEntries(blk) : EntryAt(blk', q) = EntryAt(blk, q)
      /\ \A m : Matches(blk', m) = Matches(blk, m)
  BY <1>1 DEF ChangesOnly
<1>4. ReadFile(blk, n) # NoFile
  BY <1>2, NamedFileReads
<1>5. ReadFile(blk', n) = [k \in DOMAIN c |-> Chunk(c[k])]
  <2>1. FileOf(Written(blk, id, f, c), id) = [k \in DOMAIN c |-> Chunk(c[k])]
    BY <1>1, WrittenFileReads
  <2>2. ReadFile(blk', n) = FileOf(blk', EntryAt(blk', p).id)
    BY <1>1, <1>2, <1>3, SoundReadFile
  <2>3. EntryAt(blk', p).id = id
    BY <1>2, <1>3
  <2> QED BY <1>1, <2>1, <2>2, <2>3, Zenon
<1>6. ASSUME NEW m \in Names \ {n} PROVE ReadFile(blk', m) = ReadFile(blk, m)
  <2>1. \A q \in Matches(blk, m) : /\ EntryAt(blk', q) = EntryAt(blk, q)
                                   /\ Keeps(blk, blk', EntryAt(blk, q).id)
    <3> TAKE q \in Matches(blk, m)
    <3>1. /\ q \in UsedEntries(blk) /\ EntryAt(blk, q).name = m
          /\ EntryAt(blk, q).id \in TableIds
      BY MatchIds
    <3>2. EntryAt(blk, p).name = n
      BY MatchIds
    <3>3. q # p /\ EntryAt(blk, q).id # id
      BY <1>2, <3>1, <3>2 DEF Sound, Distinct
    <3> QED BY <1>3, <3>1, <3>3
  <2> QED BY <1>1, <1>3, <2>1, SameFile, SoundRoot
<1> QED BY <1>4, <1>5, <1>6

(* A directory with no entries holds no files.                              *)
LEMMA NoEntriesNoFiles ==
  ASSUME NEW d, \A n : Matches(d, n) = {}
  PROVE  \A n : ReadFile(d, n) = NoFile
BY DEF ReadFile

(* A command that changes what one name reads changes one file.             *)
LEMMA OneFileChanges ==
  ASSUME NEW n \in Names, \A m \in Names \ {n} : ReadFile(blk', m) = ReadFile(blk, m)
  PROVE  Files' = [Files EXCEPT ![n] = ReadFile(blk', n)]
<1> DEFINE v == ReadFile(blk', n)
<1>1. Files' = [m \in Names |-> IF m = n THEN v ELSE ReadFile(blk, m)]
  BY DEF Files
<1> HIDE DEF v
<1>2. [Files EXCEPT ![n] = v] = [m \in Names |-> IF m = n THEN v ELSE ReadFile(blk, m)]
  BY DEF Files
<1> QED BY <1>1, <1>2 DEF v

(* The store is empty to begin with.                                        *)
LEMMA InitStores ==
  ASSUME Init
  PROVE  Store!Init
<1>1. Blank
  BY DEF Init, Blank
<1>2. UsedEntries(blk) = {} /\ \A i \in DirectIdx : DirOf(blk)[i] = 0
  <2> SUFFICES ASSUME NEW i \in DirectIdx PROVE DirOf(blk)[i] = 0
    BY <1>1, BlankDirectory
  <2>1. DirectSite(ROOT_INODE, i) \in Sites
    BY RootInTable, SiteOf
  <2>2. PointerAt(blk, DirectSite(ROOT_INODE, i)) = 0
    BY <1>1, <2>1, BlankPointers
  <2> QED BY <2>2, PointerAtSite, DirOfRoot
<1>3. \A n : Matches(blk, n) = {}
  BY <1>2 DEF Matches
<1>4. \A n : ReadFile(blk, n) = NoFile
  BY <1>3, NoEntriesNoFiles
<1> QED BY <1>4 DEF Store!Init, Files

(* Every step of ordinary use is a step of the store, or changes no file.   *)
LEMMA StepStores ==
  ASSUME HealthyInv, [HealthyNext]_vars
  PROVE  [Store!Next]_Files
<1>1. HealthyInv'
  BY HealthyStep
<1>2. blk' \in Disks /\ inode_bm' \subseteq InodeIds
  BY <1>1 DEF TypeOK, Disks, HealthyInv
<1>3. ASSUME blk' = blk PROVE [Store!Next]_Files
  BY <1>3 DEF Files
<1>4. ASSUME mounted PROVE Sound(blk, inode_bm, data_bm)
  BY <1>4, MountedKept DEF InOrder
<1>5. ASSUME Mkfs PROVE [Store!Next]_Files
  <2>1. Sound(blk', inode_bm', data_bm') /\ UsedEntries(blk') = {}
    BY <1>2, <1>5, MkfsKeeps DEF InOrder
  <2>2. \A n : Matches(blk', n) = {}
    BY <2>1, SoundMatches
  <2>3. \A n : ReadFile(blk', n) = NoFile
    BY <2>2, NoEntriesNoFiles
  <2>4. Store!Wipe
    BY <2>3 DEF Store!Wipe, Files
  <2> QED BY <2>4 DEF Store!Next
<1>6. CASE Format
  BY <1>5, <1>6 DEF Format
<1>7. CASE Mount
  BY <1>3, <1>5, <1>7 DEF Mount
<1>8. CASE Unmount \/ Kill
  BY <1>3, <1>8 DEF Unmount, Kill, diskVars
<1>9. ASSUME NEW n \in Names, CreateFile(n), \A id \in inode_bm' : InTable(id)
      PROVE  [Store!Next]_Files
  <2>1. inode_bm' \subseteq TableIds /\ Sound(blk, inode_bm, data_bm)
    BY <1>2, <1>4, <1>9, InTableSubset DEF CreateFile
  <2>2. /\ ReadFile(blk, n) = NoFile
        /\ ReadFile(blk', n) \in {NoFile, <<>>}
        /\ \A m \in Names \ {n} : ReadFile(blk', m) = ReadFile(blk, m)
    BY <1>9, <2>1, CreateFileStores
  <2>3. CASE ReadFile(blk', n) = NoFile
    <3>1. \A m \in Names : ReadFile(blk', m) = ReadFile(blk, m)
      BY <2>2, <2>3
    <3>2. Files' = Files
      BY <3>1 DEF Files
    <3> QED BY <3>2
  <2>4. CASE ReadFile(blk', n) = <<>>
    <3>1. Files' = [Files EXCEPT ![n] = <<>>]
      BY <2>2, <2>4, OneFileChanges
    <3>2. Files[n] = NoFile
      BY <2>2 DEF Files
    <3>3. Store!Create(n)
      BY <3>1, <3>2 DEF Store!Create
    <3> QED BY <3>3 DEF Store!Next
  <2> QED BY <2>2, <2>3, <2>4
<1>10. ASSUME NEW n \in Names, DeleteFile(n) PROVE [Store!Next]_Files
  <2>1. Sound(blk, inode_bm, data_bm)
    BY <1>4, <1>10 DEF DeleteFile
  <2>2. /\ ReadFile(blk, n) # NoFile
        /\ ReadFile(blk', n) = NoFile
        /\ \A m \in Names \ {n} : ReadFile(blk', m) = ReadFile(blk, m)
    BY <1>10, <2>1, DeleteFileStores
  <2>3. Files' = [Files EXCEPT ![n] = NoFile]
    BY <2>2, OneFileChanges
  <2>4. Files[n] # NoFile
    BY <2>2 DEF Files
  <2>5. Store!Delete(n)
    BY <2>3, <2>4 DEF Store!Delete
  <2> QED BY <2>5 DEF Store!Next
<1>11. ASSUME NEW n \in Names, NEW c \in Contents, WriteFile(n, c)
       PROVE  [Store!Next]_Files
  <2>1. Sound(blk, inode_bm, data_bm)
    BY <1>4, <1>11 DEF WriteFile
  <2> DEFINE chunks == [k \in DOMAIN c |-> Chunk(c[k])]
  <2>2. /\ ReadFile(blk, n) # NoFile
        /\ ReadFile(blk', n) = chunks
        /\ \A m \in Names \ {n} : ReadFile(blk', m) = ReadFile(blk, m)
    BY <1>11, <2>1, WriteFileStores
  <2>3. chunks \in {[k \in DOMAIN w |-> Chunk(w[k])] : w \in Contents}
    OBVIOUS
  <2> HIDE DEF chunks
  <2>4. Files' = [Files EXCEPT ![n] = chunks]
    BY <2>2, OneFileChanges
  <2>5. Files[n] # NoFile
    BY <2>2 DEF Files
  <2>6. Store!Write(n, chunks)
    BY <2>4, <2>5 DEF Store!Write
  <2> QED BY <2>3, <2>6 DEF Store!Next
<1>12. CASE UNCHANGED vars
  BY <1>3, <1>12 DEF vars, diskVars
<1> QED BY <1>6, <1>7, <1>8, <1>9, <1>10, <1>11, <1>12 DEF HealthyNext, FileNext

(* In ordinary use the commands on disk blocks, bitmaps, inodes and         *)
(* directory entries implement the map from names to contents of FileStore: *)
(* every file reads back as it was last written, whatever other files were  *)
(* created, written or deleted and wherever the disk was unmounted, mounted *)
(* or the process lost.                                                     *)
THEOREM HealthyFilesAreAStore == HealthySpec => FilesAreAStore
<1>1. Init => Store!Init
  BY InitStores
<1>2. HealthyInv /\ [HealthyNext]_vars => [Store!Next]_Files
  BY StepStores
<1> QED BY <1>1, <1>2, HealthyInvariant, PTL DEF HealthySpec, FilesAreAStore, Store!Spec

=============================================================================

-------------------------- MODULE SoundDiskProofs --------------------------
(***************************************************************************)
(* What the file commands do to a sound disk: one on which no data block   *)
(* is reached by two pointers, every block a pointer reaches is allocated, *)
(* and the entries of the root directory name different allocated inodes.  *)
(*                                                                         *)
(* create_file, delete_file and write_file are each taken apart into the   *)
(* writes they make.  For each the module shows that the disk stays sound  *)
(* for the bitmaps the command leaves, and which files it does not touch.  *)
(***************************************************************************)
EXTENDS FileSystemProofs

-----------------------------------------------------------------------------
(* What a command changes of the disk, and what it leaves.                  *)

(* The cells of a block are numbered from 0.                                *)
SlotCount == InodesPerBlock * CellsPerInode
LEMMA SlotNumbers ==
  SlotCount \in Nat /\ Slots = 0 .. SlotCount - 1 /\ Slots \subseteq Nat
<1>1. SlotCount \in Nat /\ Slots = 0 .. SlotCount - 1
  BY Strides DEF Slots, SlotCount
<1> QED BY <1>1

LEMMA TableIdIsId ==
  ASSUME NEW id \in TableIds
  PROVE  /\ id \in InodeIds /\ InodeBlock(id) \in InodeTable
         /\ InodeBlock(id) \in FsBlocks /\ InodeSlot(id) \in Places
         /\ InodeBlock(id) \notin DataBlocks
<1>1. InodeBlock(id) \in InodeTable /\ id \in InodeIds
  BY TableHome
<1>2. InodeTable \cap DataBlocks = {}
  BY GeometryAssumption DEF InodeTable, DataBlocks, DATA_START_BLOCK, INODE_TABLE_START
<1> QED BY <1>1, <1>2, InodeHome

(* Writing an inode of the table changes what is read of that inode only.   *)
LEMMA WriteInodeReads ==
  ASSUME NEW d \in Disks, NEW id \in TableIds, NEW l \in InodeImages
  PROVE  /\ ReadInode(WriteInode(d, id, l), id) = AsInode(l)
         /\ \A j \in TableIds \ {id} : ReadInode(WriteInode(d, id, l), j) = ReadInode(d, j)
         /\ \A b \in DataBlocks : WriteInode(d, id, l)[b] = d[b]
<1>1. DOMAIN d = FsBlocks /\ id \in InodeIds
  BY TableIdIsId DEF Disks
<1>2. ReadInode(WriteInode(d, id, l), id) = AsInode(l)
  BY <1>1, WrittenInode
<1>3. \A j \in TableIds \ {id} : ReadInode(WriteInode(d, id, l), j) = ReadInode(d, j)
  <2> TAKE j \in TableIds \ {id}
  <2>1. j \in InodeIds /\ j # id
    BY TableIdIsId
  <2> QED BY <1>1, <2>1, WrittenInode
<1>4. \A b \in DataBlocks : WriteInode(d, id, l)[b] = d[b]
  <2> TAKE b \in DataBlocks
  <2>1. b \in FsBlocks /\ b # InodeBlock(id)
    BY Regions, TableIdIsId
  <2> QED BY <1>1, <2>1, WrittenElsewhere
<1> QED BY <1>2, <1>3, <1>4

(* A disk whose inode table is the same reads the same inodes.              *)
LEMMA SameTable ==
  ASSUME NEW d, NEW e, \A b \in InodeTable : e[b] = d[b], NEW id \in TableIds
  PROVE  ReadInode(e, id) = ReadInode(d, id)
BY TableIdIsId DEF ReadInode, InodeImage

(* Zeroing data blocks changes no inode of the table.                       *)
LEMMA ZeroBlocksReads ==
  ASSUME NEW d, NEW B \in SUBSET DataBlocks
  PROVE  /\ \A id \in TableIds : ReadInode(ZeroBlocks(d, B), id) = ReadInode(d, id)
         /\ \A b \in FsBlocks \ B : ZeroBlocks(d, B)[b] = d[b]
         /\ \A b \in B : ZeroBlocks(d, B)[b] = ZeroBlock
<1>1. \A b \in FsBlocks : ZeroBlocks(d, B)[b] = IF b \in B THEN ZeroBlock ELSE d[b]
  BY DEF ZeroBlocks
<1>2. B \subseteq FsBlocks /\ InodeTable \subseteq FsBlocks /\ InodeTable \cap B = {}
  BY Regions, GeometryAssumption
     DEF InodeTable, DataBlocks, DATA_START_BLOCK, INODE_TABLE_START
<1>3. \A b \in InodeTable : ZeroBlocks(d, B)[b] = d[b]
  BY <1>1, <1>2
<1> QED BY <1>1, <1>2, <1>3, SameTable

-----------------------------------------------------------------------------
(* What makes a disk sound, part by part.                                  *)

GoodEntries(d, I) ==
  \A p \in UsedEntries(d) : /\ EntryAt(d, p) \in Dirents
                            /\ EntryAt(d, p).id \in I
                            /\ ReadInode(d, EntryAt(d, p).id).type = "REGULAR"
(* A disk with the bitmaps I and B that is consistent.                      *)
Sound(d, I, B) ==
  /\ d \in Disks /\ B \subseteq DataBlocks
  /\ I \subseteq TableIds /\ ROOT_INODE \in I
  /\ Unshared(d) /\ Allocated(d, B) /\ GoodEntries(d, I) /\ Distinct(d)

DirectSite(id, i)  == <<id, <<"direct", i>>>>
PointerSite(id, s) == <<id, <<"pointer", s>>>>
IndirectSite(id)   == <<id, <<"indirect", 0>>>>

(* A site is one of the three kinds of place.                               *)
LEMMA SiteCases ==
  ASSUME NEW r \in Sites
  PROVE  /\ r[1] \in TableIds
         /\ \/ \E i \in DirectIdx : r = DirectSite(r[1], i)
            \/ \E s \in Slots : r = PointerSite(r[1], s)
            \/ r = IndirectSite(r[1])
<1>1. /\ r[1] \in TableIds /\ r = <<r[1], r[2]>>
      /\ \/ r[2] \in {"direct"} \X DirectIdx
         \/ r[2] \in {"pointer"} \X Slots
         \/ r[2] = <<"indirect", 0>>
  BY DEF Sites
<1>2. CASE r[2] \in {"direct"} \X DirectIdx
  <2>1. PICK i \in DirectIdx : r[2] = <<"direct", i>>
    BY <1>2
  <2> QED BY <1>1, <2>1 DEF DirectSite
<1>3. CASE r[2] \in {"pointer"} \X Slots
  <2>1. PICK s \in Slots : r[2] = <<"pointer", s>>
    BY <1>3
  <2> QED BY <1>1, <2>1 DEF PointerSite
<1>4. CASE r[2] = <<"indirect", 0>>
  BY <1>1, <1>4 DEF IndirectSite
<1> QED BY <1>1, <1>2, <1>3, <1>4

(* Places of different kinds are different sites.                           *)
LEMMA SiteOf ==
  ASSUME NEW id \in TableIds
  PROVE  /\ \A i \in DirectIdx : DirectSite(id, i) \in Sites
         /\ \A s \in Slots : PointerSite(id, s) \in Sites
         /\ IndirectSite(id) \in Sites
         /\ \A i \in DirectIdx, s \in Slots, j \in TableIds :
              /\ DirectSite(id, i) # PointerSite(j, s)
              /\ DirectSite(id, i) # IndirectSite(j)
              /\ PointerSite(id, s) # IndirectSite(j)
BY DEF Sites, DirectSite, PointerSite, IndirectSite

(* What each kind of place holds.                                           *)
LEMMA PointerAtSite ==
  ASSUME NEW d, NEW id
  PROVE  /\ \A i \in DirectIdx :
              PointerAt(d, DirectSite(id, i)) = ReadInode(d, id).direct[i]
         /\ \A s : PointerAt(d, PointerSite(id, s)) = PointersOf(d, ReadInode(d, id).ind)[s]
         /\ PointerAt(d, IndirectSite(id)) = ReadInode(d, id).ind
BY DEF PointerAt, ReadInode, AsInode, DirectOf, DirectSite, PointerSite, IndirectSite

-----------------------------------------------------------------------------
(* What a sound disk gives a command that reads it.                        *)

LEMMA SoundInode ==
  ASSUME NEW d, NEW I, NEW B, Sound(d, I, B), NEW id \in TableIds
  PROVE  /\ ReadInode(d, id) \in Inodes
         /\ ReadInode(d, id).direct \in [DirectIdx -> {0} \cup B]
         /\ ReadInode(d, id).ind \in {0} \cup B
         /\ PointersOf(d, ReadInode(d, id).ind) \in [Slots -> {0} \cup B]
<1> DEFINE ino == ReadInode(d, id)
<1>1. ino \in Inodes
  BY TableIdIsId, ReadInodeType DEF Sound
<1>2. \A r \in Sites : PointerAt(d, r) \in {0} \cup B
  BY DEF Sound, Allocated
<1>3. \A i \in DirectIdx : ino.direct[i] \in {0} \cup B
  BY <1>2, SiteOf, PointerAtSite
<1>4. ino.ind \in {0} \cup B
  BY <1>2, SiteOf, PointerAtSite
<1>5. \A s \in Slots : PointersOf(d, ino.ind)[s] \in {0} \cup B
  BY <1>2, SiteOf, PointerAtSite
<1>6. ino.direct \in [DirectIdx -> {0} \cup B]
  <2> HIDE DEF ino
  <2> QED BY <1>1, <1>3 DEF Inodes
<1>7. PointersOf(d, ino.ind) \in [Slots -> {0} \cup B]
  <2>1. PointersOf(d, ino.ind) = [s \in Slots |-> PointersOf(d, ino.ind)[s]]
    BY DEF PointersOf
  <2> QED BY <1>5, <2>1
<1> QED BY <1>1, <1>4, <1>6, <1>7

(* An indirect block that can be read is a data block.                      *)
LEMMA SoundIndirect ==
  ASSUME NEW d, NEW I, NEW B, Sound(d, I, B), NEW id \in TableIds
  PROVE  ReadInode(d, id).ind \in FsBlocks <=> ReadInode(d, id).ind \in DataBlocks
<1>1. ReadInode(d, id).ind \in {0} \cup DataBlocks
  BY SoundInode DEF Sound
<1> QED BY <1>1, Regions

(* No block is reached in two ways.                                         *)
LEMMA SoundApart ==
  ASSUME NEW d, NEW I, NEW B, Sound(d, I, B), NEW id \in TableIds, NEW j \in TableIds
  PROVE  LET ino == ReadInode(d, id)
             jno == ReadInode(d, j)
         IN  /\ \A i \in DirectIdx : ino.direct[i] # 0 =>
                  /\ \A k \in DirectIdx : jno.direct[k] = ino.direct[i] => id = j /\ i = k
                  /\ jno.ind # ino.direct[i]
                  /\ \A s \in Slots : PointersOf(d, jno.ind)[s] # ino.direct[i]
             /\ ino.ind # 0 =>
                  /\ jno.ind = ino.ind => id = j
                  /\ \A s \in Slots : PointersOf(d, jno.ind)[s] # ino.ind
             /\ \A s, t \in Slots :
                  /\ PointersOf(d, ino.ind)[s] # 0
                  /\ PointersOf(d, jno.ind)[t] = PointersOf(d, ino.ind)[s]
                  => id = j /\ s = t
<1> DEFINE ino == ReadInode(d, id)
           jno == ReadInode(d, j)
<1>1. \A r, q \in Sites : PointerAt(d, r) # 0 /\ PointerAt(d, q) = PointerAt(d, r) => q = r
  BY DEF Sound, Unshared
<1>2. ASSUME NEW i \in DirectIdx, ino.direct[i] # 0
      PROVE  /\ \A k \in DirectIdx : jno.direct[k] = ino.direct[i] => id = j /\ i = k
             /\ jno.ind # ino.direct[i]
             /\ \A s \in Slots : PointersOf(d, jno.ind)[s] # ino.direct[i]
  <2>1. DirectSite(id, i) \in Sites /\ PointerAt(d, DirectSite(id, i)) = ino.direct[i]
    BY SiteOf, PointerAtSite
  <2>2. ASSUME NEW k \in DirectIdx, jno.direct[k] = ino.direct[i]
        PROVE  id = j /\ i = k
    <3>1. DirectSite(j, k) \in Sites /\ PointerAt(d, DirectSite(j, k)) = jno.direct[k]
      BY SiteOf, PointerAtSite
    <3>2. DirectSite(j, k) = DirectSite(id, i)
      BY <1>1, <1>2, <2>1, <2>2, <3>1
    <3> QED BY <3>2 DEF DirectSite
  <2>3. jno.ind # ino.direct[i]
    <3>1. IndirectSite(j) \in Sites /\ PointerAt(d, IndirectSite(j)) = jno.ind
      BY SiteOf, PointerAtSite
    <3>2. IndirectSite(j) # DirectSite(id, i)
      BY DEF IndirectSite, DirectSite
    <3> HIDE DEF ino, jno
    <3> QED BY <1>1, <1>2, <2>1, <3>1, <3>2
  <2>4. \A s \in Slots : PointersOf(d, jno.ind)[s] # ino.direct[i]
    <3>1. \A s \in Slots : PointerSite(j, s) \in Sites
                           /\ PointerAt(d, PointerSite(j, s)) = PointersOf(d, jno.ind)[s]
      BY SiteOf, PointerAtSite
    <3> QED BY <1>1, <1>2, <2>1, <3>1, SiteOf
  <2> QED BY <2>2, <2>3, <2>4
<1>3. ASSUME ino.ind # 0
      PROVE  /\ jno.ind = ino.ind => id = j
             /\ \A s \in Slots : PointersOf(d, jno.ind)[s] # ino.ind
  <2>1. IndirectSite(id) \in Sites /\ PointerAt(d, IndirectSite(id)) = ino.ind
    BY SiteOf, PointerAtSite
  <2>2. IndirectSite(j) \in Sites /\ PointerAt(d, IndirectSite(j)) = jno.ind
    BY SiteOf, PointerAtSite
  <2>3. jno.ind = ino.ind => IndirectSite(j) = IndirectSite(id)
    BY <1>1, <1>3, <2>1, <2>2
  <2>4. \A s \in Slots : PointerSite(j, s) \in Sites
                         /\ PointerAt(d, PointerSite(j, s)) = PointersOf(d, jno.ind)[s]
    BY SiteOf, PointerAtSite
  <2>5. \A s \in Slots : PointersOf(d, jno.ind)[s] # ino.ind
    <3>1. \A s \in Slots : PointerSite(j, s) # IndirectSite(id)
      BY DEF PointerSite, IndirectSite
    <3> HIDE DEF ino, jno
    <3> QED BY <1>1, <1>3, <2>1, <2>4, <3>1
  <2> QED BY <2>3, <2>5 DEF IndirectSite
<1>4. ASSUME NEW s \in Slots, NEW t \in Slots, PointersOf(d, ino.ind)[s] # 0,
             PointersOf(d, jno.ind)[t] = PointersOf(d, ino.ind)[s]
      PROVE  id = j /\ s = t
  <2>1. /\ PointerSite(id, s) \in Sites
        /\ PointerAt(d, PointerSite(id, s)) = PointersOf(d, ino.ind)[s]
    BY SiteOf, PointerAtSite
  <2>2. /\ PointerSite(j, t) \in Sites
        /\ PointerAt(d, PointerSite(j, t)) = PointersOf(d, jno.ind)[t]
    BY SiteOf, PointerAtSite
  <2>3. PointerSite(j, t) = PointerSite(id, s)
    BY <1>1, <1>4, <2>1, <2>2
  <2> QED BY <2>3 DEF PointerSite
<1> HIDE DEF ino, jno
<1>5. \A s, t \in Slots :
        /\ PointersOf(d, ino.ind)[s] # 0
        /\ PointersOf(d, jno.ind)[t] = PointersOf(d, ino.ind)[s]
        => id = j /\ s = t
  BY <1>4
<1> QED BY <1>2, <1>3, <1>5 DEF ino, jno

(* The root directory of a sound disk can be searched.                      *)
LEMMA SoundRoot ==
  ASSUME NEW d, NEW I, NEW B, Sound(d, I, B)
  PROVE  /\ ROOT_INODE \in TableIds /\ RootReadable(d)
         /\ DirOf(d) \in [DirectIdx -> {0} \cup B]
<1>1. ROOT_INODE \in TableIds /\ B \subseteq DataBlocks
  BY DEF Sound
<1>2. DirOf(d) \in [DirectIdx -> {0} \cup B]
  BY <1>1, SoundInode, DirOfRoot
<1> QED BY <1>1, <1>2, Regions DEF RootReadable

(* The entries find_in_root can find for a name are the used ones with that *)
(* name, and there is at most one.                                          *)
LEMMA SoundMatches ==
  ASSUME NEW d, NEW I, NEW B, Sound(d, I, B), NEW n
  PROVE  /\ Matches(d, n) = {p \in UsedEntries(d) : EntryAt(d, p).name = n}
         /\ \A p, q \in Matches(d, n) : p = q
         /\ FirstOf(Matches(d, n)) = Matches(d, n)
<1>1. \A p \in UsedEntries(d) : EntryAt(d, p).kind = "dirent" /\ EntryAt(d, p).id # 0
  <2> SUFFICES ASSUME NEW p \in UsedEntries(d)
               PROVE  EntryAt(d, p).kind = "dirent" /\ EntryAt(d, p).id # 0
    OBVIOUS
  <2>1. EntryAt(d, p) \in Dirents
    BY DEF Sound, GoodEntries
  <2>2. EntryAt(d, p).kind = "dirent"
    BY <2>1 DEF Dirents
  <2>3. EntryUsed(EntryAt(d, p))
    BY DEF UsedEntries
  <2> QED BY <2>2, <2>3 DEF EntryUsed
<1>2. \A p \in DirectIdx \X Slots :
        EntryAt(d, p).kind = "dirent" /\ EntryAt(d, p).id # 0 => EntryUsed(EntryAt(d, p))
  BY DEF EntryUsed
<1>3. Matches(d, n) = {p \in UsedEntries(d) : EntryAt(d, p).name = n}
  BY <1>1, <1>2 DEF Matches, UsedEntries, EntryAt
<1>4. \A p, q \in Matches(d, n) : p = q
  BY <1>3 DEF Sound, Distinct
<1>5. \A p \in Matches(d, n) : Precedes(p, p)
  <2>1. \A p \in Matches(d, n) : p[2] \in Nat
    BY SlotNumbers DEF Matches
  <2> QED BY <2>1 DEF Precedes
<1>6. FirstOf(Matches(d, n)) = Matches(d, n)
  BY <1>4, <1>5 DEF FirstOf
<1> QED BY <1>3, <1>4, <1>6

(* The inode a command finds for a name.                                    *)
LEMMA SoundName ==
  ASSUME NEW I, NEW B, Sound(blk, I, B), NEW n, NEW id \in IdsOf(n)
  PROVE  /\ id \in I /\ id \in TableIds /\ id \in InodeIds /\ id # ROOT_INODE
         /\ ReadInode(blk, id).type = "REGULAR"
         /\ \E p \in Matches(blk, n) : /\ p \in UsedEntries(blk)
                                       /\ EntryAt(blk, p).id = id
                                       /\ EntryAt(blk, p).name = n
<1>1. PICK p \in Matches(blk, n) : EntryAt(blk, p).id = id
  BY SoundRoot, SoundMatches DEF IdsOf
<1>2. p \in UsedEntries(blk) /\ EntryAt(blk, p).name = n
  BY SoundMatches
<1>3. id \in I /\ ReadInode(blk, id).type = "REGULAR" /\ I \subseteq TableIds
  BY <1>1, <1>2 DEF Sound, GoodEntries
<1>4. id # ROOT_INODE
  BY <1>1 DEF Matches, EntryAt, ROOT_INODE
<1> QED BY <1>1, <1>2, <1>3, <1>4, TableIdIsId

-----------------------------------------------------------------------------
(* What a command leaves alone.                                            *)

(* An inode that is the same, with an indirect block that is the same, has  *)
(* the same pointers.                                                       *)
LEMMA SameSites ==
  ASSUME NEW d, NEW e, NEW id \in TableIds, ReadInode(e, id) = ReadInode(d, id),
         ReadInode(d, id).ind \in FsBlocks =>
           e[ReadInode(d, id).ind] = d[ReadInode(d, id).ind]
  PROVE  /\ PointersOf(e, ReadInode(d, id).ind) = PointersOf(d, ReadInode(d, id).ind)
         /\ \A r \in Sites : r[1] = id => PointerAt(e, r) = PointerAt(d, r)
<1> DEFINE ino == ReadInode(d, id)
<1>1. PointersOf(e, ino.ind) = PointersOf(d, ino.ind)
  BY DEF PointersOf
<1>2. ASSUME NEW r \in Sites, r[1] = id PROVE PointerAt(e, r) = PointerAt(d, r)
  BY <1>1, <1>2, PointerAtRead
<1> QED BY <1>1, <1>2

(* A directory whose blocks are the same has the same entries.              *)
LEMMA SameDirectory ==
  ASSUME NEW d, NEW e, DirOf(e) = DirOf(d),
         \A i \in DirectIdx : DirOf(d)[i] # 0 => e[DirOf(d)[i]] = d[DirOf(d)[i]]
  PROVE  /\ UsedEntries(e) = UsedEntries(d)
         /\ \A p \in UsedEntries(d) : EntryAt(e, p) = EntryAt(d, p)
         /\ \A n : Matches(e, n) = Matches(d, n)
<1>1. \A p \in DirectIdx \X Slots :
        DirOf(d)[p[1]] # 0 => EntryAt(e, p) = EntryAt(d, p)
  BY DEF EntryAt
<1> HIDE DEF DirOf
<1>2. UsedEntries(e) = UsedEntries(d)
  BY <1>1 DEF UsedEntries
<1>3. \A p \in UsedEntries(d) : EntryAt(e, p) = EntryAt(d, p)
  BY <1>1 DEF UsedEntries
<1>4. \A n : Matches(e, n) = Matches(d, n)
  <2>1. \A x, n : Matches(x, n)
          = {p \in DirectIdx \X Slots :
               /\ DirOf(x)[p[1]] # 0
               /\ EntryAt(x, p).kind = "dirent" /\ EntryAt(x, p).id # 0
               /\ EntryAt(x, p).name = n}
    BY DEF Matches, EntryAt
  <2> QED BY <1>1, <2>1
<1> QED BY <1>2, <1>3, <1>4

(* Pointers that are kept or fresh are unshared when they were.             *)
LEMMA StaysUnshared ==
  ASSUME NEW d, NEW e, NEW Fresh, Unshared(d),
         \A r \in Sites : \/ PointerAt(e, r) = 0
                          \/ PointerAt(e, r) \in Fresh
                          \/ PointerAt(e, r) = PointerAt(d, r) /\ PointerAt(e, r) \notin Fresh,
         \A r, q \in Sites : PointerAt(e, r) \in Fresh /\ PointerAt(e, q) = PointerAt(e, r)
                             => q = r
  PROVE  Unshared(e)
BY Zenon DEF Unshared

-----------------------------------------------------------------------------
(* Freeing.                                                                *)

(* Freeing pointers that are all in range frees every one that is not null. *)
LEMMA FreesAll ==
  ASSUME NEW I, NEW g \in [I -> {0} \cup DataBlocks]
  PROVE  /\ Intact(g)
         /\ Reached(g) = {i \in I : g[i] # 0}
         /\ FreedBy(g) = {g[i] : i \in I} \ {0}
         /\ FreedBy(g) \subseteq DataBlocks
<1>1. \A i \in I : g[i] \in Freeable
  BY DEF Freeable
<1>2. Reached(g) = {i \in I : g[i] # 0}
  BY <1>1 DEF Reached
<1>3. FreedBy(g) = {g[i] : i \in I} \ {0}
  BY <1>2 DEF FreedBy
<1>4. FreedBy(g) \subseteq DataBlocks
  BY <1>2 DEF FreedBy
<1> QED BY <1>1, <1>2, <1>3, <1>4 DEF Intact

(* As many different values as arguments.                                   *)
LEMMA InjectiveCount ==
  ASSUME NEW S, IsFiniteSet(S), NEW g, \A x, y \in S : g[x] = g[y] => x = y
  PROVE  IsFiniteSet({g[x] : x \in S}) /\ Count({g[x] : x \in S}) = Count(S)
<1> DEFINE T == {g[x] : x \in S}
           f == [x \in S |-> g[x]]
<1>1. f \in Bijection(S, T)
  BY DEF Bijection, Injection, Surjection, IsInjective
<1>2. ExistsBijection(S, T)
  BY <1>1 DEF ExistsBijection
<1> HIDE DEF T
<1>3. IsFiniteSet(T) /\ Cardinality(T) = Cardinality(S)
  BY <1>2, FS_Bijection
<1> QED BY <1>3 DEF T, Count

(* The blocks freed are as many as the pointers, when no two share one.     *)
LEMMA FreesOnce ==
  ASSUME NEW m \in Nat, NEW g \in [0 .. m - 1 -> {0} \cup DataBlocks],
         \A i, k \in 0 .. m - 1 : g[i] # 0 /\ g[k] = g[i] => i = k
  PROVE  FreedCount(g) = Count(FreedBy(g)) /\ IsFiniteSet(FreedBy(g))
<1>1. Reached(g) = {i \in 0 .. m - 1 : g[i] # 0}
  BY FreesAll
<1>2. IsFiniteSet(Reached(g))
  <2>1. IsFiniteSet(0 .. m - 1)
    BY FS_Interval
  <2> QED BY <1>1, <2>1, FS_Subset
<1>3. \A x, y \in Reached(g) : g[x] = g[y] => x = y
  BY <1>1
<1> QED BY <1>2, <1>3, InjectiveCount DEF FreedCount, FreedBy

(* Sets of data blocks are finite, and disjoint ones add up.                *)
LEMMA DataFinite ==
  /\ IsFiniteSet(DataBlocks)
  /\ \A S \in SUBSET DataBlocks :
       IsFiniteSet(S) /\ Count(S) \in Nat /\ Count(S) <= Count(DataBlocks)
  /\ \A S \in SUBSET DataBlocks, T \in SUBSET DataBlocks :
       S \cap T = {} => Count(S \cup T) = Count(S) + Count(T)
<1>1. IsFiniteSet(DataBlocks)
  BY FS_Interval, Regions DEF DataBlocks
<1>2. \A S \in SUBSET DataBlocks : IsFiniteSet(S)
  BY <1>1, FS_Subset
<1>3. ASSUME NEW S \in SUBSET DataBlocks, NEW T \in SUBSET DataBlocks, S \cap T = {}
      PROVE  Count(S \cup T) = Count(S) + Count(T)
  <2>1. Cardinality(S \cup T) = Cardinality(S) + Cardinality(T) - Cardinality(S \cap T)
    BY <1>2, FS_Union
  <2>2. Cardinality(S \cap T) = 0
    BY <1>3, FS_EmptySet
  <2>3. Cardinality(S) \in Nat /\ Cardinality(T) \in Nat
    BY <1>2, FS_CardinalityType
  <2> QED BY <2>1, <2>2, <2>3 DEF Count
<1> QED BY <1>1, <1>2, <1>3, CountBlocks

-----------------------------------------------------------------------------
(* delete_file.                                                            *)

(* The blocks the pointers of an inode reach.                               *)
Owned(d, id) ==
  LET ino == ReadInode(d, id)
  IN  FreedBy(ino.direct) \cup FreedBy(PointersOf(d, ino.ind)) \cup ({ino.ind} \ {0})

(* What a file owns is allocated, and freeing it reaches every pointer.     *)
LEMMA OwnedAreAllocated ==
  ASSUME NEW d, NEW I, NEW B, Sound(d, I, B), NEW id \in TableIds
  PROVE  LET ino == ReadInode(d, id)
             ptr == PointersOf(d, ino.ind)
         IN  /\ Owned(d, id) \subseteq B
             /\ Intact(ino.direct) /\ Intact(ptr)
             /\ \A i \in DirectIdx : ino.direct[i] = 0 \/ ino.direct[i] \in FreedBy(ino.direct)
             /\ \A s \in Slots : ptr[s] = 0 \/ ptr[s] \in FreedBy(ptr)
             /\ FreedBy(ino.direct) \subseteq {ino.direct[i] : i \in DirectIdx} \ {0}
             /\ FreedBy(ptr) \subseteq {ptr[s] : s \in Slots} \ {0}
<1> DEFINE ino == ReadInode(d, id)
           ptr == PointersOf(d, ino.ind)
<1>1. /\ ino.direct \in [DirectIdx -> {0} \cup B]
      /\ ino.ind \in {0} \cup B
      /\ ptr \in [Slots -> {0} \cup B]
      /\ B \subseteq DataBlocks
  BY SoundInode DEF Sound
<1> DEFINE g == ino.direct
<1>2. Owned(d, id) = FreedBy(g) \cup FreedBy(ptr) \cup ({ino.ind} \ {0})
  BY DEF Owned
<1> HIDE DEF g, ptr
<1>3. g \in [DirectIdx -> {0} \cup DataBlocks] /\ ptr \in [Slots -> {0} \cup DataBlocks]
      /\ g \in [DirectIdx -> {0} \cup B]
  BY <1>1 DEF g
<1>4. Intact(g) /\ FreedBy(g) = {g[i] : i \in DirectIdx} \ {0}
  BY <1>3, FreesAll
<1>5. Intact(ptr) /\ FreedBy(ptr) = {ptr[s] : s \in Slots} \ {0}
  BY <1>3, FreesAll
<1>6. Owned(d, id) \subseteq B
  BY <1>1, <1>2, <1>3, <1>4, <1>5
<1>7. /\ \A i \in DirectIdx : g[i] = 0 \/ g[i] \in FreedBy(g)
      /\ \A s \in Slots : ptr[s] = 0 \/ ptr[s] \in FreedBy(ptr)
      /\ FreedBy(g) \subseteq {g[i] : i \in DirectIdx} \ {0}
      /\ FreedBy(ptr) \subseteq {ptr[s] : s \in Slots} \ {0}
  BY <1>4, <1>5
<1> QED BY <1>4, <1>5, <1>6, <1>7 DEF g, ptr

(* No other inode's pointer reaches them.                                   *)
LEMMA OwnedApart ==
  ASSUME NEW d, NEW I, NEW B, Sound(d, I, B), NEW id \in TableIds,
         NEW r \in Sites, r[1] # id
  PROVE  PointerAt(d, r) \notin Owned(d, id)
<1> DEFINE ino == ReadInode(d, id)
           ptr == PointersOf(d, ino.ind)
<1>1. \A q, t \in Sites : PointerAt(d, q) # 0 /\ PointerAt(d, t) = PointerAt(d, q) => t = q
  BY DEF Sound, Unshared
<1>2. /\ FreedBy(ino.direct) \subseteq {ino.direct[i] : i \in DirectIdx} \ {0}
      /\ FreedBy(ptr) \subseteq {ptr[s] : s \in Slots} \ {0}
  BY OwnedAreAllocated
<1>3. /\ \A i \in DirectIdx : DirectSite(id, i) \in Sites /\ DirectSite(id, i) # r
                              /\ PointerAt(d, DirectSite(id, i)) = ino.direct[i]
      /\ \A s \in Slots : PointerSite(id, s) \in Sites /\ PointerSite(id, s) # r
                          /\ PointerAt(d, PointerSite(id, s)) = ptr[s]
      /\ IndirectSite(id) \in Sites /\ IndirectSite(id) # r
      /\ PointerAt(d, IndirectSite(id)) = ino.ind
  <2>1. /\ \A i \in DirectIdx : DirectSite(id, i) # r
        /\ \A s \in Slots : PointerSite(id, s) # r
        /\ IndirectSite(id) # r
    BY DEF DirectSite, PointerSite, IndirectSite
  <2> QED BY <2>1, SiteOf, PointerAtSite
<1>4. Owned(d, id) = FreedBy(ino.direct) \cup FreedBy(ptr) \cup ({ino.ind} \ {0})
  BY DEF Owned
<1> HIDE DEF ino, ptr
<1> QED BY <1>1, <1>2, <1>3, <1>4

(* What remove_from_root changes: the cell of the first entry for the name. *)
LEMMA RemoveReads ==
  ASSUME NEW d \in Disks, NEW n,
         \A i \in DirectIdx : DirOf(d)[i] \in {0} \cup DataBlocks
  PROVE  LET e == RemoveFromRoot(d, n)
         IN  /\ \A j \in TableIds : ReadInode(e, j) = ReadInode(d, j)
             /\ \A b \in FsBlocks :
                  (\A i \in DirectIdx : DirOf(d)[i] # b) => e[b] = d[b]
             /\ \A p \in DirectIdx \X Slots : DirOf(d)[p[1]] # 0 =>
                  e[DirOf(d)[p[1]]][p[2]] =
                    IF \E q \in FirstOf(Matches(d, n)) :
                         DirOf(d)[q[1]] = DirOf(d)[p[1]] /\ q[2] = p[2]
                    THEN ZeroCell ELSE EntryAt(d, p)
<1> DEFINE e == RemoveFromRoot(d, n)
           Hit(b, s) == \E q \in FirstOf(Matches(d, n)) : DirOf(d)[q[1]] = b /\ q[2] = s
<1>1. \A b \in FsBlocks, s \in Slots : e[b][s] = IF Hit(b, s) THEN ZeroCell ELSE d[b][s]
  BY DEF RemoveFromRoot
<1>2. \A q \in FirstOf(Matches(d, n)) : q[1] \in DirectIdx /\ q[2] \in Slots
                                        /\ DirOf(d)[q[1]] # 0
  BY DEF FirstOf, Matches
<1>3. e \in Disks
  BY RemoveFromRootType
<1>4. ASSUME NEW b \in FsBlocks, \A i \in DirectIdx : DirOf(d)[i] # b
      PROVE  e[b] = d[b]
  <2>1. \A s \in Slots : ~ Hit(b, s)
    BY <1>2, <1>4
  <2>2. \A s \in Slots : e[b][s] = d[b][s]
    BY <1>1, <2>1
  <2>3. e[b] \in BlockImages /\ d[b] \in BlockImages
    BY <1>3 DEF Disks
  <2> HIDE DEF e
  <2> QED BY <2>2, <2>3 DEF BlockImages
<1>5. ASSUME NEW j \in TableIds
      PROVE  ReadInode(e, j) = ReadInode(d, j)
  <2>1. InodeBlock(j) \in FsBlocks /\ InodeBlock(j) \notin DataBlocks /\ InodeBlock(j) # 0
    BY TableIdIsId, GeometryAssumption DEF FsBlocks, INODE_TABLE_START
  <2>2. \A i \in DirectIdx : DirOf(d)[i] # InodeBlock(j)
    BY <2>1
  <2>3. e[InodeBlock(j)] = d[InodeBlock(j)]
    BY <1>4, <2>1, <2>2
  <2> QED BY <2>3 DEF ReadInode, InodeImage
<1>6. ASSUME NEW p \in DirectIdx \X Slots, DirOf(d)[p[1]] # 0
      PROVE  e[DirOf(d)[p[1]]][p[2]] =
               IF Hit(DirOf(d)[p[1]], p[2]) THEN ZeroCell ELSE EntryAt(d, p)
  <2>1. DirOf(d)[p[1]] \in FsBlocks /\ p[2] \in Slots
    BY <1>6, Regions
  <2> QED BY <1>1, <2>1 DEF EntryAt
<1> HIDE DEF e
<1> QED BY <1>4, <1>5, <1>6 DEF e

(* The disk after delete_file of the file with the given inode.             *)
Deleted(d, id, n) ==
  RemoveFromRoot(WriteInode(ZeroBlocks(d, Owned(d, id)), id, BlankInode), n)

(* What delete_file changes: the inode, its blocks and the entries for the  *)
(* name.                                                                    *)
LEMMA DeletedReads ==
  ASSUME NEW d, NEW I, NEW B, Sound(d, I, B), NEW n, NEW id \in TableIds \ {ROOT_INODE}
  PROVE  LET e == Deleted(d, id, n)
         IN  /\ e \in Disks
             /\ ReadInode(e, id) = NewInode("NONE")
             /\ \A j \in TableIds \ {id} : ReadInode(e, j) = ReadInode(d, j)
             /\ DirOf(e) = DirOf(d)
             /\ \A b \in DataBlocks :
                  b \notin Owned(d, id) /\ (\A i \in DirectIdx : DirOf(d)[i] # b)
                  => e[b] = d[b]
             /\ UsedEntries(e) = UsedEntries(d) \ Matches(d, n)
             /\ \A p \in UsedEntries(e) : EntryAt(e, p) = EntryAt(d, p)
<1> DEFINE F  == Owned(d, id)
           d1 == ZeroBlocks(d, F)
           d2 == WriteInode(d1, id, BlankInode)
           e  == RemoveFromRoot(d2, n)
<1>1. /\ d \in Disks /\ F \in SUBSET DataBlocks /\ BlankInode \in InodeImages
      /\ ROOT_INODE \in TableIds /\ id \in TableIds
  BY OwnedAreAllocated, BlankInodeType DEF Sound
<1> HIDE DEF F
<1>2. /\ d1 \in Disks /\ \A j \in TableIds : ReadInode(d1, j) = ReadInode(d, j)
      /\ \A b \in FsBlocks \ F : d1[b] = d[b]
  BY <1>1, ZeroBlocksType, ZeroBlocksReads
<1> HIDE DEF d1
<1>3. /\ d2 \in Disks /\ ReadInode(d2, id) = NewInode("NONE")
      /\ \A j \in TableIds \ {id} : ReadInode(d2, j) = ReadInode(d, j)
      /\ \A b \in DataBlocks : d2[b] = d1[b]
  BY <1>1, <1>2, WriteInodeReads, WriteInodeType, BlankInodeType
<1>4. \A b \in DataBlocks \ F : d2[b] = d[b]
  BY <1>2, <1>3, Regions
<1> HIDE DEF d2
<1>5. DirOf(d2) = DirOf(d)
  BY <1>1, <1>3, DirOfRoot
<1>6. DirOf(d) \in [DirectIdx -> {0} \cup B] /\ B \subseteq DataBlocks
  BY SoundRoot DEF Sound
<1>7. \A i \in DirectIdx : DirOf(d)[i] # 0 => DirOf(d)[i] \notin F
  <2>1. \A i \in DirectIdx : DirectSite(ROOT_INODE, i) \in Sites
                             /\ PointerAt(d, DirectSite(ROOT_INODE, i)) = DirOf(d)[i]
                             /\ DirectSite(ROOT_INODE, i)[1] # id
    BY <1>1, SiteOf, PointerAtSite, DirOfRoot DEF DirectSite
  <2> QED BY <2>1, OwnedApart DEF F
<1>8. \A i \in DirectIdx : DirOf(d)[i] # 0 => d2[DirOf(d)[i]] = d[DirOf(d)[i]]
  BY <1>4, <1>6, <1>7
<1>9. /\ UsedEntries(d2) = UsedEntries(d)
      /\ \A p \in UsedEntries(d) : EntryAt(d2, p) = EntryAt(d, p)
      /\ Matches(d2, n) = Matches(d, n)
  BY <1>5, <1>8, SameDirectory
<1>10. e \in Disks
  BY <1>3, RemoveFromRootType
<1>11. /\ \A j \in TableIds : ReadInode(e, j) = ReadInode(d2, j)
       /\ \A b \in FsBlocks : (\A i \in DirectIdx : DirOf(d)[i] # b) => e[b] = d2[b]
       /\ \A p \in DirectIdx \X Slots : DirOf(d)[p[1]] # 0 =>
            e[DirOf(d)[p[1]]][p[2]] =
              IF \E q \in FirstOf(Matches(d2, n)) :
                   DirOf(d)[q[1]] = DirOf(d)[p[1]] /\ q[2] = p[2]
              THEN ZeroCell ELSE EntryAt(d2, p)
  <2>1. \A i \in DirectIdx : DirOf(d2)[i] \in {0} \cup DataBlocks
    BY <1>5, <1>6
  <2> QED BY <1>3, <1>5, <2>1, RemoveReads
<1> HIDE DEF e
<1>12. DirOf(e) = DirOf(d)
  BY <1>1, <1>5, <1>11, DirOfRoot
<1>13. ReadInode(e, id) = NewInode("NONE")
  BY <1>1, <1>3, <1>11
<1>14. \A j \in TableIds \ {id} : ReadInode(e, j) = ReadInode(d, j)
  BY <1>3, <1>11
<1>15. \A b \in DataBlocks \ F : (\A i \in DirectIdx : DirOf(d)[i] # b) => e[b] = d[b]
  BY <1>4, <1>11, Regions
<1>16. FirstOf(Matches(d2, n)) = Matches(d, n) /\ Matches(d, n) \subseteq UsedEntries(d)
  BY <1>9, SoundMatches
<1>17. ASSUME NEW p \in DirectIdx \X Slots, DirOf(d)[p[1]] # 0
       PROVE  EntryAt(e, p) = IF p \in Matches(d, n) THEN ZeroCell ELSE EntryAt(d2, p)
  <2>1. \A q \in Matches(d, n) :
          DirOf(d)[q[1]] = DirOf(d)[p[1]] /\ q[2] = p[2] => q = p
    <3>1. \A q \in Matches(d, n) : q \in DirectIdx \X Slots
      BY DEF Matches
    <3>2. \A i, k \in DirectIdx : DirOf(d)[i] # 0 /\ DirOf(d)[k] = DirOf(d)[i] => i = k
      BY <1>1, SoundApart, DirOfRoot
    <3> QED BY <1>17, <3>1, <3>2
  <2>2. EntryAt(e, p) = e[DirOf(d)[p[1]]][p[2]]
    BY <1>12 DEF EntryAt
  <2> QED BY <1>11, <1>16, <1>17, <2>1, <2>2
<1>18. ~ EntryUsed(ZeroCell)
  BY DEF EntryUsed, ZeroCell
<1>19. /\ UsedEntries(e) = UsedEntries(d) \ Matches(d, n)
       /\ \A p \in UsedEntries(e) : EntryAt(e, p) = EntryAt(d, p)
  <2>1. ASSUME NEW p \in UsedEntries(e)
        PROVE  p \in UsedEntries(d) \ Matches(d, n) /\ EntryAt(e, p) = EntryAt(d, p)
    <3>1. p \in DirectIdx \X Slots /\ DirOf(d)[p[1]] # 0 /\ EntryUsed(EntryAt(e, p))
      BY <1>12 DEF UsedEntries
    <3>2. p \notin Matches(d, n) /\ EntryAt(e, p) = EntryAt(d2, p)
      BY <1>17, <1>18, <3>1
    <3>3. p \in UsedEntries(d2)
      BY <1>5, <3>1, <3>2 DEF UsedEntries
    <3> QED BY <1>9, <3>2, <3>3
  <2>2. ASSUME NEW p \in UsedEntries(d), p \notin Matches(d, n)
        PROVE  p \in UsedEntries(e)
    <3>1. p \in DirectIdx \X Slots /\ DirOf(d)[p[1]] # 0 /\ EntryUsed(EntryAt(d, p))
      BY DEF UsedEntries
    <3>2. EntryAt(e, p) = EntryAt(d, p)
      BY <1>9, <1>17, <2>2, <3>1
    <3> QED BY <1>12, <3>1, <3>2 DEF UsedEntries
  <2> QED BY <2>1, <2>2
<1> QED BY <1>10, <1>12, <1>13, <1>14, <1>15, <1>19 DEF e, d2, d1, F, Deleted

(* delete_file keeps the disk sound.                                        *)
LEMMA DeletedSound ==
  ASSUME NEW d, NEW I, NEW B, Sound(d, I, B), NEW n, NEW id \in TableIds \ {ROOT_INODE},
         \E p \in Matches(d, n) : EntryAt(d, p).id = id
  PROVE  Sound(Deleted(d, id, n), I \ {id}, B \ Owned(d, id))
<1> DEFINE e == Deleted(d, id, n)
           F == Owned(d, id)
<1>1. /\ e \in Disks
      /\ ReadInode(e, id) = NewInode("NONE")
      /\ \A j \in TableIds \ {id} : ReadInode(e, j) = ReadInode(d, j)
      /\ DirOf(e) = DirOf(d)
      /\ \A b \in DataBlocks :
           b \notin F /\ (\A i \in DirectIdx : DirOf(d)[i] # b) => e[b] = d[b]
      /\ UsedEntries(e) = UsedEntries(d) \ Matches(d, n)
      /\ \A p \in UsedEntries(e) : EntryAt(e, p) = EntryAt(d, p)
  BY DeletedReads
<1>2. /\ d \in Disks /\ B \subseteq DataBlocks /\ I \subseteq TableIds /\ ROOT_INODE \in I
      /\ Unshared(d) /\ Allocated(d, B)
      /\ GoodEntries(d, I) /\ Distinct(d)
  BY DEF Sound
<1> HIDE DEF e, F
<1>3. ASSUME NEW r \in Sites, r[1] = id
      PROVE  PointerAt(e, r) = 0
  <2>1. /\ \A i \in DirectIdx : ReadInode(e, id).direct[i] = 0
        /\ ReadInode(e, id).ind = 0
    BY <1>1 DEF NewInode
  <2>2. \A s \in Slots : PointersOf(e, ReadInode(e, id).ind)[s] = 0
    BY <2>1, Regions DEF PointersOf
  <2>3. \/ \E i \in DirectIdx : r = DirectSite(id, i)
        \/ \E s \in Slots : r = PointerSite(id, s)
        \/ r = IndirectSite(id)
    BY <1>3, SiteCases
  <2> QED BY <2>1, <2>2, <2>3, PointerAtSite
<1>4. ASSUME NEW r \in Sites, r[1] # id
      PROVE  PointerAt(e, r) = PointerAt(d, r) /\ PointerAt(d, r) \notin F
  <2> DEFINE j   == r[1]
             jno == ReadInode(d, j)
  <2>1. j \in TableIds \ {id}
    BY <1>4, SiteCases
  <2>2. IndirectSite(j) \in Sites /\ PointerAt(d, IndirectSite(j)) = jno.ind
        /\ IndirectSite(j)[1] # id
    BY <1>4, <2>1, SiteOf, PointerAtSite DEF IndirectSite
  <2>3. jno.ind \notin F
    BY <2>2, OwnedApart DEF F
  <2>4. \A i \in DirectIdx : DirOf(d)[i] # 0 => jno.ind # DirOf(d)[i]
    BY <1>2, <2>1, SoundApart, DirOfRoot
  <2>5. jno.ind \in FsBlocks => e[jno.ind] = d[jno.ind]
    BY <1>1, <2>1, <2>3, <2>4, Regions, SoundIndirect
  <2>6. PointerAt(e, r) = PointerAt(d, r)
    <3>1. j \in TableIds /\ ReadInode(e, j) = ReadInode(d, j)
      BY <1>1, <2>1
    <3> HIDE DEF j
    <3>2. \A q \in Sites : q[1] = j => PointerAt(e, q) = PointerAt(d, q)
      BY <2>5, <3>1, SameSites
    <3> QED BY <3>2 DEF j
  <2>7. PointerAt(d, r) \notin F
    BY <1>4, OwnedApart DEF F
  <2> QED BY <2>6, <2>7
<1>5. Unshared(e)
  BY <1>2, <1>3, <1>4 DEF Unshared
<1>6. Allocated(e, B \ F)
  <2>1. \A r \in Sites : r[1] = id \/ PointerAt(d, r) \in {0} \cup B
    BY <1>2 DEF Allocated
  <2> QED BY <1>3, <1>4, <2>1 DEF Allocated
<1>7. GoodEntries(e, I \ {id})
  <2> SUFFICES ASSUME NEW p \in UsedEntries(e)
               PROVE  /\ EntryAt(e, p) \in Dirents
                      /\ EntryAt(e, p).id \in I \ {id}
                      /\ ReadInode(e, EntryAt(e, p).id).type = "REGULAR"
    BY DEF GoodEntries
  <2>1. p \in UsedEntries(d) /\ p \notin Matches(d, n) /\ EntryAt(e, p) = EntryAt(d, p)
    BY <1>1
  <2>2. /\ EntryAt(d, p) \in Dirents /\ EntryAt(d, p).id \in I
        /\ ReadInode(d, EntryAt(d, p).id).type = "REGULAR"
    BY <1>2, <2>1 DEF GoodEntries
  <2>3. EntryAt(d, p).id # id
    <3>1. PICK q \in Matches(d, n) : EntryAt(d, q).id = id
      OBVIOUS
    <3>2. q \in UsedEntries(d)
      BY SoundMatches
    <3> QED BY <1>2, <2>1, <3>1, <3>2 DEF Distinct
  <2>4. ReadInode(e, EntryAt(d, p).id) = ReadInode(d, EntryAt(d, p).id)
    BY <1>1, <1>2, <2>2, <2>3
  <2> QED BY <2>1, <2>2, <2>3, <2>4
<1>8. Distinct(e)
  BY <1>1, <1>2 DEF Distinct
<1>9. B \ F \subseteq DataBlocks /\ I \ {id} \subseteq TableIds
      /\ ROOT_INODE \in I \ {id}
  BY <1>1, <1>2
<1> QED BY <1>1, <1>5, <1>6, <1>7, <1>8, <1>9 DEF Sound, e, F

-----------------------------------------------------------------------------
(* The action of the module in these terms.                                 *)
LEMMA DeleteFileDeletes ==
  ASSUME NEW I, NEW B, Sound(blk, I, B), NEW n, DeleteFile(n)
  PROVE  \E id \in IdsOf(n) :
           LET ino == ReadInode(blk, id)
               ptr == PointersOf(blk, ino.ind)
           IN  /\ blk' = Deleted(blk, id, n)
               /\ data_bm' = data_bm \ Owned(blk, id)
               /\ inode_bm' = inode_bm \ {id}
               /\ sb' = [sb EXCEPT
                    !.free_inodes = Wrap(@ + 1),
                    !.free_blocks = Wrap(@ + FreedCount(ino.direct) + FreedCount(ptr)
                                           + Count({ino.ind} \ {0}))]
<1>1. PICK id \in IdsOf(n) :
       LET ino  == ReadInode(blk, id)
           d1   == ZeroBlocks(blk, FreedBy(ino.direct))
           ptrs == PointersOf(d1, ino.ind)
           gone == FreedBy(ptrs) \cup ({ino.ind} \ {0})
           d2   == WriteInode(ZeroBlocks(d1, gone), id, BlankInode)
       IN  /\ blk' = RemoveFromRoot(d2, n)
           /\ data_bm' = data_bm \ (FreedBy(ino.direct) \cup gone)
           /\ inode_bm' = inode_bm \ {id}
           /\ sb' = [sb EXCEPT
                !.free_inodes = Wrap(@ + 1),
                !.free_blocks = Wrap(@ + FreedCount(ino.direct) + FreedCount(ptrs)
                                       + Count({ino.ind} \ {0}))]
  BY DEF DeleteFile
<1> DEFINE ino  == ReadInode(blk, id)
           ptr  == PointersOf(blk, ino.ind)
           F1   == FreedBy(ino.direct)
           d1   == ZeroBlocks(blk, F1)
           gone == FreedBy(ptr) \cup ({ino.ind} \ {0})
<1>2. id \in TableIds
  BY SoundName
<1>3. F1 \subseteq DataBlocks /\ ino.ind \notin F1
  <2>1. F1 \subseteq {ino.direct[i] : i \in DirectIdx} \ {0} /\ Owned(blk, id) \subseteq B
    BY <1>2, OwnedAreAllocated
  <2>2. F1 \subseteq Owned(blk, id) /\ B \subseteq DataBlocks
    BY DEF Owned, Sound
  <2>3. \A i \in DirectIdx : ino.direct[i] # 0 => ino.ind # ino.direct[i]
    BY <1>2, SoundApart
  <2> HIDE DEF ino
  <2> QED BY <2>1, <2>2, <2>3
<1>4. PointersOf(d1, ino.ind) = ptr
  <2>1. ino.ind \in FsBlocks => d1[ino.ind] = blk[ino.ind]
    BY <1>3 DEF ZeroBlocks
  <2> HIDE DEF ino, d1
  <2> QED BY <2>1 DEF ptr, PointersOf
<1>5. F1 \cup gone = Owned(blk, id)
  BY DEF Owned
<1>6. ZeroBlocks(d1, gone) = ZeroBlocks(blk, F1 \cup gone)
  <2> HIDE DEF F1, gone
  <2> QED BY DEF ZeroBlocks
<1> HIDE DEF ino, F1
<1>7. /\ blk' = RemoveFromRoot(WriteInode(ZeroBlocks(d1, gone), id, BlankInode), n)
      /\ data_bm' = data_bm \ (F1 \cup gone)
      /\ inode_bm' = inode_bm \ {id}
      /\ sb' = [sb EXCEPT
                !.free_inodes = Wrap(@ + 1),
                !.free_blocks = Wrap(@ + FreedCount(ino.direct) + FreedCount(ptr)
                                       + Count({ino.ind} \ {0}))]
  BY <1>1, <1>4 DEF ino, F1
<1> HIDE DEF d1, ptr, gone
<1>8. blk' = Deleted(blk, id, n) /\ data_bm' = data_bm \ Owned(blk, id)
  BY <1>5, <1>6, <1>7 DEF Deleted
<1> QED BY <1>7, <1>8 DEF ino, ptr

-----------------------------------------------------------------------------
(* create_file.                                                            *)

(* An unused inode that becomes a new file.                                 *)
LEMMA NewFileSound ==
  ASSUME NEW d, NEW I, NEW B, Sound(d, I, B), NEW id \in TableIds, id \notin I
  PROVE  LET e == WriteInode(d, id, FreshInode("REGULAR"))
         IN  /\ Sound(e, I \cup {id}, B)
             /\ ReadInode(e, id) = NewInode("REGULAR")
             /\ \A j \in TableIds \ {id} : ReadInode(e, j) = ReadInode(d, j)
             /\ \A b \in DataBlocks : e[b] = d[b]
             /\ UsedEntries(e) = UsedEntries(d)
             /\ \A p \in UsedEntries(d) : EntryAt(e, p) = EntryAt(d, p)
             /\ \A n : Matches(e, n) = Matches(d, n)
<1> DEFINE new == NewInode("REGULAR")
           l   == FreshInode("REGULAR")
           e   == WriteInode(d, id, l)
<1>1. /\ d \in Disks /\ B \subseteq DataBlocks /\ I \subseteq TableIds /\ ROOT_INODE \in I
      /\ Unshared(d) /\ Allocated(d, B)
      /\ GoodEntries(d, I) /\ Distinct(d)
  BY DEF Sound
<1>2. l \in InodeImages /\ AsInode(l) = new
  BY FreshInodeType DEF FileTypes
<1>3. /\ \A i \in DirectIdx : new.direct[i] = 0
      /\ new.ind = 0 /\ new.type = "REGULAR"
  BY DEF NewInode
<1> HIDE DEF new, l
<1>4. /\ e \in Disks /\ ReadInode(e, id) = new
      /\ \A j \in TableIds \ {id} : ReadInode(e, j) = ReadInode(d, j)
      /\ \A b \in DataBlocks : e[b] = d[b]
  BY <1>1, <1>2, WriteInodeReads, WriteInodeType
<1> HIDE DEF e
<1>5. ASSUME NEW r \in Sites, r[1] = id
      PROVE  PointerAt(e, r) = 0
  <2>1. \A s \in Slots : PointersOf(e, ReadInode(e, id).ind)[s] = 0
    BY <1>3, <1>4, Regions DEF PointersOf
  <2>2. \/ \E i \in DirectIdx : r = DirectSite(id, i)
        \/ \E s \in Slots : r = PointerSite(id, s)
        \/ r = IndirectSite(id)
    BY <1>5, SiteCases
  <2> QED BY <1>3, <1>4, <2>1, <2>2, PointerAtSite
<1>6. ASSUME NEW j \in TableIds, j # id
      PROVE  \A r \in Sites : r[1] = j => PointerAt(e, r) = PointerAt(d, r)
  <2>1. ReadInode(e, j) = ReadInode(d, j)
    BY <1>4, <1>6
  <2>2. ReadInode(d, j).ind \in FsBlocks => e[ReadInode(d, j).ind] = d[ReadInode(d, j).ind]
    BY <1>4, SoundIndirect
  <2> QED BY <2>1, <2>2, SameSites
<1>7. \A r \in Sites : PointerAt(e, r) = 0 \/ PointerAt(e, r) = PointerAt(d, r)
  BY <1>5, <1>6, SiteCases
<1>8. Unshared(e)
  BY <1>1, <1>7 DEF Unshared
<1>9. Allocated(e, B)
  BY <1>1, <1>7 DEF Allocated
<1>10. DirOf(e) = DirOf(d)
  BY <1>1, <1>4, DirOfRoot
<1>11. /\ UsedEntries(e) = UsedEntries(d)
       /\ \A p \in UsedEntries(d) : EntryAt(e, p) = EntryAt(d, p)
       /\ \A n : Matches(e, n) = Matches(d, n)
  <2>1. \A i \in DirectIdx : DirOf(d)[i] # 0 => DirOf(d)[i] \in DataBlocks
    BY <1>1, SoundRoot
  <2> QED BY <1>4, <1>10, <2>1, SameDirectory
<1>12. GoodEntries(e, I \cup {id})
  <2> SUFFICES ASSUME NEW p \in UsedEntries(e)
               PROVE  /\ EntryAt(e, p) \in Dirents
                      /\ EntryAt(e, p).id \in I \cup {id}
                      /\ ReadInode(e, EntryAt(e, p).id).type = "REGULAR"
    BY DEF GoodEntries
  <2>1. EntryAt(e, p) = EntryAt(d, p) /\ p \in UsedEntries(d)
    BY <1>11
  <2>2. /\ EntryAt(d, p) \in Dirents /\ EntryAt(d, p).id \in I
        /\ ReadInode(d, EntryAt(d, p).id).type = "REGULAR"
    BY <1>1, <2>1 DEF GoodEntries
  <2>3. ReadInode(e, EntryAt(d, p).id) = ReadInode(d, EntryAt(d, p).id)
    BY <1>1, <1>4, <2>2
  <2> QED BY <2>1, <2>2, <2>3
<1>13. Distinct(e)
  BY <1>1, <1>11 DEF Distinct
<1>14. I \cup {id} \subseteq TableIds /\ ROOT_INODE \in I \cup {id}
  BY <1>1, <1>10
<1>15. Sound(e, I \cup {id}, B)
  BY <1>1, <1>4, <1>8, <1>9, <1>12, <1>13, <1>14 DEF Sound
<1> QED BY <1>4, <1>11, <1>15 DEF e, l, new

(* A free cell of a directory block that becomes the entry of a file that   *)
(* has none, under a name that no other entry has.                          *)
LEMMA EntrySound ==
  ASSUME NEW d, NEW I, NEW B, Sound(d, I, B), NEW n \in Names,
         NEW id \in I \ {ROOT_INODE}, ReadInode(d, id).type = "REGULAR",
         \A p \in UsedEntries(d) : EntryAt(d, p).id # id /\ EntryAt(d, p).name # n,
         NEW i \in DirectIdx, DirOf(d)[i] # 0, NEW s \in FreeEntries(d, DirOf(d)[i])
  PROVE  LET e == WriteCell(d, DirOf(d)[i], s, Entry(n, id))
         IN  /\ Sound(e, I, B)
             /\ UsedEntries(e) = UsedEntries(d) \cup {<<i, s>>}
             /\ EntryAt(e, <<i, s>>) = Entry(n, id)
             /\ \A p \in UsedEntries(d) : EntryAt(e, p) = EntryAt(d, p)
             /\ \A j \in TableIds : ReadInode(e, j) = ReadInode(d, j)
             /\ \A b \in DataBlocks : b # DirOf(d)[i] => e[b] = d[b]
<1> DEFINE k == DirOf(d)[i]
           e == WriteCell(d, k, s, Entry(n, id))
<1>1. /\ d \in Disks /\ B \subseteq DataBlocks /\ I \subseteq TableIds /\ ROOT_INODE \in I
      /\ Unshared(d) /\ Allocated(d, B)
      /\ GoodEntries(d, I) /\ Distinct(d)
  BY DEF Sound
<1>2. k \in DataBlocks /\ k \in FsBlocks /\ s \in Slots /\ ~ EntryUsed(d[k][s])
  BY <1>1, SoundRoot, Regions DEF FreeEntries
<1>3. Entry(n, id) \in Dirents /\ Entry(n, id).id = id /\ Entry(n, id).name = n
      /\ EntryUsed(Entry(n, id)) /\ Entry(n, id) \in Cells
  <2>1. id \in InodeIds
    BY <1>1 DEF TableIds
  <2>2. Entry(n, id).kind = "dirent" /\ Entry(n, id).id # 0
    BY DEF Entry, ROOT_INODE
  <2> QED BY <2>1, <2>2, EntryType DEF Entry, Dirents, EntryUsed
<1> HIDE DEF k
<1>4. /\ e \in Disks
      /\ \A b \in FsBlocks : b # k => e[b] = d[b]
      /\ \A t \in Slots : e[k][t] = IF t = s THEN Entry(n, id) ELSE d[k][t]
  <2>1. e \in Disks
    BY <1>1, <1>3, WriteCellType
  <2>2. e = [d EXCEPT ![k] = [@ EXCEPT ![s] = Entry(n, id)]]
    BY DEF WriteCell
  <2> QED BY <1>1, <1>2, <2>1, <2>2 DEF Disks, BlockImages
<1> HIDE DEF e
<1>5. \A j \in TableIds : ReadInode(e, j) = ReadInode(d, j)
  BY <1>2, <1>4, TableIdIsId DEF ReadInode, InodeImage
<1>6. ASSUME NEW j \in TableIds
      PROVE  \A r \in Sites : r[1] = j => PointerAt(e, r) = PointerAt(d, r)
  <2>1. ReadInode(d, j).ind # k
    BY <1>1, SoundApart, DirOfRoot DEF k
  <2>2. ReadInode(d, j).ind \in FsBlocks => e[ReadInode(d, j).ind] = d[ReadInode(d, j).ind]
    BY <1>4, <2>1
  <2> QED BY <1>5, <2>2, SameSites
<1>7. \A r \in Sites : PointerAt(e, r) = PointerAt(d, r)
  BY <1>6, SiteCases
<1>8. DirOf(e) = DirOf(d)
  BY <1>1, <1>5, DirOfRoot
<1>9. \A p \in DirectIdx \X Slots :
        DirOf(d)[p[1]] # 0 =>
          EntryAt(e, p) = IF p = <<i, s>> THEN Entry(n, id) ELSE EntryAt(d, p)
  <2> SUFFICES ASSUME NEW p \in DirectIdx \X Slots, DirOf(d)[p[1]] # 0
               PROVE  EntryAt(e, p) = IF p = <<i, s>> THEN Entry(n, id) ELSE EntryAt(d, p)
    OBVIOUS
  <2>0. DirOf(d)[p[1]] # 0
    OBVIOUS
  <2>1. p = <<p[1], p[2]>> /\ p[1] \in DirectIdx /\ p[2] \in Slots
        /\ DirOf(d)[p[1]] \in FsBlocks
    <3>1. p = <<p[1], p[2]>> /\ p[1] \in DirectIdx /\ p[2] \in Slots
      OBVIOUS
    <3>2. \A x \in DirectIdx : DirOf(d)[x] \in {0} \cup B
      BY SoundRoot
    <3> QED BY <1>1, <2>0, <3>1, <3>2, Regions
  <2>2. EntryAt(e, p) = e[DirOf(d)[p[1]]][p[2]] /\ EntryAt(d, p) = d[DirOf(d)[p[1]]][p[2]]
    BY <1>8 DEF EntryAt
  <2>3. DirOf(d)[p[1]] = k <=> p[1] = i
    <3>1. \A x, y \in DirectIdx : DirOf(d)[x] # 0 /\ DirOf(d)[y] = DirOf(d)[x] => x = y
      BY <1>1, SoundApart, DirOfRoot
    <3> QED BY <2>1, <3>1 DEF k
  <2>4. CASE p[1] = i
    BY <1>4, <2>1, <2>2, <2>3, <2>4
  <2>5. CASE p[1] # i
    BY <1>4, <2>1, <2>2, <2>3, <2>5
  <2> QED BY <2>4, <2>5
<1>10. <<i, s>> \in DirectIdx \X Slots /\ <<i, s>>[1] = i /\ <<i, s>> \notin UsedEntries(d)
  BY <1>2 DEF UsedEntries, EntryAt, k
<1>11. /\ UsedEntries(e) = UsedEntries(d) \cup {<<i, s>>}
       /\ \A p \in UsedEntries(d) : EntryAt(e, p) = EntryAt(d, p)
       /\ EntryAt(e, <<i, s>>) = Entry(n, id)
  <2>1. /\ \A p : p \in UsedEntries(e) <=> /\ p \in DirectIdx \X Slots /\ DirOf(d)[p[1]] # 0
                                           /\ EntryUsed(EntryAt(e, p))
        /\ \A p : p \in UsedEntries(d) <=> /\ p \in DirectIdx \X Slots /\ DirOf(d)[p[1]] # 0
                                           /\ EntryUsed(EntryAt(d, p))
    BY <1>8 DEF UsedEntries
  <2>2. \A p : p \in UsedEntries(e) <=> p \in UsedEntries(d) \/ p = <<i, s>>
    BY <1>3, <1>9, <1>10, <2>1
  <2>3. \A p \in UsedEntries(d) : EntryAt(e, p) = EntryAt(d, p)
    BY <1>9, <1>10, <2>1
  <2>4. EntryAt(e, <<i, s>>) = Entry(n, id)
    BY <1>9, <1>10
  <2> QED BY <2>2, <2>3, <2>4
<1>12. Unshared(e) /\ Allocated(e, B)
  BY <1>1, <1>7 DEF Unshared, Allocated
<1>13. GoodEntries(e, I)
  <2> SUFFICES ASSUME NEW p \in UsedEntries(e)
               PROVE  /\ EntryAt(e, p) \in Dirents
                      /\ EntryAt(e, p).id \in I
                      /\ ReadInode(e, EntryAt(e, p).id).type = "REGULAR"
    BY DEF GoodEntries
  <2>1. CASE p = <<i, s>>
    BY <1>1, <1>3, <1>5, <1>11, <2>1
  <2>2. CASE p \in UsedEntries(d)
    <3>1. /\ EntryAt(d, p) \in Dirents /\ EntryAt(d, p).id \in I
          /\ ReadInode(d, EntryAt(d, p).id).type = "REGULAR"
      BY <1>1, <2>2 DEF GoodEntries
    <3> QED BY <1>1, <1>5, <1>11, <2>2, <3>1
  <2> QED BY <1>11, <2>1, <2>2
<1>14. Distinct(e)
  <2>1. \A p, q \in UsedEntries(d) :
          EntryAt(e, p).id = EntryAt(e, q).id \/ EntryAt(e, p).name = EntryAt(e, q).name => p = q
    BY <1>1, <1>11 DEF Distinct
  <2>2. \A p \in UsedEntries(d) :
          EntryAt(e, p).id # EntryAt(e, <<i, s>>).id /\ EntryAt(e, p).name # EntryAt(e, <<i, s>>).name
    BY <1>3, <1>11
  <2> QED BY <1>11, <2>1, <2>2 DEF Distinct
<1>15. Sound(e, I, B)
  BY <1>1, <1>4, <1>8, <1>12, <1>13, <1>14 DEF Sound
<1>16. \A b \in DataBlocks : b # k => e[b] = d[b]
  BY <1>4, Regions
<1> QED BY <1>5, <1>11, <1>15, <1>16 DEF e, k

(* The directory keeps every block it has.                                  *)
RootKept(d, e) == \A k \in DirectIdx : DirOf(d)[k] # 0 => DirOf(e)[k] = DirOf(d)[k]

(* The root directory grows by a block that was free.                       *)
Grown(d, i, b) ==
  WriteInode(ZeroBlocks(d, {b}), ROOT_INODE,
             Updated(InodeImage(d, ROOT_INODE),
                     [ReadInode(d, ROOT_INODE) EXCEPT !.direct[i] = b]))

(* Giving the root directory one more block keeps the disk sound.           *)
LEMMA GrownSound ==
  ASSUME NEW d, NEW I, NEW B, Sound(d, I, B), NEW i \in DirectIdx, DirOf(d)[i] = 0,
         NEW b \in DataBlocks \ B
  PROVE  LET e == Grown(d, i, b)
         IN  /\ Sound(e, I, B \cup {b})
             /\ UsedEntries(e) = UsedEntries(d)
             /\ \A p \in UsedEntries(d) : EntryAt(e, p) = EntryAt(d, p)
             /\ \A j \in TableIds \ {ROOT_INODE} : ReadInode(e, j) = ReadInode(d, j)
             /\ DirOf(e)[i] = b /\ e[b] = ZeroBlock
             /\ RootKept(d, e)
             /\ \A x \in DataBlocks \ {b} : e[x] = d[x]
<1> DEFINE old  == ReadInode(d, ROOT_INODE)
           root == [old EXCEPT !.direct[i] = b]
           l    == Updated(InodeImage(d, ROOT_INODE), root)
           d1   == ZeroBlocks(d, {b})
           e    == WriteInode(d1, ROOT_INODE, l)
<1>1. /\ d \in Disks /\ B \subseteq DataBlocks /\ I \subseteq TableIds /\ ROOT_INODE \in I
      /\ Unshared(d) /\ Allocated(d, B)
      /\ GoodEntries(d, I) /\ Distinct(d) /\ ROOT_INODE \in TableIds
  BY SoundRoot DEF Sound
<1>2. old \in Inodes /\ old.direct \in [DirectIdx -> {0} \cup B] /\ old.direct[i] = 0
      /\ DirOf(d) = old.direct
  BY <1>1, SoundInode, DirOfRoot
<1>3. l \in InodeImages /\ AsInode(l) = root
  <2>1. InodeImage(d, ROOT_INODE) \in InodeImages
    BY <1>1, TableIdIsId, InodeImageType
  <2> HIDE DEF old
  <2>2. root \in Inodes
    BY <1>2, Regions DEF Inodes, Pointers
  <2> HIDE DEF root
  <2> QED BY <2>1, <2>2, UpdatedInode
<1>4. /\ root.ind = old.ind
      /\ \A k \in DirectIdx : root.direct[k] = IF k = i THEN b ELSE old.direct[k]
  BY <1>2 DEF Inodes
<1> HIDE DEF old, root, l
<1>5. /\ d1 \in Disks /\ \A j \in TableIds : ReadInode(d1, j) = ReadInode(d, j)
      /\ \A x \in FsBlocks \ {b} : d1[x] = d[x]
      /\ d1[b] = ZeroBlock
  BY <1>1, ZeroBlocksType, ZeroBlocksReads
<1> HIDE DEF d1
<1>6. /\ e \in Disks /\ ReadInode(e, ROOT_INODE) = root
      /\ \A j \in TableIds \ {ROOT_INODE} : ReadInode(e, j) = ReadInode(d, j)
      /\ \A x \in DataBlocks \ {b} : e[x] = d[x]
      /\ e[b] = ZeroBlock
  <2>1. /\ e \in Disks /\ ReadInode(e, ROOT_INODE) = AsInode(l)
        /\ \A j \in TableIds \ {ROOT_INODE} : ReadInode(e, j) = ReadInode(d1, j)
        /\ \A x \in DataBlocks : e[x] = d1[x]
    BY <1>1, <1>3, <1>5, WriteInodeReads, WriteInodeType
  <2> HIDE DEF e
  <2> QED BY <1>3, <1>5, <2>1, Regions
<1> HIDE DEF e
<1>7. ASSUME NEW j \in TableIds
      PROVE  /\ ReadInode(e, j).ind = ReadInode(d, j).ind
             /\ PointersOf(e, ReadInode(e, j).ind) = PointersOf(d, ReadInode(d, j).ind)
  <2>1. ReadInode(e, j).ind = ReadInode(d, j).ind
    BY <1>4, <1>6 DEF old
  <2>2. ReadInode(d, j).ind # b
    BY <1>1, SoundInode, Regions
  <2>3. ReadInode(d, j).ind \in FsBlocks => e[ReadInode(d, j).ind] = d[ReadInode(d, j).ind]
    BY <1>6, <2>2, SoundIndirect
  <2> QED BY <2>1, <2>3 DEF PointersOf
<1>8. ASSUME NEW r \in Sites
      PROVE  PointerAt(e, r) = IF r = DirectSite(ROOT_INODE, i) THEN b ELSE PointerAt(d, r)
  <2>1. ASSUME NEW j \in TableIds, NEW k \in DirectIdx, r = DirectSite(j, k)
        PROVE  PointerAt(e, r) = IF r = DirectSite(ROOT_INODE, i) THEN b ELSE PointerAt(d, r)
    <3>1. PointerAt(e, r) = ReadInode(e, j).direct[k] /\ PointerAt(d, r) = ReadInode(d, j).direct[k]
      BY <2>1, PointerAtSite
    <3>2. r = DirectSite(ROOT_INODE, i) <=> j = ROOT_INODE /\ k = i
      BY <2>1 DEF DirectSite
    <3>3. CASE j = ROOT_INODE
      BY <1>4, <1>6, <3>1, <3>2, <3>3 DEF old
    <3>4. CASE j # ROOT_INODE
      BY <1>6, <3>1, <3>2, <3>4
    <3> QED BY <3>3, <3>4
  <2>2. ASSUME NEW j \in TableIds, NEW s \in Slots, r = PointerSite(j, s)
        PROVE  PointerAt(e, r) = PointerAt(d, r) /\ r # DirectSite(ROOT_INODE, i)
    <3>1. PointerAt(e, r) = PointerAt(d, r)
      BY <1>7, <2>2, PointerAtSite
    <3> QED BY <2>2, <3>1 DEF PointerSite, DirectSite
  <2>3. ASSUME NEW j \in TableIds, r = IndirectSite(j)
        PROVE  PointerAt(e, r) = PointerAt(d, r) /\ r # DirectSite(ROOT_INODE, i)
    <3>1. PointerAt(e, r) = PointerAt(d, r)
      BY <1>7, <2>3, PointerAtSite
    <3> QED BY <2>3, <3>1 DEF IndirectSite, DirectSite
  <2> QED BY <2>1, <2>2, <2>3, SiteCases
<1>9. \A r \in Sites : PointerAt(d, r) # b
  BY <1>1, Regions DEF Allocated
<1>10. Unshared(e)
  <2>1. \A r \in Sites : \/ PointerAt(e, r) = 0
                         \/ PointerAt(e, r) \in {b}
                         \/ PointerAt(e, r) = PointerAt(d, r) /\ PointerAt(e, r) \notin {b}
    BY <1>8, <1>9
  <2>2. \A r, q \in Sites : PointerAt(e, r) \in {b} /\ PointerAt(e, q) = PointerAt(e, r) => q = r
    BY <1>8, <1>9
  <2> QED BY <1>1, <2>1, <2>2, StaysUnshared
<1>11. Allocated(e, B \cup {b})
  BY <1>1, <1>8 DEF Allocated
<1>12. \A k \in DirectIdx : DirOf(e)[k] = IF k = i THEN b ELSE DirOf(d)[k]
  BY <1>2, <1>4, <1>6, DirOfRoot
<1>13. /\ UsedEntries(e) = UsedEntries(d)
       /\ \A p \in UsedEntries(d) : EntryAt(e, p) = EntryAt(d, p)
  <2>1. ASSUME NEW p \in DirectIdx \X Slots, DirOf(d)[p[1]] # 0
        PROVE  EntryAt(e, p) = EntryAt(d, p) /\ DirOf(e)[p[1]] # 0
    <3>1. p[1] \in DirectIdx /\ p[1] # i
      BY <1>2, <2>1
    <3>2. DirOf(e)[p[1]] = DirOf(d)[p[1]] /\ DirOf(d)[p[1]] \in DataBlocks \ {b}
      BY <1>1, <1>2, <1>12, <2>1, <3>1
    <3> QED BY <1>6, <2>1, <3>2 DEF EntryAt
  <2>2. ASSUME NEW p \in UsedEntries(e)
        PROVE  p \in DirectIdx \X Slots /\ DirOf(d)[p[1]] # 0
    <3>1. p \in DirectIdx \X Slots /\ p[1] \in DirectIdx /\ p[2] \in Slots
          /\ EntryUsed(EntryAt(e, p)) /\ DirOf(e)[p[1]] # 0
      BY DEF UsedEntries
    <3>2. p[1] # i
      <4>1. ASSUME p[1] = i PROVE EntryAt(e, p) = ZeroCell
        BY <1>6, <1>12, <3>1, <4>1 DEF EntryAt, ZeroBlock
      <4> QED BY <3>1, <4>1 DEF EntryUsed, ZeroCell
    <3> QED BY <1>12, <3>1, <3>2
  <2>3. \A p : p \in UsedEntries(d) => p \in UsedEntries(e)
    BY <2>1 DEF UsedEntries
  <2>4. \A p : p \in UsedEntries(e) => p \in UsedEntries(d)
    BY <2>1, <2>2 DEF UsedEntries
  <2>5. \A p \in UsedEntries(d) : EntryAt(e, p) = EntryAt(d, p)
    BY <2>1 DEF UsedEntries
  <2> QED BY <2>3, <2>4, <2>5
<1>14. GoodEntries(e, I)
  <2> SUFFICES ASSUME NEW p \in UsedEntries(e)
               PROVE  /\ EntryAt(e, p) \in Dirents
                      /\ EntryAt(e, p).id \in I
                      /\ ReadInode(e, EntryAt(e, p).id).type = "REGULAR"
    BY DEF GoodEntries
  <2>1. EntryAt(e, p) = EntryAt(d, p) /\ p \in UsedEntries(d)
    BY <1>13
  <2>2. /\ EntryAt(d, p) \in Dirents /\ EntryAt(d, p).id \in I
        /\ ReadInode(d, EntryAt(d, p).id).type = "REGULAR"
    BY <1>1, <2>1 DEF GoodEntries
  <2>3. EntryAt(d, p).id # ROOT_INODE
    <3>1. EntryUsed(EntryAt(d, p)) /\ EntryAt(d, p).kind = "dirent"
      BY <2>1, <2>2 DEF UsedEntries, Dirents
    <3> QED BY <3>1 DEF EntryUsed, ROOT_INODE
  <2>4. ReadInode(e, EntryAt(d, p).id) = ReadInode(d, EntryAt(d, p).id)
    BY <1>1, <1>6, <2>2, <2>3
  <2> QED BY <2>1, <2>2, <2>4
<1>15. Distinct(e)
  BY <1>1, <1>13 DEF Distinct
<1>16. RootKept(d, e)
  BY <1>12 DEF RootKept
<1>17. Sound(e, I, B \cup {b})
  BY <1>1, <1>6, <1>10, <1>11, <1>14, <1>15 DEF Sound
<1> QED BY <1>6, <1>12, <1>13, <1>16, <1>17 DEF e, d1, l, root, old, Grown

(* What an inode and all the blocks it reaches hold is kept.                *)
Keeps(d, e, j) ==
  /\ ReadInode(e, j) = ReadInode(d, j)
  /\ \A r \in Sites : r[1] = j =>
       /\ PointerAt(e, r) = PointerAt(d, r)
       /\ PointerAt(d, r) # 0 => e[PointerAt(d, r)] = d[PointerAt(d, r)]

(* What two steps each keep, they keep together.                            *)
LEMMA KeepsTransitive ==
  ASSUME NEW d, NEW e, NEW f, NEW j, Keeps(d, e, j), Keeps(e, f, j)
  PROVE  Keeps(d, f, j)
BY DEF Keeps

(* A step that changes no inode of a file and no block of it keeps it.      *)
LEMMA KeepsUntouched ==
  ASSUME NEW d, NEW I, NEW B, Sound(d, I, B), NEW j \in TableIds, NEW e, NEW T,
         ReadInode(e, j) = ReadInode(d, j), \A x \in DataBlocks \ T : e[x] = d[x],
         \A r \in Sites : r[1] = j => PointerAt(d, r) \notin T
  PROVE  Keeps(d, e, j)
<1>1. \A r \in Sites : PointerAt(d, r) \in {0} \cup B
  BY DEF Sound, Allocated
<1>2. B \subseteq DataBlocks
  BY DEF Sound
<1>3. ReadInode(d, j).ind \in FsBlocks => e[ReadInode(d, j).ind] = d[ReadInode(d, j).ind]
  <2>1. IndirectSite(j) \in Sites /\ PointerAt(d, IndirectSite(j)) = ReadInode(d, j).ind
        /\ IndirectSite(j)[1] = j
    BY SiteOf, PointerAtSite DEF IndirectSite
  <2>2. ReadInode(d, j).ind \notin T
    BY <2>1
  <2> QED BY <2>2, SoundIndirect
<1>4. \A r \in Sites : r[1] = j => PointerAt(e, r) = PointerAt(d, r)
  BY <1>3, SameSites
<1>5. \A r \in Sites : r[1] = j /\ PointerAt(d, r) # 0 => PointerAt(d, r) \in DataBlocks \ T
  BY <1>1, <1>2
<1> QED BY <1>4, <1>5 DEF Keeps

(* The blocks of the directory are reached by no other inode.               *)
LEMMA DirectoryApart ==
  ASSUME NEW d, NEW I, NEW B, Sound(d, I, B), NEW i \in DirectIdx, DirOf(d)[i] # 0,
         NEW r \in Sites, r[1] # ROOT_INODE
  PROVE  PointerAt(d, r) # DirOf(d)[i]
<1>1. ROOT_INODE \in TableIds
  BY SoundRoot
<1>2. DirectSite(ROOT_INODE, i) \in Sites /\ PointerAt(d, DirectSite(ROOT_INODE, i)) = DirOf(d)[i]
  BY <1>1, SiteOf, PointerAtSite, DirOfRoot
<1>3. DirectSite(ROOT_INODE, i) # r
  BY DEF DirectSite
<1> QED BY <1>2, <1>3 DEF Sound, Unshared

(* No entry of the first directory block is free.                           *)
DirectoryFull(d) == DirOf(d)[0] # 0 => FreeEntries(d, DirOf(d)[0]) = {}

(* add_to_root on a disk that holds the new file's inode already.           *)
LEMMA AddToRootSound ==
  ASSUME NEW d, NEW I, Sound(d, I, data_bm), NEW n \in Names,
         NEW id \in I \ {ROOT_INODE}, ReadInode(d, id).type = "REGULAR",
         \A p \in UsedEntries(d) : EntryAt(d, p).id # id /\ EntryAt(d, p).name # n,
         AddToRoot(d, n, id)
  PROVE  /\ Sound(blk', I, data_bm') /\ RootKept(d, blk')
         /\ \/ data_bm' = data_bm
            \/ \E b \in DataBlocks \ data_bm : data_bm' = data_bm \cup {b}
         /\ \A j \in TableIds \ {ROOT_INODE} : Keeps(d, blk', j)
         /\ \A p \in UsedEntries(d) : EntryAt(blk', p) = EntryAt(d, p)
         /\ \/ \E p : /\ UsedEntries(blk') = UsedEntries(d) \cup {p}
                      /\ EntryAt(blk', p) = Entry(n, id)
            \/ UsedEntries(blk') = UsedEntries(d) /\ DirectoryFull(d)
<1>1. ASSUME NEW i \in RoomAt(d), DirOf(d)[i] # 0,
             NEW s \in LeastOf(FreeEntries(d, DirOf(d)[i])),
             blk' = WriteCell(d, DirOf(d)[i], s, Entry(n, id)), data_bm' = data_bm
      PROVE  /\ Sound(blk', I, data_bm') /\ RootKept(d, blk')
             /\ \A j \in TableIds \ {ROOT_INODE} : Keeps(d, blk', j)
             /\ \A p \in UsedEntries(d) : EntryAt(blk', p) = EntryAt(d, p)
             /\ \E p : /\ UsedEntries(blk') = UsedEntries(d) \cup {p}
                       /\ EntryAt(blk', p) = Entry(n, id)
  <2>1. i \in DirectIdx /\ s \in FreeEntries(d, DirOf(d)[i])
    BY DEF RoomAt, LeastOf
  <2>2. /\ Sound(blk', I, data_bm') /\ RootKept(d, blk')
        /\ UsedEntries(blk') = UsedEntries(d) \cup {<<i, s>>}
        /\ EntryAt(blk', <<i, s>>) = Entry(n, id)
        /\ \A p \in UsedEntries(d) : EntryAt(blk', p) = EntryAt(d, p)
        /\ \A j \in TableIds : ReadInode(blk', j) = ReadInode(d, j)
        /\ \A b \in DataBlocks : b # DirOf(d)[i] => blk'[b] = d[b]
    <3>1. /\ Sound(blk', I, data_bm')
          /\ UsedEntries(blk') = UsedEntries(d) \cup {<<i, s>>}
          /\ EntryAt(blk', <<i, s>>) = Entry(n, id)
          /\ \A p \in UsedEntries(d) : EntryAt(blk', p) = EntryAt(d, p)
          /\ \A j \in TableIds : ReadInode(blk', j) = ReadInode(d, j)
          /\ \A b \in DataBlocks : b # DirOf(d)[i] => blk'[b] = d[b]
      BY <1>1, <2>1, EntrySound
    <3>2. RootKept(d, blk')
      BY <3>1, SoundRoot, DirOfRoot DEF RootKept
    <3> QED BY <3>1, <3>2
  <2>3. ASSUME NEW j \in TableIds \ {ROOT_INODE} PROVE Keeps(d, blk', j)
    <3>1. \A x \in DataBlocks \ {DirOf(d)[i]} : blk'[x] = d[x]
      BY <2>2
    <3>2. \A r \in Sites : r[1] = j => PointerAt(d, r) \notin {DirOf(d)[i]}
      BY <1>1, <2>1, DirectoryApart
    <3> QED BY <2>2, <3>1, <3>2, KeepsUntouched
  <2> QED BY <2>2, <2>3
<1>2. ASSUME NEW i \in RoomAt(d), NEW b \in LeastOf(FreeData), DirOf(d)[i] = 0,
             LET root == [ReadInode(d, ROOT_INODE) EXCEPT !.direct[i] = b]
                 d1   == WriteInode(ZeroBlocks(d, {b}), ROOT_INODE,
                                Updated(InodeImage(d, ROOT_INODE), root))
             IN  blk' = WriteCell(d1, b, 0, Entry(n, id)),
             data_bm' = data_bm \cup {b}
      PROVE  /\ Sound(blk', I, data_bm') /\ RootKept(d, blk')
             /\ \E x \in DataBlocks \ data_bm : data_bm' = data_bm \cup {x}
             /\ \A j \in TableIds \ {ROOT_INODE} : Keeps(d, blk', j)
             /\ \A p \in UsedEntries(d) : EntryAt(blk', p) = EntryAt(d, p)
             /\ \E p : /\ UsedEntries(blk') = UsedEntries(d) \cup {p}
                       /\ EntryAt(blk', p) = Entry(n, id)
  <2> DEFINE d1 == Grown(d, i, b)
  <2>1. i \in DirectIdx /\ b \in DataBlocks \ data_bm
    BY DEF RoomAt, LeastOf, FreeData
  <2>2. /\ Sound(d1, I, data_bm')
        /\ UsedEntries(d1) = UsedEntries(d)
        /\ \A p \in UsedEntries(d) : EntryAt(d1, p) = EntryAt(d, p)
        /\ \A j \in TableIds \ {ROOT_INODE} : ReadInode(d1, j) = ReadInode(d, j)
        /\ DirOf(d1)[i] = b /\ d1[b] = ZeroBlock /\ RootKept(d, d1)
        /\ \A x \in DataBlocks \ {b} : d1[x] = d[x]
    BY <1>2, <2>1, GrownSound
  <2>3. blk' = WriteCell(d1, DirOf(d1)[i], 0, Entry(n, id))
    BY <1>2, <2>2 DEF Grown
  <2> HIDE DEF d1
  <2>4. DirOf(d1)[i] # 0 /\ 0 \in FreeEntries(d1, DirOf(d1)[i])
    <3>1. ~ EntryUsed(d1[b][0])
      BY <2>2, Regions DEF ZeroBlock, EntryUsed, ZeroCell
    <3> QED BY <2>1, <2>2, <3>1, Regions DEF FreeEntries
  <2>5. id \in TableIds \ {ROOT_INODE}
    BY DEF Sound
  <2>6. ReadInode(d1, id).type = "REGULAR"
    BY <2>2, <2>5
  <2>7. \A p \in UsedEntries(d1) : EntryAt(d1, p).id # id /\ EntryAt(d1, p).name # n
    BY <2>2
  <2>8. /\ Sound(blk', I, data_bm') /\ RootKept(d, blk')
        /\ UsedEntries(blk') = UsedEntries(d1) \cup {<<i, 0>>}
        /\ EntryAt(blk', <<i, 0>>) = Entry(n, id)
        /\ \A p \in UsedEntries(d1) : EntryAt(blk', p) = EntryAt(d1, p)
        /\ \A j \in TableIds : ReadInode(blk', j) = ReadInode(d1, j)
        /\ \A x \in DataBlocks : x # DirOf(d1)[i] => blk'[x] = d1[x]
    <3>1. /\ Sound(blk', I, data_bm')
          /\ UsedEntries(blk') = UsedEntries(d1) \cup {<<i, 0>>}
          /\ EntryAt(blk', <<i, 0>>) = Entry(n, id)
          /\ \A p \in UsedEntries(d1) : EntryAt(blk', p) = EntryAt(d1, p)
          /\ \A j \in TableIds : ReadInode(blk', j) = ReadInode(d1, j)
          /\ \A x \in DataBlocks : x # DirOf(d1)[i] => blk'[x] = d1[x]
      BY <2>1, <2>2, <2>3, <2>4, <2>6, <2>7, EntrySound
    <3>2. RootKept(d, blk')
      BY <2>2, <3>1, SoundRoot, DirOfRoot DEF RootKept
    <3> QED BY <3>1, <3>2
  <2>9. ASSUME NEW j \in TableIds \ {ROOT_INODE} PROVE Keeps(d, blk', j)
    <3>1. \A x \in DataBlocks \ {b} : blk'[x] = d[x]
      BY <2>2, <2>8
    <3>2. \A r \in Sites : PointerAt(d, r) \notin {b}
      BY <2>1, Regions DEF Sound, Allocated
    <3>3. ReadInode(blk', j) = ReadInode(d, j)
      BY <2>2, <2>8
    <3> QED BY <3>1, <3>2, <3>3, KeepsUntouched
  <2> QED BY <1>2, <2>1, <2>2, <2>8, <2>9
<1>3. ASSUME \A i \in RoomAt(d) : DirOf(d)[i] = 0 /\ FreeData = {},
             blk' = d, data_bm' = data_bm
      PROVE  /\ Sound(blk', I, data_bm') /\ RootKept(d, blk')
             /\ \A j \in TableIds \ {ROOT_INODE} : Keeps(d, blk', j)
             /\ UsedEntries(blk') = UsedEntries(d) /\ DirectoryFull(d)
  <2>1. 0 \in DirectIdx /\ \A i \in DirectIdx : 0 <= i
    BY Regions DEF DirectIdx
  <2>2. DirOf(d)[0] # 0 => 0 \notin RoomAt(d)
    BY <1>3, <2>1
  <2>3. DirectoryFull(d)
    BY <2>1, <2>2 DEF DirectoryFull, RoomAt, LeastOf
  <2>4. \A j \in TableIds \ {ROOT_INODE} : Keeps(d, blk', j)
    BY <1>3 DEF Keeps
  <2> QED BY <1>3, <2>3, <2>4 DEF RootKept
<1>4. \/ \E i \in RoomAt(d) :
           /\ DirOf(d)[i] # 0
           /\ \E s \in LeastOf(FreeEntries(d, DirOf(d)[i])) :
                blk' = WriteCell(d, DirOf(d)[i], s, Entry(n, id))
           /\ data_bm' = data_bm
      \/ \E i \in RoomAt(d), b \in LeastOf(FreeData) :
           /\ DirOf(d)[i] = 0
           /\ LET root == [ReadInode(d, ROOT_INODE) EXCEPT !.direct[i] = b]
                  d1   == WriteInode(ZeroBlocks(d, {b}), ROOT_INODE,
                                Updated(InodeImage(d, ROOT_INODE), root))
              IN  blk' = WriteCell(d1, b, 0, Entry(n, id))
           /\ data_bm' = data_bm \cup {b}
      \/ /\ \A i \in RoomAt(d) : DirOf(d)[i] = 0 /\ FreeData = {}
         /\ blk' = d
         /\ data_bm' = data_bm
  BY DEF AddToRoot
<1>5. CASE \E i \in RoomAt(d) :
             /\ DirOf(d)[i] # 0
             /\ \E s \in LeastOf(FreeEntries(d, DirOf(d)[i])) :
                  blk' = WriteCell(d, DirOf(d)[i], s, Entry(n, id))
             /\ data_bm' = data_bm
  BY <1>1, <1>5
<1>6. CASE \E i \in RoomAt(d), b \in LeastOf(FreeData) :
             /\ DirOf(d)[i] = 0
             /\ LET root == [ReadInode(d, ROOT_INODE) EXCEPT !.direct[i] = b]
                    d1   == WriteInode(ZeroBlocks(d, {b}), ROOT_INODE,
                                Updated(InodeImage(d, ROOT_INODE), root))
                IN  blk' = WriteCell(d1, b, 0, Entry(n, id))
             /\ data_bm' = data_bm \cup {b}
  BY <1>2, <1>6
<1>7. CASE /\ \A i \in RoomAt(d) : DirOf(d)[i] = 0 /\ FreeData = {}
           /\ blk' = d
           /\ data_bm' = data_bm
  BY <1>3, <1>7
<1> QED BY <1>4, <1>5, <1>6, <1>7

(* create_file within the inode table.                                      *)
LEMMA CreateFileSound ==
  ASSUME Sound(blk, inode_bm, data_bm), NEW n \in Names, CreateFile(n),
         inode_bm' \subseteq TableIds
  PROVE  \E id \in TableIds \ inode_bm :
           /\ inode_bm' = inode_bm \cup {id}
           /\ Sound(blk', inode_bm', data_bm') /\ RootKept(blk, blk')
           /\ \/ data_bm' = data_bm
              \/ \E b \in DataBlocks \ data_bm : data_bm' = data_bm \cup {b}
           /\ \A j \in TableIds \ {ROOT_INODE, id} : Keeps(blk, blk', j)
           /\ ReadInode(blk', id) = NewInode("REGULAR")
           /\ \A p \in UsedEntries(blk) : EntryAt(blk', p) = EntryAt(blk, p)
           /\ \/ \E p : /\ UsedEntries(blk') = UsedEntries(blk) \cup {p}
                        /\ EntryAt(blk', p) = Entry(n, id)
              \/ UsedEntries(blk') = UsedEntries(blk) /\ DirectoryFull(blk)
<1>1. PICK id \in LeastOf(FreeInodes) :
        /\ inode_bm' = inode_bm \cup {id}
        /\ AddToRoot(WriteInode(blk, id, FreshInode("REGULAR")), n, id)
  BY DEF CreateFile
<1>2. id \in TableIds \ inode_bm
  BY <1>1 DEF LeastOf, FreeInodes
<1> DEFINE I == inode_bm \cup {id}
           d == WriteInode(blk, id, FreshInode("REGULAR"))
<1>3. AddToRoot(d, n, id)
  BY <1>1
<1>4. /\ Sound(d, I, data_bm)
      /\ ReadInode(d, id) = NewInode("REGULAR")
      /\ \A j \in TableIds \ {id} : ReadInode(d, j) = ReadInode(blk, j)
      /\ \A b \in DataBlocks : d[b] = blk[b]
      /\ UsedEntries(d) = UsedEntries(blk)
      /\ \A p \in UsedEntries(blk) : EntryAt(d, p) = EntryAt(blk, p)
  BY <1>2, NewFileSound
<1> HIDE DEF d
<1>5. id # ROOT_INODE /\ ROOT_INODE \in TableIds /\ id \in I
  BY <1>2, SoundRoot DEF Sound
<1>6. ReadInode(d, id).type = "REGULAR"
  BY <1>4 DEF NewInode
<1>7. \A p \in UsedEntries(d) : EntryAt(d, p).id # id /\ EntryAt(d, p).name # n
  <2>1. \A p \in UsedEntries(blk) : EntryAt(blk, p).id \in inode_bm
    BY DEF Sound, GoodEntries
  <2>2. Matches(blk, n) = {}
    BY DEF CreateFile
  <2>3. Matches(blk, n) = {p \in UsedEntries(blk) : EntryAt(blk, p).name = n}
    BY SoundMatches
  <2>4. \A p \in UsedEntries(blk) : EntryAt(blk, p).name # n
    BY <2>2, <2>3
  <2> QED BY <1>2, <1>4, <2>1, <2>4
<1>8. /\ Sound(blk', I, data_bm') /\ RootKept(d, blk')
      /\ \/ data_bm' = data_bm
         \/ \E b \in DataBlocks \ data_bm : data_bm' = data_bm \cup {b}
      /\ \A j \in TableIds \ {ROOT_INODE} : Keeps(d, blk', j)
      /\ \A p \in UsedEntries(d) : EntryAt(blk', p) = EntryAt(d, p)
      /\ \/ \E p : /\ UsedEntries(blk') = UsedEntries(d) \cup {p}
                   /\ EntryAt(blk', p) = Entry(n, id)
         \/ UsedEntries(blk') = UsedEntries(d) /\ DirectoryFull(d)
  <2> HIDE DEF I
  <2> QED BY <1>3, <1>4, <1>5, <1>6, <1>7, AddToRootSound
<1>9. ASSUME NEW j \in TableIds \ {ROOT_INODE, id} PROVE Keeps(blk, blk', j)
  <2>1. j \in TableIds /\ ReadInode(d, j) = ReadInode(blk, j)
    BY <1>4
  <2> PICK T : T = {}
    OBVIOUS
  <2>2. \A x \in DataBlocks \ T : d[x] = blk[x]
    BY <1>4
  <2>3. \A r \in Sites : r[1] = j => PointerAt(blk, r) \notin T
    OBVIOUS
  <2>4. Keeps(blk, d, j)
    BY <2>1, <2>2, <2>3, KeepsUntouched
  <2>5. Keeps(d, blk', j)
    BY <1>8
  <2> QED BY <2>4, <2>5, KeepsTransitive
<1>10. ReadInode(blk', id) = NewInode("REGULAR")
  BY <1>2, <1>4, <1>5, <1>8 DEF Keeps
<1>11. \A p \in UsedEntries(blk) : EntryAt(blk', p) = EntryAt(blk, p)
  BY <1>4, <1>8
<1>12. DirectoryFull(d) => DirectoryFull(blk)
  <2>1. DirOf(blk)[0] \in {0} \cup DataBlocks /\ DirOf(d) = DirOf(blk)
    <3>1. DirOf(d) = DirOf(blk)
      BY <1>4, <1>5, DirOfRoot
    <3>2. DirOf(blk)[0] \in {0} \cup data_bm /\ data_bm \subseteq DataBlocks
      BY SoundRoot, Regions DEF Sound
    <3> QED BY <3>1, <3>2
  <2> QED BY <1>4, <2>1 DEF DirectoryFull, FreeEntries
<1>13. \/ \E p : /\ UsedEntries(blk') = UsedEntries(blk) \cup {p}
                 /\ EntryAt(blk', p) = Entry(n, id)
       \/ UsedEntries(blk') = UsedEntries(blk) /\ DirectoryFull(blk)
  BY <1>4, <1>8, <1>12
<1>14. inode_bm' = I
  BY <1>1
<1>15. RootKept(blk, blk')
  BY <1>4, <1>5, <1>8, DirOfRoot DEF RootKept
<1> QED BY <1>2, <1>8, <1>9, <1>10, <1>11, <1>13, <1>14, <1>15

-----------------------------------------------------------------------------
(* write_file.                                                             *)

(* The inode write_file writes, for the contents c and the allocations f.   *)
NewPointers(d, id, f, c) ==
  [ReadInode(d, id) EXCEPT
     !.size   = Len(c),
     !.direct = [i \in DirectIdx |-> IF i < Len(c) THEN ChunkBlocks(f)[i + 1] ELSE 0],
     !.ind    = IF Len(c) > DIRECT_BLOCKS THEN f[DIRECT_BLOCKS + 1] ELSE @]

(* The disk when the chunks, the indirect block and the inode are written.  *)
Chunked(d, id, f, c) ==
  WriteChunks(ZeroBlocks(d, FreedBy(ReadInode(d, id).direct)), ChunkBlocks(f), c)
Indexed(d, id, f, c) ==
  IF Len(c) > DIRECT_BLOCKS
  THEN [Chunked(d, id, f, c) EXCEPT ![f[DIRECT_BLOCKS + 1]] = IndirectBlock(f)]
  ELSE Chunked(d, id, f, c)
Written(d, id, f, c) ==
  WriteInode(Indexed(d, id, f, c), id, Updated(InodeImage(d, id), NewPointers(d, id, f, c)))

(* The blocks an inode's direct pointers give back.                         *)
GivenBack(d, id) == FreedBy(ReadInode(d, id).direct)

(* The action of the module in these terms.                                 *)
LEMMA WriteFileWrites ==
  ASSUME NEW n, NEW c, WriteFile(n, c)
  PROVE  \E id \in IdsOf(n) :
           \E f \in Lowest(FreeData \cup GivenBack(blk, id), Need(c)) :
             /\ blk' = Written(blk, id, f, c)
             /\ data_bm' = (data_bm \ GivenBack(blk, id)) \cup {f[i] : i \in DOMAIN f}
             /\ inode_bm' = inode_bm
             /\ sb' = [sb EXCEPT !.free_blocks =
                          Wrap(@ + FreedCount(ReadInode(blk, id).direct) - Need(c))]
BY DEF WriteFile, Written, Indexed, Chunked, NewPointers, GivenBack

(* The allocator's results are pairwise different.                          *)
LEMMA LowestDiffer ==
  ASSUME NEW S \in SUBSET Int, NEW m \in Nat, NEW f \in Lowest(S, m)
  PROVE  /\ f \in [1 .. m -> S]
         /\ \A i, j \in 1 .. m : f[i] = f[j] => i = j
<1>1. f \in [1 .. m -> S]
  BY LowestType
<1>2. \A i, j \in 1 .. m : i < j => f[i] < f[j]
  BY DEF Lowest
<1>3. ASSUME NEW i \in 1 .. m, NEW j \in 1 .. m, f[i] = f[j] PROVE i = j
  <2>1. f[i] \in Int /\ f[j] \in Int
    BY <1>1
  <2>2. ~ (f[i] < f[j]) /\ ~ (f[j] < f[i])
    BY <1>3, <2>1
  <2> QED BY <1>2, <2>2
<1> QED BY <1>1, <1>3

(* What write_file has on hand: its allocations are free blocks or blocks   *)
(* the file gave back, pairwise different, as many as it needs.             *)
Allocation(d, B, id, c, f) ==
  /\ f \in [1 .. Need(c) -> (DataBlocks \ B) \cup GivenBack(d, id)]
  /\ \A i, j \in 1 .. Need(c) : f[i] = f[j] => i = j

(* The blocks write_file takes.                                             *)
Taken(f) == {f[i] : i \in DOMAIN f}

(* A content needs as many blocks as it has chunks, and one more if it has  *)
(* an indirect block.                                                       *)
LEMMA ContentSize ==
  ASSUME NEW c \in Contents
  PROVE  /\ Len(c) \in Nat \ {0} /\ DIRECT_BLOCKS \in Nat \ {0}
         /\ Need(c) = IF Len(c) > DIRECT_BLOCKS THEN Len(c) + 1 ELSE Len(c)
         /\ Need(c) \in Nat
         /\ SlotCount \in Nat /\ Len(c) <= DIRECT_BLOCKS + SlotCount
<1> DEFINE N == SlotCount
           l == Len(c)
<1>1. c \in Seq(Texts) /\ l \in 1 .. DIRECT_BLOCKS + Cardinality(Slots)
      /\ DIRECT_BLOCKS \in Nat \ {0}
  BY ContentAssumption, Strides
<1>2. N \in Nat /\ Slots = 0 .. N - 1
  BY SlotNumbers
<1> HIDE DEF N
<1>3. Cardinality(Slots) = N
  <2>1. N - 1 \in Int /\ 0 \in Int
    BY <1>2
  <2>2. Cardinality(0 .. N - 1) = IF 0 > N - 1 THEN 0 ELSE (N - 1) - 0 + 1
    BY <2>1, FS_Interval
  <2> QED BY <1>2, <2>2
<1>4. l \in Nat \ {0} /\ l <= DIRECT_BLOCKS + N
  <2> HIDE DEF l
  <2> QED BY <1>1, <1>2, <1>3
<1>5. Need(c) = IF l > DIRECT_BLOCKS THEN l + 1 ELSE l
  <2>1. Need(c) = IF l <= DIRECT_BLOCKS THEN l ELSE l + 1
    BY DEF Need
  <2> HIDE DEF l
  <2> QED BY <1>1, <1>4, <2>1
<1>6. Need(c) \in Nat
  <2> HIDE DEF l
  <2> QED BY <1>4, <1>5
<1> QED BY <1>1, <1>2, <1>4, <1>5, <1>6 DEF N

(* The chunks go to the allocations in order, the indirect block skipped.   *)
Placed(f, c) ==
  /\ DOMAIN f = 1 .. Need(c) /\ f \in [1 .. Need(c) -> DataBlocks]
  /\ ChunkBlocks(f) \in [1 .. Len(c) -> Taken(f)]
  /\ \A k \in 1 .. Len(c) :
       /\ k <= DIRECT_BLOCKS => ChunkBlocks(f)[k] = f[k]
       /\ k > DIRECT_BLOCKS => ChunkBlocks(f)[k] = f[k + 1]
  /\ \A k, l \in 1 .. Len(c) : ChunkBlocks(f)[k] = ChunkBlocks(f)[l] => k = l
  /\ Len(c) > DIRECT_BLOCKS =>
       /\ DIRECT_BLOCKS + 1 \in 1 .. Need(c)
       /\ \A k \in 1 .. Len(c) : ChunkBlocks(f)[k] # f[DIRECT_BLOCKS + 1]

(* An allocation places the chunks.                                         *)
LEMMA ChunkPlaces ==
  ASSUME NEW d, NEW B \in SUBSET DataBlocks, NEW id, NEW c \in Contents,
         GivenBack(d, id) \subseteq DataBlocks,
         NEW f, Allocation(d, B, id, c, f)
  PROVE  Placed(f, c)
<1> DEFINE m == Need(c)
           l == Len(c)
           D == DIRECT_BLOCKS
<1>1. l \in Nat \ {0} /\ D \in Nat \ {0} /\ m = (IF l > D THEN l + 1 ELSE l) /\ m \in Nat
  BY ContentSize
<1>2. f \in [1 .. m -> DataBlocks] /\ \A i, j \in 1 .. m : f[i] = f[j] => i = j
  BY DEF Allocation
<1>3. DOMAIN f = 1 .. m /\ Len(f) = m
  BY <1>1, <1>2
<1>4. ChunkBlocks(f) = [k \in 1 .. (IF m <= D THEN m ELSE m - 1) |-> f[IF k <= D THEN k ELSE k + 1]]
  BY <1>3 DEF ChunkBlocks
<1> HIDE DEF m, l, D
<1>5. (IF m <= D THEN m ELSE m - 1) = l
  BY <1>1
<1>6. ChunkBlocks(f) = [k \in 1 .. l |-> f[IF k <= D THEN k ELSE k + 1]]
  BY <1>4, <1>5
<1>7. \A k \in 1 .. l : (IF k <= D THEN k ELSE k + 1) \in 1 .. m
  BY <1>1
<1> DEFINE bs == ChunkBlocks(f)
<1>8. /\ DOMAIN bs = 1 .. l
      /\ \A k \in 1 .. l : bs[k] = f[IF k <= D THEN k ELSE k + 1]
  BY <1>6
<1>9. bs \in [1 .. l -> Taken(f)]
  <2>1. \A k \in 1 .. l : f[IF k <= D THEN k ELSE k + 1] \in Taken(f)
    BY <1>3, <1>7 DEF Taken
  <2> QED BY <1>6, <2>1
<1> HIDE DEF bs
<1>10. \A k, i \in 1 .. l : bs[k] = bs[i] => k = i
  <2> SUFFICES ASSUME NEW k \in 1 .. l, NEW i \in 1 .. l, bs[k] = bs[i]
               PROVE  k = i
    OBVIOUS
  <2>1. (IF k <= D THEN k ELSE k + 1) = (IF i <= D THEN i ELSE i + 1)
    BY <1>2, <1>7, <1>8
  <2> QED BY <1>1, <2>1
<1>11. l > D => /\ D + 1 \in 1 .. m
                /\ \A k \in 1 .. l : bs[k] # f[D + 1]
  <2> SUFFICES ASSUME l > D
               PROVE  D + 1 \in 1 .. m /\ \A k \in 1 .. l : bs[k] # f[D + 1]
    OBVIOUS
  <2>1. D + 1 \in 1 .. m
    BY <1>1
  <2>2. \A k \in 1 .. l : (IF k <= D THEN k ELSE k + 1) # D + 1
    BY <1>1
  <2> QED BY <1>2, <1>7, <1>8, <2>1, <2>2
<1>12. \A k \in 1 .. l : (k <= D => bs[k] = f[k]) /\ (k > D => bs[k] = f[k + 1])
  BY <1>1, <1>8
<1> QED BY <1>2, <1>3, <1>9, <1>10, <1>11, <1>12 DEF m, l, D, bs, Placed

(* The indirect block holds the allocations that come after it.             *)
LEMMA IndirectBlockReads ==
  ASSUME NEW m \in Nat, NEW f \in [1 .. m -> DataBlocks], DIRECT_BLOCKS \in Nat
  PROVE  /\ IndirectBlock(f) \in BlockImages
         /\ \A s \in Slots : AsPointer(IndirectBlock(f)[s]) =
              IF DIRECT_BLOCKS + 2 + s <= m THEN f[DIRECT_BLOCKS + 2 + s] ELSE 0
<1>1. Len(f) = m
  OBVIOUS
<1>2. ASSUME NEW s \in Slots, DIRECT_BLOCKS + 2 + s <= m
      PROVE  f[DIRECT_BLOCKS + 2 + s] \in DataBlocks
  <2>1. s \in Nat
    BY SlotNumbers
  <2> QED BY <1>2, <2>1
<1>3. IndirectBlock(f) = [s \in Slots |->
                            IF DIRECT_BLOCKS + 2 + s <= m
                            THEN [kind |-> "ptr", ptr |-> f[DIRECT_BLOCKS + 2 + s]]
                            ELSE ZeroCell]
  BY <1>1 DEF IndirectBlock
<1>4. IndirectBlock(f) \in BlockImages
  BY <1>2, <1>3 DEF BlockImages, Cells, PtrCells
<1>5. \A s \in Slots : AsPointer(IndirectBlock(f)[s]) =
        IF DIRECT_BLOCKS + 2 + s <= m THEN f[DIRECT_BLOCKS + 2 + s] ELSE 0
  <2> SUFFICES ASSUME NEW s \in Slots
               PROVE  AsPointer(IndirectBlock(f)[s]) =
                        IF DIRECT_BLOCKS + 2 + s <= m THEN f[DIRECT_BLOCKS + 2 + s] ELSE 0
    OBVIOUS
  <2>1. IndirectBlock(f)[s] = IF DIRECT_BLOCKS + 2 + s <= m
                              THEN [kind |-> "ptr", ptr |-> f[DIRECT_BLOCKS + 2 + s]]
                              ELSE ZeroCell
    BY <1>3
  <2>2. CASE DIRECT_BLOCKS + 2 + s <= m
    BY <2>1, <2>2 DEF AsPointer
  <2>3. CASE ~ (DIRECT_BLOCKS + 2 + s <= m)
    BY <2>1, <2>3 DEF AsPointer, ZeroCell
  <2> QED BY <2>2, <2>3
<1> QED BY <1>4, <1>5

(* The chunks are where their pointers say, and nothing else has changed.   *)
ChunksWritten(d, e, bs, c) ==
  /\ \A b \in FsBlocks : (\A k \in DOMAIN bs : bs[k] # b) => e[b] = d[b]
  /\ \A k \in DOMAIN bs : e[bs[k]] = Chunk(c[k])

(* Chunks written to different blocks do not overwrite each other.          *)
LEMMA WriteChunksReads ==
  ASSUME NEW d, NEW c, NEW bs, \A k \in DOMAIN bs : bs[k] \in FsBlocks,
         \A k, i \in DOMAIN bs : bs[k] = bs[i] => k = i
  PROVE  ChunksWritten(d, WriteChunks(d, bs, c), bs, c)
<1>1. \A b \in FsBlocks :
        WriteChunks(d, bs, c)[b]
          = IF \E k \in DOMAIN bs : bs[k] = b
            THEN Chunk(c[CHOOSE k \in DOMAIN bs : bs[k] = b]) ELSE d[b]
  BY DEF WriteChunks
<1>2. ASSUME NEW k \in DOMAIN bs
      PROVE  WriteChunks(d, bs, c)[bs[k]] = Chunk(c[k])
  <2>1. bs[k] \in FsBlocks
    OBVIOUS
  <2>2. (CHOOSE i \in DOMAIN bs : bs[i] = bs[k]) = k
    OBVIOUS
  <2> QED BY <1>1, <2>1, <2>2
<1> QED BY <1>1, <1>2 DEF ChunksWritten

(* Blocks outside those given back and those taken are as they were, and    *)
(* the chunks are where the pointers say.                                   *)
IndexWritten(d, e, id, f, c) ==
  /\ \A b \in FsBlocks \ (GivenBack(d, id) \cup Taken(f)) : e[b] = d[b]
  /\ \A k \in 1 .. Len(c) : e[ChunkBlocks(f)[k]] = Chunk(c[k])
  /\ Len(c) > DIRECT_BLOCKS => e[f[DIRECT_BLOCKS + 1]] = IndirectBlock(f)

(* Nor does the indirect block overwrite any of them.                       *)
LEMMA IndexedReads ==
  ASSUME NEW d \in Disks, NEW B \in SUBSET DataBlocks, NEW id, NEW c \in Contents,
         GivenBack(d, id) \subseteq DataBlocks,
         NEW f, Allocation(d, B, id, c, f)
  PROVE  /\ Indexed(d, id, f, c) \in Disks
         /\ IndexWritten(d, Indexed(d, id, f, c), id, f, c)
<1> DEFINE G  == GivenBack(d, id)
           T  == Taken(f)
           l  == Len(c)
           D  == DIRECT_BLOCKS
           bs == ChunkBlocks(f)
           d1 == ZeroBlocks(d, G)
           d2 == WriteChunks(d1, bs, c)
           e  == Indexed(d, id, f, c)
<1>1. /\ l \in Nat \ {0} /\ D \in Nat \ {0} /\ Need(c) \in Nat
  BY ContentSize
<1>2. /\ DOMAIN f = 1 .. Need(c)
      /\ f \in [1 .. Need(c) -> DataBlocks]
      /\ bs \in [1 .. l -> T]
      /\ \A k, i \in 1 .. l : bs[k] = bs[i] => k = i
      /\ l > D => D + 1 \in 1 .. Need(c) /\ \A k \in 1 .. l : bs[k] # f[D + 1]
  <2>1. Placed(f, c)
    BY ChunkPlaces
  <2> QED BY <2>1 DEF Placed
<1>3. T \subseteq DataBlocks /\ T \subseteq FsBlocks
  BY <1>2, Regions DEF Taken
<1>4. d1 \in Disks /\ \A b \in FsBlocks \ G : d1[b] = d[b]
  <2>1. G \in SUBSET DataBlocks
    OBVIOUS
  <2> QED BY <2>1, ZeroBlocksType, ZeroBlocksReads
<1>5. e = IF l > D THEN [d2 EXCEPT ![f[D + 1]] = IndirectBlock(f)] ELSE d2
  BY DEF Indexed, Chunked, GivenBack
<1> HIDE DEF l, bs, d1, D
<1>6. d2 \in Disks
  <2>1. bs \in [1 .. l -> DataBlocks]
    BY <1>2, <1>3
  <2> QED BY <1>1, <1>4, <2>1, WriteChunksType DEF l
<1>7. /\ \A b \in FsBlocks : (\A k \in 1 .. l : bs[k] # b) => d2[b] = d1[b]
      /\ \A k \in 1 .. l : d2[bs[k]] = Chunk(c[k])
  <2>1. DOMAIN bs = 1 .. l /\ \A k \in DOMAIN bs : bs[k] \in FsBlocks
    BY <1>2, <1>3
  <2>2. \A k, i \in DOMAIN bs : bs[k] = bs[i] => k = i
    BY <1>2
  <2>3. ChunksWritten(d1, d2, bs, c)
    BY <2>1, <2>2, WriteChunksReads
  <2> HIDE DEF d2
  <2> QED BY <2>1, <2>3 DEF ChunksWritten
<1>8. IndirectBlock(f) \in BlockImages
  BY <1>1, <1>2, IndirectBlockReads DEF D
<1> HIDE DEF d2, e
<1>9. e \in Disks
  BY <1>5, <1>6, <1>8 DEF Disks
<1>10. \A b \in FsBlocks \ (G \cup T) : e[b] = d[b]
  <2> SUFFICES ASSUME NEW b \in FsBlocks, b \notin G, b \notin T
               PROVE  e[b] = d[b]
    OBVIOUS
  <2>1. d2[b] = d[b]
    BY <1>2, <1>4, <1>7
  <2>2. l > D => f[D + 1] # b
    BY <1>2 DEF Taken
  <2> QED BY <1>5, <1>6, <2>1, <2>2 DEF Disks
<1>11. ASSUME NEW k \in 1 .. l PROVE e[bs[k]] = Chunk(c[k])
  <2>1. d2[bs[k]] = Chunk(c[k]) /\ bs[k] \in FsBlocks
    BY <1>2, <1>3, <1>7
  <2>2. l > D => f[D + 1] # bs[k]
    BY <1>2
  <2> QED BY <1>5, <1>6, <2>1, <2>2 DEF Disks
<1>12. l > D => e[f[D + 1]] = IndirectBlock(f)
  <2>1. l > D => f[D + 1] \in FsBlocks
    BY <1>2, <1>3 DEF Taken
  <2> QED BY <1>5, <1>6, <2>1 DEF Disks
<1> QED BY <1>9, <1>10, <1>11, <1>12 DEF l, D, bs, e, IndexWritten

(* The new inode and the disk it is written to.                             *)
LEMMA WrittenReads ==
  ASSUME NEW d, NEW I, NEW B, Sound(d, I, B), NEW id \in TableIds, NEW c \in Contents,
         NEW f, Allocation(d, B, id, c, f)
  PROVE  LET e   == Written(d, id, f, c)
             ino == ReadInode(d, id)
             new == NewPointers(d, id, f, c)
         IN  /\ e \in Disks /\ ReadInode(e, id) = new
             /\ new.type = ino.type /\ new.size = Len(c)
             /\ \A i \in DirectIdx : new.direct[i] = IF i < Len(c) THEN f[i + 1] ELSE 0
             /\ new.ind = IF Len(c) > DIRECT_BLOCKS THEN f[DIRECT_BLOCKS + 1] ELSE ino.ind
             /\ \A j \in TableIds \ {id} : ReadInode(e, j) = ReadInode(d, j)
             /\ \A b \in DataBlocks \ (GivenBack(d, id) \cup Taken(f)) : e[b] = d[b]
             /\ \A k \in 1 .. Len(c) : e[ChunkBlocks(f)[k]] = Chunk(c[k])
             /\ Len(c) > DIRECT_BLOCKS => e[f[DIRECT_BLOCKS + 1]] = IndirectBlock(f)
<1> DEFINE e   == Written(d, id, f, c)
           d3  == Indexed(d, id, f, c)
           ino == ReadInode(d, id)
           new == NewPointers(d, id, f, c)
           G   == GivenBack(d, id)
           l   == Len(c)
           D   == DIRECT_BLOCKS
           bs  == ChunkBlocks(f)
           direct == [i \in DirectIdx |-> IF i < l THEN bs[i + 1] ELSE 0]
           ind    == IF l > D THEN f[D + 1] ELSE ino.ind
           l2     == Updated(InodeImage(d, id), new)
<1>1. /\ d \in Disks /\ B \in SUBSET DataBlocks /\ ino \in Inodes
      /\ ino.direct \in [DirectIdx -> {0} \cup B] /\ ino.ind \in {0} \cup B
  BY SoundInode DEF Sound
<1>2. /\ l \in Nat \ {0} /\ D \in Nat \ {0} /\ Need(c) \in Nat
  BY ContentSize
<1>3. G \subseteq DataBlocks
  <2>1. FreedBy(ino.direct) \subseteq Owned(d, id) /\ Owned(d, id) \subseteq B
    BY OwnedAreAllocated DEF Owned
  <2> QED BY <1>1, <2>1 DEF GivenBack
<1>4. /\ DOMAIN f = 1 .. Need(c)
      /\ f \in [1 .. Need(c) -> DataBlocks]
      /\ bs \in [1 .. l -> Taken(f)]
      /\ \A k \in 1 .. l : k <= D => bs[k] = f[k]
      /\ l > D => D + 1 \in 1 .. Need(c)
  <2>1. Placed(f, c)
    BY <1>1, <1>3, ChunkPlaces
  <2> QED BY <2>1 DEF Placed
<1>5. /\ d3 \in Disks
      /\ \A b \in FsBlocks \ (G \cup Taken(f)) : d3[b] = d[b]
      /\ \A k \in 1 .. l : d3[bs[k]] = Chunk(c[k])
      /\ l > D => d3[f[D + 1]] = IndirectBlock(f)
  <2>1. d3 \in Disks /\ IndexWritten(d, d3, id, f, c)
    BY <1>1, <1>3, IndexedReads
  <2> HIDE DEF d3
  <2> QED BY <2>1 DEF IndexWritten
<1>6. Taken(f) \subseteq DataBlocks
  BY <1>4 DEF Taken
<1>7. new = [ino EXCEPT !.size = l, !.direct = direct, !.ind = ind]
  BY DEF NewPointers
<1> HIDE DEF l2
<1> HIDE DEF new, ino, d3, l, D, bs, G
<1>8. \A i \in DirectIdx : i < l => i + 1 \in 1 .. l /\ i + 1 <= D
  BY <1>2 DEF DirectIdx, D
<1>9. \A i \in DirectIdx : direct[i] = (IF i < l THEN f[i + 1] ELSE 0)
                           /\ direct[i] \in {0} \cup DataBlocks
  <2>1. \A i \in DirectIdx : direct[i] = IF i < l THEN f[i + 1] ELSE 0
    BY <1>4, <1>8
  <2>2. \A i \in DirectIdx : direct[i] \in {0} \cup DataBlocks
    BY <1>4, <1>6, <1>8
  <2> QED BY <2>1, <2>2
<1>10. ind \in {0} \cup DataBlocks
  BY <1>1, <1>4
<1> HIDE DEF ind
<1>11. /\ new.direct = direct /\ new.ind = ind /\ new.size = l /\ new.type = ino.type
       /\ l2 \in InodeImages /\ AsInode(l2) = new
  <2>1. direct \in [DirectIdx -> Pointers]
    BY <1>9, Regions DEF Pointers
  <2> HIDE DEF direct
  <2>2. ind \in Pointers
    BY <1>10, Regions DEF Pointers
  <2>3. /\ new.direct = direct /\ new.ind = ind /\ new.size = l /\ new.type = ino.type
        /\ new \in Inodes
    BY <1>1, <1>2, <1>7, <2>1, <2>2 DEF Inodes
  <2>4. InodeImage(d, id) \in InodeImages
    BY <1>1, TableIdIsId, InodeImageType
  <2> QED BY <2>3, <2>4, UpdatedInode DEF l2
<1> HIDE DEF direct
<1>12. /\ e \in Disks /\ ReadInode(e, id) = new
       /\ \A j \in TableIds \ {id} : ReadInode(e, j) = ReadInode(d3, j)
       /\ \A b \in DataBlocks : e[b] = d3[b]
  BY <1>5, <1>11, WriteInodeReads, WriteInodeType DEF Written, new, l2, d3
<1> HIDE DEF e
<1>13. ASSUME NEW j \in TableIds \ {id} PROVE ReadInode(e, j) = ReadInode(d, j)
  <2>1. \A b \in InodeTable : d3[b] = d[b]
    <3>1. InodeTable \subseteq FsBlocks /\ InodeTable \cap DataBlocks = {}
      BY Regions, GeometryAssumption DEF InodeTable, DataBlocks, DATA_START_BLOCK, INODE_TABLE_START
    <3> QED BY <1>3, <1>5, <1>6, <3>1
  <2>2. ReadInode(d3, j) = ReadInode(d, j)
    BY <2>1, SameTable
  <2> QED BY <1>12, <2>2
<1>14. \A b \in DataBlocks \ (G \cup Taken(f)) : e[b] = d[b]
  BY <1>5, <1>12, Regions
<1>15. \A k \in 1 .. l : e[bs[k]] = Chunk(c[k])
  BY <1>4, <1>5, <1>6, <1>12
<1>16. l > D => e[f[D + 1]] = IndirectBlock(f)
  BY <1>4, <1>5, <1>12
<1> QED BY <1>9, <1>11, <1>12, <1>13, <1>14, <1>15, <1>16 DEF e, ino, new, l, D, bs, G, ind

(* No pointer but the file's direct ones reaches a block that is given back *)
(* or taken.                                                                *)
LEMMA WriteSpares ==
  ASSUME NEW d, NEW I, NEW B, Sound(d, I, B), NEW id \in TableIds, NEW c,
         NEW f, Allocation(d, B, id, c, f), DOMAIN f = 1 .. Need(c),
         NEW r \in Sites, \A i \in DirectIdx : r # DirectSite(id, i)
  PROVE  PointerAt(d, r) \notin GivenBack(d, id) \cup Taken(f)
<1> DEFINE ino == ReadInode(d, id)
           G   == GivenBack(d, id)
<1>1. /\ \A q, t \in Sites : PointerAt(d, q) # 0 /\ PointerAt(d, t) = PointerAt(d, q) => t = q
      /\ PointerAt(d, r) \in {0} \cup B /\ B \subseteq DataBlocks
  BY DEF Sound, Unshared, Allocated
<1>2. G \subseteq {ino.direct[i] : i \in DirectIdx} \ {0}
  BY OwnedAreAllocated DEF GivenBack
<1>3. \A i \in DirectIdx : /\ DirectSite(id, i) \in Sites
                           /\ PointerAt(d, DirectSite(id, i)) = ino.direct[i]
  BY SiteOf, PointerAtSite
<1>4. PointerAt(d, r) \notin G
  <2> HIDE DEF ino, G
  <2> QED BY <1>1, <1>2, <1>3
<1>5. Taken(f) \subseteq (DataBlocks \ B) \cup G
  BY DEF Taken, Allocation
<1>6. PointerAt(d, r) \notin Taken(f)
  <2> HIDE DEF G
  <2> QED BY <1>1, <1>4, <1>5, Regions
<1> QED BY <1>4, <1>6

(* Where in the sequence of allocations a pointer of the file comes from.   *)
Place(r) == IF r[2][1] = "direct" THEN r[2][2] + 1
            ELSE IF r[2][1] = "pointer" THEN DIRECT_BLOCKS + 2 + r[2][2]
            ELSE DIRECT_BLOCKS + 1

(* The place in the allocation of each site of the file.                    *)
LEMMA PlaceOfSite ==
  ASSUME NEW id
  PROVE  /\ \A i \in DirectIdx : Place(DirectSite(id, i)) = i + 1
         /\ \A s \in Slots : Place(PointerSite(id, s)) = DIRECT_BLOCKS + 2 + s
         /\ Place(IndirectSite(id)) = DIRECT_BLOCKS + 1
BY DEF Place, DirectSite, PointerSite, IndirectSite

(* No two sites of a file have the same place.                              *)
LEMMA PlacesDiffer ==
  ASSUME NEW r \in Sites, NEW q \in Sites, r[1] = q[1], Place(r) = Place(q)
  PROVE  r = q
<1> DEFINE id == r[1]
<1>1. DIRECT_BLOCKS \in Nat /\ DirectIdx = 0 .. DIRECT_BLOCKS - 1 /\ Slots \subseteq Nat
  BY GeometryAssumption, SlotNumbers DEF DirectIdx
<1>2. \/ \E i \in DirectIdx : r = DirectSite(id, i)
      \/ \E s \in Slots : r = PointerSite(id, s)
      \/ r = IndirectSite(id)
  BY SiteCases
<1>3. \/ \E i \in DirectIdx : q = DirectSite(id, i)
      \/ \E s \in Slots : q = PointerSite(id, s)
      \/ q = IndirectSite(id)
  BY SiteCases
<1> HIDE DEF id
<1>4. /\ \A i \in DirectIdx : r = DirectSite(id, i) => Place(r) = i + 1
      /\ \A s \in Slots : r = PointerSite(id, s) => Place(r) = DIRECT_BLOCKS + 2 + s
      /\ r = IndirectSite(id) => Place(r) = DIRECT_BLOCKS + 1
  BY PlaceOfSite
<1>5. /\ \A i \in DirectIdx : q = DirectSite(id, i) => Place(q) = i + 1
      /\ \A s \in Slots : q = PointerSite(id, s) => Place(q) = DIRECT_BLOCKS + 2 + s
      /\ q = IndirectSite(id) => Place(q) = DIRECT_BLOCKS + 1
  BY PlaceOfSite
<1>6. CASE \E i \in DirectIdx : r = DirectSite(id, i)
  BY <1>1, <1>3, <1>4, <1>5, <1>6
<1>7. CASE \E s \in Slots : r = PointerSite(id, s)
  BY <1>1, <1>3, <1>4, <1>5, <1>7
<1>8. CASE r = IndirectSite(id)
  BY <1>1, <1>3, <1>4, <1>5, <1>8
<1> QED BY <1>2, <1>6, <1>7, <1>8

(* The pointers of the written file.                                        *)
LEMMA WrittenPointers ==
  ASSUME NEW d, NEW I, NEW B, Sound(d, I, B), NEW id \in TableIds, NEW c \in Contents,
         NEW f, Allocation(d, B, id, c, f), NEW r \in Sites, r[1] = id
  PROVE  LET e == Written(d, id, f, c)
         IN  \/ PointerAt(e, r) = 0
             \/ Place(r) \in DOMAIN f /\ PointerAt(e, r) = f[Place(r)]
             \/ /\ PointerAt(e, r) = PointerAt(d, r)
                /\ PointerAt(d, r) \notin GivenBack(d, id) \cup Taken(f)
<1> DEFINE e   == Written(d, id, f, c)
           ino == ReadInode(d, id)
           new == NewPointers(d, id, f, c)
           l   == Len(c)
           m   == Need(c)
           D   == DIRECT_BLOCKS
<1>1. /\ l \in Nat \ {0} /\ D \in Nat \ {0} /\ m \in Nat
      /\ m = IF l > D THEN l + 1 ELSE l
  BY ContentSize
<1>2. /\ ReadInode(e, id) = new
      /\ \A i \in DirectIdx : new.direct[i] = IF i < l THEN f[i + 1] ELSE 0
      /\ new.ind = IF l > D THEN f[D + 1] ELSE ino.ind
      /\ \A b \in DataBlocks \ (GivenBack(d, id) \cup Taken(f)) : e[b] = d[b]
      /\ l > D => e[f[D + 1]] = IndirectBlock(f)
  BY WrittenReads
<1>3. DOMAIN f = 1 .. m /\ f \in [1 .. m -> DataBlocks] /\ (l > D => D + 1 \in 1 .. m)
  <2>1. GivenBack(d, id) \subseteq DataBlocks /\ B \subseteq DataBlocks
    <3>1. GivenBack(d, id) \subseteq Owned(d, id) /\ Owned(d, id) \subseteq B
      BY OwnedAreAllocated DEF Owned, GivenBack
    <3> QED BY <3>1 DEF Sound
  <2>2. Placed(f, c)
    BY <2>1, ChunkPlaces
  <2> QED BY <2>2 DEF Placed
<1> HIDE DEF e, ino, new, l, m, D
<1>4. ASSUME NEW i \in DirectIdx, r = DirectSite(id, i)
      PROVE  \/ PointerAt(e, r) = 0
             \/ Place(r) \in DOMAIN f /\ PointerAt(e, r) = f[Place(r)]
  <2>1. PointerAt(e, r) = (IF i < l THEN f[i + 1] ELSE 0) /\ Place(r) = i + 1
    BY <1>2, <1>4, PointerAtSite, PlaceOfSite
  <2>2. i < l => i + 1 \in 1 .. m
    BY <1>1 DEF DirectIdx, D
  <2> QED BY <1>3, <2>1, <2>2
<1>5. ASSUME l <= D, \A i \in DirectIdx : r # DirectSite(id, i)
      PROVE  /\ PointerAt(e, r) = PointerAt(d, r)
             /\ PointerAt(d, r) \notin GivenBack(d, id) \cup Taken(f)
  <2>1. new.ind = ino.ind
    BY <1>1, <1>2, <1>5
  <2>2. PointerAt(d, r) \notin GivenBack(d, id) \cup Taken(f)
    BY <1>3, <1>5, WriteSpares DEF m
  <2>3. ino.ind \notin GivenBack(d, id) \cup Taken(f)
    <3>1. /\ IndirectSite(id) \in Sites /\ PointerAt(d, IndirectSite(id)) = ino.ind
          /\ \A i \in DirectIdx : IndirectSite(id) # DirectSite(id, i)
      BY SiteOf, PointerAtSite DEF ino, IndirectSite, DirectSite
    <3> QED BY <1>3, <3>1, WriteSpares DEF m
  <2>4. PointersOf(e, ino.ind) = PointersOf(d, ino.ind)
    <3>1. ino.ind \in FsBlocks => e[ino.ind] = d[ino.ind]
      BY <1>2, <2>3, SoundIndirect DEF ino
    <3> QED BY <3>1 DEF PointersOf
  <2>5. \/ \E s \in Slots : r = PointerSite(id, s)
        \/ r = IndirectSite(id)
    BY <1>5, SiteCases
  <2>6. ReadInode(e, id).ind = ReadInode(d, id).ind
    BY <1>2, <2>1 DEF ino
  <2>7. PointerAt(e, r) = PointerAt(d, r)
    BY <2>4, <2>5, <2>6, PointerAtSite DEF ino
  <2> QED BY <2>2, <2>7
<1>6. ASSUME l > D, r = IndirectSite(id)
      PROVE  Place(r) \in DOMAIN f /\ PointerAt(e, r) = f[Place(r)]
  BY <1>2, <1>3, <1>6, PointerAtSite, PlaceOfSite DEF D
<1>7. ASSUME l > D, NEW s \in Slots, r = PointerSite(id, s)
      PROVE  \/ PointerAt(e, r) = 0
             \/ Place(r) \in DOMAIN f /\ PointerAt(e, r) = f[Place(r)]
  <2>1. new.ind = f[D + 1] /\ f[D + 1] \in DataBlocks /\ e[f[D + 1]] = IndirectBlock(f)
    BY <1>2, <1>3, <1>7
  <2>2. PointerAt(e, r) = AsPointer(IndirectBlock(f)[s])
    <3>1. PointerAt(e, r) = PointersOf(e, f[D + 1])[s]
      BY <1>2, <1>7, <2>1, PointerAtSite
    <3> QED BY <2>1, <3>1, Regions DEF PointersOf
  <2>3. AsPointer(IndirectBlock(f)[s]) = IF D + 2 + s <= m THEN f[D + 2 + s] ELSE 0
    BY <1>1, <1>3, IndirectBlockReads DEF D
  <2>4. Place(r) = D + 2 + s
    BY <1>7, PlaceOfSite DEF D
  <2>5. D + 2 + s <= m => D + 2 + s \in 1 .. m
    BY <1>1, SlotNumbers
  <2> QED BY <1>3, <2>2, <2>3, <2>4, <2>5
<1>8. \/ \E i \in DirectIdx : r = DirectSite(id, i)
      \/ \E s \in Slots : r = PointerSite(id, s)
      \/ r = IndirectSite(id)
  BY SiteCases
<1>9. l <= D \/ l > D
  BY <1>1
<1>10. \/ PointerAt(e, r) = 0
       \/ Place(r) \in DOMAIN f /\ PointerAt(e, r) = f[Place(r)]
       \/ /\ PointerAt(e, r) = PointerAt(d, r)
          /\ PointerAt(d, r) \notin GivenBack(d, id) \cup Taken(f)
  BY <1>4, <1>5, <1>6, <1>7, <1>8, <1>9, Zenon
<1> QED BY <1>10 DEF e

(* A change of one file that keeps the directory and the other inodes.      *)
ChangesOnly(d, e, id) ==
  /\ \A j \in TableIds \ {id} : Keeps(d, e, j)
  /\ UsedEntries(e) = UsedEntries(d)
  /\ \A p \in UsedEntries(d) : EntryAt(e, p) = EntryAt(d, p)
  /\ \A n : Matches(e, n) = Matches(d, n)

(* write_file keeps the disk sound and changes one file.                    *)
LEMMA WrittenSound ==
  ASSUME NEW d, NEW I, NEW B, Sound(d, I, B), NEW id \in TableIds \ {ROOT_INODE},
         ReadInode(d, id).type = "REGULAR", NEW c \in Contents,
         NEW f, Allocation(d, B, id, c, f)
  PROVE  LET e == Written(d, id, f, c)
         IN  /\ Sound(e, I, (B \ GivenBack(d, id)) \cup Taken(f))
             /\ ChangesOnly(d, e, id)
<1> DEFINE e == Written(d, id, f, c)
           G == GivenBack(d, id)
           T == Taken(f)
<1>1. /\ d \in Disks /\ B \subseteq DataBlocks /\ I \subseteq TableIds /\ ROOT_INODE \in I
      /\ Unshared(d) /\ Allocated(d, B)
      /\ GoodEntries(d, I) /\ Distinct(d)
  BY DEF Sound
<1>2. /\ e \in Disks
      /\ ReadInode(e, id).type = "REGULAR"
      /\ \A j \in TableIds \ {id} : ReadInode(e, j) = ReadInode(d, j)
      /\ \A b \in DataBlocks \ (G \cup T) : e[b] = d[b]
  BY WrittenReads
<1>3. /\ DOMAIN f = 1 .. Need(c) /\ T \subseteq DataBlocks
      /\ \A i, j \in 1 .. Need(c) : f[i] = f[j] => i = j
  <2>1. GivenBack(d, id) \subseteq DataBlocks
    <3>1. GivenBack(d, id) \subseteq Owned(d, id) /\ Owned(d, id) \subseteq B
      BY OwnedAreAllocated DEF Owned, GivenBack
    <3> QED BY <1>1, <3>1
  <2>2. Placed(f, c)
    BY <1>1, <2>1, ChunkPlaces
  <2>3. DOMAIN f = 1 .. Need(c) /\ \A i \in DOMAIN f : f[i] \in DataBlocks
    BY <2>2 DEF Placed
  <2> QED BY <2>3 DEF Taken, Allocation
<1> HIDE DEF e, G, T
<1>4. ASSUME NEW r \in Sites, r[1] # id
      PROVE  PointerAt(d, r) \notin G \cup T
  <2>1. \A i \in DirectIdx : r # DirectSite(id, i)
    BY <1>4 DEF DirectSite
  <2> QED BY <1>3, <2>1, WriteSpares DEF G, T
<1>5. ASSUME NEW j \in TableIds \ {id} PROVE Keeps(d, e, j)
  <2>1. \A r \in Sites : r[1] = j => PointerAt(d, r) \notin G \cup T
    BY <1>4
  <2> QED BY <1>2, <2>1, KeepsUntouched
<1>6. ASSUME NEW r \in Sites, r[1] # id
      PROVE  PointerAt(e, r) = PointerAt(d, r)
  BY <1>5, <1>6, SiteCases DEF Keeps
<1>7. ASSUME NEW r \in Sites, r[1] = id
      PROVE  \/ PointerAt(e, r) = 0
             \/ Place(r) \in DOMAIN f /\ PointerAt(e, r) = f[Place(r)] /\ PointerAt(e, r) \in T
             \/ PointerAt(e, r) = PointerAt(d, r) /\ PointerAt(e, r) \notin G \cup T
  <2>1. \/ PointerAt(e, r) = 0
        \/ Place(r) \in DOMAIN f /\ PointerAt(e, r) = f[Place(r)]
        \/ PointerAt(e, r) = PointerAt(d, r) /\ PointerAt(d, r) \notin G \cup T
    BY <1>7, WrittenPointers DEF e, G, T
  <2> QED BY <2>1 DEF Taken, T
<1>8. Unshared(e)
  <2>1. \A r \in Sites : \/ PointerAt(e, r) = 0
                         \/ PointerAt(e, r) \in T
                         \/ PointerAt(e, r) = PointerAt(d, r) /\ PointerAt(e, r) \notin T
    BY <1>4, <1>6, <1>7
  <2>2. ASSUME NEW r \in Sites, NEW q \in Sites, PointerAt(e, r) \in T,
               PointerAt(e, q) = PointerAt(e, r)
        PROVE  q = r
    <3>1. r[1] = id /\ q[1] = id
      BY <1>4, <1>6, <2>2
    <3>2. PointerAt(e, r) # 0
      BY <1>3, <2>2, Regions
    <3>3. /\ Place(r) \in DOMAIN f /\ PointerAt(e, r) = f[Place(r)]
          /\ Place(q) \in DOMAIN f /\ PointerAt(e, q) = f[Place(q)]
      BY <1>7, <2>2, <3>1, <3>2
    <3>4. Place(r) = Place(q)
      BY <1>3, <2>2, <3>3
    <3> QED BY <3>1, <3>4, PlacesDiffer
  <2> QED BY <1>1, <2>1, <2>2, StaysUnshared
<1>9. Allocated(e, (B \ G) \cup T)
  <2>1. \A r \in Sites : PointerAt(d, r) \in {0} \cup B
    BY <1>1 DEF Allocated
  <2>2. ASSUME NEW r \in Sites PROVE PointerAt(e, r) \in {0} \cup (B \ G) \cup T
    <3>1. CASE r[1] = id
      BY <1>7, <2>1, <3>1
    <3>2. CASE r[1] # id
      BY <1>4, <1>6, <2>1, <3>2
    <3> QED BY <3>1, <3>2
  <2> QED BY <2>2 DEF Allocated
<1>10. DirOf(e) = DirOf(d)
  BY <1>1, <1>2, DirOfRoot
<1>11. /\ UsedEntries(e) = UsedEntries(d)
       /\ \A p \in UsedEntries(d) : EntryAt(e, p) = EntryAt(d, p)
       /\ \A n : Matches(e, n) = Matches(d, n)
  <2>1. \A i \in DirectIdx : DirOf(d)[i] # 0 => e[DirOf(d)[i]] = d[DirOf(d)[i]]
    <3>1. ROOT_INODE \in TableIds \ {id}
      BY <1>1
    <3>2. \A i \in DirectIdx : /\ DirectSite(ROOT_INODE, i) \in Sites
                               /\ DirectSite(ROOT_INODE, i)[1] = ROOT_INODE
                               /\ PointerAt(d, DirectSite(ROOT_INODE, i)) = DirOf(d)[i]
      BY <3>1, SiteOf, PointerAtSite, DirOfRoot DEF DirectSite
    <3> QED BY <1>5, <3>1, <3>2 DEF Keeps
  <2> QED BY <1>10, <2>1, SameDirectory
<1>12. GoodEntries(e, I)
  <2> SUFFICES ASSUME NEW p \in UsedEntries(e)
               PROVE  /\ EntryAt(e, p) \in Dirents
                      /\ EntryAt(e, p).id \in I
                      /\ ReadInode(e, EntryAt(e, p).id).type = "REGULAR"
    BY DEF GoodEntries
  <2>1. EntryAt(e, p) = EntryAt(d, p) /\ p \in UsedEntries(d)
    BY <1>11
  <2>2. /\ EntryAt(d, p) \in Dirents /\ EntryAt(d, p).id \in I
        /\ ReadInode(d, EntryAt(d, p).id).type = "REGULAR"
    BY <1>1, <2>1 DEF GoodEntries
  <2> QED BY <1>1, <1>2, <2>1, <2>2
<1>13. Distinct(e)
  BY <1>1, <1>11 DEF Distinct
<1>14. Sound(e, I, (B \ G) \cup T)
  <2>1. (B \ G) \cup T \subseteq DataBlocks
    BY <1>1, <1>3
  <2> QED BY <1>1, <1>2, <1>8, <1>9, <1>10, <1>12, <1>13, <2>1 DEF Sound
<1> QED BY <1>5, <1>11, <1>14 DEF e, G, T, ChangesOnly

(* write_file.                                                              *)
LEMMA WriteFileSound ==
  ASSUME Sound(blk, inode_bm, data_bm), NEW n, NEW c \in Contents, WriteFile(n, c)
  PROVE  \E id, f :
           /\ id \in IdsOf(n)
           /\ id \in TableIds \ {ROOT_INODE}
           /\ Allocation(blk, data_bm, id, c, f)
           /\ blk' = Written(blk, id, f, c)
           /\ data_bm' = (data_bm \ GivenBack(blk, id)) \cup Taken(f)
           /\ inode_bm' = inode_bm
           /\ sb' = [sb EXCEPT !.free_blocks =
                        Wrap(@ + FreedCount(ReadInode(blk, id).direct) - Need(c))]
           /\ Sound(blk', inode_bm', data_bm')
           /\ ChangesOnly(blk, blk', id)
<1>1. PICK id \in IdsOf(n) :
        \E f \in Lowest(FreeData \cup GivenBack(blk, id), Need(c)) :
          /\ blk' = Written(blk, id, f, c)
          /\ data_bm' = (data_bm \ GivenBack(blk, id)) \cup {f[i] : i \in DOMAIN f}
          /\ inode_bm' = inode_bm
          /\ sb' = [sb EXCEPT !.free_blocks =
                       Wrap(@ + FreedCount(ReadInode(blk, id).direct) - Need(c))]
  BY WriteFileWrites
<1>2. PICK f \in Lowest(FreeData \cup GivenBack(blk, id), Need(c)) :
          /\ blk' = Written(blk, id, f, c)
          /\ data_bm' = (data_bm \ GivenBack(blk, id)) \cup Taken(f)
          /\ inode_bm' = inode_bm
          /\ sb' = [sb EXCEPT !.free_blocks =
                       Wrap(@ + FreedCount(ReadInode(blk, id).direct) - Need(c))]
  BY <1>1 DEF Taken
<1>3. id \in TableIds \ {ROOT_INODE} /\ ReadInode(blk, id).type = "REGULAR"
  BY SoundName
<1>4. Allocation(blk, data_bm, id, c, f)
  <2>1. GivenBack(blk, id) \subseteq DataBlocks
    <3>1. GivenBack(blk, id) \subseteq Owned(blk, id) /\ Owned(blk, id) \subseteq data_bm
      BY <1>3, OwnedAreAllocated DEF Owned, GivenBack
    <3> QED BY <3>1 DEF Sound
  <2>2. FreeData \cup GivenBack(blk, id) \in SUBSET Int
    BY <2>1, Regions DEF FreeData, DataBlocks
  <2>3. Need(c) \in Nat
    BY ContentSize
  <2>4. /\ f \in [1 .. Need(c) -> FreeData \cup GivenBack(blk, id)]
        /\ \A i, j \in 1 .. Need(c) : f[i] = f[j] => i = j
    BY <2>2, <2>3, LowestDiffer
  <2> QED BY <2>4 DEF Allocation, FreeData
<1>5. /\ Sound(Written(blk, id, f, c), inode_bm, (data_bm \ GivenBack(blk, id)) \cup Taken(f))
      /\ ChangesOnly(blk, Written(blk, id, f, c), id)
  BY <1>3, <1>4, WrittenSound
<1> QED BY <1>2, <1>3, <1>4, <1>5

=============================================================================

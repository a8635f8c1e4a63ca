--------------------------- MODULE DashboardProofs ---------------------------
(* Theorems about Dashboard, for every number of names, sizes, blocks,      *)
(* inodes and pending fscks.                                                *)
EXTENDS Dashboard, FiniteSetTheorems, SequenceTheorems, TLAPS

(* Accounts needs that a file lists no block twice, for defragment counts   *)
(* list entries and deletion removes blocks.                                *)
NoBlockTwice ==
  \A i \in DOMAIN files : \A j, k \in DOMAIN files[i].blockNums :
    files[i].blockNums[j] = files[i].blockNums[k] => j = k

(* A crash corrupts at least one block of a file, which must be there.      *)
EveryFileHasABlock == \A i \in DOMAIN files : Len(files[i].blockNums) >= 1

IInv == TypeOK /\ Accounts /\ NoBlockTwice /\ EveryFileHasABlock

-----------------------------------------------------------------------------
LEMMA FreeCount ==
  ASSUME NEW used
  PROVE  /\ IsFiniteSet(DiskBlocks \ used)
         /\ Cardinality(DiskBlocks \ used) \in Nat
<1>1. IsFiniteSet(DiskBlocks)
  BY FS_Interval, DashboardAssumption DEF DiskBlocks, FIRST_BLOCK
<1> QED BY <1>1, FS_Difference, FS_CardinalityType

(* What the allocator returns: free blocks, pairwise different.             *)
LEMMA AllocatedFree ==
  ASSUME NEW used \in SUBSET DiskBlocks, NEW k \in Nat, NEW bs \in Allocated(used, k)
  PROVE  /\ bs \in Seq(DiskBlocks)
         /\ BlockSet(bs) \subseteq DiskBlocks \ used
         /\ \A i, j \in DOMAIN bs : bs[i] = bs[j] => i = j
         /\ Len(bs) = Least(k, Cardinality(DiskBlocks \ used))
<1> DEFINE free == DiskBlocks \ used
           m    == Least(k, Cardinality(free))
           low  == {x \in free : Cardinality({y \in free : y < x}) < m}
<1>1. m \in Nat
  <2>1. Cardinality(free) \in Nat
    BY FreeCount
  <2> QED BY <2>1 DEF Least
<1>2. bs \in [1 .. m -> low] /\ \A i, j \in 1 .. m : i < j => bs[i] < bs[j]
  BY DEF Allocated, Lowest
<1>3. bs \in [1 .. m -> free]
  BY <1>2
<1>0. \A i, j \in 1 .. m : i < j => bs[i] < bs[j]
  BY <1>2
<1> HIDE DEF low, m
<1>4. \A i, j \in 1 .. m : bs[i] = bs[j] => i = j
  <2> SUFFICES ASSUME NEW i \in 1 .. m, NEW j \in 1 .. m, bs[i] = bs[j], i # j PROVE FALSE
    OBVIOUS
  <2>1. bs[i] \in Int /\ bs[j] \in Int
    <3>1. DiskBlocks \subseteq Int
      BY DashboardAssumption DEF DiskBlocks, FIRST_BLOCK
    <3> QED BY <1>3, <3>1
  <2>2. i < j \/ j < i
    BY <1>1
  <2>3. bs[i] < bs[j] \/ bs[j] < bs[i]
    BY <1>0, <2>2
  <2> QED BY <2>1, <2>3
<1>5. bs \in Seq(DiskBlocks) /\ Len(bs) = m
  BY <1>1, <1>3
<1>6. BlockSet(bs) \subseteq DiskBlocks \ used /\ \A i, j \in DOMAIN bs : bs[i] = bs[j] => i = j
  BY <1>3, <1>4 DEF BlockSet
<1> QED BY <1>5, <1>6 DEF m

(* The facts about a state of type TypeOK that the steps use.               *)
LEMMA FileFacts ==
  ASSUME TypeOK
  PROVE  /\ Len(files) \in Nat /\ DOMAIN files = 1 .. Len(files)
         /\ \A i \in DOMAIN files :
              /\ files[i] \in FileRecords
              /\ files[i].blockNums \in Seq(DiskBlocks)
              /\ BlocksOf(files[i]) \subseteq DiskBlocks
<1>1. files \in Seq(FileRecords)
  BY DEF TypeOK
<1>2. ASSUME NEW i \in DOMAIN files
      PROVE  /\ files[i] \in FileRecords
             /\ files[i].blockNums \in Seq(DiskBlocks)
             /\ BlocksOf(files[i]) \subseteq DiskBlocks
  <2>1. files[i] \in FileRecords
    BY <1>1
  <2>2. files[i].blockNums \in Seq(DiskBlocks)
    BY <2>1 DEF FileRecords
  <2> QED BY <2>1, <2>2 DEF BlocksOf, BlockSet
<1> QED BY <1>1, <1>2

-----------------------------------------------------------------------------
LEMMA InitIInv == Init => IInv
<1> SUFFICES ASSUME Init PROVE IInv
  OBVIOUS
<1>1. TypeOK
  <2>1. \A S : <<>> \in Seq(S)
    OBVIOUS
  <2> QED BY <2>1 DEF Init, TypeOK
<1>2. Accounts /\ NoBlockTwice /\ EveryFileHasABlock
  BY DEF Init, Accounts, NoBlockTwice, EveryFileHasABlock
<1> QED BY <1>1, <1>2 DEF IInv

LEMMA CreateFileIInv ==
  ASSUME IInv, NEW n \in FileNames, NEW k \in Sizes, CreateFile(n, k)
  PROVE  IInv'
<1> USE DEF IInv
<1>1. PICK id \in LeastOf(InodeRange \ inodeBitmap), bs \in Allocated(dataBitmap, k) :
         /\ files' = Append(files, [name |-> n, inodeId |-> id, blockNums |-> bs,
                                    status |-> "OK", corruptBlocks |-> {}])
         /\ dataBitmap' = dataBitmap \cup BlockSet(bs)
         /\ inodeBitmap' = inodeBitmap \cup {id}
  BY DEF CreateFile
<1> DEFINE new == [name |-> n, inodeId |-> id, blockNums |-> bs,
                   status |-> "OK", corruptBlocks |-> {}]
           L   == Len(files)
<1>2. id \in InodeRange \ inodeBitmap
  BY DEF LeastOf
<1>3. /\ bs \in Seq(DiskBlocks) /\ BlockSet(bs) \subseteq DiskBlocks \ dataBitmap
      /\ \A i, j \in DOMAIN bs : bs[i] = bs[j] => i = j
      /\ Len(bs) = Least(k, Cardinality(DiskBlocks \ dataBitmap))
  <2>1. k \in Nat /\ dataBitmap \in SUBSET DiskBlocks
    BY DashboardAssumption DEF TypeOK
  <2> QED BY <2>1, AllocatedFree
<1>4. new \in FileRecords
  BY <1>2, <1>3 DEF FileRecords, Statuses
<1>5. /\ L \in Nat /\ DOMAIN files = 1 .. L
      /\ Len(files') = L + 1 /\ DOMAIN files' = 1 .. L + 1
      /\ files'[L + 1] = new /\ \A i \in 1 .. L : files'[i] = files[i]
      /\ files' \in Seq(FileRecords)
  BY <1>1, <1>4 DEF TypeOK
<1>6. TypeOK'
  BY <1>1, <1>2, <1>3, <1>5 DEF TypeOK, CreateFile
<1>7. NoBlockTwice'
  <2>1. \A i \in 1 .. L : files'[i].blockNums = files[i].blockNums
    BY <1>5
  <2>2. files'[L + 1].blockNums = bs
    BY <1>5
  <2>3. \A i \in DOMAIN files' : i \in 1 .. L \/ i = L + 1
    BY <1>5
  <2>4. \A i, j \in DOMAIN bs : bs[i] = bs[j] => i = j
    BY <1>3
  <2> QED BY <1>5, <2>1, <2>2, <2>3, <2>4 DEF NoBlockTwice
<1>8. Accounts'
  <2>1. \A i \in 1 .. L : BlocksOf(files'[i]) = BlocksOf(files[i])
    BY <1>5 DEF BlocksOf
  <2>2. BlocksOf(files'[L + 1]) = BlockSet(bs)
    BY <1>5 DEF BlocksOf, BlockSet
  <2>3. \A i \in 1 .. L : files[i].name # n
    BY <1>5 DEF CreateFile, At
  <2>4. \A i \in 1 .. L : files[i].inodeId \in inodeBitmap /\ BlocksOf(files[i]) \subseteq dataBitmap
    BY <1>5 DEF Accounts
  <2>5. \A i, j \in DOMAIN files' :
          i # j => /\ files'[i].name # files'[j].name
                   /\ files'[i].inodeId # files'[j].inodeId
                   /\ BlocksOf(files'[i]) \cap BlocksOf(files'[j]) = {}
    <3> SUFFICES ASSUME NEW i \in 1 .. L + 1, NEW j \in 1 .. L + 1, i # j
                 PROVE  /\ files'[i].name # files'[j].name
                        /\ files'[i].inodeId # files'[j].inodeId
                        /\ BlocksOf(files'[i]) \cap BlocksOf(files'[j]) = {}
      BY <1>5
    <3>1. CASE i \in 1 .. L /\ j \in 1 .. L
      BY <3>1, <1>5, <2>1 DEF Accounts
    <3>2. CASE i = L + 1 /\ j \in 1 .. L
      BY <3>2, <1>2, <1>3, <1>5, <2>1, <2>2, <2>3, <2>4
    <3>3. CASE j = L + 1 /\ i \in 1 .. L
      BY <3>3, <1>2, <1>3, <1>5, <2>1, <2>2, <2>3, <2>4
    <3> QED BY <3>1, <3>2, <3>3, <1>5
  <2>6. dataBitmap' = UNION {BlocksOf(files'[i]) : i \in DOMAIN files'}
    <3>1. dataBitmap = UNION {BlocksOf(files[i]) : i \in 1 .. L}
      BY <1>5 DEF Accounts
    <3>2. UNION {BlocksOf(files'[i]) : i \in 1 .. L + 1} = (UNION {BlocksOf(files[i]) : i \in 1 .. L}) \cup BlockSet(bs)
      <4>1. 1 .. L + 1 = (1 .. L) \cup {L + 1}
        BY <1>5
      <4> QED BY <4>1, <2>1, <2>2
    <3> QED BY <1>1, <1>5, <3>1, <3>2
  <2>7. inodeBitmap' = {files'[i].inodeId : i \in DOMAIN files'}
    <3>1. inodeBitmap = {files[i].inodeId : i \in 1 .. L}
      BY <1>5 DEF Accounts
    <3>2. 1 .. L + 1 = (1 .. L) \cup {L + 1}
      BY <1>5
    <3> QED BY <1>1, <1>5, <3>1, <3>2
  <2> QED BY <2>5, <2>6, <2>7 DEF Accounts
<1>9. EveryFileHasABlock'
  <2>1. Cardinality(DiskBlocks \ dataBitmap) \in Nat /\ k \in Nat /\ k >= 1
    BY FreeCount, DashboardAssumption
  <2>2. Len(bs) >= 1
    BY <1>3, <2>1 DEF Least, CreateFile
  <2> QED BY <1>5, <2>2 DEF EveryFileHasABlock
<1> QED BY <1>6, <1>7, <1>8, <1>9

LEMMA WriteFileIInv ==
  ASSUME IInv, NEW n \in FileNames, NEW k \in Sizes, WriteFile(n, k)
  PROVE  IInv'
<1> USE DEF IInv
<1>1. PICK w \in At(n) :
        LET kept == dataBitmap \ BlocksOf(files[w])
        IN  /\ \E bs \in Allocated(kept, k) :
                 /\ files' = [files EXCEPT ![w].blockNums = bs]
                 /\ dataBitmap' = kept \cup BlockSet(bs)
            /\ UNCHANGED <<inodeBitmap, fsState, incomplete, fscks>>
  BY DEF WriteFile
<1> DEFINE kept == dataBitmap \ BlocksOf(files[w])
<1>2. PICK bs \in Allocated(kept, k) :
        /\ files' = [files EXCEPT ![w].blockNums = bs]
        /\ dataBitmap' = kept \cup BlockSet(bs)
  BY <1>1
<1>3. UNCHANGED <<inodeBitmap, fsState, incomplete, fscks>>
  BY <1>1
<1>4. w \in DOMAIN files
  BY DEF At
<1>5. /\ bs \in Seq(DiskBlocks) /\ BlockSet(bs) \subseteq DiskBlocks \ kept
      /\ \A i, j \in DOMAIN bs : bs[i] = bs[j] => i = j
      /\ Len(bs) = Least(k, Cardinality(DiskBlocks \ kept))
  <2>1. k \in Nat /\ kept \in SUBSET DiskBlocks
    BY DashboardAssumption DEF TypeOK
  <2> QED BY <2>1, AllocatedFree
<1>6. files \in Seq(FileRecords)
  BY DEF TypeOK
<1>7. /\ files' \in Seq(FileRecords) /\ DOMAIN files' = DOMAIN files
      /\ \A i \in DOMAIN files : /\ files'[i].name = files[i].name
                                 /\ files'[i].inodeId = files[i].inodeId
                                 /\ i # w => files'[i] = files[i]
      /\ files'[w].blockNums = bs
  <2>1. [files[w] EXCEPT !.blockNums = bs] \in FileRecords
    <3>1. files[w] \in FileRecords
      BY <1>4, <1>6
    <3> QED BY <3>1, <1>5 DEF FileRecords
  <2>2. files' = [files EXCEPT ![w] = [files[w] EXCEPT !.blockNums = bs]]
    BY <1>2
  <2>3. \A i \in DOMAIN files : files[i] \in FileRecords
    BY <1>6
  <2>4. files' \in Seq(FileRecords) /\ DOMAIN files' = DOMAIN files
    <3>1. w \in 1 .. Len(files)
      BY <1>4, <1>6
    <3> QED BY <3>1, <2>1, <2>2, <1>6, ExceptSeq
  <2>5. files'[w].name = files[w].name /\ files'[w].inodeId = files[w].inodeId
        /\ files'[w].blockNums = bs
    BY <2>2, <2>3, <1>4 DEF FileRecords
  <2>6. \A i \in DOMAIN files : i # w => files'[i] = files[i]
    BY <2>2
  <2> QED BY <2>4, <2>5, <2>6
<1>8. TypeOK'
  BY <1>2, <1>3, <1>5, <1>7 DEF TypeOK
<1>9. NoBlockTwice'
  BY <1>4, <1>5, <1>7 DEF NoBlockTwice
<1>10. Accounts'
  <2>1. \A i \in DOMAIN files : i # w => BlocksOf(files'[i]) = BlocksOf(files[i])
    BY <1>7
  <2>2. BlocksOf(files'[w]) = BlockSet(bs)
    BY <1>7 DEF BlocksOf
  <2>3. \A i \in DOMAIN files : i # w => BlocksOf(files[i]) \subseteq kept
    BY <1>4 DEF Accounts
  <2>4. \A i, j \in DOMAIN files' :
          i # j => /\ files'[i].name # files'[j].name
                   /\ files'[i].inodeId # files'[j].inodeId
                   /\ BlocksOf(files'[i]) \cap BlocksOf(files'[j]) = {}
    BY <1>5, <1>7, <2>1, <2>2, <2>3 DEF Accounts
  <2>5. kept = UNION {BlocksOf(files[i]) : i \in DOMAIN files \ {w}}
    BY <1>4, <2>3 DEF Accounts
  <2>6. dataBitmap' = UNION {BlocksOf(files'[i]) : i \in DOMAIN files'}
    <3>1. DOMAIN files' = (DOMAIN files \ {w}) \cup {w}
      BY <1>4, <1>7
    <3> HIDE DEF kept
    <3>2. \A b : b \in UNION {BlocksOf(files'[i]) : i \in DOMAIN files'}
                   <=> b \in kept \/ b \in BlockSet(bs)
      BY <3>1, <2>1, <2>2, <2>5
    <3> QED BY <3>2, <1>2 DEF kept
  <2>7. inodeBitmap' = {files'[i].inodeId : i \in DOMAIN files'}
    BY <1>3, <1>7 DEF Accounts
  <2> QED BY <2>4, <2>6, <2>7 DEF Accounts
<1>11. EveryFileHasABlock'
  <2>1. files[w].blockNums \in Seq(DiskBlocks) /\ Len(files[w].blockNums) >= 1
    BY <1>4, FileFacts DEF EveryFileHasABlock
  <2>2. files[w].blockNums[1] \in BlocksOf(files[w]) /\ files[w].blockNums[1] \in DiskBlocks
    BY <2>1 DEF BlocksOf, BlockSet
  <2>3. DiskBlocks \ kept # {}
    BY <2>2
  <2>4. Cardinality(DiskBlocks \ kept) \in Nat /\ Cardinality(DiskBlocks \ kept) # 0
    BY <2>3, FreeCount, FS_EmptySet
  <2>5. k \in Nat /\ k >= 1
    BY DashboardAssumption
  <2> HIDE DEF kept
  <2>6. Len(bs) >= 1
    BY <1>5, <2>4, <2>5 DEF Least
  <2> QED BY <1>4, <1>7, <2>6 DEF EveryFileHasABlock
<1> QED BY <1>8, <1>9, <1>10, <1>11

(* Callbacks keep their list of files a set of names.                       *)
LEMMA ForgottenType ==
  ASSUME TypeOK, NEW gone
  PROVE  Forgotten(gone) \in Seq([stage : 1 .. 3, corruptFiles : SUBSET FileNames])
<1> DEFINE Pending == [stage : 1 .. 3, corruptFiles : SUBSET FileNames]
<1>1. fscks \in Seq(Pending)
  BY DEF TypeOK
<1>2. ASSUME NEW p \in Pending
      PROVE  [p EXCEPT !.corruptFiles = @ \ gone] \in Pending
  OBVIOUS
<1> HIDE DEF Pending
<1>3. \A k \in DOMAIN fscks : fscks[k] \in Pending
  BY <1>1
<1>4. \A k \in DOMAIN fscks : [fscks[k] EXCEPT !.corruptFiles = @ \ gone] \in Pending
  BY <1>2, <1>3
<1>5. Forgotten(gone) \in Seq(Pending)
  BY <1>1, <1>4 DEF Forgotten
<1> QED BY <1>5 DEF Pending

LEMMA DeleteFileIInv ==
  ASSUME IInv, NEW n \in FileNames, DeleteFile(n)
  PROVE  IInv'
<1> USE DEF IInv
<1>1. PICK d \in At(n) :
        /\ files' = [j \in 1 .. Len(files) - 1 |-> files[IF j < d THEN j ELSE j + 1]]
        /\ dataBitmap' = dataBitmap \ BlocksOf(files[d])
        /\ inodeBitmap' = FreeInode(files[d].inodeId)
        /\ fscks' = Forgotten({n})
        /\ UNCHANGED <<fsState, incomplete>>
  BY DEF DeleteFile
<1> DEFINE L     == Len(files)
           At0(j) == IF j < d THEN j ELSE j + 1
<1>2. /\ files \in Seq(FileRecords) /\ L \in Nat /\ DOMAIN files = 1 .. L
      /\ d \in 1 .. L
  BY DEF TypeOK, At
<1>3. /\ \A j \in 1 .. L - 1 : At0(j) \in (1 .. L) \ {d}
      /\ \A i, j \in 1 .. L - 1 : i # j => At0(i) # At0(j)
      /\ \A i \in (1 .. L) \ {d} : \E j \in 1 .. L - 1 : At0(j) = i
  <2>1. L \in Int /\ d \in Int /\ 1 <= d /\ d <= L
    BY <1>2
  <2>2. \A j \in 1 .. L - 1 : At0(j) \in (1 .. L) \ {d}
    BY <2>1
  <2>3. \A i, j \in 1 .. L - 1 : i # j => At0(i) # At0(j)
    BY <2>1
  <2>4. ASSUME NEW i \in (1 .. L) \ {d} PROVE \E j \in 1 .. L - 1 : At0(j) = i
    <3>1. CASE i < d
      <4>1. i \in 1 .. L - 1 /\ At0(i) = i
        BY <2>1, <3>1
      <4> QED BY <4>1
    <3>2. CASE ~ (i < d)
      <4>1. i - 1 \in 1 .. L - 1 /\ At0(i - 1) = i
        BY <2>1, <3>2
      <4> QED BY <4>1
    <3> QED BY <3>1, <3>2
  <2> QED BY <2>2, <2>3, <2>4
<1>4. /\ files' \in Seq(FileRecords) /\ DOMAIN files' = 1 .. L - 1
      /\ \A j \in 1 .. L - 1 : files'[j] = files[At0(j)]
  <2>1. \A i \in 1 .. L : files[i] \in FileRecords
    BY <1>2
  <2>2. \A j \in 1 .. L - 1 : files[At0(j)] \in FileRecords
    BY <1>3, <2>1
  <2>3. L - 1 \in Nat
    BY <1>2
  <2> QED BY <1>1, <2>2, <2>3
<1> HIDE DEF At0
<1>5. TypeOK'
  <2>1. fscks' \in Seq([stage : 1 .. 3, corruptFiles : SUBSET FileNames])
    BY <1>1, ForgottenType
  <2> QED BY <1>1, <1>4, <2>1 DEF TypeOK, FreeInode
<1>6. NoBlockTwice'
  BY <1>2, <1>3, <1>4 DEF NoBlockTwice
<1>7. Accounts'
  <2>1. \A i, j \in DOMAIN files' :
          i # j => /\ files'[i].name # files'[j].name
                   /\ files'[i].inodeId # files'[j].inodeId
                   /\ BlocksOf(files'[i]) \cap BlocksOf(files'[j]) = {}
    <3> SUFFICES ASSUME NEW i \in 1 .. L - 1, NEW j \in 1 .. L - 1, i # j
                 PROVE  /\ files'[i].name # files'[j].name
                        /\ files'[i].inodeId # files'[j].inodeId
                        /\ BlocksOf(files'[i]) \cap BlocksOf(files'[j]) = {}
      BY <1>4
    <3>1. At0(i) \in DOMAIN files /\ At0(j) \in DOMAIN files /\ At0(i) # At0(j)
      BY <1>2, <1>3
    <3>2. files'[i] = files[At0(i)] /\ files'[j] = files[At0(j)]
      BY <1>4
    <3> QED BY <3>1, <3>2 DEF Accounts
  <2>2. {BlocksOf(files'[j]) : j \in DOMAIN files'} = {BlocksOf(files[i]) : i \in (1 .. L) \ {d}}
    <3>1. \A j \in 1 .. L - 1 : \E i \in (1 .. L) \ {d} : BlocksOf(files'[j]) = BlocksOf(files[i])
      BY <1>3, <1>4
    <3>2. \A i \in (1 .. L) \ {d} : \E j \in 1 .. L - 1 : BlocksOf(files'[j]) = BlocksOf(files[i])
      BY <1>3, <1>4
    <3>3. ASSUME NEW x \in {BlocksOf(files'[j]) : j \in 1 .. L - 1} PROVE x \in {BlocksOf(files[i]) : i \in (1 .. L) \ {d}}
      <4>1. PICK j \in 1 .. L - 1 : x = BlocksOf(files'[j])
        OBVIOUS
      <4> QED BY <3>1, <4>1
    <3>4. ASSUME NEW x \in {BlocksOf(files[i]) : i \in (1 .. L) \ {d}} PROVE x \in {BlocksOf(files'[j]) : j \in 1 .. L - 1}
      <4>1. PICK i \in (1 .. L) \ {d} : x = BlocksOf(files[i])
        OBVIOUS
      <4> QED BY <3>2, <4>1
    <3> QED BY <1>4, <3>3, <3>4
  <2>3. {files'[j].inodeId : j \in DOMAIN files'} = {files[i].inodeId : i \in (1 .. L) \ {d}}
    <3>1. \A j \in 1 .. L - 1 : \E i \in (1 .. L) \ {d} : files'[j].inodeId = files[i].inodeId
      BY <1>3, <1>4
    <3>2. \A i \in (1 .. L) \ {d} : \E j \in 1 .. L - 1 : files'[j].inodeId = files[i].inodeId
      BY <1>3, <1>4
    <3>3. ASSUME NEW x \in {files'[j].inodeId : j \in 1 .. L - 1} PROVE x \in {files[i].inodeId : i \in (1 .. L) \ {d}}
      <4>1. PICK j \in 1 .. L - 1 : x = files'[j].inodeId
        OBVIOUS
      <4> QED BY <3>1, <4>1
    <3>4. ASSUME NEW x \in {files[i].inodeId : i \in (1 .. L) \ {d}} PROVE x \in {files'[j].inodeId : j \in 1 .. L - 1}
      <4>1. PICK i \in (1 .. L) \ {d} : x = files[i].inodeId
        OBVIOUS
      <4> QED BY <3>2, <4>1
    <3> QED BY <1>4, <3>3, <3>4
  <2>4. dataBitmap' = UNION {BlocksOf(files[i]) : i \in (1 .. L) \ {d}}
    BY <1>1, <1>2 DEF Accounts
  <2>5. inodeBitmap' = {files[i].inodeId : i \in (1 .. L) \ {d}}
    BY <1>1, <1>2 DEF Accounts, FreeInode
  <2> QED BY <2>1, <2>2, <2>3, <2>4, <2>5 DEF Accounts
<1>8. EveryFileHasABlock'
  BY <1>2, <1>3, <1>4 DEF EveryFileHasABlock
<1> QED BY <1>5, <1>6, <1>7, <1>8

-----------------------------------------------------------------------------
(* Steps that leave the blocks and inodes of every file alone.              *)
LEMMA SameLayout ==
  ASSUME IInv, files' \in Seq(FileRecords), DOMAIN files' = DOMAIN files,
         \A i \in DOMAIN files : /\ files'[i].name = files[i].name
                                 /\ files'[i].inodeId = files[i].inodeId
                                 /\ files'[i].blockNums = files[i].blockNums,
         UNCHANGED <<inodeBitmap, dataBitmap>>
  PROVE  Accounts' /\ NoBlockTwice'
<1>1. \A i \in DOMAIN files : BlocksOf(files'[i]) = BlocksOf(files[i])
  BY DEF BlocksOf
<1>2. NoBlockTwice'
  BY DEF IInv, NoBlockTwice
<1>3. \A i, j \in DOMAIN files' :
        i # j => /\ files'[i].name # files'[j].name
                 /\ files'[i].inodeId # files'[j].inodeId
                 /\ BlocksOf(files'[i]) \cap BlocksOf(files'[j]) = {}
  BY <1>1 DEF IInv, Accounts
<1>4. dataBitmap' = UNION {BlocksOf(files'[i]) : i \in DOMAIN files'}
  <2>1. {BlocksOf(files'[i]) : i \in DOMAIN files'} = {BlocksOf(files[i]) : i \in DOMAIN files}
    BY <1>1
  <2> QED BY <2>1 DEF IInv, Accounts
<1>5. inodeBitmap' = {files'[i].inodeId : i \in DOMAIN files'}
  BY DEF IInv, Accounts
<1> QED BY <1>2, <1>3, <1>4, <1>5 DEF Accounts

(* A crash corrupts at least one block of a file, and at most all.          *)
LEMMA CorruptCountFits ==
  ASSUME NEW m \in Nat, m >= 1
  PROVE  CorruptCount(m) \in 1 .. m
<1>1. (2 * m) \div 5 \in Nat /\ (2 * m) \div 5 <= m
  OBVIOUS
<1> QED BY <1>1 DEF CorruptCount

LEMMA CrashIInv ==
  ASSUME IInv, SimulateCrash
  PROVE  IInv'
<1>1. PICK c \in DOMAIN files :
        /\ files' = [files EXCEPT
             ![c].status = "CORRUPT",
             ![c].corruptBlocks = {files[c].blockNums[k] :
                                     k \in 1 .. CorruptCount(Len(files[c].blockNums))}]
        /\ fsState' = "DIRTY" /\ incomplete' = TRUE
        /\ UNCHANGED <<inodeBitmap, dataBitmap, fscks>>
  BY DEF SimulateCrash
<1> DEFINE f    == files[c]
           bad  == {f.blockNums[k] : k \in 1 .. CorruptCount(Len(f.blockNums))}
           g    == [f EXCEPT !.status = "CORRUPT", !.corruptBlocks = bad]
<1>2. files \in Seq(FileRecords) /\ f \in FileRecords
  BY DEF IInv, TypeOK
<1>3. bad \subseteq DiskBlocks
  <2>1. f.blockNums \in Seq(DiskBlocks) /\ Len(f.blockNums) \in Nat
    BY <1>2 DEF FileRecords
  <2>2. Len(f.blockNums) >= 1
    BY DEF IInv, EveryFileHasABlock
  <2>3. CorruptCount(Len(f.blockNums)) \in 1 .. Len(f.blockNums)
    BY <2>1, <2>2, CorruptCountFits
  <2> QED BY <2>1, <2>3
<1> HIDE DEF bad
<1>4. g \in FileRecords
  BY <1>2, <1>3 DEF FileRecords, Statuses
<1>5. files' = [files EXCEPT ![c] = g]
  BY <1>1 DEF bad
<1>6. c \in 1 .. Len(files)
  BY <1>2
<1>7. files' \in Seq(FileRecords) /\ DOMAIN files' = DOMAIN files
  BY <1>2, <1>4, <1>5, <1>6, ExceptSeq
<1>8. \A i \in DOMAIN files : files'[i] = IF i = c THEN g ELSE files[i]
  BY <1>5
<1>9. g.name = f.name /\ g.inodeId = f.inodeId /\ g.blockNums = f.blockNums
  BY <1>2 DEF FileRecords
<1> HIDE DEF g, f
<1>10. \A i \in DOMAIN files : /\ files'[i].name = files[i].name
                               /\ files'[i].inodeId = files[i].inodeId
                               /\ files'[i].blockNums = files[i].blockNums
  BY <1>8, <1>9 DEF f
<1>11. TypeOK'
  BY <1>1, <1>7 DEF IInv, TypeOK
<1>12. Accounts' /\ NoBlockTwice'
  BY <1>1, <1>7, <1>10, SameLayout
<1>13. EveryFileHasABlock'
  BY <1>7, <1>10 DEF IInv, EveryFileHasABlock
<1> QED BY <1>11, <1>12, <1>13 DEF IInv

(* The files a repair or a recovery gives a new status.                     *)
LEMMA WithStatusKeeps ==
  ASSUME IInv, NEW S, NEW s \in Statuses, files' = WithStatus(S, s),
         UNCHANGED <<inodeBitmap, dataBitmap>>
  PROVE  /\ files' \in Seq(FileRecords) /\ DOMAIN files' = DOMAIN files
         /\ \A i \in DOMAIN files : i \in S => files'[i].status = s
         /\ \A i \in DOMAIN files : i \notin S => files'[i] = files[i]
         /\ \A i \in DOMAIN files : files'[i].name = files[i].name
         /\ Accounts' /\ NoBlockTwice' /\ EveryFileHasABlock'
<1> DEFINE g(i) == [files[i] EXCEPT !.status = s, !.corruptBlocks = {}]
<1>1. files \in Seq(FileRecords)
  BY DEF IInv, TypeOK
<1>2. ASSUME NEW i \in DOMAIN files
      PROVE  /\ files[i] \in FileRecords /\ g(i) \in FileRecords /\ g(i).status = s
             /\ g(i).name = files[i].name /\ g(i).inodeId = files[i].inodeId
             /\ g(i).blockNums = files[i].blockNums
  <2>1. files[i] \in FileRecords
    BY <1>1
  <2> QED BY <2>1 DEF FileRecords
<1>3. files' = [i \in DOMAIN files |-> IF i \in S THEN g(i) ELSE files[i]]
  BY DEF WithStatus
<1> HIDE DEF g
<1>4. files' \in Seq(FileRecords) /\ DOMAIN files' = DOMAIN files
  BY <1>1, <1>2, <1>3
<1>5. \A i \in DOMAIN files : /\ files'[i].name = files[i].name
                              /\ files'[i].inodeId = files[i].inodeId
                              /\ files'[i].blockNums = files[i].blockNums
  BY <1>2, <1>3
<1>6. Accounts' /\ NoBlockTwice'
  BY <1>4, <1>5, SameLayout
<1>7. EveryFileHasABlock'
  BY <1>4, <1>5 DEF IInv, EveryFileHasABlock
<1> QED BY <1>2, <1>3, <1>4, <1>5, <1>6, <1>7

-----------------------------------------------------------------------------
(* The list that defragment makes: every file's blocks begin where those of *)
(* the files before it end, and all of them fit the disk.                   *)

(* The places the first i files' blocks are listed at.                      *)
Places(i) == {p \in (1 .. i) \X (1 .. DATA_BLOCK_COUNT) : p[2] <= Len(files[p[1]].blockNums)}

LEMMA DiskSize == IsFiniteSet(DiskBlocks) /\ Cardinality(DiskBlocks) = DATA_BLOCK_COUNT
<1>1. FIRST_BLOCK \in Int /\ FIRST_BLOCK + DATA_BLOCK_COUNT - 1 \in Int
  BY DashboardAssumption DEF FIRST_BLOCK
<1>2. /\ IsFiniteSet(DiskBlocks)
      /\ Cardinality(DiskBlocks) =
           IF FIRST_BLOCK > FIRST_BLOCK + DATA_BLOCK_COUNT - 1 THEN 0
           ELSE (FIRST_BLOCK + DATA_BLOCK_COUNT - 1) - FIRST_BLOCK + 1
  BY <1>1, FS_Interval DEF DiskBlocks
<1> QED BY <1>2, DashboardAssumption DEF FIRST_BLOCK

LEMMA FileLength ==
  ASSUME IInv, NEW i \in DOMAIN files
  PROVE  Len(files[i].blockNums) \in 1 .. DATA_BLOCK_COUNT
<1> DEFINE bs == files[i].blockNums
<1>1. bs \in Seq(DiskBlocks) /\ Len(bs) >= 1
  BY FileFacts DEF IInv, EveryFileHasABlock
<1>2. \A j, k \in DOMAIN bs : bs[j] = bs[k] => j = k
  BY DEF IInv, NoBlockTwice
<1> HIDE DEF bs
<1>3. Len(bs) \in Nat /\ DOMAIN bs = 1 .. Len(bs) /\ bs \in [1 .. Len(bs) -> DiskBlocks]
  BY <1>1
<1>4. bs \in Injection(1 .. Len(bs), DiskBlocks)
  BY <1>2, <1>3 DEF Injection, IsInjective
<1>5. Cardinality(1 .. Len(bs)) <= DATA_BLOCK_COUNT
  BY <1>4, DiskSize, FS_Injection
<1>6. Cardinality(1 .. Len(bs)) = Len(bs)
  BY <1>1, <1>3, FS_Interval
<1>7. Len(bs) \in 1 .. DATA_BLOCK_COUNT
  BY <1>1, <1>3, <1>5, <1>6, DashboardAssumption
<1> QED BY <1>7 DEF bs

LEMMA PlacesFinite ==
  ASSUME NEW i \in Nat
  PROVE  IsFiniteSet(Places(i)) /\ Cardinality(Places(i)) \in Nat
<1>1. IsFiniteSet(1 .. i) /\ IsFiniteSet(1 .. DATA_BLOCK_COUNT)
  BY FS_Interval, DashboardAssumption
<1>2. IsFiniteSet((1 .. i) \X (1 .. DATA_BLOCK_COUNT))
  BY <1>1, FS_Product
<1>3. Places(i) \in SUBSET ((1 .. i) \X (1 .. DATA_BLOCK_COUNT))
  BY DEF Places
<1> QED BY <1>2, <1>3, FS_Subset, FS_CardinalityType

(* Counting the places file by file.                                        *)
LEMMA PlacesStep ==
  ASSUME IInv, NEW i \in DOMAIN files
  PROVE  Cardinality(Places(i)) = Before(i) + Len(files[i].blockNums)
<1> DEFINE n   == Len(files[i].blockNums)
           row == {i} \X (1 .. n)
<1>1. i \in Nat /\ i - 1 \in Nat /\ i >= 1
  BY FileFacts DEF IInv
<1>2. n \in 1 .. DATA_BLOCK_COUNT
  BY FileLength
<1>3. Places(i) = Places(i - 1) \cup row
  <2>1. \A p \in Places(i) : p \in Places(i - 1) \cup row
    <3> SUFFICES ASSUME NEW a \in 1 .. i, NEW b \in 1 .. DATA_BLOCK_COUNT,
                        b <= Len(files[a].blockNums)
                 PROVE  <<a, b>> \in Places(i - 1) \cup row
      BY DEF Places
    <3>1. CASE a = i
      BY <3>1, <1>2
    <3>2. CASE a # i
      <4>1. a \in 1 .. i - 1
        BY <3>2, <1>1
      <4> QED BY <4>1 DEF Places
    <3> QED BY <3>1, <3>2
  <2>2. Places(i - 1) \subseteq Places(i)
    <3>1. 1 .. i - 1 \subseteq 1 .. i
      BY <1>1
    <3> QED BY <3>1 DEF Places
  <2>3. row \subseteq Places(i)
    <3> SUFFICES ASSUME NEW b \in 1 .. n PROVE <<i, b>> \in Places(i)
      OBVIOUS
    <3>1. n \in Int /\ n <= DATA_BLOCK_COUNT /\ DATA_BLOCK_COUNT \in Int
      BY <1>2, DashboardAssumption
    <3>2. b \in Int /\ 1 <= b /\ b <= n
      BY <3>1
    <3>3. b \in 1 .. DATA_BLOCK_COUNT
      BY <3>1, <3>2
    <3>4. i \in 1 .. i
      BY <1>1
    <3> QED BY <3>2, <3>3, <3>4 DEF Places
  <2> QED BY <2>1, <2>2, <2>3
<1>4. Places(i - 1) \cap row = {}
  <2> SUFFICES ASSUME NEW p \in Places(i - 1), p \in row PROVE FALSE
    OBVIOUS
  <2>1. p[1] \in 1 .. i - 1 /\ p[1] = i
    BY DEF Places
  <2> QED BY <2>1, <1>1
<1>5. IsFiniteSet(row) /\ Cardinality(row) = n
  <2>1. IsFiniteSet({i}) /\ Cardinality({i}) = 1
    BY FS_Singleton
  <2>2. IsFiniteSet(1 .. n) /\ Cardinality(1 .. n) = n
    BY <1>2, FS_Interval
  <2>3. IsFiniteSet(row) /\ Cardinality(row) = Cardinality({i}) * Cardinality(1 .. n)
    BY <2>1, <2>2, FS_Product
  <2> QED BY <1>2, <2>1, <2>2, <2>3
<1>6. Before(i) = Cardinality(Places(i - 1))
  BY DEF Before, Places
<1> HIDE DEF row, n
<1>7. IsFiniteSet(Places(i - 1)) /\ Cardinality(Places(i - 1)) \in Nat
  BY <1>1, PlacesFinite
<1>8. Cardinality(Places(i - 1) \cup row)
        = Cardinality(Places(i - 1)) + Cardinality(row) - Cardinality(Places(i - 1) \cap row)
  BY <1>5, <1>7, FS_Union
<1>9. Cardinality(Places(i - 1) \cap row) = 0
  BY <1>4, FS_EmptySet
<1>10. n \in Nat
  BY <1>2
<1>11. Cardinality(Places(i)) = Before(i) + n
  BY <1>3, <1>5, <1>6, <1>7, <1>8, <1>9, <1>10
<1> QED BY <1>11 DEF n

LEMMA PlacesMonotone ==
  ASSUME NEW i \in Nat, NEW j \in Nat, i <= j
  PROVE  Cardinality(Places(i)) <= Cardinality(Places(j))
<1>1. 1 .. i \subseteq 1 .. j
  OBVIOUS
<1>2. Places(i) \in SUBSET Places(j)
  BY <1>1 DEF Places
<1> QED BY <1>2, PlacesFinite, FS_Subset

(* Every place holds a block of its own, so there are no more than blocks.  *)
LEMMA PlacesFit ==
  ASSUME IInv
  PROVE  Cardinality(Places(Len(files))) <= DATA_BLOCK_COUNT
<1> DEFINE P == Places(Len(files))
           f == [p \in P |-> files[p[1]].blockNums[p[2]]]
<1>1. ASSUME NEW p \in P
      PROVE  p[1] \in DOMAIN files /\ p[2] \in DOMAIN files[p[1]].blockNums
  <2>1. p[1] \in DOMAIN files /\ p[2] \in Nat /\ p[2] >= 1 /\ p[2] <= Len(files[p[1]].blockNums)
    BY FileFacts DEF IInv, Places
  <2>2. files[p[1]].blockNums \in Seq(DiskBlocks)
    BY <2>1, FileFacts DEF IInv
  <2> QED BY <2>1, <2>2
<1>2. ASSUME NEW p \in P PROVE f[p] \in BlocksOf(files[p[1]])
  BY <1>1 DEF BlocksOf, BlockSet
<1>3. ASSUME NEW p \in P PROVE f[p] \in DiskBlocks
  BY <1>1, <1>2, FileFacts DEF IInv
<1>4. ASSUME NEW p \in P, NEW q \in P, f[p] = f[q] PROVE p = q
  <2>1. p[1] = q[1]
    BY <1>1, <1>2, <1>4 DEF IInv, Accounts
  <2>2. p[2] = q[2]
    BY <1>1, <1>4, <2>1 DEF IInv, NoBlockTwice
  <2> QED BY <2>1, <2>2 DEF Places
<1>5. f \in Injection(P, DiskBlocks)
  BY <1>3, <1>4 DEF Injection, IsInjective
<1>6. Cardinality(P) <= Cardinality(DiskBlocks)
  BY <1>5, DiskSize, FS_Injection
<1> QED BY <1>6, DiskSize

LEMMA PackedFits ==
  ASSUME IInv, NEW i \in DOMAIN files, NEW k \in DOMAIN files[i].blockNums
  PROVE  Packed(i)[k] \in DiskBlocks
<1>1. /\ Len(files) \in Nat /\ i \in 1 .. Len(files)
      /\ k \in 1 .. Len(files[i].blockNums)
  BY FileFacts DEF IInv
<1>2. Len(files[i].blockNums) \in Nat
  BY FileLength
<1>3. Before(i) \in Nat
  <2>1. i - 1 \in Nat
    BY <1>1
  <2> QED BY <2>1, PlacesFinite DEF Before, Places
<1>4. Before(i) + Len(files[i].blockNums) <= DATA_BLOCK_COUNT
  <2>1. Cardinality(Places(i)) <= Cardinality(Places(Len(files)))
    BY <1>1, PlacesMonotone
  <2>2. Cardinality(Places(i)) \in Nat /\ Cardinality(Places(Len(files))) \in Nat
    BY <1>1, PlacesFinite
  <2> QED BY <2>1, <2>2, PlacesFit, PlacesStep, DashboardAssumption
<1>5. Packed(i)[k] = FIRST_BLOCK + Before(i) + k - 1
  BY DEF Packed
<1> QED BY <1>1, <1>2, <1>3, <1>4, <1>5, DashboardAssumption DEF DiskBlocks, FIRST_BLOCK

LEMMA PackedApart ==
  ASSUME IInv, NEW i \in DOMAIN files, NEW j \in DOMAIN files, i < j,
         NEW k \in DOMAIN files[i].blockNums, NEW m \in DOMAIN files[j].blockNums
  PROVE  Packed(i)[k] < Packed(j)[m]
<1>1. /\ i \in Nat /\ j \in Nat /\ i <= j - 1 /\ j - 1 \in Nat
      /\ k \in 1 .. Len(files[i].blockNums) /\ m \in 1 .. Len(files[j].blockNums)
  BY FileFacts DEF IInv
<1>2. Len(files[i].blockNums) \in Nat /\ Len(files[j].blockNums) \in Nat
  BY FileLength
<1>3. Before(j) = Cardinality(Places(j - 1))
  BY DEF Before, Places
<1>4. Cardinality(Places(i)) <= Before(j)
  BY <1>1, <1>3, PlacesMonotone
<1>5. Before(i) + Len(files[i].blockNums) <= Before(j)
  BY <1>4, PlacesStep
<1>6. Before(i) \in Nat /\ Before(j) \in Nat
  <2>1. i - 1 \in Nat
    BY FileFacts DEF IInv
  <2>2. Before(i) = Cardinality(Places(i - 1))
    BY DEF Before, Places
  <2> QED BY <1>1, <1>3, <2>1, <2>2, PlacesFinite
<1>7. Packed(i)[k] = FIRST_BLOCK + Before(i) + k - 1 /\ Packed(j)[m] = FIRST_BLOCK + Before(j) + m - 1
  BY DEF Packed
<1> QED BY <1>1, <1>2, <1>5, <1>6, <1>7 DEF FIRST_BLOCK

LEMMA DefragmentIInv ==
  ASSUME IInv, Defragment
  PROVE  IInv'
<1>1. /\ files' = [i \in DOMAIN files |-> [files[i] EXCEPT !.blockNums = Packed(i)]]
      /\ dataBitmap' = UNION {BlockSet(Packed(i)) : i \in DOMAIN files}
      /\ UNCHANGED <<inodeBitmap, fsState, incomplete, fscks>>
  BY DEF Defragment
<1>2. files \in Seq(FileRecords) /\ Len(files) \in Nat /\ DOMAIN files = 1 .. Len(files)
  BY DEF IInv, TypeOK
<1>3. ASSUME NEW i \in DOMAIN files
      PROVE  /\ Packed(i) \in Seq(DiskBlocks)
             /\ DOMAIN Packed(i) = DOMAIN files[i].blockNums
             /\ Len(Packed(i)) = Len(files[i].blockNums)
             /\ BlockSet(Packed(i)) \subseteq DiskBlocks
             /\ \A j, k \in DOMAIN Packed(i) : Packed(i)[j] = Packed(i)[k] => j = k
  <2> DEFINE n == Len(files[i].blockNums)
  <2>1. n \in Nat /\ DOMAIN files[i].blockNums = 1 .. n
    BY FileLength, FileFacts DEF IInv
  <2>2. Packed(i) = [k \in 1 .. n |-> FIRST_BLOCK + Before(i) + k - 1]
    BY <2>1 DEF Packed
  <2>3. \A k \in 1 .. n : Packed(i)[k] \in DiskBlocks
    BY <2>1, PackedFits
  <2> HIDE DEF n
  <2>4. Packed(i) \in [1 .. n -> DiskBlocks]
    BY <2>2, <2>3
  <2>5. Packed(i) \in Seq(DiskBlocks) /\ Len(Packed(i)) = n /\ DOMAIN Packed(i) = 1 .. n
    BY <2>1, <2>4
  <2>6. Before(i) \in Nat
    <3>1. i - 1 \in Nat
      BY <1>2
    <3> QED BY <3>1, PlacesFinite DEF Before, Places
  <2>7. \A j, k \in 1 .. n : Packed(i)[j] = Packed(i)[k] => j = k
    BY <2>1, <2>2, <2>6 DEF FIRST_BLOCK
  <2> QED BY <2>1, <2>3, <2>5, <2>7 DEF n, BlockSet
<1>4. ASSUME NEW i \in DOMAIN files
      PROVE  /\ files'[i] \in FileRecords /\ files'[i].blockNums = Packed(i)
             /\ files'[i].name = files[i].name /\ files'[i].inodeId = files[i].inodeId
  <2>1. files[i] \in FileRecords
    BY <1>2
  <2>2. files'[i] = [files[i] EXCEPT !.blockNums = Packed(i)]
    BY <1>1
  <2>3. Packed(i) \in Seq(DiskBlocks)
    BY <1>3
  <2> QED BY <2>1, <2>2, <2>3 DEF FileRecords
<1>5. files' \in Seq(FileRecords) /\ DOMAIN files' = DOMAIN files
  <2>1. files' = [i \in 1 .. Len(files) |-> files'[i]]
    BY <1>1, <1>2
  <2> QED BY <2>1, <1>2, <1>4
<1>6. dataBitmap' \subseteq DiskBlocks
  BY <1>1, <1>3
<1>7. TypeOK'
  BY <1>1, <1>5, <1>6 DEF IInv, TypeOK
<1>8. NoBlockTwice' /\ EveryFileHasABlock'
  <2>1. EveryFileHasABlock'
    BY <1>3, <1>4, <1>5 DEF IInv, EveryFileHasABlock
  <2>2. NoBlockTwice'
    BY <1>3, <1>4, <1>5 DEF NoBlockTwice
  <2> QED BY <2>1, <2>2
<1>9. Accounts'
  <2>1. ASSUME NEW i \in DOMAIN files, NEW j \in DOMAIN files, i < j
        PROVE  BlockSet(Packed(i)) \cap BlockSet(Packed(j)) = {}
    <3> SUFFICES ASSUME NEW k \in DOMAIN Packed(i), NEW m \in DOMAIN Packed(j),
                        Packed(i)[k] = Packed(j)[m]
                 PROVE  FALSE
      BY DEF BlockSet
    <3>1. k \in DOMAIN files[i].blockNums /\ m \in DOMAIN files[j].blockNums
      BY <1>3
    <3>2. Packed(i)[k] \in DiskBlocks
      BY <3>1, PackedFits
    <3>3. Packed(i)[k] \in Int
      BY <3>2, DashboardAssumption DEF DiskBlocks, FIRST_BLOCK
    <3>4. Packed(i)[k] < Packed(j)[m]
      BY <2>1, <3>1, PackedApart
    <3> QED BY <3>3, <3>4
  <2>2. ASSUME NEW i \in DOMAIN files, NEW j \in DOMAIN files, i # j
        PROVE  BlockSet(Packed(i)) \cap BlockSet(Packed(j)) = {}
    <3>1. i < j \/ j < i
      BY <1>2, <2>2
    <3> QED BY <2>1, <3>1
  <2>3. \A i \in DOMAIN files : BlocksOf(files'[i]) = BlockSet(Packed(i))
    BY <1>4 DEF BlocksOf
  <2>4. \A i, j \in DOMAIN files' :
          i # j => /\ files'[i].name # files'[j].name
                   /\ files'[i].inodeId # files'[j].inodeId
                   /\ BlocksOf(files'[i]) \cap BlocksOf(files'[j]) = {}
    BY <1>4, <1>5, <2>2, <2>3 DEF IInv, Accounts
  <2>5. dataBitmap' = UNION {BlocksOf(files'[i]) : i \in DOMAIN files'}
    <3>1. {BlocksOf(files'[i]) : i \in DOMAIN files'} = {BlockSet(Packed(i)) : i \in DOMAIN files}
      BY <1>5, <2>3
    <3> QED BY <1>1, <3>1
  <2>6. inodeBitmap' = {files'[i].inodeId : i \in DOMAIN files'}
    BY <1>1, <1>4, <1>5 DEF IInv, Accounts
  <2> QED BY <2>4, <2>5, <2>6 DEF Accounts
<1> QED BY <1>7, <1>8, <1>9 DEF IInv

-----------------------------------------------------------------------------
LEMMA RunFsckIInv ==
  ASSUME IInv, RunFsck
  PROVE  IInv'
<1>1. CorruptFiles \subseteq FileNames
  BY FileFacts DEF IInv, CorruptFiles, FileRecords
<1>2. [stage |-> 1, corruptFiles |-> CorruptFiles] \in [stage : 1 .. 3, corruptFiles : SUBSET FileNames]
  BY <1>1
<1>3. fscks' \in Seq([stage : 1 .. 3, corruptFiles : SUBSET FileNames])
  BY <1>2 DEF IInv, TypeOK, RunFsck
<1>4. TypeOK'
  BY <1>3 DEF IInv, TypeOK, RunFsck
<1> QED BY <1>4 DEF IInv, RunFsck, Accounts, NoBlockTwice, EveryFileHasABlock

LEMMA AdvanceIInv ==
  ASSUME IInv, NEW k \in 1 .. MaxFscks, Advance(k)
  PROVE  IInv'
<1> DEFINE Pending == [stage : 1 .. 3, corruptFiles : SUBSET FileNames]
           p       == [fscks[k] EXCEPT !.stage = @ + 1]
<1>1. fscks \in Seq(Pending) /\ k \in DOMAIN fscks /\ fscks[k].stage < 3
  BY DEF IInv, TypeOK, Advance, Due
<1>2. fscks[k] \in Pending
  <2> HIDE DEF Pending
  <2> QED BY <1>1
<1>3. p \in Pending /\ k \in 1 .. Len(fscks)
  BY <1>1, <1>2
<1>4. fscks' = [fscks EXCEPT ![k] = p]
  BY DEF Advance
<1> HIDE DEF Pending, p
<1>5. fscks' \in Seq(Pending)
  BY <1>1, <1>2, <1>3, <1>4, ExceptSeq
<1>6. TypeOK'
  BY <1>5 DEF IInv, TypeOK, Advance, Pending
<1> QED BY <1>6 DEF IInv, Advance, Accounts, NoBlockTwice, EveryFileHasABlock

LEMMA FinishFsckIInv ==
  ASSUME IInv, FinishFsck
  PROVE  IInv'
<1>1. "REPAIRED" \in Statuses /\ files' = WithStatus(Fixed(fscks[1].corruptFiles), "REPAIRED")
  BY DEF FinishFsck, Statuses
<1>2. UNCHANGED <<inodeBitmap, dataBitmap, incomplete>> /\ fsState' = "CLEAN"
  BY DEF FinishFsck, StateAfter
<1>3. files' \in Seq(FileRecords) /\ Accounts' /\ NoBlockTwice' /\ EveryFileHasABlock'
  BY <1>1, <1>2, WithStatusKeeps
<1>4. fscks' \in Seq([stage : 1 .. 3, corruptFiles : SUBSET FileNames])
  <2>1. fscks # <<>>
    BY DEF FinishFsck, Due
  <2> QED BY <2>1 DEF FinishFsck, IInv, TypeOK
<1> QED BY <1>2, <1>3, <1>4 DEF IInv, TypeOK

LEMMA RecoverJournalIInv ==
  ASSUME IInv, RecoverJournal
  PROVE  IInv'
<1>1. "OK" \in Statuses /\ files' = WithStatus(Recovered, "OK")
  BY DEF RecoverJournal, Statuses
<1>2. UNCHANGED <<inodeBitmap, dataBitmap, incomplete, fscks>> /\ fsState' = "CLEAN"
  BY DEF RecoverJournal
<1>3. files' \in Seq(FileRecords) /\ Accounts' /\ NoBlockTwice' /\ EveryFileHasABlock'
  BY <1>1, <1>2, WithStatusKeeps
<1> QED BY <1>2, <1>3 DEF IInv, TypeOK

LEMMA FormatIInv ==
  ASSUME IInv, Format
  PROVE  IInv'
<1>1. \A S : <<>> \in Seq(S)
  OBVIOUS
<1>2. fscks' \in Seq([stage : 1 .. 3, corruptFiles : SUBSET FileNames])
  BY ForgottenType DEF Format, IInv
<1>3. TypeOK'
  BY <1>1, <1>2 DEF Format, TypeOK
<1>4. Accounts' /\ NoBlockTwice' /\ EveryFileHasABlock'
  BY DEF Format, Accounts, NoBlockTwice, EveryFileHasABlock
<1> QED BY <1>3, <1>4 DEF IInv

LEMMA CrashWithoutTargetIInv ==
  ASSUME IInv, CrashWithoutTarget
  PROVE  IInv'
BY DEF CrashWithoutTarget, IInv, TypeOK, Accounts, NoBlockTwice, EveryFileHasABlock

LEMMA NextIInv == IInv /\ [Next]_vars => IInv'
<1> SUFFICES ASSUME IInv, [Next]_vars PROVE IInv'
  OBVIOUS
<1>1. CASE UNCHANGED vars
  BY <1>1 DEF vars, IInv, TypeOK, Accounts, NoBlockTwice, EveryFileHasABlock
<1>2. CASE Button
  <2>1. CASE \E n \in FileNames : DeleteFile(n)
    BY <2>1, DeleteFileIInv
  <2>2. CASE \E n \in FileNames : \E k \in Sizes : CreateFile(n, k)
    BY <2>2, CreateFileIInv
  <2>3. CASE \E n \in FileNames : \E k \in Sizes : WriteFile(n, k)
    BY <2>3, WriteFileIInv
  <2>4. CASE SimulateCrash \/ CrashWithoutTarget \/ RunFsck
    BY <2>4, CrashIInv, CrashWithoutTargetIInv, RunFsckIInv
  <2>5. CASE RecoverJournal \/ Defragment \/ Format
    BY <2>5, RecoverJournalIInv, DefragmentIInv, FormatIInv
  <2> QED BY <1>2, <2>1, <2>2, <2>3, <2>4, <2>5 DEF Button
<1>3. CASE Timer
  BY <1>3, AdvanceIInv, FinishFsckIInv DEF Timer
<1> QED BY <1>1, <1>2, <1>3 DEF Next

LEMMA DashboardInvariant == Spec => []IInv
BY InitIInv, NextIInv, PTL DEF Spec

(* The state of the dashboard has its types, whatever is pressed when.      *)
THEOREM DashboardTypeOK == Spec => []TypeOK
<1>1. IInv => TypeOK
  BY DEF IInv
<1> QED BY <1>1, DashboardInvariant, PTL

(* No block and no inode ever belongs to two files, and the bitmaps are     *)
(* exactly what the files have: disks of any size, full ones included, and  *)
(* defragmentation included, which renumbers every block.                   *)
THEOREM DashboardAccounts == Spec => []Accounts
<1>1. IInv => Accounts
  BY DEF IInv
<1> QED BY <1>1, DashboardInvariant, PTL

(* REPAIRING is never shown without a pending fsck that will end it.        *)
THEOREM DashboardRepairing == Spec => []RepairingIsPending
<1>1. Init => RepairingIsPending
  BY DEF Init, RepairingIsPending
<1>2. TypeOK /\ RepairingIsPending /\ [Next]_vars => RepairingIsPending'
  <2> SUFFICES ASSUME TypeOK, RepairingIsPending, [Next]_vars, fsState' = "REPAIRING"
               PROVE  fscks' # <<>>
    BY DEF RepairingIsPending
  <2> USE DEF RepairingIsPending
  <2>1. CASE RunFsck
    BY <2>1 DEF RunFsck, TypeOK
  <2>2. CASE \E k \in 1 .. MaxFscks : Advance(k)
    <3>1. fscks # <<>> /\ DOMAIN fscks' = DOMAIN fscks
      BY <2>2 DEF Advance, TypeOK
    <3> QED BY <3>1 DEF TypeOK
  <2>3. CASE \E n \in FileNames : DeleteFile(n)
    <3>1. fscks # <<>> /\ DOMAIN fscks' = DOMAIN fscks
      BY <2>3 DEF DeleteFile, Forgotten
    <3> QED BY <3>1 DEF TypeOK
  <2>4. CASE FinishFsck \/ RecoverJournal \/ Format \/ SimulateCrash \/ CrashWithoutTarget
    BY <2>4 DEF FinishFsck, RecoverJournal, Format, SimulateCrash, CrashWithoutTarget, StateAfter
  <2>5. CASE UNCHANGED <<fsState, fscks>>
    BY <2>5
  <2>6. ASSUME NEW n \in FileNames, NEW k \in Sizes, CreateFile(n, k) \/ WriteFile(n, k)
        PROVE  UNCHANGED <<fsState, fscks>>
    BY <2>6 DEF CreateFile, WriteFile
  <2>7. Defragment \/ UNCHANGED vars => UNCHANGED <<fsState, fscks>>
    BY DEF Defragment, vars
  <2> QED BY <2>1, <2>2, <2>3, <2>4, <2>5, <2>6, <2>7 DEF Next, Button, Timer
<1> QED BY <1>1, <1>2, DashboardTypeOK, PTL DEF Spec

(* The state turns CLEAN over a corrupted file only by an fsck that began   *)
(* before the file was corrupted.                                           *)
THEOREM DashboardCleanIsEarned == Spec => CleanIsEarned
<1> DEFINE Earned == (fsState # "CLEAN" /\ fsState' = "CLEAN") =>
                       \A i \in DOMAIN files' : files'[i].status = "CORRUPT" =>
                         FinishFsck /\ files'[i].name \notin fscks[1].corruptFiles
<1>1. IInv /\ [Next]_vars => [Earned]_vars
  <2> SUFFICES ASSUME IInv, Next, fsState # "CLEAN", fsState' = "CLEAN",
                      NEW i \in DOMAIN files', files'[i].status = "CORRUPT"
               PROVE  FinishFsck /\ files'[i].name \notin fscks[1].corruptFiles
    OBVIOUS
  <2>1. CASE FinishFsck
    <3>1. "REPAIRED" \in Statuses /\ files' = WithStatus(Fixed(fscks[1].corruptFiles), "REPAIRED")
          /\ UNCHANGED <<inodeBitmap, dataBitmap>>
      BY <2>1 DEF FinishFsck, Statuses
    <3>2. i \in DOMAIN files /\ i \notin Fixed(fscks[1].corruptFiles) /\ files'[i].name = files[i].name
      BY <3>1, WithStatusKeeps
    <3> QED BY <2>1, <3>2 DEF Fixed
  <2>2. CASE RecoverJournal
    <3>1. "OK" \in Statuses /\ files' = WithStatus(Recovered, "OK")
          /\ UNCHANGED <<inodeBitmap, dataBitmap>>
      BY <2>2 DEF RecoverJournal, Statuses
    <3>2. i \in DOMAIN files /\ i \notin Recovered /\ files'[i] = files[i]
      BY <3>1, WithStatusKeeps
    <3> QED BY <3>2 DEF Recovered, Corrupt
  <2>3. CASE Format
    BY <2>3 DEF Format
  <2>4. CASE SimulateCrash \/ CrashWithoutTarget \/ RunFsck
    BY <2>4 DEF SimulateCrash, CrashWithoutTarget, RunFsck
  <2>5. CASE Defragment \/ \E k \in 1 .. MaxFscks : Advance(k)
    BY <2>5 DEF Defragment, Advance
  <2>6. CASE \E n \in FileNames : \/ DeleteFile(n)
                                  \/ \E k \in Sizes : CreateFile(n, k) \/ WriteFile(n, k)
    BY <2>6 DEF DeleteFile, CreateFile, WriteFile
  <2> QED BY <2>1, <2>2, <2>3, <2>4, <2>5, <2>6 DEF Next, Button, Timer
<1> QED BY <1>1, DashboardInvariant, PTL DEF Spec, CleanIsEarned

(* Only defragment takes the red blocks from a corrupted file: a crash      *)
(* paints at least its first block, a corrupted file is not written, and    *)
(* what fsck or the journal repairs is corrupted no longer.                 *)
THEOREM DashboardRedStays == Spec => RedStays
<1> DEFINE Stays == RedShown /\ ~ Defragment => RedShown'
<1>1. IInv /\ [Next]_vars => [Stays]_vars
  <2> SUFFICES ASSUME IInv, Next, RedShown, ~ Defragment,
                      NEW i \in DOMAIN files', files'[i].status = "CORRUPT"
               PROVE  files'[i].corruptBlocks \cap BlocksOf(files'[i]) # {}
    BY DEF RedShown, Corrupt, Red
  <2>1. /\ files \in Seq(FileRecords) /\ Len(files) \in Nat /\ DOMAIN files = 1 .. Len(files)
        /\ \A j \in DOMAIN files : files[j] \in FileRecords
    BY FileFacts DEF IInv, TypeOK
  <2>2. ASSUME NEW j \in DOMAIN files, files'[i] = files[j]
        PROVE  files'[i].corruptBlocks \cap BlocksOf(files'[i]) # {}
    BY <2>2 DEF RedShown, Corrupt, Red
  <2>3. CASE \E n \in FileNames, k \in Sizes : CreateFile(n, k)
    <3>1. PICK n, id, bs :
            files' = Append(files, [name |-> n, inodeId |-> id, blockNums |-> bs,
                                    status |-> "OK", corruptBlocks |-> {}])
      BY <2>3 DEF CreateFile
    <3> DEFINE r == [name |-> n, inodeId |-> id, blockNums |-> bs,
                     status |-> "OK", corruptBlocks |-> {}]
    <3>2. r.status = "OK"
      OBVIOUS
    <3> HIDE DEF r
    <3>3. /\ DOMAIN files' = 1 .. Len(files) + 1 /\ files'[Len(files) + 1] = r
          /\ \A j \in 1 .. Len(files) : files'[j] = files[j]
      BY <2>1, <3>1 DEF r
    <3>4. i \in DOMAIN files /\ files'[i] = files[i]
      BY <2>1, <3>2, <3>3
    <3> QED BY <2>2, <3>4
  <2>4. CASE \E n \in FileNames, k \in Sizes : WriteFile(n, k)
    <3>1. PICK w \in DOMAIN files :
            ~ Corrupt(w) /\ \E bs : files' = [files EXCEPT ![w].blockNums = bs]
      BY <2>4 DEF WriteFile, At
    <3>2. DOMAIN files' = DOMAIN files /\ files'[w].status = files[w].status
          /\ \A j \in DOMAIN files \ {w} : files'[j] = files[j]
      BY <2>1, <3>1 DEF FileRecords
    <3> QED BY <2>2, <3>1, <3>2 DEF Corrupt
  <2>5. CASE \E n \in FileNames : DeleteFile(n)
    <3>1. PICK d \in DOMAIN files :
            files' = [j \in 1 .. Len(files) - 1 |-> files[IF j < d THEN j ELSE j + 1]]
      BY <2>5 DEF DeleteFile, At
    <3>2. i \in 1 .. Len(files) - 1 /\ files'[i] = files[IF i < d THEN i ELSE i + 1]
      BY <3>1
    <3>3. (IF i < d THEN i ELSE i + 1) \in DOMAIN files
      BY <2>1, <3>2
    <3> QED BY <2>2, <3>2, <3>3
  <2>6. CASE SimulateCrash
    <3>1. PICK c \in DOMAIN files :
            files' = [files EXCEPT
              ![c].status = "CORRUPT",
              ![c].corruptBlocks = {files[c].blockNums[k] :
                                      k \in 1 .. CorruptCount(Len(files[c].blockNums))}]
      BY <2>6 DEF SimulateCrash
    <3> DEFINE bs  == files[c].blockNums
               bad == {bs[k] : k \in 1 .. CorruptCount(Len(bs))}
    <3>2. bs \in Seq(DiskBlocks) /\ Len(bs) \in Nat /\ Len(bs) >= 1
      BY <2>1 DEF FileRecords, IInv, EveryFileHasABlock
    <3>3. CorruptCount(Len(bs)) \in 1 .. Len(bs)
      BY <3>2, CorruptCountFits
    <3>4. bs[1] \in bad /\ bs[1] \in BlocksOf(files[c])
      BY <3>2, <3>3 DEF BlocksOf, BlockSet
    <3> HIDE DEF bad
    <3>5. /\ DOMAIN files' = DOMAIN files
          /\ files'[c].corruptBlocks = bad /\ files'[c].blockNums = bs
          /\ \A j \in DOMAIN files \ {c} : files'[j] = files[j]
      BY <2>1, <3>1 DEF FileRecords, bad
    <3>6. CASE i = c
      BY <3>4, <3>5, <3>6 DEF BlocksOf
    <3>7. CASE i # c
      BY <2>2, <3>5, <3>7
    <3> QED BY <3>6, <3>7
  <2>7. CASE FinishFsck
    <3>1. "REPAIRED" \in Statuses /\ files' = WithStatus(Fixed(fscks[1].corruptFiles), "REPAIRED")
          /\ UNCHANGED <<inodeBitmap, dataBitmap>>
      BY <2>7 DEF FinishFsck, Statuses
    <3>2. i \in DOMAIN files /\ files'[i] = files[i]
      BY <3>1, WithStatusKeeps
    <3> QED BY <2>2, <3>2
  <2>8. CASE RecoverJournal
    <3>1. "OK" \in Statuses /\ files' = WithStatus(Recovered, "OK")
          /\ UNCHANGED <<inodeBitmap, dataBitmap>>
      BY <2>8 DEF RecoverJournal, Statuses
    <3>2. i \in DOMAIN files /\ files'[i] = files[i]
      BY <3>1, WithStatusKeeps
    <3> QED BY <2>2, <3>2
  <2>9. CASE CrashWithoutTarget \/ RunFsck \/ \E k \in 1 .. MaxFscks : Advance(k)
    BY <2>2, <2>9 DEF CrashWithoutTarget, RunFsck, Advance
  <2>10. CASE Format
    BY <2>10 DEF Format
  <2> QED BY <2>3, <2>4, <2>5, <2>6, <2>7, <2>8, <2>9, <2>10 DEF Next, Button, Timer
<1> QED BY <1>1, DashboardInvariant, PTL DEF Spec, RedStays

=============================================================================

--------------------------- MODULE CommandProofs ---------------------------
(***************************************************************************)
(* Commands that may be cut between any two of their writes (StepsSpec).   *)
(* The inductive invariant follows a command into its future: the writes   *)
(* it has still to make lead from the disk as it is through disks on which *)
(* everything that is claimed of a cut holds (Leads).                      *)
(***************************************************************************)
EXTENDS CommandSteps, HealthyProofs

-----------------------------------------------------------------------------
(* The disk and the writes to it.                                          *)

DiskStates == [blk : Disks, disk_sb : Superblocks,
               disk_ibm : SUBSET InodeIds, disk_dbm : SUBSET DataBlocks]

Writes == [to : {"superblock"}, value : Superblocks]
            \cup [to : {"inode bitmap"}, value : SUBSET InodeIds]
            \cup [to : {"data bitmap"}, value : SUBSET DataBlocks]
            \cup [to : {"block"}, block : FsBlocks, value : BlockImages]
            \cup [to : {"cell"}, block : FsBlocks, slot : Slots, value : Cells]
            \cup [to : {"inode"}, id : InodeIds, value : InodeImages]

(* The disk D with d in place of its blocks.                                *)
On(D, d) == [D EXCEPT !.blk = d]

LEMMA OnType ==
  ASSUME NEW D \in DiskStates, NEW d \in Disks
  PROVE  /\ On(D, d) \in DiskStates
         /\ On(D, d).blk = d /\ On(D, d).disk_sb = D.disk_sb
         /\ On(D, d).disk_ibm = D.disk_ibm /\ On(D, d).disk_dbm = D.disk_dbm
         /\ On(D, D.blk) = D
         /\ \A e : On(On(D, d), e) = On(D, e)
BY DEF On, DiskStates

LEMMA BitmapWrites ==
  ASSUME NEW D \in DiskStates
  PROVE  /\ \A v \in Superblocks :
              /\ SuperblockWrite(v) \in Writes
              /\ Overlay(D, SuperblockWrite(v)) = [D EXCEPT !.disk_sb = v]
         /\ \A v \in SUBSET InodeIds :
              /\ InodeBitmapWrite(v) \in Writes
              /\ Overlay(D, InodeBitmapWrite(v)) = [D EXCEPT !.disk_ibm = v]
         /\ \A v \in SUBSET DataBlocks :
              /\ DataBitmapWrite(v) \in Writes
              /\ Overlay(D, DataBitmapWrite(v)) = [D EXCEPT !.disk_dbm = v]
BY DEF SuperblockWrite, InodeBitmapWrite, DataBitmapWrite, Writes, Overlay

LEMMA BlockWrites ==
  ASSUME NEW D \in DiskStates, NEW b \in FsBlocks
  PROVE  /\ \A v \in BlockImages :
              /\ BlockWrite(b, v) \in Writes
              /\ Overlay(D, BlockWrite(b, v)) = On(D, [D.blk EXCEPT ![b] = v])
         /\ \A s \in Slots, c \in Cells :
              /\ CellWrite(b, s, c) \in Writes
              /\ Overlay(D, CellWrite(b, s, c)) = On(D, WriteCell(D.blk, b, s, c))
BY DEF BlockWrite, CellWrite, Writes, Overlay, On, DiskStates

LEMMA InodeWrites ==
  ASSUME NEW D \in DiskStates, NEW id \in InodeIds, NEW l \in InodeImages
  PROVE  /\ InodeWrite(id, l) \in Writes
         /\ Overlay(D, InodeWrite(id, l)) = On(D, WriteInode(D.blk, id, l))
BY DEF InodeWrite, Writes, Overlay, On, DiskStates

(* No write leaves the disk or its types.                                   *)
LEMMA OverlayType ==
  ASSUME NEW D \in DiskStates, NEW w \in Writes
  PROVE  Overlay(D, w) \in DiskStates
<1>1. CASE w \in [to : {"superblock"}, value : Superblocks]
  BY <1>1 DEF Overlay, DiskStates
<1>2. CASE w \in [to : {"inode bitmap"}, value : SUBSET InodeIds]
  BY <1>2 DEF Overlay, DiskStates
<1>3. CASE w \in [to : {"data bitmap"}, value : SUBSET DataBlocks]
  BY <1>3 DEF Overlay, DiskStates
<1>4. CASE w \in [to : {"block"}, block : FsBlocks, value : BlockImages]
  <2>1. D.blk \in Disks
    BY DEF DiskStates
  <2>2. [D.blk EXCEPT ![w.block] = w.value] \in Disks
    BY <1>4, <2>1 DEF Disks
  <2>3. Overlay(D, w) = On(D, [D.blk EXCEPT ![w.block] = w.value])
    BY <1>4 DEF Overlay, On, DiskStates
  <2> QED BY <2>2, <2>3, OnType
<1>5. CASE w \in [to : {"cell"}, block : FsBlocks, slot : Slots, value : Cells]
  <2>1. WriteCell(D.blk, w.block, w.slot, w.value) \in Disks
    BY <1>5, WriteCellType DEF DiskStates
  <2>2. Overlay(D, w) = On(D, WriteCell(D.blk, w.block, w.slot, w.value))
    BY <1>5 DEF Overlay, On, DiskStates
  <2> QED BY <2>1, <2>2, OnType
<1>6. CASE w \in [to : {"inode"}, id : InodeIds, value : InodeImages]
  <2>1. WriteInode(D.blk, w.id, w.value) \in Disks
    BY <1>6, WriteInodeType DEF DiskStates
  <2>2. Overlay(D, w) = On(D, WriteInode(D.blk, w.id, w.value))
    BY <1>6 DEF Overlay, On, DiskStates
  <2> QED BY <2>1, <2>2, OnType
<1> QED BY <1>1, <1>2, <1>3, <1>4, <1>5, <1>6 DEF Writes

-----------------------------------------------------------------------------
(* Lists of writes.                                                        *)

(* The writes ws lead from D to E, and every disk on the way is in S.       *)
Leads(D, ws, S, E) ==
  /\ ws \in Seq(Writes)
  /\ \E p \in [0 .. Len(ws) -> S] :
       /\ p[0] = D /\ p[Len(ws)] = E
       /\ \A k \in 1 .. Len(ws) : p[k] = Overlay(p[k - 1], ws[k])

LEMMA LeadsWrites ==
  ASSUME NEW D, NEW ws, NEW S, NEW E, Leads(D, ws, S, E)
  PROVE  /\ ws \in Seq(Writes) /\ D \in S /\ E \in S
         /\ ws = <<>> => D = E
<1>1. /\ ws \in Seq(Writes) /\ Len(ws) \in Nat
      /\ \E p \in [0 .. Len(ws) -> S] : p[0] = D /\ p[Len(ws)] = E
  BY DEF Leads
<1>2. 0 \in 0 .. Len(ws) /\ Len(ws) \in 0 .. Len(ws)
  BY <1>1
<1> QED BY <1>1, <1>2

LEMMA LeadsThroughMore ==
  ASSUME NEW D, NEW ws, NEW S, NEW E, Leads(D, ws, S, E), NEW T, S \subseteq T
  PROVE  Leads(D, ws, T, E)
BY DEF Leads

LEMMA LeadsNowhere ==
  ASSUME NEW S, NEW D \in S
  PROVE  Leads(D, <<>>, S, D)
<1> DEFINE p == [k \in 0 .. 0 |-> D]
<1>1. p \in [0 .. Len(<<>>) -> S] /\ p[0] = D /\ p[Len(<<>>)] = D
  OBVIOUS
<1>2. <<>> \in Seq(Writes) /\ 1 .. Len(<<>>) = {}
  OBVIOUS
<1> HIDE DEF p
<1> QED BY <1>1, <1>2 DEF Leads

LEMMA LeadsByOne ==
  ASSUME NEW S, NEW D \in S, NEW w \in Writes, Overlay(D, w) \in S
  PROVE  Leads(D, <<w>>, S, Overlay(D, w))
<1> DEFINE ws == <<w>>
           E  == Overlay(D, w)
           p  == [k \in 0 .. 1 |-> IF k = 0 THEN D ELSE E]
<1>1. ws \in Seq(Writes) /\ Len(ws) = 1 /\ ws[1] = w
  OBVIOUS
<1>2. p \in [0 .. 1 -> S] /\ p[0] = D /\ p[1] = E
  OBVIOUS
<1>3. \A k \in 1 .. 1 : k = 1 /\ k - 1 = 0
  OBVIOUS
<1> HIDE DEF p, ws
<1>4. \A k \in 1 .. 1 : p[k] = Overlay(p[k - 1], ws[k])
  BY <1>1, <1>2, <1>3 DEF E
<1>5. Leads(D, ws, S, E)
  BY <1>1, <1>2, <1>4 DEF Leads
<1> QED BY <1>5 DEF ws

(* One list after another.                                                  *)
LEMMA LeadsOn ==
  ASSUME NEW D, NEW E, NEW F, NEW S, NEW u, NEW v,
         Leads(D, u, S, E), Leads(E, v, S, F)
  PROVE  Leads(D, u \o v, S, F)
<1> DEFINE a  == Len(u)
           b  == Len(v)
           ws == u \o v
<1>1. u \in Seq(Writes) /\ v \in Seq(Writes) /\ a \in Nat /\ b \in Nat
  BY DEF Leads
<1>2. /\ ws \in Seq(Writes) /\ Len(ws) = a + b
      /\ \A k \in 1 .. a + b : ws[k] = IF k <= a THEN u[k] ELSE v[k - a]
  BY <1>1
<1>3. PICK p \in [0 .. a -> S] :
        /\ p[0] = D /\ p[a] = E
        /\ \A k \in 1 .. a : p[k] = Overlay(p[k - 1], u[k])
  BY DEF Leads
<1>4. PICK q \in [0 .. b -> S] :
        /\ q[0] = E /\ q[b] = F
        /\ \A k \in 1 .. b : q[k] = Overlay(q[k - 1], v[k])
  BY DEF Leads
<1> DEFINE r == [k \in 0 .. a + b |-> IF k <= a THEN p[k] ELSE q[k - a]]
<1> HIDE DEF a, b, ws
<1>5. r \in [0 .. a + b -> S]
  <2>1. \A k \in 0 .. a + b : IF k <= a THEN k \in 0 .. a ELSE k - a \in 0 .. b
    BY <1>1
  <2> QED BY <1>3, <1>4, <2>1
<1>6. r[0] = D /\ r[a + b] = F
  <2>1. 0 \in 0 .. a + b /\ 0 <= a /\ a + b \in 0 .. a + b /\ (a + b) - a = b
    BY <1>1
  <2>2. a + b <= a => b = 0 /\ a + b = a
    BY <1>1
  <2> QED BY <1>3, <1>4, <2>1, <2>2
<1>7. ASSUME NEW k \in 1 .. a + b
      PROVE  r[k] = Overlay(r[k - 1], ws[k])
  <2>1. k \in 0 .. a + b /\ k - 1 \in 0 .. a + b
    BY <1>1
  <2>2. CASE k <= a
    <3>1. k \in 1 .. a /\ k - 1 <= a
      BY <1>1, <2>2
    <3> QED BY <1>2, <1>3, <2>1, <2>2, <3>1
  <2>3. CASE ~ (k <= a)
    <3>1. k - a \in 1 .. b /\ (k - a) - 1 = (k - 1) - a
      BY <1>1, <2>3
    <3>2. r[k] = q[k - a] /\ ws[k] = v[k - a]
      BY <1>2, <2>1, <2>3
    <3>3. r[k - 1] = q[(k - 1) - a]
      <4>1. CASE k - 1 <= a
        <5>1. k - 1 = a /\ (k - 1) - a = 0
          BY <1>1, <2>3, <4>1
        <5> QED BY <1>3, <1>4, <2>1, <4>1, <5>1
      <4>2. CASE ~ (k - 1 <= a)
        BY <2>1, <4>2
      <4> QED BY <4>1, <4>2
    <3>4. q[k - a] = Overlay(q[(k - a) - 1], v[k - a])
      BY <1>4, <3>1
    <3> HIDE DEF r
    <3> QED BY <3>1, <3>2, <3>3, <3>4
  <2> QED BY <2>2, <2>3
<1> HIDE DEF r
<1>8. Leads(D, ws, S, F)
  BY <1>2, <1>5, <1>6, <1>7 DEF Leads
<1> QED BY <1>8 DEF ws

(* What is left of a list when its first write is made.                     *)
LEMMA LeadsNext ==
  ASSUME NEW D, NEW ws, NEW S, NEW E, Leads(D, ws, S, E), ws # <<>>
  PROVE  Leads(Overlay(D, Head(ws)), Tail(ws), S, E)
<1> DEFINE m == Len(ws)
           t == Tail(ws)
<1>1. ws \in Seq(Writes) /\ m \in Nat /\ m >= 1 /\ Head(ws) = ws[1]
  BY DEF Leads
<1>2. /\ t \in Seq(Writes) /\ Len(t) = m - 1
      /\ \A k \in 1 .. m - 1 : t[k] = ws[k + 1]
  BY <1>1
<1>3. PICK p \in [0 .. m -> S] :
        /\ p[0] = D /\ p[m] = E
        /\ \A k \in 1 .. m : p[k] = Overlay(p[k - 1], ws[k])
  BY DEF Leads
<1> DEFINE q == [k \in 0 .. m - 1 |-> p[k + 1]]
<1> HIDE DEF m, t
<1>4. q \in [0 .. m - 1 -> S]
  <2>1. \A k \in 0 .. m - 1 : k + 1 \in 0 .. m
    BY <1>1
  <2> QED BY <1>3, <2>1
<1>5. q[0] = Overlay(D, ws[1]) /\ q[m - 1] = E
  <2>1. 1 \in 1 .. m /\ 0 \in 0 .. m - 1 /\ m - 1 \in 0 .. m - 1 /\ (m - 1) + 1 = m
    BY <1>1
  <2> QED BY <1>3, <2>1
<1>6. ASSUME NEW k \in 1 .. m - 1
      PROVE  q[k] = Overlay(q[k - 1], t[k])
  <2>1. /\ k + 1 \in 1 .. m /\ k \in 0 .. m - 1 /\ k - 1 \in 0 .. m - 1
        /\ (k + 1) - 1 = k /\ (k - 1) + 1 = k
    BY <1>1
  <2>2. p[k + 1] = Overlay(p[k], ws[k + 1])
    BY <1>3, <2>1
  <2> QED BY <1>2, <2>1, <2>2
<1> HIDE DEF q
<1>7. Leads(q[0], t, S, E)
  BY <1>2, <1>4, <1>5, <1>6 DEF Leads
<1> QED BY <1>1, <1>5, <1>7 DEF t

(* Writes none of which leads out of S stay in S, however many they are.    *)
LEMMA LeadsInside ==
  ASSUME NEW S, NEW W \in SUBSET Writes, \A D \in S, w \in W : Overlay(D, w) \in S,
         NEW D \in S, NEW ws \in Seq(W)
  PROVE  \E E : Leads(D, ws, S, E)
<1> DEFINE m == Len(ws)
<1>1. m \in Nat /\ \A k \in 1 .. m : ws[k] \in W
  OBVIOUS
<1>2. ws \in Seq(Writes)
  BY SeqGrow
<1> HIDE DEF m
<1> DEFINE step == [x \in (1 .. m) \X S |-> Overlay(x[2], ws[x[1]])]
<1>3. step \in [(1 .. m) \X S -> S]
  BY <1>1
<1>4. \A k \in 1 .. m, d \in S : step[<<k, d>>] = Overlay(d, ws[k])
  OBVIOUS
<1> HIDE DEF step
<1>5. PICK p : p \in Runs(m, S, D, step)
  BY <1>1, <1>3, StepwiseExists
<1>6. /\ p \in [0 .. m -> S] /\ p[0] = D
      /\ \A k \in 1 .. m : p[k] = step[<<k, p[k - 1]>>]
  BY <1>5 DEF Runs
<1>7. \A k \in 1 .. m : p[k] = Overlay(p[k - 1], ws[k])
  <2>1. \A k \in 1 .. m : k - 1 \in 0 .. m
    BY <1>1
  <2> QED BY <1>4, <1>6, <2>1
<1>8. Leads(D, ws, S, p[m])
  BY <1>2, <1>6, <1>7 DEF Leads, m
<1> QED BY <1>8

(* The blocks of d with those in T replaced by those of e.                  *)
Patched(d, e, T) == [b \in FsBlocks |-> IF b \in T THEN e[b] ELSE d[b]]

LEMMA PatchedType ==
  ASSUME NEW d \in Disks, NEW e \in Disks, NEW T
  PROVE  Patched(d, e, T) \in Disks
BY DEF Patched, Disks

(* The first k of bs, and the writes of all m to what they are in e.        *)
First(bs, k)    == {bs[i] : i \in 1 .. k}
Copy(bs, m, e)  == [k \in 1 .. m |-> BlockWrite(bs[k], e[bs[k]])]

(* Whole blocks written one after the other.                                *)
LEMMA LeadsByBlocks ==
  ASSUME NEW D \in DiskStates, NEW e \in Disks, NEW m \in Nat,
         NEW bs \in [1 .. m -> FsBlocks], NEW S,
         \A k \in 0 .. m : On(D, Patched(D.blk, e, First(bs, k))) \in S
  PROVE  Leads(D, Copy(bs, m, e), S, On(D, Patched(D.blk, e, First(bs, m))))
<1> DEFINE ws   == Copy(bs, m, e)
           T(k) == First(bs, k)
           d(k) == Patched(D.blk, e, T(k))
           p    == [k \in 0 .. m |-> On(D, d(k))]
<1>1. D.blk \in Disks
  BY DEF DiskStates
<1>2. ws \in Seq(Writes) /\ Len(ws) = m
  <2>1. \A k \in 1 .. m : BlockWrite(bs[k], e[bs[k]]) \in Writes
    BY BlockWrites DEF Disks
  <2> QED BY <2>1 DEF Copy
<1>4. p \in [0 .. m -> S]
  OBVIOUS
<1>5. p[0] = D
  <2>1. T(0) = {}
    BY DEF First
  <2> HIDE DEF T
  <2>2. d(0) = D.blk
    BY <1>1, <2>1 DEF Patched, Disks
  <2>3. p[0] = On(D, d(0))
    OBVIOUS
  <2> QED BY <1>1, <2>2, <2>3, OnType
<1>6. ASSUME NEW k \in 1 .. m
      PROVE  p[k] = Overlay(p[k - 1], ws[k])
  <2>1. k \in 0 .. m /\ k - 1 \in 0 .. m /\ bs[k] \in FsBlocks /\ e[bs[k]] \in BlockImages
    BY DEF Disks
  <2>2. T(k) = T(k - 1) \cup {bs[k]}
    <3>1. \A i \in 1 .. k : i \in 1 .. k - 1 \/ i = k
      OBVIOUS
    <3>2. \A i \in 1 .. k - 1 : i \in 1 .. k
      OBVIOUS
    <3> QED BY <3>1, <3>2 DEF First
  <2> HIDE DEF T
  <2>3. d(k - 1) \in Disks
    BY <1>1, PatchedType
  <2>4. d(k) = [d(k - 1) EXCEPT ![bs[k]] = e[bs[k]]]
    BY <2>1, <2>2 DEF Patched
  <2> HIDE DEF d
  <2>5. /\ On(D, d(k - 1)) \in DiskStates /\ On(D, d(k - 1)).blk = d(k - 1)
        /\ \A x : On(On(D, d(k - 1)), x) = On(D, x)
    BY <2>3, OnType
  <2>6. Overlay(On(D, d(k - 1)), BlockWrite(bs[k], e[bs[k]]))
          = On(D, [d(k - 1) EXCEPT ![bs[k]] = e[bs[k]]])
    BY <2>1, <2>5, BlockWrites
  <2>7. ws[k] = BlockWrite(bs[k], e[bs[k]])
    BY DEF Copy
  <2> QED BY <2>1, <2>4, <2>6, <2>7
<1>7. p[m] = On(D, d(m))
  OBVIOUS
<1> HIDE DEF p, ws, T, d
<1>8. Leads(D, ws, S, On(D, d(m)))
  BY <1>2, <1>4, <1>5, <1>6, <1>7 DEF Leads
<1> QED BY <1>8 DEF ws, T, d

(* The zeroed disk patches a disk as ZeroBlocks does.                       *)
Zeroes == [b \in FsBlocks |-> ZeroBlock]

LEMMA ZeroesPatch ==
  /\ Zeroes \in Disks /\ ZeroBlock \in BlockImages
  /\ \A d, T : Patched(d, Zeroes, T) = ZeroBlocks(d, T)
<1>1. ZeroBlock \in BlockImages
  BY DEF ZeroBlock, BlockImages, Cells
<1> QED BY <1>1 DEF Zeroes, Disks, Patched, ZeroBlocks

(* The blocks that free_data_block zeroes.                                  *)
LEMMA LeadsByZeroing ==
  ASSUME NEW D \in DiskStates, NEW m \in Nat, NEW g \in [0 .. m - 1 -> Pointers], NEW S,
         \A T \in SUBSET FreedBy(g) : On(D, ZeroBlocks(D.blk, T)) \in S
  PROVE  Leads(D, Zeroing(g), S, On(D, ZeroBlocks(D.blk, FreedBy(g))))
<1> DEFINE R  == Reached(g)
           is == Ascending(R)
           n  == Count(R)
<1>1. R \subseteq 0 .. m - 1 /\ R \subseteq 0 .. m /\ DOMAIN g = 0 .. m - 1
  BY DEF Reached
<1>2. /\ n \in Nat /\ is \in [1 .. n -> R]
      /\ \A x \in R : \E k \in 1 .. n : is[k] = x
  <2> HIDE DEF R
  <2> QED BY <1>1, AscendingLists
<1> HIDE DEF is, n
<1> DEFINE bs == [k \in 1 .. n |-> g[is[k]]]
<1>3. FreedBy(g) \subseteq DataBlocks /\ FreedBy(g) \subseteq FsBlocks
  <2>1. 0 .. m - 1 \in SUBSET Int
    OBVIOUS
  <2> QED BY <2>1, FreedByType, Regions
<1>4. First(bs, n) = FreedBy(g)
  <2> HIDE DEF R
  <2>1. \A k \in 1 .. n : bs[k] = g[is[k]] /\ is[k] \in R
    BY <1>2
  <2> HIDE DEF bs
  <2>2. FreedBy(g) = {g[i] : i \in R}
    BY DEF FreedBy, R
  <2> QED BY <1>2, <2>1, <2>2 DEF First
<1>5. bs \in [1 .. n -> FsBlocks]
  BY <1>3, <1>4 DEF First
<1>6. Zeroing(g) = Copy(bs, n, Zeroes)
  <2>1. Zeroing(g) = [k \in 1 .. n |-> BlockWrite(g[is[k]], ZeroBlock)]
    BY <1>2 DEF Zeroing, is, R
  <2>2. \A k \in 1 .. n : bs[k] = g[is[k]] /\ Zeroes[bs[k]] = ZeroBlock
    BY <1>5 DEF Zeroes
  <2> HIDE DEF bs
  <2> QED BY <2>1, <2>2 DEF Copy
<1> HIDE DEF bs, R
<1>7. \A k \in 0 .. n : On(D, Patched(D.blk, Zeroes, First(bs, k))) \in S
  <2> TAKE k \in 0 .. n
  <2>1. First(bs, k) \subseteq First(bs, n)
    BY <1>2 DEF First
  <2> QED BY <1>4, <2>1, ZeroesPatch
<1>8. Leads(D, Copy(bs, n, Zeroes), S, On(D, Patched(D.blk, Zeroes, First(bs, n))))
  BY <1>2, <1>5, <1>7, ZeroesPatch, LeadsByBlocks
<1> QED BY <1>4, <1>6, <1>8, ZeroesPatch

LEMMA ThreeWrites ==
  ASSUME NEW u, NEW v, NEW w
  PROVE  <<u>> \o <<v>> = <<u, v>> /\ (<<u>> \o <<v>>) \o <<w>> = <<u, v, w>>
<1>1. <<u>> \o <<v>> = <<u, v>>
  <2> DEFINE s == <<u>> \o <<v>>
  <2>1. s \in Seq({u, v}) /\ Len(s) = 2 /\ s[1] = u /\ s[2] = v
    OBVIOUS
  <2> HIDE DEF s
  <2>2. s = <<u, v>>
    BY <2>1
  <2> QED BY <2>2 DEF s
<1>2. <<u, v>> \o <<w>> = <<u, v, w>>
  <2> DEFINE s == <<u, v>> \o <<w>>
  <2>1. s \in Seq({u, v, w}) /\ Len(s) = 3 /\ s[1] = u /\ s[2] = v /\ s[3] = w
    OBVIOUS
  <2> HIDE DEF s
  <2>2. s = <<u, v, w>>
    BY <2>1
  <2> QED BY <2>2 DEF s
<1> QED BY <1>1, <1>2

(* write_superblock and write_bitmaps at the end of a command.              *)
LEMMA LeadsByPersisting ==
  ASSUME NEW D \in DiskStates, NEW s \in Superblocks, NEW i \in SUBSET InodeIds,
         NEW b \in SUBSET DataBlocks, NEW S,
         \A E \in DiskStates : E.blk = D.blk /\ E.disk_dbm \in {D.disk_dbm, b} => E \in S
  PROVE  Leads(D, Persisting(s, i, b), S,
               [blk |-> D.blk, disk_sb |-> s, disk_ibm |-> i, disk_dbm |-> b])
<1> DEFINE E1 == [D EXCEPT !.disk_sb = s]
           E2 == [E1 EXCEPT !.disk_ibm = i]
           E3 == [E2 EXCEPT !.disk_dbm = b]
           w1 == SuperblockWrite(s)
           w2 == InodeBitmapWrite(i)
           w3 == DataBitmapWrite(b)
<1>1. /\ E1 \in DiskStates /\ E1.blk = D.blk /\ E1.disk_dbm = D.disk_dbm
      /\ E2 \in DiskStates /\ E2.blk = D.blk /\ E2.disk_dbm = D.disk_dbm
      /\ E3 \in DiskStates /\ E3.blk = D.blk /\ E3.disk_dbm = b
      /\ E3 = [blk |-> D.blk, disk_sb |-> s, disk_ibm |-> i, disk_dbm |-> b]
  <2>1. E1 = [blk |-> D.blk, disk_sb |-> s, disk_ibm |-> D.disk_ibm,
              disk_dbm |-> D.disk_dbm]
    BY DEF DiskStates
  <2> HIDE DEF E1
  <2>2. E2 = [blk |-> D.blk, disk_sb |-> s, disk_ibm |-> i, disk_dbm |-> D.disk_dbm]
    BY <2>1
  <2> HIDE DEF E2
  <2>3. E3 = [blk |-> D.blk, disk_sb |-> s, disk_ibm |-> i, disk_dbm |-> b]
    BY <2>2
  <2> HIDE DEF E3
  <2>4. /\ D.blk \in Disks /\ D.disk_ibm \in SUBSET InodeIds
        /\ D.disk_dbm \in SUBSET DataBlocks
    BY DEF DiskStates
  <2>5. E1 \in DiskStates /\ E1.blk = D.blk /\ E1.disk_dbm = D.disk_dbm
    BY <2>1, <2>4 DEF DiskStates
  <2>6. E2 \in DiskStates /\ E2.blk = D.blk /\ E2.disk_dbm = D.disk_dbm
    BY <2>2, <2>4 DEF DiskStates
  <2>7. E3 \in DiskStates /\ E3.blk = D.blk /\ E3.disk_dbm = b
    BY <2>3, <2>4 DEF DiskStates
  <2> QED BY <2>3, <2>5, <2>6, <2>7
<1>2. D \in S /\ E1 \in S /\ E2 \in S /\ E3 \in S
  <2> HIDE DEF E1, E2, E3
  <2> QED BY <1>1
<1>3. w1 \in Writes /\ w2 \in Writes /\ w3 \in Writes
  BY BitmapWrites
<1>4. Overlay(D, w1) = E1
  BY BitmapWrites
<1> HIDE DEF E1
<1>5. Overlay(E1, w2) = E2
  BY <1>1, BitmapWrites
<1> HIDE DEF E2
<1>6. Overlay(E2, w3) = E3
  BY <1>1, BitmapWrites
<1> HIDE DEF E3, w1, w2, w3
<1>7. Leads(D, <<w1>>, S, E1) /\ Leads(E1, <<w2>>, S, E2) /\ Leads(E2, <<w3>>, S, E3)
  BY <1>2, <1>3, <1>4, <1>5, <1>6, LeadsByOne
<1>8. Leads(D, (<<w1>> \o <<w2>>) \o <<w3>>, S, E3)
  BY <1>7, LeadsOn
<1>9. (<<w1>> \o <<w2>>) \o <<w3>> = <<w1, w2, w3>>
  BY ThreeWrites
<1> QED BY <1>1, <1>8, <1>9 DEF Persisting, w1, w2, w3

-----------------------------------------------------------------------------
(* The same for a disk D whose blocks pass through X only, and whose data  *)
(* bitmap is one of Bs.                                                    *)

Through(X, Bs) == {D \in DiskStates : D.blk \in X /\ D.disk_dbm \in Bs}

LEMMA ThroughOn ==
  ASSUME NEW D \in DiskStates, NEW Bs, D.disk_dbm \in Bs, NEW X \in SUBSET Disks, NEW d \in X
  PROVE  /\ On(D, d) \in DiskStates /\ On(D, d) \in Through(X, Bs)
         /\ On(D, d).blk = d /\ On(D, d).disk_dbm = D.disk_dbm
         /\ \A e : On(On(D, d), e) = On(D, e)
<1>1. d \in Disks
  OBVIOUS
<1> QED BY <1>1, OnType DEF Through

LEMMA LeadsByCell ==
  ASSUME NEW D \in DiskStates, NEW Bs, D.disk_dbm \in Bs, NEW X \in SUBSET Disks,
         NEW d \in X, NEW b \in FsBlocks, NEW s \in Slots, NEW c \in Cells,
         WriteCell(d, b, s, c) \in X
  PROVE  Leads(On(D, d), <<CellWrite(b, s, c)>>, Through(X, Bs),
               On(D, WriteCell(d, b, s, c)))
<1>1. On(D, d) \in DiskStates /\ On(D, d) \in Through(X, Bs) /\ On(D, d).blk = d
  BY ThroughOn
<1>2. CellWrite(b, s, c) \in Writes
      /\ Overlay(On(D, d), CellWrite(b, s, c)) = On(D, WriteCell(d, b, s, c))
  BY <1>1, BlockWrites, ThroughOn
<1>3. On(D, WriteCell(d, b, s, c)) \in Through(X, Bs)
  BY ThroughOn
<1> QED BY <1>1, <1>2, <1>3, LeadsByOne

LEMMA LeadsByInode ==
  ASSUME NEW D \in DiskStates, NEW Bs, D.disk_dbm \in Bs, NEW X \in SUBSET Disks,
         NEW d \in X, NEW id \in InodeIds, NEW l \in InodeImages, WriteInode(d, id, l) \in X
  PROVE  Leads(On(D, d), <<InodeWrite(id, l)>>, Through(X, Bs),
               On(D, WriteInode(d, id, l)))
<1>1. On(D, d) \in DiskStates /\ On(D, d) \in Through(X, Bs) /\ On(D, d).blk = d
  BY ThroughOn
<1>2. InodeWrite(id, l) \in Writes
      /\ Overlay(On(D, d), InodeWrite(id, l)) = On(D, WriteInode(d, id, l))
  BY <1>1, InodeWrites, ThroughOn
<1>3. On(D, WriteInode(d, id, l)) \in Through(X, Bs)
  BY ThroughOn
<1> QED BY <1>1, <1>2, <1>3, LeadsByOne

LEMMA LeadsByBlock ==
  ASSUME NEW D \in DiskStates, NEW Bs, D.disk_dbm \in Bs, NEW X \in SUBSET Disks,
         NEW d \in X, NEW b \in FsBlocks, NEW v \in BlockImages, [d EXCEPT ![b] = v] \in X
  PROVE  Leads(On(D, d), <<BlockWrite(b, v)>>, Through(X, Bs),
               On(D, [d EXCEPT ![b] = v]))
<1>1. On(D, d) \in DiskStates /\ On(D, d) \in Through(X, Bs) /\ On(D, d).blk = d
  BY ThroughOn
<1>2. BlockWrite(b, v) \in Writes
      /\ Overlay(On(D, d), BlockWrite(b, v)) = On(D, [d EXCEPT ![b] = v])
  BY <1>1, BlockWrites, ThroughOn
<1>3. On(D, [d EXCEPT ![b] = v]) \in Through(X, Bs)
  BY ThroughOn
<1> QED BY <1>1, <1>2, <1>3, LeadsByOne

LEMMA LeadsByFreeing ==
  ASSUME NEW D \in DiskStates, NEW Bs, D.disk_dbm \in Bs, NEW X \in SUBSET Disks,
         NEW d \in X, NEW m \in Nat, NEW g \in [0 .. m - 1 -> Pointers],
         \A T \in SUBSET FreedBy(g) : ZeroBlocks(d, T) \in X
  PROVE  Leads(On(D, d), Zeroing(g), Through(X, Bs), On(D, ZeroBlocks(d, FreedBy(g))))
<1> DEFINE E == On(D, d)
<1>1. E \in DiskStates /\ E.blk = d /\ \A e : On(E, e) = On(D, e)
  BY ThroughOn
<1> HIDE DEF E
<1>2. \A T \in SUBSET FreedBy(g) : On(E, ZeroBlocks(E.blk, T)) \in Through(X, Bs)
  BY <1>1, ThroughOn
<1>3. Leads(E, Zeroing(g), Through(X, Bs), On(E, ZeroBlocks(E.blk, FreedBy(g))))
  BY <1>1, <1>2, LeadsByZeroing
<1> QED BY <1>1, <1>3 DEF E

LEMMA LeadsByPatching ==
  ASSUME NEW D \in DiskStates, NEW Bs, D.disk_dbm \in Bs, NEW X \in SUBSET Disks,
         NEW d \in X, NEW e \in Disks, NEW m \in Nat, NEW bs \in [1 .. m -> FsBlocks],
         \A k \in 0 .. m : Patched(d, e, First(bs, k)) \in X
  PROVE  Leads(On(D, d), Copy(bs, m, e), Through(X, Bs), On(D, Patched(d, e, First(bs, m))))
<1> DEFINE E == On(D, d)
<1>1. E \in DiskStates /\ E.blk = d /\ \A x : On(E, x) = On(D, x)
  BY ThroughOn
<1> HIDE DEF E
<1>2. \A k \in 0 .. m : On(E, Patched(E.blk, e, First(bs, k))) \in Through(X, Bs)
  BY <1>1, ThroughOn
<1>3. Leads(E, Copy(bs, m, e), Through(X, Bs), On(E, Patched(E.blk, e, First(bs, m))))
  BY <1>1, <1>2, LeadsByBlocks
<1> QED BY <1>1, <1>3 DEF E

LEMMA LeadsToPersisted ==
  ASSUME NEW D \in DiskStates, NEW Bs, D.disk_dbm \in Bs, NEW X \in SUBSET Disks,
         NEW d \in X, NEW s \in Superblocks, NEW i \in SUBSET InodeIds,
         NEW b \in SUBSET DataBlocks, b \in Bs
  PROVE  Leads(On(D, d), Persisting(s, i, b), Through(X, Bs),
               [blk |-> d, disk_sb |-> s, disk_ibm |-> i, disk_dbm |-> b])
<1> DEFINE E == On(D, d)
<1>1. E \in DiskStates /\ E.blk = d /\ E.disk_dbm = D.disk_dbm
  BY ThroughOn
<1> HIDE DEF E
<1>2. \A F \in DiskStates :
        F.blk = E.blk /\ F.disk_dbm \in {E.disk_dbm, b} => F \in Through(X, Bs)
  BY <1>1 DEF Through
<1>3. Leads(E, Persisting(s, i, b), Through(X, Bs),
            [blk |-> E.blk, disk_sb |-> s, disk_ibm |-> i, disk_dbm |-> b])
  BY <1>1, <1>2, LeadsByPersisting
<1> QED BY <1>1, <1>3 DEF E

(* Every disk is one of these.                                              *)
LEMMA ThroughAll == Through(Disks, SUBSET DataBlocks) = DiskStates
BY DEF Through, DiskStates

-----------------------------------------------------------------------------
(* format.                                                                 *)

LEMMA FormattedTypes ==
  /\ FreshSuperblock \in Superblocks /\ FormattedSuperblock \in Superblocks
  /\ FormattedSuperblock.magic
  /\ Updated(BlankInode, RootDirectory) \in InodeImages
  /\ FormattedSuperblock = [magic |-> TRUE, free_inodes |-> INODE_COUNT - 1,
                            free_blocks |-> Count(DataBlocks) - 1, fs_state |-> CLEAN]
<1>1. WORD \in Nat /\ Count(DataBlocks) \in 1 .. WORD - 1 /\ INODE_COUNT \in 1 .. WORD - 1
  BY Sizes, ContentAssumption
<1>2. /\ INODE_COUNT \in 0 .. WORD - 1 /\ Count(DataBlocks) \in 0 .. WORD - 1
      /\ INODE_COUNT - 1 \in 0 .. WORD - 1 /\ Count(DataBlocks) - 1 \in 0 .. WORD - 1
  BY <1>1
<1>3. FormattedSuperblock = [magic |-> TRUE, free_inodes |-> INODE_COUNT - 1,
                             free_blocks |-> Count(DataBlocks) - 1, fs_state |-> CLEAN]
  <2> DEFINE a == INODE_COUNT - 1
             b == Count(DataBlocks) - 1
             n == INODE_COUNT
             k == Count(DataBlocks)
             yes == TRUE
             r == FreshSuperblock
             q == [r EXCEPT !.free_inodes = a]
  <2>1. r = [magic |-> yes, free_inodes |-> n, free_blocks |-> k, fs_state |-> CLEAN]
    BY DEF FreshSuperblock
  <2>2. r.free_inodes = INODE_COUNT /\ r.free_blocks = Count(DataBlocks)
    BY <2>1
  <2>3. FormattedSuperblock = [r EXCEPT !.free_inodes = a, !.free_blocks = b]
    BY <2>2 DEF FormattedSuperblock
  <2> HIDE DEF a, b, n, k, yes, r
  <2>4. q = [magic |-> yes, free_inodes |-> a, free_blocks |-> k, fs_state |-> CLEAN]
    BY <2>1
  <2>5. [r EXCEPT !.free_inodes = a, !.free_blocks = b] = [q EXCEPT !.free_blocks = b]
    OBVIOUS
  <2> HIDE DEF q
  <2>6. [q EXCEPT !.free_blocks = b]
          = [magic |-> yes, free_inodes |-> a, free_blocks |-> b, fs_state |-> CLEAN]
    BY <2>4
  <2> QED BY <2>3, <2>5, <2>6 DEF a, b, yes
<1>4. FreshSuperblock \in Superblocks /\ FormattedSuperblock \in Superblocks
  BY <1>2, <1>3 DEF FreshSuperblock, Superblocks
<1>5. Updated(BlankInode, RootDirectory) \in InodeImages
  BY BlankInodeType, RootDirectoryType, UpdatedInode
<1> QED BY <1>3, <1>4, <1>5

(* The first k blocks of the inode table.                                   *)
TableUpTo(k) == INODE_TABLE_START .. INODE_TABLE_START + k - 1

LEMMA FormattingLeads ==
  ASSUME NEW D \in DiskStates, NEW X \in SUBSET Disks, D.blk \in X,
         \A k \in 0 .. INODE_TABLE_BLOCKS : ZeroBlocks(D.blk, TableUpTo(k)) \in X,
         NEW z, z = ZeroBlocks(D.blk, InodeTable \cup {DATA_START_BLOCK}), z \in X,
         WriteInode(z, ROOT_INODE, Updated(BlankInode, RootDirectory)) \in X
  PROVE  Leads(D, Formatting, Through(X, SUBSET DataBlocks),
               [blk |-> WriteInode(z, ROOT_INODE, Updated(BlankInode, RootDirectory)),
                disk_sb |-> FormattedSuperblock,
                disk_ibm |-> {ROOT_INODE}, disk_dbm |-> {DATA_START_BLOCK}])
<1> DEFINE Bs == SUBSET DataBlocks
           S  == Through(X, Bs)
           m  == INODE_TABLE_BLOCKS
           t  == ZeroBlocks(D.blk, InodeTable)
           E  == [blk |-> D.blk, disk_sb |-> FreshSuperblock, disk_ibm |-> {}, disk_dbm |-> {}]
           bs == [k \in 1 .. m |-> INODE_TABLE_START + k - 1]
           r  == WriteInode(z, ROOT_INODE, Updated(BlankInode, RootDirectory))
           F  == [blk |-> r, disk_sb |-> FormattedSuperblock,
                  disk_ibm |-> {ROOT_INODE}, disk_dbm |-> {DATA_START_BLOCK}]
           P1 == Persisting(FreshSuperblock, {}, {})
           Z  == [k \in 1 .. INODE_TABLE_BLOCKS |-> BlockWrite(INODE_TABLE_START + k - 1, ZeroBlock)]
           B  == BlockWrite(DATA_START_BLOCK, ZeroBlock)
           R  == InodeWrite(ROOT_INODE, Updated(BlankInode, RootDirectory))
           P2 == Persisting(FormattedSuperblock, {ROOT_INODE}, {DATA_START_BLOCK})
<1>1. /\ m \in Nat /\ D.disk_dbm \in Bs /\ D.blk \in Disks
      /\ {} \in SUBSET InodeIds /\ {ROOT_INODE} \in SUBSET InodeIds
      /\ {} \in Bs /\ {DATA_START_BLOCK} \in Bs
  BY GeometryAssumption, Regions DEF DiskStates
<1>2. Leads(D, P1, S, E)
  <2>1. On(D, D.blk) = D
    BY <1>1, OnType
  <2> HIDE DEF Bs
  <2>2. Leads(On(D, D.blk), P1, Through(X, Bs), E)
    BY <1>1, FormattedTypes, LeadsToPersisted
  <2> QED BY <2>1, <2>2
<1>3. /\ E \in DiskStates /\ E.blk = D.blk /\ E.disk_dbm \in Bs /\ On(E, D.blk) = E
  <2>1. E \in DiskStates /\ E.blk = D.blk /\ E.disk_dbm = {}
    BY <1>1, FormattedTypes DEF DiskStates
  <2> HIDE DEF E
  <2> QED BY <1>1, <2>1, OnType
<1> HIDE DEF E
<1>4. Leads(E, Z, S, On(E, t))
  <2>1. bs \in [1 .. m -> FsBlocks]
    <3>1. \A k \in 1 .. m : INODE_TABLE_START + k - 1 \in FsBlocks
      BY GeometryAssumption DEF FsBlocks, DATA_START_BLOCK, INODE_TABLE_START
    <3> QED BY <3>1
  <2>2. \A k \in 0 .. m : First(bs, k) = TableUpTo(k)
    <3> TAKE k \in 0 .. m
    <3>1. \A i \in 1 .. k : i \in 1 .. m /\ INODE_TABLE_START + i - 1 \in TableUpTo(k)
      BY <1>1 DEF TableUpTo, INODE_TABLE_START
    <3>2. \A b \in TableUpTo(k) : /\ b - INODE_TABLE_START + 1 \in 1 .. k
                                  /\ INODE_TABLE_START + (b - INODE_TABLE_START + 1) - 1 = b
      BY <1>1 DEF TableUpTo, INODE_TABLE_START
    <3>3. \A b \in TableUpTo(k) : \E i \in 1 .. k : bs[i] = b
      BY <3>1, <3>2
    <3> QED BY <3>1, <3>3 DEF First
  <2>3. m \in 0 .. m /\ TableUpTo(m) = InodeTable
    BY <1>1 DEF TableUpTo, InodeTable, DATA_START_BLOCK, INODE_TABLE_START
  <2>4. Z = Copy(bs, m, Zeroes)
    <3>1. \A k \in 1 .. m : bs[k] = INODE_TABLE_START + k - 1 /\ Zeroes[bs[k]] = ZeroBlock
      BY <2>1 DEF Zeroes
    <3> HIDE DEF bs
    <3> QED BY <3>1 DEF Copy
  <2> HIDE DEF bs, m, S, Bs, Z
  <2>5. \A k \in 0 .. m : Patched(D.blk, Zeroes, First(bs, k)) \in X
    BY <2>2, ZeroesPatch DEF m
  <2> DEFINE d == D.blk
  <2>6. d \in X /\ m \in Nat
    BY <1>1
  <2>8. E.disk_dbm \in Bs /\ E \in DiskStates
    BY <1>3
  <2>9. Zeroes \in Disks
    BY ZeroesPatch
  <2>10. \A k \in 0 .. m : Patched(d, Zeroes, First(bs, k)) \in X
    BY <2>5
  <2> HIDE DEF d
  <2>7. Leads(On(E, d), Copy(bs, m, Zeroes), Through(X, Bs),
              On(E, Patched(d, Zeroes, First(bs, m))))
    BY <2>1, <2>6, <2>8, <2>9, <2>10, LeadsByPatching
  <2> QED BY <1>3, <2>2, <2>3, <2>4, <2>7, ZeroesPatch DEF S, d
<1>5. t \in X
  <2>1. m \in 0 .. m /\ TableUpTo(m) = InodeTable
    BY <1>1 DEF TableUpTo, InodeTable, DATA_START_BLOCK, INODE_TABLE_START
  <2> QED BY <2>1
<1>6. DATA_START_BLOCK \in FsBlocks /\ ROOT_INODE \in InodeIds
  BY Regions
<1>7. [t EXCEPT ![DATA_START_BLOCK] = ZeroBlock] = z
  BY <1>6 DEF ZeroBlocks
<1> HIDE DEF t
<1>8. Leads(On(E, t), <<B>>, S, On(E, z))
  <2> HIDE DEF Bs
  <2> DEFINE y == [t EXCEPT ![DATA_START_BLOCK] = ZeroBlock]
  <2>1. y = z /\ y \in X
    BY <1>7
  <2> HIDE DEF y
  <2>2. Leads(On(E, t), <<B>>, Through(X, Bs), On(E, y))
    BY <1>3, <1>5, <1>6, <2>1, ZeroesPatch, LeadsByBlock DEF y
  <2> QED BY <2>1, <2>2
<1>9. Leads(On(E, z), <<R>>, S, On(E, r))
  BY <1>3, <1>6, FormattedTypes, LeadsByInode
<1>10. Leads(On(E, r), P2, S, F)
  <2> HIDE DEF r
  <2> QED BY <1>1, <1>3, FormattedTypes, LeadsToPersisted DEF r
<1> HIDE DEF S, Z, B, R, P1, P2, F, r
<1>11. Leads(D, P1 \o Z, S, On(E, t))
  BY <1>2, <1>4, LeadsOn
<1>12. Leads(On(E, t), <<B, R>>, S, On(E, r))
  <2>1. Leads(On(E, t), <<B>> \o <<R>>, S, On(E, r))
    BY <1>8, <1>9, LeadsOn
  <2> QED BY <2>1, ThreeWrites
<1>13. Leads(D, ((P1 \o Z) \o <<B, R>>) \o P2, S, F)
  <2>1. Leads(D, (P1 \o Z) \o <<B, R>>, S, On(E, r))
    BY <1>11, <1>12, LeadsOn
  <2> QED BY <1>10, <2>1, LeadsOn
<1>14. Formatting = ((P1 \o Z) \o <<B, R>>) \o P2
  BY DEF Formatting, RootWrite, P1, Z, B, R, P2
<1> QED BY <1>13, <1>14 DEF F, S, r

-----------------------------------------------------------------------------
(* fsck.                                                                   *)

(* The writes that leave it to a later fsck to end in g.                    *)
Mending(g) ==
  {w \in Writes : /\ w.to # "block" /\ w.to # "cell"
                  /\ w.to = "inode" => Repair(w.value) = InodeImage(g, w.id)}

EndsIn(g) == {D \in DiskStates : FsckDisk(D.blk) = g}

LEMMA MendingStays ==
  ASSUME NEW g, NEW D \in EndsIn(g), NEW w \in Mending(g)
  PROVE  Overlay(D, w) \in EndsIn(g)
<1>1. D \in DiskStates /\ D.blk \in Disks /\ FsckDisk(D.blk) = g /\ w \in Writes
  BY DEF EndsIn, DiskStates, Mending
<1>2. Overlay(D, w) \in DiskStates
  BY <1>1, OverlayType
<1>3. CASE w.to = "inode"
  <2> DEFINE id == w.id
             l  == w.value
             e  == WriteInode(D.blk, id, l)
  <2>1. id \in InodeIds /\ l \in InodeImages /\ Repair(l) = InodeImage(g, id)
    BY <1>3 DEF Mending, Writes
  <2>2. Overlay(D, w) = On(D, e)
    BY <1>1, <1>3 DEF Overlay, On, DiskStates
  <2> HIDE DEF id, l
  <2>3. e \in Disks
    BY <1>1, <2>1, WriteInodeType
  <2>4. \A b \in FsBlocks, s \in Slots :
          e[b][s] = IF b = InodeBlock(id) /\ PlaceOf(s) = InodeSlot(id) THEN l[LineOf(s)]
                    ELSE D.blk[b][s]
    <3>1. DOMAIN D.blk = FsBlocks
      BY <1>1 DEF Disks
    <3> QED BY <2>1, <3>1, WrittenCell
  <2> HIDE DEF e
  <2>5. Overlay(D, w).blk = e
    BY <1>1, <2>2, <2>3, OnType
  <2>6. \A b \in FsBlocks, k \in Places : ~ (b = InodeBlock(id) /\ k = InodeSlot(id)) =>
          ImageAt(e[b], k) = ImageAt(D.blk[b], k)
    BY <2>4, CellAt DEF ImageAt
  <2>7. InodeBlock(id) \in FsBlocks /\ InodeSlot(id) \in Places
        /\ IsHome(InodeBlock(id), InodeSlot(id))
    BY <2>1, InodeHome DEF IsHome
  <2>8. ImageAt(e[InodeBlock(id)], InodeSlot(id)) = l
    <3>1. \A r \in Lines : e[InodeBlock(id)][CellOf(InodeSlot(id), r)] = l[r]
      BY <2>4, <2>7, CellAt
    <3> QED BY <2>1, <3>1 DEF ImageAt, InodeImages
  <2>9. Repair(l) = Repair(ImageAt(D.blk[InodeBlock(id)], InodeSlot(id)))
    BY <1>1, <2>1, <2>7, FsckHome DEF InodeImage
  <2>10. ASSUME NEW b \in FsBlocks, NEW s \in Slots
         PROVE  /\ IsHome(b, PlaceOf(s)) =>
                     Repair(ImageAt(e[b], PlaceOf(s))) = Repair(ImageAt(D.blk[b], PlaceOf(s)))
                /\ ~ IsHome(b, PlaceOf(s)) => e[b][s] = D.blk[b][s]
    <3>1. PlaceOf(s) \in Places
      BY CellParts
    <3> QED BY <2>4, <2>6, <2>7, <2>8, <2>9, <3>1
  <2>11. FsckDisk(e) = FsckDisk(D.blk)
    BY <2>10 DEF FsckDisk
  <2> QED BY <1>1, <1>2, <2>5, <2>11 DEF EndsIn
<1>4. CASE w.to # "inode"
  <2>1. w.to \in {"superblock", "inode bitmap", "data bitmap"}
    BY <1>4 DEF Mending, Writes
  <2>2. Overlay(D, w).blk = D.blk
    BY <1>1, <2>1 DEF Overlay, DiskStates
  <2> QED BY <1>1, <1>2, <2>2 DEF EndsIn
<1> QED BY <1>3, <1>4

(* An inode in which some pointers have been set to what they will be       *)
(* becomes the same as the one in which none has.                           *)
LEMMA UpdatedTwice ==
  ASSUME NEW l \in InodeImages, NEW a \in Inodes, NEW b \in Inodes,
         a.type = AsInode(l).type, a.size = AsInode(l).size, a.ind = AsInode(l).ind,
         b.type = AsInode(l).type, b.size = AsInode(l).size, b.ind = AsInode(l).ind,
         \A i \in DirectIdx : a.direct[i] \in {AsInode(l).direct[i], b.direct[i]}
  PROVE  Updated(Updated(l, a), b) = Updated(l, b)
<1> DEFINE u == Updated(l, a)
<1>1. \A r \in Lines : l[r] \in Cells /\ u[r] = LineWith(l[r], r, a) /\ u[r] \in Cells
  BY LineWithType DEF InodeImages, Updated
<1> HIDE DEF u
<1>2. u[0] = l[0]
  <2>1. HeaderOf(l[0]) = [type |-> HeaderOf(l[0]).type, size |-> HeaderOf(l[0]).size]
    BY <1>1, Regions, HeaderOfType
  <2>2. a.type = HeaderOf(l[0]).type /\ a.size = HeaderOf(l[0]).size
    BY DEF AsInode
  <2> QED BY <1>1, <2>1, <2>2, Regions DEF LineWith
<1>3. ASSUME NEW r \in Lines, r # 0
      PROVE  LineWith(u[r], r, b) = LineWith(l[r], r, b)
  <2> DEFINE v == WordsWith(l[r], r, b)
             x == WordsWith(l[r], r, a)
             y == WordsOf(l[r])
  <2>1. WordsOf(u[r]) = x
    BY <1>1, <1>3, LineWithType
  <2>2. WordsWith(u[r], r, b) = v
    <3>1. \A w \in Words : (r - 1) * PointersPerCell + w > DIRECT_BLOCKS => x[w] = y[w]
      <4>1. \A w \in Words : (r - 1) * PointersPerCell + w \in Int /\ DIRECT_BLOCKS \in Int
        BY <1>3, PointerWord, Strides
      <4> QED BY <4>1 DEF WordsWith
    <3>2. \A w \in Words : (r - 1) * PointersPerCell + w \in Int /\ DIRECT_BLOCKS \in Int
      BY <1>3, PointerWord, Strides
    <3>3. \A w \in Words : WordsWith(u[r], r, b)[w] = v[w]
      BY <2>1, <3>1, <3>2 DEF WordsWith
    <3> QED BY <3>3 DEF WordsWith
  <2>3. ASSUME y = v PROVE x = y
    <3>1. ASSUME NEW w \in Words
          PROVE  x[w] = y[w]
      <4> DEFINE j == (r - 1) * PointersPerCell + w
      <4>1. j \in Nat /\ j < DIRECT_BLOCKS => j \in DirectIdx
        BY Strides DEF DirectIdx
      <4>2. /\ j \in Nat
            /\ 1 + j \div PointersPerCell = r /\ j % PointersPerCell = w
        BY <1>3, PointerWord
      <4>3. /\ x[w] = IF j < DIRECT_BLOCKS THEN a.direct[j]
                      ELSE IF j = DIRECT_BLOCKS THEN a.ind ELSE y[w]
            /\ v[w] = IF j < DIRECT_BLOCKS THEN b.direct[j]
                      ELSE IF j = DIRECT_BLOCKS THEN b.ind ELSE y[w]
        BY DEF WordsWith
      <4> HIDE DEF j, x, v
      <4>4. j < DIRECT_BLOCKS => AsInode(l).direct[j] = y[w]
        BY <4>1, <4>2 DEF AsInode, DirectOf, PointerIn
      <4>5. v[w] = y[w]
        BY <2>3
      <4> HIDE DEF y
      <4> QED BY <4>1, <4>2, <4>3, <4>4, <4>5
    <3>2. y \in [Words -> Pointers]
      BY <1>1, WordsOfType
    <3> QED BY <3>1, <3>2 DEF WordsWith
  <2>4. /\ u[r] = IF y = x THEN l[r] ELSE WordCell(x)
        /\ LineWith(u[r], r, b) = IF x = v THEN u[r] ELSE WordCell(v)
        /\ LineWith(l[r], r, b) = IF y = v THEN l[r] ELSE WordCell(v)
    BY <1>1, <1>3, <2>1, <2>2 DEF LineWith
  <2> HIDE DEF v, x, y
  <2> QED BY <2>3, <2>4
<1>4. \A r \in Lines : LineWith(u[r], r, b) = LineWith(l[r], r, b)
  BY <1>2, <1>3
<1> QED BY <1>4 DEF Updated, u

(* An inode with some of its bad pointers cleared is repaired to the same.  *)
LEMMA RepairResumes ==
  ASSUME NEW l \in InodeImages, AsInode(l).type \in {"REGULAR", "DIRECTORY"},
         NEW I \in SUBSET BadAt(AsInode(l))
  PROVE  /\ WithoutPointers(l, I) \in InodeImages
         /\ Repair(WithoutPointers(l, I)) = Repair(l)
<1> DEFINE ino == AsInode(l)
           clr(J) == [i \in DirectIdx |-> IF i \in J THEN 0 ELSE ino.direct[i]]
           v   == [ino EXCEPT !.direct = clr(I)]
           z   == [ino EXCEPT !.direct = clr(BadAt(ino))]
           m   == WithoutPointers(l, I)
<1>1. ino \in Inodes
  BY AsInodeType
<1>2. m = Updated(l, v)
  BY DEF WithoutPointers
<1>3. /\ v \in Inodes /\ v.type = ino.type /\ v.size = ino.size /\ v.ind = ino.ind
      /\ z \in Inodes /\ z.type = ino.type /\ z.size = ino.size /\ z.ind = ino.ind
      /\ v.direct = clr(I) /\ z.direct = clr(BadAt(ino))
  <2> HIDE DEF ino
  <2>1. \A J : clr(J) \in [DirectIdx -> Pointers]
    BY <1>1 DEF Inodes, Pointers
  <2> HIDE DEF clr
  <2> QED BY <1>1, <2>1 DEF Inodes
<1> HIDE DEF m, v, z
<1>4. m \in InodeImages /\ AsInode(m) = v
  BY <1>2, <1>3, UpdatedInode
<1>5. Repair(l) = Updated(l, z)
  BY DEF Repair, BadAt, z
<1>6. Repair(m) = Updated(m, z)
  <2>1. \A i \in DirectIdx : v.direct[i] = IF i \in I THEN 0 ELSE ino.direct[i]
    BY <1>3
  <2>2. I \subseteq BadAt(ino)
    OBVIOUS
  <2> HIDE DEF ino
  <2>3. \A i \in DirectIdx : i \in BadAt(v) <=> i \in BadAt(ino) /\ i \notin I
    BY <2>1, <2>2 DEF BadAt
  <2> DEFINE w == [i \in DirectIdx |-> IF i \in BadAt(v) THEN 0 ELSE v.direct[i]]
  <2>4. w = clr(BadAt(ino))
    BY <2>1, <2>2, <2>3
  <2>5. Repair(m) = Updated(m, [v EXCEPT !.direct = w])
    BY <1>3, <1>4 DEF Repair, BadAt, ino
  <2> HIDE DEF w, clr
  <2>6. [v EXCEPT !.direct = w] = z
    BY <1>1, <2>4 DEF v, z, Inodes
  <2> QED BY <2>5, <2>6
<1>7. Updated(Updated(l, v), z) = Updated(l, z)
  <2>1. \A i \in DirectIdx : v.direct[i] \in {ino.direct[i], z.direct[i]}
    BY <1>3
  <2> QED BY <1>3, <2>1, UpdatedTwice
<1> QED BY <1>2, <1>4, <1>5, <1>6, <1>7 DEF m

LEMMA FixesMend ==
  ASSUME TypeOK, NEW id \in InodeIds
  PROVE  Fixes(id) \in Seq(Mending(FsckDisk(blk)))
<1> DEFINE l    == InodeImage(blk, id)
           ino  == AsInode(l)
           bad  == Ascending(BadAt(ino))
           g    == FsckDisk(blk)
           M    == Mending(g)
           ZW   == <<InodeWrite(id, BlankInode)>>
<1>1. blk \in Disks
  BY DEF TypeOK, Disks
<1>2. l \in InodeImages /\ ino \in Inodes /\ InodeImage(g, id) = Repair(l)
  <2>1. /\ InodeBlock(id) \in FsBlocks /\ InodeSlot(id) \in Places
        /\ IsHome(InodeBlock(id), InodeSlot(id))
    BY InodeHome DEF IsHome
  <2> QED BY <1>1, <2>1, FsckHome, AsInodeType DEF InodeImage
<1>3. ASSUME NEW v \in InodeImages, Repair(v) = Repair(l)
      PROVE  InodeWrite(id, v) \in M
  <2> DEFINE w == InodeWrite(id, v)
  <2>1. w \in [to : {"inode"}, id : InodeIds, value : InodeImages]
        /\ w.to = "inode" /\ w.id = id /\ w.value = v
    BY DEF InodeWrite
  <2> HIDE DEF w, g, l
  <2> QED BY <1>2, <1>3, <2>1 DEF Mending, Writes, w
<1>4. CASE ino.type = "NONE"
  BY <1>4 DEF Fixes
<1>5. CASE ino.type = "INVALID"
  <2>1. Repair(l) = BlankInode
    BY <1>5 DEF Repair
  <2>2. BlankInode \in InodeImages /\ Repair(BlankInode) = BlankInode
    BY BlankInodeType DEF Repair, NewInode
  <2>3. InodeWrite(id, BlankInode) \in M
    BY <1>3, <2>1, <2>2
  <2>4. Fixes(id) = ZW
    BY <1>5 DEF Fixes
  <2> HIDE DEF M
  <2> QED BY <2>3, <2>4 DEF M
<1>6. CASE ino.type \in {"REGULAR", "DIRECTORY"}
  <2> DEFINE n == Count(BadAt(ino))
  <2>1. BadAt(ino) \subseteq 0 .. DIRECT_BLOCKS /\ DIRECT_BLOCKS \in Nat
    BY GeometryAssumption DEF BadAt, DirectIdx
  <2>2. n \in Nat /\ bad \in [1 .. n -> BadAt(ino)]
    BY <2>1, AscendingLists
  <2> HIDE DEF n, bad, M
  <2> DEFINE v == [k \in 1 .. n |-> InodeWrite(id, WithoutPointers(l, {bad[m] : m \in 1 .. k}))]
  <2>3. ASSUME NEW k \in 1 .. n
        PROVE  InodeWrite(id, WithoutPointers(l, {bad[m] : m \in 1 .. k})) \in M
    <3> DEFINE I == {bad[m] : m \in 1 .. k}
    <3>1. I \subseteq BadAt(ino)
      BY <2>2
    <3> HIDE DEF I
    <3>2. WithoutPointers(l, I) \in InodeImages /\ Repair(WithoutPointers(l, I)) = Repair(l)
      <4> HIDE DEF l
      <4> QED BY <1>2, <1>6, <3>1, RepairResumes
    <3> QED BY <1>3, <3>2 DEF I
  <2>4. v \in Seq(M)
    BY <2>2, <2>3
  <2>5. Fixes(id) = v
    BY <1>6, <2>2 DEF Fixes, bad
  <2> HIDE DEF v
  <2> QED BY <2>4, <2>5 DEF M
<1> QED BY <1>2, <1>4, <1>5, <1>6 DEF Inodes, FileTypes

LEMMA FixesUpToMend ==
  ASSUME TypeOK
  PROVE  FixesUpTo[INODE_COUNT] \in Seq(Mending(FsckDisk(blk)))
<1> SUFFICES ASSUME NEW n, n = INODE_COUNT, NEW V, V = Seq(Mending(FsckDisk(blk)))
             PROVE  FixesUpTo[n] \in V
  OBVIOUS
<1>1. n \in Nat /\ <<>> \in V
  BY GeometryAssumption
<1>2. /\ \A id \in InodeIds : Fixes(id) \in V
      /\ \A s \in V, t \in V : s \o t \in V
  BY FixesMend
<1>3. \A k \in 1 .. n : k - 1 \in InodeIds /\ k - 1 \in 0 .. n
  BY <1>1 DEF InodeIds
<1>4. PICK step \in [(1 .. n) \X V -> V] :
        \A k \in 1 .. n, e \in V : step[<<k, e>>] = e \o Fixes(k - 1)
  <2> DEFINE step == [x \in (1 .. n) \X V |-> x[2] \o Fixes(x[1] - 1)]
  <2>1. step \in [(1 .. n) \X V -> V]
    BY <1>2, <1>3
  <2> QED BY <2>1
<1>5. PICK f : f \in Runs(n, V, <<>>, step)
  BY <1>1, StepwiseExists
<1>6. /\ f \in [0 .. n -> V] /\ f[0] = <<>>
      /\ \A k \in 1 .. n : f[k] = step[<<k, f[k - 1]>>]
  BY ONLY <1>5 DEF Runs
<1>7. \A k \in 1 .. n : f[k] = f[k - 1] \o Fixes(k - 1)
  BY <1>3, <1>4, <1>6
<1>8. f = [k \in 0 .. n |-> IF k = 0 THEN <<>> ELSE f[k - 1] \o Fixes(k - 1)]
  <2>1. \A k \in 0 .. n : k # 0 => k \in 1 .. n
    BY <1>1
  <2> QED BY <1>6, <1>7, <2>1
<1> DEFINE g == FixesUpTo
<1>9. g = [k \in 0 .. n |-> IF k = 0 THEN <<>> ELSE g[k - 1] \o Fixes(k - 1)]
  BY <1>8 DEF FixesUpTo
<1> HIDE DEF g
<1>10. g[0] \in V
  <2>1. 0 \in 0 .. n
    BY <1>1
  <2>2. g[0] = <<>>
    BY ONLY <1>9, <2>1
  <2> QED BY <1>1, <2>2
<1>11. ASSUME NEW i \in 0 .. n - 1, g[i] \in V
       PROVE  g[i + 1] \in V
  <2>1. i + 1 \in 0 .. n /\ i + 1 # 0 /\ (i + 1) - 1 = i /\ i \in InodeIds
    BY <1>1 DEF InodeIds
  <2>2. g[i + 1] = g[i] \o Fixes(i)
    BY ONLY <1>9, <2>1
  <2> QED BY <1>2, <1>11, <2>1, <2>2
<1>12. \A i \in 0 .. n : g[i] \in V
  BY <1>1, <1>10, <1>11, StaysIn
<1>13. n \in 0 .. n
  BY <1>1
<1> QED BY <1>12, <1>13 DEF g

-----------------------------------------------------------------------------
(* What is claimed of every disk on the way of the command c that began in  *)
(* the state b and takes the inode bitmap to I.                             *)

BeganConsistent(b) ==
  /\ Unshared(b.blk) /\ Allocated(b.blk, b.disk_dbm)
  /\ Resolves(b.blk, b.disk_sb, b.disk_ibm)
  /\ b.disk_sb.magic => Counted(b.disk_sb, b.disk_ibm, b.disk_dbm)
  /\ b.mounted => <<b.sb, b.inode_bm, b.data_bm>> = <<b.disk_sb, b.disk_ibm, b.disk_dbm>>

Within(c, b, I, ops) == /\ c.op \in ops /\ BeganConsistent(b)
                        /\ \A id \in b.inode_bm \cup I : InTable(id)

Spared(D, d, n) == \A m \in Names \ {n} : /\ ReadFile(D.blk, m) = ReadFile(d, m)
                                          /\ BlocksOf(D.blk, m) \subseteq D.disk_dbm

Safe(c, b, I) ==
  {D \in DiskStates :
     /\ Within(c, b, I, {"format", "mount", "unmount", "create", "write", "delete", "full"})
          => Unshared(D.blk)
     /\ Within(c, b, I, {"mount", "unmount", "create", "write", "full"}) => Backed(D.blk)
     /\ Within(c, b, I, {"create", "write", "delete", "full"}) => Spared(D, b.blk, c.name)
     /\ c.op = "fsck" => FsckDisk(D.blk) = FsckDisk(b.blk)}

LEMMA SoundBegun ==
  ASSUME TypeOK, mounted, sb.magic, BeganConsistent(State),
         \A id \in inode_bm : InTable(id)
  PROVE  Sound(blk, inode_bm, data_bm)
<1>1. /\ Unshared(blk) /\ Allocated(blk, data_bm)
      /\ \A p \in UsedEntries(blk) : EntryAt(blk, p).kind = "dirent"
      /\ Backed(blk) /\ Distinct(blk) /\ Recorded(blk, inode_bm)
  BY DEF BeganConsistent, State, Resolves
<1>2. inode_bm \subseteq TableIds /\ ROOT_INODE \in inode_bm /\ ROOT_INODE \in TableIds
  BY <1>1, RootInTable DEF TypeOK, TableIds, Recorded
<1>3. blk \in Disks /\ data_bm \subseteq DataBlocks
  BY DEF TypeOK, Disks
<1>4. ASSUME NEW p \in UsedEntries(blk)
      PROVE  EntryAt(blk, p) \in Dirents
  <2>1. p \in DirectIdx \X Slots /\ DirOf(blk)[p[1]] # 0
    BY DEF UsedEntries
  <2>2. DirectSite(ROOT_INODE, p[1]) \in Sites
        /\ PointerAt(blk, DirectSite(ROOT_INODE, p[1])) = DirOf(blk)[p[1]]
    BY <1>2, <2>1, SiteOf, PointerAtSite, DirOfRoot
  <2>3. DirOf(blk)[p[1]] \in FsBlocks
    BY <1>1, <1>3, <2>1, <2>2, Regions DEF Allocated
  <2>4. EntryAt(blk, p) \in Cells
    BY <1>3, <2>1, <2>3 DEF EntryAt, Disks, BlockImages
  <2> QED BY <1>1, <2>4, CellKinds
<1>5. GoodEntries(blk, inode_bm)
  BY <1>1, <1>4 DEF GoodEntries, Backed, Recorded
<1> QED BY <1>1, <1>2, <1>3, <1>5 DEF Sound

LEMMA SoundBacked ==
  ASSUME NEW d, NEW I, NEW B, Sound(d, I, B)
  PROVE  Unshared(d) /\ Backed(d)
BY DEF Sound, GoodEntries, Backed

(* Every file but n is on e as it is on d.                                  *)
Spares(d, e, n) ==
  /\ RootReadable(e)
  /\ \A m \in Names \ {n} :
       /\ Matches(e, m) = Matches(d, m)
       /\ \A p \in Matches(d, m) : /\ EntryAt(e, p) = EntryAt(d, p)
                                   /\ Keeps(d, e, EntryAt(d, p).id)

LEMMA SparesFiles ==
  ASSUME NEW d, NEW I, NEW B, Sound(d, I, B), NEW e, NEW n, Spares(d, e, n),
         NEW m \in Names \ {n}
  PROVE  ReadFile(e, m) = ReadFile(d, m) /\ BlocksOf(e, m) = BlocksOf(d, m)
<1>1. /\ Matches(e, m) = Matches(d, m)
      /\ \A p \in Matches(d, m) : /\ EntryAt(e, p) = EntryAt(d, p)
                                  /\ Keeps(d, e, EntryAt(d, p).id)
  BY DEF Spares
<1>2. ReadFile(e, m) = ReadFile(d, m)
  BY <1>1, SameFile DEF Spares
<1> DEFINE Q == {q \in Sites : q[1] \in {EntryAt(d, p).id : p \in Matches(d, m)}}
<1>3. {q \in Sites : q[1] \in {EntryAt(e, p).id : p \in Matches(e, m)}} = Q
  BY <1>1
<1>4. \A q \in Q : PointerAt(e, q) = PointerAt(d, q)
  BY <1>1 DEF Keeps
<1> HIDE DEF Q
<1>5. BlocksOf(e, m) = {PointerAt(e, r) : r \in Q} \ {0}
  BY <1>3 DEF BlocksOf
<1>6. BlocksOf(d, m) = {PointerAt(d, r) : r \in Q} \ {0}
  BY DEF BlocksOf, Q
<1>7. {PointerAt(e, r) : r \in Q} = {PointerAt(d, r) : r \in Q}
  BY <1>4
<1> QED BY <1>2, <1>5, <1>6, <1>7

(* What a file owns is allocated and is no other file's.                    *)
LEMMA BlocksApart ==
  ASSUME NEW d, NEW I, NEW B, Sound(d, I, B), NEW m
  PROVE  /\ BlocksOf(d, m) \subseteq B
         /\ \A id \in TableIds : (\A p \in Matches(d, m) : EntryAt(d, p).id # id)
              => BlocksOf(d, m) \cap Owned(d, id) = {}
<1>1. ASSUME NEW b \in BlocksOf(d, m)
      PROVE  \E r \in Sites, p \in Matches(d, m) :
               r[1] = EntryAt(d, p).id /\ b = PointerAt(d, r) /\ b # 0
  BY DEF BlocksOf
<1> QED BY <1>1, OwnedApart DEF Sound, Allocated

(* Of a name no entry is, and of two names none is the other's.             *)
LEMMA OtherIds ==
  ASSUME NEW d, NEW I, NEW B, Sound(d, I, B), NEW n, NEW p \in Matches(d, n),
         NEW m, m # n, NEW q \in Matches(d, m)
  PROVE  EntryAt(d, q).id # EntryAt(d, p).id
BY SoundMatches DEF Sound, Distinct

(* Writes to blocks that only the file id reaches, as long as its indirect  *)
(* block is left as it is or zeroed.                                        *)
LEMMA ScratchSound ==
  ASSUME NEW d, NEW I, NEW B, Sound(d, I, B), NEW id \in TableIds \ {ROOT_INODE},
         NEW T \in SUBSET DataBlocks, \A r \in Sites : r[1] # id => PointerAt(d, r) \notin T,
         NEW e, \A b \in FsBlocks \ T : e[b] = d[b],
         ReadInode(d, id).ind \in T => e[ReadInode(d, id).ind] = ZeroBlock
  PROVE  Unshared(e) /\ Backed(e) /\ ChangesOnly(d, e, id)
<1> DEFINE b == ReadInode(d, id).ind
<1>1. \A j \in TableIds : ReadInode(e, j) = ReadInode(d, j)
  <2>1. \A x \in InodeTable : e[x] = d[x]
    <3>1. InodeTable \cap DataBlocks = {}
      BY GeometryAssumption DEF InodeTable, DataBlocks, DATA_START_BLOCK, INODE_TABLE_START
    <3> QED BY <3>1, Regions
  <2> QED BY <2>1, SameTable
<1>2. \A x \in DataBlocks \ T : e[x] = d[x]
  BY Regions
<1>3. \A j \in TableIds \ {id} : Keeps(d, e, j)
  <2> TAKE j \in TableIds \ {id}
  <2>1. \A r \in Sites : r[1] = j => PointerAt(d, r) \notin T
    OBVIOUS
  <2> QED BY <1>1, <1>2, <2>1, KeepsUntouched
<1>4. ASSUME NEW i \in DirectIdx, DirOf(d)[i] # 0
      PROVE  e[DirOf(d)[i]] = d[DirOf(d)[i]]
  <2>1. /\ DirectSite(ROOT_INODE, i) \in Sites /\ DirectSite(ROOT_INODE, i)[1] # id
        /\ PointerAt(d, DirectSite(ROOT_INODE, i)) = DirOf(d)[i]
    BY SoundRoot, SiteOf, PointerAtSite, DirOfRoot DEF DirectSite
  <2>2. DirOf(d)[i] \notin T
    BY <2>1
  <2>3. DirOf(d)[i] \in DataBlocks
    BY <1>4, SoundRoot DEF Sound
  <2> QED BY <1>2, <2>2, <2>3
<1>5. DirOf(e) = DirOf(d)
  BY <1>1, SoundRoot, DirOfRoot
<1>6. /\ UsedEntries(e) = UsedEntries(d)
      /\ \A p \in UsedEntries(d) : EntryAt(e, p) = EntryAt(d, p)
      /\ \A n : Matches(e, n) = Matches(d, n)
  BY <1>4, <1>5, SameDirectory
<1>7. ASSUME NEW r \in Sites
      PROVE  PointerAt(e, r) = 0 \/ PointerAt(e, r) = PointerAt(d, r)
  <2>1. CASE r[1] # id
    BY <1>3, <2>1, SiteCases DEF Keeps
  <2>2. CASE r[1] = id /\ b \notin T
    <3>1. b \in FsBlocks => e[b] = d[b]
      BY <2>2
    <3>2. PointerAt(e, r) = PointerAt(d, r)
      BY <1>1, <2>2, <3>1, SameSites
    <3> QED BY <3>2
  <2>3. CASE r[1] = id /\ b \in T
    <3>1. CASE \E s \in Slots : r = PointerSite(r[1], s)
      <4>1. PICK s \in Slots : r = PointerSite(id, s)
        BY <2>3, <3>1
      <4>2. PointerAt(e, r) = PointersOf(e, b)[s]
        BY <1>1, <4>1, PointerAtSite
      <4>3. PointersOf(e, b)[s] = AsPointer(e[b][s])
        BY <2>3, Regions DEF PointersOf
      <4>4. AsPointer(e[b][s]) = 0
        BY <2>3 DEF AsPointer, ZeroBlock, ZeroCell
      <4> QED BY <4>2, <4>3, <4>4
    <3>2. CASE ~ \E s \in Slots : r = PointerSite(r[1], s)
      BY <1>1, <2>3, <3>2, SiteCases, PointerAtSite
    <3> QED BY <3>1, <3>2
  <2> QED BY <2>1, <2>2, <2>3
<1>8. Unshared(e)
  <2>1. Unshared(d)
    BY DEF Sound
  <2> QED BY <1>7, <2>1 DEF Unshared
<1>9. Backed(e)
  BY <1>1, <1>6 DEF Backed, Sound, GoodEntries
<1> QED BY <1>3, <1>6, <1>8, <1>9 DEF ChangesOnly

LEMMA ChangesSpare ==
  ASSUME NEW d, NEW I, NEW B, Sound(d, I, B), NEW id \in TableIds \ {ROOT_INODE},
         NEW n, NEW p \in Matches(d, n), EntryAt(d, p).id = id,
         NEW e, ChangesOnly(d, e, id)
  PROVE  Spares(d, e, n)
<1>1. RootReadable(e)
  BY SoundRoot, DirOfRoot DEF ChangesOnly, Keeps, RootReadable
<1>2. ASSUME NEW m \in Names \ {n}, NEW q \in Matches(d, m)
      PROVE  EntryAt(e, q) = EntryAt(d, q) /\ Keeps(d, e, EntryAt(d, q).id)
  <2>1. q \in UsedEntries(d) /\ EntryAt(d, q).id \in TableIds
    BY MatchIds
  <2>2. EntryAt(d, q).id # id
    BY OtherIds
  <2> QED BY <2>1, <2>2 DEF ChangesOnly
<1> QED BY <1>1, <1>2 DEF Spares, ChangesOnly

-----------------------------------------------------------------------------
(* A command that begins.                                                  *)

LEMMA DiskType ==
  ASSUME TypeOK
  PROVE  /\ Disk \in DiskStates /\ blk \in Disks
         /\ Disk.blk = blk /\ Disk.disk_sb = disk_sb
         /\ Disk.disk_ibm = disk_ibm /\ Disk.disk_dbm = disk_dbm
         /\ On(Disk, blk) = Disk
<1>1. Disk \in DiskStates /\ blk \in Disks
  BY DEF TypeOK, Disk, DiskStates, Disks
<1>2. /\ Disk.blk = blk /\ Disk.disk_sb = disk_sb
      /\ Disk.disk_ibm = disk_ibm /\ Disk.disk_dbm = disk_dbm
  BY DEF Disk
<1> QED BY <1>1, <1>2, OnType

LEMMA Beginning ==
  ASSUME NEW op, NEW n, NEW ws, Begin(op, n, ws)
  PROVE  /\ cmd' = [op |-> op, name |-> n] /\ cmd'.op = op /\ cmd'.name = n
         /\ todo' = ws /\ before' = State /\ Disk' = Disk
         /\ blk' = blk /\ disk_sb' = disk_sb /\ disk_ibm' = disk_ibm /\ disk_dbm' = disk_dbm
         /\ before'.blk = blk /\ before'.inode_bm = inode_bm
BY DEF Begin, diskVars, Disk, State

LEMMA NothingClaimed ==
  ASSUME NEW c, NEW b, NEW I,
         c.op \notin {"format", "mount", "unmount", "create", "write", "delete", "full", "fsck"}
  PROVE  Safe(c, b, I) = Through(Disks, SUBSET DataBlocks)
BY ThroughAll DEF Safe, Within

(* The claims about commands on one file, of the blocks and of the bitmap.  *)
OneFile == {"create", "write", "delete", "full"}
Sparing(c, b, I) ==
  {e \in Disks : Within(c, b, I, OneFile) =>
     /\ Unshared(e) /\ (c.op # "delete" => Backed(e))
     /\ Spares(b.blk, e, c.name)}
Covering(c, b, I) ==
  {B \in SUBSET DataBlocks : Within(c, b, I, OneFile) =>
     \A m \in Names \ {c.name} : BlocksOf(b.blk, m) \subseteq B}

LEMMA SparingSafe ==
  ASSUME NEW c, NEW b, NEW I, c.op \in OneFile,
         Within(c, b, I, OneFile) => \E J, C : Sound(b.blk, J, C)
  PROVE  Through(Sparing(c, b, I), Covering(c, b, I)) \subseteq Safe(c, b, I)
<1> SUFFICES ASSUME NEW D \in Through(Sparing(c, b, I), Covering(c, b, I))
             PROVE  D \in Safe(c, b, I)
  OBVIOUS
<1>1. D \in DiskStates /\ D.blk \in Sparing(c, b, I) /\ D.disk_dbm \in Covering(c, b, I)
  BY DEF Through
<1>2. CASE Within(c, b, I, OneFile)
  <2>1. PICK J, C : Sound(b.blk, J, C)
    BY <1>2
  <2>2. /\ Unshared(D.blk) /\ (c.op # "delete" => Backed(D.blk))
        /\ Spares(b.blk, D.blk, c.name)
        /\ \A m \in Names \ {c.name} : BlocksOf(b.blk, m) \subseteq D.disk_dbm
    BY <1>1, <1>2 DEF Sparing, Covering
  <2>3. Spared(D, b.blk, c.name)
    BY <2>1, <2>2, SparesFiles DEF Spared
  <2> QED BY <1>1, <2>2, <2>3 DEF Safe, Within, OneFile
<1>3. CASE ~ Within(c, b, I, OneFile)
  BY <1>1, <1>3 DEF Safe, Within, OneFile
<1> QED BY <1>2, <1>3

(* simulate_crash.                                                          *)
LEMMA CrashLeads ==
  ASSUME TypeOK, NEW n, BeginCrash(n)
  PROVE  TypeOK' /\ \E E : Leads(Disk, todo', Safe(cmd', before', inode_bm'), E)
<1> DEFINE v == [s \in Slots |-> GarbageCell]
           b(id) == InodeBlock(id)
<1>1. PICK id \in IdsOf(n) : Begin("crash", n, <<BlockWrite(b(id), v)>>)
  BY DEF BeginCrash
<1>2. id \in InodeIds /\ InodeBlock(id) \in FsBlocks
  BY IdsOfType, InodeHome DEF TypeOK, Disks
<1>3. v \in BlockImages
  BY DEF BlockImages, Cells
<1>4. [blk EXCEPT ![b(id)] = v] \in Disks
  BY <1>3 DEF TypeOK, Disks
<1> HIDE DEF v
<1>5. Disk.disk_dbm \in SUBSET DataBlocks
  BY DiskType DEF TypeOK
<1>6. Leads(On(Disk, blk), <<BlockWrite(b(id), v)>>, Through(Disks, SUBSET DataBlocks),
            On(Disk, [blk EXCEPT ![b(id)] = v]))
  BY <1>2, <1>3, <1>4, <1>5, DiskType, LeadsByBlock
<1>7. Safe(cmd', before', inode_bm') = Through(Disks, SUBSET DataBlocks)
  <2>1. cmd'.op = "crash"
    BY <1>1, Beginning
  <2> QED BY <2>1, NothingClaimed
<1>8. TypeOK'
  BY <1>1, Beginning DEF BeginCrash, TypeOK, memVars
<1> QED BY <1>1, <1>6, <1>7, <1>8, DiskType, Beginning

(* fsck.                                                                    *)
LEMMA FsckLeads ==
  ASSUME TypeOK, mounted, sb.magic, BeginFsck
  PROVE  /\ TypeOK' /\ mounted' /\ sb'.magic
         /\ \E E : Leads(Disk, todo', Safe(cmd', before', inode_bm'), E)
<1> DEFINE ids   == FsckInodes(blk)
           data  == FsckData(blk)
           fixes == FixesUpTo[INODE_COUNT]
           s     == [sb EXCEPT !.free_inodes = INODE_COUNT - Count(ids),
                               !.free_blocks = Count(DataBlocks) - Count(data),
                               !.fs_state    = CLEAN]
           ws    == fixes \o <<InodeBitmapWrite(ids), DataBitmapWrite(data), SuperblockWrite(s)>>
           g     == FsckDisk(blk)
<1>1. Begin("fsck", Idle, ws) /\ Memory(s, ids, data, journal)
  BY DEF BeginFsck
<1>2. ids \in SUBSET InodeIds /\ data \in SUBSET DataBlocks
  BY DEF FsckInodes, FsckData
<1>3. INODE_COUNT - Count(ids) \in 0 .. WORD - 1
  <2> HIDE DEF ids
  <2>1. Count(ids) \in Nat /\ Count(ids) <= INODE_COUNT
    BY <1>2, IdsFinite
  <2>2. WORD \in Nat
    BY ContentAssumption
  <2> QED BY <2>1, <2>2, Sizes
<1>4. Count(DataBlocks) - Count(data) \in 0 .. WORD - 1
  <2> HIDE DEF data
  <2>1. Count(data) \in Nat /\ Count(data) <= Count(DataBlocks)
    BY <1>2, CountBlocks
  <2>2. WORD \in Nat
    BY ContentAssumption
  <2> QED BY <2>1, <2>2, Sizes
<1>5. s \in Superblocks /\ s.magic
  <2> DEFINE x == INODE_COUNT - Count(ids)
             y == Count(DataBlocks) - Count(data)
  <2> HIDE DEF x, y
  <2>1. x \in 0 .. WORD - 1 /\ y \in 0 .. WORD - 1
    BY <1>3, <1>4 DEF x, y
  <2>2. s = [sb EXCEPT !.free_inodes = x, !.free_blocks = y, !.fs_state = CLEAN]
    BY DEF x, y
  <2> HIDE DEF s
  <2> QED BY <2>1, <2>2 DEF TypeOK, Superblocks
<1>6. TypeOK' /\ mounted' /\ sb'.magic
  <2> HIDE DEF s, ids, data, ws
  <2> QED BY <1>1, <1>2, <1>5, Beginning DEF TypeOK, Memory
<1>7. ws \in Seq(Mending(g))
  <2>1. fixes \in Seq(Mending(g))
    BY FixesUpToMend
  <2> HIDE DEF fixes, s, ids, data, g
  <2>2. /\ InodeBitmapWrite(ids) \in Mending(g)
        /\ DataBitmapWrite(data) \in Mending(g)
        /\ SuperblockWrite(s) \in Mending(g)
    BY <1>2, <1>5 DEF InodeBitmapWrite, DataBitmapWrite, SuperblockWrite, Mending, Writes
  <2> QED BY <2>1, <2>2
<1>8. Disk \in EndsIn(g)
  BY DiskType DEF EndsIn
<1>9. \E E : Leads(Disk, ws, EndsIn(g), E)
  <2>1. Mending(g) \subseteq Writes
    BY DEF Mending
  <2> HIDE DEF g, ws
  <2> QED BY <1>7, <1>8, <2>1, MendingStays, LeadsInside
<1>10. EndsIn(g) \subseteq Safe(cmd', before', inode_bm')
  <2>1. cmd'.op = "fsck" /\ before'.blk = blk
    BY <1>1, Beginning
  <2> QED BY <2>1 DEF Safe, EndsIn, Within
<1> HIDE DEF g, ws
<1>11. todo' = ws
  BY <1>1, Beginning
<1> QED BY <1>6, <1>9, <1>10, <1>11, LeadsThroughMore

(* format, and mounting a disk without a valid superblock: the inode table  *)
(* is wiped from its first block on, which holds the root directory.        *)
LEMMA WipedInode ==
  ASSUME NEW d \in Disks, NEW T, NEW id \in TableIds
  PROVE  ReadInode(ZeroBlocks(d, T), id)
           = IF InodeBlock(id) \in T THEN NewInode("NONE") ELSE ReadInode(d, id)
<1> DEFINE z == ZeroBlocks(d, T)
           b == InodeBlock(id)
<1>1. b \in FsBlocks /\ InodeSlot(id) \in Places
  BY TableIdIsId
<1>2. z[b] = IF b \in T THEN ZeroBlock ELSE d[b]
  BY <1>1 DEF ZeroBlocks
<1>3. ImageAt(ZeroBlock, InodeSlot(id)) = BlankInode
  BY <1>1, CellAt DEF ZeroBlock, ImageAt, BlankInode
<1> HIDE DEF z
<1>4. InodeImage(z, id) = IF b \in T THEN BlankInode ELSE InodeImage(d, id)
  BY <1>2, <1>3 DEF InodeImage
<1> QED BY <1>4, BlankInodeType DEF ReadInode, z

LEMMA NoPointers ==
  ASSUME NEW e, NEW r \in Sites, ReadInode(e, r[1]) = NewInode("NONE")
  PROVE  PointerAt(e, r) = 0
<1>1. /\ NewInode("NONE").ind = 0
      /\ \A i \in DirectIdx : NewInode("NONE").direct[i] = 0
      /\ \A s \in Slots : PointersOf(e, 0)[s] = 0
  BY Regions DEF NewInode, PointersOf
<1> QED BY <1>1, SiteCases, PointerAtSite

LEMMA WipedTable ==
  ASSUME NEW d \in Disks, NEW T, T \subseteq InodeTable \/ InodeTable \subseteq T
  PROVE  /\ Unshared(d) => Unshared(ZeroBlocks(d, T))
         /\ INODE_TABLE_START \in T => UsedEntries(ZeroBlocks(d, T)) = {}
<1> DEFINE e == ZeroBlocks(d, T)
<1>1. \A id \in TableIds :
        ReadInode(e, id) = IF InodeBlock(id) \in T THEN NewInode("NONE") ELSE ReadInode(d, id)
  BY WipedInode
<1>2. InodeTable \cap DataBlocks = {}
  BY GeometryAssumption DEF InodeTable, DataBlocks, DATA_START_BLOCK, INODE_TABLE_START
<1>3. ASSUME NEW r \in Sites
      PROVE  PointerAt(e, r) = 0 \/ PointerAt(e, r) = PointerAt(d, r)
  <2> DEFINE id == r[1]
  <2>1. id \in TableIds /\ InodeBlock(id) \in InodeTable
    BY SiteCases, TableIdIsId
  <2>2. CASE InodeBlock(id) \in T
    BY <1>1, <2>1, <2>2, NoPointers
  <2>3. CASE InodeBlock(id) \notin T
    <3> DEFINE b == ReadInode(d, id).ind
    <3>1. ReadInode(e, id) = ReadInode(d, id)
      BY <1>1, <2>1, <2>3
    <3>2. \A x \in FsBlocks : e[x] = IF x \in T THEN ZeroBlock ELSE d[x]
      BY DEF ZeroBlocks
    <3> HIDE DEF e
    <3>3. CASE ~ (b \in FsBlocks /\ b \in T)
      <4>1. b \in FsBlocks => e[b] = d[b]
        BY <3>2, <3>3
      <4> QED BY <2>1, <3>1, <4>1, SameSites
    <3>4. CASE /\ b \in FsBlocks /\ b \in T
               /\ \E s \in Slots : r = PointerSite(id, s)
      <4>1. PICK s \in Slots : r = PointerSite(id, s)
        BY <3>4
      <4>2. PointerAt(e, r) = PointersOf(e, b)[s]
        BY <3>1, <4>1, PointerAtSite
      <4>3. PointersOf(e, b)[s] = AsPointer(ZeroBlock[s])
        BY <3>2, <3>4 DEF PointersOf
      <4> QED BY <4>2, <4>3 DEF AsPointer, ZeroBlock, ZeroCell
    <3>5. CASE ~ \E s \in Slots : r = PointerSite(id, s)
      BY <3>1, <3>5, SiteCases, PointerAtSite
    <3> QED BY <3>3, <3>4, <3>5
  <2> QED BY <2>2, <2>3
<1>4. Unshared(d) => Unshared(e)
  <2> HIDE DEF e
  <2> QED BY <1>3 DEF Unshared
<1>5. ASSUME INODE_TABLE_START \in T
      PROVE  UsedEntries(e) = {}
  <2>1. InodeBlock(ROOT_INODE) = INODE_TABLE_START
    <3>1. 0 \div InodesPerBlock = 0
      BY GeometryAssumption
    <3> QED BY <3>1 DEF InodeBlock, ROOT_INODE, INODE_TABLE_START
  <2>2. \A i \in DirectIdx : DirOf(e)[i] = 0
    BY <1>1, <1>5, <2>1, RootInTable, DirOfRoot DEF NewInode
  <2> HIDE DEF e
  <2> QED BY <2>2 DEF UsedEntries
<1> QED BY <1>4, <1>5

LEMMA FormattedWipe ==
  ASSUME NEW d \in Disks
  PROVE  LET z == ZeroBlocks(d, InodeTable \cup {DATA_START_BLOCK})
             e == WriteInode(z, ROOT_INODE, Updated(BlankInode, RootDirectory))
         IN  FormattedDisk(e) /\ e \in Disks /\ Unshared(e) /\ Backed(e)
<1> DEFINE z == ZeroBlocks(d, InodeTable \cup {DATA_START_BLOCK})
           e == WriteInode(z, ROOT_INODE, Updated(BlankInode, RootDirectory))
<1>1. z \in Disks /\ e \in Disks
  BY ZeroBlocksType, WriteInodeType, FormattedTypes
<1>2. \A id \in TableIds : ReadInode(z, id) = NewInode("NONE")
  BY WipedInode, TableIdIsId
<1>3. z[DATA_START_BLOCK] = ZeroBlock
  BY Regions DEF ZeroBlocks
<1> HIDE DEF z
<1>4. /\ ReadInode(e, ROOT_INODE) = AsInode(Updated(BlankInode, RootDirectory))
      /\ \A j \in TableIds \ {ROOT_INODE} : ReadInode(e, j) = ReadInode(z, j)
      /\ e[DATA_START_BLOCK] = z[DATA_START_BLOCK]
  BY <1>1, RootInTable, FormattedTypes, WriteInodeReads, Regions
<1>5. AsInode(Updated(BlankInode, RootDirectory)) = RootDirectory
  BY BlankInodeType, RootDirectoryType, UpdatedInode
<1> HIDE DEF e
<1>6. FormattedDisk(e)
  BY <1>2, <1>3, <1>4, <1>5 DEF FormattedDisk
<1>7. Unshared(e)
  BY <1>6, FormattedPointers DEF Unshared
<1>8. UsedEntries(e) = {}
  BY <1>6, FormattedDirectory DEF UsedEntries
<1> QED BY <1>1, <1>6, <1>7, <1>8 DEF Backed, e, z

Healed(E) == /\ FormattedDisk(E.blk) /\ E.disk_sb = FormattedSuperblock
             /\ E.disk_ibm = {ROOT_INODE} /\ E.disk_dbm = {DATA_START_BLOCK}

LEMMA FormattingSafe ==
  ASSUME TypeOK, NEW c, NEW b, NEW I, c.op \in {"format", "mount"}, b.blk = blk
  PROVE  \E E : Leads(Disk, Formatting, Safe(c, b, I), E) /\ Healed(E)
<1> DEFINE X == {e \in Disks : /\ Unshared(blk) => Unshared(e)
                               /\ Backed(blk) => Backed(e)}
           z == ZeroBlocks(blk, InodeTable \cup {DATA_START_BLOCK})
           r == WriteInode(z, ROOT_INODE, Updated(BlankInode, RootDirectory))
           E == [blk |-> r, disk_sb |-> FormattedSuperblock,
                 disk_ibm |-> {ROOT_INODE}, disk_dbm |-> {DATA_START_BLOCK}]
<1>1. blk \in Disks /\ blk \in X
  BY DiskType
<1>2. \A e : UsedEntries(e) = {} => Backed(e)
  BY DEF Backed
<1>3. ASSUME NEW k \in 0 .. INODE_TABLE_BLOCKS
      PROVE  ZeroBlocks(blk, TableUpTo(k)) \in X
  <2>1. TableUpTo(k) \subseteq InodeTable
    BY GeometryAssumption
       DEF TableUpTo, InodeTable, DATA_START_BLOCK, INODE_TABLE_START
  <2>2. ZeroBlocks(blk, TableUpTo(k)) \in Disks
    BY <1>1, ZeroBlocksType
  <2>3. Unshared(blk) => Unshared(ZeroBlocks(blk, TableUpTo(k)))
    BY <1>1, <2>1, WipedTable
  <2>4. Backed(blk) => Backed(ZeroBlocks(blk, TableUpTo(k)))
    <3>1. CASE k = 0
      <4>1. TableUpTo(k) = {}
        BY <3>1 DEF TableUpTo, INODE_TABLE_START
      <4>2. ZeroBlocks(blk, {}) = blk
        BY <1>1 DEF ZeroBlocks, Disks
      <4> QED BY <4>1, <4>2
    <3>2. CASE k # 0
      <4>1. INODE_TABLE_START \in TableUpTo(k)
        BY <3>2 DEF TableUpTo, INODE_TABLE_START
      <4> QED BY <1>1, <1>2, <2>1, <4>1, WipedTable
    <3> QED BY <3>1, <3>2
  <2> QED BY <2>2, <2>3, <2>4
<1>4. z \in X
  <2>1. z \in Disks
    BY <1>1, ZeroBlocksType
  <2>2. INODE_TABLE_START \in InodeTable
    BY GeometryAssumption DEF InodeTable, DATA_START_BLOCK, INODE_TABLE_START
  <2> QED BY <1>1, <1>2, <2>1, <2>2, WipedTable
<1>5. FormattedDisk(r) /\ r \in X
  BY <1>1, FormattedWipe
<1> HIDE DEF z, X, r
<1>6. Leads(Disk, Formatting, Through(X, SUBSET DataBlocks), E)
  <2>1. Disk \in DiskStates /\ Disk.blk = blk /\ X \in SUBSET Disks
    BY DiskType DEF X
  <2> QED BY <1>1, <1>3, <1>4, <1>5, <2>1, FormattingLeads DEF r, z
<1>7. Through(X, SUBSET DataBlocks) \subseteq Safe(c, b, I)
  <2>1. BeganConsistent(b) => Unshared(blk) /\ Backed(blk)
    BY DEF BeganConsistent, Resolves
  <2> QED BY <2>1 DEF Through, X, Safe, Within
<1>8. Healed(E)
  BY <1>5 DEF Healed
<1> QED BY <1>6, <1>7, <1>8, LeadsThroughMore

LEMMA FormattedMemory ==
  ASSUME TypeOK, NEW j, Formatted(j), UNCHANGED diskVars
  PROVE  TypeOK' /\ mounted' /\ sb'.magic
<1>1. {ROOT_INODE} \subseteq InodeIds /\ {DATA_START_BLOCK} \subseteq DataBlocks
  BY Regions
<1> QED BY <1>1, FormattedTypes DEF TypeOK, Formatted, Memory, diskVars

LEMMA FormatLeads ==
  ASSUME TypeOK, BeginFormat
  PROVE  /\ TypeOK' /\ mounted' /\ sb'.magic
         /\ \E E : /\ Leads(Disk, todo', Safe(cmd', before', inode_bm'), E) /\ Healed(E)
                   /\ sb' = E.disk_sb /\ inode_bm' = E.disk_ibm /\ data_bm' = E.disk_dbm
<1>1. Begin("format", Idle, Formatting) /\ Formatted(journal)
  BY DEF BeginFormat
<1>2. TypeOK' /\ mounted' /\ sb'.magic
  BY <1>1, FormattedMemory DEF Begin
<1>3. PICK E : Leads(Disk, Formatting, Safe(cmd', before', inode_bm'), E) /\ Healed(E)
  BY <1>1, Beginning, FormattingSafe
<1>4. sb' = E.disk_sb /\ inode_bm' = E.disk_ibm /\ data_bm' = E.disk_dbm
  BY <1>1, <1>3 DEF Healed, Formatted, Memory
<1> QED BY <1>1, <1>2, <1>3, <1>4, Beginning

LEMMA MountLeads ==
  ASSUME TypeOK, BeginMount
  PROVE  /\ TypeOK' /\ mounted' /\ sb'.magic
         /\ \E E : Leads(Disk, todo', Safe(cmd', before', inode_bm'), E)
<1>1. CASE ~ disk_sb.magic
  <2>1. Begin("mount", Idle, Formatting) /\ Formatted(NewJournal)
    BY <1>1 DEF BeginMount
  <2>2. TypeOK' /\ mounted' /\ sb'.magic
    BY <2>1, FormattedMemory DEF Begin
  <2>3. \E E : Leads(Disk, Formatting, Safe(cmd', before', inode_bm'), E)
    BY <2>1, Beginning, FormattingSafe
  <2> QED BY <2>1, <2>2, <2>3, Beginning
<1>2. CASE disk_sb.magic
  <2> DEFINE dirty == [disk_sb EXCEPT !.fs_state = DIRTY]
             E == [Disk EXCEPT !.disk_sb = dirty]
             w == SuperblockWrite(dirty)
  <2>1. /\ Begin("mount", Idle, <<w>>)
        /\ Memory(dirty, disk_ibm, disk_dbm, NewJournal)
    BY <1>2 DEF BeginMount
  <2>2. dirty \in Superblocks /\ dirty.magic
    BY <1>2 DEF TypeOK, Superblocks, DIRTY
  <2>3. TypeOK' /\ mounted' /\ sb'.magic
    <3> HIDE DEF dirty
    <3> QED BY <2>1, <2>2, Beginning DEF TypeOK, Memory
  <2>4. /\ w \in Writes /\ Overlay(Disk, w) = E /\ E \in DiskStates
        /\ E.blk = blk
    <3> HIDE DEF dirty
    <3>1. w \in Writes /\ Overlay(Disk, w) = E
      BY <2>2, DiskType, BitmapWrites
    <3>2. E.blk = Disk.blk
      OBVIOUS
    <3> QED BY <3>1, <3>2, DiskType, OverlayType
  <2>5. cmd'.op = "mount" /\ before'.blk = blk
    BY <2>1, Beginning
  <2>6. BeganConsistent(before') => Unshared(blk) /\ Backed(blk)
    BY <2>5 DEF BeganConsistent, Resolves
  <2> HIDE DEF E, w
  <2>7. Disk \in Safe(cmd', before', inode_bm') /\ E \in Safe(cmd', before', inode_bm')
    BY <2>4, <2>5, <2>6, DiskType DEF Safe, Within
  <2>8. Leads(Disk, <<w>>, Safe(cmd', before', inode_bm'), E)
    BY <2>4, <2>7, LeadsByOne
  <2> QED BY <2>1, <2>3, <2>8, Beginning
<1> QED BY <1>1, <1>2

(* The destructor writes no block of the file system.                       *)
LEMMA UnmountLeads ==
  ASSUME TypeOK, BeginUnmount
  PROVE  /\ TypeOK' /\ ~ mounted'
         /\ \E E : Leads(Disk, todo', Safe(cmd', before', inode_bm'), E)
<1> DEFINE clean == [sb EXCEPT !.fs_state = CLEAN]
           ws == Persisting(clean, inode_bm, data_bm)
<1>1. Begin("unmount", Idle, ws) /\ ProcessGone
  BY DEF BeginUnmount
<1>2. clean \in Superblocks /\ inode_bm \in SUBSET InodeIds /\ data_bm \in SUBSET DataBlocks
  BY DEF TypeOK, Superblocks, CLEAN
<1>3. TypeOK' /\ ~ mounted'
  BY <1>1, Beginning, ProcessGoneType DEF TypeOK, ProcessGone
<1>4. cmd'.op = "unmount" /\ before'.blk = blk /\ todo' = ws
  BY <1>1, Beginning
<1>5. BeganConsistent(before') => Unshared(blk) /\ Backed(blk)
  BY <1>4 DEF BeganConsistent, Resolves
<1>6. \A E \in DiskStates : E.blk = blk => E \in Safe(cmd', before', inode_bm')
  BY <1>4, <1>5 DEF Safe, Within
<1> HIDE DEF clean
<1>7. \E E : Leads(Disk, ws, Safe(cmd', before', inode_bm'), E)
  BY <1>2, <1>6, DiskType, LeadsByPersisting
<1> QED BY <1>3, <1>4, <1>7

-----------------------------------------------------------------------------
(* Commands on one file.                                                   *)

(* The direct pointers of an inode and those of an indirect block are lists *)
(* that free_data_block can be given.                                       *)
LEMMA PointerLists ==
  ASSUME NEW d \in Disks, NEW id \in InodeIds
  PROVE  /\ DIRECT_BLOCKS \in Nat /\ SlotCount \in Nat
         /\ ReadInode(d, id).direct \in [0 .. DIRECT_BLOCKS - 1 -> Pointers]
         /\ ReadInode(d, id).ind \in Pointers
         /\ \A e \in Disks, b \in Pointers :
              PointersOf(e, b) \in [0 .. SlotCount - 1 -> Pointers]
         /\ FreedBy(ReadInode(d, id).direct) \subseteq DataBlocks
<1>1. DIRECT_BLOCKS \in Nat /\ SlotCount \in Nat
  BY GeometryAssumption, SlotNumbers
<1>2. ReadInode(d, id) \in Inodes
  BY ReadInodeType
<1>3. /\ ReadInode(d, id).direct \in [0 .. DIRECT_BLOCKS - 1 -> Pointers]
      /\ ReadInode(d, id).ind \in Pointers
  BY <1>2 DEF Inodes, DirectIdx
<1>4. \A e \in Disks, b \in Pointers :
        PointersOf(e, b) \in [0 .. SlotCount - 1 -> Pointers]
  BY PointersOfType, SlotNumbers
<1>5. 0 .. DIRECT_BLOCKS - 1 \in SUBSET Int
  OBVIOUS
<1>6. FreedBy(ReadInode(d, id).direct) \subseteq DataBlocks
  BY <1>3, <1>5, FreedByType
<1> QED BY <1>1, <1>3, <1>4, <1>6

LEMMA FreeingLeads ==
  ASSUME TypeOK, mounted, sb.magic, NEW n, BeginFreeing(n)
  PROVE  /\ TypeOK' /\ mounted' /\ sb'.magic
         /\ \E E : Leads(Disk, todo', Safe(cmd', before', inode_bm'), E)
<1>1. PICK id \in IdsOf(n) :
        LET ino  == ReadInode(blk, id)
            ptrs == IF Intact(ino.direct)
                    THEN PointersOf(ZeroBlocks(blk, FreedBy(ino.direct)), ino.ind)
                    ELSE [s \in Slots |-> BadPtr]
        IN  /\ Begin("freeing", n, Zeroing(ino.direct) \o Zeroing(ptrs))
            /\ data_bm' = data_bm \ (FreedBy(ino.direct) \cup FreedBy(ptrs))
            /\ sb' = [sb EXCEPT !.free_blocks =
                         Wrap(@ + FreedCount(ino.direct) + FreedCount(ptrs))]
  BY DEF BeginFreeing
<1> DEFINE ino  == ReadInode(blk, id)
           g    == ino.direct
           d1   == ZeroBlocks(blk, FreedBy(g))
           ptrs == IF Intact(g) THEN PointersOf(d1, ino.ind) ELSE [s \in Slots |-> BadPtr]
           d2   == ZeroBlocks(d1, FreedBy(ptrs))
           S    == Through(Disks, SUBSET DataBlocks)
<1>2. /\ Begin("freeing", n, Zeroing(g) \o Zeroing(ptrs))
      /\ data_bm' = data_bm \ (FreedBy(g) \cup FreedBy(ptrs))
      /\ sb' = [sb EXCEPT !.free_blocks = Wrap(@ + FreedCount(g) + FreedCount(ptrs))]
  BY <1>1
<1>3. id \in InodeIds /\ blk \in Disks
  BY IdsOfType DEF TypeOK, Disks
<1>4. /\ DIRECT_BLOCKS \in Nat /\ SlotCount \in Nat
      /\ g \in [0 .. DIRECT_BLOCKS - 1 -> Pointers] /\ d1 \in Disks
      /\ ptrs \in [0 .. SlotCount - 1 -> Pointers]
  <2>1. d1 \in Disks
    BY <1>3, ZeroBlocksType
  <2>2. /\ DIRECT_BLOCKS \in Nat /\ SlotCount \in Nat
        /\ g \in [0 .. DIRECT_BLOCKS - 1 -> Pointers] /\ ino.ind \in Pointers
    BY <1>3, PointerLists
  <2>3. PointersOf(d1, ino.ind) \in [0 .. SlotCount - 1 -> Pointers]
    BY <1>3, <2>1, <2>2, PointerLists
  <2>4. [s \in Slots |-> BadPtr] \in [0 .. SlotCount - 1 -> Pointers]
    BY SlotNumbers DEF Pointers
  <2> QED BY <2>1, <2>2, <2>3, <2>4
<1> HIDE DEF ino, g, d1, ptrs
<1>5. \E E : Leads(Disk, Zeroing(g) \o Zeroing(ptrs), S, E)
  <2> DEFINE e1 == ZeroBlocks(blk, FreedBy(g))
  <2>1. Disk.disk_dbm \in SUBSET DataBlocks /\ e1 = d1
    BY DiskType DEF TypeOK, d1
  <2>2. \A d \in Disks : \A T : ZeroBlocks(d, T) \in Disks
    BY ZeroBlocksType
  <2>3. Leads(On(Disk, blk), Zeroing(g), S, On(Disk, e1))
    BY <1>3, <1>4, <2>1, <2>2, DiskType, LeadsByFreeing
  <2>4. Leads(On(Disk, d1), Zeroing(ptrs), S, On(Disk, d2))
    BY <1>4, <2>1, <2>2, DiskType, LeadsByFreeing
  <2> HIDE DEF S, e1, d2
  <2> QED BY <2>1, <2>3, <2>4, DiskType, LeadsOn
<1>6. Safe(cmd', before', inode_bm') = S
  <2>1. cmd'.op = "freeing"
    BY <1>2, Beginning
  <2> QED BY <2>1, NothingClaimed
<1>7. sb' \in Superblocks /\ sb'.magic
  <2> DEFINE freed == sb.free_blocks + FreedCount(g) + FreedCount(ptrs)
  <2>1. sb.free_blocks \in Nat
    BY DEF TypeOK, Superblocks
  <2>2. FreedCount(g) \in Nat /\ FreedCount(ptrs) \in Nat
    BY <1>4, CountPointers
  <2>3. freed \in Int
    BY <2>1, <2>2
  <2>4. sb' = [sb EXCEPT !.free_blocks = Wrap(freed)]
    BY <1>2
  <2> HIDE DEF freed
  <2>5. Wrap(freed) \in 0 .. WORD - 1
    BY <2>3, WrapType
  <2> QED BY <2>4, <2>5 DEF TypeOK, Superblocks
<1>8. TypeOK' /\ mounted'
  BY <1>2, <1>7, Beginning DEF TypeOK, BeginFreeing
<1>9. todo' = Zeroing(g) \o Zeroing(ptrs)
  BY <1>2, Beginning
<1> QED BY <1>5, <1>6, <1>7, <1>8, <1>9

(* The disks that differ from d in blocks of T at most.                     *)
Near(d, T) == {e \in Disks : \A b \in FsBlocks \ T : e[b] = d[b]}

(* write_file writes to the blocks it gave back and to free ones.           *)
LEMMA NearSound ==
  ASSUME NEW d, NEW I, NEW B, Sound(d, I, B), NEW id \in TableIds \ {ROOT_INODE},
         NEW F, F \subseteq (DataBlocks \ B) \cup GivenBack(d, id),
         NEW e \in Near(d, GivenBack(d, id) \cup F)
  PROVE  Unshared(e) /\ Backed(e) /\ ChangesOnly(d, e, id)
<1> DEFINE ino == ReadInode(d, id)
           G   == GivenBack(d, id)
           T   == G \cup F
<1>1. /\ \A q, t \in Sites : PointerAt(d, q) # 0 /\ PointerAt(d, t) = PointerAt(d, q) => t = q
      /\ \A r \in Sites : PointerAt(d, r) \in {0} \cup B
      /\ B \subseteq DataBlocks
  BY DEF Sound, Unshared, Allocated
<1>2. G \subseteq {ino.direct[i] : i \in DirectIdx} \ {0} /\ G \subseteq B
  BY OwnedAreAllocated DEF GivenBack, Owned
<1>3. \A i \in DirectIdx : /\ DirectSite(id, i) \in Sites
                           /\ PointerAt(d, DirectSite(id, i)) = ino.direct[i]
  BY SiteOf, PointerAtSite
<1>4. ASSUME NEW r \in Sites, \A i \in DirectIdx : r # DirectSite(id, i)
      PROVE  PointerAt(d, r) \notin T
  <2> HIDE DEF ino, G
  <2>1. PointerAt(d, r) \notin G
    BY <1>1, <1>2, <1>3, <1>4
  <2> QED BY <1>1, <2>1, Regions DEF G
<1>5. T \in SUBSET DataBlocks
  BY <1>1, <1>2
<1>6. \A r \in Sites : r[1] # id => PointerAt(d, r) \notin T
  <2>1. \A i \in DirectIdx : DirectSite(id, i)[1] = id
    BY DEF DirectSite
  <2> HIDE DEF T
  <2> QED BY <1>4, <2>1
<1>7. ino.ind \notin T
  <2>1. /\ IndirectSite(id) \in Sites /\ PointerAt(d, IndirectSite(id)) = ino.ind
        /\ \A i \in DirectIdx : IndirectSite(id) # DirectSite(id, i)
    <3>1. id \in TableIds
      OBVIOUS
    <3>2. IndirectSite(id) \in Sites /\ PointerAt(d, IndirectSite(id)) = ino.ind
      BY <3>1, SiteOf, PointerAtSite
    <3>3. \A i \in DirectIdx : IndirectSite(id) # DirectSite(id, i)
      BY DEF DirectSite, IndirectSite
    <3> QED BY <3>2, <3>3
  <2> HIDE DEF T, ino
  <2> QED BY <1>4, <2>1
<1>8. \A b \in FsBlocks \ T : e[b] = d[b]
  BY DEF Near
<1> HIDE DEF T
<1> QED BY <1>5, <1>6, <1>7, <1>8, ScratchSound

LEMMA ChunkBlocksDiffer ==
  ASSUME NEW m \in Nat, NEW S, NEW f \in [1 .. m -> S],
         \A i, j \in 1 .. m : f[i] = f[j] => i = j
  PROVE  LET n == IF m <= DIRECT_BLOCKS THEN m ELSE m - 1
         IN  /\ n \in Nat /\ ChunkBlocks(f) \in [1 .. n -> S]
             /\ \A i, j \in 1 .. n : ChunkBlocks(f)[i] = ChunkBlocks(f)[j] => i = j
<1> DEFINE n  == IF m <= DIRECT_BLOCKS THEN m ELSE m - 1
           at == [k \in 1 .. n |-> IF k <= DIRECT_BLOCKS THEN k ELSE k + 1]
<1>1. Len(f) = m /\ DIRECT_BLOCKS \in Nat /\ n \in Nat
  BY GeometryAssumption
<1>2. \A k \in 1 .. n : at[k] \in 1 .. m
  BY <1>1
<1>3. \A i, j \in 1 .. n : at[i] = at[j] => i = j
  BY <1>1
<1>4. ChunkBlocks(f) = [k \in 1 .. n |-> f[at[k]]]
  BY <1>1 DEF ChunkBlocks
<1> HIDE DEF n, at
<1>5. /\ ChunkBlocks(f) \in [1 .. n -> S]
      /\ \A i, j \in 1 .. n : ChunkBlocks(f)[i] = ChunkBlocks(f)[j] => i = j
  BY <1>2, <1>3, <1>4
<1> QED BY <1>1, <1>5 DEF n

(* The direct blocks zeroed and the chunks written.                         *)
LEMMA FillingStays ==
  ASSUME NEW d \in Disks, NEW T \in SUBSET FsBlocks,
         NEW id, GivenBack(d, id) \subseteq T,
         NEW c \in Contents, NEW m \in Nat, m <= Len(c),
         NEW bs \in [1 .. m -> T], \A i, j \in 1 .. m : bs[i] = bs[j] => i = j
  PROVE  LET d1 == ZeroBlocks(d, GivenBack(d, id))
             e  == WriteChunks(d1, bs, c)
         IN  /\ \A U \in SUBSET T : ZeroBlocks(d, U) \in Near(d, T)
             /\ d \in Near(d, T) /\ d1 \in Near(d, T)
             /\ e \in Near(d, T) /\ ChunksWritten(d1, e, bs, c)
<1> DEFINE d1 == ZeroBlocks(d, GivenBack(d, id))
           e  == WriteChunks(d1, bs, c)
<1>1. /\ d \in Near(d, T)
      /\ \A U \in SUBSET T : ZeroBlocks(d, U) \in Near(d, T)
  <2>1. \A U \in SUBSET T : ZeroBlocks(d, U) \in Disks
    BY ZeroBlocksType
  <2> QED BY <2>1 DEF Near, ZeroBlocks
<1>2. d1 \in Disks /\ d1 \in Near(d, T)
  BY <1>1 DEF Near
<1>3. bs \in [1 .. m -> FsBlocks] /\ DOMAIN bs = 1 .. m
  OBVIOUS
<1> HIDE DEF d1
<1>4. ChunksWritten(d1, e, bs, c)
  BY <1>3, WriteChunksReads
<1>5. e \in Disks
  <2>1. \A t \in Texts : Chunk(t) \in BlockImages
    BY DEF Chunk, BlockImages, Cells, TextCells
  <2>2. Len(c) \in Nat /\ \A k \in 1 .. Len(c) : c[k] \in Texts
    BY ContentAssumption
  <2>3. \A k \in 1 .. m : Chunk(c[k]) \in BlockImages
    BY <2>1, <2>2
  <2>4. e = [b \in FsBlocks |-> e[b]]
    BY DEF WriteChunks
  <2> HIDE DEF e
  <2>5. ASSUME NEW b \in FsBlocks
        PROVE  e[b] \in BlockImages
    <3>1. CASE \E k \in 1 .. m : bs[k] = b
      BY <1>3, <1>4, <2>3, <3>1 DEF ChunksWritten
    <3>2. CASE \A k \in 1 .. m : bs[k] # b
      BY <1>2, <1>3, <1>4, <3>2 DEF ChunksWritten, Disks
    <3> QED BY <3>1, <3>2
  <2> QED BY <2>4, <2>5 DEF Disks
<1> HIDE DEF e
<1>6. e \in Near(d, T)
  BY <1>2, <1>3, <1>4, <1>5 DEF ChunksWritten, Near
<1> QED BY <1>1, <1>2, <1>4, <1>6 DEF d1, e

LEMMA FillingLeads ==
  ASSUME NEW D \in DiskStates, NEW Bs, D.disk_dbm \in Bs, NEW X \in SUBSET Disks,
         NEW d \in Disks, NEW T \in SUBSET FsBlocks, Near(d, T) \subseteq X,
         NEW id \in InodeIds, GivenBack(d, id) \subseteq T,
         NEW c \in Contents, NEW m \in Nat, m <= Len(c), NEW f,
         ChunkBlocks(f) \in [1 .. m -> T],
         \A i, j \in 1 .. m : ChunkBlocks(f)[i] = ChunkBlocks(f)[j] => i = j,
         NEW e, e = WriteChunks(ZeroBlocks(d, GivenBack(d, id)), ChunkBlocks(f), c)
  PROVE  Leads(On(D, d), Zeroing(ReadInode(d, id).direct) \o ChunkWrites(f, c),
               Through(X, Bs), On(D, e))
<1> DEFINE g  == ReadInode(d, id).direct
           d1 == ZeroBlocks(d, GivenBack(d, id))
           bs == ChunkBlocks(f)
<1>1. /\ d \in Near(d, T) /\ \A U \in SUBSET T : ZeroBlocks(d, U) \in Near(d, T)
      /\ d1 \in Near(d, T) /\ e \in Near(d, T) /\ ChunksWritten(d1, e, bs, c)
  <2> HIDE DEF bs
  <2> QED BY FillingStays DEF bs
<1>2. d1 \in Disks /\ e \in Disks
  BY <1>1 DEF Near
<1>3. Leads(On(D, d), Zeroing(g), Through(X, Bs), On(D, d1))
  <2>1. DIRECT_BLOCKS \in Nat /\ g \in [0 .. DIRECT_BLOCKS - 1 -> Pointers]
    BY PointerLists
  <2>2. \A U \in SUBSET FreedBy(g) : ZeroBlocks(d, U) \in X
    BY <1>1 DEF GivenBack
  <2>3. d \in X
    BY <1>1
  <2> HIDE DEF g
  <2> QED BY <2>1, <2>2, <2>3, LeadsByFreeing DEF GivenBack, g
<1>4. bs \in [1 .. m -> FsBlocks] /\ DOMAIN bs = 1 .. m
  OBVIOUS
<1> HIDE DEF d1
<1>5. \A U : Patched(d1, e, U) \in Near(d, T)
  <2>1. \A U : Patched(d1, e, U) \in Disks
    BY <1>2, PatchedType
  <2> QED BY <1>1, <1>2, <2>1 DEF Near, Patched
<1>6. Patched(d1, e, First(bs, m)) = e
  <2>1. \A b \in FsBlocks : b \notin First(bs, m) => e[b] = d1[b]
    BY <1>1, <1>4 DEF ChunksWritten, First
  <2> QED BY <1>2, <2>1 DEF Patched, Disks
<1>7. ChunkWrites(f, c) = Copy(bs, m, e)
  <2>1. \A k \in 1 .. m : e[bs[k]] = Chunk(c[k])
    BY <1>1, <1>4 DEF ChunksWritten
  <2>2. ChunkWrites(f, c) = [k \in 1 .. m |-> BlockWrite(bs[k], Chunk(c[k]))]
    BY <1>4 DEF ChunkWrites
  <2> HIDE DEF bs
  <2> QED BY <2>1, <2>2 DEF Copy
<1> HIDE DEF bs
<1>8. Leads(On(D, d1), Copy(bs, m, e), Through(X, Bs), On(D, Patched(d1, e, First(bs, m))))
  <2>1. d1 \in X /\ \A k \in 0 .. m : Patched(d1, e, First(bs, k)) \in X
    BY <1>1, <1>5
  <2> QED BY <1>2, <1>4, <2>1, LeadsByPatching
<1> QED BY <1>3, <1>6, <1>7, <1>8, LeadsOn

(* What a command on one file has to show when it begins.                   *)
LEMMA OneFileBegan ==
  ASSUME TypeOK, mounted, sb.magic, NEW op \in OneFile, NEW n, NEW ws, Begin(op, n, ws)
  PROVE  LET claimed == Within(cmd', before', inode_bm', OneFile)
             X       == Sparing(cmd', before', inode_bm')
             Bs      == Covering(cmd', before', inode_bm')
         IN  /\ claimed => /\ Sound(blk, inode_bm, data_bm)
                           /\ \A id \in inode_bm' : InTable(id)
             /\ X \in SUBSET Disks /\ disk_dbm \in Bs
             /\ \A e \in Disks :
                  (claimed => /\ Unshared(e) /\ (op # "delete" => Backed(e))
                              /\ Spares(blk, e, n)) => e \in X
             /\ \A B \in SUBSET DataBlocks :
                  (claimed => \A m \in Names \ {n} : BlocksOf(blk, m) \subseteq B) => B \in Bs
             /\ \A E : Leads(Disk, ws, Through(X, Bs), E)
                         => \E F : Leads(Disk, todo', Safe(cmd', before', inode_bm'), F)
<1> DEFINE claimed == Within(cmd', before', inode_bm', OneFile)
           X       == Sparing(cmd', before', inode_bm')
           Bs      == Covering(cmd', before', inode_bm')
<1>1. /\ cmd'.op = op /\ cmd'.name = n /\ todo' = ws /\ before' = State
      /\ before'.blk = blk /\ before'.inode_bm = inode_bm
  BY Beginning
<1>2. claimed => /\ BeganConsistent(State) /\ \A id \in inode_bm \cup inode_bm' : InTable(id)
  BY <1>1 DEF Within
<1>3. claimed => Sound(blk, inode_bm, data_bm) /\ \A id \in inode_bm' : InTable(id)
  BY <1>2, SoundBegun
<1>4. X \in SUBSET Disks
  BY DEF Sparing
<1>5. \A e \in Disks :
        (claimed => /\ Unshared(e) /\ (op # "delete" => Backed(e)) /\ Spares(blk, e, n))
        => e \in X
  BY <1>1 DEF Sparing
<1>6. \A B \in SUBSET DataBlocks :
        (claimed => \A m \in Names \ {n} : BlocksOf(blk, m) \subseteq B) => B \in Bs
  BY <1>1 DEF Covering
<1>7. disk_dbm \in Bs
  <2>1. claimed => disk_dbm = data_bm
    BY <1>2 DEF BeganConsistent, State
  <2>2. claimed => \A m \in Names \ {n} : BlocksOf(blk, m) \subseteq data_bm
    BY <1>3, BlocksApart
  <2>3. disk_dbm \in SUBSET DataBlocks
    BY DEF TypeOK
  <2> HIDE DEF claimed
  <2> QED BY <1>6, <2>1, <2>2, <2>3
<1>8. Through(X, Bs) \subseteq Safe(cmd', before', inode_bm')
  <2>1. cmd'.op \in OneFile
    BY <1>1
  <2>2. claimed => \E J, C : Sound(before'.blk, J, C)
    BY <1>1, <1>3
  <2> QED BY <2>1, <2>2, SparingSafe
<1>9. \A E : Leads(Disk, ws, Through(X, Bs), E)
               => \E F : Leads(Disk, todo', Safe(cmd', before', inode_bm'), F)
  <2> HIDE DEF X, Bs
  <2> QED BY <1>1, <1>8, LeadsThroughMore
<1> HIDE DEF claimed, X, Bs
<1>10. /\ claimed => Sound(blk, inode_bm, data_bm) /\ \A id \in inode_bm' : InTable(id)
       /\ X \in SUBSET Disks /\ disk_dbm \in Bs
  BY <1>3, <1>4, <1>7
<1> QED BY <1>10, <1>5, <1>6, <1>9 DEF claimed, X, Bs

(* What the allocator hands to write_file.                                  *)
LEMMA AllocatableBlocks ==
  ASSUME TypeOK, NEW id \in InodeIds
  PROVE  LET all == Allocatable(ReadInode(blk, id))
         IN  /\ all = FreeData \cup FreedBy(ReadInode(blk, id).direct)
             /\ all = (DataBlocks \ data_bm) \cup GivenBack(blk, id)
             /\ all \in SUBSET DataBlocks /\ all \in SUBSET Int /\ Count(all) \in Nat
             /\ GivenBack(blk, id) \in SUBSET DataBlocks
<1> DEFINE all == Allocatable(ReadInode(blk, id))
<1>1. /\ all = FreeData \cup FreedBy(ReadInode(blk, id).direct)
      /\ all = (DataBlocks \ data_bm) \cup GivenBack(blk, id)
  BY DEF Allocatable, FreeData, GivenBack
<1>2. GivenBack(blk, id) \in SUBSET DataBlocks
  BY PointerLists DEF GivenBack, TypeOK, Disks
<1>3. DataBlocks \in SUBSET Int
  BY Regions DEF DataBlocks
<1>4. Count(all) \in Nat
  BY <1>1, FreeCountType
<1> HIDE DEF all
<1>5. all \in SUBSET DataBlocks /\ all \in SUBSET Int
  BY <1>1, <1>2, <1>3
<1> QED BY <1>1, <1>2, <1>4, <1>5 DEF all

(* A write_file that finds too few blocks.                                  *)
LEMMA FullLeads ==
  ASSUME TypeOK, mounted, sb.magic, NEW n, NEW c \in Contents, BeginWriteFull(n, c)
  PROVE  /\ TypeOK' /\ mounted' /\ sb'.magic
         /\ \E E : Leads(Disk, todo', Safe(cmd', before', inode_bm'), E)
<1>1. PICK id \in IdsOf(n) :
        LET all == Allocatable(ReadInode(blk, id))
        IN  /\ Count(all) < Need(c)
            /\ \E f \in Lowest(all, Count(all)) :
                 /\ Begin("full", n, Zeroing(ReadInode(blk, id).direct) \o ChunkWrites(f, c))
                 /\ Memory([sb EXCEPT !.free_blocks =
                              Wrap(@ + FreedCount(ReadInode(blk, id).direct) - Count(all))],
                           inode_bm, DataBlocks, Abort(Logged(f, c), FreshTxn(journal)))
  BY DEF BeginWriteFull
<1> DEFINE all == Allocatable(ReadInode(blk, id))
           m   == Count(all)
           k   == IF m <= DIRECT_BLOCKS THEN m ELSE m - 1
           x   == FreedCount(ReadInode(blk, id).direct)
           s   == [sb EXCEPT !.free_blocks = Wrap(@ + x - m)]
           X   == Sparing(cmd', before', inode_bm')
           Bs  == Covering(cmd', before', inode_bm')
           claimed == Within(cmd', before', inode_bm', OneFile)
<1>2. PICK f \in Lowest(all, m) :
        /\ Begin("full", n, Zeroing(ReadInode(blk, id).direct) \o ChunkWrites(f, c))
        /\ Memory(s, inode_bm, DataBlocks, Abort(Logged(f, c), FreshTxn(journal)))
  BY <1>1
<1> DEFINE T  == GivenBack(blk, id) \cup Taken(f)
           ws == Zeroing(ReadInode(blk, id).direct) \o ChunkWrites(f, c)
           e  == WriteChunks(ZeroBlocks(blk, GivenBack(blk, id)), ChunkBlocks(f), c)
<1>3. id \in InodeIds /\ blk \in Disks
  BY IdsOfType DEF TypeOK, Disks
<1>4. /\ all = (DataBlocks \ data_bm) \cup GivenBack(blk, id)
      /\ all \in SUBSET DataBlocks /\ all \in SUBSET Int
      /\ m \in Nat /\ m < Need(c) /\ GivenBack(blk, id) \in SUBSET DataBlocks
  BY <1>1, <1>3, AllocatableBlocks
<1> HIDE DEF all, m
<1>5. f \in [1 .. m -> all] /\ \A i, j \in 1 .. m : f[i] = f[j] => i = j
  BY <1>2, <1>4, LowestDiffer
<1>6. f \in [1 .. m -> Taken(f)] /\ Taken(f) \subseteq all
  BY <1>5 DEF Taken
<1>7. /\ k \in Nat /\ ChunkBlocks(f) \in [1 .. k -> Taken(f)]
      /\ \A i, j \in 1 .. k : ChunkBlocks(f)[i] = ChunkBlocks(f)[j] => i = j
  BY <1>4, <1>5, <1>6, ChunkBlocksDiffer
<1>8. k <= Len(c)
  BY <1>4, ContentSize
<1> HIDE DEF k
<1>9. Begin("full", n, ws) /\ "full" \in OneFile /\ "full" # "delete"
  BY <1>2 DEF OneFile
<1>10. /\ claimed => Sound(blk, inode_bm, data_bm)
       /\ X \in SUBSET Disks /\ disk_dbm \in Bs
       /\ \A a \in Disks : (claimed => Unshared(a) /\ Backed(a) /\ Spares(blk, a, n)) => a \in X
       /\ \A E : Leads(Disk, ws, Through(X, Bs), E)
                   => \E F : Leads(Disk, todo', Safe(cmd', before', inode_bm'), F)
  <2> HIDE DEF ws
  <2> QED BY <1>9, OneFileBegan
<1> HIDE DEF X, Bs, claimed
<1>11. Near(blk, T) \subseteq X
  <2> SUFFICES ASSUME NEW a \in Near(blk, T), claimed
               PROVE  Unshared(a) /\ Backed(a) /\ Spares(blk, a, n)
    BY <1>10 DEF Near
  <2>1. Sound(blk, inode_bm, data_bm)
    BY <1>10
  <2>2. id \in TableIds \ {ROOT_INODE} /\ \E p \in Matches(blk, n) : EntryAt(blk, p).id = id
    BY <2>1, SoundName
  <2>3. Unshared(a) /\ Backed(a) /\ ChangesOnly(blk, a, id)
    BY <1>4, <1>6, <2>1, <2>2, NearSound
  <2> QED BY <2>1, <2>2, <2>3, ChangesSpare
<1>12. Leads(Disk, ws, Through(X, Bs), On(Disk, e))
  <2>1. T \in SUBSET FsBlocks /\ GivenBack(blk, id) \subseteq T
    BY <1>4, <1>6, Regions
  <2>2. ChunkBlocks(f) \in [1 .. k -> T]
    BY <1>7
  <2>3. Disk \in DiskStates /\ Disk.disk_dbm \in Bs /\ On(Disk, blk) = Disk
    BY <1>10, DiskType
  <2> HIDE DEF T, e
  <2>4. Leads(On(Disk, blk), ws, Through(X, Bs), On(Disk, e))
    BY <1>3, <1>7, <1>8, <1>10, <1>11, <2>1, <2>2, <2>3, FillingLeads DEF e
  <2> QED BY <2>3, <2>4
<1>13. s \in Superblocks /\ s.magic
  <2> DEFINE left == sb.free_blocks + x - m
  <2>1. sb.free_blocks \in Nat
    BY DEF TypeOK, Superblocks
  <2>2. x \in Nat
    BY <1>3, FreedCountType
  <2>3. left \in Int
    <3> HIDE DEF x
    <3> QED BY <1>4, <2>1, <2>2
  <2>4. s = [sb EXCEPT !.free_blocks = Wrap(left)]
    OBVIOUS
  <2> HIDE DEF left, s
  <2>5. Wrap(left) \in 0 .. WORD - 1
    BY <2>3, WrapType
  <2> QED BY <2>4, <2>5 DEF TypeOK, Superblocks
<1> HIDE DEF s, ws
<1>14. TypeOK' /\ mounted' /\ sb'.magic
  BY <1>2, <1>9, <1>13, Beginning DEF TypeOK, Memory
<1> QED BY <1>10, <1>12, <1>14

(* The inode write_file writes is one that can be stored.                   *)
LEMMA NewPointersType ==
  ASSUME NEW d \in Disks, NEW id \in InodeIds, NEW c \in Contents, NEW f, Placed(f, c)
  PROVE  /\ NewPointers(d, id, f, c) \in Inodes
         /\ Updated(InodeImage(d, id), NewPointers(d, id, f, c)) \in InodeImages
<1> DEFINE ino    == ReadInode(d, id)
           large  == Len(c) > DIRECT_BLOCKS
           bs     == ChunkBlocks(f)
           direct == [i \in DirectIdx |-> IF i < Len(c) THEN bs[i + 1] ELSE 0]
           ind    == IF large THEN f[DIRECT_BLOCKS + 1] ELSE ino.ind
<1>1. /\ Len(c) \in Nat /\ DIRECT_BLOCKS \in Nat \ {0}
      /\ f \in [1 .. Need(c) -> DataBlocks] /\ Taken(f) \subseteq DataBlocks
      /\ bs \in [1 .. Len(c) -> DataBlocks]
      /\ large => f[DIRECT_BLOCKS + 1] \in DataBlocks
  BY ContentSize DEF Placed, Taken
<1>2. ino \in Inodes /\ InodeImage(d, id) \in InodeImages
  BY ReadInodeType, InodeImageType
<1> HIDE DEF bs
<1>3. direct \in [DirectIdx -> {0} \cup DataBlocks]
  BY <1>1 DEF DirectIdx
<1>4. ind \in Pointers
  BY <1>1, <1>2, Regions DEF Inodes, Pointers
<1>5. NewPointers(d, id, f, c)
        = [ino EXCEPT !.size = Len(c), !.direct = direct, !.ind = ind]
  BY DEF NewPointers, bs
<1> HIDE DEF ino, direct, ind
<1>6. direct \in [DirectIdx -> Pointers]
  BY <1>3, Regions DEF Pointers
<1>7. NewPointers(d, id, f, c) \in Inodes
  BY <1>1, <1>2, <1>4, <1>5, <1>6 DEF Inodes
<1> QED BY <1>2, <1>7, UpdatedInode

(* The indirect block written, when the file needs one.                     *)
LEMMA IndexingLeads ==
  ASSUME NEW D \in DiskStates, NEW Bs, D.disk_dbm \in Bs, NEW X \in SUBSET Disks,
         NEW d \in Disks, NEW id, NEW c \in Contents, NEW f, Placed(f, c),
         Chunked(d, id, f, c) \in X, Indexed(d, id, f, c) \in X
  PROVE  Leads(On(D, Chunked(d, id, f, c)), IndirectWrite(f, c), Through(X, Bs),
               On(D, Indexed(d, id, f, c)))
<1> DEFINE e == Chunked(d, id, f, c)
           b == f[DIRECT_BLOCKS + 1]
           v == IndirectBlock(f)
<1>1. CASE Len(c) > DIRECT_BLOCKS
  <2>1. /\ Need(c) \in Nat /\ DIRECT_BLOCKS \in Nat
        /\ f \in [1 .. Need(c) -> DataBlocks] /\ b \in DataBlocks
    BY <1>1, ContentSize DEF Placed
  <2>2. v \in BlockImages
    BY <2>1, IndirectBlockReads
  <2>3. b \in FsBlocks
    BY <2>1, Regions
  <2>4. Indexed(d, id, f, c) = [e EXCEPT ![b] = v] /\ IndirectWrite(f, c) = <<BlockWrite(b, v)>>
    BY <1>1 DEF Indexed, IndirectWrite
  <2> HIDE DEF e, b, v
  <2>5. e \in X /\ [e EXCEPT ![b] = v] \in X
    BY <2>4 DEF e
  <2>6. Leads(On(D, e), <<BlockWrite(b, v)>>, Through(X, Bs), On(D, [e EXCEPT ![b] = v]))
    BY <2>2, <2>3, <2>5, LeadsByBlock
  <2> QED BY <2>4, <2>6 DEF e
<1>2. CASE ~ Len(c) > DIRECT_BLOCKS
  <2>1. Indexed(d, id, f, c) = e /\ IndirectWrite(f, c) = <<>>
    BY <1>2 DEF Indexed, IndirectWrite
  <2> HIDE DEF e
  <2>2. e \in X
    BY DEF e
  <2>3. On(D, e) \in Through(X, Bs)
    BY <2>2, ThroughOn
  <2>4. Leads(On(D, e), <<>>, Through(X, Bs), On(D, e))
    BY <2>3, LeadsNowhere
  <2> QED BY <2>1, <2>4 DEF e
<1> QED BY <1>1, <1>2

(* Everything write_file writes.                                            *)
LEMMA WritingLeads ==
  ASSUME NEW D \in DiskStates, NEW Bs, D.disk_dbm \in Bs, NEW X \in SUBSET Disks,
         NEW d \in Disks, NEW id \in InodeIds,
         NEW B \in SUBSET DataBlocks, NEW c \in Contents,
         NEW f, Allocation(d, B, id, c, f),
         NEW T, T = GivenBack(d, id) \cup Taken(f), Near(d, T) \subseteq X,
         Written(d, id, f, c) \in X,
         NEW s \in Superblocks, NEW I \in SUBSET InodeIds, NEW C \in SUBSET DataBlocks, C \in Bs
  PROVE  Leads(On(D, d),
               Zeroing(ReadInode(d, id).direct) \o ChunkWrites(f, c) \o IndirectWrite(f, c)
                 \o <<InodeWrite(id, Updated(InodeImage(d, id), NewPointers(d, id, f, c)))>>
                 \o Persisting(s, I, C),
               Through(X, Bs),
               [blk |-> Written(d, id, f, c), disk_sb |-> s, disk_ibm |-> I, disk_dbm |-> C])
<1> DEFINE e1 == Chunked(d, id, f, c)
           e2 == Indexed(d, id, f, c)
           e3 == Written(d, id, f, c)
           u  == Zeroing(ReadInode(d, id).direct) \o ChunkWrites(f, c)
           l  == Updated(InodeImage(d, id), NewPointers(d, id, f, c))
           w  == InodeWrite(id, l)
           S  == Through(X, Bs)
           F  == [blk |-> e3, disk_sb |-> s, disk_ibm |-> I, disk_dbm |-> C]
<1>1. GivenBack(d, id) \in SUBSET DataBlocks
  BY PointerLists DEF GivenBack
<1>2. Placed(f, c)
  BY <1>1, ChunkPlaces
<1>3. T \in SUBSET FsBlocks /\ Taken(f) \subseteq DataBlocks
  BY <1>1, <1>2, Regions DEF Placed, Taken
<1>4. /\ ChunkBlocks(f) \in [1 .. Len(c) -> Taken(f)] /\ Len(c) \in Nat
      /\ \A i, j \in 1 .. Len(c) : ChunkBlocks(f)[i] = ChunkBlocks(f)[j] => i = j
  BY <1>2, ContentSize DEF Placed
<1>5. ChunkBlocks(f) \in [1 .. Len(c) -> T] /\ Len(c) <= Len(c) /\ GivenBack(d, id) \subseteq T
  BY <1>4
<1>6. e1 = WriteChunks(ZeroBlocks(d, GivenBack(d, id)), ChunkBlocks(f), c)
  BY DEF Chunked, GivenBack
<1>7. e2 \in Disks /\ IndexWritten(d, e2, id, f, c)
  BY <1>1, IndexedReads
<1> HIDE DEF e1, e2, e3, u, l, w, F
<1>8. e2 \in Near(d, T)
  BY <1>7 DEF Near, IndexWritten
<1>9. Near(d, T) \subseteq X
  OBVIOUS
<1>10. Leads(On(D, d), u, S, On(D, e1)) /\ e1 \in Near(d, T)
  <2> DEFINE m == Len(c)
  <2>1. /\ m \in Nat /\ m <= Len(c) /\ ChunkBlocks(f) \in [1 .. m -> T]
        /\ \A i, j \in 1 .. m : ChunkBlocks(f)[i] = ChunkBlocks(f)[j] => i = j
    BY <1>4, <1>5
  <2>2. T \in SUBSET FsBlocks /\ GivenBack(d, id) \subseteq T
    BY <1>3, <1>5
  <2> HIDE DEF m
  <2>3. Leads(On(D, d), Zeroing(ReadInode(d, id).direct) \o ChunkWrites(f, c),
              Through(X, Bs), On(D, e1))
    BY <1>6, <2>1, <2>2, FillingLeads
  <2>4. e1 \in Near(d, T)
    <3> DEFINE bs == ChunkBlocks(f)
    <3>1. /\ bs \in [1 .. m -> T] /\ \A i, j \in 1 .. m : bs[i] = bs[j] => i = j
          /\ e1 = WriteChunks(ZeroBlocks(d, GivenBack(d, id)), bs, c)
      BY <1>6, <2>1
    <3> HIDE DEF bs
    <3> QED BY <2>1, <2>2, <3>1, FillingStays
  <2> QED BY <2>3, <2>4 DEF u
<1>11. e1 \in X /\ e2 \in X /\ e3 \in X
  BY <1>8, <1>9, <1>10 DEF e3
<1>12. Leads(On(D, e1), IndirectWrite(f, c), S, On(D, e2))
  BY <1>2, <1>11, IndexingLeads DEF e1, e2
<1>13. l \in InodeImages
  BY <1>2, NewPointersType DEF l
<1>14. e3 = WriteInode(e2, id, l)
  BY DEF e2, e3, l, Written
<1>15. Leads(On(D, e2), <<w>>, S, On(D, e3))
  BY <1>11, <1>13, <1>14, LeadsByInode DEF w
<1>16. Leads(On(D, e3), Persisting(s, I, C), S, F)
  BY <1>11, LeadsToPersisted DEF F
<1> HIDE DEF S
<1>17. Leads(On(D, d), u \o IndirectWrite(f, c), S, On(D, e2))
  BY <1>10, <1>12, LeadsOn
<1>18. Leads(On(D, d), u \o IndirectWrite(f, c) \o <<w>>, S, On(D, e3))
  BY <1>15, <1>17, LeadsOn
<1>19. Leads(On(D, d), u \o IndirectWrite(f, c) \o <<w>> \o Persisting(s, I, C), S, F)
  BY <1>16, <1>18, LeadsOn
<1> QED BY <1>19 DEF u, l, w, S, F, e3

(* Another file's blocks are none of those a file owns.                     *)
LEMMA OthersKeep ==
  ASSUME NEW d, NEW I, NEW B, Sound(d, I, B), NEW n, NEW p \in Matches(d, n),
         NEW id \in TableIds, EntryAt(d, p).id = id, NEW m \in Names \ {n}
  PROVE  BlocksOf(d, m) \subseteq B \ Owned(d, id)
<1>1. \A q \in Matches(d, m) : EntryAt(d, q).id # id
  BY OtherIds
<1> QED BY <1>1, BlocksApart

(* write_file.                                                              *)
LEMMA WriteLeads ==
  ASSUME TypeOK, mounted, sb.magic, NEW n, NEW c \in Contents, BeginWrite(n, c)
  PROVE  /\ TypeOK' /\ mounted' /\ sb'.magic
         /\ \E E : Leads(Disk, todo', Safe(cmd', before', inode_bm'), E)
<1> DEFINE s(i) == [sb EXCEPT !.free_blocks =
                      Wrap(@ + FreedCount(ReadInode(blk, i).direct) - Need(c))]
           data(i, g) == (data_bm \ GivenBack(blk, i)) \cup Taken(g)
           ws(i, g)   == Zeroing(ReadInode(blk, i).direct) \o ChunkWrites(g, c)
                           \o IndirectWrite(g, c)
                           \o <<InodeWrite(i, Updated(InodeImage(blk, i),
                                                      NewPointers(blk, i, g, c)))>>
                           \o Persisting(s(i), inode_bm, data(i, g))
<1>1. PICK id \in IdsOf(n) :
        /\ Intact(ReadInode(blk, id).direct)
        /\ \E f \in Lowest(Allocatable(ReadInode(blk, id)), Need(c)) :
             /\ Begin("write", n, ws(id, f))
             /\ Memory(s(id), inode_bm, data(id, f),
                       Committed(Logged(f, c), FreshTxn(journal)))
  BY DEF BeginWrite, NewPointers, GivenBack, Taken
<1> DEFINE all == Allocatable(ReadInode(blk, id))
           x   == FreedCount(ReadInode(blk, id).direct)
           X   == Sparing(cmd', before', inode_bm')
           Bs  == Covering(cmd', before', inode_bm')
           claimed == Within(cmd', before', inode_bm', OneFile)
<1>2. PICK f \in Lowest(all, Need(c)) :
        /\ Begin("write", n, ws(id, f))
        /\ Memory(s(id), inode_bm, data(id, f), Committed(Logged(f, c), FreshTxn(journal)))
  BY <1>1
<1> DEFINE T == GivenBack(blk, id) \cup Taken(f)
           u == ws(id, f)
           e == Written(blk, id, f, c)
           C == data(id, f)
<1>3. id \in InodeIds /\ blk \in Disks /\ data_bm \in SUBSET DataBlocks
      /\ inode_bm \in SUBSET InodeIds
  BY IdsOfType DEF TypeOK, Disks
<1>4. /\ all = (DataBlocks \ data_bm) \cup GivenBack(blk, id)
      /\ all \in SUBSET DataBlocks /\ all \in SUBSET Int
      /\ Need(c) \in Nat /\ GivenBack(blk, id) \in SUBSET DataBlocks
  BY <1>3, AllocatableBlocks, ContentSize
<1> HIDE DEF all
<1>5. Allocation(blk, data_bm, id, c, f)
  BY <1>2, <1>4, LowestDiffer DEF Allocation
<1>6. Placed(f, c) /\ Taken(f) \subseteq all
  <2>1. Placed(f, c)
    BY <1>3, <1>4, <1>5, ChunkPlaces
  <2> QED BY <1>4, <1>5, <2>1 DEF Allocation, Taken
<1>7. s(id) \in Superblocks /\ s(id).magic
  <2> DEFINE left == sb.free_blocks + x - Need(c)
  <2>1. sb.free_blocks \in Nat
    BY DEF TypeOK, Superblocks
  <2>2. x \in Nat
    BY <1>3, FreedCountType
  <2>3. left \in Int
    <3> HIDE DEF x
    <3> QED BY <1>4, <2>1, <2>2
  <2>4. s(id) = [sb EXCEPT !.free_blocks = Wrap(left)]
    OBVIOUS
  <2> HIDE DEF left, s
  <2>5. Wrap(left) \in 0 .. WORD - 1
    BY <2>3, WrapType
  <2> QED BY <2>4, <2>5 DEF TypeOK, Superblocks
<1>8. C \in SUBSET DataBlocks
  BY <1>3, <1>4, <1>6
<1>9. Begin("write", n, u) /\ "write" \in OneFile /\ "write" # "delete"
  BY <1>2 DEF OneFile
<1> HIDE DEF s, x
<1>10. /\ claimed => Sound(blk, inode_bm, data_bm)
       /\ X \in SUBSET Disks /\ disk_dbm \in Bs
       /\ \A a \in Disks : (claimed => Unshared(a) /\ Backed(a) /\ Spares(blk, a, n)) => a \in X
       /\ (claimed => \A m \in Names \ {n} : BlocksOf(blk, m) \subseteq C) => C \in Bs
       /\ \A E : Leads(Disk, u, Through(X, Bs), E)
                   => \E F : Leads(Disk, todo', Safe(cmd', before', inode_bm'), F)
  <2> HIDE DEF u, C
  <2> QED BY <1>8, <1>9, OneFileBegan
<1> HIDE DEF X, Bs, claimed
<1>11. claimed => /\ id \in TableIds \ {ROOT_INODE} /\ ReadInode(blk, id).type = "REGULAR"
                  /\ \E p \in Matches(blk, n) : EntryAt(blk, p).id = id
  BY <1>10, SoundName
<1>12. Near(blk, T) \subseteq X
  <2> SUFFICES ASSUME NEW a \in Near(blk, T), claimed
               PROVE  Unshared(a) /\ Backed(a) /\ Spares(blk, a, n)
    BY <1>10 DEF Near
  <2>1. Unshared(a) /\ Backed(a) /\ ChangesOnly(blk, a, id)
    BY <1>4, <1>6, <1>10, <1>11, NearSound
  <2> QED BY <1>10, <1>11, <2>1, ChangesSpare
<1>13. e \in X
  <2>1. Indexed(blk, id, f, c) \in Disks
    BY <1>3, <1>4, <1>5, IndexedReads
  <2>2. e \in Disks
    BY <1>3, <1>6, <2>1, NewPointersType, WriteInodeType DEF Written
  <2>3. claimed => Unshared(e) /\ Backed(e) /\ ChangesOnly(blk, e, id)
    BY <1>5, <1>10, <1>11, WrittenSound, SoundBacked
  <2> HIDE DEF e
  <2>4. claimed => Spares(blk, e, n)
    BY <1>10, <1>11, <2>3, ChangesSpare
  <2> QED BY <1>10, <2>2, <2>3, <2>4
<1>14. C \in Bs
  <2>1. GivenBack(blk, id) \subseteq Owned(blk, id)
    BY DEF GivenBack, Owned
  <2>2. claimed => \A m \in Names \ {n} : BlocksOf(blk, m) \subseteq data_bm \ Owned(blk, id)
    BY <1>10, <1>11, OthersKeep
  <2> QED BY <1>10, <2>1, <2>2
<1>15. Leads(Disk, u, Through(X, Bs),
             [blk |-> e, disk_sb |-> s(id), disk_ibm |-> inode_bm, disk_dbm |-> C])
  <2>1. Disk \in DiskStates /\ Disk.disk_dbm \in Bs /\ On(Disk, blk) = Disk
    BY <1>10, DiskType
  <2> HIDE DEF T, C, e
  <2>2. T = GivenBack(blk, id) \cup Taken(f) /\ Written(blk, id, f, c) \in X
    BY <1>13 DEF T, e
  <2>3. Leads(On(Disk, blk), u, Through(X, Bs),
              [blk |-> e, disk_sb |-> s(id), disk_ibm |-> inode_bm, disk_dbm |-> C])
    BY <1>1, <1>3, <1>5, <1>7, <1>8, <1>10, <1>12, <1>14, <2>1, <2>2, WritingLeads DEF e, C
  <2> QED BY <2>1, <2>3
<1> HIDE DEF u, C
<1>16. TypeOK' /\ mounted' /\ sb'.magic
  BY <1>2, <1>7, <1>8, <1>9, Beginning DEF TypeOK, Memory, C
<1> QED BY <1>10, <1>15, <1>16

-----------------------------------------------------------------------------
(* delete_file.                                                             *)

(* With some of the file's blocks zeroed.                                   *)
LEMMA ZeroedSpares ==
  ASSUME NEW d, NEW I, NEW B, Sound(d, I, B), NEW id \in TableIds \ {ROOT_INODE},
         NEW n, NEW p \in Matches(d, n), EntryAt(d, p).id = id,
         NEW U, U \subseteq Owned(d, id)
  PROVE  Unshared(ZeroBlocks(d, U)) /\ Spares(d, ZeroBlocks(d, U), n)
<1> DEFINE e == ZeroBlocks(d, U)
<1>1. U \in SUBSET DataBlocks
  BY OwnedAreAllocated DEF Sound
<1>2. \A r \in Sites : r[1] # id => PointerAt(d, r) \notin U
  BY OwnedApart
<1>3. /\ \A b \in FsBlocks \ U : e[b] = d[b]
      /\ \A b \in U : e[b] = ZeroBlock
  BY <1>1, Regions DEF ZeroBlocks
<1> HIDE DEF e
<1>4. Unshared(e) /\ ChangesOnly(d, e, id)
  BY <1>1, <1>2, <1>3, ScratchSound
<1> QED BY <1>4, ChangesSpare DEF e

(* With its inode zeroed too.                                               *)
LEMMA UnlinkedSpares ==
  ASSUME NEW d, NEW I, NEW B, Sound(d, I, B), NEW id \in TableIds \ {ROOT_INODE},
         NEW n, NEW p \in Matches(d, n), EntryAt(d, p).id = id
  PROVE  LET e == WriteInode(ZeroBlocks(d, Owned(d, id)), id, BlankInode)
         IN  Unshared(e) /\ Spares(d, e, n) /\ DirOf(e) = DirOf(d)
<1> DEFINE T == Owned(d, id)
           z == ZeroBlocks(d, T)
           e == WriteInode(z, id, BlankInode)
<1>1. T \in SUBSET DataBlocks /\ d \in Disks /\ z \in Disks
  BY OwnedAreAllocated, ZeroBlocksType DEF Sound
<1>2. /\ \A j \in TableIds : ReadInode(z, j) = ReadInode(d, j)
      /\ \A b \in DataBlocks \ T : z[b] = d[b]
  BY <1>1, ZeroBlocksReads, Regions
<1>3. BlankInode \in InodeImages /\ AsInode(BlankInode) = NewInode("NONE")
  BY BlankInodeType
<1> HIDE DEF T, z
<1>4. /\ ReadInode(e, id) = NewInode("NONE")
      /\ \A j \in TableIds \ {id} : ReadInode(e, j) = ReadInode(d, j)
      /\ \A b \in DataBlocks \ T : e[b] = d[b]
  BY <1>1, <1>2, <1>3, WriteInodeReads
<1> HIDE DEF e
<1>5. \A j \in TableIds \ {id} : Keeps(d, e, j)
  <2> TAKE j \in TableIds \ {id}
  <2>1. \A r \in Sites : r[1] = j => PointerAt(d, r) \notin T
    BY OwnedApart DEF T
  <2> QED BY <1>4, <2>1, KeepsUntouched
<1>6. ASSUME NEW r \in Sites
      PROVE  PointerAt(e, r) = 0 \/ PointerAt(e, r) = PointerAt(d, r)
  <2>1. CASE r[1] = id
    BY <1>4, <2>1, NoPointers
  <2>2. CASE r[1] # id
    BY <1>5, <2>2, SiteCases DEF Keeps
  <2> QED BY <2>1, <2>2
<1>7. Unshared(e)
  <2>1. Unshared(d)
    BY DEF Sound
  <2> QED BY <1>6, <2>1 DEF Unshared
<1>8. DirOf(e) = DirOf(d)
  BY <1>4, SoundRoot, DirOfRoot
<1>9. ASSUME NEW i \in DirectIdx, DirOf(d)[i] # 0
      PROVE  e[DirOf(d)[i]] = d[DirOf(d)[i]]
  <2>1. /\ DirectSite(ROOT_INODE, i) \in Sites /\ DirectSite(ROOT_INODE, i)[1] # id
        /\ PointerAt(d, DirectSite(ROOT_INODE, i)) = DirOf(d)[i]
    BY SoundRoot, SiteOf, PointerAtSite, DirOfRoot DEF DirectSite
  <2>2. DirOf(d)[i] \notin T
    BY <2>1, OwnedApart DEF T
  <2>3. DirOf(d)[i] \in DataBlocks
    BY <1>9, SoundRoot DEF Sound
  <2> QED BY <1>4, <2>2, <2>3
<1>10. ChangesOnly(d, e, id)
  BY <1>5, <1>8, <1>9, SameDirectory DEF ChangesOnly
<1>11. Spares(d, e, n)
  BY <1>10, ChangesSpare
<1> QED BY <1>7, <1>8, <1>11 DEF e, z, T

(* And with its entry removed.                                              *)
LEMMA DeletedSpares ==
  ASSUME NEW d, NEW I, NEW B, Sound(d, I, B), NEW id \in TableIds \ {ROOT_INODE},
         NEW n, NEW p \in Matches(d, n), EntryAt(d, p).id = id
  PROVE  Unshared(Deleted(d, id, n)) /\ Spares(d, Deleted(d, id, n), n)
<1> DEFINE e == Deleted(d, id, n)
<1>1. Sound(e, I \ {id}, B \ Owned(d, id))
  BY DeletedSound
<1>2. /\ UsedEntries(e) = UsedEntries(d) \ Matches(d, n)
      /\ \A q \in UsedEntries(e) : EntryAt(e, q) = EntryAt(d, q)
  BY DeletedReads
<1> HIDE DEF e
<1>3. /\ \A m : Matches(d, m) = {q \in UsedEntries(d) : EntryAt(d, q).name = m}
      /\ \A m : Matches(e, m) = {q \in UsedEntries(e) : EntryAt(e, q).name = m}
  BY <1>1, SoundMatches
<1>4. ASSUME NEW m \in Names \ {n}
      PROVE  /\ Matches(e, m) = Matches(d, m)
             /\ \A q \in Matches(d, m) : /\ EntryAt(e, q) = EntryAt(d, q)
                                         /\ Keeps(d, e, EntryAt(d, q).id)
  <2>1. Matches(e, m) = Matches(d, m)
    BY <1>2, <1>3
  <2>2. \A q \in Matches(d, m) : EntryAt(e, q) = EntryAt(d, q)
    BY <1>2, <1>3, <2>1
  <2>3. ASSUME NEW q \in Matches(d, m) PROVE Keeps(d, e, EntryAt(d, q).id)
    <3>1. EntryAt(d, q).id \in TableIds \ {ROOT_INODE, id}
      BY MatchIds, OtherIds
    <3> QED BY <3>1, DeletedKeeps DEF e
  <2> QED BY <2>1, <2>2, <2>3
<1>5. Unshared(e) /\ RootReadable(e)
  BY <1>1, SoundRoot DEF Sound
<1> QED BY <1>4, <1>5 DEF Spares, e

(* remove_from_root writes the cell of one entry, if it finds one.          *)
LEMMA RemovalLeads ==
  ASSUME NEW D \in DiskStates, NEW Bs, D.disk_dbm \in Bs, NEW X \in SUBSET Disks,
         NEW d \in X, RootReadable(d), NEW n, NEW w \in Removal(d, n),
         RemoveFromRoot(d, n) \in X
  PROVE  Leads(On(D, d), w, Through(X, Bs), On(D, RemoveFromRoot(d, n)))
<1>1. CASE Matches(d, n) = {}
  <2>1. w = <<>>
    BY <1>1 DEF Removal
  <2>2. RemoveFromRoot(d, n) = d
    BY <1>1 DEF RemoveFromRoot, FirstOf, Disks, BlockImages
  <2>3. On(D, d) \in Through(X, Bs)
    BY ThroughOn
  <2> QED BY <2>1, <2>2, <2>3, LeadsNowhere
<1>2. CASE Matches(d, n) # {}
  <2>1. PICK p \in FirstOf(Matches(d, n)) : w = <<CellWrite(DirOf(d)[p[1]], p[2], ZeroCell)>>
    BY <1>2 DEF Removal
  <2>2. p \in Matches(d, n) /\ p \in DirectIdx \X Slots
    BY <2>1 DEF FirstOf, Matches
  <2>3. /\ DirOf(d)[p[1]] \in FsBlocks /\ p[2] \in Slots /\ ZeroCell \in Cells
    BY <2>2, MatchesType, Regions DEF Cells
  <2>4. ASSUME NEW q \in FirstOf(Matches(d, n)) PROVE q = p
    <3>1. Precedes(p, q) /\ Precedes(q, p) /\ q \in DirectIdx \X Slots
      BY <2>1, <2>2 DEF FirstOf, Matches
    <3>2. p[1] \in Int /\ p[2] \in Int /\ q[1] \in Int /\ q[2] \in Int
      BY <2>2, <3>1, GeometryAssumption, SlotNumbers DEF DirectIdx
    <3>3. p[1] = q[1] /\ p[2] = q[2]
      BY <3>1, <3>2 DEF Precedes
    <3> QED BY <2>2, <3>1, <3>3
  <2> DEFINE b == DirOf(d)[p[1]]
             s == p[2]
  <2>5. RemoveFromRoot(d, n)
          = [a \in FsBlocks |-> [t \in Slots |-> IF b = a /\ s = t THEN ZeroCell ELSE d[a][t]]]
    BY <2>1, <2>4 DEF RemoveFromRoot
  <2> HIDE DEF b, s
  <2>6. RemoveFromRoot(d, n) = WriteCell(d, b, s, ZeroCell)
    BY <2>3, <2>5 DEF WriteCell, Disks, BlockImages, b, s
  <2>7. WriteCell(d, b, s, ZeroCell) \in X
    BY <2>6
  <2>8. Leads(On(D, d), <<CellWrite(b, s, ZeroCell)>>, Through(X, Bs),
              On(D, WriteCell(d, b, s, ZeroCell)))
    BY <2>3, <2>7, LeadsByCell DEF b, s
  <2> QED BY <2>1, <2>6, <2>8 DEF b, s
<1> QED BY <1>1, <1>2

(* The root's inode stays as it is when data blocks are zeroed and another  *)
(* inode is written, in the inode table or beyond it.                       *)
LEMMA RootStays ==
  ASSUME NEW d \in Disks, NEW T \in SUBSET DataBlocks, NEW id \in InodeIds \ {ROOT_INODE}
  PROVE  \A l \in InodeImages : DirOf(WriteInode(ZeroBlocks(d, T), id, l)) = DirOf(d)
<1> TAKE l \in InodeImages
<1> DEFINE z == ZeroBlocks(d, T)
<1>1. ReadInode(z, ROOT_INODE) = ReadInode(d, ROOT_INODE) /\ z \in Disks
  BY RootInTable, ZeroBlocksReads, ZeroBlocksType
<1> HIDE DEF z
<1>2. DOMAIN z = FsBlocks /\ ROOT_INODE \in InodeIds
  BY <1>1, Regions DEF Disks
<1>3. ReadInode(WriteInode(z, id, l), ROOT_INODE) = ReadInode(z, ROOT_INODE)
  BY <1>2, WrittenInode
<1> QED BY <1>1, <1>3, DirOfRoot DEF z

(* The list of one pointer.                                                 *)
Lone(p) == [i \in {0} |-> p]

(* The blocks that emptying a file frees, all of them data blocks.         *)
LEMMA EmptiedBlocks ==
  ASSUME NEW d \in Disks, NEW id \in InodeIds
  PROVE  LET g    == ReadInode(d, id).direct
             ind  == ReadInode(d, id).ind
             ptrs == PointersOf(ZeroBlocks(d, FreedBy(g)), ind)
             gone == FreedBy(ptrs) \cup ({ind} \ {0})
         IN  ind \in Freeable =>
               /\ FreedBy(g) \subseteq DataBlocks /\ gone \subseteq DataBlocks
               /\ g \in [0 .. DIRECT_BLOCKS - 1 -> Pointers]
               /\ ptrs \in [0 .. SlotCount - 1 -> Pointers]
               /\ Lone(ind) \in [0 .. 1 - 1 -> Pointers]
               /\ gone = FreedBy(ptrs) \cup FreedBy(Lone(ind))
<1> DEFINE g    == ReadInode(d, id).direct
           ind  == ReadInode(d, id).ind
           ptrs == PointersOf(ZeroBlocks(d, FreedBy(g)), ind)
           gone == FreedBy(ptrs) \cup ({ind} \ {0})
           A    == FreedBy(g)
           B    == FreedBy(ptrs)
           h    == Lone(ind)
           C    == FreedBy(h)
           d1   == ZeroBlocks(d, A)
<1> SUFFICES ASSUME ind \in Freeable
             PROVE  /\ A \subseteq DataBlocks /\ gone \subseteq DataBlocks
                    /\ g \in [0 .. DIRECT_BLOCKS - 1 -> Pointers]
                    /\ ptrs \in [0 .. SlotCount - 1 -> Pointers]
                    /\ h \in [0 .. 1 - 1 -> Pointers] /\ gone = B \cup C
  OBVIOUS
<1>1. /\ DIRECT_BLOCKS \in Nat /\ SlotCount \in Nat
      /\ g \in [0 .. DIRECT_BLOCKS - 1 -> Pointers] /\ ind \in Pointers
      /\ d1 \in Disks /\ ptrs \in [0 .. SlotCount - 1 -> Pointers]
      /\ A \subseteq DataBlocks
  <2>1. d1 \in Disks
    BY ZeroBlocksType
  <2> QED BY <2>1, PointerLists
<1>2. B \subseteq DataBlocks
  <2>1. 0 .. SlotCount - 1 \in SUBSET Int
    OBVIOUS
  <2> QED BY <1>1, <2>1, FreedByType
<1>3. ind \in {0} \cup DataBlocks
  BY DEF Freeable
<1>4. h \in [0 .. 1 - 1 -> Pointers] /\ C = {ind} \ {0} /\ 1 \in Nat
  <2>1. 0 .. 1 - 1 = {0}
    OBVIOUS
  <2>2. h \in [{0} -> {0} \cup DataBlocks] /\ h[0] = ind
    BY <1>3 DEF Lone
  <2>3. C = {h[i] : i \in {0}} \ {0}
    <3> HIDE DEF h
    <3> QED BY <2>2, FreesAll
  <2> HIDE DEF h, C, ind
  <2>4. h \in [{0} -> Pointers]
    BY <2>2, Regions DEF Pointers
  <2>5. {h[i] : i \in {0}} = {ind}
    BY <2>2
  <2> QED BY <2>1, <2>3, <2>4, <2>5
<1>5. gone = B \cup C /\ gone \subseteq DataBlocks
  BY <1>2, <1>3, <1>4
<1> QED BY <1>1, <1>4, <1>5

(* The blocks of a file zeroed one list after the other.                    *)
LEMMA EmptyingLeads ==
  ASSUME NEW D \in DiskStates, NEW Bs, D.disk_dbm \in Bs, NEW X \in SUBSET Disks,
         NEW d \in Disks,
         NEW g \in [0 .. DIRECT_BLOCKS - 1 -> Pointers], FreedBy(g) \subseteq DataBlocks,
         NEW ptrs \in [0 .. SlotCount - 1 -> Pointers],
         NEW last \in [0 .. 1 - 1 -> Pointers],
         NEW gone, gone = FreedBy(ptrs) \cup FreedBy(last), gone \subseteq DataBlocks,
         \A U \in SUBSET (FreedBy(g) \cup gone) : ZeroBlocks(d, U) \in X
  PROVE  Leads(On(D, d), Zeroing(g) \o Zeroing(ptrs) \o Zeroing(last),
               Through(X, Bs), On(D, ZeroBlocks(ZeroBlocks(d, FreedBy(g)), gone)))
<1> DEFINE A  == FreedBy(g)
           B  == FreedBy(ptrs)
           C  == FreedBy(last)
           d1 == ZeroBlocks(d, A)
           d2 == ZeroBlocks(d1, B)
           d3 == ZeroBlocks(d2, C)
           S  == Through(X, Bs)
<1>1. /\ DIRECT_BLOCKS \in Nat /\ SlotCount \in Nat /\ 1 \in Nat
      /\ d1 \in Disks
  BY ZeroBlocksType, SlotNumbers, GeometryAssumption
<1>2. gone = B \cup C
  OBVIOUS
<1>3. \A U, V : ZeroBlocks(ZeroBlocks(d, U), V) = ZeroBlocks(d, U \cup V)
  BY DEF ZeroBlocks
<1>4. /\ d1 = ZeroBlocks(d, A) /\ d2 = ZeroBlocks(d, A \cup B)
      /\ d3 = ZeroBlocks(d, A \cup B \cup C) /\ ZeroBlocks(d1, gone) = d3
  <2> HIDE DEF A, B, C
  <2>1. d1 = ZeroBlocks(d, A) /\ d2 = ZeroBlocks(d, A \cup B)
    BY <1>3
  <2>2. d3 = ZeroBlocks(d, A \cup B \cup C)
    BY <1>3, <2>1
  <2>3. ZeroBlocks(d1, gone) = ZeroBlocks(d, A \cup gone)
    BY <1>3
  <2>4. A \cup gone = A \cup B \cup C
    BY <1>2
  <2> QED BY <2>1, <2>2, <2>3, <2>4
<1>5. /\ d = ZeroBlocks(d, {}) /\ d \in X /\ d1 \in X /\ d2 \in X /\ d3 \in X
      /\ \A U \in SUBSET A : ZeroBlocks(d, U) \in X
      /\ \A U \in SUBSET B : ZeroBlocks(d1, U) \in X
      /\ \A U \in SUBSET C : ZeroBlocks(d2, U) \in X
  <2>1. d = ZeroBlocks(d, {})
    BY DEF ZeroBlocks, Disks
  <2> HIDE DEF A, B, C, d1, d2, d3
  <2>2. \A U : U \subseteq A \cup B \cup C => ZeroBlocks(d, U) \in X
    BY <1>2 DEF A
  <2>3. \A U \in SUBSET B : ZeroBlocks(d1, U) = ZeroBlocks(d, A \cup U)
    BY <1>3, <1>4
  <2>4. \A U \in SUBSET C : ZeroBlocks(d2, U) = ZeroBlocks(d, A \cup B \cup U)
    BY <1>3, <1>4
  <2>5. /\ \A U \in SUBSET B : A \cup U \subseteq A \cup B \cup C
        /\ \A U \in SUBSET C : A \cup B \cup U \subseteq A \cup B \cup C
    OBVIOUS
  <2> QED BY <1>4, <2>1, <2>2, <2>3, <2>4, <2>5
<1> HIDE DEF d1, d2, d3, S
<1>6. Leads(On(D, d), Zeroing(g), S, On(D, d1))
  BY <1>1, <1>5, LeadsByFreeing DEF d1, S
<1>7. Leads(On(D, d1), Zeroing(ptrs), S, On(D, d2))
  BY <1>1, <1>5, LeadsByFreeing DEF d2, S
<1>8. Leads(On(D, d2), Zeroing(last), S, On(D, d3))
  <2> DEFINE m == 1
  <2>1. m \in Nat /\ last \in [0 .. m - 1 -> Pointers]
    OBVIOUS
  <2> HIDE DEF m
  <2> QED BY <1>5, <2>1, LeadsByFreeing DEF d3, S
<1>9. Leads(On(D, d), Zeroing(g) \o Zeroing(ptrs), S, On(D, d2))
  BY <1>6, <1>7, LeadsOn
<1>10. Leads(On(D, d), Zeroing(g) \o Zeroing(ptrs) \o Zeroing(last), S, On(D, d3))
  BY <1>8, <1>9, LeadsOn
<1> QED BY <1>4, <1>10 DEF d1, S

(* On a sound disk that is all the file owned.                              *)
LEMMA EmptiesOwned ==
  ASSUME NEW d, NEW I, NEW B, Sound(d, I, B), NEW id \in TableIds
  PROVE  LET ino  == ReadInode(d, id)
             ptrs == PointersOf(ZeroBlocks(d, FreedBy(ino.direct)), ino.ind)
         IN  FreedBy(ino.direct) \cup (FreedBy(ptrs) \cup ({ino.ind} \ {0})) = Owned(d, id)
<1> DEFINE ino == ReadInode(d, id)
           A   == FreedBy(ino.direct)
           d1  == ZeroBlocks(d, A)
<1>1. A \subseteq {ino.direct[i] : i \in DirectIdx} \ {0}
  BY OwnedAreAllocated
<1>2. \A i \in DirectIdx : ino.direct[i] # 0 => ino.ind # ino.direct[i]
  BY SoundApart
<1> HIDE DEF ino, A
<1>3. ino.ind \notin A
  BY <1>1, <1>2
<1>4. ino.ind \in FsBlocks => d1[ino.ind] = d[ino.ind]
  BY <1>3 DEF ZeroBlocks
<1> HIDE DEF d1
<1>5. PointersOf(d1, ino.ind) = PointersOf(d, ino.ind)
  BY <1>4 DEF PointersOf
<1>6. A \cup (FreedBy(PointersOf(d1, ino.ind)) \cup ({ino.ind} \ {0})) = Owned(d, id)
  BY <1>5 DEF Owned, ino, A
<1> QED BY <1>6 DEF ino, A, d1

(* What delete_file writes once the file is emptied.                        *)
LEMMA DeletingLeads ==
  ASSUME NEW D \in DiskStates, NEW Bs, D.disk_dbm \in Bs, NEW X \in SUBSET Disks,
         NEW d, NEW u, NEW z \in X, Leads(On(D, d), u, Through(X, Bs), On(D, z)),
         NEW id \in InodeIds, NEW n,
         NEW d2 \in X, d2 = WriteInode(z, id, BlankInode), RootReadable(d2),
         NEW w \in Removal(d2, n), NEW e \in X, e = RemoveFromRoot(d2, n),
         NEW s \in Superblocks, NEW I \in SUBSET InodeIds, NEW C \in SUBSET DataBlocks, C \in Bs
  PROVE  Leads(On(D, d), u \o <<InodeWrite(id, BlankInode)>> \o w \o Persisting(s, I, C),
               Through(X, Bs), [blk |-> e, disk_sb |-> s, disk_ibm |-> I, disk_dbm |-> C])
<1> DEFINE v == InodeWrite(id, BlankInode)
           S == Through(X, Bs)
           F == [blk |-> e, disk_sb |-> s, disk_ibm |-> I, disk_dbm |-> C]
<1>1. BlankInode \in InodeImages
  BY BlankInodeType
<1> HIDE DEF v, S, F
<1>2. Leads(On(D, z), <<v>>, S, On(D, d2))
  BY <1>1, LeadsByInode DEF v, S
<1>3. Leads(On(D, d2), w, S, On(D, e))
  BY RemovalLeads DEF S
<1>4. Leads(On(D, e), Persisting(s, I, C), S, F)
  BY LeadsToPersisted DEF S, F
<1>5. Leads(On(D, d), u \o <<v>>, S, On(D, d2))
  BY <1>2, LeadsOn DEF S
<1>6. Leads(On(D, d), u \o <<v>> \o w, S, On(D, e))
  BY <1>3, <1>5, LeadsOn
<1>7. Leads(On(D, d), u \o <<v>> \o w \o Persisting(s, I, C), S, F)
  BY <1>4, <1>6, LeadsOn
<1> QED BY <1>7 DEF v, S, F

(* delete_file.                                                             *)
LEMMA DeleteLeads ==
  ASSUME TypeOK, mounted, sb.magic, NEW n, BeginDelete(n)
  PROVE  /\ TypeOK' /\ mounted' /\ sb'.magic
         /\ \E E : Leads(Disk, todo', Safe(cmd', before', inode_bm'), E)
<1>1. PICK id \in IdsOf(n) :
        LET ino  == ReadInode(blk, id)
            d1   == ZeroBlocks(blk, FreedBy(ino.direct))
            ptrs == PointersOf(d1, ino.ind)
            gone == FreedBy(ptrs) \cup ({ino.ind} \ {0})
            d2   == WriteInode(ZeroBlocks(d1, gone), id, BlankInode)
            data == data_bm \ (FreedBy(ino.direct) \cup gone)
            s    == [sb EXCEPT
                       !.free_inodes = Wrap(@ + 1),
                       !.free_blocks = Wrap(@ + FreedCount(ino.direct) + FreedCount(ptrs)
                                              + Count({ino.ind} \ {0}))]
        IN  /\ ino.ind \in Freeable
            /\ \E w \in Removal(d2, n) :
                 Begin("delete", n,
                       Zeroing(ino.direct) \o Zeroing(ptrs) \o Zeroing([i \in {0} |-> ino.ind])
                         \o <<InodeWrite(id, BlankInode)>> \o w
                         \o Persisting(s, inode_bm \ {id}, data))
            /\ Memory(s, inode_bm \ {id}, data, JournalNothing)
  BY DEF BeginDelete
<1> DEFINE g    == ReadInode(blk, id).direct
           ind  == ReadInode(blk, id).ind
           d1   == ZeroBlocks(blk, FreedBy(g))
           ptrs == PointersOf(d1, ind)
           gone == FreedBy(ptrs) \cup ({ind} \ {0})
           d2   == WriteInode(ZeroBlocks(d1, gone), id, BlankInode)
           data == data_bm \ (FreedBy(g) \cup gone)
           ids  == inode_bm \ {id}
           x    == FreedCount(g)
           y    == FreedCount(ptrs)
           k    == Count({ind} \ {0})
           s    == [sb EXCEPT !.free_inodes = Wrap(@ + 1),
                              !.free_blocks = Wrap(@ + x + y + k)]
           X    == Sparing(cmd', before', inode_bm')
           Bs   == Covering(cmd', before', inode_bm')
           claimed == Within(cmd', before', inode_bm', OneFile)
<1>2. PICK w \in Removal(d2, n) :
        /\ ind \in Freeable
        /\ Begin("delete", n,
                 Zeroing(g) \o Zeroing(ptrs) \o Zeroing([i \in {0} |-> ind])
                   \o <<InodeWrite(id, BlankInode)>> \o w \o Persisting(s, ids, data))
        /\ Memory(s, ids, data, JournalNothing)
  BY <1>1
<1> DEFINE u == Zeroing(g) \o Zeroing(ptrs) \o Zeroing([i \in {0} |-> ind])
                  \o <<InodeWrite(id, BlankInode)>> \o w \o Persisting(s, ids, data)
           e == RemoveFromRoot(d2, n)
<1>3. /\ id \in InodeIds \ {ROOT_INODE} /\ blk \in Disks /\ RootReadable(blk)
      /\ data \in SUBSET DataBlocks /\ ids \in SUBSET InodeIds
  <2>1. blk \in Disks /\ inode_bm \in SUBSET InodeIds /\ data_bm \in SUBSET DataBlocks
    BY DEF TypeOK, Disks
  <2>2. id \in InodeIds /\ RootReadable(blk)
    BY <2>1, IdsOfType DEF IdsOf
  <2>3. id # ROOT_INODE
    BY DEF IdsOf, FirstOf, Matches, EntryAt, ROOT_INODE
  <2> QED BY <2>1, <2>2, <2>3
<1>4. d1 \in Disks /\ BlankInode \in InodeImages
  BY <1>3, ZeroBlocksType, BlankInodeType
<1>5. \A U : ZeroBlocks(blk, U) \in Disks
  BY <1>3, ZeroBlocksType
<1>6. d2 \in Disks
  <2> DEFINE z == ZeroBlocks(d1, gone)
  <2>1. z \in Disks
    BY <1>4, ZeroBlocksType
  <2> HIDE DEF z
  <2>2. WriteInode(z, id, BlankInode) \in Disks
    BY <1>4, <2>1, WriteInodeType
  <2> QED BY <2>2 DEF z
<1>7. e \in Disks
  <2> HIDE DEF d2
  <2> QED BY <1>6, RemoveFromRootType
<1>8. s \in Superblocks /\ s.magic
  <2> DEFINE freed == sb.free_blocks + x + y + k
  <2>1. x \in Nat /\ ind \in Pointers
    BY <1>3, FreedCountType
  <2>2. y \in Nat
    <3> HIDE DEF d1, ind
    <3> QED BY <1>4, <2>1, PointersCountType
  <2>3. k \in Nat
    <3> HIDE DEF ind
    <3> QED BY FS_Singleton, FS_Difference, FS_CardinalityType DEF Count
  <2>4. sb.free_inodes \in Nat /\ sb.free_blocks \in Nat
    BY DEF TypeOK, Superblocks
  <2> HIDE DEF x, y, k
  <2>5. sb.free_inodes + 1 \in Int /\ freed \in Int
    BY <2>1, <2>2, <2>3, <2>4
  <2>6. s = [sb EXCEPT !.free_inodes = Wrap(sb.free_inodes + 1), !.free_blocks = Wrap(freed)]
    OBVIOUS
  <2> HIDE DEF freed, s
  <2>7. Wrap(sb.free_inodes + 1) \in 0 .. WORD - 1 /\ Wrap(freed) \in 0 .. WORD - 1
    BY <2>5, WrapType
  <2> QED BY <2>6, <2>7 DEF TypeOK, Superblocks
<1>9. Begin("delete", n, u) /\ "delete" \in OneFile
  BY <1>2 DEF OneFile
<1> HIDE DEF s, x, y, k, ids, data, gone, ptrs, d1, e, d2
<1>10. /\ claimed => Sound(blk, inode_bm, data_bm)
       /\ X \in SUBSET Disks /\ disk_dbm \in Bs
       /\ \A a \in Disks : (claimed => Unshared(a) /\ Spares(blk, a, n)) => a \in X
       /\ (claimed => \A m \in Names \ {n} : BlocksOf(blk, m) \subseteq data) => data \in Bs
       /\ \A E : Leads(Disk, u, Through(X, Bs), E)
                   => \E F : Leads(Disk, todo', Safe(cmd', before', inode_bm'), F)
  <2> HIDE DEF u
  <2> QED BY <1>3, <1>9, OneFileBegan
<1> HIDE DEF X, Bs, claimed
<1>11. claimed => /\ id \in TableIds \ {ROOT_INODE}
                  /\ \E p \in Matches(blk, n) : EntryAt(blk, p).id = id
  BY <1>10, SoundName
<1>12. claimed => FreedBy(g) \cup gone = Owned(blk, id)
  BY <1>10, <1>11, EmptiesOwned DEF gone, ptrs, d1
<1>13. \A U \in SUBSET (FreedBy(g) \cup gone) : ZeroBlocks(blk, U) \in X
  <2> TAKE U \in SUBSET (FreedBy(g) \cup gone)
  <2>1. claimed => Unshared(ZeroBlocks(blk, U)) /\ Spares(blk, ZeroBlocks(blk, U), n)
    BY <1>10, <1>11, <1>12, ZeroedSpares
  <2> QED BY <1>5, <1>10, <2>1
<1>14. claimed => d2 = WriteInode(ZeroBlocks(blk, Owned(blk, id)), id, BlankInode)
  <2>1. ZeroBlocks(d1, gone) = ZeroBlocks(blk, FreedBy(g) \cup gone)
    BY DEF d1, ZeroBlocks
  <2> QED BY <1>12, <2>1 DEF d2
<1>15. d2 \in X
  <2>1. claimed => Unshared(d2) /\ Spares(blk, d2, n)
    BY <1>10, <1>11, <1>14, UnlinkedSpares
  <2> QED BY <1>6, <1>10, <2>1
<1>16. e \in X
  <2>1. claimed => e = Deleted(blk, id, n)
    BY <1>14 DEF Deleted, e
  <2>2. claimed => Unshared(e) /\ Spares(blk, e, n)
    BY <1>10, <1>11, <2>1, DeletedSpares
  <2> QED BY <1>7, <1>10, <2>2
<1>17. data \in Bs
  <2>1. claimed => \A m \in Names \ {n} : BlocksOf(blk, m) \subseteq data_bm \ Owned(blk, id)
    BY <1>10, <1>11, OthersKeep
  <2> QED BY <1>10, <1>12, <2>1 DEF data
<1>18. Leads(Disk, u, Through(X, Bs),
             [blk |-> e, disk_sb |-> s, disk_ibm |-> ids, disk_dbm |-> data])
  <2> DEFINE last == Lone(ind)
             v    == Zeroing(g) \o Zeroing(ptrs) \o Zeroing(last)
             z    == ZeroBlocks(ZeroBlocks(blk, FreedBy(g)), gone)
  <2>1. Disk \in DiskStates /\ Disk.disk_dbm \in Bs /\ On(Disk, blk) = Disk
    BY <1>10, DiskType
  <2>2. /\ ptrs = PointersOf(ZeroBlocks(blk, FreedBy(g)), ind) /\ ind \in Freeable
        /\ gone = FreedBy(ptrs) \cup ({ind} \ {0})
        /\ g = ReadInode(blk, id).direct /\ ind = ReadInode(blk, id).ind
    BY <1>2 DEF ptrs, gone, d1
  <2>3. /\ u = v \o <<InodeWrite(id, BlankInode)>> \o w \o Persisting(s, ids, data)
        /\ w \in Removal(d2, n)
    BY DEF Lone
  <2>4. d2 = WriteInode(z, id, BlankInode)
    BY DEF d2, d1
  <2>5. X \in SUBSET Disks /\ s \in Superblocks /\ e = RemoveFromRoot(d2, n)
    BY <1>8, <1>10 DEF e
  <2>6. /\ FreedBy(g) \subseteq DataBlocks /\ gone \subseteq DataBlocks
        /\ g \in [0 .. DIRECT_BLOCKS - 1 -> Pointers]
        /\ ptrs \in [0 .. SlotCount - 1 -> Pointers]
        /\ last \in [0 .. 1 - 1 -> Pointers] /\ gone = FreedBy(ptrs) \cup FreedBy(last)
    BY <1>2, <1>3, EmptiedBlocks DEF gone, ptrs, d1
  <2> HIDE DEF g, ind, u, last
  <2>7. Leads(On(Disk, blk), Zeroing(g) \o Zeroing(ptrs) \o Zeroing(last), Through(X, Bs),
              On(Disk, ZeroBlocks(ZeroBlocks(blk, FreedBy(g)), gone)))
    BY <1>3, <1>13, <2>1, <2>5, <2>6, EmptyingLeads
  <2>8. z = ZeroBlocks(blk, FreedBy(g) \cup gone)
    BY DEF ZeroBlocks
  <2> HIDE DEF v, z
  <2>9. z \in X
    BY <1>13, <2>6, <2>8
  <2>10. RootReadable(d2)
    <3>1. DirOf(d2) = DirOf(blk)
      BY <1>3, <1>4, <2>4, <2>6, <2>8, RootStays
    <3> QED BY <1>3, <3>1 DEF RootReadable
  <2>11. Leads(On(Disk, blk), v, Through(X, Bs), On(Disk, z))
    BY <2>7 DEF v, z
  <2>12. Leads(On(Disk, blk),
               v \o <<InodeWrite(id, BlankInode)>> \o w \o Persisting(s, ids, data),
               Through(X, Bs),
               [blk |-> e, disk_sb |-> s, disk_ibm |-> ids, disk_dbm |-> data])
    BY <1>3, <1>15, <1>16, <1>17, <2>1, <2>3, <2>4, <2>5, <2>9, <2>10, <2>11, DeletingLeads
  <2> QED BY <2>1, <2>3, <2>12
<1> HIDE DEF u
<1>19. TypeOK' /\ mounted' /\ sb'.magic
  BY <1>2, <1>3, <1>8, <1>9, Beginning DEF TypeOK, Memory
<1> QED BY <1>10, <1>18, <1>19

-----------------------------------------------------------------------------
(* create_file.                                                            *)

(* The root directory's inode with one more block.                          *)
RootWith(e, i, b) ==
  Updated(InodeImage(e, ROOT_INODE), [ReadInode(e, ROOT_INODE) EXCEPT !.direct[i] = b])

(* What add_to_root writes for the entry of id on disk e, and the bitmap B  *)
(* that it leaves.                                                          *)
Adding(e, n, id, w, B) ==
  \/ \E i \in RoomAt(e) :
       /\ DirOf(e)[i] # 0 /\ B = data_bm
       /\ \E s \in LeastOf(FreeEntries(e, DirOf(e)[i])) :
            w = <<CellWrite(DirOf(e)[i], s, Entry(n, id))>>
  \/ \E i \in RoomAt(e), b \in LeastOf(FreeData) :
       /\ DirOf(e)[i] = 0 /\ B = data_bm \cup {b}
       /\ w = <<BlockWrite(b, ZeroBlock), InodeWrite(ROOT_INODE, RootWith(e, i, b)),
                CellWrite(b, 0, Entry(n, id))>>
  \/ w = <<>> /\ B = data_bm

(* The disks on its way.                                                    *)
AddedTo(e, n, id, f) ==
  \/ \E i \in DirectIdx :
       /\ DirOf(e)[i] # 0
       /\ \E s \in FreeEntries(e, DirOf(e)[i]) :
            f = WriteCell(e, DirOf(e)[i], s, Entry(n, id))
  \/ \E i \in DirectIdx, b \in FreeData :
       /\ DirOf(e)[i] = 0
       /\ \/ f = ZeroBlocks(e, {b})
          \/ f = Grown(e, i, b)
          \/ f = WriteCell(Grown(e, i, b), b, 0, Entry(n, id))

(* The action of the module in these terms.                                 *)
LEMMA CreateWrites ==
  ASSUME NEW n, BeginCreate(n)
  PROVE  /\ RootReadable(blk) /\ Matches(blk, n) = {}
         /\ \E id \in FreeInodes : \E w, B :
              /\ Adding(WriteInode(blk, id, FreshInode("REGULAR")), n, id, w, B)
              /\ Created(n, id, inode_bm \cup {id}, B, w)
<1>1. RootReadable(blk) /\ Matches(blk, n) = {}
  BY DEF BeginCreate
<1>2. PICK id \in LeastOf(FreeInodes) :
        LET e   == WriteInode(blk, id, FreshInode("REGULAR"))
            ids == inode_bm \cup {id}
        IN  \/ \E i \in RoomAt(e) :
                 /\ DirOf(e)[i] # 0
                 /\ \E s \in LeastOf(FreeEntries(e, DirOf(e)[i])) :
                      Created(n, id, ids, data_bm,
                              <<CellWrite(DirOf(e)[i], s, Entry(n, id))>>)
            \/ \E i \in RoomAt(e), b \in LeastOf(FreeData) :
                 /\ DirOf(e)[i] = 0
                 /\ Created(n, id, ids, data_bm \cup {b},
                      <<BlockWrite(b, ZeroBlock), InodeWrite(ROOT_INODE, RootWith(e, i, b)),
                        CellWrite(b, 0, Entry(n, id))>>)
            \/ Created(n, id, ids, data_bm, <<>>)
  BY DEF BeginCreate, RootWith
<1> DEFINE e   == WriteInode(blk, id, FreshInode("REGULAR"))
           ids == inode_bm \cup {id}
<1>3. id \in FreeInodes
  BY DEF LeastOf
<1> SUFFICES \E w, B : Adding(e, n, id, w, B) /\ Created(n, id, ids, B, w)
  BY <1>1, <1>3
<1>4. ASSUME NEW i \in RoomAt(e), DirOf(e)[i] # 0,
             NEW s \in LeastOf(FreeEntries(e, DirOf(e)[i])),
             Created(n, id, ids, data_bm, <<CellWrite(DirOf(e)[i], s, Entry(n, id))>>)
      PROVE  \E w, B : Adding(e, n, id, w, B) /\ Created(n, id, ids, B, w)
  <2> DEFINE v == <<CellWrite(DirOf(e)[i], s, Entry(n, id))>>
  <2> HIDE DEF e, ids
  <2>1. Adding(e, n, id, v, data_bm)
    BY <1>4 DEF Adding
  <2> HIDE DEF v
  <2> QED BY <1>4, <2>1 DEF v
<1>5. ASSUME NEW i \in RoomAt(e), NEW b \in LeastOf(FreeData), DirOf(e)[i] = 0,
             Created(n, id, ids, data_bm \cup {b},
                     <<BlockWrite(b, ZeroBlock), InodeWrite(ROOT_INODE, RootWith(e, i, b)),
                       CellWrite(b, 0, Entry(n, id))>>)
      PROVE  \E w, B : Adding(e, n, id, w, B) /\ Created(n, id, ids, B, w)
  <2> DEFINE v == <<BlockWrite(b, ZeroBlock), InodeWrite(ROOT_INODE, RootWith(e, i, b)),
                    CellWrite(b, 0, Entry(n, id))>>
             C == data_bm \cup {b}
  <2> HIDE DEF e, ids
  <2>1. Adding(e, n, id, v, C)
    BY <1>5 DEF Adding
  <2>2. Created(n, id, ids, C, v)
    BY <1>5
  <2> HIDE DEF v, C
  <2> QED BY <2>1, <2>2
<1>6. ASSUME Created(n, id, ids, data_bm, <<>>)
      PROVE  \E w, B : Adding(e, n, id, w, B) /\ Created(n, id, ids, B, w)
  <2> HIDE DEF e, ids
  <2>1. Adding(e, n, id, <<>>, data_bm)
    BY DEF Adding
  <2> QED BY <1>6, <2>1
<1> QED BY <1>2, <1>4, <1>5, <1>6

(* The root directory once the new inode is written, which may be root's.   *)
LEMMA NewFileDirectory ==
  ASSUME NEW d \in Disks, RootReadable(d), NEW id \in InodeIds
  PROVE  LET e == WriteInode(d, id, FreshInode("REGULAR"))
         IN  e \in Disks /\ DirOf(e) \in [DirectIdx -> {0} \cup FsBlocks]
<1> DEFINE l == FreshInode("REGULAR")
           e == WriteInode(d, id, l)
<1>1. l \in InodeImages /\ AsInode(l) = NewInode("REGULAR")
  BY FreshInodeType DEF FileTypes
<1> HIDE DEF l
<1>2. e \in Disks
  BY <1>1, WriteInodeType
<1>3. DirOf(e) \in [DirectIdx -> {0} \cup FsBlocks]
  <2>1. CASE id = ROOT_INODE
    <3>1. ReadInode(e, ROOT_INODE) = AsInode(l)
      BY <1>1, <2>1, RootInTable, WriteInodeReads
    <3>2. AsInode(l).direct = [i \in DirectIdx |-> 0]
      BY <1>1 DEF NewInode
    <3> QED BY <3>1, <3>2, DirOfRoot
  <2>2. CASE id # ROOT_INODE
    <3> DEFINE T == {}
    <3>1. d = ZeroBlocks(d, T)
      BY DEF ZeroBlocks, Disks
    <3>2. T \in SUBSET DataBlocks /\ id \in InodeIds \ {ROOT_INODE}
      BY <2>2
    <3> HIDE DEF T
    <3>3. DirOf(e) = DirOf(d)
      BY <1>1, <3>1, <3>2, RootStays
    <3>4. ROOT_INODE \in InodeIds
      BY RootInTable, TableIdIsId
    <3>5. DirOf(d) \in [DirectIdx -> Pointers]
      BY <3>4, ReadInodeType, DirOfRoot DEF Inodes
    <3> HIDE DEF e
    <3> QED BY <3>3, <3>5 DEF RootReadable, Pointers
  <2> QED BY <2>1, <2>2
<1> QED BY <1>2, <1>3 DEF l

(* Any disk on the way there spares the files of the other names.           *)
LEMMA CreatedSpares ==
  ASSUME NEW d, NEW I, NEW B, Sound(d, I, B), NEW n, NEW id \in TableIds \ I,
         NEW e, RootReadable(e),
         \A j \in TableIds \ {ROOT_INODE, id} : Keeps(d, e, j),
         \A p \in UsedEntries(d) : EntryAt(e, p) = EntryAt(d, p),
         \A m \in Names \ {n} : Matches(e, m) = Matches(d, m)
  PROVE  Spares(d, e, n)
<1>1. ASSUME NEW m \in Names \ {n}, NEW p \in Matches(d, m)
      PROVE  EntryAt(e, p) = EntryAt(d, p) /\ Keeps(d, e, EntryAt(d, p).id)
  <2>1. EntryAt(d, p).id \in I /\ EntryAt(d, p).id \in TableIds \ {ROOT_INODE}
    BY MatchIds, SoundMatches DEF Sound, GoodEntries
  <2>2. p \in UsedEntries(d)
    BY SoundMatches
  <2> QED BY <2>1, <2>2
<1> QED BY <1>1 DEF Spares

(* The disks of create_file leave every other file alone.                   *)
LEMMA AddingSpares ==
  ASSUME NEW d, NEW I, Sound(d, I, data_bm), NEW n \in Names, Matches(d, n) = {},
         NEW id \in TableIds \ I,
         NEW e, e = WriteInode(d, id, FreshInode("REGULAR")),
         NEW f, f = e \/ AddedTo(e, n, id, f)
  PROVE  Unshared(f) /\ Backed(f) /\ Spares(d, f, n)
<1> DEFINE J == I \cup {id}
<1>1. /\ Sound(e, J, data_bm)
      /\ ReadInode(e, id) = NewInode("REGULAR")
      /\ \A j \in TableIds \ {id} : ReadInode(e, j) = ReadInode(d, j)
      /\ \A b \in DataBlocks : e[b] = d[b]
      /\ UsedEntries(e) = UsedEntries(d)
      /\ \A p \in UsedEntries(d) : EntryAt(e, p) = EntryAt(d, p)
      /\ \A m : Matches(e, m) = Matches(d, m)
  BY NewFileSound
<1>2. id # ROOT_INODE /\ ROOT_INODE \in TableIds /\ id \in J \ {ROOT_INODE}
  BY SoundRoot DEF Sound
<1>3. ReadInode(e, id).type = "REGULAR"
  BY <1>1 DEF NewInode
<1>4. \A p \in UsedEntries(e) : EntryAt(e, p).id # id /\ EntryAt(e, p).name # n
  <2>1. \A p \in UsedEntries(d) : EntryAt(d, p).id \in I
    BY DEF Sound, GoodEntries
  <2>2. Matches(d, n) = {p \in UsedEntries(d) : EntryAt(d, p).name = n}
    BY SoundMatches
  <2> QED BY <1>1, <2>1, <2>2
<1>5. ASSUME NEW j \in TableIds \ {ROOT_INODE, id} PROVE Keeps(d, e, j)
  <2> PICK T : T = {}
    OBVIOUS
  <2>1. /\ j \in TableIds /\ ReadInode(e, j) = ReadInode(d, j)
        /\ \A x \in DataBlocks \ T : e[x] = d[x]
        /\ \A r \in Sites : r[1] = j => PointerAt(d, r) \notin T
    BY <1>1
  <2> QED BY <2>1, KeepsUntouched
<1> HIDE DEF J
<1>6. ASSUME NEW a, RootReadable(a),
             \A j \in TableIds \ {ROOT_INODE, id} : Keeps(e, a, j),
             \A p \in UsedEntries(e) : EntryAt(a, p) = EntryAt(e, p),
             \A m \in Names \ {n} : Matches(a, m) = Matches(e, m)
      PROVE  Spares(d, a, n)
  <2>1. \A j \in TableIds \ {ROOT_INODE, id} : Keeps(d, a, j)
    BY <1>5, <1>6, KeepsTransitive
  <2>2. \A p \in UsedEntries(d) : EntryAt(a, p) = EntryAt(d, p)
    BY <1>1, <1>6
  <2>3. \A m \in Names \ {n} : Matches(a, m) = Matches(d, m)
    BY <1>1, <1>6
  <2> QED BY <1>6, <2>1, <2>2, <2>3, CreatedSpares
<1>7. ASSUME NEW a, NEW C, Sound(a, J, C), NEW P,
             \A j \in TableIds \ {ROOT_INODE, id} : Keeps(e, a, j),
             \A p \in UsedEntries(e) : EntryAt(a, p) = EntryAt(e, p),
             UsedEntries(a) = UsedEntries(e) \cup P, \A p \in P : EntryAt(a, p).name = n
      PROVE  Unshared(a) /\ Backed(a) /\ Spares(d, a, n)
  <2>1. Unshared(a) /\ Backed(a) /\ RootReadable(a)
    BY <1>7, SoundBacked, SoundRoot
  <2>2. ASSUME NEW m \in Names \ {n} PROVE Matches(a, m) = Matches(e, m)
    <3>1. Matches(a, m) = {p \in UsedEntries(a) : EntryAt(a, p).name = m}
      BY <1>7, SoundMatches
    <3>2. Matches(e, m) = {p \in UsedEntries(e) : EntryAt(e, p).name = m}
      BY <1>1, SoundMatches
    <3>3. \A p \in P : EntryAt(a, p).name # m
      BY <1>7
    <3> QED BY <1>7, <3>1, <3>2, <3>3
  <2> QED BY <1>6, <1>7, <2>1, <2>2
<1>8. ASSUME NEW i \in DirectIdx, DirOf(e)[i] # 0, NEW s \in FreeEntries(e, DirOf(e)[i]),
             f = WriteCell(e, DirOf(e)[i], s, Entry(n, id))
      PROVE  Unshared(f) /\ Backed(f) /\ Spares(d, f, n)
  <2>1. /\ Sound(f, J, data_bm)
        /\ UsedEntries(f) = UsedEntries(e) \cup {<<i, s>>}
        /\ EntryAt(f, <<i, s>>) = Entry(n, id)
        /\ \A p \in UsedEntries(e) : EntryAt(f, p) = EntryAt(e, p)
        /\ \A j \in TableIds : ReadInode(f, j) = ReadInode(e, j)
        /\ \A b \in DataBlocks : b # DirOf(e)[i] => f[b] = e[b]
    BY <1>1, <1>2, <1>3, <1>4, <1>8, EntrySound
  <2>2. ASSUME NEW j \in TableIds \ {ROOT_INODE, id} PROVE Keeps(e, f, j)
    <3>1. \A x \in DataBlocks \ {DirOf(e)[i]} : f[x] = e[x]
      BY <2>1
    <3>2. \A r \in Sites : r[1] = j => PointerAt(e, r) \notin {DirOf(e)[i]}
      BY <1>1, <1>8, DirectoryApart
    <3> QED BY <1>1, <2>1, <3>1, <3>2, KeepsUntouched
  <2>3. \A p \in {<<i, s>>} : EntryAt(f, p).name = n
    BY <2>1 DEF Entry
  <2> QED BY <1>7, <2>1, <2>2, <2>3
<1>9. ASSUME NEW i \in DirectIdx, NEW b \in FreeData, DirOf(e)[i] = 0,
             NEW g, g = Grown(e, i, b)
      PROVE  /\ f = ZeroBlocks(e, {b}) => Unshared(f) /\ Backed(f) /\ Spares(d, f, n)
             /\ f = g => Unshared(f) /\ Backed(f) /\ Spares(d, f, n)
             /\ f = WriteCell(g, b, 0, Entry(n, id))
                  => Unshared(f) /\ Backed(f) /\ Spares(d, f, n)
  <2>1. b \in DataBlocks \ data_bm /\ \A r \in Sites : PointerAt(e, r) # b
    <3>1. b \in DataBlocks \ data_bm
      BY DEF FreeData
    <3> QED BY <1>1, <3>1, Regions DEF Sound, Allocated
  <2>2. /\ Sound(g, J, data_bm \cup {b})
        /\ UsedEntries(g) = UsedEntries(e)
        /\ \A p \in UsedEntries(e) : EntryAt(g, p) = EntryAt(e, p)
        /\ \A j \in TableIds \ {ROOT_INODE} : ReadInode(g, j) = ReadInode(e, j)
        /\ DirOf(g)[i] = b /\ g[b] = ZeroBlock /\ RootKept(e, g)
        /\ \A x \in DataBlocks \ {b} : g[x] = e[x]
    BY <1>1, <1>9, <2>1, GrownSound
  <2>3. ASSUME f = ZeroBlocks(e, {b})
        PROVE  Unshared(f) /\ Backed(f) /\ Spares(d, f, n)
    <3> DEFINE T == {b}
    <3>1. /\ T \in SUBSET DataBlocks /\ id \in TableIds \ {ROOT_INODE}
          /\ \A r \in Sites : r[1] # id => PointerAt(e, r) \notin T
      BY <1>2, <2>1
    <3>2. \A x \in FsBlocks \ T : f[x] = e[x]
      BY <2>3 DEF ZeroBlocks
    <3>3. f[b] = ZeroBlock
      BY <2>1, <2>3, Regions DEF ZeroBlocks
    <3>4. ReadInode(e, id).ind \in T => f[ReadInode(e, id).ind] = ZeroBlock
      BY <3>3
    <3> HIDE DEF T
    <3>5. Unshared(f) /\ Backed(f) /\ ChangesOnly(e, f, id)
      BY <1>1, <3>1, <3>2, <3>4, ScratchSound
    <3>6. DirOf(f) = DirOf(e)
      BY <1>2, <3>5, DirOfRoot DEF ChangesOnly, Keeps
    <3>7. RootReadable(f)
      BY <1>1, <3>6, SoundRoot DEF RootReadable
    <3> QED BY <1>6, <3>5, <3>7 DEF ChangesOnly
  <2>4. ASSUME NEW j \in TableIds \ {ROOT_INODE}, NEW a,
               ReadInode(a, j) = ReadInode(e, j), \A x \in DataBlocks \ {b} : a[x] = e[x]
        PROVE  Keeps(e, a, j)
    BY <1>1, <2>1, <2>4, KeepsUntouched
  <2>5. ASSUME f = g
        PROVE  Unshared(f) /\ Backed(f) /\ Spares(d, f, n)
    <3>1. \A j \in TableIds \ {ROOT_INODE, id} : Keeps(e, g, j)
      BY <2>2, <2>4
    <3> PICK P : P = {}
      OBVIOUS
    <3>2. UsedEntries(g) = UsedEntries(e) \cup P /\ \A p \in P : EntryAt(g, p).name = n
      BY <2>2
    <3> QED BY <1>7, <2>2, <2>5, <3>1, <3>2
  <2>6. ASSUME f = WriteCell(g, b, 0, Entry(n, id))
        PROVE  Unshared(f) /\ Backed(f) /\ Spares(d, f, n)
    <3>1. DirOf(g)[i] # 0 /\ 0 \in FreeEntries(g, DirOf(g)[i])
      <4>1. ~ EntryUsed(g[b][0])
        BY <2>2, Regions DEF ZeroBlock, EntryUsed, ZeroCell
      <4> QED BY <2>1, <2>2, <4>1, Regions DEF FreeEntries
    <3>2. f = WriteCell(g, DirOf(g)[i], 0, Entry(n, id))
      BY <2>2, <2>6
    <3>3. ReadInode(g, id).type = "REGULAR"
      BY <1>2, <1>3, <2>2
    <3>4. \A p \in UsedEntries(g) : EntryAt(g, p).id # id /\ EntryAt(g, p).name # n
      BY <1>4, <2>2
    <3>5. /\ Sound(f, J, data_bm \cup {b})
          /\ UsedEntries(f) = UsedEntries(g) \cup {<<i, 0>>}
          /\ EntryAt(f, <<i, 0>>) = Entry(n, id)
          /\ \A p \in UsedEntries(g) : EntryAt(f, p) = EntryAt(g, p)
          /\ \A j \in TableIds : ReadInode(f, j) = ReadInode(g, j)
          /\ \A x \in DataBlocks : x # DirOf(g)[i] => f[x] = g[x]
      BY <1>2, <2>2, <3>1, <3>2, <3>3, <3>4, EntrySound
    <3>6. \A j \in TableIds \ {ROOT_INODE, id} : Keeps(e, f, j)
      BY <2>2, <2>4, <3>5
    <3>7. \A p \in {<<i, 0>>} : EntryAt(f, p).name = n
      BY <3>5 DEF Entry
    <3> DEFINE P == {<<i, 0>>}
               C == data_bm \cup {b}
    <3>8. /\ Sound(f, J, C) /\ UsedEntries(f) = UsedEntries(e) \cup P
          /\ \A p \in UsedEntries(e) : EntryAt(f, p) = EntryAt(e, p)
          /\ \A p \in P : EntryAt(f, p).name = n
      BY <2>2, <3>5, <3>7
    <3> HIDE DEF P, C
    <3> QED BY <1>7, <3>6, <3>8
  <2> QED BY <2>3, <2>5, <2>6
<1>10. CASE f = e
  <2> PICK P : P = {}
    OBVIOUS
  <2>1. UsedEntries(e) = UsedEntries(e) \cup P /\ \A p \in P : EntryAt(e, p).name = n
    OBVIOUS
  <2>2. \A j \in TableIds \ {ROOT_INODE, id} : Keeps(e, e, j)
    BY DEF Keeps
  <2> QED BY <1>1, <1>7, <1>10, <2>1, <2>2
<1>11. CASE AddedTo(e, n, id, f)
  BY <1>8, <1>9, <1>11 DEF AddedTo
<1> QED BY <1>10, <1>11

(* What add_to_root writes leads from disk to disk.                         *)
LEMMA AddingLeads ==
  ASSUME NEW D \in DiskStates, NEW Bs, D.disk_dbm \in Bs, NEW X \in SUBSET Disks,
         NEW e \in X, DirOf(e) \in [DirectIdx -> {0} \cup FsBlocks],
         NEW n \in Names, NEW id \in InodeIds, NEW w, NEW B, Adding(e, n, id, w, B),
         \A f \in Disks : AddedTo(e, n, id, f) => f \in X
  PROVE  \E f \in X : Leads(On(D, e), w, Through(X, Bs), On(D, f))
<1> DEFINE c == Entry(n, id)
           S == Through(X, Bs)
<1>1. c \in Cells /\ e \in Disks /\ ZeroBlock \in BlockImages /\ 0 \in Slots
  BY EntryType, ZeroesPatch, Regions
<1>2. ASSUME NEW i \in RoomAt(e), DirOf(e)[i] # 0,
             NEW s \in LeastOf(FreeEntries(e, DirOf(e)[i])),
             w = <<CellWrite(DirOf(e)[i], s, c)>>
      PROVE  \E f \in X : Leads(On(D, e), w, S, On(D, f))
  <2> DEFINE b == DirOf(e)[i]
             f == WriteCell(e, b, s, c)
  <2>1. i \in DirectIdx /\ s \in FreeEntries(e, b) /\ s \in Slots
    BY DEF RoomAt, LeastOf, FreeEntries
  <2>2. b \in FsBlocks
    BY <1>2, <2>1, Regions
  <2>3. f \in X
    <3>1. f \in Disks
      BY <1>1, WriteCellType
    <3> QED BY <1>2, <2>1, <3>1 DEF AddedTo
  <2> HIDE DEF c, b
  <2>4. Leads(On(D, e), <<CellWrite(b, s, c)>>, Through(X, Bs), On(D, WriteCell(e, b, s, c)))
    BY <1>1, <2>1, <2>2, <2>3, LeadsByCell
  <2> QED BY <1>2, <2>3, <2>4 DEF b
<1>3. ASSUME NEW i \in RoomAt(e), NEW b \in LeastOf(FreeData), DirOf(e)[i] = 0,
             NEW r, r = RootWith(e, i, b),
             w = <<BlockWrite(b, ZeroBlock), InodeWrite(ROOT_INODE, r), CellWrite(b, 0, c)>>
      PROVE  \E f \in X : Leads(On(D, e), w, S, On(D, f))
  <2> DEFINE e1 == ZeroBlocks(e, {b})
             e2 == WriteInode(e1, ROOT_INODE, r)
             e3 == WriteCell(e2, b, 0, c)
             w1 == BlockWrite(b, ZeroBlock)
             w2 == InodeWrite(ROOT_INODE, r)
             w3 == CellWrite(b, 0, c)
  <2>1. i \in DirectIdx /\ b \in FreeData /\ b \in DataBlocks /\ b \in FsBlocks
    BY Regions DEF RoomAt, LeastOf, FreeData
  <2>2. r \in InodeImages /\ ROOT_INODE \in InodeIds
    <3> DEFINE ino == ReadInode(e, ROOT_INODE)
               new == [ino EXCEPT !.direct[i] = b]
    <3>1. /\ ROOT_INODE \in InodeIds /\ InodeImage(e, ROOT_INODE) \in InodeImages
          /\ ino \in Inodes
      BY <1>1, ReadInodeType, InodeImageType, Regions
    <3>2. r = Updated(InodeImage(e, ROOT_INODE), new)
      BY <1>3 DEF RootWith
    <3> HIDE DEF ino
    <3>3. new \in Inodes
      BY <2>1, <3>1 DEF Inodes, Pointers
    <3> HIDE DEF new
    <3> QED BY <3>1, <3>2, <3>3, UpdatedInode
  <2>3. e1 \in Disks /\ e1 = [e EXCEPT ![b] = ZeroBlock]
    <3>1. e1 \in Disks
      BY <1>1, ZeroBlocksType
    <3> QED BY <1>1, <3>1 DEF ZeroBlocks, Disks
  <2>4. e2 \in Disks
    <3> HIDE DEF e1
    <3> QED BY <2>2, <2>3, WriteInodeType
  <2>5. e3 \in Disks
    <3> HIDE DEF e2
    <3> QED BY <1>1, <2>4, WriteCellType
  <2>6. e2 = Grown(e, i, b)
    BY <1>3 DEF Grown, RootWith
  <2>7. AddedTo(e, n, id, e1) /\ AddedTo(e, n, id, e2) /\ AddedTo(e, n, id, e3)
    <3> HIDE DEF e1, e2
    <3>1. e1 = ZeroBlocks(e, {b}) /\ e3 = WriteCell(Grown(e, i, b), b, 0, Entry(n, id))
      BY <2>6 DEF e1
    <3> HIDE DEF e3
    <3> QED BY <1>3, <2>1, <2>6, <3>1 DEF AddedTo
  <2>8. e1 \in X /\ e2 \in X /\ e3 \in X
    <3> HIDE DEF e1, e2, e3
    <3> QED BY <2>3, <2>4, <2>5, <2>7
  <2>9. /\ e2 = WriteInode(e1, ROOT_INODE, r) /\ e3 = WriteCell(e2, b, 0, c)
        /\ w = <<w1, w2, w3>>
    BY <1>3
  <2> HIDE DEF e1, e2, e3, c, w1, w2, w3
  <2>10. Leads(On(D, e), <<w1>>, S, On(D, e1))
    <3>1. Leads(On(D, e), <<BlockWrite(b, ZeroBlock)>>, Through(X, Bs),
                On(D, [e EXCEPT ![b] = ZeroBlock]))
      BY <1>1, <2>1, <2>3, <2>8, LeadsByBlock
    <3> QED BY <2>3, <3>1 DEF w1
  <2>11. Leads(On(D, e1), <<w2>>, S, On(D, e2))
    <3>1. Leads(On(D, e1), <<InodeWrite(ROOT_INODE, r)>>, Through(X, Bs),
                On(D, WriteInode(e1, ROOT_INODE, r)))
      BY <2>2, <2>8, <2>9, LeadsByInode
    <3> QED BY <2>9, <3>1 DEF w2
  <2>12. Leads(On(D, e2), <<w3>>, S, On(D, e3))
    <3>1. Leads(On(D, e2), <<CellWrite(b, 0, c)>>, Through(X, Bs),
                On(D, WriteCell(e2, b, 0, c)))
      BY <1>1, <2>1, <2>8, <2>9, LeadsByCell
    <3> QED BY <2>9, <3>1 DEF w3
  <2> HIDE DEF S
  <2>13. Leads(On(D, e), <<w1>> \o <<w2>>, S, On(D, e2))
    BY <2>10, <2>11, LeadsOn
  <2>14. Leads(On(D, e), (<<w1>> \o <<w2>>) \o <<w3>>, S, On(D, e3))
    BY <2>12, <2>13, LeadsOn
  <2> QED BY <2>8, <2>9, <2>14, ThreeWrites
<1>4. ASSUME w = <<>>
      PROVE  \E f \in X : Leads(On(D, e), w, S, On(D, f))
  BY <1>4, ThroughOn, LeadsNowhere
<1> QED BY <1>2, <1>3, <1>4 DEF Adding

(* create_file.                                                             *)
LEMMA CreateLeads ==
  ASSUME TypeOK, mounted, sb.magic, NEW n \in Names, BeginCreate(n)
  PROVE  /\ TypeOK' /\ mounted' /\ sb'.magic
         /\ \E E : Leads(Disk, todo', Safe(cmd', before', inode_bm'), E)
<1>1. PICK id \in FreeInodes :
        \E w, B : /\ Adding(WriteInode(blk, id, FreshInode("REGULAR")), n, id, w, B)
                  /\ Created(n, id, inode_bm \cup {id}, B, w)
  BY CreateWrites
<1>2. PICK w, B : /\ Adding(WriteInode(blk, id, FreshInode("REGULAR")), n, id, w, B)
                  /\ Created(n, id, inode_bm \cup {id}, B, w)
  BY <1>1
<1> DEFINE e   == WriteInode(blk, id, FreshInode("REGULAR"))
           ids == inode_bm \cup {id}
           k   == Count(B \ data_bm)
           s   == [sb EXCEPT !.free_inodes = Wrap(@ - 1), !.free_blocks = Wrap(@ - k)]
           ws  == (<<InodeWrite(id, FreshInode("REGULAR"))>> \o w) \o Persisting(s, ids, B)
           X   == Sparing(cmd', before', inode_bm')
           Bs  == Covering(cmd', before', inode_bm')
           claimed == Within(cmd', before', inode_bm', OneFile)
<1>3. /\ RootReadable(blk) /\ Matches(blk, n) = {} /\ id \in InodeIds \ inode_bm
      /\ blk \in Disks /\ ids \in SUBSET InodeIds
  BY CreateWrites DEF FreeInodes, TypeOK, Disks
<1>4. e \in Disks /\ DirOf(e) \in [DirectIdx -> {0} \cup FsBlocks]
  BY <1>3, NewFileDirectory
<1>5. B \in SUBSET DataBlocks /\ data_bm \subseteq B
  BY <1>2 DEF Adding, LeastOf, FreeData, TypeOK
<1>6. Begin("create", n, ws) /\ Memory(s, ids, B, JournalNothing)
  BY <1>2 DEF Created, InodeThenEntry
<1>7. s \in Superblocks /\ s.magic
  <2>1. k \in Nat
    <3>1. B \ data_bm \in SUBSET DataBlocks
      BY <1>5
    <3> QED BY <3>1, DataFinite
  <2>2. sb.free_inodes \in Nat /\ sb.free_blocks \in Nat
    BY DEF TypeOK, Superblocks
  <2> HIDE DEF k
  <2>3. Wrap(sb.free_inodes - 1) \in 0 .. WORD - 1 /\ Wrap(sb.free_blocks - k) \in 0 .. WORD - 1
    BY <2>1, <2>2, WrapType
  <2> QED BY <2>3 DEF TypeOK, Superblocks
<1>8. "create" \in OneFile /\ "create" # "delete"
  BY DEF OneFile
<1>9. /\ claimed => /\ Sound(blk, inode_bm, data_bm)
                    /\ \A j \in inode_bm' : InTable(j)
      /\ X \in SUBSET Disks /\ disk_dbm \in Bs
      /\ \A a \in Disks : (claimed => Unshared(a) /\ Backed(a) /\ Spares(blk, a, n)) => a \in X
      /\ (claimed => \A m \in Names \ {n} : BlocksOf(blk, m) \subseteq B) => B \in Bs
      /\ \A E : Leads(Disk, ws, Through(X, Bs), E)
                  => \E F : Leads(Disk, todo', Safe(cmd', before', inode_bm'), F)
  <2> HIDE DEF ws
  <2> QED BY <1>5, <1>6, <1>8, OneFileBegan
<1>10. inode_bm' = ids
  BY <1>6 DEF Memory
<1> HIDE DEF X, Bs, claimed, s, k
<1>11. claimed => id \in TableIds \ inode_bm
  BY <1>3, <1>9, <1>10 DEF TableIds, InTable
<1> HIDE DEF e
<1>12. e = WriteInode(blk, id, FreshInode("REGULAR"))
  BY DEF e
<1>13. \A f \in Disks : f = e \/ AddedTo(e, n, id, f) => f \in X
  <2> SUFFICES ASSUME NEW f \in Disks, f = e \/ AddedTo(e, n, id, f), claimed
               PROVE  Unshared(f) /\ Backed(f) /\ Spares(blk, f, n)
    BY <1>9
  <2> QED BY <1>3, <1>9, <1>11, <1>12, AddingSpares
<1>14. B \in Bs
  <2>1. claimed => \A m : BlocksOf(blk, m) \subseteq data_bm
    BY <1>9, BlocksApart
  <2> QED BY <1>5, <1>9, <2>1
<1>15. blk \in X
  <2>1. claimed => Unshared(blk) /\ Backed(blk) /\ Spares(blk, blk, n)
    <3>1. claimed => Unshared(blk) /\ Backed(blk)
      BY <1>9, SoundBacked
    <3>2. Spares(blk, blk, n)
      BY <1>3 DEF Spares, Keeps
    <3> QED BY <3>1, <3>2
  <2> QED BY <1>3, <1>9, <2>1
<1>16. \E E : Leads(Disk, ws, Through(X, Bs), E)
  <2> DEFINE v == InodeWrite(id, FreshInode("REGULAR"))
  <2>1. Disk \in DiskStates /\ Disk.disk_dbm \in Bs /\ On(Disk, blk) = Disk
    BY <1>9, DiskType
  <2>2. e \in X /\ FreshInode("REGULAR") \in InodeImages
    BY <1>4, <1>13, FreshInodeType DEF FileTypes
  <2>3. Leads(On(Disk, blk), <<v>>, Through(X, Bs), On(Disk, e))
    <3>1. Leads(On(Disk, blk), <<InodeWrite(id, FreshInode("REGULAR"))>>, Through(X, Bs),
                On(Disk, WriteInode(blk, id, FreshInode("REGULAR"))))
      BY <1>3, <1>9, <1>12, <1>15, <2>1, <2>2, LeadsByInode
    <3> QED BY <1>12, <3>1
  <2>4. PICK f \in X : Leads(On(Disk, e), w, Through(X, Bs), On(Disk, f))
    <3>1. Adding(e, n, id, w, B)
      BY <1>2 DEF e
    <3> QED BY <1>3, <1>4, <1>9, <1>13, <2>1, <2>2, <3>1, AddingLeads
  <2> DEFINE F == [blk |-> f, disk_sb |-> s, disk_ibm |-> ids, disk_dbm |-> B]
  <2>5. Leads(On(Disk, f), Persisting(s, ids, B), Through(X, Bs), F)
    BY <1>3, <1>5, <1>7, <1>9, <1>14, <2>1, LeadsToPersisted
  <2> HIDE DEF v, F
  <2>6. Leads(On(Disk, blk), <<v>> \o w, Through(X, Bs), On(Disk, f))
    BY <2>3, <2>4, LeadsOn
  <2>7. Leads(On(Disk, blk), (<<v>> \o w) \o Persisting(s, ids, B), Through(X, Bs), F)
    BY <2>5, <2>6, LeadsOn
  <2> QED BY <2>1, <2>7 DEF v
<1> HIDE DEF ws
<1>17. TypeOK' /\ mounted' /\ sb'.magic
  BY <1>3, <1>5, <1>6, <1>7, Beginning DEF TypeOK, Memory
<1> QED BY <1>9, <1>16, <1>17

-----------------------------------------------------------------------------
(* The invariant, and the steps that preserve it.                          *)

(* What is left of the running command leads safely to E; and a format      *)
(* leads to a formatted disk that the process already agrees with.          *)
Follows(E) ==
  /\ Leads(Disk, todo, Safe(cmd, before, inode_bm), E)
  /\ cmd.op = "format" =>
       /\ Healed(E) /\ mounted
       /\ sb = E.disk_sb /\ inode_bm = E.disk_ibm /\ data_bm = E.disk_dbm

StepsInv ==
  /\ TypeOK
  /\ mounted => sb.magic
  /\ cmd # Idle => before.blk \in Disks /\ \E E : Follows(E)

(* Every command but format, by what it shares with the others.             *)
LEMMA BeginsOther ==
  ASSUME \/ BeginMount \/ BeginUnmount \/ BeginFsck
         \/ \E n \in Names : \/ BeginCreate(n) \/ BeginDelete(n) \/ BeginCrash(n)
                             \/ BeginFreeing(n)
                             \/ \E c \in Contents : BeginWrite(n, c) \/ BeginWriteFull(n, c)
  PROVE  \E op, n, ws : Begin(op, n, ws) /\ op # "format"
<1>1. CASE BeginMount
  BY <1>1 DEF BeginMount
<1>2. CASE BeginUnmount
  BY <1>2 DEF BeginUnmount
<1>3. CASE BeginFsck
  BY <1>3 DEF BeginFsck
<1>4. ASSUME NEW n, BeginCreate(n) PROVE \E op, m, ws : Begin(op, m, ws) /\ op # "format"
  <2>1. \E id, w, B : Created(n, id, inode_bm \cup {id}, B, w)
    BY <1>4, CreateWrites
  <2> QED BY <2>1 DEF Created
<1>5. ASSUME NEW n, BeginDelete(n) PROVE \E op, m, ws : Begin(op, m, ws) /\ op # "format"
  <2>1. \E id \in IdsOf(n) : \E ws : Begin("delete", n, ws)
    BY ONLY <1>5, Zenon DEF BeginDelete
  <2>2. PICK ws : Begin("delete", n, ws)
    BY ONLY <2>1
  <2> QED BY ONLY <2>2
<1>6. ASSUME NEW n, BeginCrash(n) PROVE \E op, m, ws : Begin(op, m, ws) /\ op # "format"
  BY <1>6 DEF BeginCrash
<1>7. ASSUME NEW n, BeginFreeing(n) PROVE \E op, m, ws : Begin(op, m, ws) /\ op # "format"
  BY <1>7 DEF BeginFreeing
<1>8. ASSUME NEW n, NEW c, BeginWrite(n, c)
      PROVE  \E op, m, ws : Begin(op, m, ws) /\ op # "format"
  <2>1. \E id \in IdsOf(n) : \E ws : Begin("write", n, ws)
    BY ONLY <1>8, Zenon DEF BeginWrite
  <2>2. PICK ws : Begin("write", n, ws)
    BY ONLY <2>1
  <2> QED BY ONLY <2>2
<1>9. ASSUME NEW n, NEW c, BeginWriteFull(n, c)
      PROVE  \E op, m, ws : Begin(op, m, ws) /\ op # "format"
  BY <1>9 DEF BeginWriteFull
<1> QED BY <1>1, <1>2, <1>3, <1>4, <1>5, <1>6, <1>7, <1>8, <1>9

LEMMA BeginKeeps ==
  ASSUME TypeOK, NEW op, NEW n, NEW ws, Begin(op, n, ws), op # "format",
         TypeOK', mounted' => sb'.magic,
         \E E : Leads(Disk, todo', Safe(cmd', before', inode_bm'), E)
  PROVE  StepsInv'
<1>1. cmd'.op # "format" /\ Disk' = Disk /\ before'.blk \in Disks
  BY Beginning DEF TypeOK, Disks
<1>2. \E E : Follows(E)'
  BY <1>1 DEF Follows
<1> QED BY <1>1, <1>2 DEF StepsInv

LEMMA FileCommandKeeps ==
  ASSUME StepsInv, FileCommand
  PROVE  StepsInv'
<1>1. TypeOK /\ (mounted => sb.magic)
  BY DEF StepsInv
<1>2. CASE BeginFormat
  <2>1. PICK E : /\ Leads(Disk, todo', Safe(cmd', before', inode_bm'), E) /\ Healed(E)
                 /\ sb' = E.disk_sb /\ inode_bm' = E.disk_ibm /\ data_bm' = E.disk_dbm
    BY <1>1, <1>2, FormatLeads
  <2>2. TypeOK' /\ mounted' /\ sb'.magic
    BY <1>1, <1>2, FormatLeads
  <2>3. Begin("format", Idle, Formatting)
    BY <1>2 DEF BeginFormat
  <2>4. Disk' = Disk /\ before'.blk \in Disks
    BY <1>1, <2>3, Beginning DEF TypeOK, Disks
  <2>5. Follows(E)'
    BY <2>1, <2>2, <2>4 DEF Follows
  <2> QED BY <2>2, <2>4, <2>5 DEF StepsInv
<1>3. CASE BeginUnmount
  BY <1>1, <1>3, UnmountLeads, BeginsOther, BeginKeeps
<1>4. ASSUME NEW n \in Names, BeginCreate(n) PROVE StepsInv'
  BY <1>1, <1>4, CreateLeads, BeginsOther, BeginKeeps DEF BeginCreate, Ready
<1>5. ASSUME NEW n \in Names, BeginDelete(n) PROVE StepsInv'
  BY <1>1, <1>5, DeleteLeads, BeginsOther, BeginKeeps DEF BeginDelete, Ready
<1>6. ASSUME NEW n \in Names, NEW c \in Contents, BeginWrite(n, c) PROVE StepsInv'
  BY <1>1, <1>6, WriteLeads, BeginsOther, BeginKeeps DEF BeginWrite, Ready
<1> QED BY <1>2, <1>3, <1>4, <1>5, <1>6 DEF FileCommand

LEMMA TroubleCommandKeeps ==
  ASSUME StepsInv, TroubleCommand \/ RepairOrThrow
  PROVE  StepsInv'
<1>1. TypeOK /\ (mounted => sb.magic)
  BY DEF StepsInv
<1>2. ASSUME NEW n \in Names, BeginCrash(n) PROVE StepsInv'
  <2>1. sb' = sb /\ mounted' = mounted
    BY <1>2 DEF BeginCrash, memVars
  <2> QED BY <1>1, <1>2, <2>1, CrashLeads, BeginsOther, BeginKeeps
<1>3. ASSUME NEW n \in Names, NEW c \in Contents, BeginWriteFull(n, c) PROVE StepsInv'
  BY <1>1, <1>3, FullLeads, BeginsOther, BeginKeeps DEF BeginWriteFull, Ready
<1>4. CASE BeginFsck
  BY <1>1, <1>4, FsckLeads, BeginsOther, BeginKeeps DEF BeginFsck, Ready
<1>5. ASSUME NEW n \in Names, BeginFreeing(n) PROVE StepsInv'
  BY <1>1, <1>5, FreeingLeads, BeginsOther, BeginKeeps DEF BeginFreeing, Ready
<1> QED BY <1>2, <1>3, <1>4, <1>5 DEF TroubleCommand, RepairOrThrow

LEMMA WriteNextKeeps ==
  ASSUME StepsInv, WriteNext
  PROVE  StepsInv'
<1>1. PICK E : Follows(E)
  BY DEF StepsInv, WriteNext
<1> DEFINE S == Safe(cmd, before, inode_bm)
           d == Overlay(Disk, Head(todo))
<1>2. Leads(Disk, todo, S, E) /\ todo # <<>>
  BY <1>1 DEF Follows, WriteNext
<1>3. Leads(d, Tail(todo), S, E)
  <2> HIDE DEF S
  <2> QED BY <1>2, LeadsNext
<1>4. d \in DiskStates
  <2>1. d \in S
    <3> HIDE DEF S, d
    <3> QED BY <1>3, LeadsWrites
  <2> QED BY <2>1 DEF Safe
<1>5. /\ blk' = d.blk /\ disk_sb' = d.disk_sb
      /\ disk_ibm' = d.disk_ibm /\ disk_dbm' = d.disk_dbm /\ todo' = Tail(todo)
      /\ sb' = sb /\ inode_bm' = inode_bm /\ data_bm' = data_bm /\ mounted' = mounted
      /\ cmd' = cmd /\ before' = before
  BY DEF WriteNext, memVars
<1> HIDE DEF d
<1>6. Disk' = d
  BY <1>4, <1>5 DEF Disk, DiskStates
<1>7. TypeOK'
  BY <1>4, <1>5 DEF StepsInv, TypeOK, DiskStates, Disks
<1>8. Follows(E)'
  BY <1>1, <1>3, <1>5, <1>6 DEF Follows
<1>9. cmd # Idle
  BY DEF WriteNext
<1> QED BY <1>5, <1>7, <1>8, <1>9 DEF StepsInv

LEMMA StepsKeep ==
  ASSUME StepsInv, [StepsNext]_stepVars
  PROVE  StepsInv'
<1>1. TypeOK /\ (mounted => sb.magic)
  BY DEF StepsInv
<1>2. CASE FileCommand
  BY <1>2, FileCommandKeeps
<1>3. CASE TroubleCommand \/ RepairOrThrow
  BY <1>3, TroubleCommandKeeps
<1>4. CASE BeginMount
  BY <1>1, <1>4, MountLeads, BeginsOther, BeginKeeps
<1>5. CASE WriteNext
  BY <1>5, WriteNextKeeps
<1>6. CASE Finish
  BY <1>1, <1>6 DEF Finish, StepsInv, TypeOK, vars, diskVars, memVars
<1>7. CASE KillIdle
  <2>1. TypeOK' /\ ~ mounted' /\ cmd' = Idle
    BY <1>1, <1>7, KillType DEF KillIdle, Kill, ProcessGone
  <2> QED BY <2>1 DEF StepsInv
<1>8. CASE Cut
  <2>1. TypeOK' /\ ~ mounted' /\ cmd' = Idle
    BY <1>1, <1>8, ProcessGoneType DEF Cut, ProcessGone, TypeOK, diskVars
  <2> QED BY <2>1 DEF StepsInv
<1>9. CASE UNCHANGED stepVars
  <2>1. /\ UNCHANGED <<blk, disk_sb, disk_ibm, disk_dbm, sb, inode_bm, data_bm, mounted>>
        /\ UNCHANGED <<cmd, todo, before>>
    BY <1>9 DEF stepVars, vars, diskVars, memVars
  <2>2. Disk' = Disk
    BY <2>1 DEF Disk
  <2> QED BY <2>1, <2>2 DEF StepsInv, TypeOK, Follows
<1> QED BY <1>2, <1>3, <1>4, <1>5, <1>6, <1>7, <1>8, <1>9 DEF StepsNext, Proceed

LEMMA StepsBegin ==
  ASSUME StepsInit
  PROVE  StepsInv
<1>1. TypeOK /\ ~ mounted
  BY InitType DEF StepsInit, Init
<1> QED BY <1>1 DEF StepsInit, StepsInv

(* At every point inside a command what is left of it leads to an end, and  *)
(* no disk on the way loses what is claimed of a cut (write_block, one      *)
(* flushed write after the other).                                          *)
THEOREM StepsInvariant == StepsSpec => []StepsInv
<1>1. StepsInit => StepsInv
  BY StepsBegin
<1>2. StepsInv /\ [StepsNext]_stepVars => StepsInv'
  BY StepsKeep
<1> QED BY <1>1, <1>2, PTL DEF StepsSpec

-----------------------------------------------------------------------------
(* What follows from it.                                                   *)

LEMMA DiskIsSafe ==
  ASSUME StepsInv, cmd # Idle
  PROVE  Disk \in Safe(cmd, before, inode_bm) /\ before.blk \in Disks
<1>1. PICK E : Leads(Disk, todo, Safe(cmd, before, inode_bm), E)
  BY DEF StepsInv, Follows
<1>2. Disk \in Safe(cmd, before, inode_bm)
  BY <1>1, LeadsWrites
<1> QED BY <1>2 DEF StepsInv

LEMMA InsideWithin ==
  ASSUME NEW ops, Inside(ops)
  PROVE  cmd # Idle /\ Within(cmd, before, inode_bm, ops)
BY DEF Inside, Within, WasConsistent, BeganConsistent

(* Whatever is cut and wherever, nothing is ever written outside the disk,  *)
(* nor anything that cannot be stored where it is written.                  *)
THEOREM StepsTypeOK == StepsSpec => []TypeOK
<1>1. StepsInv => TypeOK
  BY DEF StepsInv
<1> QED BY <1>1, StepsInvariant, PTL

(* On a disk that was consistent no write of a command makes two pointers   *)
(* reach one block: a block changes hands only after its old pointer is     *)
(* gone (filesystem.cpp:86-330).                                            *)
THEOREM StepsNoSharing == StepsSpec => []NoSharingInside
<1>1. StepsInv => NoSharingInside
  <2> SUFFICES ASSUME StepsInv,
                      Inside({"format", "mount", "unmount", "create", "write", "delete", "full"})
               PROVE  SingleOwner
    BY DEF NoSharingInside
  <2>1. Unshared(Disk.blk)
    BY DiskIsSafe, InsideWithin DEF Safe
  <2> QED BY <2>1 DEF Disk, SingleOwner
<1> QED BY <1>1, StepsInvariant, PTL

(* On a disk that was consistent no write of a command but delete leaves an *)
(* entry that leads to an inode that is not a file's: create writes the     *)
(* inode before its entry.                                                  *)
THEOREM StepsEntriesBacked == StepsSpec => []EntriesBacked
<1>1. StepsInv => EntriesBacked
  <2> SUFFICES ASSUME StepsInv, Inside({"mount", "unmount", "create", "write", "full"})
               PROVE  Backed(blk)
    BY DEF EntriesBacked
  <2>1. Backed(Disk.blk)
    BY DiskIsSafe, InsideWithin DEF Safe
  <2> QED BY <2>1 DEF Disk
<1> QED BY <1>1, StepsInvariant, PTL

(* Wherever a command on one file is cut, on a disk that was consistent,    *)
(* every other file reads as before and keeps its blocks allocated on disk. *)
THEOREM StepsCutSpares == StepsSpec => []CutSparesOthers
<1>1. StepsInv => CutSparesOthers
  <2> SUFFICES ASSUME StepsInv, Inside({"create", "write", "delete", "full"})
               PROVE  \A n \in Names \ {cmd.name} :
                        /\ ReadFile(blk, n) = ReadFile(before.blk, n)
                        /\ BlocksOf(blk, n) \subseteq disk_dbm
    BY DEF CutSparesOthers
  <2>1. Spared(Disk, before.blk, cmd.name)
    BY DiskIsSafe, InsideWithin DEF Safe
  <2>2. Disk.blk = blk /\ Disk.disk_dbm = disk_dbm
    BY DEF Disk
  <2> QED BY <2>1, <2>2 DEF Spared
<1> QED BY <1>1, StepsInvariant, PTL

(* At every point of fsck, on whatever disk it began, the repair of what is *)
(* there ends where the whole run would have: a cut fsck can be run again.  *)
THEOREM StepsFsckResumes == StepsSpec => []FsckResumes
<1>1. StepsInv => FsckResumes
  <2> SUFFICES ASSUME StepsInv, cmd # Idle, cmd.op = "fsck"
               PROVE  /\ FsckDisk(blk) = FsckDisk(before.blk)
                      /\ FsckData(blk) = FsckData(before.blk)
    BY DEF FsckResumes
  <2>1. FsckDisk(Disk.blk) = FsckDisk(before.blk) /\ before.blk \in Disks
    BY DiskIsSafe DEF Safe
  <2>2. Disk.blk = blk /\ blk \in Disks
    BY DiskType DEF StepsInv
  <2>3. /\ FsckData(FsckDisk(blk)) = FsckData(blk)
        /\ FsckData(FsckDisk(before.blk)) = FsckData(before.blk)
    BY <2>1, <2>2, FsckDataKept
  <2> QED BY <2>1, <2>2, <2>3
<1> QED BY <1>1, StepsInvariant, PTL

(* A format that ends makes the disk consistent, whatever was cut before.   *)
THEOREM StepsFormatHeals == StepsSpec => FormatHeals
<1>1. ASSUME StepsInv, [StepsNext]_stepVars, Ends("format")
      PROVE  Consistent'
  <2>1. /\ cmd # Idle /\ todo = <<>> /\ cmd.op = "format" /\ cmd' # cmd
        /\ cmd' = Idle
    BY <1>1 DEF Ends
  <2>2. UNCHANGED vars
    <3>1. Finish
      BY <1>1, <2>1
         DEF StepsNext, FileCommand, TroubleCommand, RepairOrThrow, Proceed, Ready, stepVars,
             BeginFormat, BeginUnmount, BeginCreate, BeginDelete, BeginWrite, BeginCrash,
             BeginWriteFull, BeginFsck, BeginFreeing, BeginMount, WriteNext, KillIdle, Cut
    <3> QED BY <3>1 DEF Finish
  <2>3. PICK E : Follows(E)
    BY <1>1, <2>1 DEF StepsInv
  <2>4. Disk = E /\ Healed(E) /\ mounted /\ sb = E.disk_sb /\ inode_bm = E.disk_ibm
        /\ data_bm = E.disk_dbm
    BY <2>1, <2>3, LeadsWrites DEF Follows
  <2>5. /\ FormattedDisk(blk) /\ disk_sb = FormattedSuperblock
        /\ disk_ibm = {ROOT_INODE} /\ disk_dbm = {DATA_START_BLOCK}
        /\ sb = disk_sb /\ inode_bm = disk_ibm /\ data_bm = disk_dbm
    BY <2>4 DEF Healed, Disk
  <2>6. Consistent
    <3>1. SingleOwner /\ OwnedAllocated
      BY <2>5, FormattedPointers DEF SingleOwner, Unshared, OwnedAllocated, Allocated
    <3>2. NamesResolve
      <4>1. UsedEntries(blk) = {}
        BY <2>5, FormattedDirectory DEF UsedEntries
      <4> QED BY <2>5, <4>1 DEF NamesResolve, Resolves, Backed, Distinct, Recorded
    <3>3. CountersExact
      <4>1. \A x : Count({x}) = 1
        BY FS_Singleton DEF Count
      <4> QED BY <2>5, <4>1, FormattedTypes DEF CountersExact, Counted
    <3>4. MemoryOnDisk
      BY <2>5 DEF MemoryOnDisk
    <3> QED BY <3>1, <3>2, <3>3, <3>4 DEF Consistent
  <2>7. Consistent' = Consistent
    BY <2>2 DEF vars, diskVars, memVars, Consistent, SingleOwner, OwnedAllocated, NamesResolve,
                CountersExact, MemoryOnDisk
  <2> QED BY <2>6, <2>7
<1>2. StepsInv /\ [StepsNext]_stepVars => (Ends("format") => Consistent')
  BY <1>1
<1> QED BY <1>2, StepsInvariant, PTL DEF FormatHeals, StepsSpec

=============================================================================

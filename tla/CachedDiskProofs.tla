-------------------------- MODULE CachedDiskProofs --------------------------
(***************************************************************************)
(* Theorems about CachedDisk, for every disk size, capacity and set of     *)
(* block values: the cache keeps its shape, it is coherent, and the cached *)
(* disk implements BlockDevice.                                            *)
(***************************************************************************)
EXTENDS CachedDisk, SequenceTheorems, TLAPS

Entries == [data : Values, dirty : BOOLEAN]

-----------------------------------------------------------------------------
(* Sequences without repetition, as the list of the cache is one.          *)

Elements(l)   == {l[i] : i \in DOMAIN l}
Distinct(l)   == \A i, k \in DOMAIN l : l[i] = l[k] => i = k
BlockLists    == {l \in Seq(Blocks) : Distinct(l)}

(* What erasing block b leaves, place by place.                             *)
LEMMA ErasePlaces ==
  ASSUME NEW l \in BlockLists, NEW b \in Elements(l)
  PROVE  /\ LRU!Place(l, b) \in 1 .. Len(l)
         /\ l[LRU!Place(l, b)] = b
         /\ LRU!Erase(l, b) \in Seq(Blocks)
         /\ Len(LRU!Erase(l, b)) = Len(l) - 1
         /\ \A k \in 1 .. Len(l) - 1 :
              LRU!Erase(l, b)[k] = IF k < LRU!Place(l, b) THEN l[k] ELSE l[k + 1]
<1> DEFINE p == LRU!Place(l, b)
           s == SubSeq(l, 1, p - 1)
           t == SubSeq(l, p + 1, Len(l))
<1>1. l \in Seq(Blocks) /\ DOMAIN l = 1 .. Len(l) /\ Len(l) \in Nat
  BY LenProperties DEF BlockLists
<1>2. p \in 1 .. Len(l) /\ l[p] = b
  BY <1>1 DEF LRU!Place, Elements
<1>3. \A i \in 1 .. Len(l) : l[i] \in Blocks
  BY <1>1, ElementOfSeq
<1> HIDE DEF p
<1>4. /\ s \in Seq(Blocks) /\ Len(s) = p - 1
      /\ \A i \in 1 .. p - 1 : s[i] = l[i]
  <2>1. \A i \in 1 .. p - 1 : l[i] \in Blocks
    BY <1>1, <1>2, <1>3
  <2> QED BY <2>1, <1>1, <1>2, SubSeqProperties
<1>5. /\ t \in Seq(Blocks) /\ Len(t) = Len(l) - p
      /\ \A i \in 1 .. Len(l) - p : t[i] = l[p + i]
  <2>1. \A i \in p + 1 .. Len(l) : l[i] \in Blocks
    BY <1>1, <1>2, <1>3
  <2>2. /\ t \in Seq(Blocks)
        /\ Len(t) = IF p + 1 <= Len(l) THEN Len(l) - (p + 1) + 1 ELSE 0
        /\ \A i \in 1 .. Len(l) - (p + 1) + 1 : t[i] = l[(p + 1) + i - 1]
    <3>1. p + 1 \in Int /\ Len(l) \in Int
      BY <1>1, <1>2
    <3> QED BY <2>1, <3>1, SubSeqProperties
  <2> HIDE DEF t
  <2>3. \A i \in 1 .. Len(l) - p : (p + 1) + i - 1 = p + i
    BY <1>1, <1>2
  <2>4. Len(l) - (p + 1) + 1 = Len(l) - p
    BY <1>1, <1>2
  <2>5. Len(t) = Len(l) - p
    <3>1. CASE p + 1 <= Len(l)
      BY <3>1, <2>2, <2>4
    <3>2. CASE ~ (p + 1 <= Len(l))
      <4>1. Len(t) = 0
        BY <3>2, <2>2
      <4>2. p = Len(l)
        <5>1. p \in Int /\ Len(l) \in Int /\ p <= Len(l)
          BY <1>1, <1>2
        <5> QED BY <3>2, <5>1
      <4> QED BY <4>1, <4>2, <1>1
    <3> QED BY <3>1, <3>2
  <2>6. \A i \in 1 .. Len(l) - p : t[i] = l[p + i]
    BY <2>2, <2>3, <2>4
  <2> QED BY <2>2, <2>5, <2>6
<1>6. LRU!Erase(l, b) = s \o t
  BY DEF LRU!Erase, LRU!RemoveAt, p
<1> HIDE DEF s, t
<1>7. /\ s \o t \in Seq(Blocks)
      /\ Len(s \o t) = Len(l) - 1
      /\ \A i \in 1 .. Len(l) - 1 :
           (s \o t)[i] = IF i <= p - 1 THEN s[i] ELSE t[i - (p - 1)]
  <2>1. /\ s \o t \in Seq(Blocks) /\ Len(s \o t) = Len(s) + Len(t)
        /\ \A i \in 1 .. Len(s) + Len(t) :
             (s \o t)[i] = IF i <= Len(s) THEN s[i] ELSE t[i - Len(s)]
    BY <1>4, <1>5, ConcatProperties
  <2>2. Len(s) + Len(t) = Len(l) - 1
    BY <1>1, <1>2, <1>4, <1>5
  <2> QED BY <1>4, <2>1, <2>2
<1> QED
  <2> SUFFICES ASSUME NEW k \in 1 .. Len(l) - 1
               PROVE  (s \o t)[k] = IF k < p THEN l[k] ELSE l[k + 1]
    BY <1>2, <1>6, <1>7 DEF p
  <2>1. CASE k < p
    BY <2>1, <1>1, <1>2, <1>4, <1>7
  <2>2. CASE ~ (k < p)
    BY <2>2, <1>1, <1>2, <1>5, <1>7
  <2> QED BY <2>1, <2>2

(* Erasing a block from a list without repetition removes just that block.  *)
LEMMA EraseList ==
  ASSUME NEW l \in BlockLists, NEW b \in Elements(l)
  PROVE  /\ LRU!Erase(l, b) \in BlockLists
         /\ Elements(LRU!Erase(l, b)) = Elements(l) \ {b}
         /\ Len(LRU!Erase(l, b)) = Len(l) - 1
<1> DEFINE p == LRU!Place(l, b)
           r == LRU!Erase(l, b)
<1>1. /\ l \in Seq(Blocks) /\ DOMAIN l = 1 .. Len(l) /\ Len(l) \in Nat
      /\ \A i, k \in 1 .. Len(l) : l[i] = l[k] => i = k
  BY LenProperties DEF BlockLists, Distinct
<1>2. /\ p \in 1 .. Len(l) /\ l[p] = b
      /\ r \in Seq(Blocks) /\ Len(r) = Len(l) - 1
      /\ \A k \in 1 .. Len(l) - 1 : r[k] = IF k < p THEN l[k] ELSE l[k + 1]
  BY ErasePlaces
<1>3. DOMAIN r = 1 .. Len(l) - 1
  BY <1>2, LenProperties
<1> HIDE DEF p, r
<1>4. Distinct(r)
  BY <1>1, <1>2, <1>3 DEF Distinct
<1>5. Elements(r) \subseteq Elements(l) \ {b}
  <2> SUFFICES ASSUME NEW k \in 1 .. Len(l) - 1
               PROVE  r[k] \in Elements(l) /\ r[k] # b
    BY <1>3 DEF Elements
  <2>1. PICK i \in 1 .. Len(l) : i # p /\ r[k] = l[i]
    BY <1>1, <1>2
  <2> QED BY <2>1, <1>1, <1>2 DEF Elements
<1>6. Elements(l) \ {b} \subseteq Elements(r)
  <2> SUFFICES ASSUME NEW i \in 1 .. Len(l), l[i] # b
               PROVE  \E k \in 1 .. Len(l) - 1 : r[k] = l[i]
    BY <1>1, <1>3 DEF Elements
  <2>1. CASE i < p
    BY <2>1, <1>1, <1>2
  <2>2. CASE i > p
    <3>1. i - 1 \in 1 .. Len(l) - 1 /\ ~ (i - 1 < p) /\ (i - 1) + 1 = i
      BY <2>2, <1>1, <1>2
    <3> QED BY <3>1, <1>2
  <2> QED BY <2>1, <2>2, <1>1, <1>2
<1> QED BY <1>2, <1>4, <1>5, <1>6 DEF BlockLists, r

(* Putting a new block in front.                                            *)
LEMMA PushFront ==
  ASSUME NEW l \in BlockLists, NEW b \in Blocks, b \notin Elements(l)
  PROVE  /\ <<b>> \o l \in BlockLists
         /\ Elements(<<b>> \o l) = {b} \cup Elements(l)
         /\ Len(<<b>> \o l) = Len(l) + 1
         /\ (<<b>> \o l)[1] = b
         /\ \A i \in 1 .. Len(l) : (<<b>> \o l)[i + 1] = l[i]
<1> DEFINE r == <<b>> \o l
<1>1. /\ l \in Seq(Blocks) /\ DOMAIN l = 1 .. Len(l) /\ Len(l) \in Nat
      /\ \A i, k \in 1 .. Len(l) : l[i] = l[k] => i = k
  BY LenProperties DEF BlockLists, Distinct
<1>2. <<b>> \in Seq(Blocks) /\ Len(<<b>>) = 1 /\ <<b>>[1] = b
  OBVIOUS
<1>3. /\ r \in Seq(Blocks) /\ Len(r) = Len(l) + 1
      /\ \A i \in 1 .. Len(l) + 1 : r[i] = IF i = 1 THEN b ELSE l[i - 1]
  <2>1. /\ r \in Seq(Blocks) /\ Len(r) = 1 + Len(l)
        /\ \A i \in 1 .. 1 + Len(l) :
             r[i] = IF i <= 1 THEN <<b>>[i] ELSE l[i - 1]
    BY <1>1, <1>2, ConcatProperties
  <2> HIDE DEF r
  <2> QED BY <1>1, <1>2, <2>1
<1>4. DOMAIN r = 1 .. Len(l) + 1
  BY <1>3, LenProperties
<1> HIDE DEF r
<1>5. \A i \in 1 .. Len(l) : l[i] # b
  BY <1>1 DEF Elements
<1>6. Distinct(r)
  <2> SUFFICES ASSUME NEW i \in 1 .. Len(l) + 1, NEW k \in 1 .. Len(l) + 1,
                      r[i] = r[k]
               PROVE  i = k
    BY <1>4 DEF Distinct
  <2>1. CASE i = 1 \/ k = 1
    BY <2>1, <1>1, <1>3, <1>5
  <2>2. CASE i # 1 /\ k # 1
    <3>1. i - 1 \in 1 .. Len(l) /\ k - 1 \in 1 .. Len(l)
      BY <2>2, <1>1
    <3> QED BY <2>2, <3>1, <1>1, <1>3
  <2> QED BY <2>1, <2>2
<1>7. r[1] = b /\ \A i \in 1 .. Len(l) : r[i + 1] = l[i]
  BY <1>1, <1>3
<1>8. Elements(r) = {b} \cup Elements(l)
  <2>1. Elements(r) \subseteq {b} \cup Elements(l)
    BY <1>1, <1>3, <1>4 DEF Elements
  <2>2. {b} \cup Elements(l) \subseteq Elements(r)
    BY <1>1, <1>4, <1>7 DEF Elements
  <2> QED BY <2>1, <2>2
<1> QED BY <1>3, <1>6, <1>7, <1>8 DEF BlockLists, r

(* Dropping the last block of a list that is not empty.                     *)
LEMMA DropLast ==
  ASSUME NEW l \in BlockLists, Len(l) > 0
  PROVE  /\ LRU!Front(l) \in BlockLists
         /\ Elements(LRU!Front(l)) = Elements(l) \ {LRU!Last(l)}
         /\ Len(LRU!Front(l)) = Len(l) - 1
         /\ LRU!Last(l) \in Elements(l)
         /\ \A i \in 1 .. Len(l) - 1 : LRU!Front(l)[i] = l[i]
<1> DEFINE r == LRU!Front(l)
<1>1. /\ l \in Seq(Blocks) /\ DOMAIN l = 1 .. Len(l) /\ Len(l) \in Nat
      /\ \A i, k \in 1 .. Len(l) : l[i] = l[k] => i = k
  BY LenProperties DEF BlockLists, Distinct
<1>2. \A i \in 1 .. Len(l) - 1 : l[i] \in Blocks
  BY <1>1, ElementOfSeq
<1>3. /\ r \in Seq(Blocks) /\ Len(r) = Len(l) - 1
      /\ \A i \in 1 .. Len(l) - 1 : r[i] = l[i]
  BY <1>1, <1>2, SubSeqProperties DEF LRU!Front
<1>4. DOMAIN r = 1 .. Len(l) - 1
  BY <1>3, LenProperties
<1>5. LRU!Last(l) = l[Len(l)]
  BY DEF LRU!Last
<1> HIDE DEF r
<1>6. Distinct(r)
  BY <1>1, <1>3, <1>4 DEF Distinct
<1>7. Elements(r) = Elements(l) \ {l[Len(l)]}
  BY <1>1, <1>3, <1>4 DEF Elements
<1>8. l[Len(l)] \in Elements(l)
  BY <1>1 DEF Elements
<1> QED BY <1>3, <1>5, <1>6, <1>7, <1>8 DEF BlockLists, r

(* Every element of list l is at most one place further back in list r.     *)
Behind(l, r, i) == \E k \in 1 .. i + 1 : k \in 1 .. Len(r) /\ r[k] = l[i]

(* Moving a block to the front reorders the list, and moves no other block  *)
(* back by more than one place.                                             *)
LEMMA SpliceList ==
  ASSUME NEW l \in BlockLists, NEW b \in Elements(l)
  PROVE  /\ LRU!Splice(l, b) \in BlockLists
         /\ Elements(LRU!Splice(l, b)) = Elements(l)
         /\ Len(LRU!Splice(l, b)) = Len(l)
         /\ \A i \in 1 .. Len(l) : Behind(l, LRU!Splice(l, b), i)
<1> DEFINE p == LRU!Place(l, b)
           e == LRU!Erase(l, b)
           r == LRU!Splice(l, b)
<1>1. l \in Seq(Blocks) /\ DOMAIN l = 1 .. Len(l) /\ Len(l) \in Nat
  BY LenProperties DEF BlockLists
<1>2. b \in Blocks
  BY <1>1, ElementOfSeq DEF Elements
<1>3. /\ e \in BlockLists /\ Elements(e) = Elements(l) \ {b}
      /\ Len(e) = Len(l) - 1
  BY EraseList
<1>4. /\ p \in 1 .. Len(l) /\ l[p] = b
      /\ \A k \in 1 .. Len(l) - 1 : e[k] = IF k < p THEN l[k] ELSE l[k + 1]
  BY ErasePlaces
<1>5. r = <<b>> \o e
  BY DEF LRU!Splice
<1> HIDE DEF p, e, r
<1>6. /\ r \in BlockLists /\ Elements(r) = {b} \cup Elements(e)
      /\ Len(r) = Len(e) + 1 /\ r[1] = b
      /\ \A i \in 1 .. Len(e) : r[i + 1] = e[i]
  BY <1>2, <1>3, <1>5, PushFront
<1>7. Elements(r) = Elements(l) /\ Len(r) = Len(l)
  BY <1>1, <1>3, <1>6
<1>8. ASSUME NEW i \in 1 .. Len(l) PROVE Behind(l, r, i)
  <2>1. CASE i = p
    BY <2>1, <1>1, <1>4, <1>6, <1>7 DEF Behind
  <2>2. CASE i < p
    <3>1. i \in 1 .. Len(l) - 1 /\ i + 1 \in 1 .. Len(r)
      BY <2>2, <1>1, <1>4, <1>7
    <3>2. r[i + 1] = l[i]
      BY <3>1, <2>2, <1>3, <1>4, <1>6
    <3> QED BY <3>1, <3>2 DEF Behind
  <2>3. CASE i > p
    <3>1. /\ i - 1 \in 1 .. Len(l) - 1 /\ i \in 1 .. Len(r) /\ ~ (i - 1 < p)
          /\ (i - 1) + 1 = i /\ i \in 1 .. i + 1
      BY <2>3, <1>1, <1>4, <1>7
    <3>2. r[i] = l[i]
      BY <3>1, <1>3, <1>4, <1>6
    <3> QED BY <3>1, <3>2 DEF Behind
  <2> QED BY <2>1, <2>2, <2>3, <1>1, <1>4
<1> QED BY <1>6, <1>7, <1>8 DEF r

-----------------------------------------------------------------------------
(* The operations of the cache.                                            *)

(* The shape of a cache: what CacheWellFormed says, and types.              *)
Shaped(c) ==
  /\ c = [list |-> c.list, map |-> c.map]
  /\ c.list \in BlockLists
  /\ Len(c.list) <= CAPACITY
  /\ Elements(c.list) = LRU!Cached(c)
  /\ c.map \in [LRU!Cached(c) -> Entries]

LEMMA ShapedFacts ==
  ASSUME NEW c, Shaped(c)
  PROVE  /\ c.list \in Seq(Blocks) /\ Len(c.list) \in Nat
         /\ DOMAIN c.list = 1 .. Len(c.list)
         /\ LRU!Cached(c) \subseteq Blocks
<1>1. c.list \in Seq(Blocks)
  BY DEF Shaped, BlockLists
<1>2. Len(c.list) \in Nat /\ DOMAIN c.list = 1 .. Len(c.list)
  BY <1>1, LenProperties
<1>3. LRU!Cached(c) \subseteq Blocks
  BY <1>1, <1>2, ElementOfSeq DEF Shaped, Elements
<1> QED BY <1>1, <1>2, <1>3

LEMMA EmptyShape == Shaped(LRU!EmptyCache) /\ LRU!Cached(LRU!EmptyCache) = {}
<1> DEFINE c == LRU!EmptyCache
<1>1. c.list = <<>> /\ c.map = [b \in {} |-> 0] /\ LRU!Cached(c) = {}
  BY DEF LRU!EmptyCache, LRU!Cached
<1>2. c = [list |-> c.list, map |-> c.map]
  BY DEF LRU!EmptyCache
<1> HIDE DEF c
<1>3. <<>> \in Seq(Blocks) /\ Len(<<>>) = 0 /\ DOMAIN <<>> = {}
  BY EmptySeq
<1>4. <<>> \in BlockLists /\ Elements(<<>>) = {}
  BY <1>3 DEF BlockLists, Distinct, Elements
<1>5. c.map \in [{} -> Entries]
  BY <1>1
<1> QED BY <1>1, <1>2, <1>3, <1>4, <1>5, DiskAssumption DEF Shaped, c

(* A hit changes the order only.                                            *)
LEMMA GetShape ==
  ASSUME NEW c, Shaped(c), NEW b \in LRU!Cached(c)
  PROVE  /\ Shaped(LRU!Get(c, b))
         /\ LRU!Get(c, b).map = c.map
         /\ LRU!Cached(LRU!Get(c, b)) = LRU!Cached(c)
         /\ \A i \in 1 .. Len(c.list) : Behind(c.list, LRU!Get(c, b).list, i)
<1> DEFINE g == LRU!Get(c, b)
<1>1. g = [list |-> LRU!Splice(c.list, b), map |-> c.map]
  BY DEF Shaped, LRU!Get
<1>2. g.list = LRU!Splice(c.list, b) /\ g.map = c.map
      /\ g = [list |-> g.list, map |-> g.map]
  BY <1>1
<1> HIDE DEF g
<1>3. LRU!Cached(g) = LRU!Cached(c)
  BY <1>2 DEF LRU!Cached
<1>4. c.list \in BlockLists /\ b \in Elements(c.list)
  BY DEF Shaped
<1>5. /\ g.list \in BlockLists /\ Elements(g.list) = Elements(c.list)
      /\ Len(g.list) = Len(c.list)
      /\ \A i \in 1 .. Len(c.list) : Behind(c.list, g.list, i)
  BY <1>2, <1>4, SpliceList
<1> QED BY <1>2, <1>3, <1>5 DEF Shaped, g

(* Making room drops at most the last block of a full list.                 *)
LEMMA MakeRoomShape ==
  ASSUME NEW c, Shaped(c)
  PROVE  LET r == LRU!MakeRoom(c)
         IN  /\ Shaped(r) /\ Len(r.list) < CAPACITY
             /\ LRU!Cached(r) \subseteq LRU!Cached(c)
             /\ \A x \in LRU!Cached(r) : r.map[x] = c.map[x]
             /\ \A i \in 1 .. Len(c.list) :
                  \/ (i \in 1 .. Len(r.list) /\ r.list[i] = c.list[i])
                  \/ i = CAPACITY
<1> DEFINE r == LRU!MakeRoom(c)
           l == c.list
<1>0. Len(l) \in Nat /\ CAPACITY \in Nat \ {0} /\ Len(l) <= CAPACITY
  BY ShapedFacts, DiskAssumption DEF Shaped
<1>1. CASE Len(l) >= CAPACITY
  <2>1. r = [list |-> LRU!Front(l),
             map  |-> [x \in LRU!Cached(c) \ {LRU!Last(l)} |-> c.map[x]]]
    BY <1>1 DEF LRU!MakeRoom, LRU!Evict
  <2>2. /\ r = [list |-> r.list, map |-> r.map]
        /\ r.list = LRU!Front(l)
        /\ r.map = [x \in LRU!Cached(c) \ {LRU!Last(l)} |-> c.map[x]]
    BY <2>1
  <2> HIDE DEF r
  <2>3. LRU!Cached(r) = LRU!Cached(c) \ {LRU!Last(l)}
    BY <2>2 DEF LRU!Cached
  <2>4. l \in BlockLists /\ Len(l) > 0
    BY <1>0, <1>1 DEF Shaped
  <2>5. /\ r.list \in BlockLists
        /\ Elements(r.list) = Elements(l) \ {LRU!Last(l)}
        /\ Len(r.list) = Len(l) - 1
        /\ \A i \in 1 .. Len(l) - 1 : r.list[i] = l[i]
    BY <2>2, <2>4, DropLast
  <2>6. r.map \in [LRU!Cached(r) -> Entries]
    BY <2>2, <2>3 DEF Shaped
  <2>7. Len(r.list) < CAPACITY
    BY <2>5, <1>0
  <2>8. Shaped(r)
    BY <2>2, <2>3, <2>5, <2>6, <2>7, <1>0 DEF Shaped
  <2>9. \A i \in 1 .. Len(l) : \/ (i \in 1 .. Len(r.list) /\ r.list[i] = l[i])
                                \/ i = CAPACITY
    BY <2>5, <1>0, <1>1
  <2> QED BY <2>2, <2>3, <2>7, <2>8, <2>9 DEF r
<1>2. CASE ~ (Len(l) >= CAPACITY)
  <2>1. r = c
    BY <1>2 DEF LRU!MakeRoom
  <2> QED BY <2>1, <1>0, <1>2
<1> QED BY <1>1, <1>2

(* After put, block b is cached with the data given, first in the list; the *)
(* other blocks keep their entries unless the last one had to go.           *)
LEMMA PutShape ==
  ASSUME NEW c, Shaped(c), NEW b \in Blocks, NEW e \in Entries
  PROVE  LET q == LRU!Put(c, b, e)
         IN  /\ Shaped(q)
             /\ b \in LRU!Cached(q) /\ q.map[b] = e
             /\ LRU!Cached(q) \subseteq LRU!Cached(c) \cup {b}
             /\ \A x \in LRU!Cached(q) \ {b} : q.map[x] = c.map[x]
             /\ \A i \in 1 .. Len(c.list) :
                  Behind(c.list, q.list, i) \/ i = CAPACITY
<1> DEFINE q == LRU!Put(c, b, e)
           l == c.list
           r == LRU!MakeRoom(c)
<1>1. CASE b \in LRU!Cached(c)
  <2>1. q = [list |-> LRU!Splice(l, b),
             map  |-> [c.map EXCEPT ![b] = e]]
    BY <1>1 DEF LRU!Put
  <2>2. /\ q = [list |-> q.list, map |-> q.map]
        /\ q.list = LRU!Splice(l, b)
        /\ q.map = [c.map EXCEPT ![b] = e]
    BY <2>1
  <2> HIDE DEF q
  <2>3. LRU!Cached(q) = LRU!Cached(c)
    BY <2>2 DEF LRU!Cached
  <2>4. l \in BlockLists /\ b \in Elements(l)
    BY <1>1 DEF Shaped
  <2>5. /\ q.list \in BlockLists /\ Elements(q.list) = Elements(l)
        /\ Len(q.list) = Len(l)
        /\ \A i \in 1 .. Len(l) : Behind(l, q.list, i)
    BY <2>2, <2>4, SpliceList
  <2>6. /\ q.map \in [LRU!Cached(q) -> Entries]
        /\ q.map[b] = e
        /\ \A x \in LRU!Cached(q) \ {b} : q.map[x] = c.map[x]
    BY <2>2, <2>3, <1>1 DEF Shaped
  <2>7. Shaped(q)
    BY <2>2, <2>3, <2>5, <2>6 DEF Shaped
  <2> QED BY <2>3, <2>5, <2>6, <2>7, <1>1 DEF q
<1>2. CASE b \notin LRU!Cached(c)
  <2>1. q = [list |-> <<b>> \o r.list,
             map  |-> [x \in LRU!Cached(r) \cup {b} |->
                         IF x = b THEN e ELSE r.map[x]]]
    BY <1>2 DEF LRU!Put
  <2>2. /\ q = [list |-> q.list, map |-> q.map]
        /\ q.list = <<b>> \o r.list
        /\ q.map = [x \in LRU!Cached(r) \cup {b} |->
                      IF x = b THEN e ELSE r.map[x]]
    BY <2>1
  <2>3. /\ Shaped(r) /\ Len(r.list) < CAPACITY
        /\ LRU!Cached(r) \subseteq LRU!Cached(c)
        /\ \A x \in LRU!Cached(r) : r.map[x] = c.map[x]
        /\ \A i \in 1 .. Len(l) : \/ (i \in 1 .. Len(r.list) /\ r.list[i] = l[i])
                                   \/ i = CAPACITY
    BY MakeRoomShape
  <2> HIDE DEF q, r
  <2>4. LRU!Cached(q) = LRU!Cached(r) \cup {b}
    BY <2>2 DEF LRU!Cached
  <2>5. r.list \in BlockLists /\ b \notin Elements(r.list) /\ Len(r.list) \in Nat
    BY <2>3, <1>2, ShapedFacts DEF Shaped
  <2>6. /\ q.list \in BlockLists /\ Elements(q.list) = {b} \cup Elements(r.list)
        /\ Len(q.list) = Len(r.list) + 1
        /\ \A i \in 1 .. Len(r.list) : q.list[i + 1] = r.list[i]
    BY <2>2, <2>5, PushFront
  <2>7. Len(q.list) <= CAPACITY
    BY <2>3, <2>5, <2>6, DiskAssumption
  <2>8. /\ q.map \in [LRU!Cached(q) -> Entries]
        /\ q.map[b] = e
        /\ \A x \in LRU!Cached(q) \ {b} : q.map[x] = c.map[x]
    BY <2>2, <2>3, <2>4 DEF Shaped
  <2>9. Shaped(q)
    BY <2>2, <2>3, <2>4, <2>6, <2>7, <2>8 DEF Shaped
  <2>10. ASSUME NEW i \in 1 .. Len(l), i # CAPACITY PROVE Behind(l, q.list, i)
    <3>1. i \in 1 .. Len(r.list) /\ r.list[i] = l[i]
      BY <2>3, <2>10
    <3>2. i + 1 \in 1 .. Len(q.list) /\ q.list[i + 1] = l[i] /\ i + 1 \in 1 .. i + 1
      BY <3>1, <2>5, <2>6
    <3> QED BY <3>2 DEF Behind
  <2> QED BY <2>3, <2>4, <2>8, <2>9, <2>10 DEF q
<1> QED BY <1>1, <1>2

(* Invalidating a block takes it out; every other block keeps its entry and *)
(* moves up or stays.                                                       *)
LEMMA InvalidateShape ==
  ASSUME NEW c, Shaped(c), NEW b \in LRU!Cached(c)
  PROVE  LET q == LRU!Invalidate(c, b)
         IN  /\ Shaped(q)
             /\ LRU!Cached(q) = LRU!Cached(c) \ {b}
             /\ \A x \in LRU!Cached(q) : q.map[x] = c.map[x]
             /\ \A i \in 1 .. Len(c.list) : c.list[i] # b =>
                  \E k \in 1 .. i : k \in 1 .. Len(q.list) /\ q.list[k] = c.list[i]
<1> DEFINE q == LRU!Invalidate(c, b)
           l == c.list
           p == LRU!Place(l, b)
<1>1. q = [list |-> LRU!Erase(l, b),
           map  |-> [x \in LRU!Cached(c) \ {b} |-> c.map[x]]]
  BY DEF LRU!Invalidate
<1>2. /\ q = [list |-> q.list, map |-> q.map]
      /\ q.list = LRU!Erase(l, b)
      /\ q.map = [x \in LRU!Cached(c) \ {b} |-> c.map[x]]
  BY <1>1
<1> HIDE DEF q
<1>3. LRU!Cached(q) = LRU!Cached(c) \ {b}
  BY <1>2 DEF LRU!Cached
<1>4. l \in BlockLists /\ b \in Elements(l) /\ Len(l) \in Nat /\ Len(l) <= CAPACITY
  BY ShapedFacts DEF Shaped
<1>5. /\ q.list \in BlockLists /\ Elements(q.list) = Elements(l) \ {b}
      /\ Len(q.list) = Len(l) - 1
  BY <1>2, <1>4, EraseList
<1>6. /\ p \in 1 .. Len(l) /\ l[p] = b
      /\ \A k \in 1 .. Len(l) - 1 : q.list[k] = IF k < p THEN l[k] ELSE l[k + 1]
  BY <1>2, <1>4, ErasePlaces
<1> HIDE DEF p
<1>7. Shaped(q)
  <2>1. q.map \in [LRU!Cached(q) -> Entries]
    BY <1>2, <1>3 DEF Shaped
  <2>2. Elements(q.list) = LRU!Cached(q)
    BY <1>3, <1>5 DEF Shaped
  <2>3. Len(q.list) <= CAPACITY
    BY <1>4, <1>5, DiskAssumption
  <2> QED BY <2>1, <2>2, <2>3, <1>2, <1>5 DEF Shaped
<1>8. ASSUME NEW i \in 1 .. Len(l), l[i] # b
      PROVE  \E k \in 1 .. i : k \in 1 .. Len(q.list) /\ q.list[k] = l[i]
  <2>1. CASE i < p
    BY <2>1, <1>4, <1>5, <1>6
  <2>2. CASE i > p
    <3>1. /\ i - 1 \in 1 .. Len(l) - 1 /\ i - 1 \in 1 .. i /\ ~ (i - 1 < p)
          /\ (i - 1) + 1 = i
      BY <2>2, <1>4, <1>6
    <3>2. q.list[i - 1] = l[i]
      BY <3>1, <1>6
    <3> QED BY <3>1, <3>2, <1>5
  <2> QED BY <2>1, <2>2, <1>4, <1>6, <1>8
<1> QED BY <1>2, <1>3, <1>7, <1>8 DEF q

-----------------------------------------------------------------------------
(* The invariant.  Coherent alone is not inductive: a miss and a write put  *)
(* blocks into the cache, and what they displace is known only from its     *)
(* shape; the shape needs the types.                                        *)

DiskTypes == /\ exists \in BOOLEAN /\ open \in BOOLEAN /\ failed \in BOOLEAN
             /\ size \in 0 .. TOTAL_BLOCKS
             /\ file \in [Blocks -> Values]
IInv == DiskTypes /\ Shaped(cache) /\ Coherent

LEMMA IInvImplies == IInv => TypeOK /\ CacheWellFormed /\ Coherent
<1> SUFFICES ASSUME IInv PROVE TypeOK /\ CacheWellFormed /\ Coherent
  OBVIOUS
<1>1. Shaped(cache) /\ LRU!Cached(cache) \subseteq Blocks
  BY ShapedFacts DEF IInv
<1>2. TypeOK
  BY <1>1 DEF IInv, DiskTypes, TypeOK, Shaped, Entries
<1>3. CacheWellFormed
  BY <1>1 DEF Shaped, BlockLists, Distinct, Elements, CacheWellFormed, LRU!WellFormed
<1> QED BY <1>2, <1>3 DEF IInv

LEMMA IInvInit == Init => IInv
<1> SUFFICES ASSUME Init PROVE IInv
  OBVIOUS
<1>1. DiskTypes
  <2>1. 0 \in 0 .. TOTAL_BLOCKS /\ [b \in Blocks |-> Zero] \in [Blocks -> Values]
    BY DiskAssumption
  <2> QED BY <2>1 DEF Init, DiskTypes
<1>2. Shaped(cache) /\ LRU!Cached(cache) = {}
  BY EmptyShape DEF Init
<1> QED BY <1>1, <1>2 DEF IInv, Coherent, LRU!DirtyIn

(* An empty cache is coherent with any file.                                *)
LEMMA EmptyCoherent ==
  ASSUME DiskTypes', cache' = LRU!EmptyCache
  PROVE  IInv'
<1>1. Shaped(cache') /\ LRU!Cached(cache') = {}
  BY EmptyShape
<1> QED BY <1>1 DEF IInv, Coherent, LRU!DirtyIn

LEMMA OpenCloseKeep ==
  ASSUME IInv, Open \/ CreationCut \/ Close \/ Kill
  PROVE  IInv'
<1>0. TOTAL_BLOCKS \in Nat
  BY DiskAssumption
<1>1. CASE Open
  <2>1. DiskTypes'
    BY <1>0, <1>1 DEF Open, IInv, DiskTypes
  <2> QED BY <1>1, <2>1, EmptyCoherent DEF Open
<1>2. CASE CreationCut
  <2>1. DiskTypes'
    BY <1>0, <1>2 DEF CreationCut, IInv, DiskTypes
  <2> QED BY <1>2, <2>1 DEF CreationCut, IInv, Coherent, Shaped, LRU!Cached, LRU!DirtyIn
<1>3. CASE Close
  <2>1. Flushed = file
    BY DEF Flushed, IInv, Coherent, DiskTypes
  <2>2. DiskTypes'
    BY <1>3, <2>1 DEF Close, Gone, IInv, DiskTypes
  <2> QED BY <1>3, <2>2, EmptyCoherent DEF Close, Gone
<1>4. CASE Kill
  <2>1. DiskTypes'
    BY <1>4 DEF Kill, Gone, fileVars, IInv, DiskTypes
  <2> QED BY <1>4, <2>1, EmptyCoherent DEF Kill, Gone
<1> QED BY <1>1, <1>2, <1>3, <1>4

LEMMA ReadKeeps ==
  ASSUME IInv, NEW b \in Blocks, ReadHit(b) \/ ReadMiss(b) \/ ReadFails(b)
  PROVE  IInv'
<1>1. CASE ReadHit(b)
  <2>1. /\ Shaped(cache') /\ cache'.map = cache.map
        /\ LRU!Cached(cache') = LRU!Cached(cache)
    BY <1>1, GetShape DEF ReadHit, IInv
  <2>2. DiskTypes'
    BY <1>1 DEF ReadHit, fileVars, IInv, DiskTypes
  <2>3. Coherent'
    BY <1>1, <2>1 DEF ReadHit, fileVars, IInv, Coherent, LRU!DirtyIn
  <2> QED BY <2>1, <2>2, <2>3 DEF IInv
<1>2. CASE ReadMiss(b)
  <2>1. LRU!Clean(file[b]) \in Entries
    BY DEF IInv, DiskTypes, LRU!Clean, Entries
  <2>2. /\ Shaped(cache')
        /\ b \in LRU!Cached(cache') /\ cache'.map[b] = LRU!Clean(file[b])
        /\ LRU!Cached(cache') \subseteq LRU!Cached(cache) \cup {b}
        /\ \A x \in LRU!Cached(cache') \ {b} : cache'.map[x] = cache.map[x]
    BY <1>2, <2>1, PutShape DEF ReadMiss, IInv
  <2>3. DiskTypes'
    BY <1>2 DEF ReadMiss, fileVars, IInv, DiskTypes
  <2>4. Coherent'
    <3>1. file' = file /\ failed' = failed /\ ~ failed
      BY <1>2 DEF ReadMiss, fileVars
    <3>2. \A x \in LRU!Cached(cache) : ~ cache.map[x].dirty /\ cache.map[x].data = file[x]
      BY <3>1 DEF IInv, Coherent, LRU!DirtyIn
    <3>3. ~ cache'.map[b].dirty /\ cache'.map[b].data = file[b]
      BY <2>2 DEF LRU!Clean
    <3>4. \A x \in LRU!Cached(cache') :
            ~ cache'.map[x].dirty /\ cache'.map[x].data = file[x]
      BY <2>2, <3>2, <3>3
    <3> QED BY <3>1, <3>4 DEF Coherent, LRU!DirtyIn
  <2> QED BY <2>2, <2>3, <2>4 DEF IInv
<1>3. CASE ReadFails(b)
  <2>1. DiskTypes'
    BY <1>3 DEF ReadFails, fileVars, IInv, DiskTypes
  <2>2. Shaped(cache') /\ Coherent'
    BY <1>3 DEF ReadFails, fileVars, IInv, Coherent
  <2> QED BY <2>1, <2>2 DEF IInv
<1> QED BY <1>1, <1>2, <1>3

(* Storing a block in the file, which may grow by it.                       *)
LEMMA StoreTypes ==
  ASSUME DiskTypes, NEW b \in Blocks, NEW v \in Values, Store(b, v)
  PROVE  /\ size' \in 0 .. TOTAL_BLOCKS
         /\ file' \in [Blocks -> Values]
         /\ file'[b] = v /\ \A x \in Blocks \ {b} : file'[x] = file[x]
BY DiskAssumption DEF DiskTypes, Store, AtLeast, Blocks

LEMMA WriteKeeps ==
  ASSUME IInv, NEW b \in Blocks, NEW v \in Values,
         Write(b, v) \/ WriteAndDrop(b, v)
  PROVE  IInv'
<1> DEFINE q == LRU!Put(cache, b, LRU!Clean(v))
<1>1. Store(b, v) /\ ~ failed /\ UNCHANGED <<exists, open, failed>>
  BY DEF Write, WriteAndDrop
<1>2. /\ size' \in 0 .. TOTAL_BLOCKS /\ file' \in [Blocks -> Values]
      /\ file'[b] = v /\ \A x \in Blocks \ {b} : file'[x] = file[x]
  BY <1>1, StoreTypes DEF IInv
<1>3. DiskTypes'
  BY <1>1, <1>2 DEF IInv, DiskTypes
<1>4. /\ Shaped(q)
      /\ b \in LRU!Cached(q) /\ q.map[b] = LRU!Clean(v)
      /\ LRU!Cached(q) \subseteq LRU!Cached(cache) \cup {b}
      /\ \A x \in LRU!Cached(q) \ {b} : q.map[x] = cache.map[x]
  <2>1. LRU!Clean(v) \in Entries
    BY DEF LRU!Clean, Entries
  <2> QED BY <2>1, PutShape DEF IInv
<1>5. LRU!Cached(cache) \subseteq Blocks
  BY ShapedFacts DEF IInv
<1> HIDE DEF q
<1>6. /\ Shaped(cache')
      /\ LRU!Cached(cache') \subseteq LRU!Cached(q)
      /\ \A x \in LRU!Cached(cache') : cache'.map[x] = q.map[x]
  <2>1. CASE Write(b, v)
    <3>1. cache' = q
      BY <2>1 DEF Write, q
    <3> QED BY <3>1, <1>4
  <2>2. CASE WriteAndDrop(b, v)
    <3>1. cache' = LRU!Invalidate(q, b)
      BY <2>2 DEF WriteAndDrop, q
    <3> QED BY <3>1, <1>4, InvalidateShape
  <2> QED BY <2>1, <2>2
<1>7. \A x \in LRU!Cached(q) : q.map[x].data = file'[x] /\ q.map[x].dirty = FALSE
  BY <1>1, <1>2, <1>4, <1>5 DEF IInv, Coherent, LRU!DirtyIn, LRU!Clean, Shaped, Entries
<1>8. Coherent'
  BY <1>6, <1>7 DEF Coherent, LRU!DirtyIn
<1> QED BY <1>3, <1>6, <1>8 DEF IInv

LEMMA WriteFailsKeeps ==
  ASSUME IInv, NEW b \in Blocks, NEW v \in Values, WriteFails(b, v)
  PROVE  IInv'
<1>1. size' \in 0 .. TOTAL_BLOCKS /\ file' \in [Blocks -> Values]
  <2>1. CASE UNCHANGED <<file, size>>
    BY <2>1 DEF IInv, DiskTypes
  <2>2. CASE Store(b, v)
    BY <2>2, StoreTypes DEF IInv
  <2>3. CASE file' = [file EXCEPT ![b] = Torn] /\ size' = AtLeast(b)
    BY <2>3, DiskAssumption DEF IInv, DiskTypes, AtLeast, Blocks
  <2> QED BY <2>1, <2>2, <2>3 DEF WriteFails
<1>2. DiskTypes'
  BY <1>1 DEF WriteFails, IInv, DiskTypes
<1>3. Shaped(cache') /\ Coherent'
  BY DEF WriteFails, IInv, Coherent
<1> QED BY <1>2, <1>3 DEF IInv

LEMMA IInvStep == IInv /\ [Next]_vars => IInv'
<1> SUFFICES ASSUME IInv, [Next]_vars PROVE IInv'
  OBVIOUS
<1>1. CASE Open \/ CreationCut \/ Close \/ Kill
  BY <1>1, OpenCloseKeep
<1>2. ASSUME NEW b \in Blocks, ReadHit(b) \/ ReadMiss(b) \/ ReadFails(b)
      PROVE  IInv'
  BY <1>2, ReadKeeps
<1>3. ASSUME NEW b \in Blocks, NEW v \in {Zero, Garbage}, WriteAndDrop(b, v)
      PROVE  IInv'
  <2>1. v \in Values
    BY DiskAssumption
  <2> QED BY <1>3, <2>1, WriteKeeps
<1>4. ASSUME NEW b \in Blocks, NEW v \in Values, Write(b, v) \/ WriteFails(b, v)
      PROVE  IInv'
  BY <1>4, WriteKeeps, WriteFailsKeeps
<1>5. CASE UNCHANGED vars
  BY <1>5 DEF vars, fileVars, IInv, DiskTypes, Coherent
<1> QED BY <1>1, <1>2, <1>3, <1>4, <1>5 DEF Next

-----------------------------------------------------------------------------
(* The invariant as a theorem of the specification.                         *)
LEMMA DiskInvariant == Spec => []IInv
BY IInvInit, IInvStep, PTL DEF Spec

(* Whatever calls are made and fail, the disk file stays within its blocks,  *)
(* and the cache holds blocks of the disk only, with an image for each.      *)
THEOREM DiskTypeOK == Spec => []TypeOK
<1>1. IInv => TypeOK
  BY IInvImplies
<1> QED BY <1>1, DiskInvariant, PTL

(* On every disk, at every capacity, the list and the map of the cache name *)
(* the same blocks, each once and no more than fit (lru_cache.h:34-99).     *)
THEOREM DiskCacheWellFormed == Spec => []CacheWellFormed
<1>1. IInv => CacheWellFormed
  BY IInvImplies
<1> QED BY <1>1, DiskInvariant, PTL

(* While no call has failed every cached block is what the file holds, and  *)
(* no entry ever waits to be written back.                                  *)
THEOREM DiskCoherent == Spec => []Coherent
<1>1. IInv => Coherent
  BY IInvImplies
<1> QED BY <1>1, DiskInvariant, PTL

-----------------------------------------------------------------------------
(* Recency.                                                                 *)

(* A write followed by an invalidation ages the other blocks by one place.  *)
LEMMA DropAges ==
  ASSUME IInv, NEW b \in Blocks, NEW v \in {Zero, Garbage}, WriteAndDrop(b, v),
         NEW i \in DOMAIN cache.list
  PROVE  Ages(cache.list[i], i)
<1> DEFINE l == cache.list
           q == LRU!Put(cache, b, LRU!Clean(v))
           z == cache'
<1>1. CASE l[i] = b
  BY <1>1 DEF Ages
<1>2. CASE l[i] # b
  <2>1. /\ Shaped(q) /\ b \in LRU!Cached(q)
        /\ \A k \in 1 .. Len(l) : Behind(l, q.list, k) \/ k = CAPACITY
    <3>1. LRU!Clean(v) \in Entries
      BY DiskAssumption DEF LRU!Clean, Entries
    <3> QED BY <3>1, PutShape DEF IInv
  <2>2. z = LRU!Invalidate(q, b)
    BY DEF WriteAndDrop
  <2> HIDE DEF q, z
  <2>3. /\ Shaped(z)
        /\ \A k \in 1 .. Len(q.list) : q.list[k] # b =>
             \E m \in 1 .. k : m \in 1 .. Len(z.list) /\ z.list[m] = q.list[k]
    BY <2>1, <2>2, InvalidateShape
  <2>4. i \in 1 .. Len(l) /\ i \in Nat /\ DOMAIN z.list = 1 .. Len(z.list)
    BY <2>3, ShapedFacts DEF IInv
  <2>5. CASE i = CAPACITY
    BY <2>5 DEF Ages
  <2>6. CASE i # CAPACITY
    <3>1. PICK k \in 1 .. i + 1 : k \in 1 .. Len(q.list) /\ q.list[k] = l[i]
      BY <2>1, <2>4, <2>6 DEF Behind
    <3>2. PICK m \in 1 .. k : m \in 1 .. Len(z.list) /\ z.list[m] = q.list[k]
      BY <3>1, <2>3, <1>2
    <3>3. m \in 1 .. i + 1 /\ m \in DOMAIN z.list /\ z.list[m] = l[i]
      BY <3>1, <3>2, <2>4
    <3> QED BY <3>3 DEF Ages, z
  <2> QED BY <2>5, <2>6
<1> QED BY <1>1, <1>2

(* A call that leaves the cache as it is, reads or writes ages no block by  *)
(* more than one place.                                                     *)
LEMMA OtherCallsAge ==
  ASSUME IInv, NEW i \in DOMAIN cache.list, Shaped(cache'),
         \A k \in 1 .. Len(cache.list) :
           Behind(cache.list, cache'.list, k) \/ k = CAPACITY
  PROVE  Ages(cache.list[i], i)
<1>1. i \in 1 .. Len(cache.list) /\ DOMAIN cache'.list = 1 .. Len(cache'.list)
  BY ShapedFacts DEF IInv
<1> QED BY <1>1 DEF Ages, Behind

LEMMA SameAge ==
  ASSUME IInv, NEW i \in DOMAIN cache.list, cache' = cache
  PROVE  Ages(cache.list[i], i)
<1>1. i \in 1 .. i + 1
  BY ShapedFacts DEF IInv
<1> QED BY <1>1 DEF Ages

(* No step of the disk moves a cached block back by more than one place, or *)
(* drops one that is neither last in a full list nor zeroed or corrupted.   *)
THEOREM DiskAges == Spec => AgesByOne
<1>1. IInv /\ [Next]_vars =>
        [open /\ open' => \A i \in DOMAIN cache.list : Ages(cache.list[i], i)]_vars
  <2> SUFFICES ASSUME IInv, Next, open, open', NEW i \in DOMAIN cache.list
               PROVE  Ages(cache.list[i], i)
    OBVIOUS
  <2>1. CASE Open \/ CreationCut \/ Close \/ Kill
    BY <2>1 DEF Open, CreationCut, Close, Kill, Gone
  <2>2. ASSUME NEW b \in Blocks, ReadHit(b) PROVE Ages(cache.list[i], i)
    <3>1. b \in LRU!Cached(cache) /\ cache' = LRU!Get(cache, b)
      BY <2>2 DEF ReadHit
    <3>2. /\ Shaped(cache')
          /\ \A k \in 1 .. Len(cache.list) : Behind(cache.list, cache'.list, k)
      BY <3>1, GetShape DEF IInv
    <3> QED BY <3>2, OtherCallsAge
  <2>3. ASSUME NEW b \in Blocks, NEW v \in Values,
               cache' = LRU!Put(cache, b, LRU!Clean(v))
        PROVE  Ages(cache.list[i], i)
    <3>1. LRU!Clean(v) \in Entries
      BY DEF LRU!Clean, Entries
    <3>2. /\ Shaped(cache')
          /\ \A k \in 1 .. Len(cache.list) :
               Behind(cache.list, cache'.list, k) \/ k = CAPACITY
      BY <2>3, <3>1, PutShape DEF IInv
    <3> QED BY <3>2, OtherCallsAge
  <2>4. ASSUME NEW b \in Blocks, ReadMiss(b) PROVE Ages(cache.list[i], i)
    <3>1. file[b] \in Values
      BY DEF IInv, DiskTypes
    <3> QED BY <2>3, <2>4, <3>1 DEF ReadMiss
  <2>5. ASSUME NEW b \in Blocks, NEW v \in Values, Write(b, v)
        PROVE  Ages(cache.list[i], i)
    BY <2>3, <2>5 DEF Write
  <2>6. ASSUME NEW b \in Blocks, NEW v \in {Zero, Garbage}, WriteAndDrop(b, v)
        PROVE  Ages(cache.list[i], i)
    BY <2>6, DropAges
  <2>7. ASSUME NEW b \in Blocks, ReadFails(b) PROVE Ages(cache.list[i], i)
    BY <2>7, SameAge DEF ReadFails
  <2>8. ASSUME NEW b \in Blocks, NEW v \in Values, WriteFails(b, v)
        PROVE  Ages(cache.list[i], i)
    BY <2>8, SameAge DEF WriteFails
  <2> QED BY <2>1, <2>2, <2>4, <2>5, <2>6, <2>7, <2>8 DEF Next
<1> QED BY <1>1, DiskInvariant, PTL DEF Spec, AgesByOne

-----------------------------------------------------------------------------
(* The cached disk implements the block device.                            *)

LEMMA ContentAt ==
  ASSUME NEW b \in Blocks
  PROVE  /\ Content[b] = {file[b]} \cup Copies(b)
         /\ file[b] \in Content[b]
BY DEF Content

(* While no call has failed there is nothing in doubt.                      *)
LEMMA ContentIsFile ==
  ASSUME IInv, ~ failed, NEW b \in Blocks
  PROVE  Content[b] = {file[b]}
BY DEF IInv, Coherent, Content, Copies

(* A step that keeps the file and only drops or adds copies of it.          *)
LEMMA SameContent ==
  ASSUME UNCHANGED file, \A b \in Blocks : Copies(b)' \subseteq Content[b],
         \A b \in Blocks : Copies(b) \subseteq Content'[b]
  PROVE  Content' = Content
<1>1. ASSUME NEW b \in Blocks PROVE Content'[b] = Content[b]
  BY DEF Content
<1> QED BY <1>1 DEF Content

(* Opening, closing and losing the disk leave what the file holds.          *)
LEMMA SettleStep ==
  ASSUME IInv, IInv', UNCHANGED file, LRU!Cached(cache') = {}, answer' = Done
  PROVE  Device!Settle
<1>1. Content' = [b \in Blocks |-> {file[b]}]
  BY DEF Content, Copies
<1>2. file \in [Blocks -> Values]
  BY DEF IInv, DiskTypes
<1>3. Content' \in [Blocks -> {{v} : v \in Values}]
  BY <1>1, <1>2
<1>4. \A b \in Blocks : Content'[b] \subseteq Content[b]
  BY <1>1, ContentAt
<1> QED BY <1>3, <1>4 DEF Device!Settle

LEMMA OpenCloseStep ==
  ASSUME IInv, IInv', Open \/ CreationCut \/ Close \/ Kill
  PROVE  Device!Settle \/ UNCHANGED <<Content, answer>>
<1>1. CASE CreationCut
  BY <1>1 DEF CreationCut, Content, Copies
<1>2. CASE Open \/ Close \/ Kill
  <2>1. Flushed = file
    BY DEF Flushed, IInv, Coherent, DiskTypes
  <2>2. UNCHANGED file /\ cache' = LRU!EmptyCache /\ answer' = Done
    BY <1>2, <2>1 DEF Open, Close, Kill, Gone, fileVars
  <2> QED BY <2>2, EmptyShape, SettleStep
<1> QED BY <1>1, <1>2

(* A read returns a value the block may have and changes none.              *)
LEMMA ReadStep ==
  ASSUME IInv, IInv', NEW b \in Blocks, ReadHit(b) \/ ReadMiss(b) \/ ReadFails(b)
  PROVE  Device!Read(b) \/ Device!Fail
<1>1. CASE ReadHit(b)
  <2>1. /\ cache'.map = cache.map /\ LRU!Cached(cache') = LRU!Cached(cache)
        /\ UNCHANGED file /\ b \in LRU!Cached(cache)
        /\ answer' = cache.map[b].data
    BY <1>1, GetShape DEF ReadHit, fileVars, IInv
  <2>2. Content' = Content
    BY <2>1 DEF Content, Copies
  <2>3. answer' \in Content[b]
    BY <2>1, ContentAt DEF Copies
  <2> QED BY <2>2, <2>3 DEF Device!Read
<1>2. CASE ReadMiss(b)
  <2>1. UNCHANGED <<file, failed>> /\ ~ failed /\ answer' = file[b]
    BY <1>2 DEF ReadMiss, fileVars
  <2>2. \A x \in Blocks : Content[x] = {file[x]}
    BY <2>1, ContentIsFile
  <2>3. \A x \in Blocks : Content'[x] = {file[x]}
    BY <2>1 DEF IInv, Coherent, Content, Copies
  <2>4. Content' = Content
    BY <2>2, <2>3 DEF Content
  <2> QED BY <2>1, <2>4, ContentAt DEF Device!Read
<1>3. CASE ReadFails(b)
  BY <1>3 DEF ReadFails, fileVars, Content, Copies, Device!Fail
<1> QED BY <1>1, <1>2, <1>3

(* A write that succeeds leaves the block with its value, in no doubt, and  *)
(* no other block different.                                                *)
LEMMA WriteStep ==
  ASSUME IInv, IInv', NEW b \in Blocks, NEW v \in Values,
         Write(b, v) \/ WriteAndDrop(b, v)
  PROVE  Device!Write(b, v)
<1>1. Store(b, v) /\ ~ failed /\ ~ failed' /\ answer' = Done
  BY DEF Write, WriteAndDrop
<1>2. file'[b] = v /\ \A x \in Blocks \ {b} : file'[x] = file[x]
  BY <1>1, StoreTypes DEF IInv
<1>3. \A x \in Blocks : Content[x] = {file[x]}
  BY <1>1, ContentIsFile
<1>4. \A x \in Blocks : Content'[x] = {file'[x]}
  BY <1>1 DEF IInv, Coherent, Content, Copies
<1>5. Content' = [Content EXCEPT ![b] = {v}]
  BY <1>2, <1>3, <1>4 DEF Content
<1> QED BY <1>1, <1>5 DEF Device!Write

(* A write that fails leaves doubt about its own block only.                *)
LEMMA WriteFailsStep ==
  ASSUME IInv, IInv', NEW b \in Blocks, NEW v \in Values, WriteFails(b, v)
  PROVE  Device!FailedWrite(b, v)
<1>1. cache' = cache /\ answer' = Failed
  BY DEF WriteFails
<1>2. /\ \A x \in Blocks \ {b} : file'[x] = file[x]
      /\ file'[b] \in {file[b], v, Torn}
  BY DiskAssumption DEF WriteFails, Store, IInv, DiskTypes
<1>3. \A x \in Blocks : Content'[x] = {file'[x]} \cup Copies(x)
  BY <1>1 DEF Content, Copies
<1>4. \A x \in Blocks \ {b} : Content'[x] = Content[x]
  BY <1>2, <1>3, ContentAt
<1>5. /\ Content'[b] \in SUBSET (Content[b] \cup {v, Torn})
      /\ Content'[b] # {}
  BY <1>2, <1>3, ContentAt
<1>6. Content' = [Content EXCEPT ![b] = Content'[b]]
  BY <1>4 DEF Content
<1> QED BY <1>1, <1>5, <1>6 DEF Device!FailedWrite

(* Every read of the cached disk returns what was last written, whatever is *)
(* evicted, invalidated, reopened or failed in between: the behaviours of   *)
(* VirtualDisk are behaviours of BlockDevice.                               *)
THEOREM DiskKeepsPromise == Spec => KeepsPromise
<1>1. Init => Device!Init
  <2> SUFFICES ASSUME Init PROVE Device!Init
    OBVIOUS
  <2>1. \A b \in Blocks : Copies(b) = {}
    BY EmptyShape DEF Init, Copies
  <2> QED BY <2>1 DEF Init, Content, Device!Init
<1>2. IInv /\ IInv' /\ [Next]_vars => [Device!Next]_<<Content, answer>>
  <2> SUFFICES ASSUME IInv, IInv', [Next]_vars
               PROVE  Device!Next \/ UNCHANGED <<Content, answer>>
    OBVIOUS
  <2>1. CASE Open \/ CreationCut \/ Close \/ Kill
    BY <2>1, OpenCloseStep DEF Device!Next
  <2>2. ASSUME NEW b \in Blocks, ReadHit(b) \/ ReadMiss(b) \/ ReadFails(b)
        PROVE  Device!Next
    BY <2>2, ReadStep DEF Device!Next
  <2>3. ASSUME NEW b \in Blocks, NEW v \in {Zero, Garbage}, WriteAndDrop(b, v)
        PROVE  Device!Next
    <3>1. v \in Values
      BY DiskAssumption
    <3> QED BY <2>3, <3>1, WriteStep DEF Device!Next
  <2>4. ASSUME NEW b \in Blocks, NEW v \in Values, Write(b, v)
        PROVE  Device!Next
    BY <2>4, WriteStep DEF Device!Next
  <2>5. ASSUME NEW b \in Blocks, NEW v \in Values, WriteFails(b, v)
        PROVE  Device!Next
    BY <2>5, WriteFailsStep DEF Device!Next
  <2>6. CASE UNCHANGED vars
    BY <2>6 DEF vars, fileVars, Content, Copies
  <2> QED BY <2>1, <2>2, <2>3, <2>4, <2>5, <2>6 DEF Next
<1> QED BY <1>1, <1>2, DiskInvariant, PTL DEF Spec, KeepsPromise, Device!Spec

=============================================================================

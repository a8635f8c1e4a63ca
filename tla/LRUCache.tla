------------------------------ MODULE LRUCache ------------------------------
(***************************************************************************)
(* The block cache of lru_cache.h, as operators on the value of an         *)
(* LRUCache object: list_, the blocks in order of use, the latest first,   *)
(* and map_, which leads from a block to its entry.  The counters of hits, *)
(* misses and evictions are only printed and are left out.                 *)
(***************************************************************************)
EXTENDS Naturals, Sequences, SequencesExt

CONSTANTS CacheBlocks,   \* the block numbers
          CAPACITY       \* 64 in the code, at least 1 for evict to be defined

EmptyCache == [list |-> <<>>, map |-> [b \in {} |-> 0]]

Cached(c) == DOMAIN c.map
DirtyIn(c) == {b \in Cached(c) : c.map[b].dirty}

Place(l, b)  == CHOOSE i \in DOMAIN l : l[i] = b
Erase(l, b)  == RemoveAt(l, Place(l, b))
Splice(l, b) == <<b>> \o Erase(l, b)

(* A hit moves the entry to the front; a miss only counts.                  *)
Get(c, b) == IF b \in Cached(c) THEN [c EXCEPT !.list = Splice(@, b)] ELSE c

(* Variant with a bug: the latest entry goes instead of the oldest.         *)
EvictLatest(c) == [list |-> Tail(c.list),
                   map  |-> [x \in Cached(c) \ {Head(c.list)} |-> c.map[x]]]

Evict(c) == [list |-> Front(c.list),
             map  |-> [x \in Cached(c) \ {Last(c.list)} |-> c.map[x]]]

(* Variant with a bug: room is made only when the capacity is exceeded.     *)
MakeRoomLate(c) == IF Len(c.list) > CAPACITY THEN Evict(c) ELSE c

MakeRoom(c) == IF Len(c.list) >= CAPACITY THEN Evict(c) ELSE c

(* put's dirty argument; every call in the code leaves it at its default.   *)
Clean(v) == [data |-> v, dirty |-> FALSE]
Dirty(v) == [data |-> v, dirty |-> TRUE]

(* Variant with a bug: an entry that is there already keeps its data.       *)
PutKeeps(c, b, entry) ==
  IF b \in Cached(c)
  THEN [c EXCEPT !.list = Splice(@, b)]
  ELSE LET r == MakeRoom(c)
       IN  [list |-> <<b>> \o r.list,
            map  |-> [x \in Cached(r) \cup {b} |->
                        IF x = b THEN entry ELSE r.map[x]]]

Put(c, b, entry) ==
  IF b \in Cached(c)
  THEN [list |-> Splice(c.list, b),
        map  |-> [c.map EXCEPT ![b] = entry]]
  ELSE LET r == MakeRoom(c)
       IN  [list |-> <<b>> \o r.list,
            map  |-> [x \in Cached(r) \cup {b} |->
                        IF x = b THEN entry ELSE r.map[x]]]

Invalidate(c, b) ==
  IF b \notin Cached(c) THEN c
  ELSE [list |-> Erase(c.list, b),
        map  |-> [x \in Cached(c) \ {b} |-> c.map[x]]]

-----------------------------------------------------------------------------
(* list_ and map_ name the same blocks, each once, and at most CAPACITY.    *)
WellFormed(c) ==
  /\ c.list \in Seq(CacheBlocks)
  /\ Len(c.list) <= CAPACITY
  /\ \A i, k \in DOMAIN c.list : c.list[i] = c.list[k] => i = k
  /\ {c.list[i] : i \in DOMAIN c.list} = Cached(c)

=============================================================================

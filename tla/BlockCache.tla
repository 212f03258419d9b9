----------------------------- MODULE BlockCache -----------------------------
(***************************************************************************)
(* The block cache of src/block_cache.rs: getblock responses by hash and   *)
(* verbosity, and the hash last inserted for each height.  The cache is a  *)
(* value; each operation below is one critical section under the cache's   *)
(* lock.  The two maps are related only by what insert, invalidate_from    *)
(* and evict_lowest do, which is why an entry can outlive its height.      *)
(***************************************************************************)
EXTENDS Chain

CONSTANT Capacity       \* entries held before insert evicts

ASSUME CapacityAssumption == Capacity \in Nat \ {0}

Verbosity == 0..255     \* a u8; the transactions' ids at 1, their hex from 2 on

CacheType == [ h2h     : [Heights -> Block \cup {NoBlock}],
               entries : SUBSET (Block \X Verbosity) ]

\* hash_for_height
HashForHeight(c, h) == IF h \in Heights THEN c.h2h[h] ELSE NoBlock

\* get falls back to another verbosity, whether it says as much or not.
Fallback(v) == IF v = 1 THEN 2 ELSE 1

Hit(c, b, v) == \E u \in {v, Fallback(v)} : <<b, u>> \in c.entries

\* What get(b, v) answers when Hit(c, b, v).
ServedVerbosity(c, b, v) == IF <<b, v>> \in c.entries THEN v ELSE Fallback(v)

\* Mutant of Forget: drops the heights, leaves the entries.
ForgetHeights(c, H) ==
    [c EXCEPT !.h2h = [h \in Heights |-> IF h \in H THEN NoBlock ELSE c.h2h[h]]]

\* Drop the given heights and the entries, of the verbosities 0 to 2, of the
\* hashes they map to.
Forget(c, H) ==
    [ h2h     |-> [h \in Heights |-> IF h \in H THEN NoBlock ELSE c.h2h[h]],
      entries |-> {e \in c.entries :
                     e[2] \notin 0..2 \/ \A h \in H : c.h2h[h] # e[1]} ]

\* Mutant of InvalidateFrom: the orphan at the fork itself stays cached.
InvalidateAbove(c, fork) == Forget(c, {h \in Heights : h > fork})

InvalidateFrom(c, fork) == Forget(c, {h \in Heights : h >= fork})

\* There is room for an entry once every height up to t is forgotten.
RoomAbove(c, t) == Cardinality(Forget(c, 1..t).entries) < Capacity

RoomToMake(c) == \E t \in 0..MaxHeight : RoomAbove(c, t)

\* evict_lowest, repeated until there is room: every mapped height up to the
\* lowest t that leaves room is forgotten.  With no room to make, insert never
\* returns.
Evict(c) ==
    LET t == CHOOSE u \in 0..MaxHeight :
                RoomAbove(c, u) /\ \A s \in 0..(u - 1) : ~RoomAbove(c, s)
    IN  Forget(c, 1..t)

\* A key that is already present is left alone, and so is its height.
Insert(c, b, v) ==
    IF <<b, v>> \in c.entries THEN c
    ELSE LET room == Evict(c)
         IN  [ h2h     |-> [room.h2h EXCEPT ![HeightOf[b]] = b],
               entries |-> room.entries \cup {<<b, v>>} ]

\* Mutant of DetectReorg: looks at the block's own height, never cached yet.
DetectAtSelf(c, h, prev) == HashForHeight(c, h) \notin {NoBlock, prev}

\* The block at height h names prev as its parent; the cache remembers
\* another block at h - 1.
DetectReorg(c, h, prev) == HashForHeight(c, h - 1) \notin {NoBlock, prev}
=============================================================================

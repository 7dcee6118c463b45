------------------------------ MODULE LruCache ------------------------------
(***************************************************************************)
(* The `lru` crate's LruCache, as the reader uses it: a bounded map whose  *)
(* entries are kept most recently used first.  A cache is a sequence of    *)
(* [key, val] records; EwfReader holds two of them, each behind a Mutex    *)
(* (reader.rs `cache`, chunk_table.rs `LazyChunkTable::cache`).            *)
(***************************************************************************)
EXTENDS Integers, Sequences

Keys(c) == {c[i].key : i \in DOMAIN c}

\* The slot of a key that is present.
Slot(c, k) == CHOOSE i \in DOMAIN c : c[i].key = k

\* The sequence without its i-th element; the others keep their order.
WithoutSlot(c, i) ==
  [j \in 1..Len(c) - 1 |-> IF j < i THEN c[j] ELSE c[j + 1]]

\* An entry in front of a sequence: the most recently used place.
InFront(e, c) == [j \in 1..Len(c) + 1 |-> IF j = 1 THEN e ELSE c[j - 1]]

\* `get`: the value of a present key ...
ValueOf(c, k) == c[Slot(c, k)].val

\* ... and its promotion to most recently used.
Promote(c, k) == InFront(c[Slot(c, k)], WithoutSlot(c, Slot(c, k)))

\* The entries that stay when a new key enters a cache of capacity cap: a full
\* cache gives up its last entry.
Evicted(c, cap) ==
  IF Len(c) < cap THEN c ELSE [j \in 1..cap - 1 |-> c[j]]

\* `put`: replace and promote, or insert in front and evict the last entry of a
\* full cache.
Put(c, k, v, cap) ==
  InFront([key |-> k, val |-> v],
          IF k \in Keys(c) THEN WithoutSlot(c, Slot(c, k)) ELSE Evicted(c, cap))

\* What every cache of this kind satisfies: its capacity is respected and no key
\* occurs twice.
WellFormed(c, cap) ==
  /\ Len(c) <= cap
  /\ \A i, j \in DOMAIN c : c[i].key = c[j].key => i = j
=============================================================================

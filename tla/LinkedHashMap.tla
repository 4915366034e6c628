----------------------------- MODULE LinkedHashMap -----------------------------
(***************************************************************************)
(* LinkedHashMap and DoubleLRUCache (tkrzw_containers.h), pointer by pointer.*)
(*                                                                           *)
(* A map is a record: the heads of its buckets, first_, last_, num_records_, *)
(* and its records by key with prev, next, child (the next record of the     *)
(* bucket) and the value.  A pointer is the key of the record it points to,  *)
(* or Nil.  The hash of an integer key is the key.                           *)
(***************************************************************************)
EXTENDS Integers, Sequences, FiniteSets

Nil == 0

EmptyMap(buckets) ==
  [head |-> [b \in 0..buckets - 1 |-> Nil], first |-> Nil, last |-> Nil, num |-> 0,
   rec |-> [k \in {} |-> 0]]

BucketOf(m, key) == key % Cardinality(DOMAIN m.head)

\* Field assignments through a pointer that may be null, and where the code
\* tests for that.
SetNext(m, p, q) == IF p = Nil THEN m ELSE [m EXCEPT !.rec[p].next = q]
SetPrev(m, p, q) == IF p = Nil THEN m ELSE [m EXCEPT !.rec[p].prev = q]

\* The bucket's chain is searched through the child pointers.
RECURSIVE InChain(_, _, _)
InChain(m, p, key) == p # Nil /\ (p = key \/ InChain(m, m.rec[p].child, key))
Has(m, key) == InChain(m, m.head[BucketOf(m, key)], key)

\* The pointer that points to a record of a bucket is made to point to q.
RECURSIVE Relink(_, _, _, _)
Relink(m, p, key, q) ==
  IF m.rec[p].child = key THEN [m EXCEPT !.rec[p].child = q]
  ELSE Relink(m, m.rec[p].child, key, q)
SetEntry(m, key, q) ==
  IF m.head[BucketOf(m, key)] = key THEN [m EXCEPT !.head[BucketOf(m, key)] = q]
  ELSE Relink(m, m.head[BucketOf(m, key)], key, q)

-----------------------------------------------------------------------------
(* LinkedHashMap                                                             *)

\* A record is taken out of the list of all records.
Unlink(m, key) ==
  LET r == m.rec[key]
      m1 == SetPrev(SetNext(m, r.prev, r.next), r.next, r.prev)
  IN [m1 EXCEPT !.first = IF @ = key THEN r.next ELSE @, !.last = IF @ = key THEN r.prev ELSE @]

\* A record becomes the last of the list.
LinkLast(m, key) ==
  LET m1 == SetNext(SetNext(SetPrev(m, key, m.last), key, Nil), m.last, key)
  IN [m1 EXCEPT !.first = IF @ = Nil THEN key ELSE @, !.last = key]

MoveLast(m, key) == IF m.last = key THEN m ELSE LinkLast(Unlink(m, key), key)

\* Get with MOVE_LAST of a key that is there.
Touch(m, key) == MoveLast(m, key)

\* Set without overwriting: a new record is the last of the list and the first
\* of its bucket.
Set(m, key, value) ==
  IF Has(m, key) THEN m
  ELSE LET r == [prev |-> Nil, next |-> Nil, child |-> m.head[BucketOf(m, key)], value |-> value]
           m1 == [m EXCEPT !.rec = [k \in DOMAIN @ \cup {key} |-> IF k = key THEN r ELSE @[k]],
                           !.num = @ + 1]
       IN LinkLast([m1 EXCEPT !.head[BucketOf(m1, key)] = key], key)

\* The record leaves the list and its bucket.
Detach(m, key) ==
  LET m1 == SetEntry(Unlink(m, key), key, m.rec[key].child)
  IN [m1 EXCEPT !.num = @ - 1, !.rec = [k \in DOMAIN @ \ {key} |-> @[k]]]

Remove(m, key) == IF Has(m, key) THEN Detach(m, key) ELSE m

\* The end of a bucket's chain.
RECURSIVE AppendChild(_, _, _)
AppendChild(m, p, key) ==
  IF m.rec[p].child = Nil THEN [m EXCEPT !.rec[p].child = key]
  ELSE AppendChild(m, m.rec[p].child, key)

\* The destination's part of Migrate with MOVE_LAST for a key it does not have:
\* the record is the last of the list and the last of its bucket.
Receive(m, key, value) ==
  LET r == [prev |-> Nil, next |-> Nil, child |-> Nil, value |-> value]
      m1 == [m EXCEPT !.rec = [k \in DOMAIN @ \cup {key} |-> IF k = key THEN r ELSE @[k]],
                      !.num = @ + 1]
      m2 == IF m.head[BucketOf(m, key)] = Nil THEN [m1 EXCEPT !.head[BucketOf(m, key)] = key]
            ELSE AppendChild(m1, m.head[BucketOf(m, key)], key)
  IN LinkLast(m2, key)

\* The destination's part when it has the key: the record takes the place of
\* the old one, in the list and in the bucket, and is then moved to the end.
Replace(m, key, value) == MoveLast([m EXCEPT !.rec[key].value = value], key)

Migrate(from, to, key) ==
  [from |-> Detach(from, key),
   to |-> IF Has(to, key) THEN Replace(to, key, from.rec[key].value)
          ELSE Receive(to, key, from.rec[key].value)]

-----------------------------------------------------------------------------
(* DoubleLRUCache: a cache is a record of the maps hot and warm.             *)

CacheValue(c, id) ==
  IF Has(c.hot, id) THEN c.hot.rec[id].value
  ELSE IF Has(c.warm, id) THEN c.warm.rec[id].value ELSE Nil

\* Add keeps the value that is there already.
CacheAdd(c, id, value) == IF Has(c.hot, id) THEN c ELSE [c EXCEPT !.warm = Set(@, id, value)]
CacheGiveBack(c, id, value) == [c EXCEPT !.warm = Set(@, id, value)]

MakeRoom(c, capacity) ==
  IF c.hot.num < capacity THEN c
  ELSE LET mig == Migrate(c.hot, c.warm, c.hot.first) IN [hot |-> mig.from, warm |-> mig.to]

Promote(c, id) ==
  IF ~Has(c.warm, id) THEN c
  ELSE LET mig == Migrate(c.warm, c.hot, id) IN [hot |-> mig.to, warm |-> mig.from]

\* Get with promotion makes room in the hot cache even for a value that is not
\* found.
CacheGet(c, id, promotion, capacity) ==
  IF Has(c.hot, id) THEN [c EXCEPT !.hot = Touch(@, id)]
  ELSE IF promotion THEN Promote(MakeRoom(c, capacity), id)
  ELSE IF Has(c.warm, id) THEN [c EXCEPT !.warm = Touch(@, id)] ELSE c

CacheSize(c) == c.hot.num + c.warm.num

\* RemoveLRU takes the least recently used of the warm cache, if any.
LRU(c) == IF c.warm.num > 0 THEN c.warm.first ELSE c.hot.first
CacheRemoveLRU(c) ==
  IF c.warm.num > 0 THEN [c EXCEPT !.warm = Remove(@, @.first)]
  ELSE [c EXCEPT !.hot = Remove(@, @.first)]

-----------------------------------------------------------------------------
(* The keys of a map from the first to the last record, and backwards.       *)
RECURSIVE Forward(_, _, _)
Forward(m, p, n) == IF p = Nil \/ n = 0 THEN <<>> ELSE <<p>> \o Forward(m, m.rec[p].next, n - 1)
RECURSIVE Backward(_, _, _)
Backward(m, p, n) == IF p = Nil \/ n = 0 THEN <<>> ELSE Backward(m, m.rec[p].prev, n - 1) \o <<p>>

\* Every pointer agrees with every other: the list is the same from both ends
\* and has every record once, num_records_ counts them, and every record is
\* found in its bucket.
WellLinked(m) ==
  LET n == Cardinality(DOMAIN m.rec)
  IN /\ Len(Forward(m, m.first, n + 1)) = n
     /\ {Forward(m, m.first, n)[i] : i \in 1..n} = DOMAIN m.rec
     /\ Backward(m, m.last, n + 1) = Forward(m, m.first, n)
     /\ m.num = n
     /\ \A k \in DOMAIN m.rec : Has(m, k)
=============================================================================

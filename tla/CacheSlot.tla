------------------------------- MODULE CacheSlot -------------------------------
(***************************************************************************)
(* CacheSlot (tkrzw_dbm_cache.cc): one slot of the on-memory database with     *)
(* LRU deletion, pointer by pointer.                                           *)
(*                                                                             *)
(* A slot is a record: its buckets, first_, last_, the capacities, the two     *)
(* counters, and the heap as a function from cells to records.  A pointer is   *)
(* a cell or Nil; a freed cell holds Void.  A key is its own hash, a value is  *)
(* its own size, and a key has size 1.  The low part of the hash picks the     *)
(* slot and the rest of it the bucket.                                         *)
(***************************************************************************)
EXTENDS Integers, Sequences, FiniteSetsExt, SequencesExt

CONSTANTS NumSlots,        \* NUM_CACHE_SLOTS
          Cells,           \* addresses malloc returns
          BucketFootprint, \* sizes in GetMemoryUsageImpl
          RecordFootprint,
          ShortValue       \* the greatest size with a header of one byte

ASSUME SlotAssumption ==
  /\ NumSlots \in Nat \ {0} /\ Cells \subseteq Nat \ {0}
  /\ {BucketFootprint, RecordFootprint, ShortValue} \subseteq Nat

Nil == 0
NOOP == -1 \* DBM::RecordProcessor::NOOP
REMOVE == -2 \* DBM::RecordProcessor::REMOVE
Void == [child |-> Nil, prev |-> Nil, next |-> Nil, key |-> -1, value |-> 0]

\* GetHashBucketSize of cap_rec_num * MAX_LOAD_FACTOR, for small capacities.
NumBuckets(cap) == Max({(cap * 12) \div 10, 1})

Slot(cap, mem) ==
  [buckets |-> [b \in 0 .. NumBuckets(cap) - 1 |-> Nil], first |-> Nil, last |-> Nil,
   cap_rec_num |-> cap, cap_mem_size |-> mem, num_records |-> 0, eff_data_size |-> 0,
   heap |-> [c \in Cells |-> Void]]

GetMemoryUsage(s) ==
  Cardinality(DOMAIN s.buckets) * BucketFootprint + s.num_records * RecordFootprint
  + s.eff_data_size

SetChild(s, p, q) == [s EXCEPT !.heap[p].child = q]
SetPrev(s, p, q) == [s EXCEPT !.heap[p].prev = q]
SetNext(s, p, q) == [s EXCEPT !.heap[p].next = q]
xfree(s, p) == [s EXCEPT !.heap[p] = Void]
xmalloc(s) == Min({c \in Cells : s.heap[c] = Void})

Bucket(s, key) == (key \div NumSlots) % Cardinality(DOMAIN s.buckets)

\* The record of a key in a chain, and the record whose child is p.
RECURSIVE Find(_, _, _)
Find(s, p, key) ==
  IF p = Nil \/ s.heap[p].key = key THEN p ELSE Find(s, s.heap[p].child, key)
RECURSIVE Parent(_, _, _)
Parent(s, p, q) ==
  IF p = Nil \/ p = q THEN Nil
  ELSE IF s.heap[p].child = q THEN p ELSE Parent(s, s.heap[p].child, q)

\* The pointer to cell p in its chain is replaced by q.
Relink(s, b, p, q) ==
  LET parent == Parent(s, s.buckets[b], p)
  IN IF parent = Nil THEN [s EXCEPT !.buckets[b] = q] ELSE SetChild(s, parent, q)

\* A record that is looked up becomes the last of the list.
MoveLast(s, p) ==
  IF s.last = p THEN s
  ELSE LET r == s.heap[p]
           s1 == IF r.prev = Nil THEN s ELSE SetNext(s, r.prev, r.next)
           s2 == IF r.next = Nil THEN s1 ELSE SetPrev(s1, r.next, r.prev)
           s3 == SetNext([s2 EXCEPT !.first = IF @ = p THEN r.next ELSE @], s.last, p)
       IN [SetNext(SetPrev(s3, p, s.last), p, Nil) EXCEPT !.last = p]

\* ProcessFull answered REMOVE: the record is the last of the list by now.
RemoveLast(s, b, p) ==
  LET r == s.heap[p]
      s1 == xfree(Relink(s, b, p, r.child), p)
      s2 == IF r.prev = Nil THEN [s1 EXCEPT !.first = Nil, !.last = Nil]
            ELSE [SetNext(s1, r.prev, Nil) EXCEPT !.last = r.prev]
  IN [s2 EXCEPT !.num_records = @ - 1, !.eff_data_size = @ - (1 + r.value)]

\* Reserialize moves the record when the value's header grows, and may move it
\* (realloc's choice) when the value does.
Header(value) == IF value <= ShortValue THEN 1 ELSE 2
Reserialize(s, p, value, moves) ==
  LET old == s.heap[p].value
  IN IF Header(value) > Header(old) \/ (value > old /\ moves) THEN xmalloc(s) ELSE p

\* first_ does not follow a record that moves.
Rewrite_keepsFirst(s, b, p, value, moves) ==
  LET r == s.heap[p]
      q == Reserialize(s, p, value, moves)
      s1 == IF q = p THEN s ELSE Relink(s, b, p, q)
      s2 == xfree(s1, p)
      s3 == [s2 EXCEPT !.heap[q] = [r EXCEPT !.value = value]]
      s4 == IF q = p \/ r.prev = Nil THEN s3 ELSE SetNext(s3, r.prev, q)
      s5 == IF q = p THEN s4 ELSE [s4 EXCEPT !.last = q]
  IN [s5 EXCEPT !.eff_data_size = @ + (value - r.value)]

\* ProcessFull answered a value.  The last neighbour, the chain, first_ and
\* last_ follow a record that moves.
Rewrite(s, b, p, value, moves) ==
  LET r == s.heap[p]
      q == Reserialize(s, p, value, moves)
      s1 == IF q = p THEN s ELSE Relink(s, b, p, q)
      s2 == xfree(s1, p)
      s3 == [s2 EXCEPT !.heap[q] = [r EXCEPT !.value = value]]
      s4 == IF q = p \/ r.prev = Nil THEN s3 ELSE SetNext(s3, r.prev, q)
      s5 == IF q = p THEN s4 ELSE [s4 EXCEPT !.first = IF @ = p THEN q ELSE @, !.last = q]
  IN [s5 EXCEPT !.eff_data_size = @ + (value - r.value)]

RemoveLRU(s) ==
  LET p == s.first
      r == s.heap[p]
      s1 == xfree(Relink(s, Bucket(s, r.key), p, r.child), p)
      s2 == IF r.next = Nil THEN s1 ELSE SetPrev(s1, r.next, Nil)
  IN [s2 EXCEPT !.first = r.next, !.last = IF @ = p THEN Nil ELSE @,
                !.num_records = @ - 1, !.eff_data_size = @ - (1 + r.value)]

\* ProcessEmpty answered a value: the new record heads its chain and ends the
\* list, and at most one record leaves the slot for it.
Insert(s, b, key, value) ==
  LET p == xmalloc(s)
      r == [child |-> s.buckets[b], prev |-> s.last, next |-> Nil, key |-> key, value |-> value]
      s1 == [s EXCEPT !.heap[p] = r, !.buckets[b] = p, !.first = IF @ = Nil THEN p ELSE @]
      s2 == IF s.last = Nil THEN s1 ELSE SetNext(s1, s.last, p)
      s3 == [s2 EXCEPT !.last = p, !.num_records = @ + 1, !.eff_data_size = @ + 1 + value]
  IN IF s3.num_records > s3.cap_rec_num \/ GetMemoryUsage(s3) > s3.cap_mem_size
     THEN RemoveLRU(s3) ELSE s3

\* proc.full and proc.empty are the answers of ProcessFull and ProcessEmpty; a
\* call that is not writable acts on neither, as if both were NOOP.
ProcessImpl(s, key, proc, moves) ==
  LET b == Bucket(s, key)
      p == Find(s, s.buckets[b], key)
  IN IF p = Nil THEN IF proc.empty < 0 THEN s ELSE Insert(s, b, key, proc.empty)
     ELSE CASE proc.full = NOOP -> MoveLast(s, p)
            [] proc.full = REMOVE -> RemoveLast(MoveLast(s, p), b, p)
            [] OTHER -> Rewrite(MoveLast(s, p), b, p, proc.full, moves)

\* The cells of the list from p on; fuel ends a walk over a list with a cycle.
RECURSIVE Walk(_, _, _)
Walk(s, p, fuel) ==
  IF p = Nil \/ fuel = 0 THEN <<>> ELSE <<p>> \o Walk(s, s.heap[p].next, fuel - 1)
List(s) == Walk(s, s.first, Cardinality(Cells))

\* GetKeys, and the records ExportRecords writes.
ExportRecords(s) ==
  LET l == List(s)
  IN [i \in DOMAIN l |-> [key |-> s.heap[l[i]].key, value |-> s.heap[l[i]].value]]
GetKeys(s) == LET l == List(s) IN [i \in DOMAIN l |-> s.heap[l[i]].key]

\* Rebuild links records to the new buckets from the first of the list on and
\* frees the ones that no longer fit.
RECURSIVE Reinsert(_, _)
Reinsert(s, p) ==
  IF p = Nil THEN s
  ELSE LET r == s.heap[p]
           b == Bucket(s, r.key)
       IN IF s.num_records < s.cap_rec_num /\ GetMemoryUsage(s) < s.cap_mem_size
          THEN Reinsert([SetChild(s, p, s.buckets[b]) EXCEPT
                           !.buckets[b] = p, !.num_records = @ + 1,
                           !.eff_data_size = @ + 1 + r.value, !.last = p], r.next)
          ELSE Reinsert(xfree(s, p), r.next)
Rebuild(s, cap, mem) ==
  LET s1 == Reinsert([Slot(cap, mem) EXCEPT !.heap = s.heap, !.first = s.first], s.first)
  IN IF s1.last = Nil THEN [s1 EXCEPT !.first = Nil] ELSE SetNext(s1, s1.last, Nil)

-----------------------------------------------------------------------------

\* The chain of a bucket.
RECURSIVE Chain(_, _, _)
Chain(s, p, fuel) ==
  IF p = Nil \/ fuel = 0 THEN <<>> ELSE <<p>> \o Chain(s, s.heap[p].child, fuel - 1)

\* The list, the chains, the heap and the counters agree: the list is doubly
\* linked from first_ to last_, every record of the heap is on it once and in
\* the one chain that its key hashes to, and nothing else is in a chain.
IsSound(s) ==
  LET l == List(s)
      live == {c \in Cells : s.heap[c] # Void}
      chain == [b \in DOMAIN s.buckets |-> Chain(s, s.buckets[b], Cardinality(Cells) + 1)]
  IN /\ Range(l) = live /\ Len(l) = Cardinality(live) /\ s.num_records = Len(l)
     /\ s.last = IF l = <<>> THEN Nil ELSE Last(l)
     /\ \A i \in DOMAIN l : s.heap[l[i]].prev = IF i = 1 THEN Nil ELSE l[i - 1]
     /\ l # <<>> => s.heap[s.last].next = Nil
     /\ \A b \in DOMAIN chain :
          /\ IsInjective(chain[b])
          /\ Range(chain[b]) = {c \in live : Bucket(s, s.heap[c].key) = b}
     /\ \A c, d \in live : s.heap[c].key = s.heap[d].key => c = d
     /\ s.eff_data_size = FoldFunction(LAMBDA r, n : n + 1 + r.value, 0,
                                       [c \in live |-> s.heap[c]])
=============================================================================

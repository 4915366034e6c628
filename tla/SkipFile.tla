------------------------------- MODULE SkipFile -------------------------------
(***************************************************************************)
(* The file of a SkipDBM, its cache of records, and the sorter that merges     *)
(* updates into a new file.  A record is at an offset, counted in records from *)
(* 1; 0 is no offset.  The record with index i, counted from 0, has as many    *)
(* skip offsets as StepUnit divides i, up to max_level, and the one of level l *)
(* leads StepUnit^l records further.  A shape is the pair [step, max] of       *)
(* step_unit_ and max_level_.                                                  *)
(***************************************************************************)
EXTENDS Integers, Sequences, SequencesExt, FiniteSetsExt

CONSTANTS
  Keys,          \* a range of numbers from 1, which are compared like keys
  Values,
  Removing,      \* REMOVING_VALUE
  MaxCached,     \* max_cached_records_
  SortMem        \* how many records the sorter keeps in memory

ASSUME FileAssumption ==
  /\ Keys = 1 .. Max(Keys)
  /\ Removing \notin Values
  /\ MaxCached \in Nat \ {0} /\ SortMem \in Nat \ {0}

Pair(k, v) == [key |-> k, val |-> v]

-----------------------------------------------------------------------------
(* Writing records.                                                          *)

Level(shape, index) == Max({l \in 0 .. shape.max : index % shape.step ^ l = 0})

NoPast(shape) == [l \in 1 .. shape.max |-> 0]
NewWriter(shape) == [recs |-> <<>>, past |-> NoPast(shape)]

\* The levels on which UpdatePastRecords links the last record of the level to
\* the record with this index; a record too low for a link ends the loop.
Linked(shape, past, index) ==
  {l \in 1 .. Level(shape, index) :
     /\ past[l] # 0
     /\ \A m \in 1 .. l : past[m] # 0 => m - 1 <= Level(shape, index - shape.step ^ m)}

\* Mutant: only the lowest level remembers the record.
WriteRecord_forgets(shape, w, r) ==
  LET off == Len(w.recs) + 1
      index == Len(w.recs)
      linked == Linked(shape, w.past, index)
  IN  [recs |-> Append([o \in DOMAIN w.recs |->
                          [w.recs[o] EXCEPT !.skip =
                             [l \in DOMAIN @ |-> IF l \in linked /\ w.past[l] = o THEN off ELSE @[l]]]],
                       [key |-> r.key, val |-> r.val,
                        skip |-> [l \in 1 .. Level(shape, index) |-> 0]]),
       past |-> [l \in DOMAIN w.past |-> IF l = 1 /\ l <= Level(shape, index)
                                         THEN off ELSE w.past[l]]]

\* SetData, Write and UpdatePastRecords; record_index_ counts the records written.
WriteRecord(shape, w, r) ==
  LET off == Len(w.recs) + 1
      index == Len(w.recs)
      linked == Linked(shape, w.past, index)
  IN  [recs |-> Append([o \in DOMAIN w.recs |->
                          [w.recs[o] EXCEPT !.skip =
                             [l \in DOMAIN @ |-> IF l \in linked /\ w.past[l] = o THEN off ELSE @[l]]]],
                       [key |-> r.key, val |-> r.val,
                        skip |-> [l \in 1 .. Level(shape, index) |-> 0]]),
       past |-> [l \in DOMAIN w.past |-> IF l <= Level(shape, index) THEN off ELSE w.past[l]]]

WriteAll(shape, pairs) ==
  FoldLeft(LAMBDA w, r : WriteRecord(shape, w, r), NewWriter(shape), pairs).recs

Pairs(recs) == [o \in DOMAIN recs |-> Pair(recs[o].key, recs[o].val)]

-----------------------------------------------------------------------------
(* The cache: the records with an index that is a multiple of unit.          *)

NewCache(shape, num) ==
  LET unit == shape.step ^ Min({n \in 0 .. num : num \div shape.step ^ n <= MaxCached})
  IN  [unit |-> unit, size |-> Max({num \div unit, 1}), recs |-> <<>>]

Fits(c, index) == index % c.unit = 0 /\ index \div c.unit < c.size
Cached(c, index) == Fits(c, index) /\ index \in DOMAIN c.recs

CacheAdd(c, index, rec) ==
  IF Fits(c, index) /\ index \notin DOMAIN c.recs
  THEN [c EXCEPT !.recs = [i \in DOMAIN @ \cup {index} |-> IF i = index THEN rec ELSE @[i]]]
  ELSE c

\* PrepareRecord, or else ReadMetadataKey, which takes as many skip offsets as a
\* record with this index has.
ReadRecord(d, c, off, index) ==
  IF Cached(c, index) THEN c.recs[index]
  ELSE [off |-> off, key |-> d.recs[off].key, val |-> d.recs[off].val,
        skip |-> SubSeq(d.recs[off].skip, 1, Level(d.shape, index))]

-----------------------------------------------------------------------------
(* Searching.  The place of a search is an offset, the index it takes for    *)
(* that offset, the offset that it need not reach, and the cache.            *)

Place(off, index, end, cache, found) ==
  [off |-> off, index |-> index, end |-> end, cache |-> cache, found |-> found]

\* What a link to the record with this index and key is for the search: 1 when
\* it is taken, -1 when the target is before it.
Direction(target, index, key) ==
  IF target.by = "index" THEN IF index <= target.index THEN 1 ELSE -1
  ELSE IF key < target.key THEN 1 ELSE IF key > target.key THEN -1 ELSE 0

\* The links of rec from level l down; then the next record.
RECURSIVE Descend(_, _, _, _, _)
Descend(d, target, p, rec, l) ==
  IF l = 0 THEN [p EXCEPT !.off = @ + 1, !.index = @ + 1]
  ELSE LET next == rec.skip[l]
           index == p.index + d.shape.step ^ l
       IN  IF next = 0 \/ next >= p.end THEN Descend(d, target, p, rec, l - 1)
           ELSE LET to == ReadRecord(d, p.cache, next, index)
                    c == CacheAdd(p.cache, index, to)
                    dir == Direction(target, index, to.key)
                IN  IF dir = 1 THEN [p EXCEPT !.off = next, !.index = index, !.cache = c]
                    ELSE Descend(d, target, [p EXCEPT !.cache = c, !.end = IF dir = -1 THEN next ELSE @],
                                 rec, l - 1)

Reached(target, index, key) ==
  IF target.by = "index" THEN index = target.index ELSE key = target.key
Passed(target, key) == target.by = "key" /\ target.key < key

RECURSIVE SearchFrom(_, _, _)
SearchFrom(d, target, p) ==
  IF p.off >= p.end THEN p
  ELSE LET rec == ReadRecord(d, p.cache, p.off, p.index)
           q == [p EXCEPT !.cache = CacheAdd(@, p.index, rec)]
       IN  IF Reached(target, p.index, rec.key) THEN [q EXCEPT !.found = TRUE]
           ELSE IF Passed(target, rec.key) THEN q
           ELSE SearchFrom(d, target, Descend(d, target, q, rec, Len(rec.skip)))

Start(d, cache) == Place(1, 0, Len(d.recs) + 1, cache, FALSE)

\* Search finds the first record with the key; with upper, else the first one
\* with a greater key.
Search(d, cache, k, upper) ==
  LET p == SearchFrom(d, [by |-> "key", key |-> k], Start(d, cache))
  IN  IF p.found \/ ~upper \/ p.off > Len(d.recs) THEN p
      ELSE [p EXCEPT !.found = TRUE,
                     !.cache = CacheAdd(@, p.index, ReadRecord(d, @, p.off, p.index))]

SearchByIndex(d, cache, i) == SearchFrom(d, [by |-> "index", index |-> i], Start(d, cache))

-----------------------------------------------------------------------------
(* The sorter: records in memory, sorted files, and files of skip records.   *)

NewSorter == [cur |-> <<>>, tmp |-> <<>>, skips |-> <<>>]
IsUpdated(s) == s # NewSorter

StableSort(pairs) ==
  FlattenSeq([k \in Keys |-> SelectSeq(pairs, LAMBDA r : r.key = k)])

\* Mutant: the sorted records go before the ones sorted earlier.
Flush_front(s) == [s EXCEPT !.cur = <<>>, !.tmp = <<StableSort(s.cur)>> \o @]

Flush(s) == [s EXCEPT !.cur = <<>>, !.tmp = Append(@, StableSort(s.cur))]

Add(s, r) ==
  LET more == [s EXCEPT !.cur = Append(@, r)]
  IN  IF Len(more.cur) >= SortMem THEN Flush(more) ELSE more

\* The place after the last one, as it was found; another file may be there by now.
PutSkipRecord(s, at, pairs) ==
  [s EXCEPT !.skips = [i \in DOMAIN @ \cup {at} |-> IF i = at THEN pairs ELSE @[i]]]

AddSkipRecord(s, pairs) == PutSkipRecord(s, Len(s.skips) + 1, pairs)

\* Get, until nothing is left: the least record, of the first slot that has it.
RECURSIVE Drain(_)
Drain(slots) ==
  LET full == {i \in DOMAIN slots : slots[i] # <<>>}
      least == Min({Head(slots[i]).key : i \in full})
      first == Min({i \in full : Head(slots[i]).key = least})
  IN  IF full = {} THEN <<>>
      ELSE <<Head(slots[first])>> \o Drain([slots EXCEPT ![first] = Tail(@)])

\* Finish: files of skip records come before sorted files.
Merged(s) == LET t == IF s.cur # <<>> THEN Flush(s) ELSE s
             IN  Drain(t.skips \o t.tmp)

-----------------------------------------------------------------------------
(* Reducing the values of a key, oldest first.                               *)

ReduceRemove(vals) ==
  FoldLeft(LAMBDA acc, v : IF v = Removing THEN <<>> ELSE Append(acc, v), <<>>, vals)

\* ReduceToFirst, ReduceToSecond, ReduceToLast, and no reducer.
Reduce(reducer, vals) ==
  CASE reducer = "first" -> <<vals[1]>>
    [] reducer = "second" -> <<IF Len(vals) > 1 THEN vals[2] ELSE vals[1]>>
    [] reducer = "last" -> <<Last(vals)>>
    [] OTHER -> vals

Survivors(removed, reducer, vals) ==
  LET live == IF removed THEN ReduceRemove(vals) ELSE vals
  IN  IF live = <<>> THEN <<>> ELSE Reduce(reducer, live)

\* The records FinishStorage writes for the records it gets: those of one key
\* are collected until another key comes.
Group(removed, reducer, pairs) ==
  LET Put(out, g) == out \o [i \in DOMAIN Survivors(removed, reducer, g.vals) |->
                               Pair(g.key, Survivors(removed, reducer, g.vals)[i])]
      Take(acc, r) ==
        IF acc.vals = <<>> \/ acc.key = r.key
        THEN [acc EXCEPT !.key = r.key, !.vals = Append(@, r.val)]
        ELSE [out |-> Put(acc.out, acc), key |-> r.key, vals |-> <<r.val>>]
      all == FoldLeft(Take, [out |-> <<>>, key |-> 0, vals |-> <<>>], pairs)
  IN  IF reducer = "none" /\ ~removed THEN pairs
      ELSE Put(all.out, all)
=============================================================================

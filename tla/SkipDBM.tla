------------------------------- MODULE SkipDBM -------------------------------
(***************************************************************************)
(* A SkipDBM.  Its file is never changed in place: updates go to a sorter, or, *)
(* when records are inserted in order, to a sorted file, and become visible    *)
(* when Synchronize merges them with the file into a new file that replaces    *)
(* it.  Updates hold the lock of the database alone, so that only a crash of   *)
(* the process comes between the steps of one; lookups share it, and so does   *)
(* MergeSkipDatabase, although it changes the sorter.                          *)
(***************************************************************************)
EXTENDS SkipFile

CONSTANTS
  Shapes,     \* the step_unit and max_level a file may be created or rebuilt with
  Reducers,   \* a subset of {"none", "first", "second", "last"}
  Sources,    \* contents of other skip databases, as sequences of pairs
  Limits      \* bounds: how often each thing is done, and insert_in_order

ASSUME DBMAssumption ==
  /\ \A s \in Shapes : s.step \in Nat \ {0, 1} /\ s.max \in Nat \ {0}
  /\ Reducers \subseteq {"none", "first", "second", "last"}

VARIABLES
  file,   \* what path_ names: records, shape, and num, size, closed of the metadata
  mem,    \* what SkipDBMImpl keeps while the database is open
  it,     \* an iterator: offset (0: cleared), index; history: the key it was set to
  phase,  \* "down", "open", or the step an operation has come to
  pub,    \* history: the sequences of values that a key may have in the file
  pend,   \* history: the values of each key merged, and updated, since then
  left    \* what may still be done, and whether records are inserted in order

vars == <<file, mem, it, phase, pub, pend, left>>

Noop == "noop"
NoValues == [k \in Keys |-> <<>>]
NothingPublished == [k \in Keys |-> {<<>>}]
NoPend == [src |-> NoValues, upd |-> NoValues]
Cleared == [off |-> 0, index |-> -1, key |-> 0]
NewFile(shape, pairs) ==
  [recs |-> WriteAll(shape, pairs), shape |-> shape, num |-> Len(pairs),
   size |-> Len(pairs), closed |-> TRUE]
NoMem == [down |-> TRUE]

Content(recs) ==
  [k \in Keys |-> LET of == SelectSeq(recs, LAMBDA r : r.key = k)
                  IN  [i \in DOMAIN of |-> of[i].val]]

Init ==
  /\ \E s \in Shapes : file = NewFile(s, <<>>)
  /\ mem = NoMem /\ it = Cleared /\ phase = "down"
  /\ pub = NothingPublished /\ pend = NoPend
  /\ left \in Limits

\* The lock, which merges in progress share: held alone, or with them.
Alone == phase = "open" /\ mem.merging = <<>>
Shared == phase = "open"

May(what) == left[what] > 0
Use(what) == left' = [left EXCEPT ![what] = @ - 1]

-----------------------------------------------------------------------------
(* Storage.                                                                  *)

PrepareStorage(m) ==
  [m EXCEPT !.sorter = NewSorter, !.sorted = NewWriter(m.shape), !.old = m.num]

SaveMetadata(f, m, finish) ==
  [f EXCEPT !.num = m.num, !.size = Len(f.recs), !.closed = m.closure /\ finish]

WithCache(m) == [m EXCEPT !.cache = NewCache(m.shape, m.num)]

DiscardStorage(m) == [m EXCEPT !.updated = FALSE, !.num = m.old]

UpdateRecord(m, k, v) ==
  IF v = Noop THEN m
  ELSE LET n == [m EXCEPT !.updated = TRUE, !.removed = @ \/ v = Removing]
       IN  IF m.inorder
           THEN [n EXCEPT !.sorted = WriteRecord(m.shape, @, Pair(k, v)), !.num = @ + 1]
           ELSE [n EXCEPT !.sorter = Add(@, Pair(k, v))]

AllSources(f, m) ==
  LET s == IF f.recs # <<>> THEN AddSkipRecord(m.sorter, Pairs(f.recs)) ELSE m.sorter
  IN  IF m.inorder /\ m.sorted.recs # <<>> THEN AddSkipRecord(s, Pairs(m.sorted.recs)) ELSE s

\* The sorted file takes the place of an empty file as it is.
IsSimple(f, m, reducer) ==
  reducer = "none" /\ m.inorder /\ f.recs = <<>> /\ ~IsUpdated(m.sorter)

\* FinishStorage: the new file, closed, that is renamed to path_.
FinishStorage(f, m, reducer) ==
  IF IsSimple(f, m, reducer)
  THEN [f EXCEPT !.recs = m.sorted.recs, !.num = m.num, !.size = Len(m.sorted.recs),
                 !.closed = m.closure]
  ELSE [NewFile(m.shape, Group(m.removed, reducer, Merged(AllSources(f, m))))
          EXCEPT !.closed = m.closure]

\* What stays in memory.
Finished(m, f) == [m EXCEPT !.updated = FALSE, !.num = f.num]

-----------------------------------------------------------------------------
(* Open and Close.                                                           *)

\* The file that Open goes on with: one that is shorter than its metadata say is
\* restored from the records it has, any other one is as it was left.
Opened(f) == IF f.size > Len(f.recs) THEN NewFile(f.shape, Pairs(f.recs)) ELSE f

Open ==
  /\ phase = "down"
  /\ LET f == Opened(file)
         m == [shape |-> f.shape, inorder |-> left.inorder, closure |-> TRUE, num |-> f.num,
               old |-> f.num, updated |-> FALSE, removed |-> FALSE, sorter |-> NewSorter,
               sorted |-> NewWriter(f.shape), cache |-> NewCache(f.shape, f.num),
               merging |-> <<>>]
     IN  file' = SaveMetadata(f, m, FALSE) /\ mem' = PrepareStorage(m)
  /\ phase' = "open"
  /\ UNCHANGED <<it, pub, pend, left>>

\* History: what the values of a key become when they are published.  Whether
\* merged values come before or after the ones in the file is left open.
AfterRemoval(vals) ==
  SubSeq(vals, Max({i \in DOMAIN vals : vals[i] = Removing} \cup {0}) + 1, Len(vals))
Reduced(reducer, vals) ==
  IF AfterRemoval(vals) = <<>> THEN <<>> ELSE Reduce(reducer, AfterRemoval(vals))
Expected(reducer) ==
  [k \in Keys |->
     {Reduced(reducer, pend.src[k] \o old \o pend.upd[k]) : old \in pub[k]}
       \cup {Reduced(reducer, old \o pend.src[k] \o pend.upd[k]) : old \in pub[k]}]
Publish(reducer) == pub' = Expected(reducer) /\ pend' = NoPend

Close ==
  /\ Alone
  /\ file' = IF mem.updated THEN FinishStorage(file, mem, "none")
             ELSE SaveMetadata(file, DiscardStorage(mem), TRUE)
  /\ mem' = NoMem /\ it' = Cleared /\ phase' = "down"
  /\ Publish("none")
  /\ UNCHANGED left

\* The process dies: what was not published is lost.
Crash ==
  /\ phase # "down" /\ May("crash") /\ Use("crash")
  /\ mem' = NoMem /\ it' = Cleared /\ phase' = "down"
  /\ pend' = NoPend
  /\ UNCHANGED <<file, pub>>

-----------------------------------------------------------------------------
(* Synchronize, Clear, Rebuild, Revert, MergeSkipDatabase.                   *)

\* Mutant: iterators are not cancelled.
SyncFinish_keepsIterators(reducer) ==
  /\ Alone /\ May("sync") /\ Use("sync")
  /\ file' = FinishStorage(file, mem, reducer)
  /\ mem' = Finished(mem, file')
  /\ phase' = "finished"
  /\ Publish(reducer)
  /\ UNCHANGED it

\* Synchronize up to the replacement of the file.
SyncFinish(reducer) ==
  /\ Alone /\ May("sync") /\ Use("sync")
  /\ it' = Cleared
  /\ file' = FinishStorage(file, mem, reducer)
  /\ mem' = Finished(mem, file')
  /\ phase' = "finished"
  /\ Publish(reducer)

\* Mutant: the cache of the replaced file is kept.
Resume_keepsCache ==
  /\ phase \in {"finished", "rebuilt"}
  /\ file' = SaveMetadata(file, mem, FALSE)
  /\ mem' = PrepareStorage(mem)
  /\ phase' = "open"
  /\ UNCHANGED <<it, pub, pend, left>>

\* Synchronize and Rebuild from there on.
Resume ==
  /\ phase \in {"finished", "rebuilt"}
  /\ file' = SaveMetadata(file, mem, FALSE)
  /\ mem' = WithCache(PrepareStorage(mem))
  /\ phase' = "open"
  /\ UNCHANGED <<it, pub, pend, left>>

\* Clear and Rebuild publish the updates first.
FinishFirst(next) ==
  /\ IF mem.updated
     THEN file' = FinishStorage(file, mem, "none") /\ mem' = Finished(mem, file')
     ELSE UNCHANGED <<file, mem>>
  /\ Publish("none")
  /\ phase' = next
  /\ UNCHANGED it

ClearFinish == Alone /\ May("clear") /\ Use("clear") /\ FinishFirst("clearing")

ClearTruncate ==
  /\ phase = "clearing"
  /\ it' = Cleared
  /\ file' = [file EXCEPT !.recs = <<>>]
  /\ mem' = [mem EXCEPT !.num = 0]
  /\ pub' = NothingPublished
  /\ phase' = "truncated"
  /\ UNCHANGED <<pend, left>>

\* LoadMetadata reads back the flag that SaveMetadata has cleared.
ClearEnd ==
  /\ phase = "truncated"
  /\ file' = SaveMetadata(file, mem, FALSE)
  /\ mem' = WithCache(PrepareStorage([mem EXCEPT !.closure = file'.closed]))
  /\ phase' = "open"
  /\ UNCHANGED <<it, pub, pend, left>>

RebuildFinish == Alone /\ May("rebuild") /\ Use("rebuild") /\ FinishFirst("rebuilding")

\* The records are inserted in order into a new database, which replaces the file.
RebuildSwap ==
  /\ phase = "rebuilding"
  /\ \E s \in Shapes : file' = NewFile(s, Pairs(file.recs))
  /\ it' = Cleared
  /\ mem' = [mem EXCEPT !.shape = file'.shape, !.closure = file'.closed, !.num = file'.num]
  /\ phase' = "rebuilt"
  /\ UNCHANGED <<pub, pend, left>>

Revert ==
  /\ Alone /\ May("revert") /\ Use("revert")
  /\ mem' = PrepareStorage(DiscardStorage(mem))
  /\ pend' = NoPend
  /\ UNCHANGED <<file, it, phase, pub>>

\* MergeSkipDatabase holds the lock shared while emplace_back takes the end of
\* the vector for the place of the other file, and stores it there.
MergeBegin(src) ==
  /\ Shared /\ May("merge") /\ Use("merge")
  /\ Len(mem.merging) < left.mergers
  /\ mem' = [mem EXCEPT !.merging = Append(@, [src |-> src, at |-> Len(mem.sorter.skips) + 1])]
  /\ UNCHANGED <<file, it, phase, pub, pend>>

MergeEnd(i) ==
  /\ Shared
  /\ LET m == mem.merging[i]
     IN  /\ mem' = [mem EXCEPT !.sorter = PutSkipRecord(@, m.at, m.src), !.updated = TRUE,
                               !.merging = RemoveAt(@, i)]
         /\ pend' = [pend EXCEPT !.src = [k \in Keys |-> @[k] \o Content(m.src)[k]]]
  /\ UNCHANGED <<file, it, phase, pub, left>>

-----------------------------------------------------------------------------
(* Reading and updating records.                                             *)

Data == [recs |-> file.recs, shape |-> mem.shape]

Log(k, v) == pend' = IF v = Noop THEN pend ELSE [pend EXCEPT !.upd[k] = Append(@, v)]

\* The caller's promise when records are inserted in order.  Before the file has
\* records, removals are not made in that mode.
InOrder(k, v) ==
  mem.inorder /\ v # Noop =>
    /\ mem.sorted.recs # <<>> => Last(mem.sorted.recs).key <= k
    /\ v = Removing => file.recs # <<>>

\* Set and Remove do not look for the record.
Insert(k, v) ==
  /\ Alone /\ May("update") /\ Use("update") /\ InOrder(k, v)
  /\ mem' = UpdateRecord(mem, k, v)
  /\ Log(k, v)
  /\ UNCHANGED <<file, it, phase, pub>>

\* Process; a processor that only looks shares the lock, and returns NOOP.
Process(k, v) ==
  /\ IF v = Noop THEN Shared ELSE Alone
  /\ May("look") /\ Use("look") /\ InOrder(k, v)
  /\ mem' = UpdateRecord([mem EXCEPT !.cache = Search(Data, @, k, FALSE).cache], k, v)
  /\ Log(k, v)
  /\ UNCHANGED <<file, it, phase, pub>>

\* ProcessEach with a processor that returns the same for every record.
ProcessEach(v) ==
  /\ Alone /\ May("each") /\ Use("each")
  /\ mem.inorder => mem.sorted.recs = <<>>
  /\ mem' = FoldLeft(LAMBDA m, r : UpdateRecord(m, r.key, v), mem, file.recs)
  /\ pend' = [pend EXCEPT !.upd =
                [k \in Keys |-> @[k] \o [i \in DOMAIN Content(file.recs)[k] |-> v]]]
  /\ UNCHANGED <<file, it, phase, pub>>

GetByIndex(i) ==
  /\ Alone /\ May("look") /\ Use("look")
  /\ mem' = [mem EXCEPT !.cache = SearchByIndex(Data, @, i).cache]
  /\ UNCHANGED <<file, it, phase, pub, pend>>

-----------------------------------------------------------------------------
(* The iterator.                                                             *)

At(d, off, index) ==
  [off |-> off, index |-> index, key |-> IF off \in DOMAIN d.recs THEN d.recs[off].key ELSE 0]
Move(to, cache) == [it |-> to, cache |-> cache]

\* The record that a search has come to, and the position the iterator takes.
Hit(d, p) == ReadRecord(d, p.cache, p.off, p.index)
AtHit(d, p) == Move(At(d, Hit(d, p).off, p.index), p.cache)

JumpTo(d, cache, k) ==
  LET p == Search(d, cache, k, TRUE)
  IN  IF p.found THEN AtHit(d, p) ELSE Move(Cleared, p.cache)

IsLower(key, k, inclusive) == IF inclusive THEN key <= k ELSE key < k

RECURSIVE WalkDown(_, _, _, _)
WalkDown(d, k, inclusive, p) ==
  IF p.found /\ IsLower(Hit(d, p).key, k, inclusive) THEN AtHit(d, p)
  ELSE IF ~p.found \/ p.index = 0 THEN Move(Cleared, p.cache)
  ELSE WalkDown(d, k, inclusive, SearchByIndex(d, p.cache, p.index - 1))

\* From the last record when no key is as great; an iterator stays where it is
\* when there is no record with the index num_records_ - 1.
JumpLowerTo(d, num, i, cache, k, inclusive) ==
  LET p == Search(d, cache, k, TRUE)
      q == IF p.found \/ num < 1 THEN p ELSE SearchByIndex(d, p.cache, num - 1)
  IN  IF ~p.found /\ num < 1 THEN Move(Cleared, p.cache)
      ELSE IF ~q.found THEN Move(i, q.cache)
      ELSE WalkDown(d, k, inclusive, q)

RECURSIVE WalkUp(_, _, _, _, _)
WalkUp(d, num, k, inclusive, pos) ==
  IF IF inclusive THEN pos.key >= k ELSE pos.key > k THEN pos
  ELSE IF pos.index = num - 1 \/ pos.off = Len(d.recs) THEN Cleared
  ELSE WalkUp(d, num, k, inclusive, At(d, pos.off + 1, pos.index + 1))

JumpUpperTo(d, num, cache, k, inclusive) ==
  LET m == JumpTo(d, cache, k)
  IN  IF m.it = Cleared THEN m ELSE Move(WalkUp(d, num, k, inclusive, m.it), m.cache)

LastOf(d, num, i, cache) ==
  LET p == SearchByIndex(d, cache, num - 1)
  IN  IF num < 1 THEN Move(At(d, 1, 0), cache)
      ELSE IF p.found THEN AtHit(d, p) ELSE Move(i, p.cache)

IsThere(i) == i.off # 0 /\ i.off <= Len(file.recs)

NextOf(d, i) == IF IsThere(i) THEN At(d, i.off + 1, i.index + 1) ELSE i

PreviousOf(d, i, cache) ==
  LET p == SearchByIndex(d, cache, i.index - 1)
  IN  IF ~IsThere(i) THEN Move(i, cache)
      ELSE IF i.index > 0 /\ p.found THEN AtHit(d, p) ELSE Move(Cleared, cache)

MoveIt(m) ==
  /\ Shared /\ May("iter") /\ Use("iter")
  /\ it' = m.it
  /\ mem' = [mem EXCEPT !.cache = m.cache]
  /\ UNCHANGED <<file, phase, pub, pend>>

ItFirst == MoveIt(Move(At(Data, 1, 0), mem.cache))
ItLast == MoveIt(LastOf(Data, mem.num, it, mem.cache))
ItJump(k) == MoveIt(JumpTo(Data, mem.cache, k))
ItJumpLower(k, inclusive) == MoveIt(JumpLowerTo(Data, mem.num, it, mem.cache, k, inclusive))
ItJumpUpper(k, inclusive) == MoveIt(JumpUpperTo(Data, mem.num, mem.cache, k, inclusive))
ItNext == MoveIt(Move(NextOf(Data, it), mem.cache))
ItPrevious == MoveIt(PreviousOf(Data, it, mem.cache))

\* Process of the iterator; it goes on when it has removed the record.
ItProcess(v) ==
  /\ Alone /\ IsThere(it) /\ May("update") /\ Use("update")
  /\ LET k == file.recs[it.off].key
     IN  /\ InOrder(k, v)
         /\ mem' = UpdateRecord(mem, k, v)
         /\ Log(k, v)
  /\ it' = IF v = Removing THEN NextOf(Data, it) ELSE it
  /\ UNCHANGED <<file, phase, pub>>

-----------------------------------------------------------------------------
Requests == Values \cup {Removing}

Next ==
  \/ Open \/ Close \/ Crash
  \/ \E r \in Reducers : SyncFinish(r)
  \/ Resume
  \/ ClearFinish \/ ClearTruncate \/ ClearEnd
  \/ RebuildFinish \/ RebuildSwap
  \/ Revert
  \/ \E src \in Sources : MergeBegin(src)
  \/ phase = "open" /\ \E i \in DOMAIN mem.merging : MergeEnd(i)
  \/ \E k \in Keys, v \in Requests : Insert(k, v)
  \/ \E k \in Keys, v \in {Noop, Removing} : Process(k, v)
  \/ \E v \in Requests : ProcessEach(v)
  \/ \E i \in 0 .. Len(file.recs) : GetByIndex(i)
  \/ ItFirst \/ ItLast \/ ItNext \/ ItPrevious
  \/ \E k \in Keys : ItJump(k)
  \/ \E k \in Keys, inclusive \in BOOLEAN : ItJumpLower(k, inclusive)
  \/ \E k \in Keys, inclusive \in BOOLEAN : ItJumpUpper(k, inclusive)
  \/ \E v \in Requests : ItProcess(v)

Spec == Init /\ [][Next]_vars

-----------------------------------------------------------------------------
(* Correctness.                                                              *)

\* Every variable has its type, memory and file agree on the shape of records,
\* and a record has as many skip offsets as its index gives it.
TypeOK ==
  /\ phase \in {"down", "open", "finished", "clearing", "truncated", "rebuilding", "rebuilt"}
  /\ (phase = "down") = (mem = NoMem)
  /\ phase # "down" => mem.shape = file.shape
  /\ \A i \in DOMAIN file.recs :
       /\ file.recs[i].key \in Keys /\ file.recs[i].val \in Values
       /\ DOMAIN file.recs[i].skip = 1 .. Level(file.shape, i - 1)
  /\ it.off \in Nat /\ it.index \in Nat \cup {-1}

\* The skip offset of level l of a record leads StepUnit^l records further, and
\* is missing only where the file ends before: UpdatePastRecords links every
\* record, also after a Rebuild with another step unit.
SkipsAreExact ==
  \A i \in DOMAIN file.recs : \A l \in DOMAIN file.recs[i].skip :
    LET to == i + file.shape.step ^ l
    IN  file.recs[i].skip[l] = IF to <= Len(file.recs) THEN to ELSE 0

\* Whatever happened, Open finds, in order of their keys, the records that were
\* published last: a crash inside Synchronize, Clear or Rebuild leaves the old or
\* the new file, and the records of a key are the surviving ones of the old file
\* and of files that were merged, one after the other, and then of the updates in
\* their order, whether they were sorted in memory, in temporary files or
\* inserted in order.
ContentIsPublished ==
  LET recs == Opened(file).recs
  IN  /\ IsSorted(recs, LAMBDA x, y : x.key <= y.key)
      /\ \A k \in Keys : Content(recs)[k] \in pub[k]

\* The order that the comment of MergeSkipDatabase gives to the records of a key
\* when Synchronize publishes them: the ones of the file, the merged ones, the
\* updates.
MergedComeSecond ==
  [][\A r \in Reducers : SyncFinish(r) =>
       \A k \in Keys : Content(file'.recs)[k]
         = Reduced(r, Content(file.recs)[k] \o pend.src[k] \o pend.upd[k])]_vars

\* Count returns the number of visible records while no update that is inserted
\* in order is pending, also after Revert and Clear; the metadata of a file that
\* was not cut have it, too.
CountIsExact ==
  /\ phase = "open" /\ ~(mem.inorder /\ mem.updated) => mem.num = Len(file.recs)
  /\ file.size = Len(file.recs) => file.num = Len(file.recs)

\* What Synchronize, Rebuild, Revert and Clear leave is a file whose skips lead
\* where they say and whose records are counted.
FileIsExact == TypeOK /\ SkipsAreExact /\ CountIsExact

\* Search finds the first record of a key through skip offsets and cache, or
\* with upper the first record of a greater key; SearchByIndex finds the record
\* with the index.
SearchIsExact ==
  phase = "open" =>
    /\ \A k \in Keys :
         LET first == Min({i \in DOMAIN file.recs : file.recs[i].key >= k} \cup {Len(file.recs) + 1})
             p == Search(Data, mem.cache, k, TRUE)
             q == Search(Data, mem.cache, k, FALSE)
         IN  /\ p.found = (first <= Len(file.recs))
             /\ p.found => /\ Hit(Data, p).off = first
                           /\ Hit(Data, p).val = file.recs[first].val
             /\ q.found = (p.found /\ file.recs[first].key = k)
             /\ q.found => q.off = first
    /\ \A i \in DOMAIN file.recs :
         LET p == SearchByIndex(Data, mem.cache, i - 1)
         IN  p.found /\ Hit(Data, p).off = i

\* Jump, JumpLower and JumpUpper find the record that their keys ask for, and
\* Last the last one, while no update that is inserted in order is pending.
JumpsAreExact ==
  phase = "open" /\ ~(mem.inorder /\ mem.updated) =>
    /\ \A k \in Keys, inclusive \in BOOLEAN :
         LET lower == {i \in DOMAIN file.recs : IsLower(file.recs[i].key, k, inclusive)}
             upper == {i \in DOMAIN file.recs : ~IsLower(file.recs[i].key, k, ~inclusive)}
             down == JumpLowerTo(Data, mem.num, it, mem.cache, k, inclusive).it
             up == JumpUpperTo(Data, mem.num, mem.cache, k, inclusive).it
         IN  /\ IF lower = {} THEN down.off = 0 ELSE down.key = file.recs[Max(lower)].key
             /\ lower # {} /\ ~inclusive => down.off = Max(lower)
             /\ up.off = IF upper = {} THEN 0 ELSE Min(upper)
    /\ LastOf(Data, mem.num, it, mem.cache).it.off = Max({Len(file.recs), 1})

\* Every way to look a record up gives what the sorted sequence of the records
\* has at that key or index, with any content of the record cache.
LookupsAreExact == SearchIsExact /\ JumpsAreExact

\* An iterator never refers to a record of a file that was replaced: it still
\* is at the record it was moved to, or was cleared.
IteratorIsCurrent ==
  phase = "open" /\ it.off # 0 =>
    /\ it.index = it.off - 1
    /\ it.key = IF it.off <= Len(file.recs) THEN file.recs[it.off].key ELSE 0
=============================================================================

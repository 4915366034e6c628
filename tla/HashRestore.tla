------------------------------ MODULE HashRestore ------------------------------
(***************************************************************************)
(* What HashDBM::Open does with the file it finds: accept it, validate its     *)
(* records and accept it, or replay the records that can be salvaged into a    *)
(* new file that replaces it.  The restore mode is "DEFAULT" or "SYNC".          *)
(***************************************************************************)
EXTENDS HashFile

\* Bytes from the start of record i to the start of record j.
Distance(recs, i, j) == SumFunctionOnSet([n \in DOMAIN recs |-> recs[n].size], i .. j - 1)

\* CheckZeroRegion from record o on: it reads at most MaxCheckSize bytes.
ZeroRegion(f, o) ==
  \A j \in o .. Len(f.recs) :
    Distance(f.recs, o, j) < MaxCheckSize => f.recs[j].op = "ZERO"

-----------------------------------------------------------------------------
(* ValidateRecordsImpl.                                                      *)

\* The record is in the chain of its bucket, or, in appending mode, a newer
\* record with its key comes first in the chain.
OnChain(f, mode, o, c) ==
  LET k == f.recs[o].key
      stop == {i \in DOMAIN c : \/ c[i] = o
                                \/ /\ mode = "APPENDING" /\ c[i] > o
                                   /\ Readable(f, c[i]) /\ f.recs[c[i]].key = k}
  IN  /\ stop # {}
      /\ \A i \in 1 .. Min(stop) - 1 :
           Readable(f, c[i]) /\ BucketOf(f, f.recs[c[i]].key) = BucketOf(f, k)
CheckHashChain(f, mode, o) == OnChain(f, mode, o, Chain(f, BucketOf(f, f.recs[o].key)))

CheckChild(f, o) ==
  LET c == f.recs[o].child
  IN  c # 0 => Readable(f, c) /\ BucketOf(f, f.recs[c].key) = BucketOf(f, f.recs[o].key)

\* Mutant: a SET record counts in both modes.
Counted_both(rec, mode) ==
  CASE rec.op \in {"ADD", "SET"} -> 1 [] rec.op = "REMOVE" -> -1 [] OTHER -> 0
\* What one record adds to act_count.
Counted(rec, mode) ==
  CASE rec.op = "ADD" -> 1
    [] rec.op = "SET" -> IF mode = "IN_PLACE" THEN 1 ELSE 0
    [] rec.op = "REMOVE" -> -1
    [] OTHER -> 0

\* act_count after the records.
ActCount(recs, mode) ==
  LET count[i \in 0 .. Len(recs)] ==
        IF i = 0 THEN 0 ELSE count[i - 1] + Counted(recs[i], mode)
  IN  count[Len(recs)]

\* The records from base to end, after which the file has only zeros.
ValidateTo(f, mode, base, end) ==
  [ok |-> /\ end < Len(f.recs) => ZeroRegion(f, end + 1)
          /\ \A i \in base .. end :
               f.recs[i].op # "VOID" => CheckHashChain(f, mode, i) /\ CheckChild(f, i),
   end |-> end,
   count |-> ActCount(SubSeq(f.recs, base, end), mode)]

\* The first unreadable record from i on, or the end of the file.
FirstHole(f, i) == Min({j \in i .. Len(f.recs) : ~Readable(f, j)} \cup {Len(f.recs) + 1})

Validate(f, mode, base) == ValidateTo(f, mode, base, FirstHole(f, base) - 1)

-----------------------------------------------------------------------------
(* RestoreDatabase.                                                          *)

\* FindNextOffset takes a record for one when enough records follow it, or when
\* one that follows it ends where the file ends.
Trusted(f, j) ==
  LET n == FirstHole(f, j + 1) - j - 1
  IN  /\ Readable(f, j)
      /\ \/ n >= ValidationCount
         \/ n >= 1 /\ j + n = Len(f.recs) /\ ~f.tail

\* Where reading continues after the unreadable record z, as a set.
FindNextOffset(f, z) ==
  LET next == {j \in z + 1 .. Len(f.recs) :
                 Trusted(f, j) /\ Distance(f.recs, z, j) <= MaxShift}
  IN  IF next = {} THEN {} ELSE {Min(next)}

\* The records that ReplayOperations and ExtractOffsets visit.
Visited(f) ==
  LET visit[i \in 1 .. Len(f.recs)] ==
        \/ i = 1
        \/ Readable(f, i - 1) /\ visit[i - 1]
        \/ \E z \in 1 .. i - 1 : /\ ~Readable(f, z) /\ i \in FindNextOffset(f, z)
                                 /\ visit[z]
  IN  visit

\* The records up to end, those that are not visited as ZERO records.
Salvaged(f, end) ==
  LET visit == Visited(f)
  IN  [i \in 1 .. end |-> IF visit[i] THEN f.recs[i] ELSE Zero(1)]

IsOperation(rec) == rec.op \notin {"ZERO", "VOID"}

Request(rec) == IF IsSet(rec) THEN rec.val ELSE RemoveReq

Replay(s, mode, rec) ==
  IF IsOperation(rec) THEN Process(s, mode, rec.key, Request(rec)) ELSE s

\* Oldest first; a later operation overrides an earlier one.
ImportForward(s, mode, recs) ==
  LET after[i \in 0 .. Len(recs)] ==
        IF i = 0 THEN s ELSE Replay(after[i - 1], mode, recs[i])
  IN  after[Len(recs)]

\* Newest first; the first operation met for a key is the one that counts.
Recall(acc, mode, rec) ==
  LET set == Lookup(acc.s.f, rec.key) # None
  IN  IF ~IsOperation(rec) THEN acc
      ELSE IF ~IsSet(rec) THEN [acc EXCEPT !.dead = IF set THEN @ ELSE @ \cup {rec.key}]
      ELSE IF set \/ rec.key \in acc.dead THEN acc
      ELSE [acc EXCEPT !.s = Process(@, mode, rec.key, rec.val)]

ImportBackward(s, mode, recs) ==
  LET after[i \in 0 .. Len(recs)] ==
        IF i = 0 THEN [s |-> s, dead |-> {}]
        ELSE Recall(after[i - 1], mode, recs[Len(recs) + 1 - i])
  IN  after[Len(recs)].s

NewFile(mode, layout) == [f |-> EmptyFile(mode, layout), pool |-> {}, num |-> 0]
Saved(s) == [s.f EXCEPT !.num = s.num, !.size = Len(s.f.recs), !.pool = Serialize(s.pool)]

Import(f, recs) ==
  Saved(IF f.mode = "APPENDING"
        THEN ImportBackward(NewFile(f.mode, f.layout), f.mode, recs)
        ELSE ImportForward(NewFile(f.mode, f.layout), f.mode, recs))

\* Mutant: the end offset of RESTORE_SYNC is ignored.
RestoreDatabase_all(f, restore) == Import(f, Salvaged(f, Len(f.recs)))

\* The new file, closed, that takes the place of the old one.
RestoreDatabase(f, restore) ==
  Import(f, Salvaged(f, IF restore = "SYNC" /\ f.size < Len(f.recs)
                             THEN f.size ELSE Len(f.recs)))

-----------------------------------------------------------------------------
(* Open: the file to go on with, and num_records_ and the pool in memory.    *)

Opened(f, num, pool) == [restore |-> FALSE, f |-> f, num |-> num, pool |-> pool]

\* OpenImpl cuts zeros behind the recorded size, and is content with a file that
\* was closed and has the recorded size.
TrimTail(f) == IF f.size <= Len(f.recs) /\ ZeroRegion(f, f.size + 1)
               THEN Truncate(f, f.size) ELSE f
SizeMatches(f) == f.size = Len(f.recs) /\ ~f.tail

Reopen(f, restore, healthy, base, check) ==
  IF healthy
  THEN Opened([f EXCEPT !.closed = FALSE], f.num, IF f.mode = "IN_PLACE" THEN f.pool ELSE {})
  ELSE IF f.mode = "APPENDING" /\ SizeMatches(f) THEN Opened(f, f.num, {})
  ELSE IF restore = "DEFAULT" /\ f.size <= Len(f.recs) /\ check.ok
  THEN Opened(Truncate(f, check.end), (IF base = 1 THEN 0 ELSE f.num) + check.count, {})
  ELSE [restore |-> TRUE, f |-> RestoreDatabase(f, restore), num |-> 0, pool |-> {}]

\* In appending mode only the records behind the recorded size are validated.
OpenTrimmed(f, restore, base) ==
  Reopen(f, restore, f.closed /\ SizeMatches(f), base, Validate(f, f.mode, base))

Open(file, restore) ==
  LET f == TrimTail(file)
  IN  OpenTrimmed(f, restore, IF f.mode = "IN_PLACE" THEN 1 ELSE f.size + 1)
=============================================================================

----------------------------- MODULE HashRebuild -----------------------------
(***************************************************************************)
(* The operations of a HashDBM that meet all of its records while updates go   *)
(* on: Rebuild, which copies the file and catches up with what was appended to *)
(* it meanwhile, ProcessEach, an iterator, and Clear.  They are added to the   *)
(* threads, the crashes and the exclusive operations of HashDBM.               *)
(***************************************************************************)
EXTENDS HashDBM, SequencesExt

CONSTANTS
  MaxTries,   \* REBUILD_NONBLOCKING_MAX_TRIES
  Allowance,  \* REBUILD_BLOCKING_ALLOWANCE, in records
  Extras      \* for each limit, what else a behaviour may do

\* The updates that filled the database before, how many rebuilds, failures of
\* a rebuild, scans, calls of the iterator and clears there are, and the update
\* modes a rebuild is asked for.
Extra == [fill : Seq(Keys \X Values), rebuilds : Nat, fails : Nat, scans : Nat,
          calls : Nat, clears : Nat, targets : SUBSET {"IN_PLACE", "APPENDING"}]

ASSUME RebuildAssumption ==
  /\ {MaxTries, Allowance} \subseteq Nat /\ Keys \subseteq Nat /\ Buckets \subseteq Nat
  /\ DOMAIN Extras = Limits
  /\ \A l \in Limits : \A x \in Extras[l] : x \in Extra

VARIABLES
  reb,   \* RebuildImpl: the next step, tmp_dbm, begin_offset, end_offset, num_tries;
         \* then: history, the content when end_offset was taken
  scan,  \* ProcessEach: whether it waits, the way it chose, what it met
  it,    \* HashDBMIteratorImpl: bucket_index_ (0: cancelled), keys_, the call it is
         \* in; and, as history, what it passed since First
  stay,  \* history: the keys there have been since before the first bucket was read
  more   \* what may still be done

NoRebuild == [pc |-> "idle"]
NoScan == [pc |-> "idle"]
NoIterator == [pc |-> "idle", bucket |-> 0, claimed |-> 0, keys |-> {}, jump |-> {},
               passed |-> {}, twice |-> FALSE, whole |-> FALSE, complete |-> FALSE]

Filled(mode, fill) ==
  Saved(FoldLeft(LAMBDA s, u : Process(s, mode, u[1], u[2]), NewFile(mode, 1), fill))

RebuildInit ==
  /\ left \in Limits
  /\ more \in Extras[left]
  /\ Start(Filled(left.mode, more.fill))
  /\ reb = NoRebuild /\ scan = NoScan /\ it = NoIterator /\ stay = {}

\* A rebuild that has renamed its file holds the exclusive lock of all buckets.
Unlocked == reb.pc # "reopen"

\* Nobody else holds the shared lock of the database.
Alone == reb.pc = "idle" /\ scan.pc = "idle" /\ it.pc = "idle"

CancelIterators(i) == [i EXCEPT !.bucket = 0]

-----------------------------------------------------------------------------
(* RebuildImpl.                                                              *)

\* The records from i to j; the imports pass over the void ones.
Operations(f, i, j) == SubSeq(f.recs, i, j)
Written(f, i, j) == \A n \in i .. j : Readable(f, n)
Forward(s, f, i, j) == ImportForward(s, "IN_PLACE", Operations(f, i, j))

\* All updates append from here on, under the exclusive lock of all buckets.
RebuildBegin ==
  /\ phase = "open" /\ Quiet /\ reb.pc = "idle" /\ more.rebuilds > 0
  /\ reb' = [pc |-> "import", inplace |-> (mem.mode = "IN_PLACE"),
             tmp |-> NewFile("IN_PLACE", 3 - file.layout),
             begin |-> 1, end |-> Len(file.recs), tries |-> 0, then |-> view]
  /\ mem' = [mem EXCEPT !.mode = "APPENDING"]
  /\ more' = [more EXCEPT !.rebuilds = @ - 1]
  /\ UNCHANGED <<file, phase, pc, plan, left, synced, scan, it>>

\* The records there were, without a lock.
RebuildImport ==
  /\ reb.pc = "import" /\ Written(file, 1, reb.end)
  /\ reb' = [reb EXCEPT
       !.tmp = IF reb.inplace THEN Forward(@, file, 1, reb.end)
               ELSE ImportBackward(@, "IN_PLACE", Operations(file, 1, reb.end)),
       !.begin = reb.end + 1, !.pc = "look"]
  /\ UNCHANGED <<file, phase, mem, pc, plan, left, synced, scan, it, more>>

\* Where the file ends now.
Look(r) ==
  IF r.tries = MaxTries \/ r.begin + Allowance > Len(file.recs)
  THEN [r EXCEPT !.pc = "finish"]
  ELSE [r EXCEPT !.pc = "again", !.end = Len(file.recs), !.then = view]

\* Mutant: the size is taken while threads are inside an update.
RebuildLook_unlocked ==
  /\ reb.pc = "look"
  /\ reb' = Look(reb)
  /\ UNCHANGED <<file, phase, mem, pc, plan, left, synced, scan, it, more>>

\* The size of the file is taken under the shared lock of all buckets.
RebuildLook ==
  /\ reb.pc = "look" /\ Quiet
  /\ reb' = Look(reb)
  /\ UNCHANGED <<file, phase, mem, pc, plan, left, synced, scan, it, more>>

\* The records that were appended, without a lock.
RebuildAgain ==
  /\ reb.pc = "again" /\ Written(file, reb.begin, reb.end)
  /\ reb' = [reb EXCEPT !.tmp = Forward(@, file, reb.begin, reb.end),
                        !.begin = reb.end + 1, !.tries = @ + 1, !.pc = "look"]
  /\ UNCHANGED <<file, phase, mem, pc, plan, left, synced, scan, it, more>>

\* tmp_dbm after the last import, SetUpdateModeAppending and Close.
Rebuilt(target, rest) ==
  [Saved(Forward(reb.tmp, file, reb.begin, rest)) EXCEPT !.mode = target]

\* Mutant: what was appended since the last look is left behind.
RebuildFinish_early ==
  /\ reb.pc = "finish" /\ Quiet
  /\ \E target \in more.targets : file' = Rebuilt(target, reb.begin - 1)
  /\ reb' = [pc |-> "reopen"]
  /\ mem' = [mem EXCEPT !.pool = {}]
  /\ it' = CancelIterators(it)
  /\ UNCHANGED <<phase, pc, plan, left, synced, scan, more>>

\* Mutant: iterators go on in the new file.
RebuildFinish_keepsIterators ==
  /\ reb.pc = "finish" /\ Quiet
  /\ \E target \in more.targets : file' = Rebuilt(target, Len(file.recs))
  /\ reb' = [pc |-> "reopen"]
  /\ mem' = [mem EXCEPT !.pool = {}]
  /\ UNCHANGED <<phase, pc, plan, left, synced, scan, it, more>>

\* The exclusive lock of all buckets is taken, the rest is imported, and the new
\* file gets the name of the old one.
RebuildFinish ==
  /\ reb.pc = "finish" /\ Quiet
  /\ \E target \in more.targets : file' = Rebuilt(target, Len(file.recs))
  /\ reb' = [pc |-> "reopen"]
  /\ mem' = [mem EXCEPT !.pool = {}]
  /\ it' = CancelIterators(it)
  /\ UNCHANGED <<phase, pc, plan, left, synced, scan, more>>

\* OpenImpl with the new file.
RebuildReopen ==
  /\ reb.pc = "reopen"
  /\ LET o == Open(file, left.restore)
     IN  file' = o.f /\ mem' = [mode |-> o.f.mode, num |-> o.num, pool |-> o.pool]
  /\ reb' = NoRebuild
  /\ UNCHANGED <<phase, pc, plan, left, synced, scan, it, more>>

\* An import or a step before the rename fails: CleanUp removes the new file, and
\* the database stays in appending mode.
RebuildFail ==
  /\ reb.pc \in {"import", "again", "finish"} /\ more.fails > 0
  /\ reb.pc = "finish" => Quiet
  /\ reb' = NoRebuild
  /\ more' = [more EXCEPT !.fails = @ - 1]
  /\ UNCHANGED <<file, phase, mem, pc, plan, left, synced, scan, it>>

-----------------------------------------------------------------------------
(* ProcessEach of a reader.                                                  *)

\* The keys with a live record among the ones the bucket's chain meets.
BucketKeys(b) == {k \in Keys : BucketOf(file, k) = b /\ Lookup(file, k) # None}

\* What the scan of the record section meets, and what that of the buckets does.
SectionRecords ==
  LET recs == SelectSeq(file.recs, IsSet)
  IN  [i \in DOMAIN recs |-> <<recs[i].key, recs[i].val>>]
BucketRecords ==
  SetToSeq(UNION {{<<k, Lookup(file, k)>> : k \in BucketKeys(b)} : b \in Buckets})

\* The way is chosen by the update mode, before the buckets are locked.
EachBegin ==
  /\ phase = "open" /\ scan.pc = "idle" /\ more.scans > 0
  /\ scan' = [pc |-> "wait", inplace |-> (mem.mode = "IN_PLACE")]
  /\ more' = [more EXCEPT !.scans = @ - 1]
  /\ UNCHANGED <<file, phase, mem, pc, plan, left, synced, reb, it>>

EachRun ==
  /\ scan.pc = "wait" /\ Quiet /\ Unlocked
  /\ scan' = [pc |-> "idle", met |-> IF scan.inplace THEN SectionRecords ELSE BucketRecords,
              view |-> view]
  /\ UNCHANGED <<file, phase, mem, pc, plan, left, synced, reb, it, more>>

-----------------------------------------------------------------------------
(* The iterator.                                                             *)

LastBucket == Max(Buckets)

\* A call begins; it holds the shared lock of the database until it returns.
Call(i) ==
  /\ phase = "open" /\ it.pc = "idle" /\ more.calls > 0
  /\ it' = i
  /\ more' = [more EXCEPT !.calls = @ - 1]
  /\ UNCHANGED <<file, phase, mem, pc, plan, left, synced, reb, scan>>

ItFirst == Call([NoIterator EXCEPT !.bucket = 1, !.whole = TRUE])

\* The bucket of the key is where the reading starts.
ItJump ==
  /\ Unlocked
  /\ \E k \in left.keys :
       /\ \A t \in Threads : \A p \in plan[t] : BucketOf(file, p.key) # BucketOf(file, k)
       /\ Call([NoIterator EXCEPT !.bucket = BucketOf(file, k), !.pc = "claim", !.jump = {k}])

\* Next and a reading Process, with ReadKeys.
ItNext == it.bucket # 0 /\ Call([it EXCEPT !.pc = IF it.keys = {} THEN "claim" ELSE "return"])

\* ReadNextBucketRecords: the next bucket, or the end.
ItClaim ==
  /\ it.pc = "claim"
  /\ it' = IF it.bucket \in Buckets
           THEN [it EXCEPT !.bucket = @ + 1, !.claimed = it.bucket, !.pc = "scan"]
           ELSE [it EXCEPT !.bucket = 0, !.pc = "idle",
                           !.complete = it.whole /\ it.bucket > LastBucket]
  /\ UNCHANGED <<file, phase, mem, pc, plan, left, synced, reb, scan, more>>

\* Its keys, under the shared lock of the bucket.
ItScan ==
  /\ it.pc = "scan" /\ Unlocked
  /\ \A t \in Threads : \A p \in plan[t] : BucketOf(file, p.key) # it.claimed
  /\ it' = [it EXCEPT !.keys = BucketKeys(it.claimed),
                      !.pc = IF BucketKeys(it.claimed) = {} THEN "claim" ELSE "return"]
  /\ UNCHANGED <<file, phase, mem, pc, plan, left, synced, reb, scan, more>>

\* Next goes past the first key; Jump goes to its key or nowhere.
ItReturn ==
  /\ it.pc = "return"
  /\ it' = IF it.jump = {}
           THEN [it EXCEPT !.keys = @ \ {Min(@)}, !.passed = @ \cup {Min(it.keys)},
                           !.twice = @ \/ (it.bucket # 0 /\ Min(it.keys) \in it.passed),
                           !.pc = "idle"]
           ELSE IF it.jump \subseteq it.keys
           THEN [it EXCEPT !.keys = {k \in @ : k >= Min(it.jump)}, !.jump = {}, !.pc = "idle"]
           ELSE NoIterator
  /\ UNCHANGED <<file, phase, mem, pc, plan, left, synced, reb, scan, more>>

-----------------------------------------------------------------------------

\* CloseImpl, which forgets the free block pool in either mode, Truncate and
\* OpenImpl, under the exclusive lock of the database.
Clear ==
  /\ phase = "open" /\ Quiet /\ Alone /\ more.clears > 0
  /\ file' = [EmptyFile(mem.mode, file.layout) EXCEPT !.closed = FALSE]
  /\ mem' = [mem EXCEPT !.num = 0, !.pool = {}]
  /\ synced' = [k \in Keys |-> None]
  /\ it' = CancelIterators(it)
  /\ more' = [more EXCEPT !.clears = @ - 1]
  /\ UNCHANGED <<phase, pc, plan, left, reb, scan>>

\* Closing cancels the iterators; the process takes everything with it.
CloseAll == Alone /\ CloseMetadata /\ it' = CancelIterators(it) /\ UNCHANGED <<reb, scan, more>>
CrashAll == Crash /\ reb' = NoRebuild /\ scan' = NoScan /\ it' = NoIterator /\ UNCHANGED more

Rebuild == \/ RebuildBegin \/ RebuildImport \/ RebuildLook \/ RebuildAgain
           \/ RebuildFinish \/ RebuildReopen \/ RebuildFail
Iterate == ItFirst \/ ItJump \/ ItNext \/ ItClaim \/ ItScan \/ ItReturn
Update == /\ Unlocked /\ \E t \in Threads : Step(t)
          /\ UNCHANGED <<reb, scan, it, more>>
Others == /\ \/ OpenFile \/ CloseFBP \/ SyncEnd
             \/ Alone /\ (SyncBegin \/ SetUpdateModeAppending)
          /\ UNCHANGED <<reb, scan, it, more>>

RebuildNext ==
  /\ Rebuild \/ EachBegin \/ EachRun \/ Iterate \/ Clear \/ Update \/ Others \/ CloseAll \/ CrashAll
  /\ view' = ViewOf(phase', file')
  /\ stay' = {k \in Keys : view'[k] # None /\ (k \in stay \/ it'.bucket = 1)}

allVars == <<vars, reb, scan, it, stay, more>>
RebuildSpec == RebuildInit /\ [][RebuildNext]_allVars

-----------------------------------------------------------------------------
(* Correctness.  The invariants of HashDBM and its refinement of KVStore are     *)
(* checked of this specification as well.                                        *)

\* What a rebuild imports without a lock has been written: the ends it works
\* with were taken when no thread was between reserving space and filling it.
ImportsAreWritten ==
  reb.pc \in {"import", "again"} => Written(file, reb.begin, reb.end)

\* After each import tmp_dbm holds what the database held when the end of that
\* import was taken: nothing a thread did since leaked into it or was lost.
CopyIsFaithful ==
  reb.pc \in {"look", "finish"} =>
    /\ Content(reb.tmp.f) = reb.then
    /\ reb.tmp.num = Cardinality({k \in Keys : reb.then[k] # None})

\* A rebuild beside updates imports only what was written, into a copy of one
\* state of the database, and Count stays exact through swap and failure
\* (RebuildImpl).
RebuildIsFaithful == TypeOK /\ ImportsAreWritten /\ CopyIsFaithful /\ NumIsExact

\* ProcessEach meets every record of one state of the database once.
EachIsExact ==
  "met" \in DOMAIN scan =>
    /\ ToSet(scan.met) = {<<k, scan.view[k]>> : k \in {k \in Keys : scan.view[k] # None}}
    /\ IsInjective(scan.met)

\* An iteration that started with First and came to the end has met every key
\* that was there all the time; and unless a rebuild cancels it, it meets no key
\* twice.
IterationIsExact == ~it.twice /\ (it.complete => stay \subseteq it.passed)

\* Updates and rebuilds beside them hide no record from ProcessEach or from an
\* iterator, and show none twice.
EveryRecordIsMet == EachIsExact /\ IterationIsExact
=============================================================================

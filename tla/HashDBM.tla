------------------------------- MODULE HashDBM -------------------------------
(***************************************************************************)
(* A HashDBM used by several threads and stopped by crashes of the process.   *)
(* A write that reached the file survives such a crash; the memory does not.  *)
(* Each step of ProcessImpl that writes to the file is an action, so a crash  *)
(* and the steps of threads working on other buckets come between them.       *)
(***************************************************************************)
EXTENDS HashRestore

CONSTANTS
  Threads,
  Limits    \* what a behaviour may do: see Limit

\* The mode a file is created in, the restore mode, the keys and requests, whether
\* one thread at a time is inside ProcessImpl, how many operations, crashes,
\* synchronizations and switches of the mode there are, and whether the process
\* may die inside Close or Synchronize.
Limit == [mode : {"IN_PLACE", "APPENDING"}, restore : {"DEFAULT", "SYNC"},
          keys : SUBSET Keys, inputs : SUBSET Requests, lone : BOOLEAN, ops : Nat,
          crashes : Nat, syncs : Nat, switches : Nat, closing : BOOLEAN]

ASSUME DBMAssumption == Limits \subseteq Limit

VARIABLES
  file,     \* the file
  phase,    \* "down", "open", "syncing" (metadata says closed), "closing"
  mem,      \* what HashDBMImpl keeps: mode, num_records_, fbp_
  pc,       \* the next step of each thread
  plan,     \* the operation each thread is in, as a set
  left,     \* what may still be done
  synced,   \* history: the content when the metadata were last saved as closed
  view      \* history: the content a reader sees, or would see after an Open

vars == <<file, phase, mem, pc, plan, left, synced, view>>

NoMem == [mode |-> "IN_PLACE", num |-> 0, pool |-> {}]

\* The database f exists and is closed.
Start(f) ==
  /\ file = f
  /\ phase = "down"
  /\ mem = NoMem
  /\ pc = [t \in Threads |-> "idle"]
  /\ plan = [t \in Threads |-> {}]
  /\ synced = Content(f)
  /\ view = Content(f)

Init == left \in Limits /\ Start(EmptyFile(left.mode, 1))

Quiet == \A t \in Threads : pc[t] = "idle"

-----------------------------------------------------------------------------
(* ProcessImpl, under the shared lock of the database and the exclusive lock *)
(* of the bucket.                                                            *)

FirstStep(p) == CASE p.kind = "remove" -> "link"
                  [] p.into # 0 -> "write"
                  [] OTHER -> "reserve"

Begin(t) ==
  /\ phase = "open" /\ pc[t] = "idle" /\ left.ops > 0
  /\ left.lone => Quiet
  /\ \E k \in left.keys, req \in left.inputs :
       LET p == Plan(file, mem.pool, mem.mode, k, req)
       IN  /\ \A s \in Threads : \A q \in plan[s] : BucketOf(file, q.key) # BucketOf(file, k)
           /\ p.kind # "noop"
           /\ plan' = [plan EXCEPT ![t] = {p}]
           /\ pc' = [pc EXCEPT ![t] = FirstStep(p)]
           /\ mem' = [mem EXCEPT !.pool = @ \ p.free]
  /\ left' = [left EXCEPT !.ops = @ - 1]
  /\ UNCHANGED <<file, phase, synced>>

\* File::Append advances the end of the file, then writes.
Reserve(t) ==
  /\ pc[t] = "reserve"
  /\ file' = [file EXCEPT !.recs = Append(@, Zero((CHOOSE p \in plan[t] : TRUE).new.size))]
  /\ plan' = [plan EXCEPT ![t] = {[p EXCEPT !.into = Len(file.recs) + 1] : p \in @}]
  /\ pc' = [pc EXCEPT ![t] = "write"]
  /\ UNCHANGED <<phase, mem, left, synced>>

Write(t) ==
  /\ pc[t] = "write"
  /\ \E p \in plan[t] :
       /\ file' = WriteRecord(file, p, p.into)
       /\ pc' = [pc EXCEPT ![t] = IF p.kind = "overwrite" THEN "finish" ELSE "link"]
  /\ UNCHANGED <<phase, mem, plan, left, synced>>

Link(t) ==
  /\ pc[t] = "link"
  /\ \E p \in plan[t] :
       /\ file' = LinkRecord(file, p, IF p.kind = "remove" THEN p.next ELSE p.into)
       /\ pc' = [pc EXCEPT ![t] = IF p.kind \in {"remove", "move"} THEN "void" ELSE "finish"]
  /\ UNCHANGED <<phase, mem, plan, left, synced>>

VoidOld(t) ==
  /\ pc[t] = "void"
  /\ \E p \in plan[t] : file' = VoidRecord(file, p)
  /\ pc' = [pc EXCEPT ![t] = "finish"]
  /\ UNCHANGED <<phase, mem, plan, left, synced>>

\* The free block, the counter, and the locks.
Finish(t) ==
  /\ pc[t] = "finish"
  /\ \E p \in plan[t] :
       mem' = [mem EXCEPT
                 !.num = @ + CountChange(p),
                 !.pool = IF p.kind \in {"remove", "move"}
                          THEN InsertFreeBlock(@, p.at, p.oldsize) ELSE @]
  /\ pc' = [pc EXCEPT ![t] = "idle"]
  /\ plan' = [plan EXCEPT ![t] = {}]
  /\ UNCHANGED <<file, phase, left, synced>>

-----------------------------------------------------------------------------
(* Operations under the exclusive lock of the database.                      *)

SaveMetadata(f, finish) ==
  [f EXCEPT !.closed = finish, !.num = IF mem.num < 0 THEN 0 ELSE mem.num,
            !.mode = mem.mode, !.size = Len(f.recs)]

OpenFile ==
  /\ phase = "down"
  /\ LET o == Open(file, left.restore)
     IN  /\ file' = o.f
         /\ IF o.restore THEN UNCHANGED <<phase, mem>>
            ELSE /\ phase' = "open"
                 /\ mem' = [mode |-> o.f.mode, num |-> o.num, pool |-> o.pool]
  /\ UNCHANGED <<pc, plan, left, synced>>

SyncBegin ==
  /\ phase = "open" /\ Quiet /\ left.syncs > 0
  /\ file' = SaveMetadata(file, TRUE)
  /\ phase' = "syncing"
  /\ left' = [left EXCEPT !.syncs = @ - 1]
  /\ synced' = Content(file)
  /\ UNCHANGED <<mem, pc, plan>>

SyncEnd ==
  /\ phase = "syncing"
  /\ file' = SaveMetadata(file, FALSE)
  /\ phase' = "open"
  /\ UNCHANGED <<mem, pc, plan, left, synced>>

CloseMetadata ==
  /\ phase = "open" /\ Quiet
  /\ file' = SaveMetadata(file, TRUE)
  /\ phase' = "closing"
  /\ synced' = Content(file)
  /\ UNCHANGED <<mem, pc, plan, left>>

CloseFBP ==
  /\ phase = "closing"
  /\ file' = [file EXCEPT !.pool = Serialize(mem.pool)]
  /\ phase' = "down"
  /\ mem' = NoMem
  /\ UNCHANGED <<pc, plan, left, synced>>

SetUpdateModeAppending ==
  /\ phase = "open" /\ Quiet /\ left.switches > 0 /\ mem.mode = "IN_PLACE"
  /\ mem' = [mem EXCEPT !.mode = "APPENDING"]
  /\ left' = [left EXCEPT !.switches = @ - 1]
  /\ UNCHANGED <<file, phase, pc, plan, synced>>

\* The process dies.  Space allocated in advance stays at the end of the file.
Crash ==
  /\ phase # "down" /\ left.crashes > 0
  /\ phase # "open" => left.closing
  /\ \E tail \in BOOLEAN : file' = [file EXCEPT !.tail = tail]
  /\ phase' = "down"
  /\ mem' = NoMem
  /\ pc' = [t \in Threads |-> "idle"]
  /\ plan' = [t \in Threads |-> {}]
  /\ left' = [left EXCEPT !.crashes = @ - 1]
  /\ UNCHANGED synced

Step(t) ==
  Begin(t) \/ Reserve(t) \/ Write(t) \/ Link(t) \/ VoidOld(t) \/ Finish(t)

ViewOf(p, f) == Content(IF p = "down" THEN Open(f, left.restore).f ELSE f)

Exclusive ==
  OpenFile \/ SyncBegin \/ SyncEnd \/ CloseMetadata \/ CloseFBP \/ SetUpdateModeAppending

Next ==
  /\ (\E t \in Threads : Step(t)) \/ Exclusive \/ Crash
  /\ view' = ViewOf(phase', file')

Spec == Init /\ [][Next]_vars

-----------------------------------------------------------------------------
(* Correctness.                                                              *)

\* Every variable has its type: offsets are positions of the file or null, and
\* every thread that is inside ProcessImpl has exactly one operation.
TypeOK ==
  /\ \A i \in DOMAIN file.recs :
       /\ file.recs[i].op \in {"ADD", "SET", "REMOVE", "VOID", "ZERO"}
       /\ file.recs[i].child \in 0 .. Len(file.recs)
  /\ file.bucket \in [Buckets -> 0 .. Len(file.recs)]
  /\ phase \in {"down", "open", "syncing", "closing"}
  /\ \A t \in Threads : IF pc[t] = "idle" THEN plan[t] = {} ELSE \E p \in plan[t] : plan[t] = {p}

\* num_records_, which Count returns, is never negative, and is the number of
\* records a reader finds whenever no update is running, also after the counts
\* were recomputed by Open.
NumIsExact ==
  /\ mem.num \in Nat
  /\ phase = "open" /\ Quiet =>
       mem.num = Cardinality({k \in Keys : Lookup(file, k) # None})

\* A block of the free block pool is a void record of the block's size, and
\* nobody is writing to it: what FetchFreeBlock hands out overlaps nothing.
FreeBlocksAreVoid ==
  phase = "open" /\ mem.mode = "IN_PLACE" =>
    \A x \in mem.pool :
      /\ x.off \in DOMAIN file.recs
      /\ file.recs[x.off].op = "VOID" /\ file.recs[x.off].size = x.size
      /\ \A t \in Threads : \A p \in plan[t] : p.into # x.off

\* No lookup runs into a record that is missing or was never written.
ChainsReadable ==
  phase # "down" =>
    \A b \in Buckets : LET c == Chain(file, b)
                       IN  \A i \in DOMAIN c : c[i] # 0 => Readable(file, c[i])

\* ValidateRecords succeeds on every database that no update is changing, and
\* finds as many records as Count reports, unless its mode was switched or it is
\* an appending one that was rebuilt, whose first records were written in place.
ValidatePasses ==
  phase = "open" /\ Quiet /\ mem.mode = left.mode
  /\ (mem.mode = "APPENDING" => file.layout = 1) =>
    LET v == Validate(file, mem.mode, 1)
    IN  v.ok /\ v.end = Len(file.recs) /\ v.count = mem.num

\* The file and the free block pool are sound at every step of every thread:
\* no lookup meets an unfinished record, no free block is in use.
FileIsSound == TypeOK /\ ChainsReadable /\ FreeBlocksAreVoid

\* Count, the records a reader finds and what ValidateRecords counts agree,
\* after updates, switches of the mode, crashes and restorations.
CountsAgree == NumIsExact /\ ValidatePasses

\* With restore mode RESTORE_SYNC an appending database that was not closed
\* comes back with the content of the last Synchronize or Close.
SyncRecovers ==
  left.restore = "SYNC" /\ file.mode = "APPENDING" /\ phase = "down" => view = synced

Pending == [t \in Threads |-> {[key |-> p.key, old |-> p.oldval, val |-> p.val] : p \in plan[t]}]

Abstract == INSTANCE KVStore WITH
  kv <- view, saved <- synced, pend <- Pending, up <- (phase # "down"),
  strict <- (left.restore = "SYNC")

\* Updates are atomic.  A crash loses no finished update; with RESTORE_SYNC it
\* loses exactly what came after the last Synchronize or Close.
ImplementsKVStore == Abstract!Spec
=============================================================================

---------------------------- MODULE HashDBM_proofs ----------------------------
(***************************************************************************)
(* The file and the free block pool of a HashDBM are sound at every step of    *)
(* every thread, whatever the number of threads, keys and buckets.             *)
(***************************************************************************)
EXTENDS HashDBM, HashRestore_proofs

\* The operation p of a thread whose next step is s.
InStep(f, s, p) ==
  /\ s \in {"reserve", "write", "link", "void", "finish"}
  /\ s = "reserve" => p.kind # "remove" /\ p.into = 0
  /\ s = "write" => p.kind # "remove" /\ p.into # 0
  /\ s = "link" /\ p.kind # "remove" => Readable(f, p.into)
  /\ s = "void" => p.kind \in {"remove", "move"}
  /\ s = "finish" /\ p.kind \in {"remove", "move"} =>
       f.recs[p.at].op = "VOID" /\ f.recs[p.at].size = p.oldsize

\* Operations of two threads touch different records, in different buckets.
Apart(f, p, q) ==
  /\ BucketOf(f, p.key) # BucketOf(f, q.key)
  /\ p.at # 0 => p.at # q.at /\ p.at # q.into
  /\ p.into # 0 => p.into # q.at /\ p.into # q.into

PlansAreSound ==
  /\ pc \in [Threads -> {"idle", "reserve", "write", "link", "void", "finish"}]
  /\ plan \in [Threads -> SUBSET OperationSet]
  /\ \A t \in Threads : pc[t] = "idle" => plan[t] = {}
  /\ \A t \in Threads : pc[t] # "idle" =>
       \E p \in OperationSet : plan[t] = {p} /\ Feasible(file, p) /\ InStep(file, pc[t], p)
  /\ \A t, u \in Threads : t # u =>
       \A p \in plan[t], q \in plan[u] : Apart(file, p, q)

PoolIsSound ==
  /\ DOMAIN mem = {"mode", "num", "pool"}
  /\ mem.mode \in Modes /\ mem.num \in Int
  /\ VoidBlocks(file, mem.pool)
  /\ \A x \in mem.pool : \A t \in Threads : \A p \in plan[t] : x.off # p.at /\ x.off # p.into

\* What Open relies on.
ClosedIsSound ==
  /\ left \in Limit /\ (left.closing => left.mode = "APPENDING")
  /\ phase \in {"down", "open", "syncing", "closing"}
  /\ phase # "open" => Quiet
  /\ phase # "down" => ~file.tail
  /\ left.mode = "APPENDING" =>
       file.mode = "APPENDING" /\ (phase # "down" => mem.mode = "APPENDING")
  /\ phase = "down" => mem.pool = {}
  /\ file.mode = "IN_PLACE" =>
       /\ phase = "open" => ~file.closed
       /\ phase = "closing" => file.closed /\ file.size = Len(file.recs)
       /\ phase = "down" /\ file.closed => SizeMatches(file) /\ VoidBlocks(file, file.pool)

IInv == GoodFile(file) /\ PlansAreSound /\ PoolIsSound /\ ClosedIsSound

\* CheckZeroRegion sees all of the file that Open finds, and of the file it cut.
ZeroCheckIsComplete ==
  phase = "down" => FullCheck(file) /\ FullCheck(TrimTail(file))

\* The process never dies inside Close or Synchronize of a database that is
\* updated in place: what the file then says of its free blocks may be stale.
ClosesAreWhole == \A l \in Limits : l.closing => l.mode = "APPENDING"

-----------------------------------------------------------------------------
(* What the steps of one thread leave to the others.                         *)

\* Two files agree on the record at i, but for the record it leads to.
Agree(f, g, i) ==
  g.recs[i].op = f.recs[i].op /\ g.recs[i].key = f.recs[i].key /\ g.recs[i].size = f.recs[i].size

\* An operation goes on when nobody touches its records.
LEMMA FeasibleKept ==
  ASSUME NEW f, NEW g, Keeps(f, g), NEW s, NEW q, Feasible(f, q), InStep(f, s, q),
         \A i \in DOMAIN f.recs : i = q.at \/ i = q.into => Agree(f, g, i)
  PROVE  Feasible(g, q) /\ InStep(g, s, q)
<1>1. \A x : (Readable(f, x) => Readable(g, x)) /\ (Leads(f, x) => Leads(g, x))
  BY DEF Keeps, Leads
<1>2. DOMAIN f.recs \subseteq DOMAIN g.recs
  BY DEF Keeps
<1>3. Feasible(g, q)
  BY <1>1, <1>2 DEF Feasible, Agree, Readable
<1>4. InStep(g, s, q)
  <2>1. q.kind \in {"remove", "move"} => q.at \in DOMAIN f.recs
    BY DEF Feasible, Readable
  <2> QED BY <1>1, <2>1 DEF InStep, Agree
<1> QED BY <1>3, <1>4

\* Apart does not depend on the records.
LEMMA ApartKept ==
  ASSUME NEW f, NEW g, Keeps(f, g), NEW p, NEW q, Apart(f, p, q)
  PROVE  Apart(g, p, q)
  BY DEF Apart, Keeps, SameHead, BucketOf

\* The operations of the others stay apart from p, the operation of t, and the
\* step of t touches none of their records.
OthersGoOn(t, p) ==
  \A u \in Threads : u # t => \A q \in plan[u] :
    /\ Apart(file', p, q) /\ Apart(file', q, p)
    /\ \A i \in DOMAIN file.recs : i = q.at \/ i = q.into => Agree(file, file', i)

\* The operations of all threads after a step of t.
LEMMA PlansAfter ==
  ASSUME PlansAreSound, NEW t \in Threads, NEW p \in OperationSet,
         NEW s \in {"reserve", "write", "link", "void", "finish"},
         plan' = [plan EXCEPT ![t] = {p}], pc' = [pc EXCEPT ![t] = s],
         Keeps(file, file'), Feasible(file', p), InStep(file', s, p), OthersGoOn(t, p)
  PROVE  PlansAreSound'
<1>1. /\ pc' \in [Threads -> {"idle", "reserve", "write", "link", "void", "finish"}]
      /\ plan' \in [Threads -> SUBSET OperationSet]
      /\ pc'[t] = s /\ plan'[t] = {p}
      /\ \A u \in Threads : u # t => pc'[u] = pc[u] /\ plan'[u] = plan[u]
  BY DEF PlansAreSound
<1>2. \A u \in Threads : pc'[u] = "idle" => plan'[u] = {}
  BY <1>1 DEF PlansAreSound
<1>3. ASSUME NEW u \in Threads, pc'[u] # "idle"
      PROVE  \E q \in OperationSet : /\ plan'[u] = {q}
                                     /\ Feasible(file', q) /\ InStep(file', pc'[u], q)
  <2>1. CASE u = t
    BY <1>1, <2>1
  <2>2. CASE u # t
    <3>1. PICK q \in OperationSet :
             plan[u] = {q} /\ Feasible(file, q) /\ InStep(file, pc[u], q)
      BY <1>1, <1>3, <2>2 DEF PlansAreSound
    <3>2. Feasible(file', q) /\ InStep(file', pc[u], q)
      BY <3>1, <2>2, FeasibleKept DEF OthersGoOn
    <3> QED BY <1>1, <2>2, <3>1, <3>2
  <2> QED BY <2>1, <2>2
<1>4. ASSUME NEW u \in Threads, NEW v \in Threads, u # v,
             NEW q \in plan'[u], NEW r \in plan'[v]
      PROVE  Apart(file', q, r)
  <2>1. CASE u = t
    BY <1>1, <1>4, <2>1 DEF OthersGoOn
  <2>2. CASE v = t
    BY <1>1, <1>4, <2>2 DEF OthersGoOn
  <2>3. CASE u # t /\ v # t
    <3>1. Apart(file, q, r)
      BY <1>1, <1>4, <2>3 DEF PlansAreSound
    <3> QED BY <3>1, ApartKept
  <2> QED BY <2>1, <2>2, <2>3
<1> QED BY <1>1, <1>2, <1>3, <1>4 DEF PlansAreSound

\* A thread inside ProcessImpl has one operation, and the database is open.
LEMMA InsideProcess ==
  ASSUME IInv, NEW t \in Threads, pc[t] # "idle"
  PROVE  /\ \E p \in OperationSet :
              plan[t] = {p} /\ Feasible(file, p) /\ InStep(file, pc[t], p)
         /\ phase = "open"
  BY DEF IInv, PlansAreSound, ClosedIsSound, Quiet

\* The operations of the others touch no record of the operation of t.
LEMMA OthersAreApart ==
  ASSUME GoodFile(file), PlansAreSound, NEW t \in Threads, NEW p, plan[t] = {p},
         NEW u \in Threads, u # t, NEW q \in plan[u]
  PROVE  /\ Apart(file, p, q) /\ Apart(file, q, p)
         /\ \A i \in DOMAIN file.recs : i = q.at \/ i = q.into => i # p.at /\ i # p.into
<1>1. Apart(file, p, q) /\ Apart(file, q, p)
  BY DEF PlansAreSound
<1>2. q \in OperationSet /\ Feasible(file, q)
  <2>1. plan[u] # {} /\ pc[u] # "idle"
    BY DEF PlansAreSound
  <2> QED BY <2>1 DEF PlansAreSound
<1>3. q.at # 0 => q.at # p.at /\ q.at # p.into
  BY <1>1 DEF Apart
<1>4. q.into # 0 => q.into # p.at /\ q.into # p.into
  BY <1>1 DEF Apart
<1>5. \A i \in DOMAIN file.recs : i = q.at \/ i = q.into => i # p.at /\ i # p.into
  <2>1. 0 \notin DOMAIN file.recs
    BY DEF GoodFile, FileSet
  <2> QED BY <2>1, <1>3, <1>4
<1> QED BY <1>1, <1>5

\* The free blocks after a step of t that touches none of them.
LEMMA PoolAfter ==
  ASSUME PoolIsSound, plan \in [Threads -> SUBSET OperationSet], NEW t \in Threads, NEW p,
         plan' = [plan EXCEPT ![t] = {p}], mem' = mem,
         DOMAIN file.recs \subseteq DOMAIN file'.recs,
         \A x \in mem.pool : Agree(file, file', x.off) /\ x.off # p.at /\ x.off # p.into
  PROVE  PoolIsSound'
<1>1. VoidBlocks(file', mem.pool)
  BY DEF PoolIsSound, VoidBlocks, Agree
<1>2. \A x \in mem.pool : \A u \in Threads : \A q \in plan'[u] : x.off # q.at /\ x.off # q.into
  BY DEF PoolIsSound
<1> QED BY <1>1, <1>2 DEF PoolIsSound

\* What Open relies on does not change while threads are inside ProcessImpl.
LEMMA ClosedAfter ==
  ASSUME ClosedIsSound, phase = "open", phase' = phase, left' \in Limit,
         left'.closing = left.closing, left'.mode = left.mode, mem'.mode = mem.mode,
         SameHead(file, file')
  PROVE  ClosedIsSound'
  BY DEF ClosedIsSound, SameHead

\* The facts that each step of a thread inside ProcessImpl starts from.
LEMMA StepOfThread ==
  ASSUME IInv, NEW t \in Threads, NEW p \in OperationSet, plan[t] = {p}
  PROVE  /\ plan = [plan EXCEPT ![t] = {p}]
         /\ \A x \in mem.pool : /\ x.off \in DOMAIN file.recs
                                 /\ x.off # p.at /\ x.off # p.into
         /\ DOMAIN file.recs = 1 .. Len(file.recs) /\ Len(file.recs) \in Nat
<1>1. plan = [plan EXCEPT ![t] = {p}]
  BY DEF IInv, PlansAreSound
<1>2. \A x \in mem.pool : x.off \in DOMAIN file.recs /\ x.off # p.at /\ x.off # p.into
  BY DEF IInv, PoolIsSound, VoidBlocks
<1>3. HasShape(file)
  BY GoodShape DEF IInv
<1> QED BY <1>1, <1>2, <1>3 DEF HasShape

-----------------------------------------------------------------------------
(* The steps of ProcessImpl.                                                 *)

\* A step of t that touches no records but those of its operation.
LEMMA FileStep ==
  ASSUME IInv, NEW t \in Threads, NEW p \in OperationSet, plan[t] = {p}, phase = "open",
         NEW s \in {"reserve", "write", "link", "void", "finish"},
         pc' = [pc EXCEPT ![t] = s], UNCHANGED <<phase, mem, plan, left>>,
         Keeps(file, file'), Feasible(file', p), InStep(file', s, p),
         \A i \in DOMAIN file.recs : i # p.at /\ i # p.into => Agree(file, file', i)
  PROVE  IInv'
<1>1. GoodFile(file) /\ PlansAreSound /\ PoolIsSound /\ ClosedIsSound
  BY DEF IInv
<1>2. /\ plan = [plan EXCEPT ![t] = {p}]
      /\ \A x \in mem.pool : x.off \in DOMAIN file.recs /\ x.off # p.at /\ x.off # p.into
  BY StepOfThread
<1>3. OthersGoOn(t, p)
  BY <1>1, OthersAreApart, ApartKept DEF OthersGoOn
<1>4. plan' = [plan EXCEPT ![t] = {p}]
  BY <1>2
<1>5. PlansAreSound'
  BY <1>1, <1>3, <1>4, PlansAfter
<1>6. PoolIsSound'
  <2>1. \A x \in mem.pool : Agree(file, file', x.off) /\ x.off # p.at /\ x.off # p.into
    BY <1>2
  <2>2. DOMAIN file.recs \subseteq DOMAIN file'.recs /\ plan \in [Threads -> SUBSET OperationSet]
    BY <1>1 DEF Keeps, PlansAreSound
  <2> QED BY <1>1, <1>4, <2>1, <2>2, PoolAfter
<1>7. ClosedIsSound'
  <2>1. left \in Limit /\ SameHead(file, file')
    BY <1>1 DEF ClosedIsSound, Keeps
  <2> QED BY <1>1, <2>1, ClosedAfter
<1> QED BY <1>5, <1>6, <1>7 DEF IInv, Keeps

\* The new record is written into the space that was taken for it.
LEMMA WriteStep == ASSUME IInv, NEW t \in Threads, Write(t) PROVE IInv'
<1>1. PICK p \in OperationSet :
         plan[t] = {p} /\ Feasible(file, p) /\ InStep(file, "write", p) /\ phase = "open"
  BY InsideProcess DEF Write
<1> DEFINE s == IF p.kind = "overwrite" THEN "finish" ELSE "link"
<1>2. /\ file' = WriteRecord(file, p, p.into) /\ pc' = [pc EXCEPT ![t] = s]
      /\ UNCHANGED <<phase, mem, plan, left>>
  BY <1>1 DEF Write
<1>a. Written(file, file', p, p.into)
  <2>1. p.into \in 1 .. Len(file.recs) + 1
    BY <1>1, StepOfThread DEF Feasible, InStep
  <2>2. /\ p.new \in RecordSet /\ WellFormed(p.new) /\ IsOperation(p.new)
        /\ Leads(file, p.new.child)
    BY <1>1 DEF Feasible, OperationSet
  <2>3. GoodFile(file)
    BY DEF IInv
  <2> QED BY <1>2, <2>1, <2>2, <2>3, WriteKeeps
<1>3. /\ Keeps(file, file')
      /\ \A i \in DOMAIN file.recs : i # p.into => file'.recs[i] = file.recs[i]
      /\ file'.recs[p.into] = p.new /\ Readable(file', p.into)
  BY <1>a DEF Written
<1>4. \A i \in DOMAIN file.recs : i # p.at /\ i # p.into => Agree(file, file', i)
  BY <1>3 DEF Agree
<1>5. Feasible(file', p)
  <2>1. \A x : (Readable(file, x) => Readable(file', x)) /\ (Leads(file, x) => Leads(file', x))
    BY <1>3 DEF Keeps, Leads
  <2>2. p.at # 0 => Readable(file', p.at) /\ file'.recs[p.at].key \in {None, p.key}
    BY <1>1, <1>3, <2>1 DEF Feasible, Readable
  <2>3. p.into \in DOMAIN file'.recs /\ file'.recs[p.into].key = p.key
    BY <1>1, <1>3 DEF Feasible, Readable
  <2> QED BY <1>1, <2>1, <2>2, <2>3 DEF Feasible
<1>6. s \in {"reserve", "write", "link", "void", "finish"} /\ InStep(file', s, p)
  BY <1>3 DEF InStep
<1> HIDE DEF s
<1> QED BY <1>1, <1>2, <1>3, <1>4, <1>5, <1>6, FileStep

\* The link to the old record, or the bucket, leads to the new record.
LEMMA LinkStep == ASSUME IInv, NEW t \in Threads, Link(t) PROVE IInv'
<1>1. PICK p \in OperationSet :
         plan[t] = {p} /\ Feasible(file, p) /\ InStep(file, "link", p) /\ phase = "open"
  BY InsideProcess DEF Link
<1> DEFINE s == IF p.kind \in {"remove", "move"} THEN "void" ELSE "finish"
           o == IF p.kind = "remove" THEN p.next ELSE p.into
<1>2. /\ file' = LinkRecord(file, p, o) /\ pc' = [pc EXCEPT ![t] = s]
      /\ UNCHANGED <<phase, mem, plan, left>>
  BY <1>1 DEF Link
<1>3. /\ Keeps(file, file')
      /\ \A i \in DOMAIN file.recs : Agree(file, file', i)
  <2>1. o \in Nat /\ Leads(file, o) /\ p.key \in Keys
    BY <1>1 DEF Feasible, InStep, OperationSet, Leads
  <2>2. GoodFile(file)
    BY DEF IInv
  <2> HIDE DEF o
  <2>3. Linked(file, file')
    BY <1>2, <2>1, <2>2, LinkKeeps
  <2> QED BY <2>3 DEF Agree, Linked
<1>4. s \in {"reserve", "write", "link", "void", "finish"} /\ InStep(file', s, p)
  BY DEF InStep
<1>5. Feasible(file', p)
  BY <1>1, <1>3, FeasibleKept
<1> HIDE DEF s
<1> QED BY <1>1, <1>2, <1>3, <1>4, <1>5, FileStep

\* The old record, which nothing leads to any more, becomes a void one.
LEMMA VoidStep == ASSUME IInv, NEW t \in Threads, VoidOld(t) PROVE IInv'
<1>1. PICK p \in OperationSet :
         plan[t] = {p} /\ Feasible(file, p) /\ InStep(file, "void", p) /\ phase = "open"
  BY InsideProcess DEF VoidOld
<1>2. /\ file' = VoidRecord(file, p) /\ pc' = [pc EXCEPT ![t] = "finish"]
      /\ UNCHANGED <<phase, mem, plan, left>>
  BY <1>1 DEF VoidOld
<1>3. p.at # 0 /\ p.at \in DOMAIN file.recs /\ p.oldsize \in Nat
  BY <1>1 DEF Feasible, InStep, Readable, OperationSet
<1>4. /\ Keeps(file, file') /\ DOMAIN file'.recs = DOMAIN file.recs
      /\ \A i \in DOMAIN file.recs : i # p.at => file'.recs[i] = file.recs[i]
      /\ file'.recs[p.at] = Void(p.oldsize)
  <2>1. GoodFile(file)
    BY DEF IInv
  <2>2. Voided(file, file', p)
    BY <1>2, <1>3, <2>1, VoidKeeps
  <2> QED BY <2>2 DEF Voided
<1>5. file'.recs[p.at].op = "VOID" /\ file'.recs[p.at].size = p.oldsize /\ file'.recs[p.at].key = None
  BY <1>4 DEF Void, Record
<1>6. Feasible(file', p)
  <2>1. \A x : (Readable(file, x) => Readable(file', x)) /\ (Leads(file, x) => Leads(file', x))
    BY <1>4 DEF Keeps, Leads
  <2>2. p.into # 0 => p.into \in DOMAIN file'.recs /\ file'.recs[p.into].key \in {None, p.key}
    BY <1>1, <1>4, <1>5 DEF Feasible
  <2> QED BY <1>1, <1>5, <2>1, <2>2 DEF Feasible
<1>7. InStep(file', "finish", p)
  BY <1>5 DEF InStep
<1>8. \A i \in DOMAIN file.recs : i # p.at /\ i # p.into => Agree(file, file', i)
  BY <1>4 DEF Agree
<1> QED BY <1>1, <1>2, <1>4, <1>6, <1>7, <1>8, FileStep

\* The space behind the last record is taken for the new record.
LEMMA ReserveStep == ASSUME IInv, NEW t \in Threads, Reserve(t) PROVE IInv'
<1>1. PICK p \in OperationSet :
         plan[t] = {p} /\ Feasible(file, p) /\ InStep(file, "reserve", p) /\ phase = "open"
  BY InsideProcess DEF Reserve
<1> DEFINE n == Len(file.recs) + 1
           p2 == [p EXCEPT !.into = n]
<1>2. /\ file' = [file EXCEPT !.recs = Append(@, Zero(p.new.size))]
      /\ plan' = [plan EXCEPT ![t] = {p2}]
      /\ pc' = [pc EXCEPT ![t] = "write"] /\ UNCHANGED <<phase, mem, left>>
  <2>1. (CHOOSE q \in plan[t] : TRUE) = p
    BY <1>1
  <2>2. {[q EXCEPT !.into = Len(file.recs) + 1] : q \in plan[t]} = {p2}
    BY <1>1
  <2> QED BY <2>1, <2>2 DEF Reserve
<1>3. GoodFile(file) /\ PlansAreSound /\ PoolIsSound /\ ClosedIsSound
  BY DEF IInv
<1>4. DOMAIN file.recs = 1 .. Len(file.recs) /\ Len(file.recs) \in Nat
  BY <1>1, StepOfThread
<1>5. /\ Keeps(file, file')
      /\ \A i \in DOMAIN file.recs : file'.recs[i] = file.recs[i]
      /\ DOMAIN file'.recs = 1 .. n /\ file'.recs[n] = Zero(p.new.size)
  <2> DEFINE recs == Append(file.recs, Zero(p.new.size))
  <2>1. p.new.size \in Nat /\ file' = [file EXCEPT !.recs = recs]
    BY <1>2 DEF OperationSet, RecordSet
  <2>2. recs = Append(file.recs, Zero(p.new.size))
    OBVIOUS
  <2> HIDE DEF recs
  <2>3. Appended(file, file', p.new.size)
    BY <1>3, <2>1, <2>2, AppendKeeps
  <2> QED BY <2>3 DEF Appended
<1>6. \A i \in DOMAIN file.recs : Agree(file, file', i)
  BY <1>5 DEF Agree
<1>7. /\ p2 \in OperationSet /\ p2.into = n /\ p2.kind = p.kind /\ p2.key = p.key
      /\ p2.at = p.at /\ p2.next = p.next /\ p2.new = p.new
  BY <1>4 DEF OperationSet
<1> HIDE DEF p2
<1>8. Feasible(file', p2) /\ InStep(file', "write", p2)
  <2>1. \A x : (Readable(file, x) => Readable(file', x)) /\ (Leads(file, x) => Leads(file', x))
    BY <1>5 DEF Keeps, Leads
  <2>2. n \in DOMAIN file'.recs /\ file'.recs[n].key = None
    BY <1>4, <1>5 DEF Zero, Record
  <2>3. p.at # 0 => file'.recs[p.at].key = file.recs[p.at].key
    BY <1>1, <1>6 DEF Feasible, Readable, Agree
  <2>4. Feasible(file', p2)
    BY <1>1, <1>7, <2>1, <2>2, <2>3 DEF Feasible
  <2> QED BY <1>1, <1>4, <1>7, <2>4 DEF InStep
<1>9. OthersGoOn(t, p2)
  <2> SUFFICES ASSUME NEW u \in Threads, u # t, NEW q \in plan[u]
               PROVE  Apart(file', p2, q) /\ Apart(file', q, p2)
    BY <1>6 DEF OthersGoOn
  <2>1. Apart(file, p, q) /\ Apart(file, q, p)
    BY <1>1, <1>3, OthersAreApart
  <2>2. q.at # n /\ q.into # n
    <3>1. Feasible(file, q)
      <4>1. plan[u] # {} /\ pc[u] # "idle"
        BY <1>3 DEF PlansAreSound
      <4> QED BY <4>1, <1>3 DEF PlansAreSound
    <3>2. n \notin DOMAIN file.recs /\ n # 0
      BY <1>4
    <3> QED BY <3>1, <3>2 DEF Feasible, Readable
  <2>3. Apart(file, p2, q) /\ Apart(file, q, p2)
    BY <1>7, <2>1, <2>2 DEF Apart
  <2> QED BY <1>5, <2>3, ApartKept
<1>10. PlansAreSound'
  BY <1>2, <1>3, <1>5, <1>7, <1>8, <1>9, PlansAfter
<1>11. PoolIsSound'
  <2>1. \A x \in mem.pool : Agree(file, file', x.off) /\ x.off # p2.at /\ x.off # p2.into
    <3>1. \A x \in mem.pool : x.off \in DOMAIN file.recs /\ x.off # p.at
      BY <1>1, StepOfThread
    <3> QED BY <1>4, <1>6, <1>7, <3>1
  <2>2. DOMAIN file.recs \subseteq DOMAIN file'.recs /\ plan \in [Threads -> SUBSET OperationSet]
    BY <1>3, <1>5 DEF Keeps, PlansAreSound
  <2> QED BY <1>2, <1>3, <2>1, <2>2, PoolAfter
<1>12. ClosedIsSound'
  <2>1. left \in Limit /\ SameHead(file, file')
    BY <1>3, <1>5 DEF ClosedIsSound, Keeps
  <2> QED BY <1>1, <1>2, <1>3, <2>1, ClosedAfter
<1> QED BY <1>5, <1>10, <1>11, <1>12 DEF IInv, Keeps

\* The old record becomes a free block, and the thread is done.
LEMMA FinishStep == ASSUME IInv, NEW t \in Threads, Finish(t) PROVE IInv'
<1>1. PICK p \in OperationSet :
         plan[t] = {p} /\ Feasible(file, p) /\ InStep(file, "finish", p) /\ phase = "open"
  BY InsideProcess DEF Finish
<1> DEFINE pool == IF p.kind \in {"remove", "move"}
                   THEN InsertFreeBlock(mem.pool, p.at, p.oldsize) ELSE mem.pool
<1>2. /\ mem' = [mem EXCEPT !.num = @ + CountChange(p), !.pool = pool]
      /\ pc' = [pc EXCEPT ![t] = "idle"] /\ plan' = [plan EXCEPT ![t] = {}]
      /\ UNCHANGED <<file, phase, left>>
  BY <1>1 DEF Finish
<1>3. GoodFile(file) /\ PlansAreSound /\ PoolIsSound /\ ClosedIsSound
  BY DEF IInv
<1>4. /\ pc' \in [Threads -> {"idle", "reserve", "write", "link", "void", "finish"}]
      /\ plan' \in [Threads -> SUBSET OperationSet]
      /\ pc'[t] = "idle" /\ plan'[t] = {}
      /\ \A u \in Threads : u # t => pc'[u] = pc[u] /\ plan'[u] = plan[u]
  BY <1>2, <1>3 DEF PlansAreSound
<1>5. PlansAreSound'
  <2>1. \A u \in Threads : pc'[u] = "idle" => plan'[u] = {}
    BY <1>3, <1>4 DEF PlansAreSound
  <2>2. \A u \in Threads : pc'[u] # "idle" =>
          \E q \in OperationSet : plan'[u] = {q} /\ Feasible(file, q) /\ InStep(file, pc'[u], q)
    BY <1>3, <1>4 DEF PlansAreSound
  <2>3. \A u, v \in Threads : u # v => \A q \in plan'[u], r \in plan'[v] : Apart(file, q, r)
    BY <1>3, <1>4 DEF PlansAreSound
  <2> QED BY <1>2, <1>4, <2>1, <2>2, <2>3 DEF PlansAreSound
<1>6. pool \subseteq mem.pool \cup {[off |-> p.at, size |-> p.oldsize]}
  BY InsertAddsBlock
<1>7. /\ DOMAIN mem' = {"mode", "num", "pool"} /\ mem'.mode = mem.mode
      /\ mem'.num \in Int /\ mem'.pool = pool
  BY <1>2, <1>3 DEF PoolIsSound, CountChange
<1>8. p.kind \in {"remove", "move"} =>
        /\ p.at \in DOMAIN file.recs /\ p.at \in Nat /\ p.oldsize \in Nat
        /\ file.recs[p.at].op = "VOID" /\ file.recs[p.at].size = p.oldsize
  BY <1>1 DEF Feasible, InStep, Readable, OperationSet
<1>9. ASSUME NEW x \in pool
      PROVE  /\ x \in BlockSet /\ x.off \in DOMAIN file.recs /\ file.recs[x.off].op = "VOID"
             /\ file.recs[x.off].size = x.size
             /\ \A u \in Threads : \A q \in plan'[u] : x.off # q.at /\ x.off # q.into
  <2>1. CASE x \in mem.pool
    BY SMTT(20), <2>1, <1>3, <1>4 DEF PoolIsSound, VoidBlocks
  <2>2. CASE x \notin mem.pool
    <3>1. x = [off |-> p.at, size |-> p.oldsize] /\ p.kind \in {"remove", "move"}
      BY <2>2, <1>6
    <3>2. x \in BlockSet /\ x.off = p.at /\ x.size = p.oldsize
      BY <3>1, <1>8 DEF BlockSet
    <3>3. \A u \in Threads : \A q \in plan'[u] : p.at # q.at /\ p.at # q.into
      <4>1. SUFFICES ASSUME NEW u \in Threads, NEW q \in plan'[u]
                     PROVE  p.at # q.at /\ p.at # q.into
        OBVIOUS
      <4>2. u # t /\ q \in plan[u]
        BY <1>4
      <4> QED BY <4>2, <3>1, <1>1, <1>3, <1>8, OthersAreApart
    <3> QED BY <3>1, <3>2, <3>3, <1>8
  <2> QED BY <2>1, <2>2
<1> HIDE DEF pool
<1>10. PoolIsSound'
  BY <1>2, <1>3, <1>7, <1>9 DEF PoolIsSound, VoidBlocks
<1>11. ClosedIsSound'
  <2>1. left \in Limit /\ SameHead(file, file')
    BY <1>2, <1>3 DEF ClosedIsSound, SameHead
  <2> QED BY <1>1, <1>2, <1>3, <1>7, <2>1, ClosedAfter
<1> QED BY <1>2, <1>3, <1>5, <1>10, <1>11 DEF IInv

\* The operation of a thread that enters ProcessImpl is apart from the others:
\* nobody else holds its bucket, and a block it takes is not in use.
LEMMA BeginIsApart ==
  ASSUME GoodFile(file), PlansAreSound, PoolIsSound, NEW k \in Keys, NEW p,
         Planned(file, mem.pool, k, p), NEW u \in Threads, NEW q \in plan[u],
         BucketOf(file, q.key) # BucketOf(file, k)
  PROVE  Apart(file, p, q) /\ Apart(file, q, p)
<1>1. Feasible(file, q)
  <2>1. plan[u] # {} /\ pc[u] # "idle"
    BY DEF PlansAreSound
  <2> QED BY <2>1 DEF PlansAreSound
<1>2. p.key = k /\ k # q.key /\ k # None
  BY ParamsAssumption DEF Planned
<1>3. p.at # 0 => p.at # q.at /\ p.at # q.into
  <2>1. p.at # 0 => file.recs[p.at].key = k
    BY DEF Planned
  <2>2. q.at # 0 => file.recs[q.at].key \in {None, q.key}
    BY <1>1 DEF Feasible
  <2>3. q.into # 0 => file.recs[q.into].key \in {None, q.key}
    BY <1>1 DEF Feasible
  <2> QED BY <1>2, <2>1, <2>2, <2>3
<1>4. p.into # 0 => p.into # q.at /\ p.into # q.into
  <2>1. CASE p.into = p.at
    BY <2>1, <1>3
  <2>2. CASE \E x \in p.free : x.off = p.into
    BY <2>2 DEF PoolIsSound, Planned
  <2> QED BY <2>1, <2>2 DEF Planned
<1> QED BY <1>2, <1>3, <1>4 DEF Apart

\* A thread enters ProcessImpl, finds the record and takes a free block.
LEMMA BeginStep == ASSUME IInv, NEW t \in Threads, Begin(t) PROVE IInv'
<1>1. /\ GoodFile(file) /\ PlansAreSound /\ PoolIsSound /\ ClosedIsSound
      /\ left \in Limit /\ VoidBlocks(file, mem.pool)
  BY DEF IInv, PoolIsSound, ClosedIsSound
<1>2. PICK k \in Keys, req \in Requests :
        LET p == Plan(file, mem.pool, mem.mode, k, req)
        IN  /\ \A s \in Threads : \A q \in plan[s] : BucketOf(file, q.key) # BucketOf(file, k)
            /\ p.kind # "noop"
            /\ plan' = [plan EXCEPT ![t] = {p}]
            /\ pc' = [pc EXCEPT ![t] = FirstStep(p)]
            /\ mem' = [mem EXCEPT !.pool = @ \ p.free]
  BY ZenonT(40), <1>1 DEF Begin, Limit
<1> DEFINE p == Plan(file, mem.pool, mem.mode, k, req)
           s == FirstStep(p)
<1>3. /\ \A u \in Threads : \A q \in plan[u] : BucketOf(file, q.key) # BucketOf(file, k)
      /\ plan' = [plan EXCEPT ![t] = {p}] /\ pc' = [pc EXCEPT ![t] = s]
      /\ mem' = [mem EXCEPT !.pool = mem.pool \ p.free] /\ p.kind # "noop"
  BY <1>2
<1>4. Planned(file, mem.pool, k, p)
  BY <1>1, <1>3, PlanIsFeasible
<1> HIDE DEF p
<1>5. p \in OperationSet /\ Feasible(file, p) /\ p.free \subseteq mem.pool
  BY <1>4 DEF Planned, Feasible
<1>6. s \in {"reserve", "write", "link", "void", "finish"} /\ InStep(file, s, p)
  BY <1>4, <1>5 DEF InStep, FirstStep, Planned
<1> HIDE DEF s
<1>7. UNCHANGED file /\ phase' = phase /\ phase = "open" /\ left' = [left EXCEPT !.ops = @ - 1]
      /\ left.ops > 0
  BY DEF Begin
<1>8. Keeps(file, file')
  BY <1>1, <1>7 DEF Keeps, SameHead
<1>9. OthersGoOn(t, p)
  BY <1>1, <1>3, <1>4, <1>7, BeginIsApart DEF OthersGoOn, Agree
<1>10. PlansAreSound'
  BY <1>1, <1>3, <1>5, <1>6, <1>7, <1>8, <1>9, PlansAfter
<1>11. PoolIsSound'
  <2>1. /\ DOMAIN mem' = {"mode", "num", "pool"} /\ mem'.mode = mem.mode /\ mem'.num = mem.num
        /\ mem'.pool = mem.pool \ p.free
    BY <1>1, <1>3 DEF PoolIsSound
  <2>2. VoidBlocks(file', mem'.pool)
    BY <1>1, <1>7, <2>1 DEF VoidBlocks
  <2>3. ASSUME NEW x \in mem'.pool, NEW u \in Threads, NEW q \in plan'[u]
        PROVE  x.off # q.at /\ x.off # q.into
    <3>1. CASE u = t
      BY <3>1, <2>1, <1>1, <1>3, <1>4, PlanIsOutsidePool DEF PlansAreSound
    <3>2. CASE u # t
      BY <3>2, <2>1, <1>1, <1>3 DEF PoolIsSound, PlansAreSound
    <3> QED BY <3>1, <3>2
  <2> QED BY <1>1, <2>1, <2>2, <2>3 DEF PoolIsSound
<1>12. ClosedIsSound'
  <2>1. left' \in Limit /\ left'.closing = left.closing /\ left'.mode = left.mode
    BY <1>1, <1>7 DEF Limit
  <2>2. SameHead(file, file') /\ mem'.mode = mem.mode
    BY <1>1, <1>3, <1>8 DEF Keeps, PoolIsSound
  <2> QED BY <1>1, <1>7, <2>1, <2>2, ClosedAfter
<1> QED BY <1>1, <1>7, <1>10, <1>11, <1>12 DEF IInv

-----------------------------------------------------------------------------
(* The operations under the exclusive lock, and crashes.                     *)

\* While no thread is inside ProcessImpl there is no operation to disturb.
LEMMA QuietPlans ==
  ASSUME PlansAreSound, Quiet, pc' = pc, plan' = plan
  PROVE  PlansAreSound' /\ Quiet' /\ \A t \in Threads : plan'[t] = {}
  BY DEF PlansAreSound, Quiet

\* Changes of the head of the file that leave the records alone.
LEMMA HeadKeeps ==
  ASSUME NEW f, GoodFile(f), NEW g \in FileSet, g.recs = f.recs, g.bucket = f.bucket
  PROVE  GoodFile(g) /\ \A pool : VoidBlocks(f, pool) => VoidBlocks(g, pool)
  BY DEF GoodFile, Leads, Readable, VoidBlocks

\* What SaveMetadata leaves in the file.
LEMMA MetadataKeeps ==
  ASSUME IInv, NEW finish \in BOOLEAN, file' = SaveMetadata(file, finish)
  PROVE  /\ GoodFile(file') /\ \A pool : VoidBlocks(file, pool) => VoidBlocks(file', pool)
         /\ file'.closed = finish /\ file'.mode = mem.mode /\ file'.size = Len(file'.recs)
         /\ file'.tail = file.tail
<1>1. /\ file \in FileSet /\ GoodFile(file) /\ Len(file.recs) \in Nat
      /\ mem.mode \in Modes /\ mem.num \in Int
  BY DEF IInv, GoodFile, PoolIsSound, FileSet
<1> DEFINE n == IF mem.num < 0 THEN 0 ELSE mem.num
<1>2. n \in Int
  BY <1>1
<1>3. file' = [file EXCEPT !.closed = finish, !.num = n, !.mode = mem.mode,
                           !.size = Len(file.recs)]
  BY DEF SaveMetadata
<1> HIDE DEF n
<1>4. /\ file' \in FileSet /\ file'.recs = file.recs /\ file'.bucket = file.bucket
      /\ file'.closed = finish /\ file'.mode = mem.mode /\ file'.size = Len(file.recs)
      /\ file'.tail = file.tail
  BY <1>1, <1>2, <1>3 DEF FileSet
<1>5. GoodFile(file') /\ \A pool : VoidBlocks(file, pool) => VoidBlocks(file', pool)
  BY <1>1, <1>4, HeadKeeps
<1> QED BY <1>4, <1>5

\* The pool stays sound when the file keeps its void blocks and no thread is
\* inside ProcessImpl.
LEMMA QuietPool ==
  ASSUME PoolIsSound, NEW m \in Modes, mem' = [mem EXCEPT !.mode = m],
         \A pool : VoidBlocks(file, pool) => VoidBlocks(file', pool),
         \A t \in Threads : plan'[t] = {}
  PROVE  PoolIsSound' /\ mem'.mode = m
  BY DEF PoolIsSound

\* Open, whether it accepts the file or restores it.
LEMMA OpenStep == ASSUME IInv, ZeroCheckIsComplete, OpenFile PROVE IInv'
<1> DEFINE o == Open(file, left.restore)
<1>1. /\ GoodFile(file) /\ PlansAreSound /\ PoolIsSound /\ ClosedIsSound
      /\ phase = "down" /\ Quiet /\ file \in FileSet
  BY DEF IInv, OpenFile, ClosedIsSound, GoodFile
<1>2. SoundOpen(file, o)
  <2>1. FullCheck(file) /\ FullCheck(TrimTail(file))
    BY <1>1 DEF ZeroCheckIsComplete
  <2>2. file.mode = "IN_PLACE" /\ file.closed => SizeMatches(file) /\ VoidBlocks(file, file.pool)
    BY <1>1 DEF ClosedIsSound
  <2> QED BY <1>1, <2>1, <2>2, OpenIsSound
<1>3. /\ file' = o.f /\ pc' = pc /\ plan' = plan /\ left' = left
      /\ o.restore = TRUE => phase' = phase /\ mem' = mem
      /\ o.restore = FALSE =>
           phase' = "open" /\ mem' = [mode |-> o.f.mode, num |-> o.num, pool |-> o.pool]
  BY DEF OpenFile
<1> HIDE DEF o
<1>4. PlansAreSound' /\ Quiet' /\ \A t \in Threads : plan'[t] = {}
  BY <1>1, <1>3, QuietPlans
<1>5. GoodFile(file') /\ file'.mode = file.mode /\ file'.mode \in Modes /\ left \in Limit
  BY <1>1, <1>2, <1>3 DEF SoundOpen, FileSet, ClosedIsSound
<1>6. CASE o.restore = TRUE
  <2>1. SoundAndClosed(file', file.mode)
    BY <1>2, <1>3, <1>6 DEF SoundOpen
  <2>2. mem.pool = {} /\ PoolIsSound'
    BY <1>1, <1>3, <1>4, <1>6 DEF PoolIsSound, ClosedIsSound, VoidBlocks
  <2>3. ClosedIsSound'
    BY <1>1, <1>3, <1>4, <1>5, <1>6, <2>1, <2>2 DEF ClosedIsSound, SoundAndClosed
  <2> QED BY <1>4, <1>5, <2>2, <2>3 DEF IInv
<1>7. CASE o.restore = FALSE
  <2>1. /\ file'.tail = FALSE /\ VoidBlocks(file', o.pool) /\ o.num \in Int
        /\ file.mode = "IN_PLACE" => file'.closed = FALSE
    BY <1>2, <1>3, <1>7 DEF SoundOpen
  <2>2. /\ DOMAIN mem' = {"mode", "num", "pool"} /\ mem'.mode = file'.mode
        /\ mem'.num = o.num /\ mem'.pool = o.pool
    <3>1. mem' = [mode |-> file'.mode, num |-> o.num, pool |-> o.pool]
      BY <1>3, <1>7
    <3> QED BY <3>1
  <2>3. PoolIsSound'
    BY <1>4, <1>5, <2>1, <2>2 DEF PoolIsSound
  <2>4. ClosedIsSound'
    BY <1>1, <1>3, <1>4, <1>5, <1>7, <2>1, <2>2 DEF ClosedIsSound
  <2> QED BY <1>4, <1>5, <2>3, <2>4 DEF IInv
<1> QED BY <1>2, <1>6, <1>7 DEF SoundOpen

\* Synchronize and Close save the metadata.
LEMMA MetadataStep ==
  ASSUME IInv, SyncBegin \/ SyncEnd \/ CloseMetadata
  PROVE  IInv'
<1>1. /\ GoodFile(file) /\ PlansAreSound /\ PoolIsSound /\ ClosedIsSound /\ left \in Limit
      /\ Quiet /\ pc' = pc /\ plan' = plan /\ mem' = mem /\ phase # "down"
  BY DEF IInv, ClosedIsSound, SyncBegin, SyncEnd, CloseMetadata
<1>2. PICK finish \in BOOLEAN :
        /\ file' = SaveMetadata(file, finish)
        /\ phase' \in {"open", "syncing", "closing"}
        /\ finish = (phase' # "open")
  BY DEF SyncBegin, SyncEnd, CloseMetadata
<1>3. /\ GoodFile(file') /\ \A pool : VoidBlocks(file, pool) => VoidBlocks(file', pool)
      /\ file'.closed = finish /\ file'.mode = mem.mode /\ file'.size = Len(file'.recs)
      /\ file'.tail = file.tail
  BY <1>2, MetadataKeeps
<1>4. PlansAreSound' /\ Quiet' /\ \A t \in Threads : plan'[t] = {}
  BY <1>1, QuietPlans
<1>5. PoolIsSound'
  BY <1>1, <1>3, <1>4 DEF PoolIsSound
<1>6. left' \in Limit /\ left'.closing = left.closing /\ left'.mode = left.mode
  <2>1. CASE SyncBegin
    BY <1>1, <2>1 DEF SyncBegin, Limit
  <2>2. CASE SyncEnd \/ CloseMetadata
    BY <1>1, <2>2 DEF SyncEnd, CloseMetadata
  <2> QED BY <2>1, <2>2
<1>7. ClosedIsSound'
  BY <1>1, <1>2, <1>3, <1>4, <1>6 DEF ClosedIsSound
<1> QED BY <1>3, <1>4, <1>5, <1>7 DEF IInv

\* Close saves the free block pool and drops the memory.
LEMMA CloseStep == ASSUME IInv, CloseFBP PROVE IInv'
<1>1. /\ GoodFile(file) /\ PlansAreSound /\ PoolIsSound /\ ClosedIsSound /\ left \in Limit
      /\ Quiet /\ pc' = pc /\ plan' = plan /\ left' = left /\ phase = "closing"
      /\ phase' = "down" /\ file \in FileSet /\ VoidBlocks(file, mem.pool)
  BY DEF IInv, ClosedIsSound, CloseFBP, GoodFile, PoolIsSound
<1> DEFINE pool == Serialize(mem.pool)
<1>2. pool \subseteq mem.pool
  BY DEF Serialize
<1>3. file' = [file EXCEPT !.pool = pool] /\ mem' = NoMem
  BY DEF CloseFBP
<1> HIDE DEF pool
<1>4. pool \in SUBSET BlockSet /\ VoidBlocks(file, pool)
  BY <1>1, <1>2 DEF VoidBlocks
<1>5. /\ file' \in FileSet /\ file'.recs = file.recs /\ file'.bucket = file.bucket
      /\ file'.mode = file.mode /\ file'.closed = file.closed /\ file'.tail = file.tail
      /\ file'.size = file.size /\ file'.pool = pool
  BY <1>1, <1>3, <1>4 DEF FileSet
<1>6. GoodFile(file') /\ VoidBlocks(file', pool)
  BY <1>1, <1>4, <1>5, HeadKeeps
<1>7. PlansAreSound' /\ Quiet' /\ \A t \in Threads : plan'[t] = {}
  BY <1>1, QuietPlans
<1>8. PoolIsSound' /\ mem'.pool = {}
  BY <1>3 DEF NoMem, PoolIsSound, VoidBlocks, Modes
<1>9. ClosedIsSound'
  BY <1>1, <1>5, <1>6, <1>7, <1>8 DEF ClosedIsSound, SizeMatches
<1> QED BY <1>6, <1>7, <1>8, <1>9 DEF IInv

\* SetUpdateModeAppending changes the mode in memory, and saves nothing.
LEMMA SwitchStep == ASSUME IInv, SetUpdateModeAppending PROVE IInv'
<1>1. /\ GoodFile(file) /\ PlansAreSound /\ PoolIsSound /\ ClosedIsSound /\ left \in Limit
      /\ Quiet /\ pc' = pc /\ plan' = plan /\ phase = "open" /\ phase' = "open"
      /\ file' = file /\ left.switches > 0 /\ left' = [left EXCEPT !.switches = @ - 1]
      /\ mem' = [mem EXCEPT !.mode = "APPENDING"]
  BY DEF IInv, ClosedIsSound, SetUpdateModeAppending
<1>2. PlansAreSound' /\ Quiet' /\ \A t \in Threads : plan'[t] = {}
  BY <1>1, QuietPlans
<1>3. PoolIsSound' /\ mem'.mode = "APPENDING"
  BY <1>1, <1>2, QuietPool DEF Modes
<1>4. left' \in Limit /\ left'.closing = left.closing /\ left'.mode = left.mode
  BY <1>1 DEF Limit
<1>5. ClosedIsSound'
  BY <1>1, <1>2, <1>3, <1>4 DEF ClosedIsSound
<1> QED BY <1>1, <1>2, <1>3, <1>5 DEF IInv

\* A crash leaves what was written.
LEMMA CrashStep == ASSUME IInv, Crash PROVE IInv'
<1>1. /\ GoodFile(file) /\ PoolIsSound /\ ClosedIsSound /\ left \in Limit /\ file \in FileSet
      /\ phase # "down" /\ (phase # "open" => left.closing) /\ phase' = "down"
      /\ left.crashes > 0 /\ left' = [left EXCEPT !.crashes = @ - 1] /\ mem' = NoMem
      /\ pc' = [t \in Threads |-> "idle"] /\ plan' = [t \in Threads |-> {}]
  BY DEF IInv, ClosedIsSound, Crash, GoodFile
<1>2. PICK tail \in BOOLEAN : file' = [file EXCEPT !.tail = tail]
  BY DEF Crash
<1>3. /\ file' \in FileSet /\ file'.recs = file.recs /\ file'.bucket = file.bucket
      /\ file'.mode = file.mode /\ file'.closed = file.closed
  BY <1>1, <1>2 DEF FileSet
<1>4. GoodFile(file')
  BY <1>1, <1>3, HeadKeeps
<1>5. PlansAreSound' /\ Quiet' /\ \A t \in Threads : plan'[t] = {}
  BY <1>1 DEF PlansAreSound, Quiet
<1>6. PoolIsSound' /\ mem'.pool = {}
  BY <1>1 DEF NoMem, PoolIsSound, VoidBlocks, Modes
<1>7. left' \in Limit /\ left'.closing = left.closing /\ left'.mode = left.mode
  BY <1>1 DEF Limit
<1>8. ClosedIsSound'
  <2>1. file.mode = "IN_PLACE" => phase = "open" /\ ~file.closed
    BY <1>1 DEF ClosedIsSound
  <2> QED BY <1>1, <1>3, <1>5, <1>6, <1>7, <2>1 DEF ClosedIsSound
<1> QED BY <1>4, <1>5, <1>6, <1>8 DEF IInv

-----------------------------------------------------------------------------
(* The inductive invariant.                                                  *)

\* It holds of a new database that is closed.
LEMMA InitIInv == ASSUME ClosesAreWhole, Init PROVE IInv
<1>1. /\ left \in Limits /\ file = EmptyFile(left.mode, 1) /\ phase = "down" /\ mem = NoMem
      /\ pc = [t \in Threads |-> "idle"] /\ plan = [t \in Threads |-> {}]
  BY DEF Init, Start
<1>2. left \in Limit /\ left.mode \in Modes /\ (left.closing => left.mode = "APPENDING")
  BY <1>1, DBMAssumption DEF Limit, Modes, ClosesAreWhole
<1>3. /\ file.recs = <<>> /\ file.bucket = [b \in Buckets |-> 0] /\ file.mode = left.mode
      /\ file.size = 0 /\ file.pool = {} /\ file.tail = FALSE
  BY <1>1 DEF EmptyFile
<1>4. file \in FileSet
  BY <1>1, <1>2 DEF EmptyFile, FileSet
<1>5. GoodFile(file) /\ VoidBlocks(file, {}) /\ SizeMatches(file)
  BY <1>3, <1>4 DEF GoodFile, VoidBlocks, Leads, SizeMatches
<1>6. PlansAreSound /\ Quiet
  BY <1>1 DEF PlansAreSound, Quiet
<1>7. PoolIsSound /\ mem.pool = {}
  BY <1>1 DEF NoMem, PoolIsSound, VoidBlocks, Modes
<1>8. ClosedIsSound
  BY <1>1, <1>2, <1>3, <1>5, <1>6, <1>7 DEF ClosedIsSound
<1> QED BY <1>5, <1>6, <1>7, <1>8 DEF IInv

\* Every step keeps it, if Open sees the whole of the files it is given.
LEMMA NextIInv == ASSUME IInv, ZeroCheckIsComplete, [Next]_vars PROVE IInv'
<1>1. CASE UNCHANGED vars
  BY <1>1 DEF vars, IInv, PlansAreSound, PoolIsSound, ClosedIsSound, Quiet
<1>2. CASE \E t \in Threads : Step(t)
  BY <1>2, BeginStep, ReserveStep, WriteStep, LinkStep, VoidStep, FinishStep DEF Step
<1>3. CASE Exclusive
  BY <1>3, OpenStep, MetadataStep, CloseStep, SwitchStep DEF Exclusive
<1>4. CASE Crash
  BY <1>4, CrashStep
<1> QED BY <1>1, <1>2, <1>3, <1>4 DEF Next

\* It says what FileIsSound says.
LEMMA IInvIsSound == ASSUME IInv PROVE FileIsSound
<1>1. /\ GoodFile(file) /\ PlansAreSound /\ PoolIsSound /\ ClosedIsSound
      /\ file.recs \in Seq(RecordSet) /\ file.bucket \in [Buckets -> Nat]
  BY DEF IInv, GoodFile, FileSet
<1>2. \A o : Leads(file, o) => o \in 0 .. Len(file.recs)
  BY <1>1 DEF Leads, Readable
<1>3. TypeOK
  <2>1. ASSUME NEW i \in DOMAIN file.recs
        PROVE  /\ file.recs[i].op \in {"ADD", "SET", "REMOVE", "VOID", "ZERO"}
               /\ file.recs[i].child \in 0 .. Len(file.recs)
    <3>1. file.recs[i] \in RecordSet /\ Leads(file, file.recs[i].child)
      BY <1>1 DEF GoodFile
    <3> QED BY <3>1, <1>2 DEF RecordSet
  <2>2. file.bucket \in [Buckets -> 0 .. Len(file.recs)]
    BY <1>1, <1>2 DEF GoodFile
  <2>3. ASSUME NEW t \in Threads
        PROVE  IF pc[t] = "idle" THEN plan[t] = {} ELSE \E p \in plan[t] : plan[t] = {p}
    <3>1. CASE pc[t] = "idle"
      BY <1>1, <3>1 DEF PlansAreSound
    <3>2. CASE pc[t] # "idle"
      <4>1. PICK p \in OperationSet : plan[t] = {p}
        BY <1>1, <3>2 DEF PlansAreSound
      <4> QED BY <3>2, <4>1
    <3> QED BY <3>1, <3>2
  <2>4. phase \in {"down", "open", "syncing", "closing"}
    BY <1>1 DEF ClosedIsSound
  <2> QED BY <2>1, <2>2, <2>3, <2>4 DEF TypeOK
<1>4. ChainsReadable
  <2>1. ASSUME NEW b \in Buckets, NEW i \in DOMAIN Chain(file, b), Chain(file, b)[i] # 0
        PROVE  Readable(file, Chain(file, b)[i])
    BY <1>1, <2>1, ChainLeads DEF Leads
  <2> QED BY <2>1 DEF ChainsReadable
<1>5. FreeBlocksAreVoid
  BY <1>1 DEF PoolIsSound, VoidBlocks, FreeBlocksAreVoid
<1> QED BY <1>3, <1>4, <1>5 DEF FileIsSound

\* The file and the free block pool are sound at every step of every thread of
\* ProcessImpl, through Synchronize, Close, crashes, Open and restorations: if
\* the zero check of Open sees the whole file, and the process does not die
\* inside Close or Synchronize of a database updated in place.
THEOREM Soundness ==
  ASSUME ClosesAreWhole
  PROVE  Spec /\ []ZeroCheckIsComplete => []FileIsSound
<1>1. Init => IInv
  BY InitIInv
<1>2. IInv /\ ZeroCheckIsComplete /\ [Next]_vars => IInv'
  BY NextIInv
<1>3. IInv => FileIsSound
  BY IInvIsSound
<1> QED BY <1>1, <1>2, <1>3, PTL DEF Spec

-----------------------------------------------------------------------------
(* Holes: space of the file that was allocated and not written.              *)

Hole(f, i) == i \in DOMAIN f.recs /\ f.recs[i].op = "ZERO"

\* A thread is about to write the record at i.
IsBeingWritten(i) == \E t \in Threads : pc[t] = "write" /\ \E p \in plan[t] : p.into = i

\* One thread updates at a time, or the process does not die.
LoneOrSafe == left.lone \/ left.crashes = 0

\* A hole is behind the recorded size and has its writer while the database is
\* open; a lone writer leaves it at the end of the file.
HolesAreLast ==
  /\ HolesBehind(file) /\ LoneOrSafe
  /\ \A i : Hole(file, i) /\ phase # "down" => IsBeingWritten(i)
  /\ left.lone =>
       \A t, u \in Threads : pc[t] # "idle" /\ pc[u] # "idle" => t = u
  /\ \A i : Hole(file, i) /\ (phase = "down" \/ left.lone) => i = Len(file.recs)

\* While no thread is inside ProcessImpl an open database has no holes.
LEMMA QuietNoHoles ==
  ASSUME HolesAreLast, Quiet, phase # "down"
  PROVE  NoHoles(file)
  BY DEF HolesAreLast, Quiet, NoHoles, Hole, IsBeingWritten

\* Without holes there is nothing to show of them.
LEMMA NoHolesAreLast ==
  ASSUME NoHoles(file'), file'.size <= Len(file'.recs), LoneOrSafe', Quiet'
  PROVE  HolesAreLast'
  BY DEF HolesAreLast, NoHoles, HolesBehind, Hole, Quiet

\* A step of a thread inside ProcessImpl that makes no holes and, if it was to
\* write one, has written it.
LEMMA HolesAfter ==
  ASSUME HolesAreLast, PlansAreSound, NEW t \in Threads, NEW s, pc[t] # "idle",
         pc' = [pc EXCEPT ![t] = s], phase = "open", phase' = phase, left' = left,
         \A u \in Threads : u # t => plan'[u] = plan[u],
         file'.size = file.size, Len(file'.recs) = Len(file.recs),
         DOMAIN file'.recs = DOMAIN file.recs,
         \A i : Hole(file', i) =>
           Hole(file, i) /\ ~ (pc[t] = "write" /\ \E p \in plan[t] : p.into = i)
  PROVE  HolesAreLast'
<1>1. \A u \in Threads : u # t => pc'[u] = pc[u]
  BY DEF PlansAreSound
<1>2. \A u \in Threads : pc'[u] # "idle" => pc[u] # "idle"
  BY <1>1
<1>3. HolesBehind(file') /\ LoneOrSafe'
  BY DEF HolesAreLast, HolesBehind, Hole, LoneOrSafe
<1>4. ASSUME NEW i, Hole(file', i) PROVE IsBeingWritten(i)'
  <2>1. PICK u \in Threads : pc[u] = "write" /\ \E p \in plan[u] : p.into = i
    BY <1>4 DEF HolesAreLast, IsBeingWritten
  <2>2. u # t
    BY <1>4, <2>1
  <2>3. pc'[u] = "write" /\ \E p \in plan'[u] : p.into = i
    BY <1>1, <2>1, <2>2
  <2> QED BY <2>3 DEF IsBeingWritten
<1>5. \A i : Hole(file', i) /\ left'.lone => i = Len(file'.recs)
  BY DEF HolesAreLast
<1>6. left'.lone =>
        \A u, v \in Threads : pc'[u] # "idle" /\ pc'[v] # "idle" => u = v
  BY <1>2 DEF HolesAreLast
<1> QED BY <1>3, <1>4, <1>5, <1>6 DEF HolesAreLast

\* What WriteRecord, LinkRecord and VoidRecord leave: no hole that was not there.
HolesKept(f, g) ==
  /\ GoodFile(g) /\ g.size = f.size /\ DOMAIN g.recs = DOMAIN f.recs
  /\ \A i : Hole(g, i) => Hole(f, i)
LEMMA WrittenHoles ==
  ASSUME NEW f, NEW g, NEW p, NEW o \in DOMAIN f.recs, Written(f, g, p, o)
  PROVE  HolesKept(f, g) /\ ~ Hole(g, o)
<1>1. GoodFile(g) /\ g.size = f.size /\ DOMAIN g.recs = DOMAIN f.recs
  BY DEF Written, Keeps, SameHead
<1>2. ~ Hole(g, o)
  BY DEF Written, Hole, Readable
<1>3. \A i : Hole(g, i) => Hole(f, i)
  BY <1>1, <1>2 DEF Written, Hole
<1> QED BY <1>1, <1>2, <1>3 DEF HolesKept
LEMMA LinkedHoles == ASSUME NEW f, NEW g, Linked(f, g) PROVE HolesKept(f, g)
<1>1. GoodFile(g) /\ g.size = f.size /\ DOMAIN g.recs = DOMAIN f.recs
  BY DEF Linked, Keeps, SameHead
<1>2. \A i : Hole(g, i) => Hole(f, i)
  BY <1>1 DEF Linked, Hole
<1> QED BY <1>1, <1>2 DEF HolesKept
LEMMA VoidedHoles == ASSUME NEW f, NEW g, NEW p, Voided(f, g, p) PROVE HolesKept(f, g)
<1>1. GoodFile(g) /\ g.size = f.size /\ DOMAIN g.recs = DOMAIN f.recs
  BY DEF Voided, Keeps, SameHead
<1>2. g.recs[p.at].op = "VOID"
  BY DEF Voided, Void, Record
<1>3. \A i : Hole(g, i) => Hole(f, i)
  BY <1>1, <1>2 DEF Voided, Hole
<1> QED BY <1>1, <1>3 DEF HolesKept

\* The steps of ProcessImpl that write to the file, and its end.
LEMMA HolesWritten ==
  ASSUME IInv, HolesAreLast, NEW t \in Threads,
         Write(t) \/ Link(t) \/ VoidOld(t) \/ Finish(t)
  PROVE  HolesAreLast'
<1>1. /\ GoodFile(file) /\ PlansAreSound /\ DOMAIN file.recs = 1 .. Len(file.recs)
      /\ Len(file.recs) \in Nat /\ pc[t] # "idle"
  <2>1. pc[t] # "idle"
    BY DEF Write, Link, VoidOld, Finish
  <2>2. GoodFile(file) /\ PlansAreSound
    BY DEF IInv
  <2> QED BY <2>1, <2>2, GoodShape DEF HasShape
<1>2. PICK p \in OperationSet :
         plan[t] = {p} /\ Feasible(file, p) /\ InStep(file, pc[t], p) /\ phase = "open"
  BY <1>1, InsideProcess
<1>3. PICK s : pc' = [pc EXCEPT ![t] = s]
  <2>1. CASE Write(t)
    BY <1>2, <2>1 DEF Write
  <2>2. CASE Link(t)
    BY <1>2, <2>2 DEF Link
  <2>3. CASE VoidOld(t) \/ Finish(t)
    BY <2>3 DEF VoidOld, Finish
  <2> QED BY <2>1, <2>2, <2>3
<1>4. /\ phase' = phase /\ left' = left
      /\ \A u \in Threads : u # t => plan'[u] = plan[u]
  BY <1>1 DEF Write, Link, VoidOld, Finish, PlansAreSound
<1>5. HolesKept(file, file') /\ (pc[t] = "write" => ~ Hole(file', p.into))
  <2>1. CASE Write(t)
    <3>1. file' = WriteRecord(file, p, p.into) /\ pc[t] = "write"
      BY <1>2, <2>1 DEF Write
    <3>2. p.into \in DOMAIN file.recs /\ p.into \in 1 .. Len(file.recs) + 1
      <4>1. p.into # 0
        BY <1>2, <3>1 DEF InStep
      <4>2. p.into \in DOMAIN file.recs
        BY <1>2, <4>1 DEF Feasible
      <4> QED BY <1>1, <4>2
    <3>3. /\ p.new \in RecordSet /\ WellFormed(p.new) /\ IsOperation(p.new)
          /\ Leads(file, p.new.child)
      BY <1>2 DEF Feasible, OperationSet
    <3>4. Written(file, file', p, p.into)
      BY <1>1, <3>1, <3>2, <3>3, WriteKeeps
    <3> QED BY <3>2, <3>4, WrittenHoles
  <2>2. CASE Link(t)
    <3> DEFINE o == IF p.kind = "remove" THEN p.next ELSE p.into
    <3>1. file' = LinkRecord(file, p, o) /\ pc[t] = "link"
      BY <1>2, <2>2 DEF Link
    <3>2. o \in Nat /\ Leads(file, o) /\ p.key \in Keys
      BY <1>2, <3>1 DEF Feasible, InStep, OperationSet, Leads
    <3> HIDE DEF o
    <3>3. Linked(file, file')
      BY <1>1, <3>1, <3>2, LinkKeeps
    <3> QED BY <3>1, <3>3, LinkedHoles
  <2>3. CASE VoidOld(t)
    <3>1. file' = VoidRecord(file, p) /\ pc[t] = "void"
      BY <1>2, <2>3 DEF VoidOld
    <3>2. p.at \in DOMAIN file.recs /\ p.oldsize \in Nat
      BY <1>2, <3>1 DEF Feasible, InStep, Readable, OperationSet
    <3>3. Voided(file, file', p)
      BY <1>1, <3>1, <3>2, VoidKeeps
    <3> QED BY <3>1, <3>3, VoidedHoles
  <2>4. CASE Finish(t)
    <3>1. file' = file /\ pc[t] # "write"
      BY <2>4 DEF Finish
    <3> QED BY <1>1, <3>1 DEF HolesKept
  <2> QED BY <2>1, <2>2, <2>3, <2>4
<1>6. GoodFile(file') /\ file'.size = file.size /\ DOMAIN file'.recs = DOMAIN file.recs
  BY <1>5 DEF HolesKept
<1>7. Len(file'.recs) = Len(file.recs)
  <2>1. Len(file'.recs) \in Nat /\ DOMAIN file'.recs = 1 .. Len(file'.recs)
    BY <1>6, GoodShape DEF HasShape
  <2> QED BY <1>1, <1>6, <2>1
<1>8. \A i : Hole(file', i) =>
        Hole(file, i) /\ ~ (pc[t] = "write" /\ \E q \in plan[t] : q.into = i)
  BY <1>2, <1>5 DEF HolesKept
<1> QED BY <1>1, <1>2, <1>3, <1>4, <1>6, <1>7, <1>8, HolesAfter

\* The lone writer takes space behind the last record, where no hole is.
LEMMA HolesReserved ==
  ASSUME IInv, HolesAreLast, NEW t \in Threads, Reserve(t)
  PROVE  HolesAreLast'
<1>1. PICK p \in OperationSet : plan[t] = {p} /\ phase = "open" /\ pc[t] = "reserve"
  BY InsideProcess DEF Reserve
<1> DEFINE n == Len(file.recs) + 1
<1>2. /\ file' = [file EXCEPT !.recs = Append(@, Zero(p.new.size))]
      /\ pc' = [pc EXCEPT ![t] = "write"] /\ phase' = phase /\ left' = left
      /\ plan' = [plan EXCEPT ![t] = {[p EXCEPT !.into = n]}]
  <2>1. (CHOOSE q \in plan[t] : TRUE) = p
    BY <1>1
  <2>2. {[q EXCEPT !.into = Len(file.recs) + 1] : q \in plan[t]} = {[p EXCEPT !.into = n]}
    BY <1>1
  <2> QED BY <2>1, <2>2 DEF Reserve
<1>3. /\ GoodFile(file) /\ PlansAreSound /\ DOMAIN file.recs = 1 .. Len(file.recs)
      /\ Len(file.recs) \in Nat /\ file.size \in Nat /\ file.size <= Len(file.recs)
  <2>1. GoodFile(file) /\ PlansAreSound
    BY DEF IInv
  <2>2. HasShape(file)
    BY <2>1, GoodShape
  <2> QED BY <2>1, <2>2 DEF HasShape, HolesAreLast, HolesBehind
<1>4. /\ \A i \in DOMAIN file.recs : file'.recs[i] = file.recs[i]
      /\ DOMAIN file'.recs = 1 .. n /\ GoodFile(file') /\ file'.size = file.size
  <2> DEFINE recs == Append(file.recs, Zero(p.new.size))
  <2>1. p.new.size \in Nat /\ file' = [file EXCEPT !.recs = recs]
    BY <1>2 DEF OperationSet, RecordSet
  <2>2. recs = Append(file.recs, Zero(p.new.size))
    OBVIOUS
  <2> HIDE DEF recs
  <2>3. Appended(file, file', p.new.size)
    BY <1>3, <2>1, <2>2, AppendKeeps
  <2> QED BY <2>3 DEF Appended, Keeps, SameHead
<1>5. Len(file'.recs) = n
  <2>1. Len(file'.recs) \in Nat /\ DOMAIN file'.recs = 1 .. Len(file'.recs)
    BY <1>4, GoodShape DEF HasShape
  <2> QED BY <1>3, <1>4, <2>1
<1>6. \A i : Hole(file', i) => i = n \/ Hole(file, i)
  BY <1>3, <1>4 DEF Hole
<1>7. /\ pc'[t] = "write" /\ \E q \in plan'[t] : q.into = n
      /\ \A u \in Threads : u # t => pc'[u] = pc[u] /\ plan'[u] = plan[u]
  <2>1. pc'[t] = "write" /\ \A u \in Threads : u # t => pc'[u] = pc[u]
    BY <1>2, <1>3 DEF PlansAreSound
  <2>2. /\ plan'[t] = {[p EXCEPT !.into = n]}
        /\ \A u \in Threads : u # t => plan'[u] = plan[u]
    BY <1>2, <1>3 DEF PlansAreSound
  <2>3. [p EXCEPT !.into = n].into = n
    BY DEF OperationSet
  <2> QED BY <2>1, <2>2, <2>3
<1> HIDE DEF n
<1>8. HolesBehind(file') /\ LoneOrSafe'
  <2>1. n > file.size /\ file.size <= n
    BY <1>3 DEF n
  <2>2. \A i : Hole(file, i) => i > file.size
    BY DEF HolesAreLast, HolesBehind, Hole
  <2>3. \A i : Hole(file', i) => i > file'.size
    BY <1>4, <1>6, <2>1, <2>2
  <2>4. HolesBehind(file')
    BY <1>4, <1>5, <2>1, <2>3 DEF HolesBehind, Hole
  <2> QED BY <1>2, <2>4 DEF HolesAreLast, LoneOrSafe
<1>9. ASSUME NEW i, Hole(file, i)
      PROVE  \E u \in Threads : u # t /\ pc[u] = "write" /\ \E q \in plan[u] : q.into = i
  BY <1>1, <1>9 DEF HolesAreLast, IsBeingWritten
<1>10. ASSUME NEW i, Hole(file', i) PROVE IsBeingWritten(i)'
  <2>1. CASE i = n
    BY <1>7, <2>1 DEF IsBeingWritten
  <2>2. CASE i # n
    <3>1. PICK u \in Threads : u # t /\ pc[u] = "write" /\ \E q \in plan[u] : q.into = i
      BY <1>6, <1>9, <1>10, <2>2
    <3>2. pc'[u] = "write" /\ \E q \in plan'[u] : q.into = i
      BY <1>7, <3>1
    <3> QED BY <3>2 DEF IsBeingWritten
  <2> QED BY <2>1, <2>2
<1>11. ASSUME left'.lone, NEW i, Hole(file', i) PROVE i = n
  <2>1. \A u \in Threads : pc[u] # "idle" => u = t
    BY <1>1, <1>2, <1>11 DEF HolesAreLast
  <2> QED BY <1>6, <1>9, <1>11, <2>1
<1>12. left'.lone =>
         \A u, v \in Threads : pc'[u] # "idle" /\ pc'[v] # "idle" => u = v
  <2>1. \A u \in Threads : pc'[u] # "idle" => pc[u] # "idle"
    BY <1>1, <1>7
  <2> QED BY <1>2, <2>1 DEF HolesAreLast
<1> QED BY <1>1, <1>2, <1>5, <1>8, <1>10, <1>11, <1>12 DEF HolesAreLast

\* Nobody else is inside ProcessImpl when a lone writer enters it.
LEMMA HolesBegun ==
  ASSUME IInv, HolesAreLast, NEW t \in Threads, Begin(t)
  PROVE  HolesAreLast'
<1>1. /\ PlansAreSound /\ phase = "open" /\ phase' = phase /\ file' = file /\ pc[t] = "idle"
      /\ (left.lone => Quiet) /\ left \in Limit /\ left' = [left EXCEPT !.ops = @ - 1]
  BY DEF IInv, Begin, ClosedIsSound
<1>2. left'.lone = left.lone /\ left'.crashes = left.crashes
  BY <1>1 DEF Limit
<1>3. \A u \in Threads : u # t => pc'[u] = pc[u] /\ plan'[u] = plan[u]
  BY <1>1 DEF Begin, PlansAreSound
<1>4. left.lone => \A u \in Threads : pc[u] = "idle"
  BY <1>1 DEF Quiet
<1>5. HolesBehind(file') /\ LoneOrSafe'
  BY <1>1, <1>2 DEF HolesAreLast, LoneOrSafe
<1>6. ASSUME NEW i, Hole(file', i) PROVE IsBeingWritten(i)'
  <2>1. PICK u \in Threads : pc[u] = "write" /\ \E q \in plan[u] : q.into = i
    BY <1>1, <1>6 DEF HolesAreLast, IsBeingWritten
  <2>2. pc'[u] = "write" /\ \E q \in plan'[u] : q.into = i
    BY <1>1, <1>3, <2>1
  <2> QED BY <2>2 DEF IsBeingWritten
<1>7. left'.lone =>
        \A u, v \in Threads : pc'[u] # "idle" /\ pc'[v] # "idle" => u = v
  BY <1>2, <1>3, <1>4
<1> QED BY <1>1, <1>2, <1>5, <1>6, <1>7 DEF HolesAreLast

\* Operations under the exclusive lock, and crashes.
LEMMA HolesExclusive ==
  ASSUME IInv, HolesAreLast, ZeroCheckIsComplete, Exclusive
  PROVE  HolesAreLast'
<1>1. /\ GoodFile(file) /\ PlansAreSound /\ ClosedIsSound /\ left \in Limit /\ LoneOrSafe
  BY DEF IInv, ClosedIsSound, HolesAreLast
<1>2. Quiet /\ pc' = pc /\ plan' = plan
  BY <1>1 DEF Exclusive, OpenFile, SyncBegin, SyncEnd, CloseMetadata, CloseFBP,
              SetUpdateModeAppending, ClosedIsSound
<1>3. Quiet'
  BY <1>2 DEF Quiet
<1>4. left'.lone = left.lone /\ left'.crashes = left.crashes
  <2>1. CASE SyncBegin
    BY <1>1, <2>1 DEF SyncBegin, Limit
  <2>2. CASE SetUpdateModeAppending
    BY <1>1, <2>2 DEF SetUpdateModeAppending, Limit
  <2>3. CASE OpenFile \/ SyncEnd \/ CloseMetadata \/ CloseFBP
    BY <2>3 DEF OpenFile, SyncEnd, CloseMetadata, CloseFBP
  <2> QED BY <2>1, <2>2, <2>3 DEF Exclusive
<1>5. LoneOrSafe'
  BY <1>1, <1>4 DEF LoneOrSafe
<1>6. NoHoles(file') /\ file'.size <= Len(file'.recs)
  <2>1. CASE OpenFile
    <3> DEFINE o == Open(file, left.restore)
    <3>1. file' = o.f /\ phase = "down"
      BY <2>1 DEF OpenFile
    <3>2. SoundOpen(file, o)
      BY <1>1, <3>1, OpenIsSound DEF ZeroCheckIsComplete, ClosedIsSound
    <3> HIDE DEF o
    <3> QED BY <3>1, <3>2 DEF SoundOpen, HolesAreLast
  <2>2. CASE ~OpenFile
    <3>1. phase # "down"
      BY <2>2 DEF Exclusive, SyncBegin, SyncEnd, CloseMetadata, CloseFBP, SetUpdateModeAppending
    <3>2. NoHoles(file) /\ file.size <= Len(file.recs)
      BY <1>2, <3>1, QuietNoHoles DEF HolesAreLast, HolesBehind
    <3>3. file \in FileSet /\ Len(file.recs) \in Nat
      BY <1>1 DEF GoodFile, FileSet
    <3>4. file'.recs = file.recs /\ file'.size \in {file.size, Len(file.recs)}
      <4>1. CASE SyncBegin \/ SyncEnd \/ CloseMetadata
        <5>1. \A b : /\ SaveMetadata(file, b).recs = file.recs
                     /\ SaveMetadata(file, b).size = Len(file.recs)
          BY <3>3 DEF SaveMetadata, FileSet
        <5> QED BY <4>1, <5>1 DEF SyncBegin, SyncEnd, CloseMetadata
      <4>2. CASE CloseFBP
        BY <3>3, <4>2 DEF CloseFBP, FileSet
      <4>3. CASE SetUpdateModeAppending
        BY <4>3 DEF SetUpdateModeAppending
      <4> QED BY <2>2, <4>1, <4>2, <4>3 DEF Exclusive
    <3> QED BY <3>2, <3>3, <3>4 DEF NoHoles
  <2> QED BY <2>1, <2>2
<1> QED BY <1>3, <1>5, <1>6, NoHolesAreLast

\* A process that dies leaves the hole of its lone writer.
LEMMA HolesCrash == ASSUME IInv, HolesAreLast, Crash PROVE HolesAreLast'
<1>1. /\ file \in FileSet /\ left \in Limit /\ phase' = "down" /\ left.crashes > 0
      /\ left' = [left EXCEPT !.crashes = @ - 1] /\ pc' = [t \in Threads |-> "idle"]
  BY DEF IInv, GoodFile, ClosedIsSound, Crash
<1>2. left.lone /\ left'.lone = left.lone
  BY <1>1 DEF HolesAreLast, LoneOrSafe, Limit
<1>3. PICK tail \in BOOLEAN : file' = [file EXCEPT !.tail = tail]
  BY DEF Crash
<1>4. file'.recs = file.recs /\ file'.size = file.size
  BY <1>1, <1>3 DEF FileSet
<1>5. HolesBehind(file') /\ \A i : Hole(file', i) => i = Len(file'.recs)
  BY <1>2, <1>4 DEF HolesAreLast, HolesBehind, Hole
<1> QED BY <1>1, <1>2, <1>5 DEF HolesAreLast, LoneOrSafe

\* With holes at the end of the file only, Open sees all of it.
LEMMA LastHolesAreSeen == ASSUME IInv, HolesAreLast PROVE ZeroCheckIsComplete
<1>1. SUFFICES ASSUME phase = "down" PROVE FullCheck(file) /\ FullCheck(TrimTail(file))
  BY DEF ZeroCheckIsComplete
<1>2. /\ GoodFile(file) /\ HolesBehind(file) /\ file.size \in Nat /\ Len(file.recs) \in Nat
      /\ \A i \in DOMAIN file.recs : file.recs[i].op = "ZERO" => i = Len(file.recs)
  <2>1. GoodFile(file) /\ HolesBehind(file)
    BY DEF IInv, HolesAreLast
  <2>2. \A i \in DOMAIN file.recs : file.recs[i].op = "ZERO" => i = Len(file.recs)
    BY <1>1 DEF HolesAreLast, Hole
  <2> QED BY <2>1, <2>2, GoodShape DEF HasShape
<1>3. FullCheck(file)
  BY <1>2, LastHoleIsSeen
<1> DEFINE g == TrimTail(file)
<1>4. GoodFile(g) /\ HolesBehind(g)
  BY <1>2, <1>3, TrimCuts
<1>5. CASE g = file
  BY <1>3, <1>5
<1>6. CASE g # file
  <2>1. g = Truncate(file, file.size)
    BY <1>6 DEF TrimTail
  <2>2. Len(g.recs) = file.size /\ g.size = file.size
    BY <2>1, <1>2 DEF Truncate, GoodFile, FileSet, HolesBehind
  <2> HIDE DEF g
  <2>3. \A i \in DOMAIN g.recs : g.recs[i].op # "ZERO"
    <3>1. \A i \in DOMAIN g.recs : i \in 1 .. Len(g.recs)
      BY <1>4 DEF GoodFile, FileSet
    <3> QED BY <1>2, <1>4, <2>2, <3>1 DEF HolesBehind
  <2> QED BY <1>3, <1>4, <2>3, LastHoleIsSeen DEF g
<1> QED BY <1>3, <1>5, <1>6

\* Every step keeps the holes where Open sees them.
LEMMA NextHoles ==
  ASSUME IInv, HolesAreLast, ZeroCheckIsComplete, [Next]_vars
  PROVE  HolesAreLast'
<1>1. CASE UNCHANGED vars
  BY <1>1 DEF vars, HolesAreLast, LoneOrSafe, IsBeingWritten
<1>2. CASE \E t \in Threads : Step(t)
  BY <1>2, HolesBegun, HolesReserved, HolesWritten DEF Step
<1>3. CASE Exclusive
  BY <1>3, HolesExclusive
<1>4. CASE Crash
  BY <1>4, HolesCrash
<1> QED BY <1>1, <1>2, <1>3, <1>4 DEF Next

\* In every behaviour one thread updates at a time, or the process never dies.
LoneWriters == \A l \in Limits : l.lone \/ l.crashes = 0

\* The file and the free block pool are sound at every step, through crashes
\* between any two writes of a lone writer and the Opens that follow, and, in a
\* process that does not die, at every step of any number of writers; however
\* little of the file CheckZeroRegion reads.
THEOREM LoneWriterSoundness ==
  ASSUME ClosesAreWhole, LoneWriters
  PROVE  Spec => []FileIsSound
<1>1. Init => IInv /\ HolesAreLast
  <2> SUFFICES ASSUME Init PROVE IInv /\ HolesAreLast
    OBVIOUS
  <2>1. /\ left \in Limits /\ file = EmptyFile(left.mode, 1)
        /\ pc = [t \in Threads |-> "idle"]
    BY DEF Init, Start
  <2>2. file.recs = <<>> /\ file.size = 0 /\ LoneOrSafe
    BY <2>1 DEF EmptyFile, LoneWriters, LoneOrSafe
  <2>3. HolesAreLast
    <3>1. HolesBehind(file) /\ \A i : ~ Hole(file, i)
      BY <2>2 DEF HolesBehind, Hole
    <3>2. \A t \in Threads : pc[t] = "idle"
      BY <2>1
    <3> QED BY <2>2, <3>1, <3>2 DEF HolesAreLast
  <2> QED BY <2>3, InitIInv
<1>2. IInv /\ HolesAreLast => ZeroCheckIsComplete
  BY LastHolesAreSeen
<1>3. IInv /\ HolesAreLast /\ ZeroCheckIsComplete /\ [Next]_vars => IInv' /\ HolesAreLast'
  BY NextIInv, NextHoles
<1>4. IInv => FileIsSound
  BY IInvIsSound
<1> QED BY <1>1, <1>2, <1>3, <1>4, PTL DEF Spec
=============================================================================

-------------------------------- MODULE CacheDBM -------------------------------
(***************************************************************************)
(* CacheDBMImpl and CacheDBMIteratorImpl (tkrzw_dbm_cache.cc): slots with a    *)
(* mutex each, calls on one key, on several keys, on every record, one         *)
(* iterator, and the operations that hold mutex_ alone.                        *)
(*                                                                             *)
(* A step of a thread is what it does in one critical section of a slot.       *)
(***************************************************************************)
EXTENDS CacheSlot, FiniteSets

CONSTANTS Threads, None, Keys, Values, Limits

ASSUME CacheAssumption ==
  /\ Keys \subseteq Nat /\ Values \subseteq Nat \ {0}
  /\ \A l \in Limits : l.rec \in Nat \ {0} /\ {l.mem, l.tight} \subseteq Nat \ {0}

VARIABLES slots, \* slots_
          owner, \* the thread that holds each slot's mutex_
          cap,   \* cap_rec_num_ and cap_mem_size_
          file,  \* the keys and values in the file, and whether junk follows them
          open,  \* "no", or "reader" or "writer": open_ and writable_
          call,  \* the call each thread is in, and the iterator's slot_index_ and keys_
          it,
          stay,  \* the keys that have been there since a call on every record began
          view,  \* the records as they were before a call that is processing several keys
          left   \* what may still be called, the constructor's capacities,
                 \* the memory a rebuild may leave, and the first records

vars == <<slots, owner, cap, file, open, call, it, stay, view, left>>

Slots == 0 .. NumSlots - 1
SlotOf(key) == key % NumSlots

\* The processors of Get, Remove and Set, by what ProcessFull answers.
ProcOf(full) == [full |-> full, empty |-> IF full = REMOVE THEN NOOP ELSE full]
Procs == {ProcOf(full) : full \in {NOOP, REMOVE} \cup Values}

\* Each slot has an equal part of the capacities, and one more.
InitAllSlots(c) == [s \in Slots |-> Slot(c.rec \div NumSlots + 1, c.mem \div NumSlots + 1)]

\* ImportRecords sets every record of the file; it stops with an error at junk
\* or at a key without a value.
RECURSIVE ImportRecords(_, _)
ImportRecords(ss, items) ==
  IF Len(items) < 2 THEN ss
  ELSE LET s == SlotOf(items[1])
           set == [full |-> items[2], empty |-> items[2]]
       IN ImportRecords([ss EXCEPT ![s] = ProcessImpl(@, items[1], set, FALSE)],
                        SubSeq(items, 3, Len(items)))

Idle == [op |-> "idle"]
NoIterator == [index |-> -1, keys |-> <<>>, seen |-> <<>>, all |-> FALSE]

Init ==
  /\ left \in Limits
  /\ cap = [rec |-> left.rec, mem |-> left.mem]
  /\ slots = ImportRecords(InitAllSlots(cap), left.fill)
  /\ owner = [s \in Slots |-> None] /\ file = [items |-> <<>>, junk |-> FALSE] /\ open = "no"
  /\ call = [t \in Threads |-> Idle] /\ it = NoIterator
  /\ stay = [w \in Threads \cup {None} |-> {}] /\ view = [s \in Slots |-> ExportRecords(slots[s])]

IsIdle(t) == call[t] = Idle
MayCall(t) == IsIdle(t) /\ t \in left.threads
Alone == \A t \in Threads : IsIdle(t)
Unlocked(s) == owner[s] = None
May(what) == left[what] > 0 /\ left' = [left EXCEPT ![what] = @ - 1]

\* CacheSlot::Process: a call of ProcessImpl with the slot's mutex held.
ProcessIn(s, key, proc) ==
  \E moves \in BOOLEAN : slots' = [slots EXCEPT ![s] = ProcessImpl(@, key, proc, moves)]

Process(t) ==
  /\ MayCall(t) /\ May("process")
  /\ \E key \in left.keys, proc \in left.procs : Unlocked(SlotOf(key)) /\ ProcessIn(SlotOf(key), key, proc)
  /\ UNCHANGED <<owner, cap, file, open, call, it>>

-----------------------------------------------------------------------------
(* ProcessMulti                                                              *)

\* The slots of the keys are locked in the order of their addresses.
MultiBegin(t) ==
  /\ MayCall(t) /\ May("multi")
  /\ \E keys \in {<<k, l>> : k, l \in left.keys}, proc \in left.procs :
       call' = [call EXCEPT ![t] =
                  [op |-> "lock", keys |-> keys, proc |-> proc,
                   uniq_slots |-> {SlotOf(keys[1]), SlotOf(keys[2])}]]
  /\ UNCHANGED <<slots, owner, cap, file, open, it>>

Locked(t) == {s \in Slots : owner[s] = t}

\* The slots are locked in the order of the keys.
MultiLock_inCallOrder(t) ==
  LET c == call[t]
      s == IF SlotOf(c.keys[1]) \in Locked(t) THEN SlotOf(c.keys[2]) ELSE SlotOf(c.keys[1])
  IN /\ c.op = "lock" /\ Unlocked(s)
     /\ owner' = [owner EXCEPT ![s] = t]
     /\ call' = [call EXCEPT ![t].op = IF Locked(t) \cup {s} = c.uniq_slots
                                       THEN "multi" ELSE "lock"]
     /\ UNCHANGED <<slots, cap, file, open, it, left>>

MultiLock(t) ==
  LET c == call[t]
      s == Min(c.uniq_slots \ Locked(t))
  IN /\ c.op = "lock" /\ Unlocked(s)
     /\ owner' = [owner EXCEPT ![s] = t]
     /\ call' = [call EXCEPT ![t].op = IF Locked(t) \cup {s} = c.uniq_slots
                                       THEN "multi" ELSE "lock"]
     /\ UNCHANGED <<slots, cap, file, open, it, left>>

\* A slot is unlocked as soon as its key is processed.
MultiProcess_releases(t) ==
  /\ call[t].op = "multi"
  /\ LET key == Head(call[t].keys)
     IN /\ ProcessIn(SlotOf(key), key, call[t].proc)
        /\ owner' = IF Cardinality(Locked(t)) > 1 THEN [owner EXCEPT ![SlotOf(key)] = None]
                    ELSE owner
  /\ call' = [call EXCEPT ![t].keys = Tail(@),
                          ![t].op = IF Len(call[t].keys) = 1 THEN "unlock" ELSE "multi"]
  /\ UNCHANGED <<cap, file, open, it, left>>

MultiProcess(t) ==
  /\ call[t].op = "multi"
  /\ LET key == Head(call[t].keys) IN ProcessIn(SlotOf(key), key, call[t].proc)
  /\ call' = [call EXCEPT ![t].keys = Tail(@),
                          ![t].op = IF Len(call[t].keys) = 1 THEN "unlock" ELSE "multi"]
  /\ UNCHANGED <<owner, cap, file, open, it, left>>

MultiUnlock(t) ==
  LET s == Max(Locked(t))
  IN /\ call[t].op = "unlock"
     /\ owner' = [owner EXCEPT ![s] = None]
     /\ call' = [call EXCEPT ![t] = IF Locked(t) = {s} THEN Idle ELSE @]
     /\ UNCHANGED <<slots, cap, file, open, it, left>>

-----------------------------------------------------------------------------
(* ProcessEach: slot by slot; a writable call takes the keys of a slot first   *)
(* and then processes them one at a time.                                      *)

EachBegin(t) ==
  /\ MayCall(t) /\ May("each")
  /\ \E proc \in left.procs, writable \in BOOLEAN :
       call' = [call EXCEPT ![t] =
                  [op |-> "each", slot |-> 0, keys |-> <<>>, proc |-> proc,
                   writable |-> writable, seen |-> <<>>]]
  /\ UNCHANGED <<slots, owner, cap, file, open, it>>

\* The keys of a slot: to be processed, or read at once by a call that is not
\* writable.
EachSlot(t) ==
  LET c == call[t] keys == GetKeys(slots[c.slot])
  IN /\ c.op = "each" /\ c.keys = <<>> /\ c.slot < NumSlots /\ Unlocked(c.slot)
     /\ call' = [call EXCEPT
                   ![t].slot = @ + 1,
                   ![t].keys = IF c.writable THEN keys ELSE <<>>,
                   ![t].seen = IF c.writable THEN @ ELSE @ \o keys]
     /\ UNCHANGED <<slots, owner, cap, file, open, it, left>>

\* The list is walked while the calls reorder it.
EachProcess_live(t) ==
  LET c == call[t] key == Head(c.keys)
      rest == GetKeys(slots'[SlotOf(key)])
  IN /\ c.op = "each" /\ c.keys # <<>> /\ Unlocked(SlotOf(key))
     /\ ProcessIn(SlotOf(key), key, c.proc)
     /\ call' = [call EXCEPT ![t].keys = IF Contains(rest, key)
                                         THEN SubSeq(rest, 1 + SelectInSeq(rest, LAMBDA k : k = key), Len(rest))
                                         ELSE rest,
                             ![t].seen = Append(@, key)]
     /\ UNCHANGED <<owner, cap, file, open, it, left>>

EachProcess(t) ==
  LET c == call[t] key == Head(c.keys)
  IN /\ c.op = "each" /\ c.keys # <<>> /\ Unlocked(SlotOf(key))
     /\ ProcessIn(SlotOf(key), key, c.proc)
     /\ call' = [call EXCEPT ![t].keys = Tail(@), ![t].seen = Append(@, key)]
     /\ UNCHANGED <<owner, cap, file, open, it, left>>

EachEnd(t) ==
  /\ call[t].op = "each" /\ call[t].keys = <<>> /\ call[t].slot = NumSlots
  /\ call' = [call EXCEPT ![t] = Idle]
  /\ UNCHANGED <<slots, owner, cap, file, open, it, left>>

-----------------------------------------------------------------------------
(* The iterator                                                              *)

ItFirst(t) ==
  /\ MayCall(t) /\ May("iterator")
  /\ \A u \in Threads : call[u].op \notin {"scan", "act"}
  /\ it' = [index |-> 0, keys |-> <<>>, seen |-> <<>>, all |-> TRUE]
  /\ UNCHANGED <<slots, owner, cap, file, open, call>>

\* Jump, Next and Process read the keys of a slot when they have none.
ItCall(t) ==
  /\ MayCall(t) /\ May("iterator")
  /\ \A u \in Threads : call[u].op \notin {"scan", "act"}
  /\ \/ \E key \in Keys :
          /\ it' = [index |-> SlotOf(key), keys |-> <<>>, seen |-> <<>>, all |-> FALSE]
          /\ call' = [call EXCEPT ![t] = [op |-> "scan", then |-> "jump", key |-> key]]
     \/ \E then \in {"next", "process"}, proc \in left.procs \cup {ProcOf(NOOP)} :
          /\ it.index >= 0
          /\ then = "next" => proc = ProcOf(NOOP)
          /\ call' = [call EXCEPT ![t] = [op |-> IF it.keys = <<>> THEN "scan" ELSE "act",
                                          then |-> then, proc |-> proc]]
          /\ UNCHANGED it
  /\ UNCHANGED <<slots, owner, cap, file, open>>

\* ReadNextBucketRecords: one slot after the other until one has keys.
ReadNextBucketRecords(t) ==
  /\ call[t].op = "scan"
  /\ IF it.index \in Slots
     THEN /\ Unlocked(it.index)
          /\ it' = [it EXCEPT !.index = @ + 1, !.keys = GetKeys(slots[it.index])]
          /\ call' = IF it'.keys = <<>> THEN call ELSE [call EXCEPT ![t].op = "act"]
     ELSE /\ it' = [it EXCEPT !.index = -1]
          /\ call' = [call EXCEPT ![t] = Idle]
  /\ UNCHANGED <<slots, owner, cap, file, open, left>>

ItJump(t) ==
  LET place == {i \in DOMAIN it.keys : it.keys[i] = call[t].key}
  IN /\ call[t].op = "act" /\ call[t].then = "jump"
     /\ it' = IF place = {} THEN NoIterator
              ELSE [it EXCEPT !.keys = SubSeq(@, Min(place), Len(@))]
     /\ call' = [call EXCEPT ![t] = Idle]
     /\ UNCHANGED <<slots, owner, cap, file, open, left>>

ItNext(t) ==
  /\ call[t].op = "act" /\ call[t].then = "next"
  /\ it' = [it EXCEPT !.keys = Tail(@), !.seen = Append(@, Head(it.keys))]
  /\ call' = [call EXCEPT ![t] = Idle]
  /\ UNCHANGED <<slots, owner, cap, file, open, left>>

\* The wrapper of the processor has no answer for a key that is gone.
ItProcess(t) ==
  LET key == Head(it.keys)
      proc == [call[t].proc EXCEPT !.empty = NOOP]
      removes == proc.full = REMOVE /\ Contains(GetKeys(slots[SlotOf(key)]), key)
  IN /\ call[t].op = "act" /\ call[t].then = "process" /\ Unlocked(SlotOf(key))
     /\ ProcessIn(SlotOf(key), key, proc)
     /\ it' = IF removes THEN [it EXCEPT !.keys = Tail(@), !.seen = Append(@, key)] ELSE it
     /\ call' = [call EXCEPT ![t] = Idle]
     /\ UNCHANGED <<owner, cap, file, open, left>>

-----------------------------------------------------------------------------
(* Operations that hold mutex_ alone                                         *)

CancelIterators == it' = [it EXCEPT !.index = -1, !.all = FALSE]

\* ExportRecords empties the file and writes the records of slot after slot.
Records == FlattenSeq([i \in 1 .. NumSlots |-> ExportRecords(slots[i - 1])])
Items(recs) == FlattenSeq([i \in DOMAIN recs |-> <<recs[i].key, recs[i].value>>])
Export == file' = [items |-> Items(Records), junk |-> FALSE]

Open ==
  /\ Alone /\ open = "no" /\ May("open")
  /\ slots' = ImportRecords(slots, file.items)
  /\ \E mode \in {"reader", "writer"} :
       open' = IF file.junk \/ Len(file.items) % 2 = 1 THEN "no" ELSE mode
  /\ UNCHANGED <<owner, cap, file, call, it>>

Close ==
  /\ Alone /\ open # "no"
  /\ IF open = "writer" THEN Export ELSE UNCHANGED file
  /\ slots' = InitAllSlots(cap) /\ CancelIterators /\ open' = "no"
  /\ UNCHANGED <<owner, cap, call, left>>

Synchronize ==
  /\ Alone /\ open = "writer" /\ May("sync") /\ Export
  /\ UNCHANGED <<slots, owner, cap, open, call, it>>

Clear ==
  /\ Alone /\ May("clear")
  /\ slots' = InitAllSlots(cap) /\ CancelIterators
  /\ UNCHANGED <<owner, cap, file, open, call>>

RebuildAdvanced ==
  /\ Alone /\ May("rebuild")
  /\ \E rec \in 1 .. left.rec, mem \in {cap.mem, left.tight} :
       cap' = [rec |-> rec, mem |-> mem]
  /\ slots' = [s \in Slots |-> Rebuild(slots[s], cap'.rec \div NumSlots + 1,
                                       cap'.mem \div NumSlots + 1)]
  /\ CancelIterators
  /\ UNCHANGED <<owner, file, open, call>>

\* The process ends; if it was writing the file, a part of the items is there,
\* and junk may follow them.
Crash ==
  /\ May("crash")
  /\ \/ UNCHANGED file
     \/ /\ Alone /\ open = "writer"
        /\ \E n \in 0 .. Len(Items(Records)), junk \in BOOLEAN :
             file' = [items |-> SubSeq(Items(Records), 1, n), junk |-> junk]
  /\ cap' = [rec |-> left.rec, mem |-> left.mem] /\ slots' = InitAllSlots(cap')
  /\ owner' = [s \in Slots |-> None] /\ open' = "no"
  /\ call' = [t \in Threads |-> Idle] /\ it' = NoIterator

-----------------------------------------------------------------------------

\* What the properties remember: the keys that were there all the time, and the
\* records of its slots before a call on several keys has processed them all.
Present(ss) == UNION {Range(GetKeys(ss[s])) : s \in Slots}
Remember ==
  /\ stay' = [w \in Threads \cup {None} |->
       IF IF w = None THEN it'.all /\ ~(it.all /\ (it'.seen # <<>> \/ it'.index # 0))
          ELSE call'[w].op = "each" /\ call[w].op # "each"
       THEN Present(slots') ELSE stay[w] \cap Present(slots')]
  /\ view' = [s \in Slots |->
       IF \E t \in Threads : call'[t].op = "multi" /\ s \in call'[t].uniq_slots
       THEN view[s] ELSE ExportRecords(slots'[s])]

Run(t) ==
  \/ MultiLock(t) \/ MultiProcess(t) \/ MultiUnlock(t)
  \/ EachSlot(t) \/ EachProcess(t) \/ EachEnd(t)
  \/ ReadNextBucketRecords(t) \/ ItJump(t) \/ ItNext(t) \/ ItProcess(t)

Begin(t) == Process(t) \/ MultiBegin(t) \/ EachBegin(t) \/ ItFirst(t) \/ ItCall(t)

Exclusive == Open \/ Close \/ Synchronize \/ Clear \/ RebuildAdvanced \/ Crash

Next == (Exclusive \/ \E t \in Threads : Run(t) \/ Begin(t)) /\ Remember

\* A thread in a call goes on; the slots' mutexes are spin locks that a finite
\* number of other calls contend for.
Spec == Init /\ [][Next]_vars /\ \A t \in Threads : WF_vars(Run(t) /\ Remember)
-----------------------------------------------------------------------------

Calls ==
  {Idle}
  \cup [op : {"lock", "multi", "unlock"}, keys : SeqOf(Keys, 2), proc : Procs,
        uniq_slots : SUBSET Slots]
  \cup [op : {"scan", "act"}, then : {"jump"}, key : Keys]
  \cup [op : {"scan", "act"}, then : {"next", "process"}, proc : Procs]

\* The type of the database's state; a slot never has more records than its
\* part of the capacity (ProcessImpl, Rebuild).
TypeOK ==
  /\ \A s \in Slots :
       /\ slots[s].num_records \in 0 .. cap.rec \div NumSlots + 1
       /\ {slots[s].first, slots[s].last} \cup Range(slots[s].buckets) \subseteq Cells \cup {Nil}
  /\ owner \in [Slots -> Threads \cup {None}] /\ open \in {"no", "reader", "writer"}
  /\ \A t \in Threads : call[t].op = "each" \/ call[t] \in Calls
  /\ it.index \in -1 .. NumSlots /\ Range(it.keys) \subseteq Keys

\* The list, the bucket chains, the heap and the counters of every slot agree
\* whatever the order of look-ups, rewrites that move a record, removals,
\* deletions of the least recently used record and rebuilds (CacheSlot).
SlotsAreSound == TypeOK /\ \A s \in Slots : IsSound(slots[s])

\* The records and their order of use are those of an LRU store in which a call
\* on several keys is one step (ProcessMulti, RemoveLRU, ImportRecords).
LRU == INSTANCE LRUStore WITH
  entries <- view,
  saved <- [i \in 1 .. Len(file.items) \div 2 |->
              [key |-> file.items[2 * i - 1], value |-> file.items[2 * i]]],
  room <- cap.rec \div NumSlots + 1
ImplementsLRUStore == LRU!Spec

\* A ProcessEach that returns has called the processor once for every record
\* that was there all the time, though its own steps and other threads reorder
\* the lists meanwhile (CacheSlot::ProcessEach).
EachIsExact ==
  \A t \in Threads :
    call[t].op = "each" /\ call[t].slot = NumSlots /\ call[t].keys = <<>> =>
      stay[t] \subseteq Range(call[t].seen) /\ IsInjective(call[t].seen)

\* An iterator that started at the first record and came to the end has passed
\* every record that was there all the time, none twice
\* (ReadNextBucketRecords, Next).
IterationIsExact ==
  it.all /\ it.index = -1 => stay[None] \subseteq Range(it.seen) /\ IsInjective(it.seen)

\* ProcessEach and the iterator meet every record that stays, once, while calls
\* reorder, move and drop records.
EveryRecordIsMet == EachIsExact /\ IterationIsExact

\* Every call returns: two calls on the same slots never wait for each other
\* (ProcessMulti locks in the order of the slots).
CallsReturn == \A t \in Threads : ~IsIdle(t) ~> IsIdle(t)
=============================================================================

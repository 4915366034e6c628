------------------------------- MODULE HashMutex -------------------------------
(***************************************************************************)
(* HashMutex: a fixed array of shared mutexes, the slots, that guards the      *)
(* buckets of a hash table whose number of buckets may change.  A bucket is    *)
(* guarded by the slot of its index modulo the number of slots.  The number of *)
(* buckets changes only under all the slots (RebuildImpl), so a thread that    *)
(* computed its slot from an old number must notice and try again.  The slots  *)
(* are atomic shared locks, which SpinSharedMutex is shown to implement.       *)
(***************************************************************************)
EXTENDS Integers

CONSTANTS
  Threads, Keys,
  NumSlots,
  Sizes,            \* the numbers of buckets the table may have
  Hash(_, _)        \* hash_func: the bucket of a key in a table of a size

ASSUME SlotsAssumption == NumSlots \in Nat \ {0}
ASSUME SizesAssumption == Sizes \subseteq Nat \ {0}
ASSUME HashAssumption == \A k \in Keys, n \in Sizes : Hash(k, n) \in 0 .. n - 1

VARIABLES
  num_buckets,
  held,      \* held[t][s]: how thread t holds slot s
  pc,        \* where each thread is
  mode,      \* "shared" or "excl": what the thread asked for
  keys,      \* the keys it asked for
  old,       \* old_num_buckets, or the number the bucket indices came from
  todo       \* the slots that LockMulti and LockAll have still to lock

vars == <<num_buckets, held, pc, mode, keys, old, todo>>

Slots == 0 .. NumSlots - 1
Slot(k, n) == Hash(k, n) % NumSlots
SlotsOf(ks, n) == {Slot(k, n) : k \in ks}
Modes == {"shared", "excl"}
First(slots) == {s \in slots : \A r \in slots : s <= r}

\* Every variable has its type; the table has one of its sizes.
TypeOK ==
  /\ num_buckets \in Sizes
  /\ held \in [Threads -> [Slots -> Modes \cup {"none"}]]
  /\ pc \in [Threads -> {"idle", "read", "lock", "check", "zero", "multi", "in",
                          "all", "in_all", "unlock"}]
  /\ mode \in [Threads -> Modes]
  /\ keys \in [Threads -> SUBSET Keys]
  /\ old \in [Threads -> Sizes]
  /\ todo \in [Threads -> SUBSET Slots]

Init ==
  /\ num_buckets \in Sizes
  /\ held = [t \in Threads |-> [s \in Slots |-> "none"]]
  /\ pc = [t \in Threads |-> "idle"]
  /\ mode = [t \in Threads |-> "shared"]
  /\ keys = [t \in Threads |-> {}]
  /\ old = [t \in Threads |-> num_buckets]
  /\ todo = [t \in Threads |-> {}]

Goto(t, loc) == pc' = [pc EXCEPT ![t] = loc]

\* slots_[s].lock() or lock_shared(), when the slot lets the thread in.
Acquire(t, s) ==
  /\ \A u \in Threads \ {t} :
       held[u][s] = "none" \/ (mode[t] = "shared" /\ held[u][s] = "shared")
  /\ held' = [held EXCEPT ![t][s] = mode[t]]

Release(t, s) == held' = [held EXCEPT ![t][s] = "none"]

-----------------------------------------------------------------------------
(* LockOne and LockOneShared.                                                *)

CallLockOne(t, k, m) ==
  /\ pc[t] = "idle"
  /\ mode' = [mode EXCEPT ![t] = m]
  /\ keys' = [keys EXCEPT ![t] = {k}]
  /\ Goto(t, "read")
  /\ UNCHANGED <<num_buckets, held, old, todo>>

ReadNumBuckets(t) ==
  /\ pc[t] = "read"
  /\ old' = [old EXCEPT ![t] = num_buckets]
  /\ Goto(t, "lock")
  /\ UNCHANGED <<num_buckets, held, mode, keys, todo>>

LockSlot(t) ==
  /\ pc[t] = "lock"
  /\ \E k \in keys[t] : Acquire(t, Slot(k, old[t]))
  /\ Goto(t, "check")
  /\ UNCHANGED <<num_buckets, mode, keys, old, todo>>

\* Mutant: the number of buckets is not read again.
Recheck_skipped(t) ==
  /\ pc[t] = "check"
  /\ Goto(t, "in")
  /\ UNCHANGED <<num_buckets, held, mode, keys, old, todo>>

\* The number of buckets is read again; a slot computed from an old one is
\* unlocked and the search for the slot starts over.
Recheck(t) ==
  /\ pc[t] = "check"
  /\ \/ /\ num_buckets = old[t]
        /\ Goto(t, "in")
        /\ UNCHANGED held
     \/ /\ num_buckets # old[t]
        /\ \E k \in keys[t] : Release(t, Slot(k, old[t]))
        /\ Goto(t, "read")
  /\ UNCHANGED <<num_buckets, mode, keys, old, todo>>

-----------------------------------------------------------------------------
(* LockMulti and LockMultiShared.                                            *)

CallLockMulti(t, ks, m) ==
  /\ pc[t] = "idle"
  /\ mode' = [mode EXCEPT ![t] = m]
  /\ keys' = [keys EXCEPT ![t] = ks]
  /\ Goto(t, "zero")
  /\ UNCHANGED <<num_buckets, held, old, todo>>

\* Slot 0 is locked before the number of buckets is read.
LockZero(t) ==
  /\ pc[t] = "zero"
  /\ Acquire(t, 0)
  /\ old' = [old EXCEPT ![t] = num_buckets]
  /\ todo' = [todo EXCEPT ![t] = SlotsOf(keys[t], num_buckets) \ {0}]
  /\ Goto(t, "multi")
  /\ UNCHANGED <<num_buckets, mode, keys>>

\* Mutant: the remaining slots are locked from the last to the first.
LockNext_descends(t) ==
  /\ pc[t] \in {"multi", "all"}
  /\ \E s \in todo[t] : /\ \A r \in todo[t] : r <= s
                        /\ Acquire(t, s)
                        /\ todo' = [todo EXCEPT ![t] = @ \ {s}]
  /\ UNCHANGED <<num_buckets, pc, mode, keys, old>>

LockNext(t) ==
  /\ pc[t] \in {"multi", "all"}
  /\ \E s \in First(todo[t]) : /\ Acquire(t, s)
                               /\ todo' = [todo EXCEPT ![t] = @ \ {s}]
  /\ UNCHANGED <<num_buckets, pc, mode, keys, old>>

\* Slot 0 is unlocked unless a key belongs to it.
LockedMulti(t) ==
  /\ pc[t] = "multi" /\ todo[t] = {}
  /\ IF 0 \in SlotsOf(keys[t], old[t]) THEN UNCHANGED held ELSE Release(t, 0)
  /\ Goto(t, "in")
  /\ UNCHANGED <<num_buckets, mode, keys, old, todo>>

-----------------------------------------------------------------------------
(* LockAll and LockAllShared, and what is done under them.                   *)

CallLockAll(t, m) ==
  /\ pc[t] = "idle"
  /\ mode' = [mode EXCEPT ![t] = m]
  /\ keys' = [keys EXCEPT ![t] = {}]
  /\ todo' = [todo EXCEPT ![t] = Slots]
  /\ Goto(t, "all")
  /\ UNCHANGED <<num_buckets, held, old>>

LockedAll(t) ==
  /\ pc[t] = "all" /\ todo[t] = {}
  /\ Goto(t, "in_all")
  /\ UNCHANGED <<num_buckets, held, mode, keys, old, todo>>

Rehash(t, n) ==
  /\ pc[t] = "in_all" /\ mode[t] = "excl"
  /\ num_buckets' = n
  /\ UNCHANGED <<held, pc, mode, keys, old, todo>>

-----------------------------------------------------------------------------
(* UnlockOne, UnlockMulti, UnlockAll: the slots from the last to the first.  *)

CallUnlock(t) ==
  /\ pc[t] \in {"in", "in_all"}
  /\ Goto(t, "unlock")
  /\ UNCHANGED <<num_buckets, held, mode, keys, old, todo>>

Holding(t) == {s \in Slots : held[t][s] # "none"}

UnlockLast(t) ==
  /\ pc[t] = "unlock"
  /\ \E s \in Holding(t) : (\A r \in Holding(t) : r <= s) /\ Release(t, s)
  /\ UNCHANGED <<num_buckets, pc, mode, keys, old, todo>>

Unlocked(t) ==
  /\ pc[t] = "unlock" /\ Holding(t) = {}
  /\ Goto(t, "idle")
  /\ UNCHANGED <<num_buckets, held, mode, keys, old, todo>>

Advance(t) ==
  \/ ReadNumBuckets(t) \/ LockSlot(t) \/ Recheck(t)
  \/ LockZero(t) \/ LockNext(t) \/ LockedMulti(t) \/ LockedAll(t)
  \/ CallUnlock(t) \/ UnlockLast(t) \/ Unlocked(t)

Next ==
  \E t \in Threads :
    \/ \E m \in Modes : \/ \E k \in Keys : CallLockOne(t, k, m)
                        \/ \E ks \in SUBSET Keys : CallLockMulti(t, ks, m)
                        \/ CallLockAll(t, m)
    \/ \E n \in Sizes : Rehash(t, n)
    \/ Advance(t)

Spec == Init /\ [][Next]_vars

-----------------------------------------------------------------------------
(* Correctness.                                                              *)

\* A thread that came back from LockOne or LockMulti holds, as it asked for, the
\* slots of its keys under the number of buckets in force: no Rehash came between
\* the computation of the slots and the return, or since then.
BucketsAreCurrent ==
  \A t \in Threads : pc[t] = "in" =>
    \A k \in keys[t] : /\ old[t] = num_buckets
                       /\ held[t][Slot(k, num_buckets)] = mode[t]

\* Two threads work on the same bucket, or one on all of them, only if both
\* asked for shared locks.
Buckets(t) == IF pc[t] = "in_all" THEN 0 .. num_buckets - 1
              ELSE IF pc[t] = "in" THEN {Hash(k, num_buckets) : k \in keys[t]} ELSE {}
BucketExclusion ==
  \A t, u \in Threads :
    t # u /\ Buckets(t) \cap Buckets(u) # {} => mode[t] = "shared" /\ mode[u] = "shared"

\* The strengthening that makes the two invariants inductive: slots are never
\* held in conflict, and every thread holds what its place in the code says.
NoConflict ==
  \A t, u \in Threads, s \in Slots :
    t # u /\ held[t][s] = "excl" => held[u][s] = "none"
Progress(t) ==
  /\ pc[t] \in {"read", "lock", "check"} => \E k \in Keys : keys[t] = {k}
  /\ pc[t] = "check" => \A k \in keys[t] : held[t][Slot(k, old[t])] = mode[t]
  /\ pc[t] = "multi" =>
       /\ old[t] = num_buckets
       /\ held[t][0] = mode[t]
       /\ \A k \in keys[t] :
            Slot(k, num_buckets) \in todo[t] \/ held[t][Slot(k, num_buckets)] = mode[t]
  /\ pc[t] \in {"all", "in_all"} =>
       \A s \in Slots : held[t][s] = mode[t] \/ (pc[t] = "all" /\ s \in todo[t])
IInv == TypeOK /\ NoConflict /\ BucketsAreCurrent /\ \A t \in Threads : Progress(t)

\* No set of threads waits for slots that only threads of the set hold: LockOne
\* holds nothing while it waits, LockMulti and LockAll lock in ascending order.
Wanted(t) == IF pc[t] = "lock" THEN SlotsOf(keys[t], old[t])
             ELSE IF pc[t] = "zero" THEN {0}
             ELSE IF pc[t] \in {"multi", "all"} THEN First(todo[t])
             ELSE {}
Blocks(u, t) ==
  u # t /\ \E s \in Wanted(t) :
             held[u][s] = "excl" \/ (mode[t] = "excl" /\ held[u][s] # "none")
NoDeadlock ==
  \A S \in (SUBSET Threads) \ {{}} : \E t \in S : \A u \in S : ~Blocks(u, t)
=============================================================================

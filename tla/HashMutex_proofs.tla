--------------------------- MODULE HashMutex_proofs ---------------------------
(***************************************************************************)
(* For any threads, keys, slots and table sizes: a thread that HashMutex let   *)
(* in holds the slots of its keys under the current number of buckets, threads *)
(* on the same bucket exclude each other, and threads never wait in a circle.  *)
(***************************************************************************)
EXTENDS HashMutex, WellFoundedInduction, TLAPS

\* The slot of a bucket is a slot.
LEMMA SlotInSlots == \A k \in Keys, n \in Sizes : Slot(k, n) \in Slots
<1> SUFFICES ASSUME NEW k \in Keys, NEW n \in Sizes PROVE Slot(k, n) \in Slots
  OBVIOUS
<1>1. Hash(k, n) \in Int
  BY HashAssumption, SizesAssumption
<1> QED BY <1>1, SlotsAssumption DEF Slot, Slots

LEMMA ZeroInSlots == 0 \in Slots
  BY SlotsAssumption DEF Slots

\* The invariant holds at the start: nobody holds or asks for anything.
LEMMA InitIInv == Init => IInv
<1> SUFFICES ASSUME Init PROVE IInv
  OBVIOUS
<1>1. TypeOK
  BY DEF Init, TypeOK, Modes
<1>2. NoConflict
  BY DEF Init, NoConflict
<1>3. BucketsAreCurrent /\ \A t \in Threads : Progress(t)
  BY DEF Init, BucketsAreCurrent, Progress
<1> QED BY <1>1, <1>2, <1>3 DEF IInv

\* A slot is taken only when that conflicts with nobody.
LEMMA AcquireKeepsNoConflict ==
  ASSUME TypeOK, NoConflict, NEW t \in Threads, NEW s \in Slots, Acquire(t, s)
  PROVE  NoConflict'
  BY DEF TypeOK, NoConflict, Acquire, Modes

LEMMA ReleaseKeepsNoConflict ==
  ASSUME TypeOK, NoConflict, NEW t \in Threads, NEW s \in Slots, Release(t, s)
  PROVE  NoConflict'
  BY DEF TypeOK, NoConflict, Release, Modes

\* Every step preserves the invariant.
LEMMA NextIInv == IInv /\ [Next]_vars => IInv'
<1> SUFFICES ASSUME IInv, [Next]_vars PROVE IInv'
  OBVIOUS
<1> USE SlotInSlots, ZeroInSlots
<1>type. TypeOK /\ NoConflict /\ BucketsAreCurrent /\ \A u \in Threads : Progress(u)
  BY DEF IInv
<1>0. CASE UNCHANGED vars
  BY <1>0, <1>type DEF vars, IInv, TypeOK, NoConflict, BucketsAreCurrent, Progress
<1>1. ASSUME NEW t \in Threads, NEW k \in Keys, NEW m \in Modes, CallLockOne(t, k, m)
      PROVE  IInv'
  BY <1>1, <1>type DEF CallLockOne, Goto, IInv, TypeOK, NoConflict, BucketsAreCurrent, Progress
<1>2. ASSUME NEW t \in Threads, ReadNumBuckets(t) PROVE IInv'
  BY <1>2, <1>type DEF ReadNumBuckets, Goto, IInv, TypeOK, NoConflict, BucketsAreCurrent, Progress
<1>3. ASSUME NEW t \in Threads, LockSlot(t) PROVE IInv'
  <2>1. PICK k \in Keys : keys[t] = {k}
    BY <1>3, <1>type DEF LockSlot, Progress
  <2>2. Acquire(t, Slot(k, old[t])) /\ Slot(k, old[t]) \in Slots
    BY <1>3, <2>1, <1>type DEF LockSlot, TypeOK
  <2>3. NoConflict'
    BY <2>2, <1>type, AcquireKeepsNoConflict
  <2>4. TypeOK'
    BY <1>3, <2>2, <1>type DEF LockSlot, Goto, Acquire, TypeOK
  <2>5. BucketsAreCurrent' /\ \A u \in Threads : Progress(u)'
    BY <1>3, <2>1, <2>2, <1>type DEF LockSlot, Goto, Acquire, TypeOK, BucketsAreCurrent, Progress
  <2> QED BY <2>3, <2>4, <2>5 DEF IInv
<1>4. ASSUME NEW t \in Threads, Recheck(t) PROVE IInv'
  <2>1. PICK k \in Keys : keys[t] = {k}
    BY <1>4, <1>type DEF Recheck, Progress
  <2>2. Slot(k, old[t]) \in Slots
    BY <1>type DEF TypeOK
  <2>3. CASE num_buckets = old[t]
    <3>1. /\ pc' = [pc EXCEPT ![t] = "in"]
          /\ UNCHANGED <<num_buckets, held, mode, keys, old, todo>>
      BY <1>4, <2>3 DEF Recheck, Goto
    <3>2. TypeOK' /\ NoConflict'
      BY <3>1, <1>type DEF TypeOK, NoConflict
    <3>3. \A j \in keys[t] : held[t][Slot(j, num_buckets)] = mode[t]
      BY <1>4, <2>3, <1>type DEF Recheck, Progress
    <3>4. BucketsAreCurrent'
      BY <2>3, <3>1, <3>3, <1>type DEF TypeOK, BucketsAreCurrent
    <3>5. \A u \in Threads : Progress(u)'
      BY <3>1, <1>type DEF TypeOK, Progress
    <3> QED BY <3>2, <3>4, <3>5 DEF IInv
  <2>4. CASE num_buckets # old[t]
    <3>1. Release(t, Slot(k, old[t]))
      BY <1>4, <2>1, <2>4 DEF Recheck
    <3>2. NoConflict'
      BY <3>1, <2>2, <1>type, ReleaseKeepsNoConflict
    <3>3. TypeOK'
      BY <1>4, <2>2, <2>4, <3>1, <1>type DEF Recheck, Goto, Release, TypeOK
    <3>4. BucketsAreCurrent' /\ \A u \in Threads : Progress(u)'
      BY <1>4, <2>1, <2>2, <2>4, <3>1, <1>type
         DEF Recheck, Goto, Release, TypeOK, BucketsAreCurrent, Progress
    <3> QED BY <3>2, <3>3, <3>4 DEF IInv
  <2> QED BY <2>3, <2>4
<1>5. ASSUME NEW t \in Threads, NEW ks \in SUBSET Keys, NEW m \in Modes,
             CallLockMulti(t, ks, m)
      PROVE  IInv'
  BY <1>5, <1>type DEF CallLockMulti, Goto, IInv, TypeOK, NoConflict, BucketsAreCurrent, Progress
<1>6. ASSUME NEW t \in Threads, LockZero(t) PROVE IInv'
  <2>1. NoConflict'
    BY <1>6, <1>type, AcquireKeepsNoConflict DEF LockZero
  <2>2. SlotsOf(keys[t], num_buckets) \subseteq Slots
    BY <1>type DEF SlotsOf, TypeOK
  <2>3. TypeOK'
    BY <1>6, <2>2, <1>type DEF LockZero, Goto, Acquire, TypeOK
  <2>4. BucketsAreCurrent' /\ \A u \in Threads : Progress(u)'
    BY <1>6, <2>2, <1>type
       DEF LockZero, Goto, Acquire, SlotsOf, TypeOK, BucketsAreCurrent, Progress
  <2> QED BY <2>1, <2>3, <2>4 DEF IInv
<1>7. ASSUME NEW t \in Threads, LockNext(t) PROVE IInv'
  <2>1. PICK s \in Slots : /\ s \in todo[t] /\ Acquire(t, s)
                           /\ todo' = [todo EXCEPT ![t] = @ \ {s}]
    BY <1>7, <1>type DEF LockNext, First, TypeOK
  <2>2. NoConflict'
    BY <2>1, <1>type, AcquireKeepsNoConflict
  <2>3. TypeOK'
    BY <1>7, <2>1, <1>type DEF LockNext, Acquire, TypeOK
  <2>4. BucketsAreCurrent' /\ \A u \in Threads : Progress(u)'
    BY <1>7, <2>1, <1>type DEF LockNext, Acquire, TypeOK, BucketsAreCurrent, Progress
  <2> QED BY <2>2, <2>3, <2>4 DEF IInv
<1>8. ASSUME NEW t \in Threads, LockedMulti(t) PROVE IInv'
  <2>1. CASE 0 \in SlotsOf(keys[t], old[t])
    BY <1>8, <2>1, <1>type
       DEF LockedMulti, Goto, IInv, TypeOK, NoConflict, BucketsAreCurrent, Progress
  <2>2. CASE 0 \notin SlotsOf(keys[t], old[t])
    <3>1. Release(t, 0)
      BY <1>8, <2>2 DEF LockedMulti
    <3>2. NoConflict'
      BY <3>1, <1>type, ReleaseKeepsNoConflict
    <3>3. TypeOK'
      BY <1>8, <3>1, <1>type DEF LockedMulti, Goto, Release, TypeOK
    <3>4. BucketsAreCurrent' /\ \A u \in Threads : Progress(u)'
      BY <1>8, <2>2, <3>1, <1>type
         DEF LockedMulti, Goto, Release, SlotsOf, TypeOK, BucketsAreCurrent, Progress
    <3> QED BY <3>2, <3>3, <3>4 DEF IInv
  <2> QED BY <2>1, <2>2
<1>9. ASSUME NEW t \in Threads, NEW m \in Modes, CallLockAll(t, m) PROVE IInv'
  BY <1>9, <1>type DEF CallLockAll, Goto, IInv, TypeOK, NoConflict, BucketsAreCurrent, Progress
<1>10. ASSUME NEW t \in Threads, LockedAll(t) PROVE IInv'
  BY <1>10, <1>type DEF LockedAll, Goto, IInv, TypeOK, NoConflict, BucketsAreCurrent, Progress
<1>11. ASSUME NEW t \in Threads, NEW n \in Sizes, Rehash(t, n) PROVE IInv'
  <2>1. \A u \in Threads \ {t}, s \in Slots : held[u][s] = "none"
    BY <1>11, <1>type DEF Rehash, Progress, NoConflict
  <2>2. \A u \in Threads : mode[u] # "none"
    BY <1>type DEF TypeOK, Modes
  <2>3. \A u \in Threads : pc[u] # "multi" /\ (pc[u] = "in" => keys[u] = {})
    BY <1>11, <2>1, <2>2, <1>type DEF Rehash, TypeOK, BucketsAreCurrent, Progress
  <2>4. TypeOK' /\ NoConflict'
    BY <1>11, <1>type DEF Rehash, TypeOK, NoConflict
  <2>5. BucketsAreCurrent' /\ \A u \in Threads : Progress(u)'
    BY <1>11, <2>3, <1>type DEF Rehash, BucketsAreCurrent, Progress
  <2> QED BY <2>4, <2>5 DEF IInv
<1>12. ASSUME NEW t \in Threads, CallUnlock(t) PROVE IInv'
  BY <1>12, <1>type DEF CallUnlock, Goto, IInv, TypeOK, NoConflict, BucketsAreCurrent, Progress
<1>13. ASSUME NEW t \in Threads, UnlockLast(t) PROVE IInv'
  <2>1. PICK s \in Slots : Release(t, s)
    BY <1>13 DEF UnlockLast, Holding
  <2>2. NoConflict'
    BY <2>1, <1>type, ReleaseKeepsNoConflict
  <2>3. TypeOK'
    BY <1>13, <2>1, <1>type DEF UnlockLast, Release, TypeOK
  <2>4. BucketsAreCurrent' /\ \A u \in Threads : Progress(u)'
    BY <1>13, <2>1, <1>type DEF UnlockLast, Release, TypeOK, BucketsAreCurrent, Progress
  <2> QED BY <2>2, <2>3, <2>4 DEF IInv
<1>14. ASSUME NEW t \in Threads, Unlocked(t) PROVE IInv'
  BY <1>14, <1>type DEF Unlocked, Goto, IInv, TypeOK, NoConflict, BucketsAreCurrent, Progress
<1> QED
  BY <1>0, <1>1, <1>2, <1>3, <1>4, <1>5, <1>6, <1>7, <1>8, <1>9, <1>10, <1>11,
     <1>12, <1>13, <1>14 DEF Next, Advance

\* The inductive invariant holds in every behaviour of HashMutex.
THEOREM Invariance == Spec => []IInv
  BY InitIInv, NextIInv, PTL DEF Spec

\* LockOne and LockMulti return with the slots of the current buckets of their
\* keys, whatever Rehash does meanwhile.
THEOREM CurrentBuckets == Spec => []BucketsAreCurrent
<1>1. IInv => BucketsAreCurrent
  BY DEF IInv
<1> QED BY <1>1, Invariance, PTL

\* Every variable keeps its type; in particular Rehash keeps to the sizes of a table.
THEOREM TypeCorrectness == Spec => []TypeOK
<1>1. IInv => TypeOK
  BY DEF IInv
<1> QED BY <1>1, Invariance, PTL

\* Threads that work on the same bucket exclude each other unless both share.
THEOREM Exclusion == Spec => []BucketExclusion
<1>1. IInv => BucketExclusion
  <2> SUFFICES ASSUME IInv, NEW t \in Threads, NEW u \in Threads, t # u,
                      NEW b \in Buckets(t) \cap Buckets(u), mode[t] = "excl"
               PROVE  FALSE
    BY DEF BucketExclusion, IInv, TypeOK, Modes
  <2> USE SlotInSlots, ZeroInSlots
  <2>1. \A v \in Threads : mode[v] \in Modes /\ "none" \notin Modes
    BY DEF IInv, TypeOK, Modes
  <2>2. ASSUME NEW v \in Threads, NEW c \in Buckets(v)
        PROVE  c % NumSlots \in Slots /\ held[v][c % NumSlots] = mode[v]
    <3>1. CASE pc[v] = "in_all"
      <4>1. c \in Int
        BY <2>2, <3>1, SizesAssumption DEF Buckets, IInv, TypeOK
      <4>2. c % NumSlots \in Slots
        BY <4>1, SlotsAssumption DEF Slots
      <4> QED BY <3>1, <4>2 DEF IInv, Progress
    <3>2. CASE pc[v] = "in"
      BY <2>2, <3>2 DEF Buckets, IInv, TypeOK, BucketsAreCurrent, Slot
    <3> QED BY <2>2, <3>1, <3>2 DEF Buckets
  <2>3. b % NumSlots \in Slots /\ held[t][b % NumSlots] = "excl"
    BY <2>2
  <2>4. held[u][b % NumSlots] = mode[u]
    BY <2>2
  <2> QED BY <2>1, <2>3, <2>4 DEF IInv, NoConflict
<1> QED BY <1>1, Invariance, PTL

-----------------------------------------------------------------------------
(* Deadlock.  Who waits for a slot holds none behind it: LockOne holds none    *)
(* while it waits, LockMulti and LockAll go through the slots in order.        *)

Ordered(t) ==
  /\ pc[t] \in {"idle", "read", "lock", "zero"} => \A s \in Slots : held[t][s] = "none"
  /\ pc[t] = "check" => \A s \in Slots, k \in keys[t] : held[t][s] # "none" => s = Slot(k, old[t])
  /\ pc[t] \in {"multi", "all"} => \A s \in Slots, r \in todo[t] : held[t][s] # "none" => s < r

\* A nonempty set of natural numbers has a least element.
LEMMA LeastNatural ==
  ASSUME NEW T, T \subseteq Nat, T # {}
  PROVE  \E x \in T : \A y \in T : x <= y
<1>1. PICK x \in T : \A y \in T : ~ (<<y, x>> \in OpToRel(<, Nat))
  BY NatLessThanWellFounded, WFMin
<1>2. \A y \in T : ~ (y < x)
  BY <1>1 DEF OpToRel
<1> QED BY <1>2

\* A nonempty set of slots has a last one.
LEMMA LastSlot ==
  ASSUME NEW W, W \subseteq Slots, W # {}
  PROVE  \E m \in W : \A s \in W : s <= m
<1> DEFINE T == {NumSlots - s : s \in W}
<1>1. \A s \in W : s \in Nat /\ s < NumSlots
  BY SlotsAssumption DEF Slots
<1>2. T \subseteq Nat /\ T # {}
  BY <1>1, SlotsAssumption
<1>3. PICK x \in T : \A y \in T : x <= y
  BY <1>2, LeastNatural
<1>4. PICK m \in W : x = NumSlots - m
  BY <1>3
<1>5. \A s \in W : NumSlots - m <= NumSlots - s
  BY <1>3, <1>4
<1> QED BY <1>1, <1>5, SlotsAssumption

\* Every step keeps the order in which slots are held and wanted.
LEMMA NextOrdered ==
  IInv /\ (\A t \in Threads : Ordered(t)) /\ [Next]_vars => \A t \in Threads : Ordered(t)'
<1> SUFFICES ASSUME IInv, \A t \in Threads : Ordered(t), [Next]_vars,
                    NEW u \in Threads
             PROVE  Ordered(u)'
  OBVIOUS
<1> USE SlotInSlots, ZeroInSlots
<1>type. TypeOK /\ Ordered(u) /\ Progress(u)
  BY DEF IInv
<1>slots. \A s \in Slots : s \in Nat
  BY SlotsAssumption DEF Slots
<1>0. CASE UNCHANGED vars
  BY <1>0, <1>type DEF vars, Ordered
<1>1. ASSUME NEW t \in Threads, NEW k \in Keys, NEW m \in Modes, CallLockOne(t, k, m)
      PROVE  Ordered(u)'
  BY <1>1, <1>type DEF CallLockOne, Goto, TypeOK, Ordered
<1>2. ASSUME NEW t \in Threads, ReadNumBuckets(t) PROVE Ordered(u)'
  BY <1>2, <1>type DEF ReadNumBuckets, Goto, TypeOK, Ordered
<1>3. ASSUME NEW t \in Threads, LockSlot(t) PROVE Ordered(u)'
  <2>1. PICK k \in Keys : keys[t] = {k}
    BY <1>3 DEF LockSlot, IInv, Progress
  <2>2. Acquire(t, Slot(k, old[t])) /\ Slot(k, old[t]) \in Slots
    BY <1>3, <2>1, <1>type DEF LockSlot, TypeOK
  <2> QED BY <1>3, <2>1, <2>2, <1>type DEF LockSlot, Goto, Acquire, TypeOK, Ordered
<1>4. ASSUME NEW t \in Threads, Recheck(t) PROVE Ordered(u)'
  <2>1. PICK k \in Keys : keys[t] = {k}
    BY <1>4 DEF Recheck, IInv, Progress
  <2>2. Slot(k, old[t]) \in Slots
    BY <1>type DEF TypeOK
  <2>3. CASE u # t
    BY <1>4, <2>1, <2>2, <2>3, <1>type DEF Recheck, Goto, Release, TypeOK, Ordered
  <2>4. CASE u = t /\ num_buckets = old[t]
    BY <1>4, <2>4, <1>type DEF Recheck, Goto, TypeOK, Ordered
  <2>5. CASE u = t /\ num_buckets # old[t]
    <3>1. Release(t, Slot(k, old[t])) /\ pc' = [pc EXCEPT ![t] = "read"]
      BY <1>4, <2>1, <2>5 DEF Recheck, Goto
    <3>2. \A s \in Slots : held[t][s] # "none" => s = Slot(k, old[t])
      BY <1>4, <2>1, <2>5, <1>type DEF Recheck, Ordered
    <3>3. \A s \in Slots : held'[t][s] = "none"
      BY <3>1, <3>2, <2>2, <1>type DEF Release, TypeOK
    <3> QED BY <3>1, <3>3, <2>5, <1>type DEF Ordered, TypeOK
  <2> QED BY <2>3, <2>4, <2>5
<1>5. ASSUME NEW t \in Threads, NEW ks \in SUBSET Keys, NEW m \in Modes,
             CallLockMulti(t, ks, m)
      PROVE  Ordered(u)'
  BY <1>5, <1>type DEF CallLockMulti, Goto, TypeOK, Ordered
<1>6. ASSUME NEW t \in Threads, LockZero(t) PROVE Ordered(u)'
  <2>1. SlotsOf(keys[t], num_buckets) \ {0} \subseteq Slots \ {0}
    BY <1>type DEF SlotsOf, TypeOK
  <2>2. \A r \in Slots \ {0} : 0 < r
    BY <1>slots
  <2> QED BY <1>6, <2>1, <2>2, <1>type DEF LockZero, Goto, Acquire, TypeOK, Ordered
<1>7. ASSUME NEW t \in Threads, LockNext(t) PROVE Ordered(u)'
  <2>1. PICK s \in Slots : /\ s \in todo[t] /\ Acquire(t, s) /\ \A r \in todo[t] : s <= r
                           /\ todo' = [todo EXCEPT ![t] = @ \ {s}]
    BY <1>7, <1>type DEF LockNext, First, TypeOK
  <2>2. \A r \in todo[t] \ {s} : s < r
    <3>1. todo[t] \subseteq Slots
      BY <1>type DEF TypeOK
    <3>2. \A r \in todo[t] : r \in Nat /\ s \in Nat
      BY <3>1, <1>slots
    <3> QED BY <2>1, <3>2
  <2>3. pc[t] \in {"multi", "all"} /\ UNCHANGED <<pc, keys, old>>
    BY <1>7 DEF LockNext
  <2>4. CASE u # t
    <3>1. held'[u] = held[u] /\ todo'[u] = todo[u]
      BY <2>1, <2>4, <1>type DEF Acquire, TypeOK
    <3> QED BY <3>1, <2>3, <1>type DEF Ordered
  <2>5. CASE u = t
    <3>1. \A x \in Slots : held'[t][x] # "none" => x = s \/ held[t][x] # "none"
      BY <2>1, <1>type DEF Acquire, TypeOK
    <3>2. todo'[t] = todo[t] \ {s}
      BY <2>1, <1>type DEF TypeOK
    <3>3. \A x \in Slots, r \in todo[t] : held[t][x] # "none" => x < r
      BY <2>3, <2>5, <1>type DEF Ordered
    <3>4. \A x \in Slots, r \in todo'[t] : held'[t][x] # "none" => x < r
      BY <3>1, <3>2, <3>3, <2>2
    <3> QED BY <3>4, <2>3, <2>5 DEF Ordered
  <2> QED BY <2>4, <2>5
<1>8. ASSUME NEW t \in Threads, LockedMulti(t) PROVE Ordered(u)'
  BY <1>8, <1>type DEF LockedMulti, Goto, Release, TypeOK, Ordered
<1>9. ASSUME NEW t \in Threads, NEW m \in Modes, CallLockAll(t, m) PROVE Ordered(u)'
  BY <1>9, <1>type DEF CallLockAll, Goto, TypeOK, Ordered
<1>10. ASSUME NEW t \in Threads, LockedAll(t) PROVE Ordered(u)'
  BY <1>10, <1>type DEF LockedAll, Goto, TypeOK, Ordered
<1>11. ASSUME NEW t \in Threads, NEW n \in Sizes, Rehash(t, n) PROVE Ordered(u)'
  BY <1>11, <1>type DEF Rehash, Ordered
<1>12. ASSUME NEW t \in Threads, CallUnlock(t) PROVE Ordered(u)'
  BY <1>12, <1>type DEF CallUnlock, Goto, TypeOK, Ordered
<1>13. ASSUME NEW t \in Threads, UnlockLast(t) PROVE Ordered(u)'
  BY <1>13, <1>type DEF UnlockLast, Release, TypeOK, Ordered
<1>14. ASSUME NEW t \in Threads, Unlocked(t) PROVE Ordered(u)'
  BY <1>14, <1>type DEF Unlocked, Holding, Goto, TypeOK, Ordered
<1> QED
  BY <1>0, <1>1, <1>2, <1>3, <1>4, <1>5, <1>6, <1>7, <1>8, <1>9, <1>10, <1>11,
     <1>12, <1>13, <1>14 DEF Next, Advance

\* Among threads that wait for each other, take the last slot somebody waits for:
\* its holder waits for a slot behind it, which is a contradiction.
LEMMA OrderedIsDeadlockFree == TypeOK /\ (\A t \in Threads : Ordered(t)) => NoDeadlock
<1> SUFFICES ASSUME TypeOK, \A t \in Threads : Ordered(t),
                    NEW S \in SUBSET Threads, S # {},
                    \A t \in S : \E u \in S : Blocks(u, t)
             PROVE  FALSE
  BY DEF NoDeadlock
<1> USE SlotInSlots, ZeroInSlots
<1> DEFINE W == {s \in Slots : \E t \in S : \E u \in S : s \in Wanted(t) /\ held[u][s] # "none"}
<1>1. \A t \in S : Wanted(t) \subseteq Slots
  BY DEF Wanted, SlotsOf, First, TypeOK
<1>2. \A t \in S : \E u \in S : \E s \in Wanted(t) : held[u][s] # "none" /\ s \in W
  <2> SUFFICES ASSUME NEW t \in S
               PROVE  \E u \in S : \E s \in Wanted(t) : held[u][s] # "none" /\ s \in W
    OBVIOUS
  <2>1. PICK u \in S : Blocks(u, t)
    OBVIOUS
  <2>2. PICK s \in Wanted(t) : held[u][s] # "none"
    BY <2>1 DEF Blocks
  <2>3. s \in Slots
    BY <1>1
  <2> QED BY <2>2, <2>3
<1>3. PICK m \in W : \A s \in W : s <= m
  BY <1>2, LastSlot
<1>4. PICK u \in S : held[u][m] # "none"
  BY <1>3
<1>5. PICK s \in Wanted(u) : s \in W
  BY <1>2
<1>6. pc[u] \in {"multi", "all"}
  BY <1>4, <1>5, <1>3 DEF Wanted, Ordered
<1>7. s \in todo[u]
  BY <1>5, <1>6 DEF Wanted, First
<1>8. m < s
  BY <1>3, <1>4, <1>6, <1>7 DEF Ordered
<1>9. m \in Nat /\ s \in Nat
  BY <1>3, <1>5, SlotsAssumption DEF Slots
<1> QED BY <1>3, <1>5, <1>8, <1>9

\* Whatever mix of LockOne, LockMulti, LockAll and Rehash the threads call, no set of
\* them waits in a circle.
THEOREM DeadlockFree == Spec => []NoDeadlock
<1> DEFINE Inv == IInv /\ \A t \in Threads : Ordered(t)
<1>1. Init => Inv
  BY InitIInv DEF Init, Ordered
<1>2. Inv /\ [Next]_vars => Inv'
  BY NextIInv, NextOrdered
<1>3. Inv => NoDeadlock
  BY OrderedIsDeadlockFree DEF IInv
<1> QED BY <1>1, <1>2, <1>3, PTL DEF Spec
=============================================================================

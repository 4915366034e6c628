------------------------ MODULE SpinSharedMutex_proofs ------------------------
(***************************************************************************)
(* Proofs about SpinSharedMutex, for any finite set of threads and any      *)
(* INT32MAX larger than their number: the inductive invariant IInv, mutual   *)
(* exclusion from it, and the implementation of SharedLock.                  *)
(***************************************************************************)
EXTENDS SpinSharedMutex, FiniteSetTheorems, TLAPS

(* The number of sharers is a natural number below INT32MAX: a full house of *)
(* readers can never be mistaken for a writer.                               *)
LEMMA SharersBounded ==
  /\ IsFiniteSet(Sharers)
  /\ Cardinality(Sharers) \in Nat
  /\ Cardinality(Sharers) < INT32MAX
<1>1. Sharers \subseteq Threads
  BY DEF Sharers
<1>2. IsFiniteSet(Sharers) /\ Cardinality(Sharers) <= Cardinality(Threads)
  BY <1>1, ThreadsAssumption, FS_Subset
<1>3. Cardinality(Sharers) \in Nat /\ Cardinality(Threads) \in Nat
  BY <1>2, ThreadsAssumption, FS_CardinalityType
<1> QED
  BY <1>2, <1>3, MaxAssumption

(* One thread already makes INT32MAX larger than 1.                          *)
LEMMA OneIsBelowMax == ASSUME NEW t \in Threads PROVE 1 < INT32MAX
<1>1. Cardinality({t}) = 1 /\ {t} \subseteq Threads
  BY FS_Singleton
<1>2. Cardinality({t}) <= Cardinality(Threads) /\ Cardinality(Threads) \in Nat
  BY <1>1, ThreadsAssumption, FS_Subset, FS_CardinalityType
<1> QED
  BY <1>1, <1>2, MaxAssumption

(* The mutex is free of owners in the initial state.                         *)
LEMMA InitIInv == Init => IInv
<1> SUFFICES ASSUME Init PROVE IInv
  OBVIOUS
<1>1. Sharers = {} /\ Owners = {}
  BY DEF Init, Sharers, Owners
<1>2. Cardinality(Sharers) = 0
  BY <1>1, FS_EmptySet
<1>3. TypeOK
  BY BoundAssumption, MaxAssumption DEF Init, TypeOK, Locations
<1>4. 0 < INT32MAX
  BY SharersBounded, MaxAssumption
<1> QED
  BY <1>1, <1>2, <1>3, <1>4, MaxAssumption
  DEF IInv, MutualExclusion, CountIsExact, WriterIsMarked, OldIsAbove, Init

(* No step breaks what a reader about to reset count_ knows of its old_value.*)
LEMMA OldStaysAbove == TypeOK /\ OldIsAbove /\ [Next]_vars => OldIsAbove'
<1> SUFFICES ASSUME TypeOK, OldIsAbove, [Next]_vars,
                    NEW u \in Threads, pc'[u] = "reset"
             PROVE  old'[u] > INT32MAX
  BY DEF OldIsAbove
<1>1. ASSUME NEW t \in Threads, LoadOld(t) PROVE old'[u] > INT32MAX
  BY <1>1 DEF LoadOld, Goto, AfterFailure, TypeOK, OldIsAbove
<1>2. ASSUME NEW t \in Threads, ResetExchange(t) PROVE old'[u] > INT32MAX
  BY <1>2 DEF ResetExchange, Goto, AfterFailure, TypeOK, OldIsAbove
<1>3. ASSUME NEW t \in Threads,
             \/ CallLock(t) \/ LockExchange(t) \/ TryLock(t)
             \/ Unlock(t) \/ Downgrade(t)
             \/ \E w \in BOOLEAN : CallLockShared(t, w) \/ CallTryUpgrade(t, w)
             \/ FetchAdd(t) \/ UnlockShared(t) \/ UpgradeExchange(t)
      PROVE  old'[u] > INT32MAX
  <2>1. old' = old
    BY <1>3 DEF CallLock, LockExchange, TryLock, Unlock, Downgrade, CallLockShared,
                CallTryUpgrade, FetchAdd, UnlockShared, UpgradeExchange
  <2>2. \E loc \in Locations \ {"reset"} : Goto(t, loc)
    BY <1>3 DEF CallLock, LockExchange, TryLock, Unlock, Downgrade, CallLockShared,
                CallTryUpgrade, FetchAdd, UnlockShared, UpgradeExchange, Locations
  <2>3. pc[u] = "reset"
    BY <2>2 DEF Goto, TypeOK
  <2> QED
    BY <2>1, <2>3 DEF OldIsAbove
<1>4. CASE UNCHANGED vars
  BY <1>4 DEF vars, OldIsAbove
<1> QED
  BY <1>1, <1>2, <1>3, <1>4 DEF Next

(* A step that moves no thread in or out of ownership and leaves count_ on   *)
(* the same side of INT32MAX, and unchanged below it, preserves IInv.        *)
LEMMA OwnershipUntouched ==
  ASSUME IInv, TypeOK', OldIsAbove',
         Sharers' = Sharers, Owners' = Owners,
         \/ count' = count
         \/ count >= INT32MAX /\ count' >= INT32MAX
  PROVE  IInv'
BY MaxAssumption DEF IInv, TypeOK, MutualExclusion, CountIsExact, WriterIsMarked

(* Every step of every thread preserves IInv.                                *)
LEMMA NextIInv == IInv /\ [Next]_vars => IInv'
<1> SUFFICES ASSUME IInv, [Next]_vars PROVE IInv'
  OBVIOUS
<1> USE MaxAssumption, BoundAssumption
<1>0. TypeOK /\ MutualExclusion /\ CountIsExact /\ WriterIsMarked /\ OldIsAbove
  BY DEF IInv
<1>old. OldIsAbove'
  BY <1>0, OldStaysAbove
<1>bound. /\ IsFiniteSet(Sharers) /\ Cardinality(Sharers) \in Nat
          /\ Cardinality(Sharers) < INT32MAX
  BY SharersBounded
<1>1. ASSUME NEW t \in Threads, CallLock(t) PROVE IInv'
  <2>1. TypeOK'
    BY <1>0, <1>1 DEF TypeOK, Locations, CallLock, Goto
  <2>2. Sharers' = Sharers /\ Owners' = Owners
    BY <1>0, <1>1 DEF TypeOK, CallLock, Goto, Sharers, Owners
  <2> QED
    BY <1>1, <2>1, <2>2, <1>old, OwnershipUntouched DEF CallLock
<1>2. ASSUME NEW t \in Threads, LockExchange(t) \/ TryLock(t) PROVE IInv'
  <2>1. TypeOK'
    BY <1>0, <1>2 DEF TypeOK, Locations, LockExchange, TryLock, Goto
  <2>2. count = 0 /\ count' = INT32MAX
    BY <1>2 DEF LockExchange, TryLock
  <2>3. Sharers = {} /\ Owners = {}
    BY <1>0, <1>bound, <2>2, FS_EmptySet DEF CountIsExact, WriterIsMarked, TypeOK
  <2>4. Sharers' = {} /\ Owners' = {t}
    BY <1>0, <1>2, <2>3 DEF TypeOK, LockExchange, TryLock, Goto, Sharers, Owners
  <2> QED
    BY <1>old, <2>1, <2>2, <2>4 DEF IInv, MutualExclusion, CountIsExact, WriterIsMarked
<1>3. ASSUME NEW t \in Threads, Unlock(t) PROVE IInv'
  <2>1. TypeOK'
    BY <1>0, <1>3 DEF TypeOK, Locations, Unlock, Goto
  <2>2. Owners = {t} /\ Sharers = {}
    BY <1>0, <1>3 DEF MutualExclusion, Unlock, Owners, Sharers
  <2>3. Sharers' = {} /\ Owners' = {}
    BY <1>0, <1>3, <2>2 DEF TypeOK, Unlock, Goto, Owners, Sharers
  <2>4. Cardinality(Sharers') = 0
    BY <2>3, FS_EmptySet
  <2> QED
    BY <1>old, <1>3, <1>bound, <2>1, <2>3, <2>4
    DEF IInv, MutualExclusion, CountIsExact, WriterIsMarked, Unlock
<1>4. ASSUME NEW t \in Threads, Downgrade(t) PROVE IInv'
  <2>1. TypeOK'
    BY <1>0, <1>4, <1>bound DEF TypeOK, Locations, Downgrade, Goto
  <2>2. Owners = {t} /\ Sharers = {}
    BY <1>0, <1>4 DEF MutualExclusion, Downgrade, Owners, Sharers
  <2>3. Sharers' = {t} /\ Owners' = {}
    BY <1>0, <1>4, <2>2 DEF TypeOK, Downgrade, Goto, Owners, Sharers
  <2>4. Cardinality(Sharers') = 1
    BY <2>3, FS_Singleton
  <2>5. 1 < INT32MAX
    BY OneIsBelowMax
  <2> QED
    BY <1>old, <1>4, <2>1, <2>3, <2>4, <2>5
    DEF IInv, MutualExclusion, CountIsExact, WriterIsMarked, Downgrade
<1>5. ASSUME NEW t \in Threads, NEW w \in BOOLEAN, CallLockShared(t, w) PROVE IInv'
  <2>1. TypeOK'
    BY <1>0, <1>5 DEF TypeOK, Locations, CallLockShared, Goto
  <2>2. Sharers' = Sharers /\ Owners' = Owners
    BY <1>0, <1>5 DEF TypeOK, CallLockShared, Goto, Sharers, Owners
  <2> QED
    BY <1>5, <2>1, <2>2, <1>old, OwnershipUntouched DEF CallLockShared
<1>6. ASSUME NEW t \in Threads, NEW w \in BOOLEAN, CallTryUpgrade(t, w) PROVE IInv'
  <2>1. TypeOK'
    BY <1>0, <1>6 DEF TypeOK, Locations, CallTryUpgrade, Goto
  <2>2. Sharers' = Sharers /\ Owners' = Owners
    BY <1>0, <1>6 DEF TypeOK, CallTryUpgrade, Goto, Sharers, Owners
  <2> QED
    BY <1>6, <2>1, <2>2, <1>old, OwnershipUntouched DEF CallTryUpgrade
<1>7. ASSUME NEW t \in Threads, FetchAdd(t) PROVE IInv'
  <2>1. TypeOK'
    BY <1>0, <1>7 DEF TypeOK, Locations, FetchAdd, Goto
  <2>2. CASE count < INT32MAX
    <3>1. Owners = {} /\ t \notin Sharers
      BY <1>0, <1>7, <2>2 DEF WriterIsMarked, TypeOK, FetchAdd, Sharers
    <3>2. Sharers' = Sharers \cup {t} /\ Owners' = {}
      BY <1>0, <1>7, <2>2, <3>1 DEF TypeOK, FetchAdd, Goto, Sharers, Owners
    <3>3. Cardinality(Sharers') = Cardinality(Sharers) + 1
      BY <1>bound, <3>1, <3>2, FS_AddElement
    <3>4. count' = Cardinality(Sharers')
      BY <1>0, <1>7, <2>2, <3>3 DEF CountIsExact, FetchAdd
    <3>5. count' < INT32MAX
      <4>1. Sharers' \subseteq Threads
        BY <3>2 DEF Sharers
      <4>2. /\ Cardinality(Sharers') <= Cardinality(Threads)
            /\ Cardinality(Threads) \in Nat
        BY <4>1, ThreadsAssumption, FS_Subset, FS_CardinalityType
      <4> QED
        BY <1>bound, <3>3, <3>4, <4>2
    <3> QED
      BY <1>old, <2>1, <3>2, <3>4, <3>5
      DEF IInv, TypeOK, MutualExclusion, CountIsExact, WriterIsMarked
  <2>3. CASE count >= INT32MAX
    <3>1. Sharers' = Sharers /\ Owners' = Owners
      BY <1>0, <1>7, <2>3 DEF TypeOK, FetchAdd, Goto, Sharers, Owners
    <3>2. count' >= INT32MAX
      BY <1>0, <1>7, <2>3 DEF TypeOK, FetchAdd
    <3> QED
      BY <2>1, <2>3, <3>1, <3>2, <1>old, OwnershipUntouched
  <2> QED
    BY <1>0, <2>2, <2>3 DEF TypeOK
<1>8. ASSUME NEW t \in Threads, LoadOld(t) PROVE IInv'
  <2>1. TypeOK'
    BY <1>0, <1>8 DEF TypeOK, Locations, LoadOld, Goto, AfterFailure
  <2>2. Sharers' = Sharers /\ Owners' = Owners
    BY <1>0, <1>8 DEF TypeOK, LoadOld, Goto, AfterFailure, Sharers, Owners
  <2> QED
    BY <1>8, <2>1, <2>2, <1>old, OwnershipUntouched DEF LoadOld
<1>9. ASSUME NEW t \in Threads, ResetExchange(t) PROVE IInv'
  <2>1. TypeOK'
    BY <1>0, <1>9 DEF TypeOK, Locations, ResetExchange, Goto, AfterFailure
  <2>2. Sharers' = Sharers /\ Owners' = Owners
    BY <1>0, <1>9 DEF TypeOK, ResetExchange, Goto, AfterFailure, Sharers, Owners
  <2>3. count' = count \/ (count = old[t] /\ count' = INT32MAX)
    BY <1>9 DEF ResetExchange
  <2>4. old[t] > INT32MAX
    BY <1>0, <1>9 DEF ResetExchange, OldIsAbove
  <2> QED
    BY <1>0, <2>1, <2>2, <2>3, <2>4, <1>old, OwnershipUntouched DEF TypeOK
<1>10. ASSUME NEW t \in Threads, UnlockShared(t) PROVE IInv'
  <2>1. t \in Sharers /\ Owners = {}
    BY <1>0, <1>10 DEF MutualExclusion, UnlockShared, Sharers, Owners
  <2>2. count = Cardinality(Sharers)
    BY <1>0, <2>1 DEF TypeOK, CountIsExact, WriterIsMarked
  <2>3. Sharers' = Sharers \ {t} /\ Owners' = {}
    BY <1>0, <1>10, <2>1 DEF TypeOK, UnlockShared, Goto, Sharers, Owners
  <2>4. Cardinality(Sharers') = Cardinality(Sharers) - 1
    BY <1>bound, <2>1, <2>3, FS_RemoveElement
  <2>5. IsFiniteSet(Sharers')
    BY <1>bound, <2>3, FS_Subset
  <2>6. Cardinality(Sharers') \in Nat
    BY <2>5, FS_CardinalityType
  <2>7. count' = Cardinality(Sharers') /\ count' \in 0 .. CountBound /\ count' < INT32MAX
    BY <1>0, <1>10, <1>bound, <2>2, <2>4, <2>6 DEF UnlockShared, TypeOK
  <2>8. TypeOK'
    BY <1>0, <1>10, <2>7 DEF TypeOK, Locations, UnlockShared, Goto
  <2> QED
    BY <1>old, <2>3, <2>7, <2>8, <1>0, <1>10
    DEF IInv, TypeOK, MutualExclusion, CountIsExact, WriterIsMarked
<1>11. ASSUME NEW t \in Threads, UpgradeExchange(t) PROVE IInv'
  <2>1. TypeOK'
    BY <1>0, <1>11 DEF TypeOK, Locations, UpgradeExchange, Goto
  <2>2. t \in Sharers
    BY <1>11 DEF UpgradeExchange, Sharers
  <2>3. CASE count = 1 /\ count' = INT32MAX /\ Goto(t, "excl")
    <3>1. 1 < INT32MAX
      BY <2>2, OneIsBelowMax
    <3>2. Cardinality(Sharers) = 1 /\ Owners = {}
      BY <1>0, <2>3, <3>1 DEF TypeOK, CountIsExact, WriterIsMarked
    <3>3. Sharers = {t}
      <4>1. Cardinality(Sharers \ {t}) = 0 /\ IsFiniteSet(Sharers \ {t})
        BY <1>bound, <2>2, <3>2, FS_RemoveElement
      <4>2. Sharers \ {t} = {}
        BY <4>1, FS_EmptySet
      <4> QED
        BY <2>2, <4>2
    <3>4. Sharers' = {} /\ Owners' = {t}
      BY <1>0, <2>3, <3>2, <3>3 DEF TypeOK, Goto, Sharers, Owners
    <3> QED
      BY <1>old, <2>1, <2>3, <3>4, <1>0, <1>11
      DEF IInv, MutualExclusion, CountIsExact, WriterIsMarked
  <2>4. CASE count' = count /\ Goto(t, "shared")
    <3>1. Sharers' = Sharers /\ Owners' = Owners
      BY <1>0, <1>11, <2>4 DEF TypeOK, UpgradeExchange, Goto, Sharers, Owners
    <3> QED
      BY <2>1, <2>4, <3>1, <1>old, OwnershipUntouched
  <2> QED
    BY <1>11, <2>3, <2>4 DEF UpgradeExchange
<1>12. CASE UNCHANGED vars
  <2>1. TypeOK'
    BY <1>0, <1>12 DEF TypeOK, vars
  <2> QED
    BY <1>12, <2>1, <1>old, OwnershipUntouched DEF vars, Sharers, Owners
<1> QED
  BY <1>1, <1>2, <1>3, <1>4, <1>5, <1>6, <1>7, <1>8, <1>9, <1>10, <1>11, <1>12
  DEF Next

(* IInv holds in every reachable state: count_ marks the writer and, without *)
(* one, counts the readers, for any number of threads.                       *)
THEOREM Invariance == Spec => []IInv
BY InitIInv, NextIInv, PTL DEF Spec

(* The types of the mutex's state.                                           *)
THEOREM TypeCorrectness == Spec => []TypeOK
BY Invariance, PTL DEF IInv

(* A writer is alone: no interleaving of the failed readers' increments and  *)
(* resets with releases, upgrades and downgrades lets anybody in beside it.  *)
THEOREM Exclusion == Spec => []MutualExclusion
BY Invariance, PTL DEF IInv

(* Without a writer count_ is exactly the number of sharers.                 *)
THEOREM ExactCount == Spec => []CountIsExact
BY Invariance, PTL DEF IInv

(* count_ reaches INT32MAX exactly when a writer is present.                 *)
THEOREM MarkedWriter == Spec => []WriterIsMarked
BY Invariance, PTL DEF IInv

(* Moving thread t to a location changes the abstract ownership of t only.   *)
LEMMA ModeAfterGoto ==
  ASSUME TypeOK, NEW t \in Threads, NEW loc \in Locations, Goto(t, loc)
  PROVE  Mode' = [Mode EXCEPT ![t] = IF loc = "excl" THEN "excl"
                                     ELSE IF loc \in {"shared", "upgrade"} THEN "shared"
                                     ELSE "none"]
BY DEF TypeOK, Goto, Mode

(* What IInv says of the abstract ownership: a free word means no owner, a   *)
(* word below INT32MAX no exclusive one, and an exclusive owner is alone.    *)
LEMMA ModeFacts ==
  ASSUME IInv
  PROVE  /\ count = 0 => \A u \in Threads : Mode[u] = "none"
         /\ count < INT32MAX => \A u \in Threads : Mode[u] # "excl"
         /\ \A t \in Threads : pc[t] = "upgrade" /\ count = 1 =>
              \A u \in Threads \ {t} : Mode[u] = "none"
<1>1. IsFiniteSet(Sharers) /\ Cardinality(Sharers) \in Nat /\ Cardinality(Sharers) < INT32MAX
  BY SharersBounded
<1>2. count < INT32MAX => Owners = {} /\ count = Cardinality(Sharers)
  BY MaxAssumption DEF IInv, TypeOK, CountIsExact, WriterIsMarked
<1>3. count = 0 => Sharers = {} /\ Owners = {}
  BY <1>1, <1>2, MaxAssumption, FS_EmptySet
<1>4. ASSUME NEW t \in Threads, pc[t] = "upgrade", count = 1
      PROVE  Sharers = {t} /\ Owners = {}
  <2>1. t \in Sharers /\ 1 < INT32MAX
    BY <1>4, OneIsBelowMax DEF Sharers
  <2>2. Cardinality(Sharers) = 1 /\ Owners = {}
    BY <1>2, <1>4, <2>1
  <2>3. Cardinality(Sharers \ {t}) = 0 /\ IsFiniteSet(Sharers \ {t})
    BY <1>1, <2>1, <2>2, FS_RemoveElement
  <2>4. Sharers \ {t} = {}
    BY <2>3, FS_EmptySet
  <2> QED
    BY <2>1, <2>2, <2>4
<1> QED
  BY <1>2, <1>3, <1>4 DEF Mode, Sharers, Owners

(* Every step of the mutex is a step of the abstract lock or changes no      *)
(* ownership.                                                                *)
LEMMA StepImplements == IInv /\ [Next]_vars => [Abstract!Next]_Mode
<1> SUFFICES ASSUME IInv, [Next]_vars PROVE [Abstract!Next]_Mode
  OBVIOUS
<1> USE DEF Abstract!CanShare, Abstract!CanOwn
<1>0. TypeOK
  BY DEF IInv
<1>m. Mode = [u \in Threads |-> Mode[u]]
  BY DEF Mode
<1>1. ASSUME NEW t \in Threads, LockExchange(t) \/ TryLock(t) PROVE Abstract!Next
  <2>1. Goto(t, "excl") /\ count = 0 /\ Mode[t] = "none"
    BY <1>1 DEF LockExchange, TryLock, Mode
  <2>2. Mode' = [Mode EXCEPT ![t] = "excl"]
    BY <1>0, <2>1, ModeAfterGoto DEF Locations
  <2>3. Abstract!AcquireExcl(t)
    BY <2>1, <2>2, ModeFacts DEF Abstract!AcquireExcl
  <2> QED
    BY <2>3 DEF Abstract!Next
<1>2. ASSUME NEW t \in Threads, Unlock(t) \/ UnlockShared(t) PROVE Abstract!Next
  <2>1. Goto(t, "idle") /\ Mode[t] # "none"
    BY <1>2 DEF Unlock, UnlockShared, Mode
  <2>2. Mode' = [Mode EXCEPT ![t] = "none"]
    BY <1>0, <2>1, ModeAfterGoto DEF Locations
  <2> QED
    BY <2>1, <2>2 DEF Abstract!Next, Abstract!Release
<1>3. ASSUME NEW t \in Threads, Downgrade(t) PROVE Abstract!Next
  <2>1. Goto(t, "shared") /\ Mode[t] = "excl"
    BY <1>3 DEF Downgrade, Mode
  <2>2. Mode' = [Mode EXCEPT ![t] = "shared"]
    BY <1>0, <2>1, ModeAfterGoto DEF Locations
  <2> QED
    BY <2>1, <2>2 DEF Abstract!Next, Abstract!Downgrade
<1>4. ASSUME NEW t \in Threads, FetchAdd(t) PROVE Abstract!Next \/ Mode' = Mode
  <2>1. Mode[t] = "none"
    BY <1>4 DEF FetchAdd, Mode
  <2>2. CASE count < INT32MAX
    <3>1. Goto(t, "shared")
      BY <1>4, <2>2 DEF FetchAdd
    <3>2. Mode' = [Mode EXCEPT ![t] = "shared"]
      BY <1>0, <3>1, ModeAfterGoto DEF Locations
    <3>3. Abstract!AcquireShared(t)
      BY <2>1, <2>2, <3>2, ModeFacts DEF Abstract!AcquireShared
    <3> QED
      BY <3>3 DEF Abstract!Next
  <2>3. CASE ~(count < INT32MAX)
    <3>1. Goto(t, "load")
      BY <1>4, <2>3 DEF FetchAdd
    <3>2. Mode' = [Mode EXCEPT ![t] = "none"]
      BY <1>0, <3>1, ModeAfterGoto DEF Locations
    <3> QED
      BY <1>m, <2>1, <3>2
  <2> QED
    BY <2>2, <2>3
<1>5. ASSUME NEW t \in Threads, UpgradeExchange(t) PROVE Abstract!Next \/ Mode' = Mode
  <2>1. Mode[t] = "shared"
    BY <1>5 DEF UpgradeExchange, Mode
  <2>2. CASE count = 1 /\ Goto(t, "excl")
    <3>1. Mode' = [Mode EXCEPT ![t] = "excl"]
      BY <1>0, <2>2, ModeAfterGoto DEF Locations
    <3>2. Abstract!Upgrade(t)
      BY <1>5, <2>1, <2>2, <3>1, ModeFacts DEF Abstract!Upgrade, UpgradeExchange
    <3> QED
      BY <3>2 DEF Abstract!Next
  <2>3. CASE Goto(t, "shared")
    <3>1. Mode' = [Mode EXCEPT ![t] = "shared"]
      BY <1>0, <2>3, ModeAfterGoto DEF Locations
    <3> QED
      BY <1>m, <2>1, <3>1
  <2> QED
    BY <1>5, <2>2, <2>3 DEF UpgradeExchange
<1>6. ASSUME NEW t \in Threads,
             \/ CallLock(t) \/ \E w \in BOOLEAN : CallLockShared(t, w)
             \/ LoadOld(t) \/ ResetExchange(t)
      PROVE  Mode' = Mode
  <2>1. /\ Mode[t] = "none"
        /\ \E loc \in {"lock", "lock_shared", "reset", "idle"} : Goto(t, loc)
    BY <1>6 DEF CallLock, CallLockShared, LoadOld, ResetExchange, AfterFailure, Mode
  <2>2. Mode' = [Mode EXCEPT ![t] = "none"]
    BY <1>0, <2>1, ModeAfterGoto DEF Locations
  <2> QED
    BY <1>m, <2>1, <2>2
<1>7. ASSUME NEW t \in Threads, NEW w \in BOOLEAN, CallTryUpgrade(t, w)
      PROVE  Mode' = Mode
  <2>1. Mode[t] = "shared" /\ Goto(t, "upgrade")
    BY <1>7 DEF CallTryUpgrade, Mode
  <2>2. Mode' = [Mode EXCEPT ![t] = "shared"]
    BY <1>0, <2>1, ModeAfterGoto DEF Locations
  <2> QED
    BY <1>m, <2>1, <2>2
<1>8. CASE UNCHANGED vars
  BY <1>8 DEF vars, Mode
<1> QED
  BY <1>1, <1>2, <1>3, <1>4, <1>5, <1>6, <1>7, <1>8 DEF Next

(* SpinSharedMutex implements SharedLock: whatever the interleaving of its   *)
(* atomic accesses, its users see a lock that is shared or owned by one.     *)
THEOREM Refinement == Spec => ImplementsSharedLock
<1>1. Init => Abstract!Init
  BY DEF Init, Mode, Abstract!Init
<1> QED
  BY <1>1, Invariance, StepImplements, PTL DEF Spec, ImplementsSharedLock, Abstract!Spec
=============================================================================

----------------------- MODULE SpinWPSharedMutex_proofs -----------------------
(***************************************************************************)
(* Proofs about SpinWPSharedMutex, for any finite set of threads and any     *)
(* INT32MAX larger than their number: the inductive invariant IInv, and the  *)
(* implementation of SharedLock.                                             *)
(***************************************************************************)
EXTENDS SpinWPSharedMutex, FiniteSetTheorems, TLAPS

(* A set of threads is finite, and its size a number below INT32MAX: a full  *)
(* house of readers can never be mistaken for a writer.                      *)
LEMMA SmallSets ==
  ASSUME NEW S, S \subseteq Threads
  PROVE  IsFiniteSet(S) /\ Cardinality(S) \in Nat /\ Cardinality(S) < INT32MAX
<1>1. IsFiniteSet(S) /\ Cardinality(S) <= Cardinality(Threads)
  BY ThreadsAssumption, FS_Subset
<1>2. Cardinality(S) \in Nat /\ Cardinality(Threads) \in Nat
  BY <1>1, ThreadsAssumption, FS_CardinalityType
<1> QED
  BY <1>1, <1>2, MaxAssumption

(* One thread already makes INT32MAX larger than 1.                          *)
LEMMA OneIsBelowMax == ASSUME NEW t \in Threads PROVE 1 < INT32MAX
<1>1. Cardinality({t}) = 1
  BY FS_Singleton
<1> QED
  BY <1>1, SmallSets

(* A set of threads of size 1 that holds t holds nobody else.                *)
LEMMA OnlyMember ==
  ASSUME NEW S, S \subseteq Threads, NEW t \in S, Cardinality(S) = 1
  PROVE  S = {t}
<1>1. Cardinality(S \ {t}) = 0 /\ IsFiniteSet(S \ {t})
  BY SmallSets, FS_RemoveElement
<1> QED
  BY <1>1, FS_EmptySet

(* A new mutex has no owner, and nobody wants it.                            *)
LEMMA InitIInv == Init => IInv
<1> SUFFICES ASSUME Init PROVE IInv
  OBVIOUS
<1>1. Sharers = {} /\ Owners = {} /\ Wannabes = {}
  BY DEF Init, Sharers, Owners, Wannabes
<1>2. Cardinality({}) = 0
  BY FS_EmptySet
<1>3. TypeOK
  BY BoundAssumption, MaxAssumption DEF Init, TypeOK, Locations
<1>4. 0 < INT32MAX
  BY <1>2, SmallSets
<1> QED
  BY <1>1, <1>2, <1>3, <1>4, MaxAssumption
  DEF IInv, MutualExclusion, CountIsExact, WannabesAreCounted, OldIsAbove, Init

(* The steps that announce a thread and those that withdraw it.              *)
Announces(t) == CallLock(t) \/ \E w \in BOOLEAN : CallTryUpgrade(t, w)

\* The steps that do neither.
Others(t) == \/ LockExchange(t) \/ TryLock(t) \/ Unlock(t) \/ Downgrade(t)
             \/ \E w \in BOOLEAN : CallLockShared(t, w)
             \/ CheckWannabe(t) \/ FetchAdd(t) \/ LoadOld(t) \/ ResetExchange(t)
             \/ UnlockShared(t) \/ UpgradeExchange(t) \/ UpgradeRetry(t)

(* Every step keeps wannabe_count_ equal to the number of threads that are   *)
(* between announcement and withdrawal.                                      *)
LEMMA WannabeStep ==
  ASSUME TypeOK, WannabesAreCounted, [Next]_vars
  PROVE  WannabesAreCounted' /\ wannabe' \in Nat
<1>0. Wannabes \subseteq Threads /\ IsFiniteSet(Wannabes) /\ Cardinality(Wannabes) \in Nat
  BY SmallSets DEF Wannabes
<1>1. ASSUME NEW t \in Threads, Announces(t) PROVE WannabesAreCounted' /\ wannabe' \in Nat
  <2>1. t \notin Wannabes /\ Wannabes' = Wannabes \cup {t} /\ wannabe' = wannabe + 1
    BY <1>1 DEF Announces, CallLock, CallTryUpgrade, Goto, Wannabes, TypeOK
  <2>2. Cardinality(Wannabes') = Cardinality(Wannabes) + 1
    BY <1>0, <2>1, FS_AddElement
  <2> QED
    BY <1>0, <2>1, <2>2 DEF WannabesAreCounted
<1>2. ASSUME NEW t \in Threads, Withdraw(t) PROVE WannabesAreCounted' /\ wannabe' \in Nat
  <2>1. t \in Wannabes /\ Wannabes' = Wannabes \ {t} /\ wannabe' = wannabe - 1
    BY <1>2 DEF Withdraw, Goto, Wannabes, TypeOK
  <2>2. /\ Cardinality(Wannabes') = Cardinality(Wannabes) - 1
        /\ Cardinality(Wannabes') \in Nat
    BY <1>0, <2>1, FS_RemoveElement, FS_CardinalityType
  <2> QED
    BY <1>0, <2>1, <2>2 DEF WannabesAreCounted
<1>3. ASSUME NEW t \in Threads, Others(t) PROVE WannabesAreCounted' /\ wannabe' \in Nat
  <2>1. wannabe' = wannabe
    BY <1>3 DEF Others, LockExchange, TryLock, Unlock, Downgrade, CallLockShared, CheckWannabe,
                FetchAdd, LoadOld, ResetExchange, UnlockShared, UpgradeExchange, UpgradeRetry
  <2>2. \E loc \in Locations :
          /\ Goto(t, loc)
          /\ loc \in {"lock", "locked", "upgrade", "wannabes", "upgraded", "give_up"}
             <=> pc[t] \in {"lock", "locked", "upgrade", "wannabes", "upgraded", "give_up"}
    BY <1>3 DEF Others, LockExchange, TryLock, Unlock, Downgrade, CallLockShared, CheckWannabe,
                FetchAdd, LoadOld, ResetExchange, UnlockShared, UpgradeExchange, UpgradeRetry,
                Locations, AfterFailure
  <2>3. Wannabes' = Wannabes
    BY <2>2 DEF Goto, Wannabes, TypeOK
  <2> QED
    BY <1>0, <2>1, <2>3 DEF WannabesAreCounted
<1>4. CASE UNCHANGED vars
  BY <1>0, <1>4 DEF vars, WannabesAreCounted, Wannabes
<1> QED
  BY <1>1, <1>2, <1>3, <1>4 DEF Next, Announces, Others

(* No step breaks what a reader about to reset count_ knows of its old_value.*)
LEMMA OldStaysAbove == TypeOK /\ OldIsAbove /\ [Next]_vars => OldIsAbove'
<1> SUFFICES ASSUME TypeOK, OldIsAbove, [Next]_vars,
                    NEW u \in Threads, pc'[u] = "reset"
             PROVE  old'[u] > INT32MAX
  BY DEF OldIsAbove
<1>1. ASSUME NEW t \in Threads, LoadOld(t) PROVE old'[u] > INT32MAX
  BY <1>1 DEF LoadOld, Goto, AfterFailure, TypeOK, OldIsAbove
<1>2. ASSUME NEW t \in Threads, ResetExchange(t) PROVE old'[u] > INT32MAX
  BY <1>2 DEF ResetExchange, Goto, AfterFailure, TypeOK, OldIsAbove
<1>3. ASSUME NEW t \in Threads,
             \/ CallLock(t) \/ LockExchange(t) \/ TryLock(t) \/ Withdraw(t)
             \/ Unlock(t) \/ Downgrade(t)
             \/ \E w \in BOOLEAN : CallLockShared(t, w) \/ CallTryUpgrade(t, w)
             \/ CheckWannabe(t) \/ FetchAdd(t) \/ UnlockShared(t)
             \/ UpgradeExchange(t) \/ UpgradeRetry(t)
      PROVE  old'[u] > INT32MAX
  <2>1. old' = old
    BY <1>3 DEF CallLock, LockExchange, TryLock, Withdraw, Unlock, Downgrade, CallLockShared,
                CallTryUpgrade, CheckWannabe, FetchAdd, UnlockShared, UpgradeExchange,
                UpgradeRetry
  <2>2. \E loc \in Locations \ {"reset"} : Goto(t, loc)
    BY <1>3 DEF CallLock, LockExchange, TryLock, Withdraw, Unlock, Downgrade, CallLockShared,
                CallTryUpgrade, CheckWannabe, FetchAdd, UnlockShared, UpgradeExchange,
                UpgradeRetry, Locations
  <2>3. pc[u] = "reset"
    BY <2>2 DEF Goto, TypeOK
  <2> QED
    BY <2>1, <2>3 DEF OldIsAbove
<1>4. CASE UNCHANGED vars
  BY <1>4 DEF vars, OldIsAbove
<1> QED
  BY <1>1, <1>2, <1>3, <1>4 DEF Next

(* A step that moves no thread in or out of ownership and leaves count_ on   *)
(* the same side of INT32MAX, and unchanged below it, preserves IInv.        *)
LEMMA OwnershipUntouched ==
  ASSUME IInv, TypeOK', OldIsAbove', WannabesAreCounted',
         Sharers' = Sharers, Owners' = Owners,
         \/ count' = count
         \/ count >= INT32MAX /\ count' >= INT32MAX
  PROVE  IInv'
BY MaxAssumption DEF IInv, TypeOK, MutualExclusion, CountIsExact

(* Every step of every thread preserves IInv.                                *)
LEMMA NextIInv == IInv /\ [Next]_vars => IInv'
<1> SUFFICES ASSUME IInv, [Next]_vars PROVE IInv'
  OBVIOUS
<1> USE MaxAssumption, BoundAssumption
<1>0. TypeOK /\ MutualExclusion /\ CountIsExact /\ OldIsAbove
  BY DEF IInv
<1>old. OldIsAbove'
  BY <1>0, OldStaysAbove
<1>wan. WannabesAreCounted' /\ wannabe' \in Nat
  BY WannabeStep DEF IInv
<1>bound. /\ Sharers \subseteq Threads /\ Sharers' \subseteq Threads
          /\ IsFiniteSet(Sharers) /\ Cardinality(Sharers) \in Nat
          /\ Cardinality(Sharers) < INT32MAX
          /\ IsFiniteSet(Sharers') /\ Cardinality(Sharers') \in Nat
          /\ Cardinality(Sharers') < INT32MAX
  <2>1. Sharers \subseteq Threads /\ Sharers' \subseteq Threads
    BY DEF Sharers
  <2> QED
    BY <2>1, SmallSets
\* Steps that change no ownership.
<1>1. ASSUME NEW t \in Threads,
             \/ CallLock(t) \/ Withdraw(t) \/ CheckWannabe(t) \/ UpgradeRetry(t) \/ LoadOld(t)
             \/ \E w \in BOOLEAN : CallLockShared(t, w) \/ CallTryUpgrade(t, w)
      PROVE  IInv'
  <2>1. TypeOK'
    BY <1>0, <1>1, <1>wan DEF TypeOK, Locations, CallLock, Withdraw, CheckWannabe, UpgradeRetry,
                       LoadOld, CallLockShared, CallTryUpgrade, Goto, AfterFailure
  <2>2. Sharers' = Sharers /\ Owners' = Owners
    BY <1>0, <1>1 DEF TypeOK, Sharers, Owners, CallLock, Withdraw, CheckWannabe, UpgradeRetry,
                      LoadOld, CallLockShared, CallTryUpgrade, Goto, AfterFailure
  <2>3. count' = count
    BY <1>1 DEF CallLock, Withdraw, CheckWannabe, UpgradeRetry, LoadOld, CallLockShared,
                CallTryUpgrade
  <2> QED
    BY <2>1, <2>2, <2>3, <1>old, <1>wan, OwnershipUntouched
<1>2. ASSUME NEW t \in Threads, LockExchange(t) \/ TryLock(t) PROVE IInv'
  <2>1. TypeOK'
    BY <1>0, <1>2 DEF TypeOK, Locations, LockExchange, TryLock, Goto
  <2>2. count = 0 /\ count' = INT32MAX
    BY <1>2 DEF LockExchange, TryLock
  <2>3. Sharers = {} /\ Owners = {}
    BY <1>0, <1>bound, <2>2, FS_EmptySet DEF CountIsExact, TypeOK
  <2>4. Sharers' = {} /\ Owners' = {t}
    BY <1>0, <1>2, <2>3 DEF TypeOK, LockExchange, TryLock, Goto, Sharers, Owners
  <2> QED
    BY <1>old, <1>wan, <2>1, <2>2, <2>4 DEF IInv, MutualExclusion, CountIsExact
<1>3. ASSUME NEW t \in Threads, Unlock(t) PROVE IInv'
  <2>1. TypeOK'
    BY <1>0, <1>3 DEF TypeOK, Locations, Unlock, Goto
  <2>2. Owners = {t} /\ Sharers = {}
    BY <1>0, <1>3 DEF MutualExclusion, Unlock, Owners, Sharers
  <2>3. Sharers' = {} /\ Owners' = {}
    BY <1>0, <1>3, <2>2 DEF TypeOK, Unlock, Goto, Owners, Sharers
  <2>4. Cardinality(Sharers') = 0
    BY <2>3, FS_EmptySet
  <2> QED
    BY <1>old, <1>wan, <1>3, <1>bound, <2>1, <2>3, <2>4
    DEF IInv, MutualExclusion, CountIsExact, Unlock
<1>4. ASSUME NEW t \in Threads, Downgrade(t) PROVE IInv'
  <2>1. TypeOK'
    BY <1>0, <1>4, <1>bound DEF TypeOK, Locations, Downgrade, Goto
  <2>2. Owners = {t} /\ Sharers = {}
    BY <1>0, <1>4 DEF MutualExclusion, Downgrade, Owners, Sharers
  <2>3. Sharers' = {t} /\ Owners' = {}
    BY <1>0, <1>4, <2>2 DEF TypeOK, Downgrade, Goto, Owners, Sharers
  <2>4. Cardinality(Sharers') = 1 /\ 1 < INT32MAX
    BY <2>3, FS_Singleton, OneIsBelowMax
  <2> QED
    BY <1>old, <1>wan, <1>4, <2>1, <2>3, <2>4
    DEF IInv, MutualExclusion, CountIsExact, Downgrade
<1>5. ASSUME NEW t \in Threads, FetchAdd(t) PROVE IInv'
  <2>1. TypeOK'
    BY <1>0, <1>5 DEF TypeOK, Locations, FetchAdd, Goto
  <2>2. CASE count < INT32MAX
    <3>1. Owners = {} /\ t \notin Sharers
      BY <1>0, <1>5, <2>2 DEF CountIsExact, TypeOK, FetchAdd, Sharers
    <3>2. Sharers' = Sharers \cup {t} /\ Owners' = {}
      BY <1>0, <1>5, <2>2, <3>1 DEF TypeOK, FetchAdd, Goto, Sharers, Owners
    <3>3. Cardinality(Sharers') = Cardinality(Sharers) + 1
      BY <1>bound, <3>1, <3>2, FS_AddElement
    <3>4. count' = Cardinality(Sharers') /\ count' < INT32MAX
      BY <1>0, <1>5, <1>bound, <2>2, <3>3 DEF CountIsExact, FetchAdd
    <3> QED
      BY <1>old, <1>wan, <2>1, <3>2, <3>4 DEF IInv, TypeOK, MutualExclusion, CountIsExact
  <2>3. CASE count >= INT32MAX
    <3>1. Sharers' = Sharers /\ Owners' = Owners
      BY <1>0, <1>5, <2>3 DEF TypeOK, FetchAdd, Goto, Sharers, Owners
    <3>2. count' >= INT32MAX
      BY <1>0, <1>5, <2>3 DEF TypeOK, FetchAdd
    <3> QED
      BY <2>1, <2>3, <3>1, <3>2, <1>old, <1>wan, OwnershipUntouched
  <2> QED
    BY <1>0, <2>2, <2>3 DEF TypeOK
<1>6. ASSUME NEW t \in Threads, ResetExchange(t) PROVE IInv'
  <2>1. TypeOK'
    BY <1>0, <1>6 DEF TypeOK, Locations, ResetExchange, Goto, AfterFailure
  <2>2. Sharers' = Sharers /\ Owners' = Owners
    BY <1>0, <1>6 DEF TypeOK, ResetExchange, Goto, AfterFailure, Sharers, Owners
  <2>3. count' = count \/ (count = old[t] /\ count' = INT32MAX)
    BY <1>6 DEF ResetExchange
  <2>4. old[t] > INT32MAX
    BY <1>0, <1>6 DEF ResetExchange, OldIsAbove
  <2> QED
    BY <1>0, <2>1, <2>2, <2>3, <2>4, <1>old, <1>wan, OwnershipUntouched DEF TypeOK
<1>7. ASSUME NEW t \in Threads, UnlockShared(t) PROVE IInv'
  <2>1. t \in Sharers /\ Owners = {}
    BY <1>0, <1>7 DEF MutualExclusion, UnlockShared, Sharers, Owners
  <2>2. count = Cardinality(Sharers)
    BY <1>0, <2>1 DEF TypeOK, CountIsExact
  <2>3. Sharers' = Sharers \ {t} /\ Owners' = {}
    BY <1>0, <1>7, <2>1 DEF TypeOK, UnlockShared, Goto, Sharers, Owners
  <2>4. Cardinality(Sharers') = Cardinality(Sharers) - 1
    BY <1>bound, <2>1, <2>3, FS_RemoveElement
  <2>5. count' = Cardinality(Sharers') /\ count' \in 0 .. CountBound /\ count' < INT32MAX
    BY <1>0, <1>7, <1>bound, <2>2, <2>4 DEF UnlockShared, TypeOK
  <2>6. TypeOK'
    BY <1>0, <1>7, <2>5 DEF TypeOK, Locations, UnlockShared, Goto
  <2> QED
    BY <1>old, <1>wan, <2>3, <2>5, <2>6 DEF IInv, TypeOK, MutualExclusion, CountIsExact
<1>8. ASSUME NEW t \in Threads, UpgradeExchange(t) PROVE IInv'
  <2>1. TypeOK'
    BY <1>0, <1>8 DEF TypeOK, Locations, UpgradeExchange, Goto
  <2>2. t \in Sharers /\ 1 < INT32MAX
    BY <1>8, OneIsBelowMax DEF UpgradeExchange, Sharers
  <2>3. CASE count = 1 /\ count' = INT32MAX /\ Goto(t, "upgraded")
    <3>1. Cardinality(Sharers) = 1 /\ Owners = {}
      BY <1>0, <2>2, <2>3 DEF TypeOK, CountIsExact
    <3>2. Sharers = {t}
      BY <1>bound, <2>2, <3>1, OnlyMember
    <3>3. Sharers' = {} /\ Owners' = {t}
      BY <1>0, <2>3, <3>1, <3>2 DEF TypeOK, Goto, Sharers, Owners
    <3> QED
      BY <1>old, <1>wan, <2>1, <2>3, <3>3 DEF IInv, MutualExclusion, CountIsExact
  <2>4. CASE count' = count /\ \E loc \in {"wannabes", "upgrade", "give_up"} : Goto(t, loc)
    <3>1. Sharers' = Sharers /\ Owners' = Owners
      BY <1>0, <1>8, <2>4 DEF TypeOK, UpgradeExchange, Goto, Sharers, Owners
    <3> QED
      BY <2>1, <2>4, <3>1, <1>old, <1>wan, OwnershipUntouched
  <2> QED
    BY <1>8, <2>3, <2>4 DEF UpgradeExchange
<1>9. CASE UNCHANGED vars
  <2>1. TypeOK'
    BY <1>0, <1>9 DEF TypeOK, vars
  <2> QED
    BY <1>9, <2>1, <1>old, <1>wan, OwnershipUntouched DEF vars, Sharers, Owners
<1> QED
  BY <1>1, <1>2, <1>3, <1>4, <1>5, <1>6, <1>7, <1>8, <1>9 DEF Next

(* IInv holds in every reachable state, for any number of threads.           *)
THEOREM Invariance == Spec => []IInv
BY InitIInv, NextIInv, PTL DEF Spec

(* A writer is alone: no reader that passed the check of wannabe_count_      *)
(* before the writer came gets in beside it.                                 *)
THEOREM Exclusion == Spec => []MutualExclusion
BY Invariance, PTL DEF IInv

(* Without a writer count_ is the number of sharers, and above INT32MAX a    *)
(* writer is there.                                                          *)
THEOREM ExactCount == Spec => []CountIsExact
BY Invariance, PTL DEF IInv

(* Every announcement is withdrawn once: readers are turned away only while  *)
(* somebody is between the two.                                              *)
THEOREM ExactWannabes == Spec => []WannabesAreCounted
BY Invariance, PTL DEF IInv

(* What IInv says of the abstract ownership: a free word means no owner, a   *)
(* word below INT32MAX no exclusive one, and the only sharer is alone.       *)
LEMMA ModeFacts ==
  ASSUME IInv
  PROVE  /\ count = 0 => \A u \in Threads : Mode[u] = "none"
         /\ count < INT32MAX => \A u \in Threads : Mode[u] # "excl"
         /\ \A t \in Threads : pc[t] = "upgrade" /\ count = 1 =>
              \A u \in Threads \ {t} : Mode[u] = "none"
<1>1. /\ Sharers \subseteq Threads /\ IsFiniteSet(Sharers) /\ Cardinality(Sharers) \in Nat
      /\ Cardinality(Sharers) < INT32MAX
  BY SmallSets DEF Sharers
<1>2. count < INT32MAX => Owners = {} /\ count = Cardinality(Sharers)
  BY MaxAssumption DEF IInv, TypeOK, CountIsExact
<1>3. count = 0 => Sharers = {} /\ Owners = {}
  BY <1>1, <1>2, MaxAssumption, FS_EmptySet
<1>4. ASSUME NEW t \in Threads, pc[t] = "upgrade", count = 1
      PROVE  Sharers = {t} /\ Owners = {}
  <2>1. t \in Sharers /\ 1 < INT32MAX
    BY <1>4, OneIsBelowMax DEF Sharers
  <2>2. Cardinality(Sharers) = 1 /\ Owners = {}
    BY <1>2, <1>4, <2>1
  <2> QED
    BY <1>1, <2>1, <2>2, OnlyMember
<1> QED
  BY <1>2, <1>3, <1>4 DEF Mode

\* The abstract ownership of a thread at a location.
ModeAt(loc) == IF loc \in {"locked", "upgraded", "excl"} THEN "excl"
               ELSE IF loc \in {"shared", "upgrade", "wannabes", "give_up"} THEN "shared"
               ELSE "none"

(* Moving thread t to a location changes the abstract ownership of t only.   *)
LEMMA ModeAfterGoto ==
  ASSUME TypeOK, NEW t \in Threads, NEW loc \in Locations, Goto(t, loc)
  PROVE  /\ Mode' = [Mode EXCEPT ![t] = ModeAt(loc)]
         /\ Mode[t] = ModeAt(pc[t])
         /\ ModeAt(loc) = ModeAt(pc[t]) => Mode' = Mode
BY DEF TypeOK, Goto, Mode, Owners, Sharers, ModeAt

(* Every step of the mutex is a step of the abstract lock or changes no      *)
(* ownership.                                                                *)
LEMMA StepImplements == IInv /\ [Next]_vars => [Abstract!Next]_Mode
<1> SUFFICES ASSUME IInv, [Next]_vars PROVE [Abstract!Next]_Mode
  OBVIOUS
<1> USE DEF Abstract!CanShare, Abstract!CanOwn
<1>0. TypeOK
  BY DEF IInv
<1>1. ASSUME NEW t \in Threads, LockExchange(t) \/ TryLock(t) PROVE Abstract!Next
  <2>1. \E loc \in {"locked", "excl"} : Goto(t, loc)
    BY <1>1 DEF LockExchange, TryLock
  <2>2. Mode' = [Mode EXCEPT ![t] = "excl"]
    BY <1>0, <2>1, ModeAfterGoto DEF Locations, ModeAt
  <2>3. count = 0
    BY <1>1 DEF LockExchange, TryLock
  <2>4. Abstract!AcquireExcl(t)
    BY <2>2, <2>3, ModeFacts DEF Abstract!AcquireExcl
  <2> QED
    BY <2>4 DEF Abstract!Next
<1>2. ASSUME NEW t \in Threads, Unlock(t) \/ UnlockShared(t) PROVE Abstract!Next
  <2>1. Goto(t, "idle") /\ pc[t] \in {"excl", "shared"}
    BY <1>2 DEF Unlock, UnlockShared
  <2>2. Mode' = [Mode EXCEPT ![t] = "none"] /\ Mode[t] # "none"
    BY <1>0, <2>1, ModeAfterGoto DEF Locations, ModeAt
  <2> QED
    BY <2>2 DEF Abstract!Next, Abstract!Release
<1>3. ASSUME NEW t \in Threads, Downgrade(t) PROVE Abstract!Next
  <2>1. Goto(t, "shared") /\ pc[t] = "excl"
    BY <1>3 DEF Downgrade
  <2>2. Mode' = [Mode EXCEPT ![t] = "shared"] /\ Mode[t] = "excl"
    BY <1>0, <2>1, ModeAfterGoto DEF Locations, ModeAt
  <2> QED
    BY <2>2 DEF Abstract!Next, Abstract!Downgrade
<1>4. ASSUME NEW t \in Threads, FetchAdd(t) PROVE Abstract!Next \/ Mode' = Mode
  <2>1. pc[t] = "add"
    BY <1>4 DEF FetchAdd
  <2>2. CASE count < INT32MAX
    <3>1. Goto(t, "shared")
      BY <1>4, <2>2 DEF FetchAdd
    <3>2. Mode' = [Mode EXCEPT ![t] = "shared"] /\ Mode[t] = "none"
      BY <1>0, <2>1, <3>1, ModeAfterGoto DEF Locations, ModeAt
    <3>3. Abstract!AcquireShared(t)
      BY <2>2, <3>2, ModeFacts DEF Abstract!AcquireShared
    <3> QED
      BY <3>3 DEF Abstract!Next
  <2>3. CASE ~(count < INT32MAX)
    <3>1. Goto(t, "load")
      BY <1>4, <2>3 DEF FetchAdd
    <3> QED
      BY <1>0, <2>1, <3>1, ModeAfterGoto DEF Locations, ModeAt
  <2> QED
    BY <2>2, <2>3
<1>5. ASSUME NEW t \in Threads, UpgradeExchange(t) PROVE Abstract!Next \/ Mode' = Mode
  <2>1. pc[t] = "upgrade"
    BY <1>5 DEF UpgradeExchange
  <2>2. CASE count = 1 /\ Goto(t, "upgraded")
    <3>1. Mode' = [Mode EXCEPT ![t] = "excl"] /\ Mode[t] = "shared"
      BY <1>0, <2>1, <2>2, ModeAfterGoto DEF Locations, ModeAt
    <3>2. Abstract!Upgrade(t)
      BY <2>1, <2>2, <3>1, ModeFacts DEF Abstract!Upgrade
    <3> QED
      BY <3>2 DEF Abstract!Next
  <2>3. CASE \E loc \in {"wannabes", "upgrade", "give_up"} : Goto(t, loc)
    BY <1>0, <2>1, <2>3, ModeAfterGoto DEF Locations, ModeAt
  <2> QED
    BY <1>5, <2>2, <2>3 DEF UpgradeExchange
<1>6. ASSUME NEW t \in Threads,
             \/ CallLock(t) \/ Withdraw(t) \/ CheckWannabe(t) \/ UpgradeRetry(t) \/ LoadOld(t)
             \/ ResetExchange(t)
             \/ \E w \in BOOLEAN : CallLockShared(t, w) \/ CallTryUpgrade(t, w)
      PROVE  Mode' = Mode
  <2>1. \E loc \in Locations : Goto(t, loc) /\ ModeAt(loc) = ModeAt(pc[t])
    BY <1>6 DEF CallLock, Withdraw, CheckWannabe, UpgradeRetry, LoadOld, ResetExchange,
                CallLockShared, CallTryUpgrade, AfterFailure, Locations, ModeAt
  <2> QED
    BY <1>0, <2>1, ModeAfterGoto
<1>7. CASE UNCHANGED vars
  BY <1>7 DEF vars, Mode, Owners, Sharers
<1> QED
  BY <1>1, <1>2, <1>3, <1>4, <1>5, <1>6, <1>7 DEF Next

(* SpinWPSharedMutex implements SharedLock.                                  *)
THEOREM Refinement == Spec => ImplementsSharedLock
<1>1. Init => Abstract!Init
  BY DEF Init, Mode, Owners, Sharers, Abstract!Init
<1> QED
  BY <1>1, Invariance, StepImplements, PTL DEF Spec, ImplementsSharedLock, Abstract!Spec
=============================================================================

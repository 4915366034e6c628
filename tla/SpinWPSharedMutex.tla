--------------------------- MODULE SpinWPSharedMutex ---------------------------
(***************************************************************************)
(* SpinWPSharedMutex of tkrzw_thread_util.h: the word of SpinSharedMutex and *)
(* a second one that counts the threads that want exclusive ownership, which *)
(* readers look at before they touch the first.  The two words are read and  *)
(* written in separate steps: a reader that has seen no writer may increment *)
(* the count long after one has arrived.                                     *)
(***************************************************************************)
EXTENDS SpinWord

VARIABLES
  count,       \* count_
  wannabe,     \* wannabe_count_
  pc,          \* where each thread is
  wait,        \* the call in progress retries (lock_shared, try_upgrade(true))
  old          \* old_value of a reader that failed

vars == <<count, wannabe, pc, wait, old>>

Locations == {"idle", "lock", "locked", "check", "add", "load", "reset",
              "shared", "upgrade", "wannabes", "upgraded", "give_up", "excl"}

\* Threads that own the mutex exclusively, and those that share it.
Owners == {t \in Threads : pc[t] \in {"locked", "upgraded", "excl"}}
Sharers == {t \in Threads : pc[t] \in {"shared", "upgrade", "wannabes", "give_up"}}

\* Threads that have announced themselves and not withdrawn yet.
Wannabes == {t \in Threads : pc[t] \in {"lock", "locked", "upgrade", "wannabes",
                                        "upgraded", "give_up"}}

(* Every variable has its type; count_ stays below the wrap of its word.     *)
TypeOK == /\ count \in 0 .. CountBound
          /\ wannabe \in Nat
          /\ pc \in [Threads -> Locations]
          /\ wait \in [Threads -> BOOLEAN]
          /\ old \in [Threads -> 0 .. CountBound]

Goto(t, loc) == pc' = [pc EXCEPT ![t] = loc]

Init == /\ count = 0
        /\ wannabe = 0
        /\ pc = [t \in Threads |-> "idle"]
        /\ wait = [t \in Threads |-> FALSE]
        /\ old = [t \in Threads |-> 0]

-----------------------------------------------------------------------------
(* lock() and try_lock(): compare-exchange of 0 by INT32MAX.  A failed       *)
(* exchange changes nothing; lock() repeats it and try_lock() gives up.      *)

CallLock(t) == /\ pc[t] = "idle"
               /\ wannabe' = wannabe + 1
               /\ Goto(t, "lock")
               /\ UNCHANGED <<count, wait, old>>

LockExchange(t) == /\ pc[t] = "lock"
                   /\ count = 0
                   /\ count' = INT32MAX
                   /\ Goto(t, "locked")
                   /\ UNCHANGED <<wannabe, wait, old>>

TryLock(t) == /\ pc[t] = "idle"
              /\ count = 0
              /\ count' = INT32MAX
              /\ Goto(t, "excl")
              /\ UNCHANGED <<wannabe, wait, old>>

\* Mutant: a try_upgrade() that fails does not withdraw the announcement.
Withdraw_forgets(t) == /\ \/ pc[t] \in {"locked", "upgraded"} /\ Goto(t, "excl")
                             /\ wannabe' = wannabe - 1
                          \/ pc[t] = "give_up" /\ Goto(t, "shared")
                             /\ UNCHANGED wannabe
                       /\ UNCHANGED <<count, wait, old>>

\* wannabe_count_.fetch_sub(1), the last step of lock() and of try_upgrade().
Withdraw(t) == /\ \/ pc[t] \in {"locked", "upgraded"} /\ Goto(t, "excl")
                  \/ pc[t] = "give_up" /\ Goto(t, "shared")
               /\ wannabe' = wannabe - 1
               /\ UNCHANGED <<count, wait, old>>

Unlock(t) == /\ pc[t] = "excl"
             /\ count' = 0
             /\ Goto(t, "idle")
             /\ UNCHANGED <<wannabe, wait, old>>

Downgrade(t) == /\ pc[t] = "excl"
                /\ count' = 1
                /\ Goto(t, "shared")
                /\ UNCHANGED <<wannabe, wait, old>>

-----------------------------------------------------------------------------
(* lock_shared() is the call with w = TRUE, try_lock_shared() with w = FALSE *)

CallLockShared(t, w) == /\ pc[t] = "idle"
                        /\ wait' = [wait EXCEPT ![t] = w]
                        /\ Goto(t, "check")
                        /\ UNCHANGED <<count, wannabe, old>>

\* Mutant: readers do not look for waiting writers.
CheckWannabe_skipped(t) == /\ pc[t] = "check"
                           /\ Goto(t, "add")
                           /\ UNCHANGED <<count, wannabe, wait, old>>

\* A reader that sees a waiting writer goes through the body of the loop of
\* lock_shared() without an increment; try_lock_shared() returns.
CheckWannabe(t) == /\ pc[t] = "check"
                   /\ Goto(t, IF wannabe = 0 THEN "add"
                              ELSE IF wait[t] THEN "load" ELSE "idle")
                   /\ UNCHANGED <<count, wannabe, wait, old>>

\* Mutant: a writer's mark is taken for a count of readers.
FetchAdd_offByOne(t) == /\ pc[t] = "add"
                        /\ count < CountBound
                        /\ count' = count + 1
                        /\ Goto(t, IF count <= INT32MAX THEN "shared" ELSE "load")
                        /\ UNCHANGED <<wannabe, wait, old>>

FetchAdd(t) == /\ pc[t] = "add"
               /\ count < CountBound
               /\ count' = count + 1
               /\ Goto(t, IF count < INT32MAX THEN "shared" ELSE "load")
               /\ UNCHANGED <<wannabe, wait, old>>

\* Where a reader goes after it has failed: around the loop, or out of it.
AfterFailure(t) == IF wait[t] THEN "check" ELSE "idle"

LoadOld(t) == /\ pc[t] = "load"
              /\ \/ /\ count > INT32MAX
                    /\ old' = [old EXCEPT ![t] = count]
                    /\ Goto(t, "reset")
                 \/ /\ count <= INT32MAX
                    /\ Goto(t, AfterFailure(t))
                    /\ UNCHANGED old
              /\ UNCHANGED <<count, wannabe, wait>>

\* The weak compare-exchange may also fail although the values agree.
ResetExchange(t) == /\ pc[t] = "reset"
                    /\ \/ count = old[t] /\ count' = INT32MAX
                       \/ UNCHANGED count
                    /\ Goto(t, AfterFailure(t))
                    /\ old' = [old EXCEPT ![t] = 0]
                    /\ UNCHANGED <<wannabe, wait>>

UnlockShared(t) == /\ pc[t] = "shared"
                   /\ count' = count - 1
                   /\ Goto(t, "idle")
                   /\ UNCHANGED <<wannabe, wait, old>>

-----------------------------------------------------------------------------
(* try_upgrade(w): compare-exchange of 1 by INT32MAX.  When it fails and w   *)
(* holds, the thread retries unless it sees another candidate.               *)

CallTryUpgrade(t, w) == /\ pc[t] = "shared"
                        /\ wait' = [wait EXCEPT ![t] = w]
                        /\ wannabe' = wannabe + 1
                        /\ Goto(t, "upgrade")
                        /\ UNCHANGED <<count, old>>

UpgradeExchange(t) == /\ pc[t] = "upgrade"
                      /\ \/ count = 1 /\ count' = INT32MAX /\ Goto(t, "upgraded")
                         \/ count # 1 /\ UNCHANGED count
                            /\ Goto(t, IF wait[t] /\ count < INT32MAX THEN "wannabes"
                                       ELSE IF wait[t] THEN "upgrade" ELSE "give_up")
                      /\ UNCHANGED <<wannabe, wait, old>>

\* Mutant: a candidate waits for the other candidates.
UpgradeRetry_waits(t) == /\ pc[t] = "wannabes"
                         /\ Goto(t, "upgrade")
                         /\ UNCHANGED <<count, wannabe, wait, old>>

UpgradeRetry(t) == /\ pc[t] = "wannabes"
                   /\ Goto(t, IF wannabe > 1 THEN "give_up" ELSE "upgrade")
                   /\ UNCHANGED <<count, wannabe, wait, old>>

-----------------------------------------------------------------------------
Next == \E t \in Threads :
          \/ CallLock(t) \/ LockExchange(t) \/ TryLock(t) \/ Withdraw(t)
          \/ Unlock(t) \/ Downgrade(t)
          \/ \E w \in BOOLEAN : CallLockShared(t, w) \/ CallTryUpgrade(t, w)
          \/ CheckWannabe(t) \/ FetchAdd(t) \/ LoadOld(t) \/ ResetExchange(t)
          \/ UnlockShared(t) \/ UpgradeExchange(t) \/ UpgradeRetry(t)

Spec == Init /\ [][Next]_vars

\* A thread inside a call keeps running, and who owns the mutex, in whatever
\* way, releases it in the end (the locks are held by scoped guards).
Fairness == \A t \in Threads :
              /\ WF_vars(LockExchange(t) \/ Withdraw(t))
              /\ WF_vars(CheckWannabe(t) \/ FetchAdd(t) \/ LoadOld(t) \/ ResetExchange(t))
              /\ WF_vars(UpgradeExchange(t) \/ UpgradeRetry(t))
              /\ WF_vars(Unlock(t))
              /\ SF_vars(UnlockShared(t))

FairSpec == Spec /\ Fairness

-----------------------------------------------------------------------------
(* At most one thread owns the mutex exclusively, and then nobody shares it: *)
(* what unlock(), downgrade() and try_upgrade() rely on when they overwrite  *)
(* count_ without looking at it.                                             *)
MutualExclusion == \A t \in Owners, u \in Sharers \cup Owners : t = u

(* Below INT32MAX count_ is exactly the number of sharers, and above it a    *)
(* writer is there: neither the increments of readers that passed the check  *)
(* of wannabe_count_ too late nor their resets outlive the writer.           *)
CountIsExact == /\ count < INT32MAX => count = Cardinality(Sharers)
                /\ count >= INT32MAX <=> Owners # {}

(* wannabe_count_ is the number of threads between their announcement and    *)
(* its withdrawal: on no way through lock() or try_upgrade() is the second   *)
(* forgotten, which would shut the readers out for good.                     *)
WannabesAreCounted == wannabe = Cardinality(Wannabes)

(* A reader about to reset count_ compares it with a value that only a       *)
(* writer's presence explains.                                               *)
OldIsAbove == \A t \in Threads : pc[t] = "reset" => old[t] > INT32MAX

(* The inductive invariant behind them.                                      *)
IInv == TypeOK /\ WannabesAreCounted /\ MutualExclusion /\ CountIsExact /\ OldIsAbove

(* The mutex implements the abstract shared lock; the announcement and its   *)
(* withdrawal change no ownership.                                           *)
Mode == [t \in Threads |-> IF t \in Owners THEN "excl"
                           ELSE IF t \in Sharers THEN "shared" ELSE "none"]
Abstract == INSTANCE SharedLock WITH mode <- Mode
ImplementsSharedLock == Abstract!Spec

(* The write preference the class is named for: however readers come and go, *)
(* a thread that waits in lock() does not wait for ever for them, so the     *)
(* mutex goes to a writer.                                                   *)
WriterIsServed == (\E t \in Threads : pc[t] = "lock") ~> Owners # {}

(* try_upgrade(true) comes to an answer: two candidates that share the mutex *)
(* do not wait for each other to release it.                                 *)
UpgradeReturns == \A t \in Threads : pc[t] = "upgrade" ~> pc[t] \in {"shared", "excl"}
=============================================================================

---------------------------- MODULE SpinSharedMutex ----------------------------
(***************************************************************************)
(* SpinSharedMutex of tkrzw_thread_util.h: one atomic word counts the        *)
(* readers, and the value INT32MAX in it stands for a writer.  A reader that *)
(* finds a writer has already incremented the word; it tries to put INT32MAX *)
(* back with a separate load and compare-exchange, which race with the       *)
(* writer's release and with other readers.  Every access to the word is a   *)
(* step of its own.                                                          *)
(***************************************************************************)
EXTENDS SpinWord

VARIABLES
  count,       \* count_
  pc,          \* where each thread is; "shared" and "excl" are the owners
  wait,        \* the call in progress retries (lock_shared, try_upgrade(true))
  old          \* old_value of a reader that found a writer

vars == <<count, pc, wait, old>>

Locations == {"idle", "lock", "lock_shared", "load", "reset",
              "shared", "upgrade", "excl"}

(* Every variable has its type; count_ stays below the wrap of its word.     *)
TypeOK == /\ count \in 0 .. CountBound
          /\ pc \in [Threads -> Locations]
          /\ wait \in [Threads -> BOOLEAN]
          /\ old \in [Threads -> 0 .. CountBound]

Goto(t, loc) == pc' = [pc EXCEPT ![t] = loc]

Init == /\ count = 0
        /\ pc = [t \in Threads |-> "idle"]
        /\ wait = [t \in Threads |-> FALSE]
        /\ old = [t \in Threads |-> 0]

-----------------------------------------------------------------------------
(* lock() and try_lock(): compare-exchange of 0 by INT32MAX.  A failed       *)
(* exchange changes nothing; lock() repeats it and try_lock() gives up.      *)

CallLock(t) == /\ pc[t] = "idle"
               /\ Goto(t, "lock")
               /\ UNCHANGED <<count, wait, old>>

LockExchange(t) == /\ pc[t] = "lock"
                   /\ count = 0
                   /\ count' = INT32MAX
                   /\ Goto(t, "excl")
                   /\ UNCHANGED <<wait, old>>

TryLock(t) == /\ pc[t] = "idle"
              /\ count = 0
              /\ count' = INT32MAX
              /\ Goto(t, "excl")
              /\ UNCHANGED <<wait, old>>

\* Mutant: the increments of failed readers are left behind.
Unlock_subtracts(t) == /\ pc[t] = "excl"
                       /\ count' = count - INT32MAX
                       /\ Goto(t, "idle")
                       /\ UNCHANGED <<wait, old>>

Unlock(t) == /\ pc[t] = "excl"
             /\ count' = 0
             /\ Goto(t, "idle")
             /\ UNCHANGED <<wait, old>>

\* Mutant: the former writer is not counted as a reader.
Downgrade_clears(t) == /\ pc[t] = "excl"
                       /\ count' = 0
                       /\ Goto(t, "shared")
                       /\ UNCHANGED <<wait, old>>

Downgrade(t) == /\ pc[t] = "excl"
                /\ count' = 1
                /\ Goto(t, "shared")
                /\ UNCHANGED <<wait, old>>

-----------------------------------------------------------------------------
(* lock_shared() is the call with w = TRUE, try_lock_shared() with w = FALSE *)

CallLockShared(t, w) == /\ pc[t] = "idle"
                        /\ wait' = [wait EXCEPT ![t] = w]
                        /\ Goto(t, "lock_shared")
                        /\ UNCHANGED <<count, old>>

FetchAdd(t) == /\ pc[t] = "lock_shared"
               /\ count < CountBound
               /\ count' = count + 1
               /\ Goto(t, IF count < INT32MAX THEN "shared" ELSE "load")
               /\ UNCHANGED <<wait, old>>

\* Where a reader goes after it has failed: around the loop, or out of it.
AfterFailure(t) == IF wait[t] THEN "lock_shared" ELSE "idle"

LoadOld(t) == /\ pc[t] = "load"
              /\ \/ /\ count > INT32MAX
                    /\ old' = [old EXCEPT ![t] = count]
                    /\ Goto(t, "reset")
                 \/ /\ count <= INT32MAX
                    /\ Goto(t, AfterFailure(t))
                    /\ UNCHANGED old
              /\ UNCHANGED <<count, wait>>

\* Mutant: the reset does not compare.
ResetExchange_stores(t) == /\ pc[t] = "reset"
                           /\ count' = INT32MAX
                           /\ Goto(t, AfterFailure(t))
                           /\ old' = [old EXCEPT ![t] = 0]
                           /\ UNCHANGED wait

\* The weak compare-exchange may also fail although the values agree.
ResetExchange(t) == /\ pc[t] = "reset"
                    /\ \/ count = old[t] /\ count' = INT32MAX
                       \/ UNCHANGED count
                    /\ Goto(t, AfterFailure(t))
                    /\ old' = [old EXCEPT ![t] = 0]
                    /\ UNCHANGED wait

UnlockShared(t) == /\ pc[t] = "shared"
                   /\ count' = count - 1
                   /\ Goto(t, "idle")
                   /\ UNCHANGED <<wait, old>>

-----------------------------------------------------------------------------
(* try_upgrade(w): compare-exchange of 1 by INT32MAX; w is never read.       *)

CallTryUpgrade(t, w) == /\ pc[t] = "shared"
                        /\ wait' = [wait EXCEPT ![t] = w]
                        /\ Goto(t, "upgrade")
                        /\ UNCHANGED <<count, old>>

UpgradeExchange(t) == /\ pc[t] = "upgrade"
                      /\ \/ count = 1 /\ count' = INT32MAX /\ Goto(t, "excl")
                         \/ count # 1 /\ count < INT32MAX
                            /\ UNCHANGED count /\ Goto(t, "shared")
                      /\ UNCHANGED <<wait, old>>

-----------------------------------------------------------------------------
Next == \E t \in Threads :
          \/ CallLock(t) \/ LockExchange(t) \/ TryLock(t)
          \/ Unlock(t) \/ Downgrade(t)
          \/ \E w \in BOOLEAN : CallLockShared(t, w) \/ CallTryUpgrade(t, w)
          \/ FetchAdd(t) \/ LoadOld(t) \/ ResetExchange(t)
          \/ UnlockShared(t) \/ UpgradeExchange(t)

Spec == Init /\ [][Next]_vars

\* A thread inside a call keeps running; owners need not release the mutex.
Fairness == \A t \in Threads :
              /\ WF_vars(LockExchange(t))
              /\ WF_vars(FetchAdd(t))
              /\ WF_vars(LoadOld(t))
              /\ WF_vars(ResetExchange(t))

FairSpec == Spec /\ Fairness

-----------------------------------------------------------------------------
Sharers == {t \in Threads : pc[t] \in {"shared", "upgrade"}}
Owners == {t \in Threads : pc[t] = "excl"}

(* At most one thread owns the mutex exclusively, and then nobody shares it: *)
(* what unlock(), downgrade() and try_upgrade() rely on when they overwrite  *)
(* count_ without looking at it.                                             *)
MutualExclusion == \A t \in Owners, u \in Sharers \cup Owners : t = u

(* The increments of the readers that found a writer never survive it: as    *)
(* soon as count_ is below INT32MAX it is exactly the number of sharers, so  *)
(* no late reset or leftover increment can lock the mutex for good.          *)
CountIsExact == count < INT32MAX => count = Cardinality(Sharers)

(* A writer is present exactly when count_ says so, whatever the readers     *)
(* have added to it.                                                         *)
WriterIsMarked == count >= INT32MAX <=> Owners # {}

(* A reader about to reset count_ compares it with a value that only a       *)
(* writer's presence explains, so the reset cannot lock a free mutex.        *)
OldIsAbove == \A t \in Threads : pc[t] = "reset" => old[t] > INT32MAX

(* The inductive invariant behind them.                                      *)
IInv == TypeOK /\ MutualExclusion /\ CountIsExact /\ WriterIsMarked /\ OldIsAbove

(* The mutex implements the abstract shared lock: every grant, upgrade and   *)
(* downgrade of it is one that SharedLock allows, and the steps of a reader  *)
(* that fails change no ownership.                                           *)
Mode == [t \in Threads |-> IF pc[t] = "excl" THEN "excl"
                           ELSE IF pc[t] \in {"shared", "upgrade"} THEN "shared"
                           ELSE "none"]
Abstract == INSTANCE SharedLock WITH mode <- Mode
ImplementsSharedLock == Abstract!Spec

(* Whoever spins in lock() or lock_shared(), somebody gets the mutex: the    *)
(* losers' increments and resets cannot leave it unavailable for ever.       *)
Spinning == {t \in Threads :
               \/ pc[t] = "lock"
               \/ wait[t] /\ pc[t] \in {"lock_shared", "load", "reset"}}
SomebodyOwns == Spinning # {} ~> Sharers \cup Owners # {}
=============================================================================

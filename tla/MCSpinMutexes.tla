----------------------------- MODULE MCSpinMutexes -----------------------------
(* A few threads on one mutex, which is a SpinWPSharedMutex or a               *)
(* SpinSharedMutex; the other one stays as it was made.                        *)
EXTENDS SpinWPSharedMutex

CONSTANTS t1, t2, t3

VARIABLES kind,    \* the mutex that is used
          plain_count, plain_pc, plain_wait, plain_old  \* the SpinSharedMutex

ThreeThreads == {t1, t2, t3}

plain == <<plain_count, plain_pc, plain_wait, plain_old>>
Plain == INSTANCE SpinSharedMutex WITH
  count <- plain_count, pc <- plain_pc, wait <- plain_wait, old <- plain_old

MCInit == kind \in {"wp", "plain"} /\ Init /\ Plain!Init
MCNext ==
  /\ UNCHANGED kind
  /\ \/ kind = "wp" /\ Next /\ UNCHANGED plain
     \/ kind = "plain" /\ Plain!Next /\ UNCHANGED vars

\* Nothing that the fairness of the unused mutex asks for is ever enabled.
MCSpec == MCInit /\ [][MCNext]_<<kind, vars, plain>> /\ Fairness /\ Plain!Fairness

(* Of the SpinSharedMutex: below INT32MAX its count_ is the number of sharers, *)
(* whatever failed readers add and reset beside a writer.                      *)
PlainCountIsExact == Plain!CountIsExact

(* Every grant, upgrade and downgrade of the SpinSharedMutex is one that       *)
(* SharedLock allows.                                                          *)
PlainImplementsSharedLock == Plain!ImplementsSharedLock

(* Whoever spins in lock() or lock_shared() of the SpinSharedMutex, somebody   *)
(* gets it: the losers' increments and resets cannot leave it unavailable.     *)
PlainSomebodyOwns == Plain!SomebodyOwns
=============================================================================

------------------------------- MODULE SpinWord -------------------------------
(***************************************************************************)
(* The atomic word count_ that both spin mutexes of tkrzw_thread_util.h are  *)
(* built on: the threads that use it, and the values it may have.            *)
(***************************************************************************)
EXTENDS Integers, FiniteSets

CONSTANTS
  Threads,     \* threads that use the mutex
  INT32MAX,    \* the value of count_ that stands for a writer
  CountBound   \* bound on count_ (below the wrap of the 32-bit word)

ASSUME ThreadsAssumption == IsFiniteSet(Threads)
ASSUME MaxAssumption == INT32MAX \in Nat /\ INT32MAX > Cardinality(Threads)
ASSUME BoundAssumption == CountBound \in Nat /\ CountBound > INT32MAX
=============================================================================

------------------------------ MODULE SharedLock ------------------------------
(***************************************************************************)
(* What every shared mutex of the library promises: a thread owns the lock  *)
(* exclusively, shares it, or does not own it, and exclusive ownership is    *)
(* granted only when nobody else owns the lock.  The spin mutexes of         *)
(* tkrzw_thread_util.h are shown to implement this specification, and the    *)
(* modules that use a mutex rely on nothing else.                            *)
(***************************************************************************)
CONSTANT Threads

VARIABLE mode      \* the ownership each thread has

Modes == {"none", "shared", "excl"}

Init == mode = [t \in Threads |-> "none"]

\* The lock may be shared with t: no other thread owns it exclusively.
CanShare(t) == \A u \in Threads \ {t} : mode[u] # "excl"

\* The lock may be given to t alone: no other thread owns it in any way.
CanOwn(t) == \A u \in Threads \ {t} : mode[u] = "none"

AcquireShared(t) == mode[t] = "none" /\ CanShare(t)
                    /\ mode' = [mode EXCEPT ![t] = "shared"]

AcquireExcl(t) == mode[t] = "none" /\ CanOwn(t)
                  /\ mode' = [mode EXCEPT ![t] = "excl"]

Upgrade(t) == mode[t] = "shared" /\ CanOwn(t)
              /\ mode' = [mode EXCEPT ![t] = "excl"]

Downgrade(t) == mode[t] = "excl" /\ mode' = [mode EXCEPT ![t] = "shared"]

Release(t) == mode[t] # "none" /\ mode' = [mode EXCEPT ![t] = "none"]

Next == \E t \in Threads : AcquireShared(t) \/ AcquireExcl(t) \/ Upgrade(t)
                           \/ Downgrade(t) \/ Release(t)

Spec == Init /\ [][Next]_mode
===============================================================================

-------------------------------- MODULE KVStore --------------------------------
(***************************************************************************)
(* What a HashDBM promises: a map from keys to values that updates change      *)
(* atomically, one update of a key at a time.  A crash keeps every finished    *)
(* update; of an unfinished one it keeps either the old value or the new one.  *)
(* A store that is restored to its last synchronization returns to that.       *)
(***************************************************************************)
EXTENDS Naturals

CONSTANTS Keys, Values, None, Threads

VARIABLES kv,    \* the map; None where there is no record
          saved, \* the map at the last synchronization
          up,    \* whether the process has the database open
          pend,  \* the update each thread is in the middle of, as a set
          strict \* whether a crash returns to the last synchronization

vars == <<kv, saved, up, pend, strict>>

Update == [key : Keys, old : Values \cup {None}, val : Values \cup {None}]

Init ==
  /\ kv \in [Keys -> Values \cup {None}] /\ saved = kv
  /\ up = FALSE /\ pend = [t \in Threads |-> {}]
  /\ strict \in BOOLEAN

Invoke(t) ==
  /\ up /\ pend[t] = {}
  /\ \E u \in Update :
       /\ u.old = kv[u.key]
       /\ \A s \in Threads : \A w \in pend[s] : w.key # u.key
       /\ pend' = [pend EXCEPT ![t] = {u}]
  /\ UNCHANGED <<kv, saved, up, strict>>

Commit(t) ==
  /\ \E u \in pend[t] : kv[u.key] = u.old /\ kv' = [kv EXCEPT ![u.key] = u.val]
  /\ UNCHANGED <<saved, up, pend, strict>>

Return(t) ==
  /\ \E u \in pend[t] : kv[u.key] = u.val
  /\ pend' = [pend EXCEPT ![t] = {}]
  /\ UNCHANGED <<kv, saved, up, strict>>

Idle == \A t \in Threads : pend[t] = {}

\* Opening, synchronizing and closing change nothing; no update runs then.
Open == ~up /\ up' /\ UNCHANGED <<kv, saved, pend, strict>>
Synchronize == up /\ Idle /\ saved' = kv /\ UNCHANGED <<kv, up, pend, strict>>
Close == up /\ ~up' /\ Idle /\ saved' = kv /\ UNCHANGED <<kv, pend, strict>>

\* Clear removes every record.
Clear ==
  /\ up /\ Idle
  /\ kv' = [k \in Keys |-> None] /\ saved' = kv'
  /\ UNCHANGED <<up, pend, strict>>

Crash ==
  /\ up /\ ~up'
  /\ IF strict THEN kv' = saved
     ELSE /\ DOMAIN kv' = Keys
          /\ \A k \in Keys :
               \/ kv'[k] = kv[k]
               \/ \E t \in Threads : \E u \in pend[t] : u.key = k /\ kv'[k] \in {u.old, u.val}
  /\ pend' = [t \in Threads |-> {}]
  /\ UNCHANGED <<saved, strict>>

Next == \/ \E t \in Threads : Invoke(t) \/ Commit(t) \/ Return(t)
        \/ Open \/ Synchronize \/ Clear \/ Close \/ Crash

Spec == Init /\ [][Next]_vars
=============================================================================

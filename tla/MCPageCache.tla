------------------------------ MODULE MCPageCache ------------------------------
(* Three threads, seven pages and three slots.                               *)
EXTENDS PageCache

CONSTANTS t1, t2, t3

MCThread == {t1, t2, t3}

Doing(role, ops, from) == [role |-> role, ops |-> ops, from |-> from, ahead |-> <<>>]
Walking(from, ahead) == [Doing("walk", 1, {from}) EXCEPT !.ahead = ahead]
Scene(a, b, c) == (t1 :> a) @@ (t2 :> b) @@ (t3 :> c)
None == Doing("none", 0, {})

\* Pages 1, 4 and 7 share a slot; pages 2 and 3 are in the others.
Same == {1, 4, 7}
MCScenes ==
  {Scene(Doing("update", 2, Same), Doing("update", 1, Same), None),
   Scene(Doing("update", 1, {1, 4}), Doing("update", 1, {1}), Doing("flush", 1, {})),
   Scene(Doing("update", 3, Same), Doing("flush", 2, {}), None),
   Scene(Doing("update", 3, {1, 4}), Walking(1, <<2, 3>>), None),
   Scene(Doing("update", 1, {1, 2}), Walking(1, <<3, 2>>), Doing("flush", 1, {}))}

\* Two threads that load the same page.
RaceScenes == {Scene(Doing("update", 1, {1}), Doing("update", 2, {1, 4}), None)}

\* A walk over two leaves of one slot, and a Rebuild.
DeadlockScenes == {Scene(Doing("update", 1, {1}), Walking(1, <<4>>), Doing("flush", 1, {}))}
=============================================================================

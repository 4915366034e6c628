------------------------------ MODULE MCSkipDBM ------------------------------
(* Instances of SkipDBM for TLC. *)
EXTENDS SkipDBM

CONSTANTS a, b

MCKeys == 1 .. 3
MCValues == {a, b}
MCShapes == {[step |-> 2, max |-> 1], [step |-> 2, max |-> 2]}
OneSource == {<<Pair(1, a), Pair(1, b), Pair(2, a), Pair(3, a), Pair(3, b)>>}

Bound(inorder, update, look, iter, each, sync, merge, revert, clear, rebuild, crash) ==
  [inorder |-> inorder, update |-> update, look |-> look, iter |-> iter, each |-> each,
   sync |-> sync, merge |-> merge, mergers |-> 1, revert |-> revert, clear |-> clear,
   rebuild |-> rebuild, crash |-> crash]

\* Updates, synchronizations and a crash; searches and rebuilding; iterating over
\* what another database brought; removing and reverting; insertion in order, and
\* clearing, rebuilding and a crash after it.
MCLimits == {
  Bound(FALSE, 3, 0, 0, 0, 2, 0, 0, 0, 0, 1),
  Bound(FALSE, 0, 2, 2, 0, 1, 1, 0, 0, 1, 0),
  Bound(FALSE, 1, 0, 2, 0, 1, 1, 0, 0, 0, 0),
  Bound(FALSE, 1, 0, 0, 1, 2, 1, 1, 0, 0, 0),
  Bound(TRUE, 3, 0, 0, 0, 1, 0, 1, 0, 0, 0),
  Bound(TRUE, 2, 0, 0, 0, 1, 0, 0, 1, 1, 1)}

\* A record is published, and another database with its key is merged.
MergeLimits == {Bound(FALSE, 1, 0, 0, 0, 2, 1, 0, 0, 0, 0)}
=============================================================================

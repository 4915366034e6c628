------------------------------ MODULE MCTreeDBM ------------------------------
(* TreeDBM with pages of at most six units, two branches and short and long  *)
(* records.                                                                  *)
EXTENDS TreeDBM

Bound(writers, update, many, clear, iter, end, evict, sync, reopen, crash) ==
  [writers |-> writers, update |-> update, many |-> many, clear |-> clear, iter |-> iter,
   end |-> end, evict |-> evict, sync |-> sync, reopen |-> reopen, crash |-> crash,
   keys |-> 4, fill |-> 0]
Deep(bound, fill) == [bound EXCEPT !["keys"] = fill, !["fill"] = fill]

MCKey == 1..6
MCSize == {1, 5}

MCLimits ==
  {Bound(2, 5, 0, 0, 1, 1, 0, 0, 0, 0),   \* two writers and an iterator
   Bound(2, 6, 0, 0, 0, 0, 0, 0, 0, 0),   \* deeper trees
   Bound(1, 4, 1, 0, 0, 0, 0, 0, 0, 0),   \* several records at once
   Bound(1, 4, 0, 0, 0, 0, 1, 1, 0, 1),   \* saves, Synchronize and a crash
   Bound(1, 4, 0, 1, 0, 0, 0, 0, 1, 0),   \* Clear, Close and Open
   Deep(Bound(1, 4, 0, 0, 0, 0, 0, 0, 0, 0), 6),  \* two levels of inner nodes
   Deep(Bound(2, 2, 0, 0, 1, 1, 0, 0, 0, 0), 6)}  \* and an iterator
=============================================================================

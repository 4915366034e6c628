----------------------------- MODULE TreeIterator -----------------------------
(***************************************************************************)
(* TreeDBMIteratorImpl (tkrzw_dbm_tree.cc): each operator gives the position *)
(* [key, leaf] after a call made at position it of a tree db.  The position  *)
(* NoWhere is the cleared one.  A leaf that does not exist is an error, which *)
(* every caller below answers by clearing the position.                      *)
(***************************************************************************)
EXTENDS BTree

NoWhere == [key |-> NoKey, leaf |-> 0]
Position(leaf, key) == [key |-> key, leaf |-> leaf]

\* The first (last) record of the first leaf that has one, from a leaf on.
RECURSIVE SetPositionFirst(_, _)
SetPositionFirst(db, id) ==
  IF id \notin DOMAIN db.leaf THEN NoWhere
  ELSE IF Keys(db, id) # {} THEN Position(id, Min(Keys(db, id)))
  ELSE SetPositionFirst(db, db.leaf[id].next)

RECURSIVE SetPositionLast(_, _)
SetPositionLast(db, id) ==
  IF id \notin DOMAIN db.leaf THEN NoWhere
  ELSE IF Keys(db, id) # {} THEN Position(id, Max(Keys(db, id)))
  ELSE SetPositionLast(db, db.leaf[id].prev)

\* The leaf an iterator looks into: the one it remembers or the key's.
LeafOf(db, it) == IF it.leaf > 0 THEN it.leaf ELSE SearchTree(db, it.key)

\* A position found in the leaf keeps leaf_id_ as it was, even 0.
NextImpl(db, it, id) ==
  LET above == {k \in Keys(db, id) : k > it.key}
  IN IF above # {} THEN Position(it.leaf, Min(above)) ELSE SetPositionFirst(db, db.leaf[id].next)

\* The record before the lower bound of the key, if the leaf has a lower bound
\* that is not its first record; otherwise the last record before the leaf.
PreviousImpl(db, it, id) ==
  LET below == {k \in Keys(db, id) : k < it.key}
  IN IF below # {} /\ Keys(db, id) # below
     THEN Position(it.leaf, Max(below)) ELSE SetPositionLast(db, db.leaf[id].prev)

SyncPosition(db, it, id) ==
  LET from == {k \in Keys(db, id) : k >= it.key}
  IN IF from # {} THEN Position(id, Min(from)) ELSE SetPositionFirst(db, db.leaf[id].next)

NextIt(db, it) == NextImpl(db, it, LeafOf(db, it))
PreviousIt(db, it) == PreviousImpl(db, it, LeafOf(db, it))
SyncIt(db, it) == SyncPosition(db, it, LeafOf(db, it))

\* JumpUpper and JumpLower walk from the synchronized position until a record
\* on the right side of the key; the walk starts from the key each time.
RECURSIVE WalkUp(_, _, _, _)
WalkUp(db, at, key, inclusive) ==
  IF at = NoWhere \/ at.key > key \/ (inclusive /\ at.key = key) THEN at
  ELSE WalkUp(db, NextIt(db, Position(at.leaf, key)), key, inclusive)

JumpUpper(db, key, inclusive) == WalkUp(db, SyncIt(db, Position(0, key)), key, inclusive)

RECURSIVE WalkDown(_, _, _, _)
WalkDown(db, at, key, inclusive) ==
  IF at = NoWhere \/ at.key < key \/ (inclusive /\ at.key = key) THEN at
  ELSE WalkDown(db, PreviousIt(db, Position(at.leaf, key)), key, inclusive)

JumpLower(db, key, inclusive) ==
  LET at == SyncIt(db, Position(0, key))
  IN WalkDown(db, IF at = NoWhere THEN SetPositionLast(db, db.last) ELSE at, key, inclusive)
=============================================================================

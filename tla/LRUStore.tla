-------------------------------- MODULE LRUStore -------------------------------
(***************************************************************************)
(* What a CacheDBM promises: for each slot, a list of records in the order of  *)
(* their last use.  A call on one key, or on several at once, is atomic; a     *)
(* record that nobody removes leaves from the front when another one comes in, *)
(* or when the capacity is changed.  A saved database comes back in the same   *)
(* order.                                                                      *)
(***************************************************************************)
EXTENDS Integers, Sequences, SequencesExt

CONSTANTS Keys, Values, Slots, SlotOf(_)

VARIABLES entries, \* the records of each slot, the least recently used first
          saved,   \* the records in the file
          room     \* the number of records a slot has room for

vars == <<entries, saved, room>>

Record == [key : Keys, value : Values]

Empty == [s \in Slots |-> <<>>]

KeysOf(e) == {e[i].key : i \in DOMAIN e}
Without(e, k) == SelectSeq(e, LAMBDA r : r.key # k)
Part(e, s) == SelectSeq(e, LAMBDA r : SlotOf(r.key) = s)

\* A store with some records, no two with one key, and nothing saved.
Init ==
  /\ DOMAIN entries = Slots /\ saved = <<>> /\ room \in Nat \ {0}
  /\ \A s \in Slots :
       /\ Part(entries[s], s) = entries[s]
       /\ Len(entries[s]) <= room /\ \A k \in KeysOf(entries[s]) :
                                        Len(Without(entries[s], k)) = Len(entries[s]) - 1

\* The possible lists after a call on key k: its record is used, changed or
\* removed; or a new one enters, and the first of the list may have to leave.
After(e, k) ==
  IF k \in KeysOf(e)
  THEN {Without(e, k)} \cup
       {Append(Without(e, k), r) : r \in {[key |-> k, value |-> v] : v \in Values}}
  ELSE {e} \cup
       UNION {LET new == Append(e, [key |-> k, value |-> v])
              IN {Tail(new)} \cup IF Len(new) > room THEN {} ELSE {new} : v \in Values}

RECURSIVE AfterAll(_, _)
AfterAll(es, ks) ==
  IF ks = <<>> THEN es ELSE AfterAll(UNION {After(e, Head(ks)) : e \in es}, Tail(ks))

\* A call on one key or two changes the slots of those keys.
Access ==
  /\ DOMAIN entries' = Slots
  /\ \E ks \in SeqOf({k \in Keys : entries'[SlotOf(k)] # entries[SlotOf(k)]}, 2) : \A s \in Slots :
       entries'[s] \in AfterAll({entries[s]}, SelectSeq(ks, LAMBDA k : SlotOf(k) = s))
  /\ UNCHANGED <<saved, room>>

Clear == entries' = Empty /\ UNCHANGED <<saved, room>>

\* A new capacity: some records stay, in their order, as many as fit.  Which ones
\* is left open.
Resize ==
  /\ room' \in Nat \ {0}
  /\ \A s \in Slots :
       /\ entries'[s] = SelectSeq(entries[s], LAMBDA r : r.key \in KeysOf(entries'[s]))
       /\ Len(entries'[s]) <= room'
  /\ DOMAIN entries' = Slots
  /\ UNCHANGED saved

Save ==
  /\ \A s \in Slots : Part(saved', s) = entries[s]
  /\ UNCHANGED room
  /\ entries' \in {entries, Empty}

\* What the file holds enters the database, each slot in the saved order.
Load ==
  /\ DOMAIN entries' = Slots
  /\ \A s \in Slots :
       IF entries[s] = <<>> THEN IsSuffix(entries'[s], Part(saved, s))
       ELSE \A i \in DOMAIN entries'[s] :
              entries'[s][i] \in Range(saved) \cup Range(entries[s])
  /\ UNCHANGED <<saved, room>>

\* A crash loses what is in memory; one while the file is written may leave any
\* part of the records that were being written.
Crash ==
  /\ entries' = Empty
  /\ \/ saved' = saved
     \/ \A s \in Slots : IsPrefix(Part(saved', s), entries[s])
  /\ room' \in Nat \ {0}

Next == Access \/ Clear \/ Resize \/ Save \/ Load \/ Crash

Spec == Init /\ [][Next]_vars
=============================================================================

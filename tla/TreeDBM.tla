-------------------------------- MODULE TreeDBM --------------------------------
(***************************************************************************)
(* TreeDBM (tkrzw_dbm_tree.cc): writers that may leave nodes to reorganize,  *)
(* an iterator whose leaf is moved under it, page saves, Synchronize, Close, *)
(* crash in the appending mode with RESTORE_SYNC, and Open.                  *)
(*                                                                           *)
(* A writer first looks at reorg_ids_ and, if it is not empty, takes the     *)
(* exclusive lock and reorganizes; only then it takes the shared lock and    *)
(* processes its record, under the leaf's own lock.  Another writer may have *)
(* registered a leaf in between, so a record can be processed while leaves   *)
(* wait to be reorganized: ready counts the writers past the look.           *)
(***************************************************************************)
EXTENDS TreeIterator

CONSTANTS
  Key, Size,  \* the keys, and the serialized sizes of a record
  Limits      \* the bounds of a behaviour: operations of each kind, how many
              \* writers run at a time, the greatest key they use, and the
              \* number of long records that are there before

VARIABLES
  db,      \* the tree
  reorg,   \* reorg_ids_
  ready,   \* the number of writers past the check of reorg_ids_
  up,      \* "open", "closed" or "crashed"
  synced,  \* the leaf pages a crash leaves
  kv,      \* ghost: the records as the calls made define them
  saved,   \* ghost: kv at the last synchronization
  left     \* how many operations of each kind the behaviour may still do

vars == <<db, reorg, ready, up, synced, kv, saved, left>>
disk == <<synced, saved>>

Changed(map, k, v) == IF v = REMOVE THEN Without(map, k) ELSE With(map, At(k, v))

Spend(what) == left[what] > 0 /\ left' = [left EXCEPT ![what] = @ - 1]

\* A tree that was filled in the order of the keys, and saved.
Filled(recs) ==
  LET st == LoadRecords([db |-> NewTree, reorg |-> {}], recs)
  IN Flush(ReorganizeTree(st.db, st.reorg).db)

Asked == {key \in Key : key <= left["keys"]}

Init ==
  /\ left \in Limits
  /\ kv = [key \in {k \in Key : k <= left["fill"]} |-> Max(Size)] /\ saved = kv
  /\ db = Filled(kv)
  /\ reorg = {} /\ ready = 0 /\ up = "open"
  /\ synced = db.file.leaf

-----------------------------------------------------------------------------
(* Writers.                                                                  *)

\* A writer finds reorg_ids_ empty, or it reorganizes the tree.
Look ==
  /\ up = "open" /\ ready < left["writers"] /\ left["update"] > 0
  /\ \/ reorg = {} /\ UNCHANGED <<db, reorg>>
     \/ reorg # {} /\ db' = ReorganizeTree(db, reorg).db
                   /\ reorg' = ReorganizeTree(db, reorg).reorg
  /\ ready' = IF db'.bad THEN ready ELSE ready + 1
  /\ UNCHANGED <<up, disk, kv, left>>

\* The tree and reorg_ids_ after some records have been processed.
Become(st) == db' = st.db /\ reorg' = st.reorg
Now == [db |-> db, reorg |-> reorg]

\* What every writer does after the check.
Write ==
  /\ up = "open" /\ ready > 0 /\ Spend("update")
  /\ ready' = ready - 1
  /\ UNCHANGED <<up, disk>>

Process(key, v) ==
  /\ Write
  /\ Become(ProcessOne(Now, SearchTree(db, key), key, v))
  /\ kv' = Changed(kv, key, v)

\* The leaves of all keys are found before the first record is processed, and
\* locked all together.
ProcessMulti(key1, v1, key2, v2) ==
  /\ left["many"] > 0 /\ Write
  /\ Become(ProcessOne(ProcessOne(Now, SearchTree(db, key1), key1, v1),
                       SearchTree(db, key2), key2, v2))
  /\ kv' = Changed(Changed(kv, key1, v1), key2, v2)

\* A record processor that gives every record the same size or removes all.
ProcessEach(v) ==
  /\ left["many"] > 0 /\ Write
  /\ Become(ProcessLeaves(Now, db.first, v))
  /\ kv' = IF v = REMOVE THEN NoRecords ELSE [k \in DOMAIN kv |-> v]

\* The iterator's Process: the record at the position or the next one.
ProcessAtIterator(v) ==
  /\ db.it.key # NoKey /\ Write
  /\ LET at == SyncIt(db, db.it)
         moved == [db |-> [db EXCEPT !.it = at], reorg |-> reorg]
     IN IF at = NoWhere THEN Become(moved) /\ UNCHANGED kv
        ELSE Become(ProcessOne(moved, at.leaf, at.key, v)) /\ kv' = Changed(kv, at.key, v)

\* Clear forgets the registered leaves and all pages, in the file too.
Clear ==
  /\ up = "open" /\ Spend("clear")
  /\ db' = NewTree /\ reorg' = {} /\ synced' = NoRecords
  /\ kv' = NoRecords /\ saved' = NoRecords
  /\ UNCHANGED <<ready, up>>

-----------------------------------------------------------------------------
(* The iterator.                                                             *)

\* Moves are allowed or not, and not counted: the positions are few.
MoveTo(position) ==
  /\ up = "open" /\ left["iter"] > 0
  /\ db' = [db EXCEPT !.it = position]
  /\ UNCHANGED <<reorg, ready, up, disk, kv, left>>

ItFirst == MoveTo(SetPositionFirst(db, db.first))
ItLast == left["end"] > 0 /\ MoveTo(SetPositionLast(db, db.last))
ItJump(key) == MoveTo(Position(0, key))
ItJumpUpper(key, inclusive) == MoveTo(JumpUpper(db, key, inclusive))
ItJumpLower(key, inclusive) == left["end"] > 0 /\ MoveTo(JumpLower(db, key, inclusive))
ItNext == db.it.key # NoKey /\ MoveTo(NextIt(db, db.it))
ItPrevious == db.it.key # NoKey /\ MoveTo(PreviousIt(db, db.it))

-----------------------------------------------------------------------------
(* Pages, Synchronize, Close, crash and Open.                                *)

\* AdjustCaches takes a dirty node out of the cache: its page is saved.
Evict(id) ==
  /\ up = "open" /\ id \in db.dirty /\ Spend("evict")
  /\ db' = IF id \in DOMAIN db.leaf THEN SaveLeafNode(db, id) ELSE SaveInnerNode(db, id)
  /\ UNCHANGED <<reorg, ready, up, disk, kv>>

Synchronize ==
  /\ up = "open" /\ Spend("sync")
  /\ db' = Flush(ReorganizeTree(db, reorg).db)
  /\ reorg' = ReorganizeTree(db, reorg).reorg
  /\ synced' = db'.file.leaf /\ saved' = kv
  /\ UNCHANGED <<ready, up, kv>>

\* The writers past the check find the database closed.
Close ==
  /\ up = "open" /\ Spend("reopen")
  /\ db' = Flush(ReorganizeTree([db EXCEPT !.it = NoWhere], reorg).db)
  /\ reorg' = {} /\ ready' = 0 /\ up' = "closed"
  /\ synced' = db'.file.leaf /\ saved' = kv
  /\ UNCHANGED kv

\* In the appending mode the file has all the pages of the last
\* synchronization, and restoring with RESTORE_SYNC reads no others.
Crash ==
  /\ up = "open" /\ Spend("crash")
  /\ reorg' = {} /\ ready' = 0 /\ up' = "crashed"
  /\ kv' = saved
  /\ UNCHANGED <<db, disk>>

Open ==
  /\ \/ up = "closed" /\ db' = LoadMetadata(db)
     \/ up = "crashed" /\ \E order \in SetToSeqs(DOMAIN synced) :
                            db' = LoadMetadata(RestoreDatabase(synced, order))
  /\ up' = "open" /\ synced' = db'.file.leaf
  /\ UNCHANGED <<reorg, ready, kv, saved, left>>

Finished == left["update"] = 0 /\ UNCHANGED vars

Next ==
  \/ Look
  \/ \E key \in Asked, v \in Size \cup {REMOVE} : Process(key, v)
  \/ \E key1, key2 \in Asked, v1, v2 \in Size \cup {REMOVE} : ProcessMulti(key1, v1, key2, v2)
  \/ \E v \in Size \cup {REMOVE} : ProcessEach(v)
  \/ \E v \in Size \cup {REMOVE} : ProcessAtIterator(v)
  \/ Clear
  \/ ItFirst \/ ItLast \/ ItNext \/ ItPrevious
  \/ \E key \in Asked : ItJump(key)
  \/ \E key \in Asked, inclusive \in BOOLEAN : ItJumpUpper(key, inclusive)
  \/ \E key \in Asked, inclusive \in BOOLEAN : ItJumpLower(key, inclusive)
  \/ \E id \in db.dirty : Evict(id)
  \/ Synchronize \/ Close \/ Crash \/ Open
  \/ Finished

Spec == Init /\ [][Next]_vars

-----------------------------------------------------------------------------
(* Properties                                                                *)

Leaves == DOMAIN db.leaf
Inners == DOMAIN db.inner

\* The state has its type; every link, the root and the first leaf name nodes
\* that exist, and so does the leaf an iterator remembers.
TypeOK ==
  /\ ready \in 0..left["writers"] /\ up \in {"open", "closed", "crashed"}
  /\ \A id \in Leaves : Keys(db, id) \subseteq Key
  /\ \A id \in Inners : \A i \in DOMAIN Children(db.inner[id]) :
        Children(db.inner[id])[i] \in Leaves \cup Inners
  /\ db.root \in Leaves \cup Inners /\ db.first \in Leaves
  /\ db.it.leaf \in Leaves \cup {0}
  /\ db.dirty \subseteq Leaves \cup Inners

\* The leaves under a node, in order, and how deep they lie.
RECURSIVE LeavesUnder(_)
LeavesUnder(id) ==
  IF id \in Leaves THEN <<id>> ELSE FlattenSeq([i \in DOMAIN Children(db.inner[id]) |->
                                                  LeavesUnder(Children(db.inner[id])[i])])

\* The leaves met along the next links (ProcessEach).
RECURSIVE Chain(_, _)
Chain(id, n) == IF id = 0 \/ n = 0 THEN <<>> ELSE <<id>> \o Chain(db.leaf[id].next, n - 1)

\* Dividing and merging keep the chain of leaves equal to the leaves of the
\* tree from left to right, in both directions: a full traversal (ProcessEach,
\* the iterator) and a search see the same leaves, each once.
ChainIsTheTree ==
  LET chain == Chain(db.first, Cardinality(Leaves) + 1)
  IN /\ chain = LeavesUnder(db.root)
     /\ Range(chain) = Leaves
     /\ \A i \in DOMAIN chain :
          db.leaf[chain[i]].prev = IF i = 1 THEN 0 ELSE chain[i - 1]

\* DivideNodes and MergeNodes keep all leaves tree_level_ below the root, and no
\* inner node is left without a link, which could never be merged.  MergeNodes
\* joins inner nodes whatever their number of links, so max_branches_ is no bound.
TreeIsBalanced ==
  /\ \A key \in Key : Len(PathFrom(db, key, db.root)) = db.level
  /\ \A id \in Inners : db.inner[id].links # <<>>

\* page_size, kept up to date by differences, is what SaveLeafNode will write
\* into a buffer of that many bytes; num_records_ is the number of records.
SizesAreExact ==
  /\ \A id \in Leaves : db.leaf[id].size = PageHeader + SumOf(db.leaf[id].recs)
  /\ db.num = MapThenSumSet(LAMBDA id : Cardinality(Keys(db, id)), Leaves)

\* A node that is not marked dirty has its contents in the file, and the file
\* has no page of a node that is gone: what is saved later than its change, or
\* never, would come back as it was.
CleanPagesAreSaved ==
  /\ \A id \in Leaves \ db.dirty : id \in DOMAIN db.file.leaf /\ db.file.leaf[id] = db.leaf[id]
  /\ \A id \in Inners \ db.dirty : id \in DOMAIN db.file.inner /\ db.file.inner[id] = db.inner[id]
  /\ DOMAIN db.file.leaf \subseteq Leaves /\ DOMAIN db.file.inner \subseteq Inners

\* ReorganizeTree returns no error: a leaf registered for it still exists and
\* is still reached by the key it was registered under, whatever was divided
\* and merged since, and a leaf that has been merged away is not tried again.
ReorganizationSucceeds == ~db.bad

\* The tree is whole after every record, although leaves wait to be divided or
\* merged: chain and tree agree, it is balanced, sizes and Count are exact, and
\* no reorganization fails (DivideNodes, MergeNodes, ReorganizeTree).
TreeIsSound ==
  TypeOK /\ ChainIsTheTree /\ TreeIsBalanced /\ SizesAreExact /\ ReorganizationSucceeds

\* SearchTree finds every record that was stored and not removed, and no other,
\* while leaves are divided, merged and still waiting for it; after a crash it
\* finds the records of the last synchronization.
SearchFindsContent ==
  up = "open" =>
    \A key \in Key :
      LET recs == db.leaf[SearchTree(db, key)].recs
      IN IF key \in DOMAIN kv THEN key \in DOMAIN recs /\ recs[key] = kv[key]
                              ELSE key \notin DOMAIN recs

Least(keys) == IF keys = {} THEN NoKey ELSE Min(keys)
Greatest(keys) == IF keys = {} THEN NoKey ELSE Max(keys)

\* From wherever an iterator stands, with the leaf it remembers divided, merged
\* or emptied since, Next goes to the next record, Process finds the record at
\* its key or the next one, and from a record Previous goes to the one before.
IteratorKeepsItsPlace ==
  up = "open" /\ db.it.key # NoKey =>
    /\ NextIt(db, db.it).key = Least({k \in DOMAIN kv : k > db.it.key})
    /\ SyncIt(db, db.it).key = Least({k \in DOMAIN kv : k >= db.it.key})
    /\ db.it.key \in DOMAIN kv =>
         PreviousIt(db, db.it).key = Greatest({k \in DOMAIN kv : k < db.it.key})

\* JumpUpper and JumpLower reach the nearest record on the asked side; JumpLower
\* does so in behaviours that allow moves from last_id_, which are those that do
\* not open a database again: LoadMetadata takes last_id_ from the place of
\* first_id_.
JumpsAreExact ==
  up = "open" => \A key \in Key, inclusive \in BOOLEAN :
    /\ JumpUpper(db, key, inclusive).key =
         Least({k \in DOMAIN kv : k > key \/ (inclusive /\ k = key)})
    /\ left["end"] > 0 =>
         JumpLower(db, key, inclusive).key =
           Greatest({k \in DOMAIN kv : k < key \/ (inclusive /\ k = key)})

\* Iterators find the neighbouring records whatever happened to their leaves.
IteratorsAreExact == IteratorKeepsItsPlace /\ JumpsAreExact
=============================================================================

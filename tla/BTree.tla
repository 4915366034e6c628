--------------------------------- MODULE BTree ---------------------------------
(***************************************************************************)
(* The B+ tree of TreeDBM (tkrzw_dbm_tree.cc) as operators on its state, a   *)
(* record db of                                                              *)
(*   leaf    the leaf nodes: previous and next leaf, the records as a        *)
(*           function from keys to serialized sizes, page_size               *)
(*   inner   the inner nodes: heir_id and the links in order                 *)
(*   root, first, last, level   root_id_, first_id_, last_id_, tree_level_   *)
(*   dirty   the nodes whose page is not saved                               *)
(*   file    the pages in the underlying HashDBM                             *)
(*   it      the position of an iterator: key (or NoKey) and leaf_id_        *)
(*   bad     ReorganizeTree has returned an error                            *)
(* A record's value is told apart by its size only.  Node ids are only       *)
(* compared, so a new node takes the id after the largest one in use instead *)
(* of one that has never been used.                                          *)
(***************************************************************************)
EXTENDS Integers, Sequences, FiniteSets, FiniteSetsExt, SequencesExt

CONSTANTS
  MaxPageSize,   \* max_page_size_
  MaxBranches,   \* max_branches_
  PageHeader     \* the bytes of a leaf page that are not records

NoKey == 0
INNER_NODE_ID_BASE == 100
REMOVE == 0      \* what a record processor returns to remove the record

NoRecords == [k \in {} |-> 0]
NewLeaf(prev, next) == [prev |-> prev, next |-> next, recs |-> NoRecords, size |-> PageHeader]
NewInner(heir, links) == [heir |-> heir, links |-> links]

Keys(db, id) == DOMAIN db.leaf[id].recs
NewLeafId(db) == Max({0} \cup DOMAIN db.leaf \cup DOMAIN db.file.leaf) + 1
NewInnerId(db) == Max({INNER_NODE_ID_BASE - 1} \cup DOMAIN db.inner \cup DOMAIN db.file.inner) + 1

\* f with new or changed entries g, and f without one.
With(f, g) == [x \in DOMAIN f \cup DOMAIN g |-> IF x \in DOMAIN g THEN g[x] ELSE f[x]]
Without(f, x) == [y \in DOMAIN f \ {x} |-> f[y]]
At(x, v) == [y \in {x} |-> v]

PutLeaf(db, id, node) == [db EXCEPT !.leaf = With(@, At(id, node)), !.dirty = @ \cup {id}]
PutInner(db, id, node) == [db EXCEPT !.inner = With(@, At(id, node)), !.dirty = @ \cup {id}]

\* Mutant: the page of a removed leaf stays in the file.
RemoveLeafNode_keepsPage(db, id) ==
  [db EXCEPT !.leaf = Without(@, id), !.dirty = @ \ {id}]

\* A removed node leaves the file at once, if it was there, and is not saved.
RemoveLeafNode(db, id) ==
  [db EXCEPT !.leaf = Without(@, id), !.dirty = @ \ {id}, !.file.leaf = Without(@, id)]
RemoveInnerNode(db, id) ==
  [db EXCEPT !.inner = Without(@, id), !.dirty = @ \ {id}, !.file.inner = Without(@, id)]

-----------------------------------------------------------------------------
(* The way from the root to the leaf of a key.                               *)

Children(node) == <<node.heir>> \o [i \in DOMAIN node.links |-> node.links[i].child]

\* Mutant: a key equal to a link's goes to the child before it (std::lower_bound).
Child_strict(node, key) ==
  Children(node)[Cardinality({i \in DOMAIN node.links : node.links[i].key < key}) + 1]

\* The child after the last link whose key is not greater (std::upper_bound).
Child(node, key) ==
  Children(node)[Cardinality({i \in DOMAIN node.links : node.links[i].key <= key}) + 1]

RECURSIVE PathFrom(_, _, _)
PathFrom(db, key, id) ==
  IF id < INNER_NODE_ID_BASE THEN <<id>>
  ELSE <<id>> \o PathFrom(db, key, Child(db.inner[id], key))

SearchTree(db, key) == Last(PathFrom(db, key, db.root))

-----------------------------------------------------------------------------
(* Links of inner nodes.                                                     *)

\* The position of the link to a child (0 if the child is the heir).
LinkTo(node, child) == SelectInSeq(node.links, LAMBDA l : l.child = child)

AddLinkToInnerNode(node, child, key) ==
  LET before == Cardinality({i \in DOMAIN node.links : node.links[i].key <= key})
  IN [node EXCEPT !.links = InsertAt(@, before + 1, [key |-> key, child |-> child])]

JoinPrevLinkInInnerNode(node, child) ==
  [node EXCEPT !.links = SelectSeq(@, LAMBDA l : l.child # child)]

JoinNextLinkInInnerNode(node, child, next) ==
  IF node.heir = child
  THEN NewInner(next, Tail(node.links))
  ELSE LET i == LinkTo(node, child)
       IN [node EXCEPT !.links = RemoveAt([@ EXCEPT ![i].child = next], i + 1)]

-----------------------------------------------------------------------------
(* DivideNodes                                                               *)

CheckLeafNodeToDivide(db, id) ==
  db.leaf[id].size > MaxPageSize /\ Cardinality(Keys(db, id)) > 1

\* Links a new child into the parents, from the last of hist up, dividing
\* those that overflow; a new root when the old one is divided.
RECURSIVE LinkChild(_, _, _, _, _)
LinkChild(db, hist, heir, child, key) ==
  IF hist = <<>>
  THEN [PutInner(db, NewInnerId(db), NewInner(heir, <<[key |-> key, child |-> child]>>))
          EXCEPT !.root = NewInnerId(db), !.level = @ + 1]
  ELSE LET id == Last(hist)
           node == AddLinkToInnerNode(db.inner[id], child, key)
           half == Len(node.links) \div 2
           mid == node.links[half + 1]
           new == NewInner(mid.child, SubSeq(node.links, half + 2, Len(node.links)))
           old == [node EXCEPT !.links = SubSeq(@, 1, half)]
       IN IF Len(node.links) <= MaxBranches THEN PutInner(db, id, node)
          ELSE LinkChild(PutInner(PutInner(db, id, old), NewInnerId(db), new),
                         Front(hist), id, NewInnerId(db), mid.key)

SumOf(recs) == MapThenSumSet(LAMBDA k : recs[k], DOMAIN recs)
Only(recs, keys) == [k \in keys |-> recs[k]]

\* Mutant: the next leaf does not learn of its new predecessor.
SplitLeaf_oneWay(db, id, new, upper, moved) ==
  LET node == db.leaf[id]
      left == [node EXCEPT !.next = new, !.recs = Only(@, DOMAIN @ \ upper),
                           !.size = @ - moved]
      right == [prev |-> id, next |-> node.next, recs |-> Only(node.recs, upper),
                size |-> PageHeader + moved]
  IN PutLeaf(PutLeaf(db, id, left), new, right)

\* The records from the middle on move to a new leaf, which is put into the
\* chain; an iterator on one of them follows.
SplitLeaf(db, id, new, upper, moved) ==
  LET node == db.leaf[id]
      left == [node EXCEPT !.next = new, !.recs = Only(@, DOMAIN @ \ upper),
                           !.size = @ - moved]
      right == [prev |-> id, next |-> node.next, recs |-> Only(node.recs, upper),
                size |-> PageHeader + moved]
      db1 == IF node.next = 0 THEN db
             ELSE PutLeaf(db, node.next, [db.leaf[node.next] EXCEPT !.prev = new])
  IN PutLeaf(PutLeaf(db1, id, left), new, right)

\* Mutant: iterators stay with the divided leaf.
DivideNodes_leavesIterator(db, id, hist) ==
  LET keys == Keys(db, id)
      upper == {k \in keys : Cardinality({j \in keys : j < k}) >= Cardinality(keys) \div 2}
      new == NewLeafId(db)
      moved == SumOf(Only(db.leaf[id].recs, upper))
      split == [SplitLeaf(db, id, new, upper, moved) EXCEPT !.last = IF @ = id THEN new ELSE @]
  IN LinkChild(split, hist, id, new, Min(upper))

DivideNodes(db, id, hist) ==
  LET keys == Keys(db, id)
      upper == {k \in keys : Cardinality({j \in keys : j < k}) >= Cardinality(keys) \div 2}
      new == NewLeafId(db)
      moved == SumOf(Only(db.leaf[id].recs, upper))
      split == [SplitLeaf(db, id, new, upper, moved) EXCEPT
                  !.last = IF @ = id THEN new ELSE @,
                  !.it.leaf = IF @ = id /\ db.it.key >= Min(upper) THEN new ELSE @]
  IN LinkChild(split, hist, id, new, Min(upper))

-----------------------------------------------------------------------------
(* MergeNodes                                                                *)

\* "Less than half a page", integer division of the code included.
CheckLeafNodeToMerge(db, id) ==
  db.leaf[id].size < MaxPageSize \div 2 /\ id # db.root

\* The siblings of a child under one parent, 0 where there is none.
PrevSibling(node, child) == LET i == LinkTo(node, child) IN IF i = 0 THEN 0 ELSE Children(node)[i]
NextSibling(node, child) ==
  LET i == LinkTo(node, child) IN IF i = Len(node.links) THEN 0 ELSE node.links[i + 1].child

\* The smaller sibling takes the node; the previous one when they are equal.
TakenByPrev(prev, next, Weight(_)) == prev # 0 /\ (next = 0 \/ Weight(prev) <= Weight(next))

MergeIntoPrev(db, id, prev, parent) ==
  LET node == db.leaf[id]
      joined == [db.leaf[prev] EXCEPT !.recs = With(@, node.recs), !.next = node.next,
                                      !.size = @ + node.size - PageHeader]
      db1 == PutLeaf(db, prev, joined)
      db2 == IF node.next = 0 THEN db1
             ELSE PutLeaf(db1, node.next, [db1.leaf[node.next] EXCEPT !.prev = prev])
      db3 == PutInner(db2, parent, JoinPrevLinkInInnerNode(db2.inner[parent], id))
  IN RemoveLeafNode([db3 EXCEPT !.last = IF @ = id THEN prev ELSE @,
                                !.it.leaf = IF @ = id THEN prev ELSE @], id)

\* last_id_ is left alone: the last leaf has no next sibling.
MergeIntoNext(db, id, next, parent) ==
  LET node == db.leaf[id]
      joined == [db.leaf[next] EXCEPT !.recs = With(@, node.recs), !.prev = node.prev,
                                      !.size = @ + node.size - PageHeader]
      db1 == PutLeaf(db, next, joined)
      db2 == IF node.prev = 0 THEN db1
             ELSE PutLeaf(db1, node.prev, [db1.leaf[node.prev] EXCEPT !.next = next])
      db3 == PutInner(db2, parent, JoinNextLinkInInnerNode(db2.inner[parent], id, next))
  IN RemoveLeafNode([db3 EXCEPT !.first = IF @ = id THEN next ELSE @,
                                !.it.leaf = IF @ = id THEN next ELSE @], id)

MergeLeaf(db, id, parent, prev, next) ==
  IF TakenByPrev(prev, next, LAMBDA n : db.leaf[n].size) THEN MergeIntoPrev(db, id, prev, parent)
  ELSE IF next # 0 THEN MergeIntoNext(db, id, next, parent)
  ELSE db

\* All links of an inner node go to the end of the node before it, its heir
\* under the key that led to it; the parent forgets it.
JoinInner(db, to, from, parent) ==
  LET key == db.inner[parent].links[LinkTo(db.inner[parent], from)].key
      joined == [db.inner[to] EXCEPT
                   !.links = @ \o <<[key |-> key, child |-> db.inner[from].heir]>>
                               \o db.inner[from].links]
      db1 == PutInner(db, to, joined)
      db2 == PutInner(db1, parent, JoinPrevLinkInInnerNode(db1.inner[parent], from))
  IN RemoveInnerNode(db2, from)

\* Inner nodes with too few links are merged, from the last of hist up; a root
\* without a link gives way to its heir.
RECURSIVE MergeInner(_, _)
MergeInner(db, hist) ==
  LET id == Last(hist)
      parent == hist[Len(hist) - 1]
      prev == PrevSibling(db.inner[parent], id)
      next == NextSibling(db.inner[parent], id)
      merged == IF TakenByPrev(prev, next, LAMBDA n : Len(db.inner[n].links))
                THEN JoinInner(db, prev, id, parent)
                ELSE IF next # 0 THEN JoinInner(db, id, next, parent) ELSE db
  IN IF Len(db.inner[id].links) >= MaxBranches \div 2 THEN db
     ELSE IF Len(hist) > 1 THEN MergeInner(merged, Front(hist))
     ELSE IF db.inner[id].links = <<>>
     THEN RemoveInnerNode([db EXCEPT !.root = db.inner[id].heir, !.level = @ - 1], id)
     ELSE db

MergeNodes(db, id, hist) ==
  MergeInner(MergeLeaf(db, id, Last(hist), PrevSibling(db.inner[Last(hist)], id),
                       NextSibling(db.inner[Last(hist)], id)), hist)

-----------------------------------------------------------------------------
(* ReorganizeTree                                                            *)

\* AtomicSet::Pop of reorg_ids_: the least pair.
FirstReorg(reorg) ==
  CHOOSE e \in reorg : \A f \in reorg : e[1] < f[1] \/ (e[1] = f[1] /\ e[2] <= f[2])

\* One popped leaf.  A leaf that does not exist, or that TraceTree does not
\* reach with the key it was registered under, is an error.
ReorganizeLeaf(db, id, path) ==
  IF id \notin DOMAIN db.leaf THEN [db EXCEPT !.bad = TRUE]
  ELSE IF CheckLeafNodeToDivide(db, id)
  THEN IF Last(path) # id THEN [db EXCEPT !.bad = TRUE] ELSE DivideNodes(db, id, Front(path))
  ELSE IF CheckLeafNodeToMerge(db, id)
  THEN IF Last(path) # id THEN [db EXCEPT !.bad = TRUE] ELSE MergeNodes(db, id, Front(path))
  ELSE db

\* The loop; done are the leaves it has handled.
RECURSIVE Reorganize(_, _, _)
Reorganize(db, reorg, done) ==
  IF reorg = {} \/ db.bad THEN [db |-> db, reorg |-> reorg]
  ELSE LET e == FirstReorg(reorg)
       IN IF e[1] \in done THEN Reorganize(db, reorg \ {e}, done)
          ELSE Reorganize(ReorganizeLeaf(db, e[1], PathFrom(db, e[2], db.root)),
                          reorg \ {e}, done \cup {e[1]})

ReorganizeTree(db, reorg) == Reorganize(db, reorg, {})

-----------------------------------------------------------------------------
(* ProcessImpl: a record processor that returns size v (or REMOVE) for key,  *)
(* applied to the leaf it was searched in.                                   *)

ProcessImpl(db, id, key, v) ==
  LET node == db.leaf[id]
      old == IF key \in DOMAIN node.recs THEN node.recs[key] ELSE 0
  IN IF v = REMOVE
     THEN IF old = 0 THEN db
          ELSE [PutLeaf(db, id, [node EXCEPT !.recs = Without(@, key), !.size = @ - old])
                  EXCEPT !.num = @ - 1]
     ELSE [PutLeaf(db, id, [node EXCEPT !.recs = With(@, At(key, v)), !.size = @ + v - old])
             EXCEPT !.num = IF old = 0 THEN @ + 1 ELSE @]

\* What ProcessImpl inserts into reorg_ids_: the leaf and its first key, if the
\* leaf has grown and is to be divided or has shrunk and is to be merged.  When
\* the last record is removed, records.front() of the empty vector still is the
\* record about to be freed.
ToReorganize(before, after, id, key) ==
  LET old == before.leaf[id].size
      new == after.leaf[id].size
      front == Min(IF Keys(after, id) = {} THEN {key} ELSE Keys(after, id))
  IN IF \/ new > old /\ CheckLeafNodeToDivide(after, id)
        \/ new < old /\ CheckLeafNodeToMerge(after, id)
     THEN {<<id, front>>} ELSE {}

\* ProcessImpl on some keys of a leaf in order; st is a tree and its reorg_ids_.
ProcessOne(st, id, key, v) ==
  LET done == ProcessImpl(st.db, id, key, v)
  IN [db |-> done, reorg |-> st.reorg \cup ToReorganize(st.db, done, id, key)]

RECURSIVE ProcessKeys(_, _, _, _)
ProcessKeys(st, id, keys, v) ==
  IF keys = {} THEN st
  ELSE ProcessKeys(ProcessOne(st, id, Min(keys), v), id, keys \ {Min(keys)}, v)

\* The loop of ProcessEach over the leaves from id on.
RECURSIVE ProcessLeaves(_, _, _)
ProcessLeaves(st, id, v) ==
  IF id = 0 THEN st
  ELSE ProcessLeaves(ProcessKeys(st, id, Keys(st.db, id), v), st.db.leaf[id].next, v)

-----------------------------------------------------------------------------
(* Pages and metadata.                                                       *)

NewTree ==
  [leaf |-> At(1, NewLeaf(0, 0)), inner |-> [x \in {} |-> 0], root |-> 1, first |-> 1, last |-> 1,
   level |-> 1, num |-> 0, dirty |-> {1}, bad |-> FALSE, it |-> [key |-> NoKey, leaf |-> 0],
   file |-> [leaf |-> NoRecords, inner |-> NoRecords]]

SaveLeafNode(db, id) ==
  [db EXCEPT !.file.leaf = With(@, At(id, db.leaf[id])), !.dirty = @ \ {id}]
SaveInnerNode(db, id) ==
  [db EXCEPT !.file.inner = With(@, At(id, db.inner[id])), !.dirty = @ \ {id}]

\* FlushLeafCache and FlushInnerCache: every dirty node is saved.
Flush(db) ==
  [db EXCEPT !.file.leaf = With(@, Only(db.leaf, db.dirty \cap DOMAIN db.leaf)),
             !.file.inner = With(@, Only(db.inner, db.dirty \cap DOMAIN db.inner)),
             !.dirty = {}]

\* LoadMetadata after SaveMetadata: ParseMetadata takes last_id from the field
\* of first_id.  The nodes are loaded from the file.
LoadMetadata(db) ==
  [db EXCEPT !.last = db.first, !.leaf = db.file.leaf, !.inner = db.file.inner,
             !.it = [key |-> NoKey, leaf |-> 0]]

\* A leaf's records are set one after another where no record is yet, with
\* Process and so with ReorganizeTree before each; st is the pair of a tree and
\* its reorg_ids_.
SetNew(st, key, v) ==
  LET ready == ReorganizeTree(st.db, st.reorg)
      id == SearchTree(ready.db, key)
  IN IF key \in Keys(ready.db, id) THEN ready ELSE ProcessOne(ready, id, key, v)

RECURSIVE LoadRecords(_, _)
LoadRecords(st, recs) ==
  IF DOMAIN recs = {} THEN st
  ELSE LoadRecords(SetNew(st, Min(DOMAIN recs), recs[Min(DOMAIN recs)]),
                   Without(recs, Min(DOMAIN recs)))

\* RestoreDatabase: the leaf pages are read in the order given into a new tree,
\* which is then closed.
RECURSIVE Restore(_, _, _)
Restore(st, pages, order) ==
  IF order = <<>> THEN Flush(ReorganizeTree(st.db, st.reorg).db)
  ELSE Restore(LoadRecords(st, pages[Head(order)].recs), pages, Tail(order))

RestoreDatabase(pages, order) == Restore([db |-> Flush(NewTree), reorg |-> {}], pages, order)
=============================================================================

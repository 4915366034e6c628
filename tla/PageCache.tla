------------------------------- MODULE PageCache -------------------------------
(***************************************************************************)
(* The leaf cache of TreeDBM (tkrzw_dbm_tree.cc): the slots of leaf_slots_ and *)
(* the threads that load, modify, evict and flush their pages.               *)
(*                                                                           *)
(* Every thread runs under the shared lock of the database, so no tree is    *)
(* reorganized here.  A node in memory is an object with the version of its  *)
(* page, the number of modifications it has seen; the objects are counted    *)
(* references (std::shared_ptr): the cache's, those of the threads, and the  *)
(* evicting thread's.  The slot's mutex protects the cache and is held while *)
(* nodes are evicted or flushed, each node's own mutex its records.  Only a  *)
(* shared lock on a node is ever held across other steps, by SyncPosition.   *)
(***************************************************************************)
EXTENDS LinkedHashMap, TLC

CONSTANTS
  Thread, NPages,         \* threads, and the pages: 1..NPages
  NUM_PAGE_SLOTS, HotCapacity, WarmCapacity, Buckets,
  Scenes                  \* what the threads do: functions from Thread to records of a role
                          \* ("update", "flush", "walk" or "none"), a number of calls, the
                          \* pages they begin at and the next_id_ of the leaves a walk meets

VARIABLES
  file,    \* the version of each page in the HashDBM
  cache,   \* each slot's DoubleLRUCache; its values are objects
  slot,    \* the thread that holds each slot's mutex, or Nil
  obj,     \* the objects that are alive: [page, ver, dirty]
  th,      \* the threads
  count    \* ghost: the number of modifications of each page

vars == <<file, cache, slot, obj, th, count>>

Page == 1..NPages
Slot == 0..NUM_PAGE_SLOTS - 1
SlotOf(p) == p % NUM_PAGE_SLOTS
Without(f, x) == [y \in DOMAIN f \ {x} |-> f[y]]

Init ==
  \E scene \in Scenes :
    /\ file = [p \in Page |-> 0] /\ count = file
    /\ cache = [s \in Slot |-> [hot |-> EmptyMap(Buckets), warm |-> EmptyMap(Buckets)]]
    /\ slot = [s \in Slot |-> Nil] /\ obj = [o \in {} |-> 0]
    /\ th = [t \in Thread |-> [pc |-> "idle", role |-> scene[t].role, ops |-> scene[t].ops,
                               from |-> scene[t].from, ahead |-> scene[t].ahead,
                               s |-> 0, page |-> 1, held |-> Nil, made |-> Nil, lock |-> Nil,
                               deferred |-> <<>>]]

Do(t, now) == th' = [th EXCEPT ![t] = now]
Go(t, pc) == th' = [th EXCEPT ![t].pc = pc]

\* The references to an object that threads have, those of t's own work on the
\* cache left out.
HeldBy(o) == {t \in Thread : th[t].held = o}
Locked(o) == \E t \in Thread : th[t].lock = o
NewObject == CHOOSE o \in 1..Cardinality(DOMAIN obj) + 1 : o \notin DOMAIN obj

\* The object of a page in its cache, or Nil.
InCache(p) == CacheValue(cache[SlotOf(p)], p)

\* SaveLeafNode waits for the node's mutex; then the page is written if dirty.
CanSave(o) == ~Locked(o)
Saved(o) == IF obj[o].dirty THEN [file EXCEPT ![obj[o].page] = obj[o].ver] ELSE file

-----------------------------------------------------------------------------
(* LoadLeafNode                                                              *)

Begin(t) ==
  /\ th[t].pc = "idle" /\ th[t].ops > 0 /\ th[t].role \in {"update", "walk"}
  /\ \E p \in th[t].from :
       Do(t, [th[t] EXCEPT !.pc = "get", !.page = p, !.s = SlotOf(p), !.ops = @ - 1])
  /\ UNCHANGED <<file, cache, slot, obj, count>>

\* Under the slot's mutex.  SearchTree promotes, a step to the next leaf does
\* not.  The thread's reference to an earlier node is replaced.
Get(t) ==
  /\ th[t].pc = "get" /\ slot[th[t].s] = Nil
  /\ LET found == InCache(th[t].page)
     IN Do(t, [th[t] EXCEPT !.pc = IF found = Nil THEN "read" ELSE "have", !.held = found])
  /\ cache' = [cache EXCEPT ![th[t].s] = CacheGet(@, th[t].page, th[t].lock = Nil, HotCapacity)]
  /\ UNCHANGED <<file, slot, obj, count>>

\* Without any lock the page is read from the HashDBM.
Read(t) ==
  /\ th[t].pc = "read"
  /\ LET p == th[t].page
     IN /\ obj' = (NewObject :> [page |-> p, ver |-> file[p], dirty |-> FALSE]) @@ obj
        /\ Do(t, [th[t] EXCEPT !.pc = "add", !.made = NewObject])
  /\ UNCHANGED <<file, cache, slot, count>>

\* Mutant: the node just read replaces the one another thread has added.
Add_replaces(t) ==
  /\ th[t].pc = "add" /\ slot[th[t].s] = Nil
  /\ LET p == th[t].page
         c == cache[th[t].s]
     IN cache' = [cache EXCEPT ![th[t].s] =
                    CacheAdd([hot |-> Remove(c.hot, p), warm |-> Remove(c.warm, p)], p, th[t].made)]
  /\ Do(t, [th[t] EXCEPT !.pc = "have", !.held = th[t].made, !.made = Nil])
  /\ UNCHANGED <<file, slot, obj, count>>

\* AddToCache, under the slot's mutex: a node that has been added meanwhile is
\* taken instead of the one made, which is deleted.
Add(t) ==
  /\ th[t].pc = "add" /\ slot[th[t].s] = Nil
  /\ LET p == th[t].page
         found == InCache(p)
     IN /\ cache' = [cache EXCEPT ![th[t].s] = CacheAdd(@, p, th[t].made)]
        /\ obj' = IF found = Nil THEN obj ELSE Without(obj, th[t].made)
        /\ Do(t, [th[t] EXCEPT !.pc = "have", !.held = IF found = Nil THEN th[t].made ELSE found,
                              !.made = Nil])
  /\ UNCHANGED <<file, slot, count>>

-----------------------------------------------------------------------------
(* Process: the record is processed under the node's lock; then AdjustCaches *)
(* while the node is still referenced.                                       *)

Modify(t) ==
  /\ th[t].pc = "have" /\ th[t].role = "update" /\ ~Locked(th[t].held)
  /\ obj' = [obj EXCEPT ![th[t].held].ver = @ + 1, ![th[t].held].dirty = TRUE]
  /\ count' = [count EXCEPT ![th[t].page] = @ + 1]
  /\ Go(t, "adjust")
  /\ UNCHANGED <<file, cache, slot>>

\* One call in four adjusts a slot, each slot in its turn.
AdjustCaches(t) ==
  /\ th[t].pc = "adjust"
  /\ \/ Go(t, "release") /\ UNCHANGED slot
     \/ \E s \in Slot :
          /\ slot[s] = Nil /\ slot' = [slot EXCEPT ![s] = t]
          /\ Do(t, [th[t] EXCEPT !.pc = "evict", !.s = s])
  /\ UNCHANGED <<file, cache, obj, count>>

\* A node taken out of the cache is saved and destroyed, or put aside when a
\* thread still uses it.
TakeOut(t, o) ==
  /\ cache' = [cache EXCEPT ![th[t].s] = CacheRemoveLRU(@)]
  /\ \/ /\ HeldBy(o) # {}
        /\ Do(t, [th[t] EXCEPT !.deferred = Append(@, o)])
        /\ UNCHANGED <<file, obj>>
     \/ /\ HeldBy(o) = {} /\ CanSave(o)
        /\ file' = Saved(o) /\ obj' = Without(obj, o)
        /\ UNCHANGED th

\* Mutant: one node too many is let stay.
IsSaturated_late(c) == c.warm.num > WarmCapacity + 1

IsSaturated(c) == c.warm.num > WarmCapacity

Evict(t) ==
  /\ th[t].pc = "evict" /\ IsSaturated(cache[th[t].s])
  /\ TakeOut(t, InCache(LRU(cache[th[t].s])))
  /\ UNCHANGED <<slot, count>>

\* The nodes put aside go back, the last one first.
RECURSIVE GivenBack(_, _)
GivenBack(c, nodes) ==
  IF nodes = <<>> THEN c
  ELSE LET o == nodes[Len(nodes)]
       IN GivenBack(CacheGiveBack(c, obj[o].page, o), SubSeq(nodes, 1, Len(nodes) - 1))


GiveBack(t) ==
  /\ th[t].pc = "evict" /\ ~IsSaturated(cache[th[t].s])
  /\ cache' = [cache EXCEPT ![th[t].s] = GivenBack(@, th[t].deferred)]
  /\ slot' = [slot EXCEPT ![th[t].s] = Nil] /\ Do(t, [th[t] EXCEPT !.pc = "release", !.deferred = <<>>])
  /\ UNCHANGED <<file, obj, count>>

\* The last reference to a node would save and destroy it.
Release(t) ==
  /\ th[t].pc = "release"
  /\ LET o == th[t].held
         last == HeldBy(o) = {t} /\ InCache(obj[o].page) # o
                 /\ \A u \in Thread : \A i \in DOMAIN th[u].deferred : th[u].deferred[i] # o
     IN IF last THEN CanSave(o) /\ file' = Saved(o) /\ obj' = Without(obj, o)
        ELSE UNCHANGED <<file, obj>>
  /\ Do(t, [th[t] EXCEPT !.pc = "idle", !.held = Nil, !.page = 1, !.s = 0])
  /\ UNCHANGED <<cache, slot, count>>

-----------------------------------------------------------------------------
(* FlushLeafCache(false), from Rebuild.                                      *)

StartFlush(t) ==
  /\ th[t].pc = "idle" /\ th[t].ops > 0 /\ th[t].role = "flush"
  /\ \E s \in Slot :
       /\ slot[s] = Nil /\ slot' = [slot EXCEPT ![s] = t]
       /\ Do(t, [th[t] EXCEPT !.pc = "drain", !.s = s, !.ops = @ - 1])
  /\ UNCHANGED <<file, cache, obj, count>>

Drain(t) ==
  /\ th[t].pc = "drain" /\ CacheSize(cache[th[t].s]) > 0
  /\ TakeOut(t, InCache(LRU(cache[th[t].s])))
  /\ UNCHANGED <<slot, count>>

\* A node put aside is saved, and then looked at again: its user may have gone,
\* after one more modification.
SaveDeferred(t) ==
  /\ (th[t].pc = "drain" /\ CacheSize(cache[th[t].s]) = 0) \/ th[t].pc = "next"
  /\ IF th[t].deferred = <<>>
     THEN slot' = [slot EXCEPT ![th[t].s] = Nil] /\ Do(t, [th[t] EXCEPT !.pc = "idle", !.s = 0]) /\ UNCHANGED <<file, obj>>
     ELSE LET o == th[t].deferred[Len(th[t].deferred)]
          IN /\ CanSave(o) /\ file' = Saved(o) /\ obj' = [obj EXCEPT ![o].dirty = FALSE]
             /\ Go(t, "again") /\ UNCHANGED slot
  /\ UNCHANGED <<cache, count>>

\* Mutant: a node whose user has gone is forgotten without the destructor's save.
Again_forgets(t) ==
  /\ th[t].pc = "again"
  /\ LET o == th[t].deferred[Len(th[t].deferred)]
     IN IF HeldBy(o) # {}
        THEN cache' = [cache EXCEPT ![th[t].s] = CacheGiveBack(@, obj[o].page, o)] /\ UNCHANGED <<file, obj>>
        ELSE CanSave(o) /\ obj' = Without(obj, o) /\ UNCHANGED <<cache, file>>
  /\ Do(t, [th[t] EXCEPT !.pc = "next", !.deferred = SubSeq(@, 1, Len(@) - 1)])
  /\ UNCHANGED <<slot, count>>

Again(t) ==
  /\ th[t].pc = "again"
  /\ LET o == th[t].deferred[Len(th[t].deferred)]
     IN IF HeldBy(o) # {}
        THEN cache' = [cache EXCEPT ![th[t].s] = CacheGiveBack(@, obj[o].page, o)] /\ UNCHANGED <<file, obj>>
        ELSE CanSave(o) /\ file' = Saved(o) /\ obj' = Without(obj, o) /\ UNCHANGED cache
  /\ Do(t, [th[t] EXCEPT !.pc = "next", !.deferred = SubSeq(@, 1, Len(@) - 1)])
  /\ UNCHANGED <<slot, count>>

-----------------------------------------------------------------------------
(* SyncPosition: the first node's lock is kept while the next leaves are     *)
(* loaded until one has a record.                                            *)

\* The ID of the next leaf has nothing to do with that of this one: leaves are
\* numbered as divisions make them, so the two may be in one slot or not.
Further(t) == th[t].ahead # <<>>
NextLeaf(t) ==
  LET next_id == Head(th[t].ahead)
  IN [th[t] EXCEPT !.pc = "get", !.page = next_id, !.s = SlotOf(next_id), !.ahead = Tail(@)]

LockFirst(t) ==
  /\ th[t].pc = "have" /\ th[t].role = "walk" /\ th[t].lock = Nil
  /\ \/ Do(t, [th[t] EXCEPT !.pc = "unlock", !.lock = th[t].held])
     \/ Further(t) /\ Do(t, [NextLeaf(t) EXCEPT !.lock = th[t].held])
  /\ UNCHANGED <<file, cache, slot, obj, count>>

\* A later leaf has a record, or is empty and the next one is loaded.
LookFurther(t) ==
  /\ th[t].pc = "have" /\ th[t].role = "walk" /\ th[t].lock # Nil
  /\ \/ Go(t, "unlock")
     \/ Further(t) /\ Do(t, NextLeaf(t))
  /\ UNCHANGED <<file, cache, slot, obj, count>>

Unlock(t) ==
  /\ th[t].pc = "unlock"
  /\ Do(t, [th[t] EXCEPT !.pc = "release", !.lock = Nil])
  /\ UNCHANGED <<file, cache, slot, obj, count>>

Step(t) ==
  \/ Begin(t) \/ Get(t) \/ Read(t) \/ Add(t) \/ Modify(t)
  \/ AdjustCaches(t) \/ Evict(t) \/ GiveBack(t) \/ Release(t)
  \/ StartFlush(t) \/ Drain(t) \/ SaveDeferred(t) \/ Again(t)
  \/ LockFirst(t) \/ LookFurther(t) \/ Unlock(t)

Next == \E t \in Thread : Step(t)

Spec == Init /\ [][Next]_vars
FairSpec == Spec /\ \A t \in Thread : WF_vars(Step(t))

-----------------------------------------------------------------------------
(* Properties                                                                *)

\* The state has its type: the threads hold objects that are alive.
TypeOK ==
  /\ slot \in [Slot -> Thread \cup {Nil}]
  /\ \A t \in Thread : {th[t].held, th[t].made} \subseteq DOMAIN obj \cup {Nil}
  /\ \A o \in DOMAIN obj : obj[o].page \in Page

Cached(o) == InCache(obj[o].page) = o
PutAside(o) == \E t \in Thread : \E i \in DOMAIN th[t].deferred : th[t].deferred[i] = o

\* The pointers of both maps agree, no page is in both, and the hot one keeps
\* its capacity (hot_.size() >= hot_capacity_ makes room before a promotion).
CacheIsSound == \A s \in Slot :
  /\ WellLinked(cache[s].hot) /\ WellLinked(cache[s].warm)
  /\ DOMAIN cache[s].hot.rec \cap DOMAIN cache[s].warm.rec = {}
  /\ cache[s].hot.num <= HotCapacity

\* A node that a thread uses is in the cache, or put aside by the thread that
\* holds the slot's mutex: whoever loads the page gets the same node, so two
\* threads never modify two copies of a page, and no user's last reference
\* destroys a node outside of the mutex.
UsedNodesStayCached == \A t \in Thread : th[t].held # Nil => Cached(th[t].held) \/ PutAside(th[t].held)

\* A node whose lock SyncPosition still has, its reference given up, is alive
\* until the lock is released.
LockedNodesAreAlive == \A t \in Thread : th[t].lock # Nil => th[t].lock \in DOMAIN obj

\* Eviction and flushing take no node from a thread that uses or has locked it
\* (AdjustCaches, FlushLeafCache).
UsedNodesAreKept == TypeOK /\ UsedNodesStayCached /\ LockedNodesAreAlive

\* The newest version of a page: the node's if there is one that users share.
Newest(p) ==
  IF \E o \in DOMAIN obj : obj[o].page = p /\ (Cached(o) \/ PutAside(o))
  THEN (CHOOSE o \in DOMAIN obj : obj[o].page = p /\ (Cached(o) \/ PutAside(o)))
  ELSE Nil
VersionOf(p) == IF Newest(p) = Nil THEN file[p] ELSE obj[Newest(p)].ver

\* No modification is lost: the page has seen all there were, whatever evicted,
\* flushed and loaded it meanwhile.
NoUpdateIsLost == \A p \in Page : VersionOf(p) = count[p]

\* That is so as long as one thread only loads pages, with flushes beside it.
LoneLoaderLosesNothing ==
  Cardinality({t \in Thread : th[t].role \in {"update", "walk"}}) = 1 => NoUpdateIsLost

\* AdjustCaches leaves the warm cache within its capacity, the nodes that are
\* in use set apart.
AdjustKeepsCapacity ==
  [][\A t \in Thread, s \in Slot : slot[s] = t /\ slot'[s] = Nil /\ th[t].role = "update" =>
       cache'[s].warm.num <= WarmCapacity + Cardinality({o \in DOMAIN obj : PutAside(o)})]_vars

\* So the cache stays sound and no larger than its capacity, however threads and
\* evictions interleave (DoubleLRUCache, AdjustCaches).
CacheIsKept == []CacheIsSound /\ AdjustKeepsCapacity

\* Every call returns: nobody waits for ever for the slot's or a node's mutex.
\* It is so as long as no walk comes back to the slot of the leaf it has locked
\* (SyncPosition, AdjustCaches and FlushLeafCache).
CallsReturn == \A t \in Thread : th[t].pc # "idle" ~> th[t].pc = "idle"
=============================================================================

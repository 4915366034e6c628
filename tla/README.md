# A verification of tkrzw

TLA+ specifications of parts of tkrzw 1.0.3, a C++ library of key-value
databases, checked with TLC on small instances and, where stated, proved with
TLAPS for all values of the constants. `PROJECT.json` lists the components, the
runs, the source lines each definition stands for, and the hazards.

## The system

| part | source | modules |
|---|---|---|
| SpinSharedMutex and SpinWPSharedMutex, the locks of database objects and slots | `tkrzw_thread_util.h` | `SharedLock`, `SpinWord`, `SpinSharedMutex`, `SpinWPSharedMutex` |
| HashMutex, the locks of the buckets | `tkrzw_thread_util.h` | `HashMutex` |
| TaskQueue, the worker threads of AsyncDBM | `tkrzw_thread_util.h` | `TaskQueue` |
| HashDBM, the file hash database | `tkrzw_dbm_hash.cc`, `tkrzw_dbm_hash_impl.cc` | `HashFile`, `HashRestore`, `HashDBM`, `HashRebuild`, `KVStore` |
| TreeDBM, a B+ tree whose pages are records of a HashDBM | `tkrzw_dbm_tree.cc`, `tkrzw_containers.h` | `BTree`, `TreeIterator`, `TreeDBM`, `PageCache`, `LinkedHashMap` |
| SkipDBM, a sorted file that Synchronize rewrites | `tkrzw_dbm_skip.cc`, `tkrzw_dbm_skip_impl.cc` | `SkipFile`, `SkipDBM` |
| CacheDBM, in memory with LRU eviction | `tkrzw_dbm_cache.cc` | `CacheSlot`, `CacheDBM`, `LRUStore` |
| files: memory mapped, positional, and their page cache | `tkrzw_file_mmap.cc`, `tkrzw_file_pos.cc`, `tkrzw_file_util.cc` | `FilePages`, `ParallelFile` |
| TinyDBM, BabyDBM, StdDBM; ShardDBM, PolyDBM, AsyncDBM, the indices; strings, compression, hashing, C interface, tools | the rest | not modelled |

How they interact: a thread that updates a HashDBM takes the database's
SpinSharedMutex shared and one slot of its HashMutex exclusively, and then writes
to the file in several steps; Open, Close, Clear and Synchronize take the
SpinSharedMutex exclusively, Rebuild takes it shared and, at its end, all slots of the
HashMutex exclusively. `SpinSharedMutex` is shown to implement `SharedLock`;
`HashMutex` uses atomic shared locks for its slots and shows that threads in the
same bucket exclude each other; `HashDBM` therefore lets two threads interleave
only if their keys are in different buckets, and its exclusive operations start
only when no thread is in an update. Likewise the writers of `TreeDBM` interleave
only where the code releases its lock, `PageCache` takes the mutex of a slot as an
atomic lock, and `CacheDBM` makes a critical section of a slot one step. Each layer
uses what the layer below was shown to promise.

## SharedLock and SpinSharedMutex

`count` is `count_`, the single atomic word; every access to it is one action.
`pc` says where a thread is in its call. `lock` and `try_lock` are `CallLock`,
`LockExchange`, `TryLock` (a compare-exchange that fails changes nothing and is a
stutter). `lock_shared` and `try_lock_shared` differ in whether they repeat
(`wait`): `FetchAdd`, then for a reader that met a writer `LoadOld` and
`ResetExchange`, a weak compare-exchange that may fail spuriously. `Unlock`,
`Downgrade`, `UnlockShared`, `CallTryUpgrade` and `UpgradeExchange` are the rest.
`SpinWord` has the constants of both mutexes: `INT32MAX` is one larger than the
number of threads; `CountBound` bounds the increments of failed readers, which the
32-bit word bounds in the code.

Properties: `CountIsExact` (below INT32MAX the word is the number of sharers: no
increment of a failed reader survives the writer); `ImplementsSharedLock`, with
`MutualExclusion` and `WriterIsMarked` proved besides; `SomebodyOwns` (if threads spin,
somebody gets the lock). Fairness: weak fairness of the steps inside a call, that
is, a running thread is scheduled. Owners need not release. Individual starvation
is possible and not excluded. Run `spin_mutexes` checks both mutexes, one at a time
(`kind`), and names the properties of this one `PlainCountIsExact`,
`PlainImplementsSharedLock` and `PlainSomebodyOwns`.

An observation outside the runs: `try_upgrade` ignores its parameter, documented
at `tkrzw_thread_util.h:180` as "If true, waits while there's possibility to get
exclusive ownership"; the model has the parameter and, as the code, never reads it.

## SpinWPSharedMutex

The same word and a second one, `wannabe` (`wannabe_count_`), that counts threads
that want exclusive ownership; readers look at it (`CheckWannabe`) before they
increment the first (`FetchAdd`), in a step of their own, so a reader may come late.
`CallLock` announces, `LockExchange` acquires, `Withdraw` ends the announcement;
`CallTryUpgrade`, `UpgradeExchange` and `UpgradeRetry` are try_upgrade, which with
`wait` repeats until another writer waits while sharers are there.

Properties: `WannabesAreCounted`, `ImplementsSharedLock` (the same `SharedLock`), `WriterIsServed` (a waiting writer
is not kept out by readers), `UpgradeReturns`. Fairness: a thread inside a call is
scheduled; owners and sharers release, sharers under strong fairness because a
sharer may also start an upgrade in between. Three threads.

## HashMutex

State: the number of buckets, how each thread holds each slot, the thread's place
in the code, its mode and keys, the number of buckets its slots came from (`old`)
and the slots still to lock (`todo`). `LockOne` is `CallLockOne`,
`ReadNumBuckets`, `LockSlot`, `Recheck` (which unlocks and starts over if the
number changed); `LockMulti` is `CallLockMulti`, `LockZero`, `LockNext`,
`LockedMulti`; `LockAll` is `CallLockAll`, `LockNext`, `LockedAll`; `Rehash`
happens under all slots, as RebuildImpl calls it; unlocking goes from the last
slot to the first. Shared and exclusive forms are one action with a mode.
`LockOne` with a bucket index, used by iterators, is not modelled.

Properties: `BucketsAreCurrent` (who comes back from a lock holds the slots that
guard its keys now), `BucketExclusion`, `NoDeadlock` (no set of threads waits for
slots that only the set holds). Instance: three threads, two slots, tables of two
and three buckets, and two keys that share a bucket in the smaller table and have
slots of their own in the larger one, so that a stale number of buckets leads to
the wrong slot. TLC also checks for deadlock.

## TaskQueue

State: the queue, `num_tasks_`, `running_`, the holder of the mutex, the place of
each worker and of the client. A wait on the condition variable is a test of the
predicate in the mutex (`Test`), then the atomic release-and-sleep (`Block`), then,
after a notification or spuriously, `Wakeup`, which takes the mutex again. The
client adds tasks (`AddPush`, `AddNotify`) and calls `Stop` once (`CallStop`,
`StopPoll`, `StopNudge`, `StopStore`, `StopNotify`, `StopJoin`), as ~AsyncDBM does.

Properties: `TasksAreKept` (a task is in the queue, with a worker or done, once, and
none overtakes another in the queue), `StoppedMeansDone`, `EveryTaskIsDone`.
Fairness: weak fairness of each worker and of the client inside a call; spurious
wakeups and the call of Stop are not fair. Two workers and three tasks.

That Stop returns is not among them: Stop stores `running_` and notifies outside
the mutex. A worker that has evaluated the predicate (`running_` still true, queue
empty) and not yet gone to sleep misses both, and join never returns.

## HashFile, HashRestore, HashDBM, KVStore

`HashFile` has the file as a value: the record section as a sequence (an offset is
a position in it, 0 is null; sizes are kept because they decide between
overwriting, moving and reusing a block), the bucket array, the metadata (mode,
closed flag, number of records, size) and the saved free block pool. Its operators
are what ProcessImpl looks up (`Chain`, `Find`), decides (`Plan`) and writes
(`WriteRecord`, `LinkRecord`, `VoidRecord`), and FreeBlockPool
(`InsertFreeBlock`, `FetchFreeBlock`, `Serialize`). A record of type ZERO is space
allocated by an append that has not written yet: File::Append advances the end of
the file first.

`HashRestore` is what Open does: `TrimTail`, `SizeMatches`, `Validate`
(ValidateRecordsImpl with CheckHashChain and CheckZeroRegion) and
`RestoreDatabase`, which reads records past holes with `FindNextOffset` and imports
them forward (in-place) or backward (appending).

`HashDBM` is the state machine. `file` survives a crash; `mem` (mode,
`num_records_`, pool), `pc` and `plan` do not. A thread's update is `Begin`,
`Reserve`, `Write`, `Link`, `VoidOld`, `Finish`, as far as its kind needs them; a
crash, or a thread in another bucket, may come between any two. `SyncBegin` and
`SyncEnd` are the two SaveMetadata of Synchronize; `CloseMetadata` and `CloseFBP`
the two writes of CloseImpl; `OpenFile` is Open. `view` and `synced` are history
variables: what a reader finds (or would find after Open), and what it found when
the metadata were last saved as closed.

A crash is the death of the process: writes already made stay. Power failure,
where unsynchronized writes may be lost in any order, is not modelled. A write of
one record is atomic; a torn in-place overwrite is not modelled. Restoring the file
and renaming the result into place is one step. Opening uses RESTORE_DEFAULT or
RESTORE_SYNC.

`KVStore` is the promise: updates are atomic, one at a time per key; a crash keeps
every finished update, and of an unfinished one the old or the new value.

Properties:

- `FileIsSound`: what the pool hands out is void and nobody writes to it
  (`FreeBlocksAreVoid`), and no chain leads to a record that was cut off or never
  written (`ChainsReadable`).
- `CountsAgree`: Count is the number of records a reader finds, also after Open
  recomputed it (`NumIsExact`), and ValidateRecords accepts every quiet database and
  agrees with Count (`ValidatePasses`; not after SetUpdateModeAppending or the rebuild
  of an appending database: it then judges records that were written in place by the
  rules of the appending mode).
- `SyncRecovers`: with RESTORE_SYNC the content is that of the last Synchronize or
  Close.
- `ImplementsKVStore`: refinement, `kv` being `view`.

Run `hash` has these properties and those of `HashRebuild`. It has three keys, two of
them in one bucket; a small and a large value, so that records are overwritten, moved
and their space reused; a pool of two blocks of which one fits in the file. There is
one behaviour class per scene, chosen in Init (in a scene with one thread, `lone`, a
thread enters ProcessImpl only when no other is in it):

- one thread in in-place mode, three updates, a crash and a Synchronize; and three
  updates with two crashes. A crash inside Close or Synchronize is left out;
- one thread in appending mode, three updates, two crashes anywhere;
- two threads in in-place mode, three updates, a switch to appending mode, closing
  and reopening, no crash;
- two threads in appending mode, two crashes anywhere, RESTORE_SYNC;
- two threads in in-place mode on three records, with four updates that free more
  blocks than the pool has room for.

What the scenes leave out is what the code does not survive (see Observations).
Deadlock is not checked here and wherever the bounds on the number of operations
end every behaviour.

## HashRebuild

HashRebuild extends HashDBM with what meets all records while threads update.
`RebuildBegin` to `RebuildFinish` are the critical sections of RebuildImpl: it sets
the database to appending, copies the file up to an end taken under all locks
(`RebuildImport`, one import as one step, without a lock), looks how much was
appended meanwhile (`RebuildLook`), imports that (`RebuildAgain`), and the last part
under the exclusive lock of all buckets, where it swaps the files and cancels iterators.
`RebuildFail` is an import that fails. `ItFirst`, `ItJump`, `ItNext`, `ItClaim`,
`ItScan`, `ItReturn` are the iterator, which claims a bucket number and reads that
bucket under its lock; `EachBegin`, `EachRun` a reading ProcessEach; `Clear` is Clear.

Properties, besides those of `HashDBM`, which hold here, too: `RebuildIsFaithful` (no import without a
lock covers space that is reserved and not written, after each import the copy is the
database as it was when the end was taken, and Count is exact) and `EveryRecordIsMet`
(ProcessEach meets one state of the database; an iteration meets every key that stays,
none twice unless a rebuild cancels it). Seven more scenes of run `hash`: two threads beside
an in-place rebuild; a crash and either target mode; failures, Clear and two
rebuilds; a rebuild under an iterator; an iterator, and a scan, beside two threads; a
scan and a rebuild in appending mode.

Not modelled: ProcessMulti, a writing ProcessEach, removal through an iterator.

## BTree, TreeIterator, TreeDBM

`BTree` has the tree as a value and the operations of TreeDBMImpl as operators on
it: search, ProcessImpl, DivideNodes, MergeNodes, ReorganizeTree, saving of nodes,
LoadMetadata, RestoreDatabase. A record is a key and a serialized size; page sizes
decide when a leaf divides (over `MaxPageSize`) or merges (under half of it).
`TreeIterator` has every move of an iterator; the iterator remembers its key and,
as a hint, the leaf.

`TreeDBM` is the state machine. A writer that finds leaves to reorganize does so
under the exclusive lock, releases it, and processes its record under the shared
lock: another writer may have registered a leaf in between, so records are processed
while leaves wait (`ready`). `Evict` saves any page, as AdjustCaches may;
`Synchronize`, `Close`, `Open`, `Clear`, `ProcessMulti`, `ProcessEach` and
`ProcessAtIterator` are the rest. A crash is followed by RestoreDatabase on the pages
of the last Synchronize (appending mode, RESTORE_SYNC); a crash between restoring the
hash database and restoring the tree is not modelled, nor is Rebuild, which is
HashDBM's on the pages. Node ids are compared only, so that the smallest unused one
stands for a new one.

Properties: `TreeIsSound` (the doubly linked leaves are the leaves under the root, in
order; the tree is balanced; page sizes and Count are exact; no reorganization fails),
`CleanPagesAreSaved`, `SearchFindsContent`, `IteratorsAreExact` (an iterator keeps its
place while its leaf is divided, merged or emptied, and jumps reach the nearest
record). That an inner node has at most `max_branches_` links is not among them
(see Observations). Run `tree`: four keys, records of size 1 and 5 on pages of at most
six, so that one record can fill a leaf, and two branches; five scenes begin with an
empty tree, two with six long records on as many leaves under two levels of inner nodes
(`Filled`), where both levels divide and merge.

## LinkedHashMap and PageCache

`LinkedHashMap` has LinkedHashMap and DoubleLRUCache of `tkrzw_containers.h` pointer
by pointer: bucket chains, the list of use, migration between the hot and the warm
map. `PageCache` has the slots of the leaf cache and threads that load, modify and
release leaves (`Get`, `Read`, `Add`, `Modify`, `Release`), adjust the cache
(`AdjustCaches`, `Evict`, `GiveBack`), flush it (`StartFlush`, `Drain`,
`SaveDeferred`, `Again`) and walk over empty leaves as SyncPosition does
(`LockFirst`, `NextLeaf`, `LookFurther`, `Unlock`). An object lives while somebody
refers to it. AdjustCaches is tried on every update instead of every fourth. `ahead`
has the next_id of the leaves a walk meets: ids say nothing about neighbours.

Properties: `CacheIsKept` (the pointers agree, and AdjustCaches leaves no more than the
capacity and what is in use), `UsedNodesAreKept` (a node in use is in the cache or put
aside, a locked one alive), `LoneLoaderLosesNothing`, `CallsReturn` (weak fairness of
each thread inside a call), in scenes where no walk comes back to the slot of the leaf
it has locked. Three threads, seven pages, three of them in one slot with
room for two, so that eviction happens at each load.

Run `page_race` refutes `NoUpdateIsLost`, what "All operations are thread-safe"
(`tkrzw_dbm_tree.h:37`) needs: LoadLeafNode releases the slot between the miss and
AddToCache. A thread that has read the page is overtaken by another one that loads,
modifies and releases it and by the eviction that saves it; then the first adds its
old copy, and the update is lost.

Run `page_deadlock` refutes `CallsReturn` for a walk over two leaves of one slot, which
any two neighbours may be, there being 64 slots (`NUM_PAGE_SLOTS`). SyncPosition holds
the shared lock of the first, empty leaf and waits for the mutex of the slot; Rebuild,
which holds the lock of the database shared like the iterator, is in FlushLeafCache,
has the mutex of the slot, has put the first leaf aside because it is in use, and waits
for its lock to save it. Synchronize and Close call FlushLeafCache under the exclusive
lock, where no iterator is inside a call.

## SkipFile and SkipDBM

`SkipFile` has the file as a sequence of records with their skips, and as operators
the writer (`WriteRecord` with the past records it patches), the record cache,
`Search` and `SearchByIndex`, the sorter with its memory limit (`Add`, `Flush`,
`Drain`, `Merged`) and the reducers over records with one key (`Group`). `SkipDBM` is
the state machine: updates, `SyncFinish` and `Resume` (the halves of Synchronize
around the replacement of the file), Revert, Clear, Rebuild and MergeSkipDatabase in
the steps a crash can separate, iterators and GetByIndex; databases that insert in
order are a kind of scene. MergeSkipDatabase holds the lock of the database shared and
is two steps (`MergeBegin`, `MergeEnd`) between which lookups and moves of iterators
happen (`Shared`), but no operation that holds the lock alone (`Alone`); the bound
`mergers` is one merge at a time. `pub` is a history variable: for each key the
sequences of values that the last finished Synchronize or Close may have published.
Merged values may come before or after the ones of the file there.

Properties: `FileIsExact` (a skip of level l leads step^l records ahead, and the counts
count), `ContentIsPublished` (the file is sorted, and what Open finds is in `pub`),
`LookupsAreExact` (searches and jumps against their definition on the sorted sequence,
with the cache in any state), `IteratorIsCurrent`. Run `skip`: three keys, two values, one or two
levels of skips, sorter memory for two records, all reducers that choose a record.

Run `skip_merge` refutes `MergedComeSecond`, what `tkrzw_dbm_skip.h:623` says of
MergeSkipDatabase: "synchronized existing records come first, added records come second,
and unsynchronized existing records come last". FinishStorage adds the file of the
database to the sorter behind the merged files, so that the merged records come first.

## FilePages and ParallelFile

`FilePages` has the content of a file as cells and PositionalFileCache with its pages
and dirty regions. `ParallelFile` has threads on one file through four kinds of
access: memory mapping, positional, positional with block alignment, and with the
page cache. Append and Expand are the load of `file_size_`, `AllocateSpace` (growth
under the mutex, `Grow`), the compare-exchange (`Reserve`) and the copy; a thread may
be overtaken between any two. `Truncate`, `TruncateFakely`, `Synchronize`,
`SetHeadBuffer`, `Close` and `Open` are alone, as their callers guarantee; so is a
write beyond the end of the file. Threads do not write to cells that others use: that
is the databases' own locking, and an assumption here (`Begin`). The Atomic variants
of the files are these with one thread.

Properties: `ReservationsAreDisjoint`, `AccessIsBacked` (what a thread reads or writes
is in the file and in the mapping), `ReadsAreExact`, `FileIsSound` (after Synchronize or
Close the disk has what was written, no uninitialized memory reaches it, the cache
keeps its capacity and, with one thread, whole pages). Run `file`: files of six cells, blocks and pages
of two, a cache of two pages, one slot. Not modelled: failure of mremap, a spurious
failure of the compare-exchange (it only repeats), direct I/O as such.

## CacheSlot, CacheDBM, LRUStore

`CacheSlot` has a slot's records as memory cells with child, prev and next pointers;
`xmalloc` takes a free cell, and a reallocation moves the record. `CacheDBM` adds the
slots' mutexes, ProcessMulti (which locks the slots of its keys one by one), ProcessEach, an
iterator, and saving to and loading from a file, with a crash while it is rewritten; a
database that was opened as a reader is not saved. `LRUStore` is the promise: a store
per slot in the order of use that drops the least recently used record when another
one comes in, where a call on several keys is one step. Which records a change of the
capacity drops is left open (`Resize`; see Observations).

Properties: `SlotsAreSound` (pointers, counters and the capacity), `ImplementsLRUStore`,
`EveryRecordIsMet` (by ProcessEach and an iterator, if it stays, and once),
`CallsReturn` (weak fairness of each thread inside a call). Run `cache`: five keys in two slots, four cells
per slot, six scenes.

## Proofs

Proved with TLAPS, for any values of the constants that satisfy the assumptions:

- `SpinSharedMutex_proofs`, for any finite set of threads and any INT32MAX larger
  than their number. The invariant `IInv` adds to the properties that a reader about
  to reset holds an `old` value above INT32MAX; without it the reset could mark a
  free mutex. `CountIsExact` needs lemmas on the cardinality of the sharers when one
  thread comes or goes. `Invariance`, `TypeCorrectness`, `Exclusion`, `ExactCount`,
  and `Refinement` (every step is a step of SharedLock or a stutter).
- `SpinWPSharedMutex_proofs`, under the same assumptions. `IInv` adds that the waiting
  writers are counted exactly, which has lemmas of its own on cardinality
  (`WannabeStep`). `Invariance`, `Exclusion`, `ExactCount`, `ExactWannabes`,
  `Refinement`.
- `HashMutex_proofs`, for any threads, keys, slots, table sizes and hash function.
  `IInv` adds that slots are never held in conflict (`NoConflict`) and what a thread
  holds at each place of the code (`Progress`). The heart of it: a Rehash holds all
  slots exclusively, so nobody else can be between its check and its unlock.
  `Invariance`, `TypeCorrectness`, `CurrentBuckets`, `Exclusion`, and `DeadlockFree`:
  among threads that wait for each other take the one that waits for the highest
  slot; a thread that holds it waits for a higher one, because LockMulti and LockAll
  lock in ascending order and LockOne holds nothing while it waits.
- `TaskQueue_proofs`, for any number of workers and tasks. `IInv` says that the tasks
  taken off the queue are those that were added first, each with one worker or done
  once (`Accounted`), who is inside the mutex, and that behind the loop of Stop the
  queue is empty and in the end every worker has left (`Stopped`); `NoTaskIsLost`,
  `StopWaitsForAll`.
- `ParallelFile_proofs`, for any number of threads, any lengths and every kind of
  file. `Reservations`: `IInv` says which cells a call has a claim to: all calls but
  appends that have reserved nothing yet. A write that reaches behind the end is alone
  until it has moved the end, so no append can be given its cells. `Backing`: the file
  (and the mapping) never gets shorter under a call that has passed AllocateSpace, and
  the size never passes what is allocated. The premise is that of `Begin`: callers do
  not write where others do.
- `HashRestore_proofs`, about files as values, for any keys, values, sizes and number
  of buckets: what a chain leads to, what Plan may choose, and that each of
  `WriteRecord`, `LinkRecord`, `VoidRecord`, an append, the two imports, `TrimTail`,
  `Validate` and `RestoreDatabase` keeps a good file good (`GoodFile`: buckets and
  records lead to written records or nowhere). `OpenIsSound` puts them together, for
  files of which, before and after `TrimTail`, CheckZeroRegion sees all that follows a
  hole (`FullCheck`), and whose pool was saved if they were closed in place.
  Where an import or a chain is a recursive function its induction is by the least
  index at which the claim fails.
- `HashDBM_proofs`, for any threads, keys, values and any number of operations,
  crashes and restorations. `FileIsSound` is not inductive: `IInv` adds what each
  thread inside ProcessImpl is about to do (`PlansAreSound`: its plan is feasible at
  its place of the code, and the plans of two threads touch different records in
  different buckets), that the pool has no block any plan touches (`PoolIsSound`), and
  what a file that is not open says about itself (`ClosedIsSound`). One lemma per
  action. Two theorems:
  - `Soundness` has two premises. `ClosesAreWhole`: the process does not die inside
    Close or Synchronize of a database updated in place, after which the saved pool
    may be stale (see Observations). `ZeroCheckIsComplete`: when Open looks at the
    file, all that follows a hole is within reach of CheckZeroRegion, which reads at
    most 128 KiB (see Observations for what happens otherwise).
  - `LoneWriterSoundness` does without the second one where one thread at a time
    updates the database, or the process does not die: `HolesAreLast` shows that a
    lone writer leaves at most one hole, the last record of the file, behind the size
    in the metadata, and then the check needs to see one record only.

  The scenes of run `hash` without a rebuild, an iterator or a scan satisfy the premises
  of `Soundness`; all but the one with two threads in appending mode that crash also
  those of `LoneWriterSoundness`.

Only model-checked:

- every liveness property: the prover does not reach liveness under fairness;
- `CountsAgree`, `SyncRecovers`, `RebuildIsFaithful`, the two forms of
  `EveryRecordIsMet` and the refinements of `KVStore` and `LRUStore`: they compare what
  a replay of the whole file computes with a history, an induction over the records
  that the prover cannot do in general;
- `ReadsAreExact` and `FileIsSound` of `ParallelFile`: they are about the content of
  pages and runs of pages, built by nested operators on sequences;
- everything about `TreeDBM`, `PageCache`, `SkipDBM` and `CacheDBM`: `BTree`,
  `TreeIterator`, `LinkedHashMap`, `SkipFile`, `CacheSlot` and what extends them use recursive
  operators, about which nothing can be proved here.

## Observations

Met while modelling: what the code does where a property above is restricted or a
scene is left out, and, marked (read), what was read in code outside the models.

HashDBM:
- A crash between the two writes of CloseImpl, or inside Synchronize, in in-place
  mode leaves a file marked closed with an old free block pool; after Open an update
  reuses a block that holds a live record.
- Two threads append; the first has reserved space and not written, the second has
  finished. After a crash nothing follows the finished record, so FindNextOffset does
  not trust it and RESTORE_DEFAULT loses it.
- SetUpdateModeAppending does not save the mode; after a crash superseded records are
  counted.
- In appending mode a processor that returns REMOVE for a removed record appends
  another removal, which is subtracted from the count after a crash.
- A hole longer than the 128 KiB that CheckZeroRegion reads makes OpenImpl cut off
  finished records that buckets point to.
- During a rebuild an in-place database is in appending mode: a crash then restores it
  as an in-place file, and ProcessEach beside it meets superseded records.
  A failed rebuild leaves it in appending mode. After the rebuild of an appending
  database with overwritten records ValidateRecords counts differently from Count.
- An iterator's Process answers NOT_FOUND when another thread removed the key (read).
  Clear truncates the file before it writes the metadata (read).

TreeDBM:
- ParseMetadata reads last_id from the place of first_id, so that Last and JumpLower
  after Open begin at the first leaf. `JumpsAreExact` leaves those moves out.
- Previous from a key beyond the last record of its leaf skips that leaf.
- RestoreDatabase restores the tree without the comparator of the keys (read).
- MergeNodes joins two inner nodes whatever their number of links, so that a node may
  have more than `max_branches_` (`tkrzw_dbm_tree.h:181` calls it "The maximum number of
  branches each inner node can have") until a division below it adds a link.

SkipDBM:
- MergeSkipDatabase appends to the vectors of the sorter under the shared lock. Two
  calls at a time race; with `mergers` two the model loses one of the files.
- Clear reloads the closure flag from the file, so that a later Close does not mark
  the file as closed (read). In a database that inserts in order,
  Last, JumpLower and JumpUpper fail while updates are pending, because num_records_
  counts them, and removals on an empty file are published as records. The guard
  `InOrder` leaves such removals out.
- A crash between Truncate and the first SaveMetadata leaves a file without metadata;
  a Rebuild that fails midway leaves no sorter (read).
- JumpLower with the key itself lands on the first of several records with it.

Files:
- Cells that come behind the end when a file is truncated keep their content and are
  seen again when it grows, where `tkrzw_file.h:160` promises null codes; the
  properties treat them as unknown.
- With two threads the last page of a cached file can be written back shorter than a
  block, because the size is published before the region; that part of
  `FileIsSound` is about one thread (`doc/index.xhtml:4357` asks for PositionalAtomicFile then).

CacheDBM:
- RebuildAdvanced with a smaller capacity keeps the least recently used records
  and drops the others (`tkrzw_dbm_cache.h:155` says that the least recently used
  ones are removed).
- The memory limit is enforced on insertion only, one record at a time.
- ExportRecords truncates the file first, so a crash in Close or Synchronize loses
  what was saved; an Open that fails keeps the records it has imported.

TinyDBM:
- A reading ProcessEach walks the chains under the shared mutex and no slot of the
  HashMutex, so that a writing Process beside it may free the record it is at (read).

## Not modelled

- TinyDBM and BabyDBM: chains of records under the modelled HashMutex, and the
  tree of TreeDBM without pages or cache; StdDBM: standard containers under one lock.
- PolyDBM, the C interface, the tools: dispatch and wrappers, no state of their own.
- ShardDBM, AsyncDBM and the indices: compositions of databases that are taken as
  atomic where they are used.
- Standard and polymorphic files, the files of Windows: other implementations of the
  interface that ParallelFile shows.
- Encodings, checksums, compression, hashing, strings, time: functions on bytes, below
  the abstraction of the models.
- Power failure: the crashes are those of the process, after which all writes made so
  far are in the file.
- Of the modelled parts, what their sections above name.

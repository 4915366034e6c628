------------------------------- MODULE HashFile -------------------------------
(***************************************************************************)
(* The file of a HashDBM and the operations on it: the record section, the   *)
(* bucket array whose chains run through the records, the metadata and the    *)
(* saved free block pool.  An offset is the position of a record in the       *)
(* section (0 is the null offset), so appending is appending to a sequence    *)
(* and the order of offsets is kept; the size of a record is kept as well,    *)
(* because it decides between overwriting, moving and reusing a free block.   *)
(* A record of type ZERO is space that was allocated and not yet written.     *)
(***************************************************************************)
EXTENDS Integers, Sequences, FiniteSetsExt

CONSTANTS
  Keys, Values,
  None,            \* no value, and the key of a void record
  RemoveReq, Purge,\* requests: Remove(), and a processor that returns REMOVE
                   \* whether or not the record exists
  Buckets, Hash,   \* the hash function of each layout, that is of each number of
                   \* buckets; a void record has the empty key, None
  Size,            \* size of the record that holds a value (None: no value)
  FbpCapacity,     \* capacity of the free block pool
  FbpSection,      \* blocks that fit in the pool's section of the file
  ValidationCount, \* VALIDATION_COUNT of FindNextOffset
  MaxCheckSize,    \* max_check_size of CheckZeroRegion
  MaxShift         \* how far FindNextOffset looks for the next record

ASSUME ParamsAssumption ==
  /\ Hash \in [{1, 2} -> [Keys \cup {None} -> Buckets]]
  /\ Size \in [Values \cup {None} -> Nat \ {0}]
  /\ None \notin Keys \cup Values
  /\ {FbpCapacity, FbpSection, ValidationCount, MaxCheckSize, MaxShift} \subseteq Nat \ {0}

Requests == Values \cup {RemoveReq, Purge}

Record(op, k, v, size, child) ==
  [op |-> op, key |-> k, val |-> v, size |-> size, child |-> child]
Zero(size) == Record("ZERO", None, None, size, 0)
Void(size) == Record("VOID", None, None, size, 0)

\* A new file: InitializeBuckets, then SaveMetadata(true).
EmptyFile(mode, layout) ==
  [recs |-> <<>>, bucket |-> [b \in Buckets |-> 0], mode |-> mode, layout |-> layout,
   closed |-> TRUE, num |-> 0, size |-> 0, pool |-> {}, tail |-> FALSE]

\* tail: the file is longer than its records, by allocated space full of zeros.
Truncate(f, n) == [f EXCEPT !.recs = SubSeq(@, 1, n), !.tail = FALSE]

-----------------------------------------------------------------------------
(* Chains.                                                                   *)

\* ReadMetadataKey succeeds: the offset is inside the file and was written.
Readable(f, o) == o \in DOMAIN f.recs /\ f.recs[o].op # "ZERO"

\* The offsets met from the bucket along the child offsets, 0 at the end.
Chain(f, b) ==
  LET offsets == {0} \cup Range(f.bucket) \cup {f.recs[i].child : i \in DOMAIN f.recs}
      child == [o \in offsets |-> IF Readable(f, o) THEN f.recs[o].child ELSE 0]
      c[i \in 1 .. Len(f.recs) + 1] ==
        IF i = 1 THEN f.bucket[b] ELSE child[c[i - 1]]
  IN  c

\* Where the i-th record of chain c is, and where the one before it is.
Hit(c, i) == [at |-> c[i], parent |-> IF i = 1 THEN 0 ELSE c[i - 1]]
NoHit == [at |-> 0, parent |-> 0]

\* The first record of the chain that has the key, and the one before it.
FindIn(f, c, k) ==
  LET hits == {i \in DOMAIN c : Readable(f, c[i]) /\ f.recs[c[i]].key = k}
  IN  IF hits = {} THEN NoHit ELSE Hit(c, Min(hits))
BucketOf(f, k) == Hash[f.layout][k]
Find(f, k) == FindIn(f, Chain(f, BucketOf(f, k)), k)

IsSet(rec) == rec.op \in {"SET", "ADD"}

OldRecord(f, hit) == IF hit.at = 0 THEN Zero(0) ELSE f.recs[hit.at]

\* The value of a record; a removed or missing one has none.
Lookup(f, k) == OldRecord(f, Find(f, k)).val

Content(f) == [k \in Keys |-> Lookup(f, k)]

-----------------------------------------------------------------------------
(* The free block pool: a set of blocks ordered by size, then by offset.     *)

Before(x, y) == x.size < y.size \/ (x.size = y.size /\ x.off < y.off)
Least(pool) == CHOOSE x \in pool : \A y \in pool \ {x} : Before(x, y)

InsertFreeBlock(pool, off, size) ==
  LET block == [off |-> off, size |-> size]
  IN  IF Cardinality(pool) < FbpCapacity THEN pool \cup {block}
      ELSE IF size <= Least(pool).size THEN pool
      ELSE (pool \ {Least(pool)}) \cup {block}

\* The smallest block that is large enough, if any, as a set.
FetchFreeBlock(pool, size) ==
  LET fit == {x \in pool : x.size >= size}
  IN  IF fit = {} THEN {} ELSE {Least(fit)}

\* Serialize writes the largest blocks first, as many as the section holds.
Serialize(pool) ==
  {x \in pool : Cardinality({y \in pool : Before(x, y)}) < FbpSection}

-----------------------------------------------------------------------------
(* What ProcessImpl decides to do for a key and a request, before the first  *)
(* write: which record it writes, where, and which links it changes.         *)

Kind(hit, old, mode, req) ==
  IF req \notin Values /\ (hit.at = 0 \/ (req = RemoveReq /\ ~IsSet(old))) THEN "noop"
  ELSE IF hit.at = 0 THEN "add"
  ELSE IF mode = "APPENDING" THEN "shadow"
  ELSE IF req \notin Values THEN "remove"
  ELSE IF Size[req] <= old.size THEN "overwrite" ELSE "move"

\* The record to write.  An appended one leads to the record that followed the
\* old one if the old one was first in the chain, else to the whole chain.
NewRecord(kind, k, val, hit, old, free, top) ==
  Record(IF val = None THEN "REMOVE"
         ELSE IF IsSet(old) \/ (kind = "move" /\ free # {}) THEN "SET" ELSE "ADD",
         k, val,
         IF kind = "overwrite" THEN old.size
         ELSE IF free # {} THEN Least(free).size ELSE Size[val],
         IF kind = "add" \/ (kind = "shadow" /\ hit.parent # 0) THEN top ELSE old.child)

Operation(kind, k, val, hit, old, free, top) ==
  [kind |-> kind, key |-> k, val |-> val, set |-> IsSet(old), free |-> free,
   at |-> hit.at, parent |-> hit.parent, next |-> old.child,
   oldval |-> old.val, oldsize |-> old.size,
   into |-> IF kind = "overwrite" THEN hit.at
            ELSE IF free # {} THEN Least(free).off ELSE 0,
   new |-> NewRecord(kind, k, val, hit, old, free, top)]

PlanFor(pool, mode, k, req, hit, old, top) ==
  LET kind == Kind(hit, old, mode, req)
      val == IF req \in Values THEN req ELSE None
      reuses == mode = "IN_PLACE" /\ kind \in {"add", "move"}
  IN  Operation(kind, k, val, hit, old,
                IF reuses THEN FetchFreeBlock(pool, Size[val]) ELSE {}, top)
PlanAt(f, pool, mode, k, req, hit) ==
  PlanFor(pool, mode, k, req, hit, OldRecord(f, hit), f.bucket[BucketOf(f, k)])
Plan(f, pool, mode, k, req) == PlanAt(f, pool, mode, k, req, Find(f, k))

WriteRecord(f, p, o) ==
  [f EXCEPT !.recs = IF o > Len(@) THEN Append(@, p.new) ELSE [@ EXCEPT ![o] = p.new]]

\* The link that made the old record reachable, or the bucket, now leads to o.
LinkRecord(f, p, o) ==
  IF p.kind \in {"remove", "move"} /\ p.parent # 0
  THEN [f EXCEPT !.recs[p.parent].child = o]
  ELSE [f EXCEPT !.bucket[BucketOf(f, p.key)] = o]

\* Mutant: the old record is freed but not marked void.
VoidRecord_keeps(f, p) == f

VoidRecord(f, p) == [f EXCEPT !.recs[p.at] = Void(p.oldsize)]

\* The change of num_records_ at the end of the operation.
CountChange(p) == IF p.val = None THEN (IF p.set THEN -1 ELSE 0)
                  ELSE IF p.set THEN 0 ELSE 1

\* The writes of an operation, as an import makes them on a file of its own.
Apply(s, p, o) ==
  LET written == IF p.kind = "remove" THEN s.f ELSE WriteRecord(s.f, p, o)
      linked == IF p.kind = "overwrite" THEN written
                ELSE LinkRecord(written, p, IF p.kind = "remove" THEN p.next ELSE o)
      voids == p.kind \in {"remove", "move"}
  IN  IF p.kind = "noop" THEN s
      ELSE [f |-> IF voids THEN VoidRecord(linked, p) ELSE linked,
            pool |-> IF voids THEN InsertFreeBlock(s.pool \ p.free, p.at, p.oldsize)
                     ELSE s.pool \ p.free,
            num |-> s.num + CountChange(p)]

ApplyPlan(s, p) == Apply(s, p, IF p.into # 0 THEN p.into ELSE Len(s.f.recs) + 1)

Process(s, mode, k, req) == ApplyPlan(s, Plan(s.f, s.pool, mode, k, req))
=============================================================================

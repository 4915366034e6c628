-------------------------- MODULE HashRestore_proofs --------------------------
(***************************************************************************)
(* The file of a HashDBM stays sound: every link leads to a written record,    *)
(* every free block is a void record.  Proved here for the operations on the   *)
(* file that one thread makes alone: an import, a restoration, an Open.        *)
(***************************************************************************)
EXTENDS HashRestore, WellFoundedInduction, TLAPS

Modes == {"IN_PLACE", "APPENDING"}
RecordSet ==
  [op : {"ADD", "SET", "REMOVE", "VOID", "ZERO"}, key : Keys \cup {None},
   val : Values \cup {None}, size : Nat, child : Nat]
BlockSet == [off : Nat, size : Nat]
FileSet ==
  [recs : Seq(RecordSet), bucket : [Buckets -> Nat], mode : Modes, layout : {1, 2},
   closed : BOOLEAN, num : Int, size : Nat, pool : SUBSET BlockSet, tail : BOOLEAN]

\* The record of an operation has a key, and a value if it sets one.
WellFormed(rec) ==
  /\ rec.key \in Keys <=> IsOperation(rec)
  /\ IsSet(rec) => rec.val \in Values

\* An offset in a bucket or a record: null, or that of a written record.
Leads(f, o) == o = 0 \/ Readable(f, o)

GoodFile(f) ==
  /\ f \in FileSet
  /\ \A b \in Buckets : Leads(f, f.bucket[b])
  /\ \A i \in DOMAIN f.recs : Leads(f, f.recs[i].child) /\ WellFormed(f.recs[i])

VoidBlocks(f, pool) ==
  /\ pool \subseteq BlockSet
  /\ \A x \in pool : /\ x.off \in DOMAIN f.recs
                     /\ f.recs[x.off].op = "VOID" /\ f.recs[x.off].size = x.size

\* The fields of a file that the proofs use most.
HasShape(f) ==
  /\ f \in FileSet /\ f.recs \in Seq(RecordSet) /\ Len(f.recs) \in Nat
  /\ DOMAIN f.recs = 1 .. Len(f.recs) /\ f.size \in Nat

\* Space that was allocated and not written: none, or only behind the size that
\* SaveMetadata recorded.
NoHoles(f) == \A i \in DOMAIN f.recs : f.recs[i].op # "ZERO"
HolesBehind(f) ==
  /\ f.size <= Len(f.recs)
  /\ \A i \in DOMAIN f.recs : f.recs[i].op = "ZERO" => i > f.size

\* CheckZeroRegion looked far enough to see every record behind o.
FullCheck(f) ==
  \A o \in DOMAIN f.recs :
    ZeroRegion(f, o) => \A j \in o .. Len(f.recs) : f.recs[j].op = "ZERO"

\* The operation p can be carried out on the file f.
OperationSet ==
  [kind : {"add", "shadow", "remove", "overwrite", "move"}, key : Keys,
   val : Values \cup {None}, set : BOOLEAN, free : SUBSET BlockSet, at : Nat,
   parent : Nat, next : Nat, oldval : Values \cup {None}, oldsize : Nat, into : Nat,
   new : RecordSet]
Feasible(f, p) ==
  /\ p \in OperationSet
  /\ Leads(f, p.next) /\ Leads(f, p.new.child)
  /\ WellFormed(p.new) /\ IsOperation(p.new) /\ p.new.key = p.key
  /\ p.at # 0 => Readable(f, p.at) /\ f.recs[p.at].key \in {None, p.key}
  /\ p.into # 0 => p.into \in DOMAIN f.recs /\ f.recs[p.into].key \in {None, p.key}
  /\ p.kind \in {"remove", "move"} => p.at # 0

-----------------------------------------------------------------------------
(* Recursive functions and least elements.                                   *)

\* A nonempty set of naturals has a least element.
LEMMA LeastElement ==
  ASSUME NEW T, T \subseteq Nat, T # {}
  PROVE  \E x \in T : \A y \in T : x <= y
<1>1. PICK x \in T : \A y \in T : ~ (<<y, x>> \in OpToRel(<, Nat))
  BY NatLessThanWellFounded, WFMin
<1>2. \A y \in T : ~ (y < x)
  BY <1>1 DEF OpToRel
<1> QED BY <1>2

\* Min, with which FindIn takes the first hit, is an element of the set.
LEMMA MinIsElement ==
  ASSUME NEW T, T \subseteq Nat, T # {}
  PROVE  Min(T) \in T /\ \A y \in T : Min(T) <= y
  BY LeastElement DEF Min

\* g is computed from top by the steps up to n.
Computes(g, n, top, step) == g[0] = top /\ \A i \in 1 .. n : g[i] = step[i][g[i - 1]]

\* A function defined by recursion over 0 .. N inside T exists.
LEMMA Recursion ==
  ASSUME NEW T, NEW N \in Nat, NEW top \in T, NEW step \in [1 .. N -> [T -> T]]
  PROVE  \E g \in [0 .. N -> T] : Computes(g, N, top, step)
<1> DEFINE Bad == {n \in 0 .. N : ~ \E g \in [0 .. n -> T] : Computes(g, n, top, step)}
<1>0. N \in 0 .. N /\ Bad \subseteq 0 .. N /\ Bad \subseteq Nat
  OBVIOUS
<1>1. SUFFICES ASSUME Bad # {} PROVE FALSE
  BY <1>0, Zenon
<1> HIDE DEF Bad
<1>2. PICK m \in Bad : \A n \in Bad : m <= n
  BY <1>0, <1>1, LeastElement
<1> USE DEF Bad
<1>3. m # 0
  <2>1. Computes([i \in 0 .. 0 |-> top], 0, top, step) /\ [i \in 0 .. 0 |-> top] \in [0 .. 0 -> T]
    BY DEF Computes
  <2> QED BY <2>1
<1>4. PICK g \in [0 .. m - 1 -> T] : Computes(g, m - 1, top, step)
  <2>1. m - 1 \in 0 .. N /\ ~ (m <= m - 1)
    BY <1>3
  <2>2. m - 1 \notin Bad
    BY <2>1, <1>2
  <2> QED BY <2>1, <2>2
<1> DEFINE h == [i \in 0 .. m |-> IF i = m THEN step[m][g[m - 1]] ELSE g[i]]
<1>5. m \in 1 .. N /\ m - 1 \in 0 .. m - 1
  BY <1>3
<1>6. h \in [0 .. m -> T]
  <2>1. step[m][g[m - 1]] \in T
    BY <1>5
  <2>2. \A i \in 0 .. m : i # m => g[i] \in T
    BY <1>5
  <2> QED BY <2>1, <2>2
<1>7. Computes(h, m, top, step)
  <2>1. h[0] = top
    BY <1>4, <1>5 DEF Computes
  <2>2. ASSUME NEW i \in 1 .. m PROVE h[i] = step[i][h[i - 1]]
    <3>1. h[i - 1] = g[i - 1]
      BY <1>5
    <3>2. CASE i = m
      BY <3>1, <3>2
    <3>3. CASE i # m
      BY <3>1, <3>3, <1>4, <1>5 DEF Computes
    <3> QED BY <3>2, <3>3
  <2> QED BY <2>1, <2>2 DEF Computes
<1> QED BY <1>6, <1>7

-----------------------------------------------------------------------------
(* Chains and lookups.                                                       *)

\* The records of a good file are a sequence of records.
LEMMA GoodShape == ASSUME NEW f, GoodFile(f) PROVE HasShape(f)
  BY DEF GoodFile, FileSet, HasShape

\* The offsets on the chain of a bucket of a good file lead to written records.
LEMMA ChainLeads ==
  ASSUME NEW f, GoodFile(f), NEW b \in Buckets
  PROVE  /\ DOMAIN Chain(f, b) = 1 .. Len(f.recs) + 1
         /\ \A i \in DOMAIN Chain(f, b) : Chain(f, b)[i] \in Nat /\ Leads(f, Chain(f, b)[i])
<1> DEFINE N == Len(f.recs)
           offsets == {0} \cup Range(f.bucket) \cup {f.recs[i].child : i \in DOMAIN f.recs}
           child == [o \in offsets |-> IF Readable(f, o) THEN f.recs[o].child ELSE 0]
           T == {o \in offsets : o \in Nat /\ Leads(f, o)}
           Body(c) == [i \in 1 .. N + 1 |-> IF i = 1 THEN f.bucket[b] ELSE child[c[i - 1]]]
           step == [i \in 1 .. N |-> [o \in T |-> child[o]]]
<1>1. N \in Nat /\ f.recs \in Seq(RecordSet) /\ f.bucket \in [Buckets -> Nat]
  BY DEF GoodFile, FileSet
<1>2. f.bucket[b] \in T
  BY <1>1 DEF GoodFile, Range
<1>3. \A o \in T : child[o] \in T
  <2>1. TAKE o \in T
  <2>2. CASE Readable(f, o)
    <3>1. f.recs[o].child \in Nat /\ Leads(f, f.recs[o].child) /\ o \in DOMAIN f.recs
      <4>1. o \in DOMAIN f.recs /\ f.recs[o] \in RecordSet
        BY <1>1, <2>2 DEF Readable
      <4>2. f.recs[o].child \in Nat
        BY <4>1 DEF RecordSet
      <4> QED BY <4>1, <4>2 DEF GoodFile
    <3> QED BY <3>1, <2>2
  <2>3. CASE ~Readable(f, o)
    BY <2>3 DEF Leads
  <2> QED BY <2>2, <2>3
<1>4. step \in [1 .. N -> [T -> T]]
  BY <1>3
<1> HIDE DEF N, T, child, step
<1>5. PICK g \in [0 .. N -> T] : Computes(g, N, f.bucket[b], step)
  BY <1>1, <1>2, <1>4, Recursion, Zenon
<1> USE DEF step
<1>6. \E c : c = Body(c)
  <2> DEFINE c == [i \in 1 .. N + 1 |-> g[i - 1]]
  <2>1. \A i \in 1 .. N + 1 : i # 1 => g[i - 1] = child[g[i - 2]] /\ c[i - 1] = g[i - 2]
    <3>1. TAKE i \in 1 .. N + 1
    <3>2. HAVE i # 1
    <3>3. i - 1 \in 1 .. N /\ (i - 1) - 1 = i - 2 /\ i - 2 \in 0 .. N
      BY <1>1, <3>2
    <3>4. g[i - 2] \in T
      BY <3>3, <1>5
    <3>5. g[i - 1] = step[i - 1][g[i - 2]]
      BY <3>3, <1>5 DEF Computes
    <3>6. i - 1 \in 1 .. N + 1
      BY <3>3, <1>1
    <3> QED BY <3>3, <3>4, <3>5, <3>6
  <2>2. c = Body(c)
    BY <2>1, <1>5 DEF Computes
  <2> QED BY <2>2
<1> DEFINE C == CHOOSE c : c = Body(c)
<1>7. C = Body(C)
  BY <1>6
<1>8. Chain(f, b) = C
  BY DEF Chain, child, N
<1> HIDE DEF C
<1>9. \A i \in 1 .. N + 1 : C[i] \in T
  <2> DEFINE Bad == {i \in 1 .. N + 1 : C[i] \notin T}
  <2>0. Bad \subseteq Nat
    BY <1>1
  <2>1. SUFFICES ASSUME Bad # {} PROVE FALSE
    BY <2>1
  <2> HIDE DEF Bad
  <2>2. PICK m \in Bad : \A i \in Bad : m <= i
    BY <2>0, <2>1, LeastElement
  <2> USE DEF Bad
  <2>3. m # 1
    BY <1>7, <1>1, <1>2
  <2>4. C[m - 1] \in T
    BY <2>2, <2>3, <1>1
  <2>5. C[m] = child[C[m - 1]]
    BY <1>7, <2>3
  <2> QED BY <2>4, <2>5, <1>3
<1> QED BY <1>7, <1>8, <1>9 DEF T, N
\* A lookup returns null offsets or the offset of a record with the key.
LEMMA FindHits ==
  ASSUME NEW f, GoodFile(f), NEW k \in Keys
  PROVE  /\ Find(f, k).at \in Nat /\ Find(f, k).parent \in Nat
         /\ Find(f, k).at # 0 =>
              Readable(f, Find(f, k).at) /\ f.recs[Find(f, k).at].key = k
<1> DEFINE b == BucketOf(f, k)
           c == Chain(f, b)
           hits == {i \in DOMAIN c : Readable(f, c[i]) /\ f.recs[c[i]].key = k}
<1>1. b \in Buckets /\ Len(f.recs) \in Nat
  BY ParamsAssumption DEF GoodFile, FileSet, BucketOf
<1>2. DOMAIN c = 1 .. Len(f.recs) + 1 /\ \A i \in DOMAIN c : c[i] \in Nat
  BY <1>1, ChainLeads
<1>3. Find(f, k) = IF hits = {} THEN NoHit ELSE Hit(c, Min(hits))
  BY DEF Find, FindIn
<1> HIDE DEF c
<1>4. CASE hits = {}
  <2>1. Find(f, k) = NoHit
    BY <1>3, <1>4
  <2>2. NoHit.at = 0 /\ NoHit.parent = 0
    BY DEF NoHit
  <2> QED BY <2>1, <2>2
<1>5. CASE hits # {}
  <2>1. hits \subseteq Nat
    BY <1>1, <1>2
  <2>2. Min(hits) \in hits
    BY <2>1, <1>5, MinIsElement
  <2> DEFINE m == Min(hits)
  <2>3. m \in DOMAIN c /\ Readable(f, c[m]) /\ f.recs[c[m]].key = k /\ Find(f, k) = Hit(c, m)
    BY <2>2, <1>3, <1>5
  <2> HIDE DEF m
  <2>4. m # 1 => m - 1 \in DOMAIN c
    BY <1>1, <1>2, <2>3
  <2> QED BY <1>2, <2>3, <2>4 DEF Hit
<1> QED BY <1>4, <1>5

-----------------------------------------------------------------------------
(* The free block pool.                                                      *)

\* A pool that is not empty has a first block in its order.
LEMMA LeastIsBlock ==
  ASSUME NEW pool \in SUBSET BlockSet, pool # {}
  PROVE  Least(pool) \in pool
<1> DEFINE Sizes == {x.size : x \in pool}
<1>1. Sizes \subseteq Nat /\ Sizes # {}
  BY DEF BlockSet
<1>2. PICK n \in Sizes : \A m \in Sizes : n <= m
  BY <1>1, LeastElement
<1> DEFINE Offs == {x.off : x \in {y \in pool : y.size = n}}
<1>3. Offs \subseteq Nat /\ Offs # {}
  BY DEF BlockSet
<1>4. PICK o \in Offs : \A m \in Offs : o <= m
  BY <1>3, LeastElement
<1>5. PICK x \in pool : x.size = n /\ x.off = o
  OBVIOUS
<1>6. ASSUME NEW y \in pool \ {x} PROVE Before(x, y)
  <2>1. x \in BlockSet /\ y \in BlockSet /\ n <= y.size /\ n \in Nat /\ o \in Nat
    BY <1>1, <1>2, <1>3
  <2>2. y.size = n => y.off # o
    BY <2>1, <1>5 DEF BlockSet
  <2>3. y.size = n => o <= y.off
    BY <1>4
  <2> QED BY <2>1, <2>2, <2>3, <1>5 DEF Before, BlockSet
<1> QED BY <1>6 DEF Least

\* FetchFreeBlock returns one block of the pool, or none.
LEMMA FetchTakesBlock ==
  ASSUME NEW pool \in SUBSET BlockSet, NEW size
  PROVE  /\ FetchFreeBlock(pool, size) \subseteq pool
         /\ FetchFreeBlock(pool, size) # {} =>
              Least(FetchFreeBlock(pool, size)) \in FetchFreeBlock(pool, size)
<1> DEFINE fit == {x \in pool : x.size >= size}
<1>1. fit \in SUBSET BlockSet
  OBVIOUS
<1>2. fit # {} => Least(fit) \in fit
  BY <1>1, LeastIsBlock
<1>3. FetchFreeBlock(pool, size) \subseteq pool
  BY <1>2 DEF FetchFreeBlock
<1> QED BY <1>3, LeastIsBlock

-----------------------------------------------------------------------------
(* What ProcessImpl decides to do can be done.                               *)

\* The record found for a key, or a record without content.
LEMMA OldRecordIsRecord ==
  ASSUME NEW f, GoodFile(f), NEW hit, hit.at # 0 => Readable(f, hit.at)
  PROVE  OldRecord(f, hit) \in RecordSet /\ Leads(f, OldRecord(f, hit).child)
<1>1. CASE hit.at = 0
  BY <1>1 DEF OldRecord, Zero, Record, RecordSet, Leads
<1>2. CASE hit.at # 0
  <2>1. hit.at \in DOMAIN f.recs /\ f.recs \in Seq(RecordSet)
    BY <1>2 DEF Readable, GoodFile, FileSet
  <2> QED BY <1>2, <2>1 DEF OldRecord, GoodFile
<1> QED BY <1>1, <1>2

\* The record that is written has the key of the operation and a good link.
LEMMA NewRecordIsRecord ==
  ASSUME NEW f, NEW kind, NEW k \in Keys, NEW val \in Values \cup {None}, NEW hit,
         NEW old \in RecordSet, Leads(f, old.child), NEW top \in Nat, Leads(f, top),
         NEW free \in SUBSET BlockSet, free # {} => Least(free) \in free
  PROVE  LET r == NewRecord(kind, k, val, hit, old, free, top)
         IN  /\ r \in RecordSet /\ WellFormed(r) /\ IsOperation(r)
             /\ r.key = k /\ Leads(f, r.child)
<1> DEFINE op == IF val = None THEN "REMOVE"
                 ELSE IF IsSet(old) \/ (kind = "move" /\ free # {}) THEN "SET" ELSE "ADD"
           size == IF kind = "overwrite" THEN old.size
                   ELSE IF free # {} THEN Least(free).size ELSE Size[val]
           child == IF kind = "add" \/ (kind = "shadow" /\ hit.parent # 0)
                    THEN top ELSE old.child
<1>1. op \in {"REMOVE", "SET", "ADD"} /\ (op # "REMOVE" => val \in Values)
  OBVIOUS
<1>2. size \in Nat
  <2>1. old.size \in Nat /\ (free # {} => Least(free).size \in Nat)
    BY DEF RecordSet, BlockSet
  <2>2. Size[val] \in Nat
    BY ParamsAssumption
  <2> QED BY <2>1, <2>2
<1>3. child \in Nat /\ Leads(f, child)
  BY DEF RecordSet
<1>4. NewRecord(kind, k, val, hit, old, free, top) = Record(op, k, val, size, child)
  BY DEF NewRecord
<1> HIDE DEF op, size, child
<1> QED BY <1>1, <1>2, <1>3, <1>4 DEF Record, RecordSet, WellFormed, IsOperation, IsSet

\* The operation p has just been planned for the key k.
Planned(f, pool, k, p) ==
  /\ Feasible(f, p) /\ p.key = k /\ p.free \subseteq pool
  /\ p.at # 0 => f.recs[p.at].key = k
  /\ p.into # 0 => p.into = p.at \/ \E x \in p.free : x.off = p.into
  /\ p.kind = "remove" => p.into = 0

\* What an operation touches: the record found, a free block, or nothing yet.
LEMMA OperationIsFeasible ==
  ASSUME NEW f, GoodFile(f), NEW pool, VoidBlocks(f, pool),
         NEW kind \in {"add", "shadow", "remove", "overwrite", "move"}, NEW k \in Keys,
         NEW val \in Values \cup {None}, NEW hit, hit.at \in Nat, hit.parent \in Nat,
         hit.at # 0 => Readable(f, hit.at) /\ f.recs[hit.at].key = k,
         kind # "add" => hit.at # 0,
         NEW free \in SUBSET pool, free # {} => Least(free) \in free,
         kind = "remove" => free = {}, NEW top \in Nat, Leads(f, top)
  PROVE  Planned(f, pool, k, Operation(kind, k, val, hit, OldRecord(f, hit), free, top))
<1> DEFINE old == OldRecord(f, hit)
           new == NewRecord(kind, k, val, hit, old, free, top)
           into == IF kind = "overwrite" THEN hit.at
                   ELSE IF free # {} THEN Least(free).off ELSE 0
           p == Operation(kind, k, val, hit, old, free, top)
<1>1. old \in RecordSet /\ Leads(f, old.child)
  BY OldRecordIsRecord
<1>2. free \in SUBSET BlockSet
  BY DEF VoidBlocks
<1>3. /\ new \in RecordSet /\ WellFormed(new) /\ IsOperation(new)
      /\ new.key = k /\ Leads(f, new.child)
  BY <1>1, <1>2, NewRecordIsRecord
<1>4. /\ into \in Nat
      /\ into # 0 => into \in DOMAIN f.recs /\ f.recs[into].key \in {None, k}
      /\ into # 0 => into = hit.at \/ \E x \in free : x.off = into
      /\ kind = "remove" => into = 0
  <2>1. CASE kind = "overwrite"
    BY <2>1 DEF Readable
  <2>2. CASE kind # "overwrite" /\ free # {}
    <3>1. PICK x \in free : x = Least(free)
      BY <2>2
    <3>2. x.off \in Nat /\ x.off \in DOMAIN f.recs /\ f.recs[x.off].op = "VOID"
      BY <1>2 DEF VoidBlocks, BlockSet
    <3>3. f.recs[x.off].key = None
      <4>1. f.recs[x.off] \in RecordSet /\ WellFormed(f.recs[x.off])
        BY <3>2 DEF GoodFile, FileSet
      <4> QED BY <4>1, <3>2 DEF WellFormed, IsOperation, RecordSet
    <3> QED BY <3>1, <3>2, <3>3, <2>2
  <2>3. CASE kind # "overwrite" /\ free = {}
    BY <2>3
  <2> QED BY <2>1, <2>2, <2>3
<1>5. p = [kind |-> kind, key |-> k, val |-> val, set |-> IsSet(old), free |-> free,
           at |-> hit.at, parent |-> hit.parent, next |-> old.child,
           oldval |-> old.val, oldsize |-> old.size, into |-> into, new |-> new]
  BY DEF Operation
<1>6. /\ IsSet(old) \in BOOLEAN /\ old.child \in Nat /\ old.size \in Nat
      /\ old.val \in Values \cup {None}
  BY <1>1 DEF IsSet, RecordSet
<1> HIDE DEF old, new, into
<1>7. p \in OperationSet
  BY <1>2, <1>3, <1>4, <1>5, <1>6 DEF OperationSet
<1>8. /\ p.kind = kind /\ p.key = k /\ p.free = free /\ p.at = hit.at
      /\ p.next = old.child /\ p.into = into /\ p.new = new
  BY <1>5
<1> HIDE DEF p
<1>9. Feasible(f, p)
  <2>1. Leads(f, p.next) /\ Leads(f, p.new.child)
    BY <1>1, <1>3, <1>8
  <2>2. WellFormed(p.new) /\ IsOperation(p.new) /\ p.new.key = p.key
    BY <1>3, <1>8
  <2>3. /\ p.at # 0 => Readable(f, p.at) /\ f.recs[p.at].key \in {None, p.key}
        /\ p.into # 0 => p.into \in DOMAIN f.recs /\ f.recs[p.into].key \in {None, p.key}
        /\ p.kind \in {"remove", "move"} => p.at # 0
    BY <1>4, <1>8
  <2> QED BY <1>7, <2>1, <2>2, <2>3 DEF Feasible
<1>10. Planned(f, pool, k, p)
  BY <1>4, <1>8, <1>9 DEF Planned
<1> QED BY <1>10 DEF p, old

\* What ProcessImpl plans for a key and a request, when it does anything.
LEMMA PlanIsFeasible ==
  ASSUME NEW f, GoodFile(f), NEW pool, VoidBlocks(f, pool), NEW mode,
         NEW k \in Keys, NEW req \in Requests, Plan(f, pool, mode, k, req).kind # "noop"
  PROVE  Planned(f, pool, k, Plan(f, pool, mode, k, req))
<1> DEFINE hit == Find(f, k)
           old == OldRecord(f, hit)
           kind == Kind(hit, old, mode, req)
           val == IF req \in Values THEN req ELSE None
           free == IF mode = "IN_PLACE" /\ kind \in {"add", "move"}
                   THEN FetchFreeBlock(pool, Size[val]) ELSE {}
           top == f.bucket[BucketOf(f, k)]
<1>1. Plan(f, pool, mode, k, req) = Operation(kind, k, val, hit, old, free, top)
  BY DEF Plan, PlanAt, PlanFor
<1>2. /\ hit.at \in Nat /\ hit.parent \in Nat
      /\ hit.at # 0 => Readable(f, hit.at) /\ f.recs[hit.at].key = k
  BY FindHits
<1>3. pool \in SUBSET BlockSet
  BY DEF VoidBlocks
<1>4. /\ free \in SUBSET pool /\ (free # {} => Least(free) \in free)
      /\ kind = "remove" => free = {}
  BY <1>3, FetchTakesBlock
<1>5. top \in Nat /\ Leads(f, top)
  <2>1. BucketOf(f, k) \in Buckets
    BY ParamsAssumption DEF GoodFile, FileSet, BucketOf
  <2> QED BY <2>1 DEF GoodFile, FileSet
<1>6. kind # "noop"
  BY <1>1 DEF Operation
<1> HIDE DEF hit
<1>7. /\ kind \in {"add", "shadow", "remove", "overwrite", "move"}
      /\ kind # "add" => hit.at # 0
  BY <1>6 DEF Kind
<1>8. val \in Values \cup {None}
  OBVIOUS
<1> HIDE DEF kind, free, top, val
<1>9. Planned(f, pool, k, Operation(kind, k, val, hit, OldRecord(f, hit), free, top))
  BY <1>2, <1>4, <1>5, <1>7, <1>8, OperationIsFeasible
<1> QED BY <1>1, <1>9

-----------------------------------------------------------------------------
(* The writes of an operation.                                               *)

\* Everything of the file but its records and buckets.
SameHead(f, g) ==
  /\ g.mode = f.mode /\ g.layout = f.layout /\ g.closed = f.closed /\ g.num = f.num
  /\ g.size = f.size /\ g.pool = f.pool /\ g.tail = f.tail

\* What has been written stays readable, and the head of the file stays.
Keeps(f, g) ==
  /\ GoodFile(g) /\ SameHead(f, g)
  /\ DOMAIN f.recs \subseteq DOMAIN g.recs
  /\ \A o : Readable(f, o) => Readable(g, o)

\* What the four operations on the file make of it: g is f with ...
\* ... space for one more record,
Appended(f, g, size) ==
  /\ Keeps(f, g) /\ DOMAIN g.recs = 1 .. Len(f.recs) + 1
  /\ \A i \in DOMAIN f.recs : g.recs[i] = f.recs[i]
  /\ g.recs[Len(f.recs) + 1] = Zero(size)
\* ... the record of p at o,
Written(f, g, p, o) ==
  /\ Keeps(f, g) /\ DOMAIN g.recs = DOMAIN f.recs \cup {o}
  /\ \A i \in DOMAIN f.recs : i # o => g.recs[i] = f.recs[i]
  /\ g.recs[o] = p.new /\ Readable(g, o)
\* ... other links,
Linked(f, g) ==
  /\ Keeps(f, g) /\ DOMAIN g.recs = DOMAIN f.recs
  /\ \A i \in DOMAIN f.recs : /\ g.recs[i].op = f.recs[i].op
                              /\ g.recs[i].key = f.recs[i].key
                              /\ g.recs[i].size = f.recs[i].size
\* ... a void record in the place of the old record of p.
Voided(f, g, p) ==
  /\ Keeps(f, g) /\ DOMAIN g.recs = DOMAIN f.recs
  /\ \A i \in DOMAIN f.recs : i # p.at => g.recs[i] = f.recs[i]
  /\ g.recs[p.at] = Void(p.oldsize)

\* Other records in the same file.
HasRecords(f, g, recs) ==
  g \in FileSet /\ g.recs = recs /\ g.bucket = f.bucket /\ SameHead(f, g)
LEMMA WithRecords ==
  ASSUME NEW f \in FileSet, NEW recs \in Seq(RecordSet)
  PROVE  HasRecords(f, [f EXCEPT !.recs = recs], recs)
<1> DEFINE g == [f EXCEPT !.recs = recs]
<1>1. g \in FileSet
  BY DEF FileSet
<1>2. g.recs = recs /\ g.bucket = f.bucket
  BY DEF FileSet
<1>3. SameHead(f, g)
  BY DEF FileSet, SameHead
<1> QED BY <1>1, <1>2, <1>3 DEF HasRecords

\* File::Append: the space for a record, which nothing leads to.
LEMMA AppendKeeps ==
  ASSUME NEW f, GoodFile(f), NEW size \in Nat, NEW recs, recs = Append(f.recs, Zero(size)),
         NEW g, g = [f EXCEPT !.recs = recs]
  PROVE  Appended(f, g, size)
<1>1. f \in FileSet /\ f.recs \in Seq(RecordSet) /\ Len(f.recs) \in Nat
  BY DEF GoodFile, FileSet
<1>2. Zero(size) \in RecordSet /\ WellFormed(Zero(size)) /\ Zero(size).child = 0
  BY ParamsAssumption DEF Zero, Record, RecordSet, WellFormed, IsOperation, IsSet
<1>3. /\ g.recs = Append(f.recs, Zero(size)) /\ g.bucket = f.bucket /\ SameHead(f, g)
      /\ g \in FileSet
  <2>1. recs \in Seq(RecordSet)
    BY <1>1, <1>2
  <2>2. g.recs = recs /\ g.bucket = f.bucket /\ SameHead(f, g) /\ g \in FileSet
    <3>1. HasRecords(f, g, recs)
      BY <2>1, <1>1, WithRecords
    <3> QED BY <3>1 DEF HasRecords
  <2> QED BY <2>2
<1>4. /\ DOMAIN g.recs = 1 .. Len(f.recs) + 1
      /\ \A i \in DOMAIN f.recs : g.recs[i] = f.recs[i]
      /\ g.recs[Len(f.recs) + 1] = Zero(size)
      /\ DOMAIN f.recs = 1 .. Len(f.recs)
  BY <1>1, <1>2, <1>3
<1>5. \A o : Readable(f, o) => Readable(g, o)
  BY <1>1, <1>4 DEF Readable
<1>6. \A b \in Buckets : Leads(g, g.bucket[b])
  BY <1>3, <1>5 DEF GoodFile, Leads
<1>7. \A i \in DOMAIN g.recs : Leads(g, g.recs[i].child) /\ WellFormed(g.recs[i])
  <2>1. TAKE i \in DOMAIN g.recs
  <2>2. CASE i \in DOMAIN f.recs
    BY <2>2, <1>4, <1>5 DEF GoodFile, Leads
  <2>3. CASE i = Len(f.recs) + 1
    BY <2>3, <1>2, <1>4 DEF Leads
  <2> QED BY <2>2, <2>3, <1>1, <1>4
<1>8. DOMAIN f.recs \subseteq DOMAIN g.recs
  BY <1>1, <1>4
<1>9. Keeps(f, g)
  BY <1>3, <1>5, <1>6, <1>7, <1>8 DEF Keeps, GoodFile
<1> QED BY <1>4, <1>9 DEF Appended

\* HashRecord::Write, over a record or behind the last one.
LEMMA WriteKeeps ==
  ASSUME NEW f, GoodFile(f), NEW p, p.new \in RecordSet, WellFormed(p.new),
         IsOperation(p.new), Leads(f, p.new.child), NEW o \in 1 .. Len(f.recs) + 1,
         NEW g, g = WriteRecord(f, p, o)
  PROVE  Written(f, g, p, o)
<1>1. /\ f \in FileSet /\ f.recs \in Seq(RecordSet) /\ Len(f.recs) \in Nat
      /\ DOMAIN f.recs = 1 .. Len(f.recs)
  BY DEF GoodFile, FileSet
<1>2. g.recs \in Seq(RecordSet) /\ g.bucket = f.bucket /\ SameHead(f, g) /\ g \in FileSet
  <2> DEFINE recs == IF o > Len(f.recs) THEN Append(f.recs, p.new)
                     ELSE [f.recs EXCEPT ![o] = p.new]
  <2>1. g = [f EXCEPT !.recs = recs]
    BY DEF WriteRecord
  <2>2. recs \in Seq(RecordSet)
    BY <1>1
  <2> HIDE DEF recs
  <2>3. HasRecords(f, g, recs)
    BY <2>1, <2>2, <1>1, WithRecords
  <2> QED BY <2>2, <2>3 DEF HasRecords
<1>3. /\ DOMAIN g.recs = DOMAIN f.recs \cup {o}
      /\ \A i \in DOMAIN f.recs : i # o => g.recs[i] = f.recs[i]
      /\ g.recs[o] = p.new
  <2>1. g.recs = IF o > Len(f.recs) THEN Append(f.recs, p.new) ELSE [f.recs EXCEPT ![o] = p.new]
    BY <1>1 DEF FileSet, WriteRecord
  <2>2. CASE o > Len(f.recs)
    <3>1. o = Len(f.recs) + 1
      BY <2>2, <1>1
    <3> QED BY <2>1, <2>2, <3>1, <1>1
  <2>3. CASE ~ (o > Len(f.recs))
    BY <2>1, <2>3, <1>1
  <2> QED BY <2>2, <2>3
<1>4. Readable(g, o) /\ \A x : Readable(f, x) => Readable(g, x)
  BY <1>3 DEF Readable, IsOperation
<1>5. \A b \in Buckets : Leads(g, g.bucket[b])
  BY <1>2, <1>4 DEF GoodFile, Leads
<1>6. \A i \in DOMAIN g.recs : Leads(g, g.recs[i].child) /\ WellFormed(g.recs[i])
  <2>1. TAKE i \in DOMAIN g.recs
  <2>2. CASE i = o
    BY <2>2, <1>3, <1>4 DEF Leads
  <2>3. CASE i # o
    BY <2>3, <1>3, <1>4 DEF GoodFile, Leads
  <2> QED BY <2>2, <2>3
<1>7. Keeps(f, g)
  BY <1>2, <1>3, <1>4, <1>5, <1>6 DEF Keeps, GoodFile
<1> QED BY <1>3, <1>4, <1>7 DEF Written

\* The link to the old record changes and nothing else of any record.
LEMMA LinkKeeps ==
  ASSUME NEW f, GoodFile(f), NEW p, p.key \in Keys, NEW o \in Nat, Leads(f, o),
         NEW g, g = LinkRecord(f, p, o)
  PROVE  Linked(f, g)
<1> DEFINE b == BucketOf(f, p.key)
           inRecord == p.kind \in {"remove", "move"} /\ p.parent # 0
           recs == [f.recs EXCEPT ![p.parent].child = o]
<1>1. /\ f \in FileSet /\ f.recs \in Seq(RecordSet) /\ Len(f.recs) \in Nat
      /\ DOMAIN f.recs = 1 .. Len(f.recs) /\ f.bucket \in [Buckets -> Nat]
  BY DEF GoodFile, FileSet
<1>2. CASE inRecord
  <2>1. g = [f EXCEPT !.recs = recs]
    BY <1>2 DEF LinkRecord
  <2>2. \A r \in RecordSet : [r EXCEPT !.child = o] \in RecordSet
    BY DEF RecordSet
  <2> DEFINE linked == [f.recs[p.parent] EXCEPT !.child = o]
  <2>a. recs = [f.recs EXCEPT ![p.parent] = linked]
    OBVIOUS
  <2>b. p.parent \in DOMAIN f.recs => linked \in RecordSet
    <3>1. p.parent \in DOMAIN f.recs => f.recs[p.parent] \in RecordSet
      BY <1>1
    <3> QED BY <2>2, <3>1
  <2> HIDE DEF linked, recs
  <2>3. recs \in Seq(RecordSet) /\ DOMAIN recs = DOMAIN f.recs
    <3>1. CASE p.parent \in DOMAIN f.recs
      BY <3>1, <1>1, <2>a, <2>b
    <3>2. CASE p.parent \notin DOMAIN f.recs
      <4>1. recs = f.recs
        BY <3>2, <1>1, <2>a
      <4> QED BY <4>1, <1>1
    <3> QED BY <3>1, <3>2
  <2>4. \A i \in DOMAIN f.recs :
           recs[i] = IF i = p.parent THEN [f.recs[i] EXCEPT !.child = o] ELSE f.recs[i]
    BY <1>1, <2>a DEF linked
  <2>5. g.recs = recs /\ g \in FileSet /\ SameHead(f, g) /\ g.bucket = f.bucket
    <3>1. HasRecords(f, g, recs)
      BY <2>1, <2>3, <1>1, WithRecords
    <3> QED BY <3>1 DEF HasRecords
  <2>6. \A i \in DOMAIN f.recs :
           /\ g.recs[i].op = f.recs[i].op /\ g.recs[i].key = f.recs[i].key
           /\ g.recs[i].size = f.recs[i].size /\ g.recs[i].val = f.recs[i].val
           /\ g.recs[i].child \in {f.recs[i].child, o}
    <3>1. TAKE i \in DOMAIN f.recs
    <3>2. f.recs[i] \in RecordSet
      BY <1>1
    <3> QED BY <2>4, <2>5, <3>2 DEF RecordSet
  <2>7. DOMAIN g.recs = DOMAIN f.recs /\ \A x : Readable(f, x) => Readable(g, x)
    BY <2>3, <2>5, <2>6 DEF Readable
  <2>8. \A x : Leads(f, x) => Leads(g, x)
    BY <2>7 DEF Leads
  <2>9. \A i \in DOMAIN g.recs : Leads(g, g.recs[i].child) /\ WellFormed(g.recs[i])
    BY <2>6, <2>7, <2>8 DEF GoodFile, WellFormed, IsOperation, IsSet
  <2>10. \A c \in Buckets : Leads(g, g.bucket[c])
    BY <2>5, <2>8 DEF GoodFile
  <2> QED BY <2>5, <2>6, <2>7, <2>9, <2>10 DEF Keeps, GoodFile, Linked
<1>3. CASE ~inRecord
  <2> DEFINE bucket == [f.bucket EXCEPT ![b] = o]
  <2>1. g = [f EXCEPT !.bucket = bucket]
    BY <1>3 DEF LinkRecord
  <2>2. bucket \in [Buckets -> Nat] /\ \A c \in Buckets : bucket[c] \in {f.bucket[c], o}
    BY <1>1
  <2> HIDE DEF bucket
  <2>3. g \in FileSet
    BY <1>1, <2>1, <2>2 DEF FileSet
  <2>4. g.recs = f.recs /\ g.bucket = bucket
    BY <1>1, <2>1 DEF FileSet
  <2>5. SameHead(f, g)
    BY <1>1, <2>1 DEF FileSet, SameHead
  <2>6. \A x : (Readable(f, x) => Readable(g, x)) /\ (Leads(f, x) => Leads(g, x))
    BY <2>4 DEF Readable, Leads
  <2>7. \A c \in Buckets : Leads(g, g.bucket[c])
    BY <2>2, <2>4, <2>6 DEF GoodFile
  <2>8. \A i \in DOMAIN g.recs : Leads(g, g.recs[i].child) /\ WellFormed(g.recs[i])
    BY <2>4, <2>6 DEF GoodFile
  <2> QED BY <2>3, <2>4, <2>5, <2>6, <2>7, <2>8 DEF Keeps, GoodFile, Linked
<1> QED BY <1>2, <1>3

\* The old record becomes a void one of the same size.
LEMMA VoidKeeps ==
  ASSUME NEW f, GoodFile(f), NEW p, p.at \in DOMAIN f.recs, p.oldsize \in Nat,
         NEW g, g = VoidRecord(f, p)
  PROVE  Voided(f, g, p)
<1> DEFINE recs == [f.recs EXCEPT ![p.at] = Void(p.oldsize)]
<1>1. /\ f \in FileSet /\ f.recs \in Seq(RecordSet) /\ Len(f.recs) \in Nat
      /\ DOMAIN f.recs = 1 .. Len(f.recs)
  BY DEF GoodFile, FileSet
<1>2. /\ Void(p.oldsize) \in RecordSet /\ WellFormed(Void(p.oldsize))
      /\ Void(p.oldsize).child = 0 /\ Void(p.oldsize).op = "VOID"
  BY ParamsAssumption DEF Void, Record, RecordSet, WellFormed, IsOperation, IsSet
<1>3. g = [f EXCEPT !.recs = recs]
  BY DEF VoidRecord
<1>4. /\ recs \in Seq(RecordSet) /\ DOMAIN recs = DOMAIN f.recs
      /\ recs[p.at] = Void(p.oldsize)
      /\ \A i \in DOMAIN f.recs : i # p.at => recs[i] = f.recs[i]
  BY <1>1, <1>2
<1> HIDE DEF recs
<1>5. g.recs = recs /\ g \in FileSet /\ SameHead(f, g) /\ g.bucket = f.bucket
  <2>1. HasRecords(f, g, recs)
    BY <1>1, <1>3, <1>4, WithRecords
  <2> QED BY <2>1 DEF HasRecords
<1>6. \A x : (Readable(f, x) => Readable(g, x)) /\ (Leads(f, x) => Leads(g, x))
  BY <1>2, <1>4, <1>5 DEF Readable, Leads
<1>7. \A c \in Buckets : Leads(g, g.bucket[c])
  BY <1>5, <1>6 DEF GoodFile
<1>8. \A i \in DOMAIN g.recs : Leads(g, g.recs[i].child) /\ WellFormed(g.recs[i])
  <2>1. TAKE i \in DOMAIN g.recs
  <2>2. CASE i = p.at
    BY <2>2, <1>2, <1>4, <1>5 DEF Leads
  <2>3. CASE i # p.at
    BY <2>3, <1>4, <1>5, <1>6 DEF GoodFile
  <2> QED BY <2>2, <2>3
<1> QED BY <1>4, <1>5, <1>6, <1>7, <1>8 DEF Keeps, GoodFile, Voided

\* InsertFreeBlock adds the block, and drops another one or the block itself.
LEMMA InsertAddsBlock ==
  ASSUME NEW pool, NEW off, NEW size
  PROVE  InsertFreeBlock(pool, off, size) \subseteq pool \cup {[off |-> off, size |-> size]}
  BY DEF InsertFreeBlock

-----------------------------------------------------------------------------
(* A whole operation, as an import makes it.                                 *)

\* The state of an import into a file of the mode m and the layout l.
SoundStates(m, l) ==
  {s \in [f : FileSet, pool : SUBSET BlockSet, num : Int] :
     /\ GoodFile(s.f) /\ VoidBlocks(s.f, s.pool) /\ NoHoles(s.f)
     /\ s.f.mode = m /\ s.f.layout = l /\ s.f.closed = TRUE /\ s.f.tail = FALSE}

\* Neither the record found nor the space taken is a free block any more.
LEMMA PlanIsOutsidePool ==
  ASSUME NEW f, GoodFile(f), NEW pool, VoidBlocks(f, pool), NEW k \in Keys, NEW p,
         Planned(f, pool, k, p), NEW x \in pool \ p.free
  PROVE  x.off # p.at /\ x.off # p.into
<1>1. /\ x.off \in DOMAIN f.recs /\ f.recs[x.off].op = "VOID" /\ f.recs[x.off].size = x.size
      /\ x \in BlockSet
  BY DEF VoidBlocks
<1>2. f.recs[x.off].key \notin Keys /\ x.off # 0
  <2>1. WellFormed(f.recs[x.off])
    BY <1>1 DEF GoodFile
  <2>2. f.recs \in Seq(RecordSet)
    BY DEF GoodFile, FileSet
  <2> QED BY <1>1, <2>1, <2>2 DEF WellFormed, IsOperation
<1>3. x.off # p.at
  BY <1>2 DEF Planned
<1>4. CASE p.into = 0 \/ p.into = p.at
  BY <1>2, <1>3, <1>4
<1>5. CASE \E y \in p.free : y.off = p.into
  <2>1. PICK y \in p.free : y.off = p.into
    BY <1>5
  <2>2. y \in BlockSet /\ f.recs[y.off].size = y.size /\ x # y
    BY DEF VoidBlocks, Planned
  <2>3. x.off = y.off => x = y
    BY <2>2, <1>1 DEF BlockSet
  <2> QED BY <2>1, <2>2, <2>3, <1>3
<1> QED BY <1>3, <1>4, <1>5 DEF Planned

\* The writes of a planned operation keep the file and the pool sound.
LEMMA ApplyKeeps ==
  ASSUME NEW m, NEW l, NEW s \in SoundStates(m, l), NEW k \in Keys, NEW p,
         Planned(s.f, s.pool, k, p)
  PROVE  ApplyPlan(s, p) \in SoundStates(m, l)
<1> DEFINE f == s.f
           o == IF p.into # 0 THEN p.into ELSE Len(f.recs) + 1
           written == IF p.kind = "remove" THEN f ELSE WriteRecord(f, p, o)
           target == IF p.kind = "remove" THEN p.next ELSE o
           linked == IF p.kind = "overwrite" THEN written ELSE LinkRecord(written, p, target)
           voids == p.kind \in {"remove", "move"}
           g == IF voids THEN VoidRecord(linked, p) ELSE linked
           rest == s.pool \ p.free
           pool == IF voids THEN InsertFreeBlock(rest, p.at, p.oldsize) ELSE rest
<1>1. ApplyPlan(s, p) = [f |-> g, pool |-> pool, num |-> s.num + CountChange(p)]
  BY DEF ApplyPlan, Apply, Planned, Feasible, OperationSet
<1>2. /\ GoodFile(f) /\ VoidBlocks(f, s.pool) /\ NoHoles(f) /\ Planned(f, s.pool, k, p)
      /\ f.mode = m /\ f.layout = l /\ f.closed = TRUE /\ f.tail = FALSE /\ s.num \in Int
  BY DEF SoundStates
<1> HIDE DEF f
<1>3. /\ f.recs \in Seq(RecordSet) /\ Len(f.recs) \in Nat /\ DOMAIN f.recs = 1 .. Len(f.recs)
  BY <1>2 DEF GoodFile, FileSet
<1>4. /\ Feasible(f, p) /\ p \in OperationSet /\ p.key \in Keys
      /\ p.at \in Nat /\ p.next \in Nat /\ p.oldsize \in Nat /\ p.into \in Nat
      /\ voids => p.at \in DOMAIN f.recs
  BY <1>2 DEF Planned, Feasible, OperationSet, Readable
<1>5. \A x \in rest : x.off # p.at /\ x.off # p.into
  BY <1>2, PlanIsOutsidePool
<1>6. o \in 1 .. Len(f.recs) + 1
  BY SMTT(20), <1>3, <1>4 DEF Feasible
<1>7. /\ Keeps(f, written) /\ VoidBlocks(written, rest) /\ NoHoles(written)
      /\ p.kind # "remove" => Readable(written, o)
  <2>1. CASE p.kind = "remove"
    BY <2>1, <1>2 DEF Keeps, VoidBlocks, SameHead
  <2>2. CASE p.kind # "remove"
    <3>1. /\ Keeps(f, written) /\ DOMAIN written.recs = DOMAIN f.recs \cup {o}
          /\ \A i \in DOMAIN f.recs : i # o => written.recs[i] = f.recs[i]
          /\ Readable(written, o)
      <4>1. /\ p.new \in RecordSet /\ WellFormed(p.new) /\ IsOperation(p.new)
            /\ Leads(f, p.new.child)
        BY <1>4 DEF Feasible, OperationSet
      <4>2. written = WriteRecord(f, p, o)
        BY <2>2
      <4> HIDE DEF o, written
      <4>3. Written(f, written, p, o)
        BY <4>1, <4>2, <1>2, <1>6, WriteKeeps
      <4> QED BY <4>3 DEF Written
    <3>2. \A x \in rest : x.off \in DOMAIN f.recs /\ x.off # o
      BY SMTT(20), <1>2, <1>3, <1>5 DEF VoidBlocks
    <3> HIDE DEF o, written
    <3>3. VoidBlocks(written, rest)
      BY <1>2, <3>1, <3>2 DEF VoidBlocks
    <3>4. NoHoles(written)
      BY <1>2, <3>1 DEF NoHoles, Readable
    <3> QED BY <3>1, <3>3, <3>4
  <2> QED BY <2>1, <2>2
<1>8. target \in Nat /\ Leads(written, target)
  <2> HIDE DEF written, o
  <2>1. o \in Nat
    BY <1>3, <1>6
  <2>2. Leads(written, p.next)
    BY <1>4, <1>7 DEF Feasible, Leads, Keeps
  <2>3. p.kind # "remove" => Leads(written, o)
    BY <1>7 DEF Leads
  <2> QED BY <1>4, <2>1, <2>2, <2>3
<1> HIDE DEF o, written, target
<1>9. Keeps(f, linked) /\ VoidBlocks(linked, rest) /\ NoHoles(linked)
  <2>1. CASE p.kind = "overwrite"
    BY <2>1, <1>7
  <2>2. CASE p.kind # "overwrite"
    <3>1. GoodFile(written)
      BY <1>7 DEF Keeps
    <3>2. /\ Keeps(written, linked) /\ DOMAIN linked.recs = DOMAIN written.recs
          /\ \A i \in DOMAIN written.recs : /\ linked.recs[i].op = written.recs[i].op
                                            /\ linked.recs[i].size = written.recs[i].size
      <4>1. linked = LinkRecord(written, p, target)
        BY <2>2
      <4> HIDE DEF linked
      <4>2. Linked(written, linked)
        BY <3>1, <4>1, <1>4, <1>8, LinkKeeps
      <4> QED BY <4>2 DEF Linked
    <3> HIDE DEF linked
    <3>3. Keeps(f, linked)
      BY <3>2, <1>7 DEF Keeps, SameHead
    <3> QED BY <3>2, <3>3, <1>7 DEF VoidBlocks, NoHoles
  <2> QED BY <2>1, <2>2
<1> HIDE DEF linked
<1>10. Keeps(f, g) /\ VoidBlocks(g, pool) /\ NoHoles(g)
  <2>1. CASE ~voids
    BY <2>1, <1>9
  <2>2. CASE voids
    <3>1. GoodFile(linked) /\ p.at \in DOMAIN linked.recs
      BY <2>2, <1>4, <1>9 DEF Keeps
    <3>2. /\ Keeps(linked, g) /\ DOMAIN g.recs = DOMAIN linked.recs
          /\ \A i \in DOMAIN linked.recs : i # p.at => g.recs[i] = linked.recs[i]
          /\ g.recs[p.at] = Void(p.oldsize)
      <4>1. g = VoidRecord(linked, p)
        BY <2>2
      <4> HIDE DEF g
      <4>2. Voided(linked, g, p)
        BY <3>1, <4>1, <1>4, VoidKeeps
      <4> QED BY <4>2 DEF Voided
    <3>3. pool \subseteq rest \cup {[off |-> p.at, size |-> p.oldsize]}
      BY <2>2, InsertAddsBlock
    <3> HIDE DEF g, pool, rest
    <3>4. Keeps(f, g)
      BY <3>2, <1>9 DEF Keeps, SameHead
    <3>5. VoidBlocks(g, rest)
      BY <3>2, <1>5, <1>9 DEF VoidBlocks
    <3>6. VoidBlocks(g, {[off |-> p.at, size |-> p.oldsize]})
      <4>1. p.at \in DOMAIN g.recs
        BY <3>1, <3>2
      <4>2. g.recs[p.at].op = "VOID" /\ g.recs[p.at].size = p.oldsize
        BY <3>2 DEF Void, Record
      <4>3. [off |-> p.at, size |-> p.oldsize] \in BlockSet
        BY <1>4 DEF BlockSet
      <4> QED BY <4>1, <4>2, <4>3 DEF VoidBlocks
    <3>7. VoidBlocks(g, pool)
      BY <3>3, <3>5, <3>6 DEF VoidBlocks
    <3>8. NoHoles(g)
      BY <3>2, <1>9 DEF NoHoles, Void, Record
    <3> QED BY <3>4, <3>7, <3>8
  <2> QED BY <2>1, <2>2
<1> HIDE DEF g, pool
<1>11. CountChange(p) \in Int
  BY DEF CountChange
<1>12. /\ g \in FileSet /\ GoodFile(g) /\ pool \in SUBSET BlockSet
       /\ g.mode = m /\ g.layout = l /\ g.closed = TRUE /\ g.tail = FALSE
  BY <1>2, <1>10 DEF Keeps, GoodFile, VoidBlocks, SameHead
<1> QED BY <1>1, <1>2, <1>10, <1>11, <1>12 DEF SoundStates

\* ProcessImpl keeps the file and the pool sound.
LEMMA ProcessKeeps ==
  ASSUME NEW m, NEW l, NEW s \in SoundStates(m, l), NEW mode, NEW k \in Keys,
         NEW req \in Requests
  PROVE  Process(s, mode, k, req) \in SoundStates(m, l)
<1> DEFINE p == Plan(s.f, s.pool, mode, k, req)
<1>1. Process(s, mode, k, req) = ApplyPlan(s, p)
  BY DEF Process
<1>2. GoodFile(s.f) /\ VoidBlocks(s.f, s.pool)
  BY DEF SoundStates
<1>3. p.kind # "noop" => Planned(s.f, s.pool, k, p)
  BY <1>2, PlanIsFeasible
<1> HIDE DEF p
<1>4. CASE p.kind = "noop"
  BY <1>1, <1>4 DEF ApplyPlan, Apply
<1>5. CASE p.kind # "noop"
  BY <1>1, <1>3, <1>5, ApplyKeeps
<1> QED BY <1>4, <1>5

-----------------------------------------------------------------------------
(* Imports and restorations.                                                 *)

\* A function that follows the steps stays inside T.
LEMMA StaysInside ==
  ASSUME NEW T, NEW N \in Nat, NEW C, C[0] \in T,
         \A i \in 1 .. N : C[i - 1] \in T => C[i] \in T
  PROVE  \A i \in 0 .. N : C[i] \in T
<1> DEFINE Bad == {i \in 0 .. N : C[i] \notin T}
<1>1. SUFFICES ASSUME Bad # {} PROVE FALSE
  BY <1>1
<1>2. Bad \subseteq Nat
  OBVIOUS
<1> HIDE DEF Bad
<1>3. PICK m \in Bad : \A i \in Bad : m <= i
  BY <1>1, <1>2, LeastElement
<1> USE DEF Bad
<1>4. m \in 1 .. N /\ m - 1 \in 0 .. N /\ ~ (m <= m - 1)
  OBVIOUS
<1>5. C[m - 1] \in T
  BY <1>3, <1>4
<1> QED BY <1>4, <1>5

\* One record of the old file is replayed.
LEMMA ReplayKeeps ==
  ASSUME NEW m, NEW l, NEW s \in SoundStates(m, l), NEW mode, NEW rec, WellFormed(rec)
  PROVE  Replay(s, mode, rec) \in SoundStates(m, l)
<1>1. IsOperation(rec) => rec.key \in Keys /\ Request(rec) \in Requests
  BY DEF WellFormed, Request, Requests
<1> QED BY <1>1, ProcessKeeps DEF Replay

\* ImportFromFileForwardImpl.
LEMMA ForwardKeeps ==
  ASSUME NEW m, NEW l, NEW s \in SoundStates(m, l), NEW mode, NEW recs, Len(recs) \in Nat,
         \A i \in 1 .. Len(recs) : WellFormed(recs[i])
  PROVE  ImportForward(s, mode, recs) \in SoundStates(m, l)
<1> DEFINE T == SoundStates(m, l)
           N == Len(recs)
           Body(c) == [i \in 0 .. N |-> IF i = 0 THEN s ELSE Replay(c[i - 1], mode, recs[i])]
           step == [i \in 1 .. N |-> [x \in T |-> Replay(x, mode, recs[i])]]
           C == CHOOSE c : c = Body(c)
<1>1. \A i \in 1 .. N : \A x \in T : Replay(x, mode, recs[i]) \in T
  BY ReplayKeeps
<1> HIDE DEF T
<1>2. step \in [1 .. N -> [T -> T]]
  BY <1>1
<1>3. PICK g \in [0 .. N -> T] : Computes(g, N, s, step)
  <2>1. s \in T
    BY DEF T
  <2> HIDE DEF step
  <2> QED BY <1>2, <2>1, Recursion
<1>4. g = Body(g)
  <2>1. \A i \in 1 .. N : g[i - 1] \in T
    BY <1>3
  <2>2. \A i \in 1 .. N : g[i] = Replay(g[i - 1], mode, recs[i])
    BY <1>3, <2>1 DEF Computes
  <2>3. g[0] = s
    BY <1>3 DEF Computes
  <2> QED BY <1>3, <2>2, <2>3
<1>5. C = Body(C)
  BY <1>4
<1>6. ImportForward(s, mode, recs) = C[N]
  BY DEF ImportForward
<1> HIDE DEF C
<1>7. C[0] = s /\ \A i \in 1 .. N : C[i] = Replay(C[i - 1], mode, recs[i])
  BY <1>5
<1>8. C[0] \in T /\ \A i \in 1 .. N : C[i - 1] \in T => C[i] \in T
  BY <1>1, <1>7 DEF T
<1>9. C[N] \in T
  <2>1. N \in Nat /\ N \in 0 .. N
    OBVIOUS
  <2> HIDE DEF N
  <2>2. \A i \in 0 .. N : C[i] \in T
    BY <1>8, <2>1, StaysInside
  <2> QED BY <2>1, <2>2
<1> QED BY <1>6, <1>9 DEF T

\* One record of the old file is recalled, in the order from the last to the first.
LEMMA RecallKeeps ==
  ASSUME NEW m, NEW l, NEW acc \in [s : SoundStates(m, l), dead : SUBSET Keys], NEW mode,
         NEW rec, WellFormed(rec)
  PROVE  Recall(acc, mode, rec) \in [s : SoundStates(m, l), dead : SUBSET Keys]
<1>1. IsOperation(rec) => rec.key \in Keys
  BY DEF WellFormed
<1>2. IsOperation(rec) /\ IsSet(rec) => Process(acc.s, mode, rec.key, rec.val) \in SoundStates(m, l)
  BY <1>1, ProcessKeeps DEF WellFormed, Requests
<1> QED BY <1>1, <1>2 DEF Recall

\* ImportFromFileBackwardImpl.
LEMMA BackwardKeeps ==
  ASSUME NEW m, NEW l, NEW s \in SoundStates(m, l), NEW mode, NEW recs, Len(recs) \in Nat,
         \A i \in 1 .. Len(recs) : WellFormed(recs[i])
  PROVE  ImportBackward(s, mode, recs) \in SoundStates(m, l)
<1> DEFINE T == [s : SoundStates(m, l), dead : SUBSET Keys]
           N == Len(recs)
           top == [s |-> s, dead |-> {}]
           Body(c) == [i \in 0 .. N |-> IF i = 0 THEN top
                                         ELSE Recall(c[i - 1], mode, recs[N + 1 - i])]
           step == [i \in 1 .. N |-> [x \in T |-> Recall(x, mode, recs[N + 1 - i])]]
           C == CHOOSE c : c = Body(c)
<1>1. \A i \in 1 .. N : \A x \in T : Recall(x, mode, recs[N + 1 - i]) \in T
  <2>1. TAKE i \in 1 .. N
  <2>2. WellFormed(recs[N + 1 - i])
    OBVIOUS
  <2> QED BY <2>2, RecallKeeps
<1>2. top \in T
  OBVIOUS
<1>3. \A x \in T : x.s \in SoundStates(m, l)
  OBVIOUS
<1> HIDE DEF T, top
<1>4. step \in [1 .. N -> [T -> T]]
  BY <1>1
<1>5. PICK g \in [0 .. N -> T] : Computes(g, N, top, step)
  <2> HIDE DEF step
  <2> QED BY <1>2, <1>4, Recursion
<1>6. g = Body(g)
  <2>1. \A i \in 1 .. N : g[i - 1] \in T
    BY <1>5
  <2>2. \A i \in 1 .. N : g[i] = Recall(g[i - 1], mode, recs[N + 1 - i])
    BY <1>5, <2>1 DEF Computes
  <2>3. g[0] = top
    BY <1>5 DEF Computes
  <2> QED BY <1>5, <2>2, <2>3
<1>7. C = Body(C)
  BY <1>6
<1>8. ImportBackward(s, mode, recs) = C[N].s
  BY DEF ImportBackward, top
<1> HIDE DEF C
<1>9. C[0] = top /\ \A i \in 1 .. N : C[i] = Recall(C[i - 1], mode, recs[N + 1 - i])
  BY <1>7
<1>10. C[0] \in T /\ \A i \in 1 .. N : C[i - 1] \in T => C[i] \in T
  BY <1>1, <1>2, <1>9
<1>11. C[N] \in T
  <2>1. N \in Nat /\ N \in 0 .. N
    OBVIOUS
  <2> HIDE DEF N
  <2>2. \A i \in 0 .. N : C[i] \in T
    BY <1>10, <2>1, StaysInside
  <2> QED BY <2>1, <2>2
<1> QED BY <1>3, <1>8, <1>11

-----------------------------------------------------------------------------
(* Opening a file.                                                           *)

\* A new file is sound.
LEMMA NewFileIsSound ==
  ASSUME NEW m \in Modes, NEW l \in {1, 2}
  PROVE  NewFile(m, l) \in SoundStates(m, l)
<1> DEFINE f == EmptyFile(m, l)
<1>1. /\ f.recs = <<>> /\ f.bucket = [b \in Buckets |-> 0] /\ f.mode = m /\ f.layout = l
      /\ f.closed = TRUE /\ f.tail = FALSE
  BY DEF EmptyFile
<1>2. f \in FileSet
  BY DEF EmptyFile, FileSet
<1> HIDE DEF f
<1>3. GoodFile(f) /\ VoidBlocks(f, {}) /\ NoHoles(f)
  BY <1>1, <1>2 DEF GoodFile, VoidBlocks, Leads, NoHoles
<1> DEFINE n == NewFile(m, l)
<1>4. n = [f |-> f, pool |-> {}, num |-> 0]
  BY DEF NewFile, f
<1>5. n \in [f : FileSet, pool : SUBSET BlockSet, num : Int]
  BY <1>2, <1>4
<1>6. n.f = f /\ n.pool = {}
  BY <1>4
<1> HIDE DEF n
<1>7. n \in SoundStates(m, l)
  BY <1>1, <1>3, <1>5, <1>6 DEF SoundStates
<1> QED BY <1>7 DEF n

\* The file g is sound and closed, in the mode m.
SoundAndClosed(g, m) ==
  /\ GoodFile(g) /\ VoidBlocks(g, g.pool) /\ SizeMatches(g) /\ NoHoles(g)
  /\ g.mode = m /\ g.closed = TRUE

\* SaveMetadata and the saving of the pool at the end of a restoration.
LEMMA SavedIsSound ==
  ASSUME NEW m, NEW l, NEW s \in SoundStates(m, l)
  PROVE  SoundAndClosed(Saved(s), m)
<1> DEFINE f == s.f
           pool == Serialize(s.pool)
           g == [f EXCEPT !.num = s.num, !.size = Len(f.recs), !.pool = pool]
<1>1. Saved(s) = g
  BY DEF Saved
<1>2. /\ GoodFile(f) /\ VoidBlocks(f, s.pool) /\ f \in FileSet /\ s.num \in Int
      /\ f.mode = m /\ f.closed = TRUE /\ f.tail = FALSE /\ NoHoles(f)
  BY DEF SoundStates
<1>3. pool \subseteq s.pool
  BY DEF Serialize
<1>4. Len(f.recs) \in Nat /\ pool \in SUBSET BlockSet
  BY <1>2, <1>3 DEF FileSet, VoidBlocks
<1> HIDE DEF f, pool
<1>5. g \in FileSet
  BY <1>2, <1>4 DEF FileSet
<1>6. /\ g.recs = f.recs /\ g.bucket = f.bucket /\ g.mode = m /\ g.closed = TRUE
      /\ g.tail = FALSE /\ g.size = Len(f.recs) /\ g.pool = pool
  BY <1>2 DEF FileSet
<1> HIDE DEF g
<1>7. GoodFile(g)
  BY <1>2, <1>5, <1>6 DEF GoodFile, Leads, Readable
<1>8. VoidBlocks(g, g.pool)
  BY <1>2, <1>3, <1>6 DEF VoidBlocks
<1>9. NoHoles(g)
  BY <1>2, <1>6 DEF NoHoles
<1> QED BY <1>1, <1>6, <1>7, <1>8, <1>9 DEF SizeMatches, SoundAndClosed

\* RestoreDatabase makes a sound file, closed, in the mode of the old one.
LEMMA RestoreIsSound ==
  ASSUME NEW f, GoodFile(f), NEW restore
  PROVE  SoundAndClosed(RestoreDatabase(f, restore), f.mode)
<1> DEFINE end == IF restore = "SYNC" /\ f.size < Len(f.recs) THEN f.size ELSE Len(f.recs)
           recs == Salvaged(f, end)
           start == NewFile(f.mode, f.layout)
           s == IF f.mode = "APPENDING" THEN ImportBackward(start, f.mode, recs)
                ELSE ImportForward(start, f.mode, recs)
<1>1. RestoreDatabase(f, restore) = Saved(s)
  BY DEF RestoreDatabase, Import
<1>2. /\ f.mode \in Modes /\ f.layout \in {1, 2} /\ f.size \in Nat /\ Len(f.recs) \in Nat
      /\ DOMAIN f.recs = 1 .. Len(f.recs) /\ \A i \in DOMAIN f.recs : WellFormed(f.recs[i])
  BY DEF GoodFile, FileSet
<1>3. end \in Nat /\ end <= Len(f.recs)
  BY <1>2
<1> HIDE DEF end
<1>4. WellFormed(Zero(1))
  BY ParamsAssumption DEF Zero, Record, WellFormed, IsOperation, IsSet
<1>5. Len(recs) = end /\ \A i \in 1 .. Len(recs) : WellFormed(recs[i])
  <2>1. recs = [i \in 1 .. end |-> IF Visited(f)[i] THEN f.recs[i] ELSE Zero(1)]
    BY DEF Salvaged
  <2>2. \A i \in 1 .. end : recs[i] = f.recs[i] \/ recs[i] = Zero(1)
    BY <2>1
  <2>3. Len(recs) = end
    BY <1>3, <2>1
  <2> QED BY <1>2, <1>3, <1>4, <2>2, <2>3
<1> HIDE DEF recs
<1>6. start \in SoundStates(f.mode, f.layout)
  BY <1>2, NewFileIsSound
<1> HIDE DEF start
<1>7. s \in SoundStates(f.mode, f.layout)
  BY <1>3, <1>5, <1>6, ForwardKeeps, BackwardKeeps
<1> HIDE DEF s
<1> QED BY <1>1, <1>7, SavedIsSound

\* g is f without records that were never written, and without its tail.
Cut(f, g) ==
  /\ GoodFile(g) /\ g.tail = FALSE /\ g.mode = f.mode /\ g.closed = f.closed
  /\ g.num = f.num /\ g.size = f.size /\ g.pool = f.pool

\* The first n elements of a sequence.
LEMMA HeadOfSequence ==
  ASSUME NEW S, NEW s \in Seq(S), NEW n \in 0 .. Len(s)
  PROVE  /\ SubSeq(s, 1, n) \in Seq(S) /\ Len(SubSeq(s, 1, n)) = n
         /\ DOMAIN SubSeq(s, 1, n) = 1 .. n /\ \A i \in 1 .. n : SubSeq(s, 1, n)[i] = s[i]
  OBVIOUS

\* Truncating a file behind its last written record.
LEMMA TruncateCuts ==
  ASSUME NEW f, GoodFile(f), NEW n \in 0 .. Len(f.recs),
         \A j \in n + 1 .. Len(f.recs) : f.recs[j].op = "ZERO"
  PROVE  Cut(f, Truncate(f, n)) /\ Truncate(f, n).recs = SubSeq(f.recs, 1, n)
<1> DEFINE g == Truncate(f, n)
           recs == SubSeq(f.recs, 1, n)
<1>1. /\ f \in FileSet /\ f.recs \in Seq(RecordSet) /\ Len(f.recs) \in Nat
      /\ DOMAIN f.recs = 1 .. Len(f.recs)
  BY DEF GoodFile, FileSet
<1>2. /\ recs \in Seq(RecordSet) /\ DOMAIN recs = 1 .. n
      /\ \A i \in 1 .. n : recs[i] = f.recs[i]
  BY <1>1, HeadOfSequence
<1>3. g = [f EXCEPT !.recs = recs, !.tail = FALSE]
  BY DEF Truncate
<1> HIDE DEF recs
<1>4. g \in FileSet
  BY <1>1, <1>2, <1>3 DEF FileSet
<1>5. /\ g.recs = recs /\ g.bucket = f.bucket /\ g.tail = FALSE /\ g.mode = f.mode
      /\ g.closed = f.closed /\ g.num = f.num /\ g.size = f.size /\ g.pool = f.pool
  BY <1>1, <1>3 DEF FileSet
<1> HIDE DEF g
<1>6. \A o : Readable(f, o) => Readable(g, o)
  <2>1. SUFFICES ASSUME NEW o, Readable(f, o) PROVE Readable(g, o)
    OBVIOUS
  <2>2. o \in 1 .. Len(f.recs) /\ f.recs[o].op # "ZERO"
    BY <2>1, <1>1 DEF Readable
  <2>3. o \in 1 .. n
    BY <2>2, <1>1
  <2> QED BY <2>2, <2>3, <1>2, <1>5 DEF Readable
<1>7. \A b \in Buckets : Leads(g, g.bucket[b])
  BY <1>5, <1>6 DEF GoodFile, Leads
<1>8. \A i \in DOMAIN g.recs : Leads(g, g.recs[i].child) /\ WellFormed(g.recs[i])
  <2>1. TAKE i \in DOMAIN g.recs
  <2>2. i \in DOMAIN f.recs /\ g.recs[i] = f.recs[i]
    BY <1>1, <1>2, <1>5
  <2> QED BY <2>2, <1>6 DEF GoodFile, Leads
<1> QED BY <1>4, <1>5, <1>7, <1>8 DEF g, recs, Cut, GoodFile

\* No byte lies between the start of a record and itself.
LEMMA NoDistance == ASSUME NEW recs, NEW o \in Nat PROVE Distance(recs, o, o) = 0
<1> DEFINE fun == [n \in DOMAIN recs |-> recs[n].size]
<1>1. o .. o - 1 = {}
  OBVIOUS
<1>2. Distance(recs, o, o) = SumFunctionOnSet(fun, {})
  BY <1>1 DEF Distance
<1> HIDE DEF fun
<1> DEFINE Body(sum) == [s \in SUBSET {} |->
                           IF s = {} THEN 0
                           ELSE LET x == CHOOSE x \in s : TRUE IN fun[x] + sum[s \ {x}]]
           total == CHOOSE sum : sum = Body(sum)
<1>3. SumFunctionOnSet(fun, {}) = total[{}]
  BY DEF SumFunctionOnSet, FoldFunctionOnSet, MapThenFoldSet
<1>4. \A sum : Body(sum) = [s \in {{}} |-> 0]
  OBVIOUS
<1>5. total = Body(total)
  <2>1. Body([s \in {{}} |-> 0]) = [s \in {{}} |-> 0]
    BY <1>4
  <2> HIDE DEF Body
  <2> QED BY <2>1
<1>6. total[{}] = 0
  BY <1>4, <1>5
<1> QED BY <1>2, <1>3, <1>6

\* CheckZeroRegion is complete if only the last record may be unwritten, however
\* little of the file it reads.
LEMMA LastHoleIsSeen ==
  ASSUME NEW f, GoodFile(f),
         \A i \in DOMAIN f.recs : f.recs[i].op = "ZERO" => i = Len(f.recs)
  PROVE  FullCheck(f)
<1>1. Len(f.recs) \in Nat /\ DOMAIN f.recs = 1 .. Len(f.recs)
  BY DEF GoodFile, FileSet
<1>2. SUFFICES ASSUME NEW o \in DOMAIN f.recs, ZeroRegion(f, o)
               PROVE  \A j \in o .. Len(f.recs) : f.recs[j].op = "ZERO"
  BY DEF FullCheck
<1>3. o \in Nat /\ o \in o .. Len(f.recs)
  BY <1>1
<1>4. Distance(f.recs, o, o) = 0 /\ 0 < MaxCheckSize
  BY <1>3, NoDistance, ParamsAssumption
<1>5. f.recs[o].op = "ZERO"
  BY <1>2, <1>3, <1>4 DEF ZeroRegion
<1>6. o = Len(f.recs)
  BY <1>5
<1> QED BY <1>1, <1>5, <1>6

\* OpenImpl cuts zeros only, and nothing of a file that has the recorded size.
LEMMA TrimCuts ==
  ASSUME NEW f, GoodFile(f), FullCheck(f)
  PROVE  /\ GoodFile(TrimTail(f)) /\ TrimTail(f).mode = f.mode
         /\ TrimTail(f).closed = f.closed /\ TrimTail(f).pool = f.pool
         /\ SizeMatches(f) => TrimTail(f).recs = f.recs /\ SizeMatches(TrimTail(f))
         /\ HolesBehind(f) => HolesBehind(TrimTail(f))
<1>1. /\ f.recs \in Seq(RecordSet) /\ Len(f.recs) \in Nat /\ DOMAIN f.recs = 1 .. Len(f.recs)
      /\ f.size \in Nat
  BY DEF GoodFile, FileSet
<1>2. CASE f.size <= Len(f.recs) /\ ZeroRegion(f, f.size + 1)
  <2>1. TrimTail(f) = Truncate(f, f.size)
    BY <1>2 DEF TrimTail
  <2>2. \A j \in f.size + 1 .. Len(f.recs) : f.recs[j].op = "ZERO"
    <3>1. f.size + 1 <= Len(f.recs) => f.size + 1 \in DOMAIN f.recs
      BY <1>1
    <3> QED BY <1>1, <1>2, <3>1 DEF FullCheck
  <2>3. Cut(f, Truncate(f, f.size)) /\ Truncate(f, f.size).recs = SubSeq(f.recs, 1, f.size)
    <3>1. f.size \in 0 .. Len(f.recs)
      BY <1>1, <1>2
    <3> QED BY <3>1, <2>2, TruncateCuts
  <2>4. f.size = Len(f.recs) => SubSeq(f.recs, 1, f.size) = f.recs
    BY <1>1
  <2>5. HolesBehind(f) => NoHoles(TrimTail(f))
    <3>1. \A i \in 1 .. f.size : SubSeq(f.recs, 1, f.size)[i] = f.recs[i] /\ ~ (i > f.size)
      BY <1>1, <1>2
    <3>2. DOMAIN SubSeq(f.recs, 1, f.size) = 1 .. f.size /\ 1 .. f.size \subseteq DOMAIN f.recs
      BY <1>1, <1>2
    <3> QED BY <2>1, <2>3, <3>1, <3>2 DEF HolesBehind, NoHoles
  <2>6. Len(TrimTail(f).recs) = f.size /\ TrimTail(f).size = f.size
    BY SMTT(20), <1>1, <1>2, <2>1, <2>3 DEF Cut
  <2>7. HolesBehind(f) => HolesBehind(TrimTail(f))
    BY <1>1, <2>5, <2>6 DEF HolesBehind, NoHoles
  <2>8. Cut(f, TrimTail(f)) /\ (SizeMatches(f) => TrimTail(f).recs = f.recs)
    BY <2>1, <2>3, <2>4 DEF SizeMatches
  <2> QED BY <2>7, <2>8 DEF Cut, SizeMatches
<1>3. CASE ~(f.size <= Len(f.recs) /\ ZeroRegion(f, f.size + 1))
  <2>1. TrimTail(f) = f
    BY <1>3 DEF TrimTail
  <2> QED BY <2>1
<1> QED BY <1>2, <1>3

\* What ValidateRecordsImpl counts is an integer.
LEMMA ActCountIsInteger ==
  ASSUME NEW recs, Len(recs) \in Nat, NEW mode
  PROVE  ActCount(recs, mode) \in Int
<1> DEFINE N == Len(recs)
           Body(c) == [i \in 0 .. N |-> IF i = 0 THEN 0 ELSE c[i - 1] + Counted(recs[i], mode)]
           step == [i \in 1 .. N |-> [x \in Int |-> x + Counted(recs[i], mode)]]
           C == CHOOSE c : c = Body(c)
<1>1. \A i \in 1 .. N : Counted(recs[i], mode) \in Int
  BY DEF Counted
<1>2. step \in [1 .. N -> [Int -> Int]]
  BY <1>1
<1>3. PICK g \in [0 .. N -> Int] : Computes(g, N, 0, step)
  <2>1. N \in Nat /\ 0 \in Int
    OBVIOUS
  <2> HIDE DEF step, N
  <2> QED BY <1>2, <2>1, Recursion
<1>4. g = Body(g)
  <2>1. \A i \in 1 .. N : g[i - 1] \in Int
    BY <1>3
  <2>2. \A i \in 1 .. N : g[i] = g[i - 1] + Counted(recs[i], mode)
    BY <1>3, <2>1 DEF Computes
  <2>3. g[0] = 0
    BY <1>3 DEF Computes
  <2> QED BY <1>3, <2>2, <2>3
<1>5. C = Body(C)
  BY <1>4
<1>6. ActCount(recs, mode) = C[N]
  BY DEF ActCount
<1> HIDE DEF C
<1>7. C[0] = 0 /\ \A i \in 1 .. N : C[i] = C[i - 1] + Counted(recs[i], mode)
  BY <1>5
<1>8. C[0] \in Int /\ \A i \in 1 .. N : C[i - 1] \in Int => C[i] \in Int
  BY <1>1, <1>7
<1>9. C[N] \in Int
  <2>1. N \in Nat /\ N \in 0 .. N
    OBVIOUS
  <2> HIDE DEF N
  <2>2. \A i \in 0 .. N : C[i] \in Int
    BY <1>8, <2>1, StaysInside
  <2> QED BY <2>1, <2>2
<1> QED BY <1>6, <1>9

\* A validated file has no written record behind the end that was found.
LEMMA ValidateFindsEnd ==
  ASSUME NEW f, GoodFile(f), FullCheck(f), NEW mode, NEW base \in 1 .. Len(f.recs) + 1,
         Validate(f, mode, base).ok
  PROVE  /\ Validate(f, mode, base).end \in 0 .. Len(f.recs)
         /\ \A j \in Validate(f, mode, base).end + 1 .. Len(f.recs) : f.recs[j].op = "ZERO"
         /\ Validate(f, mode, base).count \in Int
         /\ \A j \in base .. Validate(f, mode, base).end : Readable(f, j)
<1> DEFINE holes == {j \in base .. Len(f.recs) : ~Readable(f, j)} \cup {Len(f.recs) + 1}
           end == FirstHole(f, base) - 1
<1>1. /\ f.recs \in Seq(RecordSet) /\ Len(f.recs) \in Nat /\ DOMAIN f.recs = 1 .. Len(f.recs)
  BY DEF GoodFile, FileSet
<1>2. /\ FirstHole(f, base) \in base .. Len(f.recs) + 1
      /\ \A j \in base .. Len(f.recs) : ~Readable(f, j) => FirstHole(f, base) <= j
  <2>1. holes \subseteq Nat /\ holes # {} /\ holes \subseteq base .. Len(f.recs) + 1
    BY <1>1
  <2>2. FirstHole(f, base) = Min(holes)
    BY DEF FirstHole
  <2>3. \A j \in base .. Len(f.recs) : ~Readable(f, j) => j \in holes
    OBVIOUS
  <2> HIDE DEF holes
  <2> QED BY <2>1, <2>2, <2>3, MinIsElement
<1>3. end \in 0 .. Len(f.recs) /\ end + 1 >= base /\ \A j \in base .. end : Readable(f, j)
  BY <1>1, <1>2
<1> HIDE DEF end
<1>4. /\ Validate(f, mode, base).end = end
      /\ Validate(f, mode, base).count = ActCount(SubSeq(f.recs, base, end), mode)
      /\ end < Len(f.recs) => ZeroRegion(f, end + 1)
  BY DEF Validate, ValidateTo, end
<1>5. \A j \in end + 1 .. Len(f.recs) : f.recs[j].op = "ZERO"
  <2>1. CASE end < Len(f.recs)
    <3>1. end + 1 \in DOMAIN f.recs
      BY SMTT(20), <1>1, <1>3, <2>1
    <3> QED BY <1>4, <2>1, <3>1 DEF FullCheck
  <2>2. CASE ~ (end < Len(f.recs))
    BY <1>1, <1>3, <2>2
  <2> QED BY <2>1, <2>2
<1>6. Len(SubSeq(f.recs, base, end)) \in Nat
  BY <1>1, <1>3
<1> QED BY <1>3, <1>4, <1>5, <1>6, ActCountIsInteger

\* What Open does with f is sound: the file it goes on with, and the memory; or
\* the file it restored, to be opened next.
SoundOpen(f, o) ==
  /\ GoodFile(o.f) /\ o.f.mode = f.mode
  /\ HolesBehind(f) => NoHoles(o.f) /\ o.f.size <= Len(o.f.recs)
  /\ \/ o.restore = TRUE /\ SoundAndClosed(o.f, f.mode)
     \/ /\ o.restore = FALSE /\ o.f.tail = FALSE /\ VoidBlocks(o.f, o.pool) /\ o.num \in Int
        /\ f.mode = "IN_PLACE" => o.f.closed = FALSE

\* The three ways in which Open accepts a trimmed file, and the restoration.
LEMMA OpenTrimmedIsSound ==
  ASSUME NEW f, GoodFile(f), FullCheck(f), NEW restore,
         NEW base \in {1, f.size + 1}, f.size <= Len(f.recs) => base \in 1 .. Len(f.recs) + 1,
         f.mode = "IN_PLACE" /\ f.closed => SizeMatches(f) /\ VoidBlocks(f, f.pool)
  PROVE  SoundOpen(f, OpenTrimmed(f, restore, base))
<1> DEFINE check == Validate(f, f.mode, base)
           healthy == f.closed /\ SizeMatches(f)
           o == OpenTrimmed(f, restore, base)
<1>1. /\ f \in FileSet /\ f.num \in Int /\ f.mode \in Modes /\ f.tail \in BOOLEAN
      /\ f.closed \in BOOLEAN /\ f.size \in Nat /\ f.recs \in Seq(RecordSet)
      /\ DOMAIN f.recs = 1 .. Len(f.recs) /\ Len(f.recs) \in Nat
  <2>1. /\ f \in FileSet /\ f.size \in Nat /\ f.recs \in Seq(RecordSet)
        /\ DOMAIN f.recs = 1 .. Len(f.recs) /\ Len(f.recs) \in Nat
    BY GoodShape DEF HasShape
  <2>2. f.num \in Int /\ f.mode \in Modes /\ f.tail \in BOOLEAN /\ f.closed \in BOOLEAN
    BY <2>1 DEF FileSet
  <2> QED BY <2>1, <2>2
<1>2. o = Reopen(f, restore, healthy, base, check)
  BY DEF OpenTrimmed
<1> SUFFICES SoundOpen(f, o)
  OBVIOUS
<1> HIDE DEF o, check
<1>a. HolesBehind(f) /\ SizeMatches(f) => NoHoles(f) /\ f.size <= Len(f.recs)
  BY <1>1 DEF HolesBehind, NoHoles, SizeMatches
<1>3. CASE healthy
  <2> DEFINE g == [f EXCEPT !.closed = FALSE]
             pool == IF f.mode = "IN_PLACE" THEN f.pool ELSE {}
  <2>1. o = Opened(g, f.num, pool)
    BY <1>2, <1>3 DEF Reopen
  <2>2. g \in FileSet
    BY <1>1 DEF FileSet
  <2>3. /\ g.recs = f.recs /\ g.bucket = f.bucket /\ g.mode = f.mode /\ g.tail = f.tail
        /\ g.closed = FALSE /\ g.size = f.size
    BY <1>1 DEF FileSet
  <2>4. f.tail = FALSE
    BY <1>1, <1>3 DEF SizeMatches
  <2> HIDE DEF g
  <2>5. GoodFile(g)
    BY <2>2, <2>3 DEF GoodFile, Leads, Readable
  <2>6. VoidBlocks(g, pool)
    <3>1. CASE f.mode = "IN_PLACE"
      BY <1>3, <2>3, <3>1 DEF VoidBlocks
    <3>2. CASE f.mode # "IN_PLACE"
      BY <3>2 DEF VoidBlocks
    <3> QED BY <3>1, <3>2
  <2> HIDE DEF pool
  <2>7. o.restore = FALSE /\ o.f = g /\ o.num = f.num /\ o.pool = pool
    BY <2>1 DEF Opened
  <2>8. HolesBehind(f) => NoHoles(g) /\ g.size <= Len(g.recs)
    BY <1>3, <1>a, <2>3 DEF NoHoles
  <2> QED BY <1>1, <2>3, <2>4, <2>5, <2>6, <2>7, <2>8 DEF SoundOpen
<1>4. CASE ~healthy /\ f.mode = "APPENDING" /\ SizeMatches(f)
  <2>1. o = Opened(f, f.num, {})
    BY <1>2, <1>4 DEF Reopen
  <2>2. o.restore = FALSE /\ o.f = f /\ o.num = f.num /\ o.pool = {}
    BY <2>1 DEF Opened
  <2>3. f.tail = FALSE
    BY <1>1, <1>4 DEF SizeMatches
  <2> QED BY <1>1, <1>4, <1>a, <2>2, <2>3 DEF SoundOpen, VoidBlocks
<1>5. CASE /\ ~healthy /\ ~(f.mode = "APPENDING" /\ SizeMatches(f))
           /\ restore = "DEFAULT" /\ f.size <= Len(f.recs) /\ check.ok
  <2> DEFINE g == Truncate(f, check.end)
             num == (IF base = 1 THEN 0 ELSE f.num) + check.count
  <2>1. o = Opened(g, num, {})
    BY <1>2, <1>5 DEF Reopen
  <2>2. /\ check.end \in 0 .. Len(f.recs) /\ check.count \in Int
        /\ \A j \in check.end + 1 .. Len(f.recs) : f.recs[j].op = "ZERO"
        /\ \A j \in base .. check.end : Readable(f, j)
    BY <1>5, ValidateFindsEnd DEF check
  <2>3. Cut(f, g) /\ g.recs = SubSeq(f.recs, 1, check.end)
    BY <2>2, TruncateCuts
  <2> HIDE DEF g
  <2>a. HolesBehind(f) => NoHoles(g) /\ g.size <= Len(g.recs)
    <3>a. PICK n \in 0 .. Len(f.recs) : n = check.end
      BY <2>2
    <3>b. /\ g.recs = SubSeq(f.recs, 1, n) /\ g.size = f.size /\ n \in Nat
          /\ \A j \in n + 1 .. Len(f.recs) : f.recs[j].op = "ZERO"
          /\ \A j \in base .. n : Readable(f, j)
      BY <1>1, <2>2, <2>3, <3>a DEF Cut
    <3>c. DOMAIN g.recs = 1 .. n /\ Len(g.recs) = n /\ \A i \in 1 .. n : g.recs[i] = f.recs[i]
      BY <1>1, <3>b, HeadOfSequence
    <3>d. HolesBehind(f) => f.size <= n
      <4>1. SUFFICES ASSUME HolesBehind(f), ~ (f.size <= n) PROVE FALSE
        OBVIOUS
      <4>2. n + 1 \in 1 .. Len(f.recs) /\ n + 1 <= f.size
        BY <1>1, <1>5, <3>b, <4>1
      <4>3. n + 1 \in DOMAIN f.recs /\ f.recs[n + 1].op = "ZERO"
        BY <1>1, <3>b, <4>2
      <4>4. n + 1 > f.size
        BY <4>1, <4>3 DEF HolesBehind
      <4> QED BY <1>1, <3>b, <4>2, <4>4
    <3>1. SUFFICES ASSUME HolesBehind(f), NEW i \in 1 .. n PROVE f.recs[i].op # "ZERO"
      BY <3>b, <3>c, <3>d, <3>1 DEF NoHoles
    <3>2. CASE i >= base
      BY <3>b, <3>2 DEF Readable
    <3>3. CASE ~ (i >= base)
      <4>1. i \in DOMAIN f.recs /\ i \in Nat
        BY <1>1, <3>b
      <4>2. ~ (i > f.size)
        BY <1>1, <3>3, <4>1
      <4> QED BY <3>1, <4>1, <4>2 DEF HolesBehind
    <3> QED BY <3>2, <3>3
  <2>4. num \in Int
    BY <1>1, <2>2
  <2> HIDE DEF num
  <2>5. o.restore = FALSE /\ o.f = g /\ o.num = num /\ o.pool = {}
    BY <2>1 DEF Opened
  <2>6. f.mode = "IN_PLACE" => f.closed = FALSE
    BY <1>1, <1>5
  <2> QED BY <2>3, <2>a, <2>4, <2>5, <2>6 DEF SoundOpen, VoidBlocks, Cut
<1>6. CASE /\ ~healthy /\ ~(f.mode = "APPENDING" /\ SizeMatches(f))
           /\ ~(restore = "DEFAULT" /\ f.size <= Len(f.recs) /\ check.ok)
  <2> DEFINE g == RestoreDatabase(f, restore)
  <2>1. o = [restore |-> TRUE, f |-> g, num |-> 0, pool |-> {}]
    BY <1>2, <1>6 DEF Reopen
  <2>2. SoundAndClosed(g, f.mode)
    BY RestoreIsSound
  <2> HIDE DEF g
  <2>3. o.restore = TRUE /\ o.f = g
    BY <2>1
  <2>4. g.size <= Len(g.recs)
    <3>1. GoodFile(g) /\ g.size = Len(g.recs)
      BY <2>2 DEF SoundAndClosed, SizeMatches
    <3> QED BY <3>1, GoodShape DEF HasShape
  <2> QED BY <2>2, <2>3, <2>4 DEF SoundOpen, SoundAndClosed
<1> QED BY <1>3, <1>4, <1>5, <1>6

\* Open makes a sound database of a good file, however the last session ended, if
\* CheckZeroRegion, which reads 128 KiB at most, sees all that follows a hole of the
\* file and of the trimmed file, and if the pool of a file that was closed in place
\* is sound.
THEOREM OpenIsSound ==
  ASSUME NEW f, GoodFile(f), FullCheck(f), FullCheck(TrimTail(f)), NEW restore,
         f.mode = "IN_PLACE" /\ f.closed => SizeMatches(f) /\ VoidBlocks(f, f.pool)
  PROVE  SoundOpen(f, Open(f, restore))
<1> DEFINE g == TrimTail(f)
           base == IF g.mode = "IN_PLACE" THEN 1 ELSE g.size + 1
<1>1. Open(f, restore) = OpenTrimmed(g, restore, base)
  BY DEF Open
<1>2. /\ GoodFile(g) /\ g.mode = f.mode /\ g.closed = f.closed /\ g.pool = f.pool
      /\ SizeMatches(f) => g.recs = f.recs /\ SizeMatches(g)
      /\ HolesBehind(f) => HolesBehind(g)
  BY TrimCuts
<1>3. FullCheck(g)
  OBVIOUS
<1> HIDE DEF g
<1>4. base \in {1, g.size + 1} /\ (g.size <= Len(g.recs) => base \in 1 .. Len(g.recs) + 1)
  <2>1. g.size \in Nat /\ Len(g.recs) \in Nat
    BY <1>2, GoodShape DEF HasShape
  <2> QED BY <2>1
<1> HIDE DEF base
<1>5. g.mode = "IN_PLACE" /\ g.closed => SizeMatches(g) /\ VoidBlocks(g, g.pool)
  BY <1>2 DEF VoidBlocks
<1>6. SoundOpen(g, OpenTrimmed(g, restore, base))
  BY <1>2, <1>3, <1>4, <1>5, OpenTrimmedIsSound
<1> QED BY <1>1, <1>2, <1>6 DEF SoundOpen
=============================================================================

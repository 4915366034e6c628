----------------------------- MODULE ParallelFile -----------------------------
(* The file classes under the databases (tkrzw_file_mmap.cc, tkrzw_file_pos.cc):  *)
(* threads read, write and append to one file object.  Each atomic access of the  *)
(* code is a step.                                                                *)
(*                                                                                *)
(*   kind = "mmap"    MemoryMapParallelFile                                       *)
(*   kind = "pos"     PositionalParallelFile with the block size 1                *)
(*   kind = "block"   with a larger block size                                    *)
(*   kind = "cached"  with a larger block size and ACCESS_PAGECACHE               *)
(*                                                                                *)
(* f is the object but for file_size: trunc (trunc_size_ or map_size_), mapped    *)
(* (what the mapping covers), head (the head buffer), mutex (the owner of mutex_  *)
(* between two steps of AllocateSpace), and the disk, cache and region of         *)
(* FilePages.  A thread t is at pc[t] of the call call[t], with the data and the  *)
(* requests io[t].  What the callers owe: no two threads at work on the same      *)
(* cells, and, as the headers say, Open, Close, Truncate, Synchronize and         *)
(* SetHeadBuffer run alone.  bytes is what the file promises to hold; shown says  *)
(* that the file of the operating system was just brought up to date.             *)
EXTENDS FilePages, FiniteSets

CONSTANTS Threads, None,
          MaxSize,         \* bound on the size of the file, in cells
          PageUnit,        \* PAGE_SIZE
          AllocInit,       \* alloc_init_size_
          AllocInc,        \* alloc_inc_factor_, in percent
          Lengths,         \* the lengths of the reads and writes
          Sizes,           \* the sizes given to Truncate and SetHeadBuffer
          Limits           \* the scenes: a kind with what may happen

Calls == {"append", "expand", "write", "read", "truncate", "fakely", "sync", "head", "close"}
ASSUME FileAssumption ==
  /\ {MaxSize, PageUnit, AllocInit} \cup Lengths \subseteq Nat \ {0}
  /\ Sizes \subseteq 0 .. MaxSize
  /\ AllocInc \in Nat /\ AllocInc >= 100 /\ None \notin Threads
  /\ Limits \subseteq [kind : {"mmap", "pos", "block", "cached"}, calls : SUBSET Calls,
                       threads : Nat, ops : Nat, whole : Nat, fails : Nat, padding : SUBSET (Nat \ {0})]

VARIABLES file_size, f, pc, call, io, left, bytes, shown
object == <<file_size, f>>
ghosts == <<left, bytes, shown>>
vars == <<object, pc, call, io, ghosts>>

Unknown == -2      \* a cell nobody may rely on
Cells == 0 .. MaxSize - 1

NoCall == [op |-> "none", off |-> 0, len |-> 0]
NoIo == [val |-> Null, reqs |-> <<>>, buf |-> <<>>]
Mapped == left.kind = "mmap"
Block == IF left.kind \in {"block", "cached"} THEN BlockSize ELSE 1

\* The sizes Open, Truncate and AllocateSpace give to the file.
Aligned(n) == AlignNumber(n, AtLeast(PageUnit, Block))
OpenSize(n) == Aligned(AtLeast(n, AllocInit))
TruncSize(n) == Aligned(AtLeast(AtLeast(n, PageUnit), AllocInit))
GrownSize(n, trunc) == Aligned(AtLeast(n, (trunc * AllocInc) \div 100))

Opened(d) ==
  LET n == OpenSize(Len(d))
  IN  [open |-> TRUE, trunc |-> n, mapped |-> n, head |-> <<>>, mutex |-> None,
       disk |-> ftruncate(d, n), cache |-> <<>>, region |-> n]

Init ==
  /\ left \in Limits
  /\ file_size = 0 /\ f = Opened(<<>>)
  /\ pc = [t \in Threads |-> "idle"]
  /\ call = [t \in Threads |-> NoCall]
  /\ io = [t \in Threads |-> NoIo]
  /\ bytes = [c \in Cells |-> Unknown]
  /\ shown = FALSE

------------------------------------------------------------------------------
(* Threads.  A call first makes room in the file and reserves its cells, then it  *)
(* uses them.                                                                     *)

Reserving == {"load", "alloc", "grow", "region", "cas"}
Using == {"lock", "zone", "io", "hit", "rest", "extend", "return"}

Busy == {t \in Threads : pc[t] # "idle"}
RangeOf(r) == r.off .. r.off + r.len - 1
End(r) == r.off + r.len
Goto(t, place) == pc' = [pc EXCEPT ![t] = place]
Grows(r) == r.op \in {"append", "expand"}
Waiting == {t \in Busy : Grows(call[t]) /\ pc[t] \in Reserving}
ToCome == SumFunctionOnSet([t \in Threads |-> call[t].len], Waiting)
NeededEnd(r) == AlignNumber(End(r), Block)
Access == IF Mapped THEN "lock" ELSE "io"

\* A call.  Writes behind the end of the file are made with no other call under way.
\* A read behind the end fails and changes nothing.
Begin(t) ==
  /\ pc[t] = "idle" /\ f.open /\ left.ops > 0
  /\ Cardinality(Busy) < left.threads
  /\ \E op \in left.calls \cap {"append", "expand", "write", "read"}, len \in Lengths, off \in 0 .. file_size :
       LET r == [op |-> op, off |-> off, len |-> len]
       IN  /\ End(r) + ToCome <= MaxSize
           /\ Grows(r) => off = file_size
           /\ ~Grows(r) => \A u \in Busy \ Waiting : RangeOf(call[u]) \cap RangeOf(r) = {}
           /\ op = "write" /\ End(r) > file_size => Busy = {}
           /\ op = "read" => End(r) <= file_size
           /\ \A u \in Busy : call[u].op = "write" => End(call[u]) <= file_size
           /\ call' = [call EXCEPT ![t] = r]
           /\ Goto(t, IF Grows(r) THEN "load" ELSE IF op = "write" THEN "alloc" ELSE Access)
  /\ io' = [io EXCEPT ![t] = [NoIo EXCEPT !.val = left.ops]]
  /\ left' = [left EXCEPT !.ops = @ - 1]
  /\ shown' = FALSE
  /\ UNCHANGED <<object, bytes>>

\* Append and Expand: file_size_.load().
Load(t) ==
  /\ pc[t] = "load"
  /\ call' = [call EXCEPT ![t].off = file_size]
  /\ Goto(t, "alloc")
  /\ UNCHANGED <<object, io, ghosts>>

\* AllocateSpace, its first test.
AllocateSpace(t) ==
  /\ pc[t] = "alloc"
  /\ Goto(t, IF NeededEnd(call[t]) <= f.trunc THEN "cas" ELSE "grow")
  /\ UNCHANGED <<object, call, io, ghosts>>

\* AllocateSpace with the mutex: the second test, ftruncate, mremap, and the sizes.
Unowned == f.mutex = None /\ \A u \in Threads : pc[u] # "zone"
Grown(n) == [f EXCEPT !.trunc = n, !.disk = ftruncate(@, n), !.mapped = n]
Grow_noRemap(t) ==
  /\ pc[t] = "grow" /\ Unowned
  /\ f' = [Grown(GrownSize(NeededEnd(call[t]), f.trunc)) EXCEPT !.mapped = f.mapped]
  /\ Goto(t, "cas")
  /\ UNCHANGED <<file_size, call, io, ghosts>>
Grow(t) ==
  /\ pc[t] = "grow" /\ Unowned
  /\ IF NeededEnd(call[t]) <= f.trunc THEN Goto(t, "cas") /\ UNCHANGED f
     ELSE LET g == Grown(GrownSize(NeededEnd(call[t]), f.trunc))
          IN  IF left.kind = "cached"
              THEN f' = [g EXCEPT !.mutex = t] /\ Goto(t, "region")
              ELSE f' = g /\ Goto(t, "cas")
  /\ UNCHANGED <<file_size, call, io, ghosts>>
GrowFails(t) ==
  /\ pc[t] = "grow" /\ Unowned /\ left.fails > 0 /\ NeededEnd(call[t]) > f.trunc
  /\ left' = [left EXCEPT !.fails = @ - 1]
  /\ Goto(t, "idle")
  /\ call' = [call EXCEPT ![t] = NoCall]
  /\ io' = [io EXCEPT ![t] = NoIo]
  /\ UNCHANGED <<object, bytes, shown>>
SetRegionSize(t) ==
  /\ pc[t] = "region"
  /\ f' = [f EXCEPT !.region = f.trunc, !.mutex = None]
  /\ Goto(t, "cas")
  /\ UNCHANGED <<file_size, call, io, ghosts>>

\* The exchange of file_size_, which reserves the cells.
AfterReserve(t) == IF call[t].op = "expand" /\ ~Mapped THEN "return" ELSE Access
Reserve_stores(t) ==
  /\ pc[t] = "cas"
  /\ file_size' = AtLeast(file_size, End(call[t]))
  /\ Goto(t, AfterReserve(t))
  /\ UNCHANGED <<f, call, io, ghosts>>
Reserve(t) ==
  /\ pc[t] = "cas"
  /\ IF Grows(call[t]) /\ file_size # call[t].off THEN Goto(t, "load") /\ UNCHANGED file_size
     ELSE file_size' = AtLeast(file_size, End(call[t])) /\ Goto(t, AfterReserve(t))
  /\ UNCHANGED <<f, call, io, ghosts>>

------------------------------------------------------------------------------
(* Access to the cells *)

Reads(t) == call[t].op = "read"

\* The zone of a memory-mapped file holds mutex_ shared while the cells are copied.
Zone(t) ==
  /\ pc[t] = "lock" /\ f.mutex = None
  /\ Goto(t, "zone")
  /\ UNCHANGED <<object, call, io, ghosts>>
Copy(t) ==
  LET r == call[t]
  IN  /\ pc[t] = "zone"
      /\ f' = IF r.op \in {"write", "append"} THEN [f EXCEPT !.disk = PWrite(@, r.off, Fill(io[t].val, r.len))]
              ELSE f
      /\ io' = [io EXCEPT ![t].buf = IF Reads(t) THEN PRead(f.disk, r.off, r.len) ELSE <<>>]
      /\ Goto(t, "return")
      /\ UNCHANGED <<file_size, call, ghosts>>

\* WriteImpl of a file with blocks: the blocks at both ends are read first.
WriteBlocks(d, off, buf) ==
  LET rem == off % Block
      n == AlignNumber(rem + Len(buf), Block)
      first == IF rem > 0 THEN PWrite(Fill(Junk, n), 0, PRead(d, off - rem, Block)) ELSE Fill(Junk, n)
      aligned == IF rem + Len(buf) < n THEN PWrite(first, n - Block, PRead(d, off - rem + n - Block, Block))
                 ELSE first
  IN  PWrite(d, off - rem, PWrite(aligned, rem, buf))

\* ReadImpl and WriteImpl: first what lies in the head buffer, then the file or the cache.
Io(t) ==
  LET r == call[t]
      val == io[t].val
      inHead == AtMost(r.len, AtLeast(0, Len(f.head) - r.off))
      off == r.off + inHead
      n == r.len - inHead
      buf == IF Reads(t) THEN PRead(f.head, r.off, inHead) ELSE Fill(val, n)
      g == IF Reads(t) \/ inHead = 0 THEN f ELSE [f EXCEPT !.head = PWrite(@, r.off, Fill(val, inHead))]
  IN  /\ pc[t] = "io"
      /\ \/ /\ n = 0
            /\ f' = g
            /\ io' = [io EXCEPT ![t].buf = buf]
            /\ Goto(t, "return")
         \/ /\ n > 0 /\ left.kind # "cached"
            /\ f' = IF Reads(t) THEN g ELSE [g EXCEPT !.disk = WriteBlocks(@, off, buf)]
            /\ io' = [io EXCEPT ![t].buf = IF Reads(t) THEN buf \o PRead(f.disk, off, n) ELSE <<>>]
            /\ Goto(t, "return")
         \/ /\ n > 0 /\ left.kind = "cached"
            /\ f' = g
            /\ io' = [io EXCEPT ![t].buf = buf, ![t].reqs = MakePageRequest(f.region, off, n)]
            /\ Goto(t, "hit")
      /\ UNCHANGED <<file_size, call, ghosts>>

\* PageCache::Read and PageCache::Write: one page after the other, as long as they are cached.
AfterPages(t) == IF Reads(t) THEN "return" ELSE "extend"
FindPage(t) ==
  LET r == Head(io[t].reqs)
  IN  /\ pc[t] = "hit"
      /\ IF ~Hit(f.cache, r)
         THEN f' = [f EXCEPT !.cache = MoveLast(@, r.offset)] /\ Goto(t, "rest") /\ UNCHANGED io
         ELSE /\ f' = [f EXCEPT !.cache = IF Reads(t) THEN MoveLast(@, r.offset)
                                          ELSE SetLast(@, <<WithCopy(PageAt(@, r.offset), r, SubSeq(io[t].buf, 1, r.copy))>>)]
              /\ io' = [io EXCEPT ![t].reqs = Tail(@),
                                  ![t].buf = IF Reads(t) THEN @ \o CopyOf(PageAt(f.cache, r.offset), r)
                                             ELSE SubSeq(@, r.copy + 1, Len(@))]
              /\ Goto(t, IF Len(io[t].reqs) = 1 THEN AfterPages(t) ELSE "hit")
      /\ UNCHANGED <<file_size, call, ghosts>>

\* The rest of them, with the slot locked.
MissingPages(t) ==
  /\ pc[t] = "rest"
  /\ IF Reads(t)
     THEN LET got == ReadRest(f, io[t].reqs)
          IN  f' = got.f /\ io' = [io EXCEPT ![t].buf = @ \o got.buf, ![t].reqs = <<>>]
     ELSE /\ f' = WriteRest(f, io[t].reqs, io[t].buf)
          /\ io' = [io EXCEPT ![t].buf = <<>>, ![t].reqs = <<>>]
  /\ Goto(t, AfterPages(t))
  /\ UNCHANGED <<file_size, call, ghosts>>
ExtendRegion(t) ==
  /\ pc[t] = "extend"
  /\ f' = [f EXCEPT !.region = AtLeast(@, End(call[t]))]
  /\ Goto(t, "return")
  /\ UNCHANGED <<file_size, call, io, ghosts>>

\* The call returns: what it wrote is in the file.
Return(t) ==
  /\ pc[t] = "return"
  /\ bytes' = [c \in Cells |-> IF call[t].op \in {"write", "append"} /\ c \in RangeOf(call[t]) THEN io[t].val
                               ELSE bytes[c]]
  /\ Goto(t, "idle")
  /\ call' = [call EXCEPT ![t] = NoCall]
  /\ io' = [io EXCEPT ![t] = NoIo]
  /\ UNCHANGED <<object, left, shown>>

------------------------------------------------------------------------------
(* Operations on the whole file, which run alone *)

Alone(op) ==
  /\ Busy = {} /\ f.open /\ left.whole > 0 /\ op \in left.calls
  /\ left' = [left EXCEPT !.whole = @ - 1]
  /\ UNCHANGED <<pc, call, io>>
Upto(n) == [c \in Cells |-> IF c < AtMost(n, file_size) THEN bytes[c] ELSE Unknown]
SaveHead(g) == IF g.head = <<>> THEN g ELSE [g EXCEPT !.disk = PWrite(@, 0, g.head)]

Truncate(n) ==
  /\ Alone("truncate")
  /\ LET m == TruncSize(n)
     IN  f' = [Flush(f, 0, n) EXCEPT !.cache = <<>>, !.trunc = m, !.mapped = m, !.region = m,
                                     !.disk = ftruncate(@, m)]
  /\ file_size' = n
  /\ bytes' = Upto(n)
  /\ shown' = FALSE

TruncateFakely(n) ==
  /\ Alone("fakely") /\ n <= f.trunc
  /\ file_size' = n
  /\ bytes' = Upto(n)
  /\ shown' = FALSE
  /\ UNCHANGED f

\* Synchronize of a range; the size 0 stands for the rest of the file.
Synced(g) ==
  LET m == AlignNumber(file_size, Block)
  IN  [g EXCEPT !.trunc = m, !.region = m, !.disk = ftruncate(@, m)]
Synchronize_noHead(off, n) ==
  /\ Alone("sync")
  /\ f' = Synced(Flush(f, off, n))
  /\ shown' = (off = 0 /\ n = 0)
  /\ UNCHANGED <<file_size, bytes>>
Synchronize(off, n) ==
  /\ Alone("sync")
  /\ f' = Synced(SaveHead(Flush(f, off, n)))
  /\ shown' = (off = 0 /\ n = 0)
  /\ UNCHANGED <<file_size, bytes>>

SetHeadBuffer(n) ==
  /\ Alone("head") /\ ~Mapped
  /\ LET g == SaveHead([Flush(f, 0, 0) EXCEPT !.cache = <<>>])
         h == AlignNumber(n, Block)
     IN  f' = [g EXCEPT !.head = PWrite(Fill(Null, h), 0, PRead(g.disk, 0, AtMost(h, file_size)))]
  /\ shown' = FALSE
  /\ UNCHANGED <<file_size, bytes>>

\* Close, with ACCESS_PADDING (the unit is the block) or not.
Close ==
  /\ Alone("close")
  /\ \E unit \in left.padding :
       LET g == SaveHead(Flush(f, 0, 0))
       IN  f' = [open |-> FALSE, trunc |-> 0, mapped |-> 0, head |-> <<>>, mutex |-> None,
                 disk |-> ftruncate(g.disk, AlignNumber(file_size, unit)), cache |-> <<>>, region |-> 0]
  /\ file_size' = 0
  /\ shown' = TRUE
  /\ UNCHANGED bytes
Open ==
  /\ Busy = {} /\ ~f.open
  /\ f' = Opened(f.disk)
  /\ \E n \in 0 .. MaxSize : n = Len(f.disk) /\ file_size' = n
  /\ shown' = FALSE
  /\ UNCHANGED <<pc, call, io, left, bytes>>

Step(t) ==
  \/ Load(t) \/ AllocateSpace(t) \/ Grow(t) \/ GrowFails(t) \/ SetRegionSize(t) \/ Reserve(t)
  \/ Zone(t) \/ Copy(t)
  \/ Io(t) \/ FindPage(t) \/ MissingPages(t) \/ ExtendRegion(t)
  \/ Return(t)

Whole ==
  \/ \E n \in Sizes : Truncate(n) \/ TruncateFakely(n) \/ SetHeadBuffer(n)
  \/ \E off \in {0, BlockSize}, n \in {0, 1} : Synchronize(off, n)
  \/ Close \/ Open

Next == (\E t \in Threads : Begin(t) \/ Step(t)) \/ Whole
Spec == Init /\ [][Next]_vars

------------------------------------------------------------------------------
(* Properties *)

\* The object is well formed, and no more pages stay cached than a slot may hold
\* (ReduceCache, tkrzw_file_util.cc:1017).
TypeOK ==
  /\ file_size \in 0 .. MaxSize
  /\ pc \in [Threads -> {"idle"} \cup Reserving \cup Using]
  /\ \A i \in DOMAIN f.cache : f.cache[i].off % BlockSize = 0 /\ Len(f.cache[i].buf) \in 1 .. BlockSize
  /\ Len(f.cache) <= SlotCapacity
  /\ \A i, j \in DOMAIN f.cache : f.cache[i].off = f.cache[j].off => i = j

\* No two threads are ever given the same cells, however their loads and exchanges of
\* file_size_ interleave, and the file holds what it gave away (Append and Zone).
ReservationsAreDisjoint ==
  \A t \in Threads : pc[t] \in Using =>
    /\ End(call[t]) <= file_size
    /\ \A u \in Threads \ {t} : pc[u] \in Using => RangeOf(call[t]) \cap RangeOf(call[u]) = {}

\* What a thread is about to touch is backed by the file and, for a memory-mapped file,
\* by the mapping: the growth of the file by one thread never pulls the cells away from
\* another one (AllocateSpace; a touch of a page behind the end of the file kills the process).
BackedEnd(t) == IF Reads(t) THEN End(call[t]) ELSE NeededEnd(call[t])
AccessIsBacked ==
  \A t \in Threads : pc[t] \in Using =>
    /\ 1 .. BackedEnd(t) \subseteq DOMAIN f.disk
    /\ Mapped => End(call[t]) <= f.mapped

\* A read returns what was written last, wherever it is at that moment: the head buffer,
\* a page of the cache, whole or partial, or the file (ReadImpl, PageCache::Read).
ReadsAreExact ==
  \A t \in Threads : pc[t] = "return" /\ Reads(t) =>
    \A i \in 1 .. call[t].len :
      LET cell == call[t].off + i - 1
      IN  /\ io[t].buf[i] # Junk
          /\ bytes[cell] # Unknown => io[t].buf[i] = bytes[cell]

\* After Synchronize of the whole file, and after Close, the file of the operating system
\* has what was written, and its size ("you should call this function before accessing the
\* file with external tools", tkrzw_file.h).
FileIsPublished ==
  shown =>
    /\ \A c \in Cells : bytes[c] # Unknown => c < Len(f.disk) /\ f.disk[c + 1] = bytes[c]
    /\ f.open => Len(f.disk) = AlignNumber(file_size, Block)

\* Memory that was never filled never gets into the file (Write of a page cache does not read
\* the pages it writes whole).
NoJunkIsWritten == \A i \in DOMAIN f.disk : f.disk[i] # Junk

\* When the calls come one at a time, as the mutex of PositionalAtomicFile makes them, every
\* page of the cache is a whole block whatever the end of the file is, so that direct I/O never
\* meets a partial one ("every data sequence is aligned", doc/index.xhtml:4339).
PagesAreWhole == left.threads = 1 => \A i \in DOMAIN f.cache : Len(f.cache[i].buf) = BlockSize

\* The file and the pages of its cache are sound, and what Synchronize and Close
\* publish is what was written, no more and no less (WritePages, Synchronize).
FileIsSound == TypeOK /\ FileIsPublished /\ NoJunkIsWritten /\ PagesAreWhole
=============================================================================

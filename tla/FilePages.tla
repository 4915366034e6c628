------------------------------ MODULE FilePages ------------------------------
(* The page cache of the positional files (PageCache of tkrzw_file_util.cc) over  *)
(* a file of the operating system.                                                *)
(*                                                                                *)
(* A file is the sequence of its cells (cell i+1 is at offset i).  "f" is the     *)
(* record of a file object: its fields disk (the file), cache (the pages of one   *)
(* slot, the least recently used first: the first 32 pages share a slot) and      *)
(* region (region_size_) are used here.  A page is [off, buf, dirty]; c is the    *)
(* cache of a file object.                                                        *)
EXTENDS Integers, Sequences, Functions

CONSTANTS BlockSize,      \* page_size_, which is block_size_ of the file
          SlotCapacity    \* slot_capacity_

ASSUME PagesAssumption == BlockSize \in Nat \ {0} /\ SlotCapacity \in Nat \ {0}

Null == 0      \* the null code
Junk == -1     \* a cell of memory that nothing was written to

AlignNumber(n, unit) == ((n + unit - 1) \div unit) * unit
AtLeast(m, n) == IF m > n THEN m ELSE n
AtMost(m, n) == IF m < n THEN m ELSE n

\* ftruncate, pwrite and pread.
ftruncate(d, n) == [i \in 1 .. n |-> IF i <= Len(d) THEN d[i] ELSE Null]
PWrite(d, off, buf) ==
  [i \in DOMAIN d \cup 1 .. off + Len(buf) |->
     CASE i > off /\ i <= off + Len(buf) -> buf[i - off]
       [] i \in DOMAIN d                 -> d[i]
       [] OTHER                          -> Null]
PRead(d, off, n) == SubSeq(d, off + 1, off + n)
Fill(v, n) == [i \in 1 .. n |-> v]

------------------------------------------------------------------------------
(* Pages *)

Cached(c, off) == \E i \in DOMAIN c : c[i].off = off
PageAt(c, off) == c[CHOOSE i \in DOMAIN c : c[i].off = off]

\* Set of pages, one after the other, and Get with MOVE_LAST.
SetLast(c, pages) == SelectSeq(c, LAMBDA p : \A q \in Range(pages) : q.off # p.off) \o pages
MoveLast(c, off) == IF Cached(c, off) THEN SetLast(c, <<PageAt(c, off)>>) ELSE c

\* The requests for the pages of the range: the cells of the page before the range
\* (prefix), the cells wanted of the page (data) and those of the range (copy).
Request(region, off, size, o) ==
  LET begin == AtLeast(off, o)
      copy == AtMost(off + size, o + BlockSize) - begin
  IN  [offset |-> o, prefix |-> begin - o, copy |-> copy,
       data |-> IF begin > o THEN BlockSize ELSE AtLeast(copy, AtMost(region - o, BlockSize))]
MakePageRequest(region, off, size) ==
  LET first == off \div BlockSize
      last == (off + size - 1) \div BlockSize
  IN  [k \in 1 .. last - first + 1 |-> Request(region, off, size, (first + k - 1) * BlockSize)]

\* FindPage and the test of the loop over the requests.
Hit(c, r) == Cached(c, r.offset) /\ Len(PageAt(c, r.offset).buf) >= r.data

\* PreparePage: "fresh" is what a page that is not cached, or too short, is made of.
PreparePage_forgets(c, r, fresh) ==
  IF Hit(c, r) THEN PageAt(c, r.offset) ELSE [off |-> r.offset, buf |-> fresh, dirty |-> FALSE]
PreparePage(c, r, fresh) ==
  IF ~Cached(c, r.offset) THEN [off |-> r.offset, buf |-> fresh, dirty |-> FALSE]
  ELSE LET page == PageAt(c, r.offset)
           longer == IF page.dirty THEN PWrite(fresh, 0, page.buf) ELSE fresh
       IN  IF Hit(c, r) THEN page ELSE [page EXCEPT !.buf = longer]

\* WritePages: a page goes with the run of dirty pages around it, in one write.  Two runs that
\* meet are the same run, so the pages at offs, taken one after the other, write all their runs.
IsDirty(c, o) == Cached(c, o) /\ PageAt(c, o).dirty
IsWhole(c, o) == Len(PageAt(c, o).buf) = BlockSize
Between(a, b) == {o \in a .. b : o % BlockSize = 0}
RunOf(c, off) ==
  {o \in {c[i].off : i \in DOMAIN c} :
     \/ o = off
     \/ o < off /\ \A p \in Between(o, off - 1) : IsDirty(c, p) /\ IsWhole(c, p)
     \/ o > off /\ \A p \in Between(off + 1, o) : IsDirty(c, p) /\ IsWhole(c, p - BlockSize)}
CellsOf(page) == page.off + 1 .. page.off + Len(page.buf)
WritePages(f, offs) ==
  LET runs == UNION {RunOf(f.cache, o) : o \in offs}
      pages == {page \in Range(f.cache) : page.off \in runs}
      cell(i) == LET page == CHOOSE q \in pages : i \in CellsOf(q) IN page.buf[i - page.off]
  IN  [f EXCEPT
         !.cache = [i \in DOMAIN @ |-> IF @[i].off \in runs THEN [@[i] EXCEPT !.dirty = FALSE] ELSE @[i]],
         !.disk = [i \in DOMAIN @ \cup UNION {1 .. q.off + Len(q.buf) : q \in pages} |->
                     CASE \E q \in pages : i \in CellsOf(q) -> cell(i)
                       [] i \in DOMAIN @                    -> @[i]
                       [] OTHER                             -> Null]]

\* ReduceCache: the least recently used pages leave.
ReduceCache(f) ==
  LET n == AtLeast(0, Len(f.cache) - SlotCapacity)
      dirty == {o \in {f.cache[i].off : i \in 1 .. n} : IsDirty(f.cache, o)}
  IN  [WritePages(f, dirty) EXCEPT !.cache = SubSeq(@, n + 1, Len(@))]

\* PageCache::Flush of a range; the size 0 stands for the rest of the region.
Flush(f, off, size) ==
  LET n == IF size = 0 THEN AtLeast(0, f.region - off) ELSE size
      begin == off - (off % BlockSize)
      end == AlignNumber(off + n, BlockSize)
      pages == {o \in {page.off : page \in Range(f.cache)} : IsDirty(f.cache, o)}
  IN  WritePages(f, {o \in pages : o >= begin /\ o < end})

------------------------------------------------------------------------------
(* The part of Read and Write behind the loop over the cached pages.              *)

CopyOf(page, r) == SubSeq(page.buf, r.prefix + 1, r.prefix + r.copy)
WithCopy(page, r, buf) == [page EXCEPT !.buf = PWrite(@, r.prefix, buf), !.dirty = TRUE]

\* The requests that are left, with their parts of the data.
Start(r) == r.offset + r.prefix
PartOf(reqs, k, buf) ==
  LET done == Start(reqs[k]) - Start(reqs[1]) IN SubSeq(buf, done + 1, done + reqs[k].copy)

\* Read: the missing pages are read together.
ReadRest(f, reqs) ==
  LET pages == [k \in DOMAIN reqs |-> PreparePage(f.cache, reqs[k], PRead(f.disk, reqs[k].offset, reqs[k].data))]
      last == reqs[Len(reqs)]
      cell(at) == LET page == pages[(at - reqs[1].offset) \div BlockSize + 1] IN page.buf[at - page.off + 1]
  IN  [f |-> ReduceCache([f EXCEPT !.cache = SetLast(@, pages)]),
       buf |-> [i \in 1 .. Start(last) + last.copy - Start(reqs[1]) |-> cell(Start(reqs[1]) + i - 1)]]

\* Write: a page that is written whole is not read.  In a batch, pages in front of
\* the first partial one are not read.
Fresh(f, reqs, k) ==
  LET r == reqs[k]
      load == IF Len(reqs) = 1 THEN r.copy # r.data
              ELSE \E j \in 1 .. k : reqs[j].copy # BlockSize
  IN  IF load THEN PRead(f.disk, r.offset, r.data) ELSE Fill(Junk, r.data)
WriteRest(f, reqs, buf) ==
  LET page(k) == WithCopy(PreparePage(f.cache, reqs[k], Fresh(f, reqs, k)), reqs[k], PartOf(reqs, k, buf))
  IN  ReduceCache([f EXCEPT !.cache = SetLast(@, [k \in DOMAIN reqs |-> page(k)])])
=============================================================================

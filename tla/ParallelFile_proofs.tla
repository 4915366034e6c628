-------------------------- MODULE ParallelFile_proofs --------------------------
(* The reservation of cells by AllocateSpace and the exchange of file_size_, for  *)
(* any number of threads, any lengths and every kind of file.                     *)
EXTENDS ParallelFile, TLAPS

Places == {"idle"} \cup Reserving \cup Using
Ops == {"none", "append", "expand", "write", "read"}
CallType == [op : Ops, off : Nat, len : Nat]

Typed ==
  /\ file_size \in Nat
  /\ pc \in [Threads -> Places]
  /\ call \in [Threads -> CallType]

\* What a call under way has a claim to: all but the appends that reserved nothing yet.
Claims(t) == pc[t] # "idle" /\ ~(Grows(call[t]) /\ pc[t] \in Reserving)

\* The inductive invariant.  A write that reaches behind the end of the file is
\* alone until it has moved the end, so no append can be given its cells.
IInv ==
  /\ Typed
  /\ \A t \in Threads : pc[t] \in Reserving => Grows(call[t]) \/ call[t].op = "write"
  /\ \A t \in Threads : pc[t] = "load" => Grows(call[t])
  /\ \A t \in Threads : pc[t] \in Using => End(call[t]) <= file_size
  /\ \A t, u \in Threads : t # u /\ Claims(t) /\ Claims(u) => RangeOf(call[t]) \cap RangeOf(call[u]) = {}
  /\ \A t \in Threads : pc[t] \in Reserving /\ call[t].op = "write" /\ End(call[t]) > file_size =>
       \A u \in Threads \ {t} : pc[u] = "idle"

\* Cells in front of an offset and cells behind it do not overlap.
LEMMA Apart ==
  ASSUME NEW a \in CallType, NEW b \in CallType, End(a) <= b.off
  PROVE  RangeOf(a) \cap RangeOf(b) = {} /\ RangeOf(b) \cap RangeOf(a) = {}
BY DEF CallType, End, RangeOf

\* The invariant gives the property.
LEMMA Implied == IInv => ReservationsAreDisjoint
BY DEF IInv, ReservationsAreDisjoint, Claims, Reserving, Using, Typed

LEMMA Initially == Init => IInv
BY DEF Init, IInv, Typed, NoCall, Claims, Places, CallType, Ops, Reserving, Using

\* A thread that uses its cells goes on.
LEMMA MoveInside ==
  ASSUME IInv, NEW t \in Threads, NEW q \in Using, pc[t] \in Using,
         Goto(t, q), UNCHANGED <<call, file_size>>
  PROVE  IInv'
<1>1. Typed'
  BY DEF IInv, Typed, Goto, Places
<1>2. \A u \in Threads : Claims(u)' => Claims(u)
  BY DEF IInv, Typed, Goto, Claims, Using, Reserving
<1>3. QED
  BY <1>1, <1>2 DEF IInv, Typed, Goto, Grows, End, RangeOf, Using, Reserving

\* A thread that makes room goes on.
LEMMA MoveReserving ==
  ASSUME IInv, NEW t \in Threads, NEW q \in Reserving, pc[t] \in Reserving, q = "load" => Grows(call[t]),
         Goto(t, q), UNCHANGED <<call, file_size>>
  PROVE  IInv'
<1>1. Typed'
  BY DEF IInv, Typed, Goto, Places
<1>2. \A u \in Threads : Claims(u)' => Claims(u)
  BY DEF IInv, Typed, Goto, Claims, Using, Reserving, Grows
<1>3. QED
  BY <1>1, <1>2 DEF IInv, Typed, Goto, Grows, End, RangeOf, Using, Reserving

\* A call ends.
LEMMA GoIdle ==
  ASSUME IInv, NEW t \in Threads, Goto(t, "idle"), call' = [call EXCEPT ![t] = NoCall], UNCHANGED file_size
  PROVE  IInv'
<1>1. Typed'
  BY DEF IInv, Typed, Goto, Places, NoCall, CallType, Ops
<1>2. \A u \in Threads : Claims(u)' => Claims(u) /\ u # t
  BY DEF IInv, Typed, Goto, Claims, Using, Reserving, Grows
<1>3. \A u \in Threads : u # t => call'[u] = call[u] /\ pc'[u] = pc[u]
  BY DEF IInv, Typed, Goto
<1>4. pc'[t] = "idle"
  BY DEF IInv, Typed, Goto
<1>5. QED
  BY <1>1, <1>2, <1>3, <1>4 DEF IInv, Typed, Grows, End, RangeOf, Using, Reserving

\* Nobody is at work.
LEMMA NobodyBusy ==
  ASSUME IInv, Busy = {}, UNCHANGED <<pc, call>>, file_size' \in Nat
  PROVE  IInv'
<1>1. \A t \in Threads : pc'[t] = "idle"
  BY DEF Busy
<1>2. QED
  BY <1>1 DEF IInv, Typed, Claims, Using, Reserving

\* A call begins: an append claims nothing yet, the others claim cells nobody claims.
LEMMA BeginStep == ASSUME IInv, NEW t \in Threads, Begin(t) PROVE IInv'
<1>1. PICK op \in {"append", "expand", "write", "read"}, len \in Lengths, off \in 0 .. file_size :
        LET r == [op |-> op, off |-> off, len |-> len]
        IN  /\ ~Grows(r) => \A u \in Busy \ Waiting : RangeOf(call[u]) \cap RangeOf(r) = {}
            /\ op = "write" /\ End(r) > file_size => Busy = {}
            /\ op = "read" => End(r) <= file_size
            /\ \A u \in Busy : call[u].op = "write" => End(call[u]) <= file_size
            /\ call' = [call EXCEPT ![t] = r]
            /\ Goto(t, IF Grows(r) THEN "load" ELSE IF op = "write" THEN "alloc" ELSE Access)
  BY ZenonT(40) DEF Begin
<1> DEFINE r == [op |-> op, off |-> off, len |-> len]
<1>2. r \in CallType /\ len \in Nat /\ file_size \in Nat
  BY FileAssumption DEF CallType, Ops, IInv, Typed
<1>3. pc[t] = "idle" /\ file_size' = file_size
  BY DEF Begin, object
<1>4. /\ pc'[t] = IF Grows(r) THEN "load" ELSE IF op = "write" THEN "alloc" ELSE Access
      /\ call'[t] = r
      /\ \A u \in Threads \ {t} : pc'[u] = pc[u] /\ call'[u] = call[u]
  BY <1>1 DEF IInv, Typed, Goto
<1>5. pc'[t] \in Places
  BY <1>4 DEF Places, Reserving, Using, Access
<1>6. Typed'
  BY <1>1, <1>2, <1>3, <1>4, <1>5 DEF IInv, Typed, Goto
<1>7. \A u \in Threads \ {t} : Claims(u)' <=> Claims(u)
  BY <1>4 DEF Claims, Grows
<1>8. \A u \in Threads : Claims(u) => u \in Busy \ Waiting
  BY DEF Claims, Busy, Waiting
<1>9. Claims(t)' => \A u \in Threads \ {t} : Claims(u) => RangeOf(call[u]) \cap RangeOf(r) = {}
  <2>1. Claims(t)' => ~Grows(r)
    BY <1>4 DEF Claims, Reserving
  <2>2. QED
    BY <2>1, <1>1, <1>8
<1>10. \A u, v \in Threads : u # v /\ Claims(u)' /\ Claims(v)' => RangeOf(call'[u]) \cap RangeOf(call'[v]) = {}
  BY <1>4, <1>7, <1>9 DEF IInv
<1>11. \A u \in Threads : pc'[u] \in Reserving => Grows(call'[u]) \/ call'[u].op = "write"
  BY <1>4 DEF IInv, Reserving, Access
<1>12. \A u \in Threads : pc'[u] = "load" => Grows(call'[u])
  BY <1>4 DEF IInv, Access
<1>13. \A u \in Threads : pc'[u] \in Using => End(call'[u]) <= file_size'
  <2>1. pc'[t] \in Using => op = "read"
    BY <1>4 DEF Using, Grows
  <2>2. QED
    BY <2>1, <1>1, <1>3, <1>4 DEF IInv
<1>14. \A u \in Threads : pc'[u] \in Reserving /\ call'[u].op = "write" /\ End(call'[u]) > file_size' =>
         \A v \in Threads \ {u} : pc'[v] = "idle"
  <2>1. ASSUME NEW u \in Threads \ {t}, pc[u] \in Reserving, call[u].op = "write"
        PROVE  ~(End(call[u]) > file_size)
    <3>1. u \in Busy
      BY <2>1 DEF Busy, Reserving
    <3>2. call[u] \in CallType
      BY DEF IInv, Typed
    <3>3. QED
      BY <3>1, <3>2, <1>1, <1>2, <2>1 DEF CallType, End
  <2>2. ASSUME op = "write", End(r) > file_size PROVE \A v \in Threads \ {t} : pc'[v] = "idle"
    BY <2>2, <1>1, <1>4 DEF Busy
  <2>3. QED
    BY <2>1, <2>2, <1>3, <1>4
<1>15. QED
  BY <1>6, <1>10, <1>11, <1>12, <1>13, <1>14 DEF IInv, Claims, Grows, End, RangeOf

\* The load of file_size_ moves an append that has claimed nothing.
LEMMA LoadStep == ASSUME IInv, NEW t \in Threads, Load(t) PROVE IInv'
<1>1. /\ pc'[t] = "alloc" /\ pc[t] = "load" /\ Grows(call[t])
      /\ file_size' = file_size
      /\ \A u \in Threads \ {t} : pc'[u] = pc[u] /\ call'[u] = call[u]
  <2>1. pc[t] = "load" /\ file_size' = file_size /\ Goto(t, "alloc")
    BY DEF Load, object
  <2>2. \A u \in Threads \ {t} : call'[u] = call[u]
    BY DEF Load, IInv, Typed
  <2>3. QED
    BY <2>1, <2>2 DEF IInv, Typed, Goto
<1>2. call[t] \in CallType /\ call' \in [Threads -> CallType] /\ call'[t].op = call[t].op
  <2>1. call \in [Threads -> [op : Ops, off : Nat, len : Nat]] /\ file_size \in Nat
    BY DEF IInv, Typed, CallType
  <2>2. call' = [call EXCEPT ![t].off = file_size]
    BY DEF Load
  <2>3. QED
    BY <2>1, <2>2 DEF CallType
<1>3. Typed'
  BY <1>1, <1>2 DEF Load, IInv, Typed, Goto, Places, Reserving
<1>4. Grows(call'[t]) /\ call'[t].op # "write"
  BY <1>1, <1>2 DEF Grows
<1>5. \A u \in Threads : Claims(u)' => u # t /\ Claims(u)
  BY <1>1, <1>4 DEF Claims, Reserving, Grows
<1>6. \A u, v \in Threads : u # v /\ Claims(u)' /\ Claims(v)' => RangeOf(call'[u]) \cap RangeOf(call'[v]) = {}
  BY <1>1, <1>5 DEF IInv
<1>7. \A u \in Threads : pc'[u] \in Using => u # t
  BY <1>1 DEF Using
<1>8. pc[t] # "idle"
  BY <1>1
<1>9. \A u \in Threads : pc'[u] \in Reserving /\ call'[u].op = "write" /\ End(call'[u]) > file_size' =>
         \A v \in Threads \ {u} : pc'[v] = "idle"
  BY <1>1, <1>4, <1>8 DEF IInv
<1>10. QED
  BY <1>1, <1>3, <1>4, <1>6, <1>7, <1>9 DEF IInv, Claims, Grows, End, RangeOf

\* The exchange gives an append the cells behind the end, which nobody claims.
LEMMA ReserveStep == ASSUME IInv, NEW t \in Threads, Reserve(t) PROVE IInv'
<1>1. CASE Grows(call[t]) /\ file_size # call[t].off
  BY <1>1, MoveReserving DEF Reserve, Reserving
<1>2. CASE ~(Grows(call[t]) /\ file_size # call[t].off)
  <2>1. /\ pc[t] = "cas" /\ pc'[t] \in Using /\ call' = call
        /\ file_size' = AtLeast(file_size, End(call[t]))
        /\ \A u \in Threads \ {t} : pc'[u] = pc[u]
    BY <1>2 DEF Reserve, AfterReserve, Access, Using, Goto, IInv, Typed
  <2>2. call[t] \in CallType /\ End(call[t]) \in Nat /\ file_size \in Nat
    BY DEF IInv, Typed, CallType, End
  <2>3. file_size' \in Nat /\ file_size' >= file_size /\ file_size' >= End(call[t])
    BY <2>1, <2>2 DEF AtLeast
  <2>4. Typed'
    BY <1>2, <2>1, <2>3 DEF Reserve, AfterReserve, Access, Using, Goto, IInv, Typed, Places
  <2>5. \A u \in Threads : End(call[u]) \in Nat
    BY DEF IInv, Typed, CallType, End
  <2>6. \A u \in Threads : pc'[u] \in Using => End(call'[u]) <= file_size'
    BY <2>1, <2>2, <2>3, <2>5 DEF IInv
  <2>7. \A u \in Threads \ {t} : Claims(u) => End(call[u]) <= file_size \/ ~Grows(call[t])
    <3>1. ASSUME NEW u \in Threads \ {t}, Claims(u), Grows(call[t]) PROVE End(call[u]) <= file_size
      <4>1. CASE pc[u] \in Using
        BY <4>1 DEF IInv
      <4>2. CASE pc[u] \in Reserving
        <5>1. call[u].op = "write"
          BY <3>1, <4>2 DEF IInv, Claims
        <5>2. pc[t] # "idle"
          BY <2>1
        <5>3. ~(End(call[u]) > file_size)
          BY <4>2, <5>1, <5>2 DEF IInv
        <5>4. QED
          BY <5>3, <2>2, <2>5
      <4>3. QED
        BY <3>1, <4>1, <4>2 DEF IInv, Typed, Places, Claims
    <3>2. QED
      BY <3>1
  <2>8. \A u \in Threads \ {t} : Claims(u)' <=> Claims(u)
    BY <2>1 DEF Claims, Grows
  <2>9. \A u \in Threads \ {t} : Claims(u) =>
          RangeOf(call[u]) \cap RangeOf(call[t]) = {} /\ RangeOf(call[t]) \cap RangeOf(call[u]) = {}
    <3>1. CASE Grows(call[t])
      <4>1. call[t].off = file_size
        BY <1>2, <3>1
      <4>2. \A u \in Threads : call[u] \in CallType
        BY DEF IInv, Typed
      <4>3. QED
        BY <3>1, <4>1, <4>2, <2>7, Apart
    <3>2. CASE ~Grows(call[t])
      <4>1. Claims(t)
        BY <2>1, <3>2 DEF Claims
      <4>2. QED
        BY <4>1 DEF IInv
    <3>3. QED
      BY <3>1, <3>2
  <2>10. \A u, v \in Threads : u # v /\ Claims(u)' /\ Claims(v)' => RangeOf(call'[u]) \cap RangeOf(call'[v]) = {}
    BY <2>1, <2>8, <2>9 DEF IInv
  <2>11. \A u \in Threads : pc'[u] \in Reserving => u # t
    BY <2>1 DEF Using, Reserving
  <2>12. \A u \in Threads : pc'[u] \in Reserving /\ call'[u].op = "write" /\ End(call'[u]) > file_size' =>
           \A v \in Threads \ {u} : pc'[v] = "idle"
    <3>1. \A u \in Threads : End(call[u]) > file_size' => End(call[u]) > file_size
      BY <2>2, <2>3, <2>5
    <3>2. pc[t] # "idle"
      BY <2>1
    <3>3. QED
      BY <2>1, <2>11, <3>1, <3>2 DEF IInv
  <2>13. \A u \in Threads : /\ pc'[u] \in Reserving => Grows(call'[u]) \/ call'[u].op = "write"
                            /\ pc'[u] = "load" => Grows(call'[u])
    BY <2>1, <2>11 DEF IInv, Reserving
  <2>14. QED
    BY <2>4, <2>6, <2>10, <2>12, <2>13 DEF IInv, Claims, Grows, End, RangeOf
<1>3. QED
  BY <1>1, <1>2

\* Every step keeps the invariant.
LEMMA Inductive == IInv /\ [Next]_vars => IInv'
<1> SUFFICES ASSUME IInv, [Next]_vars PROVE IInv'
  OBVIOUS
<1>1. CASE UNCHANGED vars
  BY <1>1 DEF vars, object, IInv, Typed, Claims, Grows, End, RangeOf
<1>2. ASSUME NEW t \in Threads, Begin(t) PROVE IInv'
  BY <1>2, BeginStep
<1>3. ASSUME NEW t \in Threads, Step(t) PROVE IInv'
  <2>1. CASE Load(t)
    BY <2>1, LoadStep
  <2>2. CASE AllocateSpace(t)
    <3>1. PICK q \in {"cas", "grow"} : Goto(t, q)
      BY <2>2 DEF AllocateSpace
    <3>2. QED
      BY <2>2, <3>1, MoveReserving DEF AllocateSpace, object, Reserving
  <2>3. CASE Grow(t)
    <3>1. PICK q \in {"cas", "region"} : Goto(t, q)
      BY <2>3 DEF Grow
    <3>2. QED
      BY <2>3, <3>1, MoveReserving DEF Grow, Reserving
  <2>4. CASE GrowFails(t)
    BY <2>4, GoIdle DEF GrowFails, object
  <2>5. CASE SetRegionSize(t)
    BY <2>5, MoveReserving DEF SetRegionSize, Reserving
  <2>6. CASE Reserve(t)
    BY <2>6, ReserveStep
  <2>7. CASE Zone(t)
    BY <2>7, MoveInside DEF Zone, object, Using
  <2>8. CASE Copy(t)
    BY <2>8, MoveInside DEF Copy, Using
  <2>9. CASE Io(t)
    <3>1. PICK q \in {"return", "hit"} : Goto(t, q)
      BY <2>9 DEF Io
    <3>2. pc[t] = "io" /\ UNCHANGED <<call, file_size>>
      BY <2>9 DEF Io
    <3>3. QED
      BY <3>1, <3>2, MoveInside DEF Using
  <2>10. CASE FindPage(t)
    <3>1. PICK q \in {"rest", "return", "extend", "hit"} : Goto(t, q)
      BY <2>10 DEF FindPage, AfterPages
    <3>2. pc[t] = "hit" /\ UNCHANGED <<call, file_size>>
      BY <2>10 DEF FindPage
    <3>3. QED
      BY <3>1, <3>2, MoveInside DEF Using
  <2>11. CASE MissingPages(t)
    <3>1. PICK q \in {"return", "extend"} : Goto(t, q)
      BY <2>11 DEF MissingPages, AfterPages
    <3>2. pc[t] = "rest" /\ UNCHANGED <<call, file_size>>
      BY <2>11 DEF MissingPages
    <3>3. QED
      BY <3>1, <3>2, MoveInside DEF Using
  <2>12. CASE ExtendRegion(t)
    BY <2>12, MoveInside DEF ExtendRegion, Using
  <2>13. CASE Return(t)
    BY <2>13, GoIdle DEF Return, object
  <2>14. QED
    BY <1>3, <2>1, <2>2, <2>3, <2>4, <2>5, <2>6, <2>7, <2>8, <2>9, <2>10, <2>11, <2>12, <2>13 DEF Step
<1>4. CASE Whole
  <2>1. file_size \in Nat /\ Sizes \subseteq Nat /\ MaxSize \in Nat
    BY FileAssumption DEF IInv, Typed
  <2>2. ASSUME NEW n \in Sizes, Truncate(n) \/ TruncateFakely(n) \/ SetHeadBuffer(n) PROVE IInv'
    BY <2>1, <2>2, NobodyBusy DEF Truncate, TruncateFakely, SetHeadBuffer, Alone
  <2>3. ASSUME NEW off, NEW n, Synchronize(off, n) PROVE IInv'
    BY <2>1, <2>3, NobodyBusy DEF Synchronize, Alone
  <2>4. CASE Close
    BY <2>1, <2>4, NobodyBusy DEF Close, Alone
  <2>5. CASE Open
    BY <2>1, <2>5, NobodyBusy DEF Open
  <2>6. QED
    BY <1>4, <2>2, <2>3, <2>4, <2>5 DEF Whole
<1>5. QED
  BY <1>1, <1>2, <1>3, <1>4 DEF Next

\* Whatever the threads, the lengths and the kind of file are, no two threads are
\* ever at work on the same cells, and their cells lie inside the file
\* (MemoryMapParallelFile::Zone, PositionalParallelFileImpl::Append and Write).
THEOREM Reservations == Spec => []ReservationsAreDisjoint
<1>1. Init => IInv
  BY Initially
<1>2. IInv /\ [Next]_vars => IInv'
  BY Inductive
<1>3. IInv => ReservationsAreDisjoint
  BY Implied
<1>4. QED
  BY <1>1, <1>2, <1>3, PTL DEF Spec

------------------------------------------------------------------------------
(* What the threads touch is there.                                               *)

\* The arithmetic of AllocateSpace.
LEMMA AlignedIsEnough ==
  ASSUME NEW n \in Nat, NEW unit \in Nat \ {0}
  PROVE  AlignNumber(n, unit) \in Nat /\ AlignNumber(n, unit) >= n
<1> DEFINE a == n + unit - 1
           q == a \div unit
<1>1. a \in Nat /\ q \in Nat /\ a % unit \in 0 .. unit - 1 /\ a = unit * q + (a % unit)
  OBVIOUS
<1>2. q * unit = unit * q /\ unit * q \in Nat
  BY <1>1
<1>3. unit * q >= n
  BY <1>1, <1>2
<1> QED BY <1>2, <1>3 DEF AlignNumber

LEMMA BlockIsPositive == Block \in Nat \ {0} /\ AtLeast(PageUnit, Block) \in Nat \ {0}
BY PagesAssumption, FileAssumption DEF Block, AtLeast

LEMMA AlignedSizes ==
  ASSUME NEW n \in Nat
  PROVE  /\ Aligned(n) \in Nat /\ Aligned(n) >= n
         /\ OpenSize(n) \in Nat /\ OpenSize(n) >= n
         /\ TruncSize(n) \in Nat /\ TruncSize(n) >= n
<1>1. \A m \in Nat : Aligned(m) \in Nat /\ Aligned(m) >= m
  BY AlignedIsEnough, BlockIsPositive DEF Aligned
<1>2. AllocInit \in Nat /\ PageUnit \in Nat
  BY FileAssumption
<1>3. AtLeast(n, AllocInit) \in Nat /\ AtLeast(n, AllocInit) >= n
  BY <1>2 DEF AtLeast
<1>4. AtLeast(AtLeast(n, PageUnit), AllocInit) \in Nat /\ AtLeast(AtLeast(n, PageUnit), AllocInit) >= n
  BY <1>2 DEF AtLeast
<1>5. OpenSize(n) \in Nat /\ OpenSize(n) >= n
  BY <1>1, <1>3 DEF OpenSize
<1>6. TruncSize(n) \in Nat /\ TruncSize(n) >= n
  BY <1>1, <1>4 DEF TruncSize
<1> QED BY <1>1, <1>5, <1>6

LEMMA GrownIsEnough ==
  ASSUME NEW n \in Nat, NEW trunc \in Nat
  PROVE  GrownSize(n, trunc) \in Nat /\ GrownSize(n, trunc) >= n /\ GrownSize(n, trunc) >= trunc
<1> DEFINE x == trunc * AllocInc
           y == x \div 100
<1>1. x \in Nat /\ x >= trunc * 100
  <2>1. AllocInc \in Nat /\ AllocInc >= 100
    BY FileAssumption
  <2>2. PICK e \in Nat : AllocInc = 100 + e
    BY <2>1
  <2>3. x = trunc * 100 + trunc * e /\ trunc * e \in Nat
    BY <2>2
  <2> QED BY <2>3
<1>2. y \in Nat /\ y >= trunc
  BY <1>1
<1>3. AtLeast(n, y) \in Nat /\ AtLeast(n, y) >= n /\ AtLeast(n, y) >= trunc
  BY <1>2 DEF AtLeast
<1>4. Aligned(AtLeast(n, y)) \in Nat /\ Aligned(AtLeast(n, y)) >= AtLeast(n, y)
  BY <1>3, AlignedSizes
<1> QED BY <1>3, <1>4 DEF GrownSize


\* No write makes the file shorter: pages, head buffer and blocks go into it or behind it.
Fields == {"open", "trunc", "mapped", "head", "mutex", "disk", "cache", "region"}

LEMMA PWriteKeeps ==
  ASSUME NEW d, NEW off, NEW buf
  PROVE  DOMAIN d \subseteq DOMAIN PWrite(d, off, buf)
BY DEF PWrite

LEMMA WritePagesKeeps ==
  ASSUME NEW g, DOMAIN g = Fields, NEW offs
  PROVE  /\ DOMAIN WritePages(g, offs) = Fields
         /\ DOMAIN g.disk \subseteq DOMAIN WritePages(g, offs).disk
         /\ \A x \in Fields \ {"disk", "cache"} : WritePages(g, offs)[x] = g[x]
<1> DEFINE runs == UNION {RunOf(g.cache, o) : o \in offs}
           pages == {page \in Range(g.cache) : page.off \in runs}
           cell(i) == LET page == CHOOSE q \in pages : i \in CellsOf(q) IN page.buf[i - page.off]
           cache == [i \in DOMAIN g.cache |->
                       IF g.cache[i].off \in runs THEN [g.cache[i] EXCEPT !.dirty = FALSE] ELSE g.cache[i]]
           disk == [i \in DOMAIN g.disk \cup UNION {1 .. q.off + Len(q.buf) : q \in pages} |->
                      CASE \E q \in pages : i \in CellsOf(q) -> cell(i)
                        [] i \in DOMAIN g.disk               -> g.disk[i]
                        [] OTHER                             -> Null]
<1>1. WritePages(g, offs) = [g EXCEPT !.cache = cache, !.disk = disk]
  BY DEF WritePages, Fields
<1>2. DOMAIN g.disk \subseteq DOMAIN disk
  OBVIOUS
<1> HIDE DEF cache, disk
<1>3. DOMAIN WritePages(g, offs) = Fields
  BY <1>1
<1>4. WritePages(g, offs).disk = disk
  BY <1>1 DEF Fields
<1>5. \A x \in Fields \ {"disk", "cache"} : WritePages(g, offs)[x] = g[x]
  BY <1>1, Zenon
<1> QED BY <1>2, <1>3, <1>4, <1>5

LEMMA FlushKeeps ==
  ASSUME NEW g, DOMAIN g = Fields, NEW off, NEW n
  PROVE  /\ DOMAIN Flush(g, off, n) = Fields
         /\ DOMAIN g.disk \subseteq DOMAIN Flush(g, off, n).disk
         /\ \A x \in Fields \ {"disk", "cache"} : Flush(g, off, n)[x] = g[x]
BY WritePagesKeeps DEF Flush

LEMMA SaveHeadKeeps ==
  ASSUME NEW g, DOMAIN g = Fields
  PROVE  /\ DOMAIN SaveHead(g) = Fields
         /\ DOMAIN g.disk \subseteq DOMAIN SaveHead(g).disk
         /\ \A x \in Fields \ {"disk"} : SaveHead(g)[x] = g[x]
BY PWriteKeeps DEF SaveHead, Fields

LEMMA ReduceCacheKeeps ==
  ASSUME NEW g, DOMAIN g = Fields
  PROVE  /\ DOMAIN ReduceCache(g) = Fields
         /\ DOMAIN g.disk \subseteq DOMAIN ReduceCache(g).disk
         /\ \A x \in Fields \ {"disk", "cache"} : ReduceCache(g)[x] = g[x]
<1> DEFINE n == AtLeast(0, Len(g.cache) - SlotCapacity)
           dirty == {o \in {g.cache[i].off : i \in 1 .. n} : IsDirty(g.cache, o)}
           h == WritePages(g, dirty)
<1>1. ReduceCache(g) = [h EXCEPT !.cache = SubSeq(@, n + 1, Len(@))]
  BY DEF ReduceCache
<1>2. /\ DOMAIN h = Fields
      /\ DOMAIN g.disk \subseteq DOMAIN h.disk
      /\ \A x \in Fields \ {"disk", "cache"} : h[x] = g[x]
  BY WritePagesKeeps
<1> HIDE DEF h
<1> QED BY <1>1, <1>2 DEF Fields

\* The object: the file is as long as trunc says, and so is the mapping.
Object ==
  /\ DOMAIN f = Fields
  /\ f.trunc \in Nat /\ f.mapped \in Nat
  /\ 1 .. f.trunc \subseteq DOMAIN f.disk
  /\ file_size <= f.trunc
  /\ Mapped => f.trunc <= f.mapped

\* A call that leaves AllocateSpace finds its cells in the file, and keeps them.
BInv ==
  /\ Object
  /\ left \in [kind : {"mmap", "pos", "block", "cached"}, calls : SUBSET Calls,
               threads : Nat, ops : Int, whole : Int, fails : Int, padding : SUBSET (Nat \ {0})]
  /\ \A t \in Threads : pc[t] \in {"region", "cas"} => NeededEnd(call[t]) <= f.trunc
  /\ \A t \in Threads : pc[t] \in Using => BackedEnd(t) <= f.trunc

LEMMA Ends ==
  ASSUME IInv, NEW t \in Threads
  PROVE  /\ End(call[t]) \in Nat /\ NeededEnd(call[t]) \in Nat
         /\ End(call[t]) <= NeededEnd(call[t])
         /\ BackedEnd(t) \in Nat /\ End(call[t]) <= BackedEnd(t)
<1>1. End(call[t]) \in Nat
  BY DEF IInv, Typed, CallType, End
<1>2. NeededEnd(call[t]) \in Nat /\ End(call[t]) <= NeededEnd(call[t])
  BY <1>1, AlignedIsEnough, BlockIsPositive DEF NeededEnd
<1> QED BY <1>1, <1>2 DEF BackedEnd

LEMMA BackedImplied == IInv /\ BInv => AccessIsBacked
<1> SUFFICES ASSUME IInv, BInv, NEW t \in Threads, pc[t] \in Using
             PROVE  /\ 1 .. BackedEnd(t) \subseteq DOMAIN f.disk
                    /\ Mapped => End(call[t]) <= f.mapped
  BY DEF AccessIsBacked
<1>1. BackedEnd(t) <= f.trunc /\ f.trunc \in Nat /\ f.mapped \in Nat
  BY DEF BInv, Object
<1>2. 1 .. BackedEnd(t) \subseteq 1 .. f.trunc
  BY <1>1, Ends
<1>3. Mapped => End(call[t]) <= f.mapped
  BY <1>1, Ends DEF BInv, Object
<1> QED BY <1>2, <1>3 DEF BInv, Object


LEMMA BackedInitially == Init => BInv
<1> SUFFICES ASSUME Init PROVE BInv
  OBVIOUS
<1>1. Len(<<>>) = 0 /\ OpenSize(0) \in Nat
  BY AlignedSizes
<1> DEFINE n == OpenSize(0)
<1>2. f = [open |-> TRUE, trunc |-> n, mapped |-> n, head |-> <<>>, mutex |-> None,
           disk |-> ftruncate(<<>>, n), cache |-> <<>>, region |-> n]
  BY <1>1 DEF Init, Opened
<1>3. DOMAIN f.disk = 1 .. n
  BY <1>2 DEF ftruncate
<1> HIDE DEF n
<1>4. Object
  BY <1>1, <1>2, <1>3 DEF Object, Fields, Init, n
<1>5. left \in [kind : {"mmap", "pos", "block", "cached"}, calls : SUBSET Calls,
                threads : Nat, ops : Int, whole : Int, fails : Int, padding : SUBSET (Nat \ {0})]
  BY FileAssumption DEF Init
<1>6. \A t \in Threads : pc[t] \notin {"region", "cas"} \cup Using
  BY DEF Init, Using
<1> QED BY <1>4, <1>5, <1>6 DEF BInv

\* A step of a thread that leaves the file as long as it was.
SameFile ==
  /\ DOMAIN f' = Fields /\ f'.trunc = f.trunc /\ f'.mapped = f.mapped
  /\ DOMAIN f.disk \subseteq DOMAIN f'.disk

LEMMA QuietStep ==
  ASSUME IInv, BInv, IInv', SameFile, NEW t \in Threads,
         file_size' = file_size, UNCHANGED left,
         \A u \in Threads \ {t} : pc'[u] = pc[u] /\ call'[u] = call[u],
         pc'[t] \in {"region", "cas"} => NeededEnd(call'[t]) <= f.trunc,
         pc'[t] \in Using => BackedEnd(t)' <= f.trunc
  PROVE  BInv'
<1>1. Object'
  BY DEF BInv, Object, SameFile, Mapped
<1>2. \A u \in Threads : pc'[u] \in {"region", "cas"} => NeededEnd(call[u])' <= f'.trunc
  BY DEF BInv, SameFile, NeededEnd, Block, End
<1>3. \A u \in Threads : pc'[u] \in Using => BackedEnd(u)' <= f'.trunc
  BY DEF BInv, SameFile, BackedEnd, Reads, NeededEnd, Block, End
<1> QED BY <1>1, <1>2, <1>3 DEF BInv

\* A thread with its cells goes on: the needs of its call are the same.
LEMMA OnwardStep ==
  ASSUME IInv, BInv, IInv', SameFile, NEW t \in Threads, NEW q, Goto(t, q),
         UNCHANGED <<file_size, left, call>>,
         \/ pc[t] \in Using /\ q \in Using
         \/ pc[t] = "region" /\ q = "cas"
  PROVE  BInv'
<1>1. /\ pc'[t] = q /\ \A u \in Threads \ {t} : pc'[u] = pc[u]
  BY DEF Goto, IInv, Typed
<1>2. BackedEnd(t)' = BackedEnd(t) /\ NeededEnd(call'[t]) = NeededEnd(call[t])
  BY DEF BackedEnd, Reads, NeededEnd, Block
<1>3. pc[t] \in Using => BackedEnd(t) <= f.trunc
  BY DEF BInv
<1>4. pc[t] \in {"region", "cas"} => NeededEnd(call[t]) <= f.trunc
  BY DEF BInv
<1>5. /\ q \in {"region", "cas"} => pc[t] \in {"region", "cas"}
      /\ q \in Using => pc[t] \in Using
  BY DEF Using
<1> QED BY <1>1, <1>2, <1>3, <1>4, <1>5, QuietStep


\* ftruncate and mremap of a longer file, under the mutex.
LEMMA GrowStep == ASSUME IInv, BInv, IInv', NEW t \in Threads, Grow(t) PROVE BInv'
<1> DEFINE need == NeededEnd(call[t])
           n == GrownSize(need, f.trunc)
<1>1. /\ UNCHANGED <<file_size, call, left>>
      /\ pc'[t] \in {"region", "cas"}
      /\ \A u \in Threads \ {t} : pc'[u] = pc[u] /\ call'[u] = call[u]
  BY DEF Grow, Goto, ghosts, IInv, Typed
<1>2. CASE need <= f.trunc
  <2>1. SameFile
    BY <1>2 DEF Grow, SameFile, BInv, Object
  <2>2. need' = need
    BY <1>1 DEF NeededEnd, Block
  <2>3. pc'[t] \notin Using
    BY <1>1 DEF Using
  <2> QED BY <1>1, <1>2, <2>1, <2>2, <2>3, QuietStep
<1>3. CASE ~(need <= f.trunc)
  <2>1. need \in Nat /\ f.trunc \in Nat /\ file_size \in Nat
    BY Ends DEF BInv, Object, IInv, Typed
  <2>2. n \in Nat /\ n >= need /\ n >= f.trunc
    BY <2>1, GrownIsEnough
  <2>3. f' = Grown(n) \/ f' = [Grown(n) EXCEPT !.mutex = t]
    BY <1>3 DEF Grow
  <2> HIDE DEF n
  <2>4. Grown(n).trunc = n /\ Grown(n).mapped = n /\ DOMAIN Grown(n).disk = 1 .. n /\ DOMAIN Grown(n) = Fields
    BY DEF Grown, BInv, Object, Fields, ftruncate
  <2>5. f'.trunc = n /\ f'.mapped = n /\ DOMAIN f'.disk = 1 .. n /\ DOMAIN f' = Fields
    BY <2>3, <2>4 DEF Fields
  <2>6. Object'
    BY <2>1, <2>2, <2>5, <1>1 DEF BInv, Object
  <2>7. \A u \in Threads : NeededEnd(call[u])' = NeededEnd(call[u]) /\ BackedEnd(u)' = BackedEnd(u)
    BY <1>1 DEF BackedEnd, Reads, NeededEnd, Block, End
  <2>8. \A u \in Threads : pc'[u] \in {"region", "cas"} => NeededEnd(call[u])' <= f'.trunc
    <3>1. \A u \in Threads : NeededEnd(call[u]) \in Nat
      BY Ends
    <3> QED BY <2>1, <2>2, <2>5, <2>7, <1>1, <3>1 DEF BInv
  <2>9. \A u \in Threads : pc'[u] \in Using => BackedEnd(u)' <= f'.trunc
    <3>1. \A u \in Threads : BackedEnd(u) \in Nat
      BY Ends
    <3>2. pc'[t] \notin Using
      BY <1>1 DEF Using
    <3> QED BY <2>1, <2>2, <2>5, <2>7, <1>1, <3>1, <3>2 DEF BInv
  <2> QED BY <2>6, <2>8, <2>9, <1>1 DEF BInv
<1> QED BY <1>2, <1>3

\* The exchange: the new end lies inside the file.
LEMMA ExchangeStep == ASSUME IInv, BInv, IInv', NEW t \in Threads, Reserve(t) PROVE BInv'
<1>1. /\ UNCHANGED <<f, call, left>> /\ pc[t] = "cas"
      /\ \A u \in Threads \ {t} : pc'[u] = pc[u] /\ call'[u] = call[u]
      /\ pc'[t] \notin {"region", "cas"}
      /\ file_size' = file_size \/ file_size' = AtLeast(file_size, End(call[t]))
  BY DEF Reserve, AfterReserve, Access, Goto, ghosts, IInv, Typed
<1>2. \A u \in Threads : NeededEnd(call[u])' = NeededEnd(call[u]) /\ BackedEnd(u)' = BackedEnd(u)
  BY <1>1 DEF BackedEnd, Reads, NeededEnd, Block, End
<1>3. NeededEnd(call[t]) <= f.trunc
  BY <1>1 DEF BInv
<1>4. End(call[t]) <= f.trunc /\ BackedEnd(t) <= f.trunc
  BY SMTT(20), <1>3, Ends DEF BackedEnd, BInv, Object
<1>5. Object'
  BY <1>1, <1>4 DEF BInv, Object, AtLeast, Mapped
<1>6. \A u \in Threads : pc'[u] \in {"region", "cas"} => NeededEnd(call[u])' <= f'.trunc
  BY <1>1, <1>2 DEF BInv
<1>7. \A u \in Threads : pc'[u] \in Using => BackedEnd(u)' <= f'.trunc
  BY <1>1, <1>2, <1>4 DEF BInv
<1> QED BY <1>5, <1>6, <1>7, <1>1 DEF BInv

\* A read begins inside the file; the others have to make room first.
LEMMA BackedBegin == ASSUME IInv, BInv, IInv', NEW t \in Threads, Begin(t) PROVE BInv'
<1>1. PICK op \in {"append", "expand", "write", "read"}, len \in Lengths, off \in 0 .. file_size :
        LET r == [op |-> op, off |-> off, len |-> len]
        IN  /\ op = "read" => End(r) <= file_size
            /\ call' = [call EXCEPT ![t] = r]
            /\ Goto(t, IF Grows(r) THEN "load" ELSE IF op = "write" THEN "alloc" ELSE Access)
  BY DEF Begin
<1> DEFINE r == [op |-> op, off |-> off, len |-> len]
<1>2. /\ pc'[t] = IF Grows(r) THEN "load" ELSE IF op = "write" THEN "alloc" ELSE Access
      /\ call'[t] = r
      /\ \A u \in Threads \ {t} : pc'[u] = pc[u] /\ call'[u] = call[u]
  BY <1>1 DEF IInv, Typed, Goto
<1>3. UNCHANGED <<file_size, f>> /\ left' = [left EXCEPT !.ops = @ - 1]
  BY DEF Begin, object
<1>4. left'.kind = left.kind /\ left' \in [kind : {"mmap", "pos", "block", "cached"}, calls : SUBSET Calls,
               threads : Nat, ops : Int, whole : Int, fails : Int, padding : SUBSET (Nat \ {0})]
  BY <1>3 DEF BInv
<1>5. Object'
  BY <1>3, <1>4 DEF BInv, Object, Mapped
<1>6. \A u \in Threads \ {t} : NeededEnd(call[u])' = NeededEnd(call[u]) /\ BackedEnd(u)' = BackedEnd(u)
  BY <1>2, <1>4 DEF BackedEnd, Reads, NeededEnd, Block, End
<1>7. pc'[t] \notin {"region", "cas"}
  BY <1>2 DEF Access
<1>8. pc'[t] \in Using => BackedEnd(t)' <= f.trunc
  <2>1. pc'[t] \in Using => op = "read"
    BY <1>2 DEF Using, Grows
  <2>2. op = "read" => End(r) <= file_size
    BY <1>1
  <2>3. len \in Nat /\ off \in Nat /\ file_size \in Nat /\ f.trunc \in Nat /\ file_size <= f.trunc
    BY SMTT(20), FileAssumption DEF BInv, Object, IInv, Typed
  <2>4. End(r) \in Nat
    BY <2>3 DEF End
  <2>5. op = "read" => BackedEnd(t)' = End(r)
    BY <1>2 DEF BackedEnd, Reads, End
  <2> QED BY <2>1, <2>2, <2>3, <2>4, <2>5
<1>9. \A u \in Threads : pc'[u] \in {"region", "cas"} => NeededEnd(call[u])' <= f'.trunc
  BY <1>2, <1>3, <1>6, <1>7 DEF BInv
<1>10. \A u \in Threads : pc'[u] \in Using => BackedEnd(u)' <= f'.trunc
  BY <1>2, <1>3, <1>6, <1>8 DEF BInv
<1> QED BY <1>4, <1>5, <1>9, <1>10 DEF BInv


\* Steps of the threads that leave the file as long as it is.
LEMMA BackedSteps ==
  ASSUME IInv, BInv, IInv', NEW t \in Threads, Step(t), ~Grow(t), ~Reserve(t)
  PROVE  BInv'
<1>dom. DOMAIN f = Fields
  BY DEF BInv, Object
<1>same. UNCHANGED f => SameFile
  BY <1>dom DEF SameFile
<1>1. CASE Load(t)
  <2>1. /\ UNCHANGED <<f, file_size, left>> /\ pc'[t] = "alloc"
        /\ \A u \in Threads \ {t} : pc'[u] = pc[u] /\ call'[u] = call[u]
    BY <1>1 DEF Load, Goto, object, ghosts, IInv, Typed
  <2>2. pc'[t] \notin {"region", "cas"} \cup Using
    BY <2>1 DEF Using
  <2> QED BY <2>1, <2>2, <1>same, QuietStep
<1>2. CASE AllocateSpace(t)
  <2>1. /\ UNCHANGED <<f, file_size, left, call>>
        /\ pc'[t] = IF NeededEnd(call[t]) <= f.trunc THEN "cas" ELSE "grow"
        /\ \A u \in Threads \ {t} : pc'[u] = pc[u] /\ call'[u] = call[u]
    BY <1>2 DEF AllocateSpace, Goto, object, ghosts, IInv, Typed
  <2>2. pc'[t] \notin Using
    BY <2>1 DEF Using
  <2>3. pc'[t] \in {"region", "cas"} => NeededEnd(call'[t]) <= f.trunc
    BY <2>1 DEF NeededEnd, Block
  <2> QED BY <2>1, <2>2, <2>3, <1>same, QuietStep
<1>3. CASE GrowFails(t)
  <2>1. /\ UNCHANGED <<f, file_size>> /\ left' = [left EXCEPT !.fails = @ - 1] /\ pc'[t] = "idle"
        /\ \A u \in Threads \ {t} : pc'[u] = pc[u] /\ call'[u] = call[u]
    BY <1>3 DEF GrowFails, Goto, object, IInv, Typed
  <2>2. left'.kind = left.kind /\ left' \in [kind : {"mmap", "pos", "block", "cached"}, calls : SUBSET Calls,
               threads : Nat, ops : Int, whole : Int, fails : Int, padding : SUBSET (Nat \ {0})]
    BY <2>1 DEF BInv
  <2>3. Object'
    BY <2>1, <2>2 DEF BInv, Object, Mapped
  <2>4. \A u \in Threads \ {t} : NeededEnd(call[u])' = NeededEnd(call[u]) /\ BackedEnd(u)' = BackedEnd(u)
    BY <2>1, <2>2 DEF BackedEnd, Reads, NeededEnd, Block, End
  <2>5. pc'[t] \notin {"region", "cas"} \cup Using
    BY <2>1 DEF Using
  <2> QED BY <2>1, <2>2, <2>3, <2>4, <2>5 DEF BInv
<1>4. CASE SetRegionSize(t)
  <2>1. SameFile
    BY <1>4, <1>dom DEF SetRegionSize, SameFile, Fields
  <2> QED BY <1>4, <2>1, OnwardStep DEF SetRegionSize, ghosts
<1>5. CASE Zone(t)
  BY <1>5, <1>same, OnwardStep DEF Zone, object, ghosts, Using
<1>6. CASE Copy(t)
  <2>1. \/ UNCHANGED f
        \/ f' = [f EXCEPT !.disk = PWrite(@, call[t].off, Fill(io[t].val, call[t].len))]
    BY <1>6 DEF Copy
  <2>2. SameFile
    BY <2>1, <1>same, <1>dom, PWriteKeeps DEF SameFile, Fields
  <2> QED BY <1>6, <2>2, OnwardStep DEF Copy, ghosts, Using
<1>7. CASE Io(t)
  <2>1. PICK q \in {"return", "hit"} : Goto(t, q)
    BY <1>7 DEF Io
  <2>2. pc[t] = "io" /\ UNCHANGED <<call, file_size, left>>
    BY <1>7 DEF Io, ghosts
  <2> DEFINE r == call[t]
             inHead == AtMost(r.len, AtLeast(0, Len(f.head) - r.off))
             off == r.off + inHead
             buf == Fill(io[t].val, r.len - inHead)
             g == IF Reads(t) \/ inHead = 0 THEN f
                  ELSE [f EXCEPT !.head = PWrite(@, r.off, Fill(io[t].val, inHead))]
  <2>3. f' = g \/ f' = [g EXCEPT !.disk = WriteBlocks(@, off, buf)]
    BY <1>7 DEF Io
  <2>4. g = f \/ \E h : g = [f EXCEPT !.head = h]
    OBVIOUS
  <2> HIDE DEF g, off, buf
  <2>5. DOMAIN g = Fields /\ g.trunc = f.trunc /\ g.mapped = f.mapped /\ g.disk = f.disk
    BY <2>4, <1>dom DEF Fields
  <2>6. \A d, i, b : DOMAIN d \subseteq DOMAIN WriteBlocks(d, i, b)
    BY PWriteKeeps DEF WriteBlocks
  <2>7. SameFile
    BY <2>3, <2>5, <2>6 DEF SameFile, Fields
  <2> QED BY <2>1, <2>2, <2>7, OnwardStep DEF Using
<1>8. CASE FindPage(t)
  <2>1. PICK q \in {"rest", "return", "extend", "hit"} : Goto(t, q)
    BY <1>8 DEF FindPage, AfterPages
  <2>2. pc[t] = "hit" /\ UNCHANGED <<call, file_size, left>>
    BY <1>8 DEF FindPage, ghosts
  <2>3. PICK c : f' = [f EXCEPT !.cache = c]
    BY <1>8 DEF FindPage
  <2>4. SameFile
    BY <2>3, <1>dom DEF SameFile, Fields
  <2> QED BY <2>1, <2>2, <2>4, OnwardStep DEF Using
<1>9. CASE MissingPages(t)
  <2>1. PICK q \in {"return", "extend"} : Goto(t, q)
    BY <1>9 DEF MissingPages, AfterPages
  <2>2. pc[t] = "rest" /\ UNCHANGED <<call, file_size, left>>
    BY <1>9 DEF MissingPages, ghosts
  <2>3. \E c : f' = ReduceCache([f EXCEPT !.cache = c])
    <3>1. CASE Reads(t)
      <4>1. f' = ReadRest(f, io[t].reqs).f
        BY <1>9, <3>1 DEF MissingPages
      <4> QED BY <4>1 DEF ReadRest
    <3>2. CASE ~Reads(t)
      <4>1. f' = WriteRest(f, io[t].reqs, io[t].buf)
        BY <1>9, <3>2 DEF MissingPages
      <4> QED BY <4>1 DEF WriteRest
    <3> QED BY <3>1, <3>2
  <2>4. PICK c : f' = ReduceCache([f EXCEPT !.cache = c])
    BY <2>3
  <2> DEFINE g == [f EXCEPT !.cache = c]
  <2>5. DOMAIN g = Fields /\ g.trunc = f.trunc /\ g.mapped = f.mapped /\ g.disk = f.disk
    BY <1>dom DEF Fields
  <2>6. f' = ReduceCache(g)
    BY <2>4
  <2> HIDE DEF g
  <2>7. SameFile
    BY <2>5, <2>6, ReduceCacheKeeps DEF SameFile, Fields
  <2> QED BY <2>1, <2>2, <2>7, OnwardStep DEF Using
<1>10. CASE ExtendRegion(t)
  <2>1. SameFile
    BY <1>10, <1>dom DEF ExtendRegion, SameFile, Fields
  <2> QED BY <1>10, <2>1, OnwardStep DEF ExtendRegion, ghosts, Using
<1>11. CASE Return(t)
  <2>1. /\ UNCHANGED <<f, file_size, left>> /\ pc'[t] = "idle"
        /\ \A u \in Threads \ {t} : pc'[u] = pc[u] /\ call'[u] = call[u]
    BY <1>11 DEF Return, Goto, object, IInv, Typed
  <2>2. pc'[t] \notin {"region", "cas"} \cup Using
    BY <2>1 DEF Using
  <2> QED BY <2>1, <2>2, <1>same, QuietStep
<1> QED
  BY <1>1, <1>2, <1>3, <1>4, <1>5, <1>6, <1>7, <1>8, <1>9, <1>10, <1>11 DEF Step


\* Operations on the whole file run alone: only the object matters.
LEMMA WholeObject ==
  ASSUME BInv, Busy = {}, UNCHANGED pc, Object',
         UNCHANGED left \/ left' = [left EXCEPT !.whole = @ - 1]
  PROVE  BInv'
<1>1. \A t \in Threads : pc'[t] \notin {"region", "cas"} \cup Using
  BY DEF Busy, Using
<1>2. left' \in [kind : {"mmap", "pos", "block", "cached"}, calls : SUBSET Calls,
               threads : Nat, ops : Int, whole : Int, fails : Int, padding : SUBSET (Nat \ {0})]
  BY DEF BInv
<1> QED BY <1>1, <1>2 DEF BInv

LEMMA BackedWhole == ASSUME IInv, BInv, IInv', Whole PROVE BInv'
<1>sizes. /\ file_size \in Nat /\ Sizes \subseteq Nat /\ MaxSize \in Nat
          /\ DOMAIN f = Fields /\ f.trunc \in Nat /\ f.mapped \in Nat
          /\ 1 .. f.trunc \subseteq DOMAIN f.disk /\ file_size <= f.trunc
          /\ Mapped => f.trunc <= f.mapped
  BY SMTT(20), FileAssumption DEF IInv, Typed, BInv, Object
<1>alone. ASSUME NEW op, Alone(op) PROVE /\ Busy = {} /\ UNCHANGED pc /\ Mapped' = Mapped
                                         /\ left' = [left EXCEPT !.whole = @ - 1]
  BY <1>alone DEF Alone, Mapped, BInv
<1>1. ASSUME NEW n \in Sizes, Truncate(n) PROVE BInv'
  <2> DEFINE g == Flush(f, 0, n)
             m == TruncSize(n)
  <2>1. m \in Nat /\ m >= n /\ n \in Nat
    BY <1>sizes, AlignedSizes
  <2>2. DOMAIN g = Fields
    BY <1>sizes, FlushKeeps
  <2>3. /\ f' = [g EXCEPT !.cache = <<>>, !.trunc = m, !.mapped = m, !.region = m, !.disk = ftruncate(@, m)]
        /\ file_size' = n /\ Alone("truncate")
    BY <1>1 DEF Truncate
  <2> HIDE DEF g, m
  <2>4. DOMAIN f' = Fields /\ f'.trunc = m /\ f'.mapped = m /\ DOMAIN f'.disk = 1 .. m
    BY <2>2, <2>3 DEF Fields, ftruncate
  <2>5. Object'
    BY <2>1, <2>3, <2>4 DEF Object
  <2> QED BY <2>3, <2>5, <1>alone, WholeObject
<1>2. ASSUME NEW n \in Sizes, TruncateFakely(n) PROVE BInv'
  <2>1. Alone("fakely") /\ UNCHANGED f /\ file_size' = n /\ n <= f.trunc
    BY <1>2 DEF TruncateFakely
  <2>2. Object'
    BY <2>1, <1>sizes, <1>alone DEF Object
  <2> QED BY <2>1, <2>2, <1>alone, WholeObject
<1>3. ASSUME NEW n \in Sizes, SetHeadBuffer(n) PROVE BInv'
  <2> DEFINE e == [Flush(f, 0, 0) EXCEPT !.cache = <<>>]
             g == SaveHead(e)
  <2>1. Alone("head") /\ UNCHANGED file_size /\ \E h : f' = [g EXCEPT !.head = h]
    BY <1>3 DEF SetHeadBuffer
  <2>2. /\ DOMAIN Flush(f, 0, 0) = Fields /\ DOMAIN f.disk \subseteq DOMAIN Flush(f, 0, 0).disk
        /\ Flush(f, 0, 0)["trunc"] = f["trunc"] /\ Flush(f, 0, 0)["mapped"] = f["mapped"]
    BY <1>sizes, FlushKeeps DEF Fields
  <2>3. DOMAIN e = Fields /\ e.trunc = f.trunc /\ e.mapped = f.mapped /\ e.disk = Flush(f, 0, 0).disk
    BY <2>2 DEF Fields
  <2> HIDE DEF e
  <2>4. /\ DOMAIN g = Fields /\ DOMAIN e.disk \subseteq DOMAIN g.disk
        /\ g["trunc"] = e["trunc"] /\ g["mapped"] = e["mapped"]
    BY <2>3, SaveHeadKeeps DEF Fields
  <2> HIDE DEF g
  <2>5. /\ DOMAIN f' = Fields /\ f'.trunc = f.trunc /\ f'.mapped = f.mapped
        /\ DOMAIN f.disk \subseteq DOMAIN f'.disk
    BY <2>1, <2>2, <2>3, <2>4 DEF Fields
  <2>6. Object'
    BY <2>1, <2>5, <1>sizes, <1>alone DEF Object
  <2> QED BY <2>1, <2>6, <1>alone, WholeObject
<1>4. ASSUME NEW off, NEW n, Synchronize(off, n) PROVE BInv'
  <2> DEFINE e == Flush(f, off, n)
             g == SaveHead(e)
             m == AlignNumber(file_size, Block)
  <2>1. Alone("sync") /\ UNCHANGED file_size /\ f' = [g EXCEPT !.trunc = m, !.region = m, !.disk = ftruncate(@, m)]
    BY <1>4 DEF Synchronize, Synced
  <2>2. m \in Nat /\ m >= file_size /\ (Mapped => m = file_size)
    BY <1>sizes, AlignedIsEnough, BlockIsPositive DEF Mapped, Block, AlignNumber
  <2>3. DOMAIN e = Fields /\ e["mapped"] = f["mapped"]
    BY <1>sizes, FlushKeeps DEF Fields
  <2> HIDE DEF e
  <2>4. DOMAIN g = Fields /\ g["mapped"] = e["mapped"]
    BY <2>3, SaveHeadKeeps DEF Fields
  <2> HIDE DEF g, m
  <2>5. DOMAIN f' = Fields /\ f'.trunc = m /\ f'.mapped = f.mapped /\ DOMAIN f'.disk = 1 .. m
    BY <2>1, <2>3, <2>4 DEF Fields, ftruncate
  <2>6. Object'
    BY <2>1, <2>2, <2>5, <1>sizes, <1>alone DEF Object
  <2> QED BY <2>1, <2>6, <1>alone, WholeObject
<1>5. CASE Close
  <2>1. Alone("close") /\ file_size' = 0
    BY <1>5 DEF Close
  <2>2. PICK d : f' = [open |-> FALSE, trunc |-> 0, mapped |-> 0, head |-> <<>>, mutex |-> None,
                       disk |-> d, cache |-> <<>>, region |-> 0]
    BY <1>5, Zenon DEF Close
  <2>3. DOMAIN f' = Fields /\ f'.trunc = 0 /\ f'.mapped = 0
    BY <2>2 DEF Fields
  <2>4. Object'
    BY <2>1, <2>3 DEF Object
  <2> QED BY <2>1, <2>4, <1>alone, WholeObject
<1>6. CASE Open
  <2> DEFINE n == Len(f.disk)
             m == OpenSize(n)
  <2>1. Busy = {} /\ UNCHANGED <<pc, left>> /\ f' = Opened(f.disk) /\ n \in 0 .. MaxSize /\ file_size' = n
    BY <1>6 DEF Open
  <2>2. n \in Nat
    BY <2>1, <1>sizes
  <2>m. m \in Nat /\ m >= n
    BY <2>2, AlignedSizes
  <2>3. f' = [open |-> TRUE, trunc |-> m, mapped |-> m, head |-> <<>>, mutex |-> None,
              disk |-> ftruncate(f.disk, m), cache |-> <<>>, region |-> m]
    BY <2>1 DEF Opened
  <2> HIDE DEF m
  <2>4. DOMAIN f' = Fields /\ f'.trunc = m /\ f'.mapped = m /\ DOMAIN f'.disk = 1 .. m
    BY <2>3 DEF Fields, ftruncate
  <2>5. Object'
    BY <2>1, <2>2, <2>m, <2>4 DEF Object
  <2> QED BY <2>1, <2>5, WholeObject
<1> QED BY <1>1, <1>2, <1>3, <1>4, <1>5, <1>6 DEF Whole

LEMMA BackedInductive == IInv /\ BInv /\ IInv' /\ [Next]_vars => BInv'
<1> SUFFICES ASSUME IInv, BInv, IInv', [Next]_vars PROVE BInv'
  OBVIOUS
<1>1. CASE UNCHANGED vars
  BY <1>1 DEF vars, object, ghosts, BInv, Object, Mapped, BackedEnd, Reads, NeededEnd, Block, End
<1>2. ASSUME NEW t \in Threads, Begin(t) \/ Step(t) PROVE BInv'
  BY <1>2, BackedBegin, GrowStep, ExchangeStep, BackedSteps
<1>3. CASE Whole
  BY <1>3, BackedWhole
<1> QED BY <1>1, <1>2, <1>3 DEF Next

\* Whatever the threads, the sizes, the kind of file and the growth of the file by other
\* threads, the cells a thread was given are in the file, and in the mapping of a mapped one,
\* for as long as the thread uses them (AllocateSpace, Zone, ReadImpl and WriteImpl).
THEOREM Backing == Spec => []AccessIsBacked
<1>1. Init => IInv /\ BInv
  BY Initially, BackedInitially
<1>2. IInv /\ BInv /\ [Next]_vars => (IInv /\ BInv)'
  BY Inductive, BackedInductive
<1>3. IInv /\ BInv => AccessIsBacked
  BY BackedImplied
<1> QED BY <1>1, <1>2, <1>3, PTL DEF Spec

=============================================================================

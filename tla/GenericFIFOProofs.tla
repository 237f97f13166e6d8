------------------------ MODULE GenericFIFOProofs ------------------------
(***************************************************************************)
(* GenericFIFO for every ring size, element type, number of resetting       *)
(* threads and bound: the invariant FifoInv is inductive, the sizes that    *)
(* numFree() and numUsed() report can be relied on, and the ring buffer     *)
(* implements the queue of FifoQueue. The lemmas come first: the arithmetic *)
(* of the ring, and what each part of FifoInv depends on; then the steps of *)
(* the thread that writes, of the one that reads and of those that reset.   *)
(***************************************************************************)
EXTENDS GenericFIFO, TLAPS

--------------------------------------------------------------------------
(* The ring, and the steps of the writer and the reader *)


\* Advancing an index stays inside the ring.
LEMMA AdvanceType ==
  ASSUME NEW idx \in 0 .. N - 1, NEW len \in 0 .. N
  PROVE  advance(idx, len) \in 0 .. N - 1
BY NAssumption DEF advance

\* The distance between two cursors is the number of slots in use.
LEMMA UsedType ==
  ASSUME NEW in \in Pos, NEW out \in Pos
  PROVE  used(in, out) \in 0 .. N - 1
BY NAssumption DEF used, Pos

\* Two counts below N lead to two different slots.
LEMMA AdvanceInjective ==
  ASSUME NEW idx \in 0 .. N - 1, NEW i \in 0 .. N - 1, NEW j \in 0 .. N - 1,
         advance(idx, i) = advance(idx, j)
  PROVE  i = j
BY NAssumption DEF advance

\* Advancing twice is advancing by the sum.
LEMMA AdvanceTwice ==
  ASSUME NEW idx \in 0 .. N - 1, NEW i \in 0 .. N - 1, NEW j \in 0 .. N - 1, i + j <= N - 1
  PROVE  advance(advance(idx, i), j) = advance(idx, i + j)
BY NAssumption DEF advance

\* Advancing the reading index by the number of used slots leads to the writing index.
LEMMA AdvanceByUsed ==
  ASSUME NEW in \in Pos, NEW out \in Pos
  PROVE  advance(out.idx, used(in, out)) = in.idx
BY NAssumption DEF advance, used, Pos

\* Publishing len elements adds len to the used slots.
LEMMA UsedAfterWrite ==
  ASSUME NEW in \in Pos, NEW out \in Pos, NEW len \in Nat, used(in, out) + len <= N - 1
  PROVE  used(makePos(in.gen, advance(in.idx, len)), out) = used(in, out) + len
BY NAssumption DEF advance, used, Pos, makePos

\* Consuming len elements takes len from the used slots.
LEMMA UsedAfterRead ==
  ASSUME NEW in \in Pos, NEW out \in Pos, NEW len \in Nat, len <= used(in, out)
  PROVE  used(in, makePos(out.gen, advance(out.idx, len))) = used(in, out) - len
BY NAssumption DEF advance, used, Pos, makePos

\* The position of a constructed FIFO.
LEMMA StartType == Start \in Pos
BY NAssumption, GenAssumption DEF Start, makePos, Pos

\* A packed position is determined by its two halves.
LEMMA PosParts ==
  ASSUME NEW p \in Pos
  PROVE  p.gen \in 0 .. GenLimit - 1 /\ p.idx \in 0 .. N - 1 /\ p = makePos(p.gen, p.idx)
BY Zenon DEF Pos, makePos

\* Both halves in range make a packed position.
LEMMA MakePosType ==
  ASSUME NEW gen \in 0 .. GenLimit - 1, NEW idx \in 0 .. N - 1
  PROVE  makePos(gen, idx) \in Pos /\ makePos(gen, idx).gen = gen /\ makePos(gen, idx).idx = idx
BY Zenon DEF Pos, makePos

\* The block a caller hands to write() is a sequence of elements.
LEMMA BlockType ==
  ASSUME NEW d \in Blocks
  PROVE  d \in Seq(Values)
BY BlockAssumption DEF Blocks

\* The slots of the queue are slots of the ring.
LEMMA SlotType ==
  ASSUME pout \in Pos, Len(q) \in Nat, Len(q) <= N - 1, NEW i \in 1 .. Len(q)
  PROVE  slot(i) \in 0 .. N - 1
<1>1. i - 1 \in 0 .. N /\ pout.idx \in 0 .. N - 1
  BY PosParts, NAssumption
<1> QED
  BY <1>1, AdvanceType, Zenon DEF slot

\* A write() that returns leaves canonical locals behind.
LEMMA WriteReturnsType ==
  ASSUME NEW result \in {"ok", "fail"}, writeReturns(result)
  PROVE  /\ wpc' \in {"idle", "loadPin", "loadPout", "copy", "free"}
         /\ wdata' \in Seq(Values) /\ wpos' \in Pos /\ wk' \in 0 .. Len(wdata')
         /\ wret' \in {"none", "ok", "fail"} /\ wfree' \in Int /\ wquiet' \in BOOLEAN
<1>1. wdata' \in Seq(Values) /\ wpos' \in Pos /\ wk' \in 0 .. Len(wdata')
  BY StartType DEF writeReturns
<1>2. wfree' \in Int
  BY DEF writeReturns, Unknown
<1> QED
  BY <1>1, <1>2, Zenon DEF writeReturns

\* So does a read() that returns.
LEMMA ReadReturnsType ==
  ASSUME NEW result \in {"ok", "fail"}, readReturns(result)
  PROVE  /\ rpc' \in {"idle", "loadPout", "loadPin", "copy", "used"}
         /\ rlen' \in Nat /\ rpos' \in Pos /\ rdata' \in Seq(Values) /\ Len(rdata') <= rlen'
         /\ rret' \in {"none", "ok", "fail"} /\ rused' \in Int /\ rquiet' \in BOOLEAN
<1>1. rlen' \in Nat /\ rpos' \in Pos /\ rdata' \in Seq(Values) /\ Len(rdata') <= rlen'
  BY StartType DEF readReturns
<1>2. rused' \in Int
  BY DEF readReturns, Unknown
<1> QED
  BY <1>1, <1>2, Zenon DEF readReturns

\* A block of l elements that does not fit a ring that holds n is longer than the room in it.
LEMMA DoesNotFit ==
  ASSUME NEW n \in Nat, NEW l \in Nat, NEW room \in Int, ~(N - n - 1 >= l), room <= N - 1 - n
  PROVE  l > room
BY NAssumption

\* The generations of all cursors are numbers.
LEMMA Generations ==
  ASSUME TypeOK
  PROVE  /\ pin.gen \in Nat /\ pout.gen \in Nat /\ poutCache.gen \in Nat /\ pinCache.gen \in Nat
         /\ wpos.gen \in Nat /\ rpos.gen \in Nat /\ resets \in Nat
<1>1. \A p \in Pos : p.gen \in Nat
  BY PosParts, GenAssumption
<1>2. resets \in Nat
  BY GenAssumption DEF TypeOK
<1> QED
  BY <1>1, <1>2, Zenon DEF TypeOK

\* The generation does not wrap within the bound on reset() calls.
LEMMA FreshPos ==
  ASSUME TypeOK, ResetInv, NEW z \in Resetters, zpc[z] = "storePin"
  PROVE  freshPos(z) \in Pos /\ freshPos(z).gen = pin.gen + 1 /\ freshPos(z).idx = 0
<1>1. pin.gen \in Nat /\ pin.gen + 1 \in 0 .. GenLimit - 1 /\ GenLimit \in Nat
  BY GenAssumption, PosParts DEF TypeOK, ResetInv
<1>2. (pin.gen + 1) % GenLimit = pin.gen + 1
  BY <1>1
<1>3. zold[z] = pin.gen
  BY Zenon DEF ResetInv
<1>4. 0 \in 0 .. N - 1
  BY NAssumption
<1>5. freshPos(z) = makePos(pin.gen + 1, 0)
  BY <1>2, <1>3, Zenon DEF freshPos
<1> QED
  BY <1>1, <1>4, <1>5, MakePosType

--------------------------------------------------------------------------
(* What each part of the invariant reads *)

\* ResetInv reads the positions, the guard and the resetters.
LEMMA ResetFrame ==
  ASSUME ResetInv, UNCHANGED <<zpc, zold, resets, resetting, pin, pout, pinCache>>
  PROVE  ResetInv'
BY Zenon DEF ResetInv, freshPos

\* A step that leaves the ring and the cursors alone keeps what FifoInv says of them.
LEMMA RingFrame ==
  ASSUME RingInv, UNCHANGED <<buf, pin, pout, q>>
  PROVE  RingInv'
BY Zenon DEF RingInv, slot

\* A step that changes neither a cursor nor its cached copy keeps the bounds on the caches.
LEMMA CacheFrame ==
  ASSUME CacheInv, UNCHANGED <<pin, pout, poutCache, pinCache, q>>
  PROVE  CacheInv'
BY Zenon DEF CacheInv

\* A step of another thread that leaves the producer's locals and the ring alone keeps what FifoInv says of write().
LEMMA WriterFrame ==
  ASSUME WriterInv, UNCHANGED <<buf, pin, pout, poutCache, q, wpc, wdata, wpos, wk, wret>>
  PROVE  WriterInv'
BY Zenon DEF WriterInv, fits

\* The same of the consumer inside read().
LEMMA ReaderFrame ==
  ASSUME ReaderInv, UNCHANGED <<pout, pinCache, q, rpc, rlen, rpos, rdata, rret>>
  PROVE  ReaderInv'
BY Zenon DEF ReaderInv, holds

\* The same of the sizes that numFree() and numUsed() have reported.
LEMMA SizeFrame ==
  ASSUME SizeInv, UNCHANGED <<resetting, pin, pout, q, wpc, wpos, wfree, wquiet,
                              rpc, rpos, rused, rquiet>>
  PROVE  SizeInv'
BY Zenon DEF SizeInv

--------------------------------------------------------------------------
(* What the invariant says about reset() *)

\* The thread past the compare-exchange loop of reset() is alone there.
LEMMA OneReset ==
  ASSUME ResetInv, NEW z \in Resetters, zpc[z] # "idle"
  PROVE  resetting /\ \A y \in Resetters : y # z => zpc[y] = "idle"
BY Zenon DEF ResetInv

\* The cursors differ in generation only between the two stores of reset().
LEMMA SameGeneration ==
  ASSUME ResetInv, \A y \in Resetters : zpc[y] # "storePout"
  PROVE  pin.gen = pout.gen
BY Zenon DEF ResetInv

\* Before the two stores of reset() its thread has the next generation to itself.
LEMMA BeforeStores ==
  ASSUME ResetInv, NEW z \in Resetters, zpc[z] \in {"loadPin", "storePin"}
  PROVE  pin.gen < resets
BY Zenon DEF ResetInv

\* Between the two stores of reset().
LEMMA BetweenStores ==
  ASSUME ResetInv, NEW z \in Resetters, zpc[z] = "storePout"
  PROVE  /\ pin = freshPos(z) /\ pin.gen = pout.gen + 1 /\ pin.gen <= resets
         /\ pinCache.gen = pin.gen => pinCache = pin
BY Zenon DEF ResetInv

\* A size that can still be relied on excludes a reset() in progress.
LEMMA Quiet ==
  ASSUME ResetInv, SizeInv, RingInv, wquiet \/ rquiet
  PROVE  pin.gen = pout.gen /\ used(pin, pout) = Len(q)
<1>1. ~resetting
  BY Zenon DEF SizeInv
<1>2. \A z \in Resetters : zpc[z] = "idle"
  BY <1>1, Zenon DEF ResetInv
<1>3. \A z \in Resetters : zpc[z] # "storePout"
  BY <1>2, Zenon
<1>4. pin.gen = pout.gen
  BY <1>3, SameGeneration, Zenon
<1> QED
  BY <1>4, Zenon DEF RingInv

\* During a reset() no size can be relied on.
LEMMA NotQuiet ==
  ASSUME SizeInv, resetting
  PROVE  ~wquiet /\ ~rquiet
BY Zenon DEF SizeInv
--------------------------------------------------------------------------
(* The thread that calls write() and numFree() *)

\* Calling write() keeps the invariant: it has read nothing yet.
LEMMA WriteBeginInv ==
  ASSUME FifoInv, NEW d \in Blocks, WriteBegin(d)
  PROVE  FifoInv'
<1> USE DEF FifoInv, WriteBegin, writeReturns, writeGoesOn, object, consumer, resetter, history
<1>1. TypeOK'
  <2>1. CASE resetting
    BY <2>1, WriteReturnsType, Zenon DEF TypeOK
  <2>2. CASE ~resetting
    <3>1. wk = 0
      BY Zenon DEF WriterInv
    <3> QED
      BY <2>2, <3>1, BlockType DEF TypeOK
  <2> QED
    BY <2>1, <2>2, Zenon
<1>2. ResetInv' /\ RingInv' /\ CacheInv' /\ ReaderInv'
  BY ResetFrame, RingFrame, CacheFrame, ReaderFrame, Zenon
<1>3. WriterInv'
  BY Zenon DEF WriterInv, TypeOK
<1>4. SizeInv'
  BY Zenon DEF SizeInv, TypeOK
<1> QED
  BY <1>1, <1>2, <1>3, <1>4, Zenon

\* FifoInv is preserved when write() captures its own cursor.
LEMMA WriteLoadPinInv ==
  ASSUME FifoInv, WriteLoadPin
  PROVE  FifoInv'
<1> USE DEF FifoInv, WriteLoadPin, writeGoesOn, object, consumer, resetter, history
<1>1. TypeOK'
  BY Zenon DEF TypeOK
<1>2. ResetInv' /\ RingInv' /\ CacheInv' /\ ReaderInv'
  BY ResetFrame, RingFrame, CacheFrame, ReaderFrame, Zenon
<1>3. WriterInv'
  <2>1. pin \in Pos /\ poutCache \in Pos /\ pout \in Pos /\ Len(wdata) \in Nat /\ Len(q) \in Nat
    BY DEF TypeOK
  <2>2. pin.gen \in Nat /\ pout.gen \in Nat /\ pin.gen >= pout.gen
    BY <2>1, PosParts, GenAssumption DEF ResetInv
  <2>3. pin.gen = pout.gen => used(pin, pout) = Len(q)
    BY Zenon DEF RingInv
  <2>4. wpc' = "copy" => fits(pin, poutCache) /\ wk = 0
    BY Zenon DEF WriterInv
  <2>5. fits(pin, poutCache) /\ pin.gen = pout.gen => Len(q) + Len(wdata) <= N - 1
    BY <2>1, <2>2, <2>3, UsedType, NAssumption, SMTT(30) DEF CacheInv, fits, sameGeneration
  <2> QED
    BY <2>1, <2>2, <2>3, <2>4, <2>5 DEF WriterInv, fits
<1>4. SizeInv'
  BY Zenon DEF SizeInv, TypeOK
<1> QED
  BY <1>1, <1>2, <1>3, <1>4, Zenon

\* FifoInv is preserved when write() tests for room and may refresh its cached copy of pout_.
LEMMA WriteLoadPoutInv ==
  ASSUME FifoInv, WriteLoadPout
  PROVE  FifoInv'
<1> USE DEF FifoInv, WriteLoadPout, writeReturns, writeGoesOn, consumer, resetter, history
<1>1. TypeOK'
  <2>1. CASE fits(wpos, pout)
    BY <2>1, Zenon DEF TypeOK
  <2>2. CASE ~fits(wpos, pout)
    BY <2>2, WriteReturnsType, Zenon DEF TypeOK
  <2> QED
    BY <2>1, <2>2, Zenon
<1>2. ResetInv' /\ RingInv' /\ ReaderInv'
  BY ResetFrame, RingFrame, ReaderFrame, Zenon
<1>3. pout \in Pos /\ pin \in Pos /\ Len(q) \in Nat /\ Len(wdata) \in Nat
  BY DEF TypeOK
<1>4. pout.gen \in Nat
  BY <1>3, PosParts
<1>5. CacheInv'
  BY <1>3, <1>4 DEF CacheInv, RingInv
<1>6. WriterInv'
  <2>1. CASE fits(wpos, pout)
    <3>1. wpos.gen = pout.gen => used(wpos, pout) = Len(q) /\ wk = 0
      BY Zenon DEF WriterInv
    <3>2. Len(q) + Len(wdata) <= N - 1
      BY <2>1, <3>1, <1>3, NAssumption DEF fits, sameGeneration
    <3> QED
      BY <2>1, <3>1, <3>2 DEF WriterInv, fits, sameGeneration
  <2>2. CASE ~fits(wpos, pout)
    BY <2>2, Zenon DEF WriterInv
  <2> QED
    BY <2>1, <2>2, Zenon
<1>7. SizeInv'
  BY Zenon DEF SizeInv, TypeOK
<1> QED
  BY <1>1, <1>2, <1>5, <1>6, <1>7, Zenon

\* FifoInv is preserved when write() copies its elements into the free part of the ring.
LEMMA WriteCopyInv ==
  ASSUME FifoInv, WriteCopy
  PROVE  FifoInv'
<1> USE DEF FifoInv, WriteCopy, consumer, resetter, history
<1> DEFINE at == advance(wpos.idx, wk)
<1>1. /\ wpos \in Pos /\ pout \in Pos /\ pin \in Pos /\ poutCache \in Pos
      /\ wpos.idx \in 0 .. N - 1 /\ pout.idx \in 0 .. N - 1
      /\ wpos.gen \in Nat /\ pout.gen \in Nat /\ pin.gen \in Nat
      /\ Len(wdata) \in Nat /\ Len(q) \in Nat /\ wk \in Nat /\ wk + 1 \in 1 .. Len(wdata)
  <2>1. /\ wpos \in Pos /\ pout \in Pos /\ pin \in Pos /\ poutCache \in Pos
        /\ wdata \in Seq(Values) /\ q \in Seq(Values) /\ wk \in 0 .. Len(wdata)
    BY Zenon DEF TypeOK
  <2>2. wk < Len(wdata)
    BY Zenon
  <2>3. Len(wdata) \in Nat /\ Len(q) \in Nat
    BY <2>1
  <2>4. /\ wpos.idx \in 0 .. N - 1 /\ pout.idx \in 0 .. N - 1
        /\ wpos.gen \in Nat /\ pout.gen \in Nat /\ pin.gen \in Nat
    BY <2>1, PosParts
  <2> QED
    BY <2>1, <2>2, <2>3, <2>4
<1>2. Len(wdata) <= N - 1 /\ at \in 0 .. N - 1
  <2>1. used(wpos, poutCache) \in 0 .. N - 1
    BY <1>1, UsedType, Zenon
  <2>2. Len(wdata) <= N - 1
    BY <1>1, <2>1, NAssumption DEF WriterInv, fits
  <2>3. wk \in 0 .. N
    BY <1>1, <2>2, NAssumption
  <2> QED
    BY <1>1, <2>2, <2>3, AdvanceType, Zenon
<1>3. TypeOK'
  <2>1. wdata[wk + 1] \in Values
    BY <1>1 DEF TypeOK
  <2>2. buf' \in [0 .. N - 1 -> Values] /\ wk' \in 0 .. Len(wdata)
    BY <1>1, <1>2, <2>1 DEF TypeOK
  <2> QED
    BY <2>2, ZenonT(30) DEF TypeOK
<1>4. \A i \in 1 .. Len(q) : slot(i) # at
  <2> SUFFICES ASSUME NEW i \in 1 .. Len(q) PROVE slot(i) # at
    BY Zenon
  <2>1. wpos.gen = pout.gen
    <3>1. wpos.gen <= pout.gen
      BY <1>1, PosParts, Zenon DEF WriterInv, CacheInv, fits, sameGeneration
    <3>2. ~(wpos.gen < pout.gen)
      BY <1>1 DEF WriterInv
    <3> QED
      BY <1>1, <3>1, <3>2, SMTT(30)
  <2>2. used(wpos, pout) = Len(q) /\ Len(q) + Len(wdata) <= N - 1
    BY <2>1, Zenon DEF WriterInv
  <2>3. at = advance(pout.idx, Len(q) + wk)
    <3>1. wpos.idx = advance(pout.idx, Len(q))
      BY <1>1, <2>2, AdvanceByUsed, Zenon
    <3>2. Len(q) \in 0 .. N - 1 /\ wk \in 0 .. N - 1 /\ Len(q) + wk <= N - 1
      BY <1>1, <2>2, NAssumption, SMTT(30)
    <3> QED
      BY <1>1, <3>1, <3>2, AdvanceTwice
  <2>4. i - 1 \in 0 .. N - 1 /\ Len(q) + wk \in 0 .. N - 1 /\ i - 1 # Len(q) + wk
    BY <1>1, <2>2, NAssumption, SMTT(30)
  <2> QED
    BY <1>1, <2>3, <2>4, AdvanceInjective, Zenon DEF slot
<1>5. RingInv'
  <2>1. \A i \in 1 .. Len(q) : slot(i) \in 0 .. N - 1
    BY <1>1, SlotType, Zenon DEF RingInv
  <2>2. buf' = [buf EXCEPT ![at] = wdata[wk + 1]] /\ DOMAIN buf = 0 .. N - 1
    BY Zenon DEF TypeOK
  <2>3. \A i \in 1 .. Len(q) : buf'[slot(i)] = buf[slot(i)]
    BY <1>4, <2>1, <2>2, Zenon
  <2>4. \A i : slot(i)' = slot(i)
    BY Zenon DEF slot
  <2> QED
    BY <2>3, <2>4, Zenon DEF RingInv
<1>6. WriterInv'
  <2> SUFFICES ASSUME wpos.gen = pin.gen, NEW k \in 1 .. wk + 1
               PROVE  buf'[advance(wpos.idx, k - 1)] = wdata[k]
    BY Zenon DEF WriterInv, fits
  <2>1. k - 1 \in 0 .. N - 1 /\ wk \in 0 .. N - 1 /\ k - 1 \in 0 .. N
    BY <1>1, <1>2, NAssumption, SMTT(30)
  <2>2. advance(wpos.idx, k - 1) \in 0 .. N - 1
    BY <1>1, <2>1, AdvanceType, Zenon
  <2>3. CASE k = wk + 1
    BY <1>1, <1>2, <2>3 DEF TypeOK
  <2>4. CASE k # wk + 1
    <3>1. k \in 1 .. wk
      BY <1>1, <2>4
    <3>2. advance(wpos.idx, k - 1) # at
      BY <1>1, <2>1, <2>4, AdvanceInjective
    <3> QED
      BY <2>2, <3>1, <3>2, Zenon DEF WriterInv, TypeOK
  <2> QED
    BY <2>3, <2>4, Zenon
<1>7. ResetInv' /\ CacheInv' /\ ReaderInv' /\ SizeInv'
  BY ResetFrame, CacheFrame, ReaderFrame, SizeFrame, Zenon
<1> QED
  BY <1>3, <1>5, <1>6, <1>7, Zenon

\* FifoInv is preserved when write() publishes its elements with the compare-and-swap of pin_, or fails.
LEMMA WriteCommitInv ==
  ASSUME FifoInv, WriteCommit
  PROVE  FifoInv'
<1> USE DEF FifoInv
<1> DEFINE len == Len(wdata)
<1>1. /\ wpos \in Pos /\ pout \in Pos /\ pin \in Pos /\ poutCache \in Pos /\ pinCache \in Pos
      /\ wpos.idx \in 0 .. N - 1 /\ pout.idx \in 0 .. N - 1 /\ wpos.gen \in 0 .. GenLimit - 1
      /\ pout.gen \in Nat /\ pin.gen \in Nat /\ poutCache.gen \in Nat
      /\ len \in Nat /\ Len(q) \in Nat /\ q \in Seq(Values) /\ wdata \in Seq(Values)
  BY PosParts, SMTT(30) DEF TypeOK
<1> DEFINE Others == UNCHANGED <<buf, pout, poutCache, pinCache, resetting, rpc, rlen, rpos, rdata,
                                 rret, rused, rquiet, zpc, zold, resets, got>>
<1>2. CASE pin = wpos
  <2>1. /\ pin' = makePos(pin.gen, advance(pin.idx, len)) /\ q' = q \o wdata
        /\ writeReturns("ok") /\ wpc = "copy" /\ wk = len /\ Others
    BY ONLY <1>2, WriteCommit, Zenon DEF WriteCommit, consumer, resetter
  <2>2. pin.gen = pout.gen /\ poutCache.gen = pin.gen
    <3>1. fits(wpos, poutCache)
      BY ONLY WriterInv, <2>1, Zenon DEF WriterInv
    <3>2. poutCache.gen = pin.gen
      BY ONLY <1>2, <3>1, Zenon DEF fits, sameGeneration
    <3>3. poutCache.gen <= pout.gen /\ pout.gen <= pin.gen
      BY ONLY CacheInv, ResetInv, Zenon DEF CacheInv, ResetInv
    <3> QED
      BY ONLY <1>1, <3>2, <3>3
  <2>3. used(pin, pout) = Len(q) /\ Len(q) + len <= N - 1
    BY ONLY <1>2, <2>1, <2>2, RingInv, WriterInv, Zenon DEF RingInv, WriterInv
  <2>4. used(pin, poutCache) \in 0 .. N - 1 /\ used(pin, poutCache) + len <= N - 1
    <3>1. used(pin, poutCache) \in 0 .. N - 1
      BY <1>1, UsedType, Zenon
    <3>2. N - used(pin, poutCache) - 1 >= len
      BY ONLY <1>2, <2>1, WriterInv, Zenon DEF WriterInv, fits
    <3> QED
      BY <1>1, <3>1, <3>2, NAssumption
  <2>5. advance(pin.idx, len) \in 0 .. N - 1
    <3>1. len \in 0 .. N
      BY <1>1, <2>3, NAssumption
    <3> QED
      BY <1>1, <1>2, <3>1, AdvanceType, Zenon
  <2>6. pin' \in Pos /\ pin'.gen = pin.gen
    BY ONLY <1>1, <1>2, <2>1, <2>5, MakePosType, Zenon
  <2>7. q' \in Seq(Values) /\ Len(q') = Len(q) + len
    BY ONLY <1>1, <2>1
  <2>8. \A i \in 1 .. Len(q) : q'[i] = q[i]
    BY ONLY <1>1, <2>1
  <2>9. \A i \in 1 .. len : q'[Len(q) + i] = wdata[i]
    BY ONLY <1>1, <2>1
  <2>10. \A z \in Resetters : zpc[z] # "storePout"
    <3>1. pin.gen # pout.gen + 1
      BY ONLY <1>1, <2>2
    <3> QED
      BY ONLY <3>1, ResetInv, Zenon DEF ResetInv
  <2>11. TypeOK'
    <3>1. /\ wpc' \in {"idle", "loadPin", "loadPout", "copy", "free"}
          /\ wdata' \in Seq(Values) /\ wpos' \in Pos /\ wk' \in 0 .. Len(wdata')
          /\ wret' \in {"none", "ok", "fail"} /\ wfree' \in Int /\ wquiet' \in BOOLEAN
      BY ONLY <2>1, WriteReturnsType, Zenon
    <3> QED
      BY ONLY TypeOK, <2>1, <2>6, <2>7, <3>1, Zenon DEF TypeOK
  <2>12. ResetInv'
    BY ONLY ResetInv, <2>1, <2>2, <2>6, <2>10, Zenon DEF ResetInv
  <2>13. RingInv'
    <3>1. used(pin', pout) = Len(q) + len
      <4>1. used(pin, pout) + len <= N - 1
        BY ONLY <2>3, Zenon
      <4>2. used(makePos(pin.gen, advance(pin.idx, len)), pout) = used(pin, pout) + len
        BY ONLY <1>1, <4>1, UsedAfterWrite, Zenon
      <4> QED
        BY ONLY <2>1, <2>3, <4>2, Zenon
    <3>2. ASSUME NEW i \in 1 .. Len(q) + len
          PROVE  buf[slot(i)] = q'[i]
      <4>1. CASE i <= Len(q)
        <5>1. i \in 1 .. Len(q)
          BY ONLY <1>1, <4>1
        <5> QED
          BY ONLY <5>1, <2>8, RingInv, Zenon DEF RingInv
      <4>2. CASE ~(i <= Len(q))
        <5> DEFINE k == i - Len(q)
        <5>1. /\ k \in 1 .. len /\ Len(q) \in 0 .. N - 1 /\ k - 1 \in 0 .. N - 1
              /\ Len(q) + (k - 1) = i - 1 /\ Len(q) + (k - 1) <= N - 1 /\ Len(q) + k = i
          BY ONLY <1>1, <2>3, <4>2, NAssumption
        <5>2. wpos.idx = advance(pout.idx, Len(q))
          BY ONLY <1>1, <1>2, <2>3, AdvanceByUsed, Zenon
        <5>3. advance(wpos.idx, k - 1) = advance(pout.idx, i - 1)
          BY ONLY <1>1, <5>1, <5>2, AdvanceTwice
        <5>4. buf[advance(wpos.idx, k - 1)] = wdata[k]
          <6>1. k \in 1 .. wk /\ wpos.gen = pin.gen
            BY ONLY <1>2, <2>1, <5>1, Zenon
          <6> QED
            BY ONLY <2>1, <6>1, WriterInv, Zenon DEF WriterInv
        <5>5. q'[Len(q) + k] = wdata[k]
          BY ONLY <2>9, <5>1, Zenon
        <5> QED
          BY ONLY <5>1, <5>3, <5>4, <5>5, Zenon DEF slot
      <4> QED
        BY <4>1, <4>2, Zenon
    <3>3. \A i : slot(i)' = slot(i)
      BY ONLY <2>1, Zenon DEF slot
    <3> QED
      BY <2>1, <2>3, <2>7, <3>1, <3>2, <3>3, Zenon DEF RingInv
  <2>14. CacheInv'
    <3>1. used(pin', poutCache) = used(pin, poutCache) + len
      BY ONLY <1>1, <2>1, <2>4, UsedAfterWrite, Zenon
    <3>2. used(pinCache, pout) \in 0 .. N - 1
      BY ONLY <1>1, UsedType, Zenon
    <3>3. used(pin, poutCache) >= Len(q) /\ (pinCache.gen = pout.gen => used(pinCache, pout) <= Len(q))
      BY ONLY <2>2, CacheInv, Zenon DEF CacheInv
    <3>4. used(pin', poutCache) >= Len(q')
      BY ONLY <1>1, <2>4, <2>7, <3>1, <3>3
    <3>5. pinCache.gen = pout.gen => used(pinCache, pout) <= Len(q')
      BY ONLY <1>1, <2>7, <3>2, <3>3
    <3> QED
      BY ONLY CacheInv, <2>1, <2>6, <3>4, <3>5, Zenon DEF CacheInv
  <2>15. WriterInv'
    BY ONLY <2>1, Zenon DEF WriterInv, writeReturns
  <2>16. ReaderInv'
    <3>1. rpc = "copy" /\ rpos.gen = pout.gen => rlen <= Len(q') /\ Len(rdata) <= Len(q)
      <4>1. rlen \in Nat /\ rdata \in Seq(Values) /\ Len(rdata) <= rlen
        BY Zenon DEF TypeOK
      <4>2. rpc = "copy" /\ rpos.gen = pout.gen => rlen <= Len(q)
        BY Zenon DEF ReaderInv
      <4> QED
        BY ONLY <1>1, <2>7, <4>1, <4>2
    <3>2. rpc = "copy" /\ rpos.gen = pout.gen => \A i \in 1 .. Len(rdata) : rdata[i] = q'[i]
      <4> SUFFICES ASSUME rpc = "copy", rpos.gen = pout.gen, NEW i \in 1 .. Len(rdata)
                   PROVE  rdata[i] = q'[i]
        BY Zenon
      <4>1. Len(rdata) \in Nat
        BY ONLY TypeOK DEF TypeOK
      <4>2. i \in 1 .. Len(q)
        BY ONLY <1>1, <3>1, <4>1, rpc = "copy", rpos.gen = pout.gen, i \in 1 .. Len(rdata)
      <4>3. rdata[i] = q[i]
        BY Zenon DEF ReaderInv
      <4> QED
        BY ONLY <2>8, <4>2, <4>3, Zenon
    <3> QED
      BY ONLY ReaderInv, <2>1, <3>1, <3>2, Zenon DEF ReaderInv, holds
  <2>17. SizeInv'
    <3>1. wquiet' = FALSE /\ wpc' = "idle"
      BY ONLY <2>1, Zenon DEF writeReturns
    <3>2. used(rpos, pout) \in Int /\ rused \in Int
      <4>1. rpos \in Pos /\ rused \in Int
        BY ONLY TypeOK, Zenon DEF TypeOK
      <4> QED
        BY ONLY <1>1, <4>1, UsedType
    <3>3. used(rpos, pout) <= Len(q) => used(rpos, pout) <= Len(q')
      BY ONLY <1>1, <2>7, <3>2
    <3>4. rused <= Len(q) => rused <= Len(q')
      BY ONLY <1>1, <2>7, <3>2
    <3> QED
      BY ONLY SizeInv, <2>1, <3>1, <3>3, <3>4, Zenon DEF SizeInv
  <2> QED
    BY <2>11, <2>12, <2>13, <2>14, <2>15, <2>16, <2>17, Zenon
<1>3. CASE pin # wpos
  <2>1. UNCHANGED <<pin, q>> /\ writeReturns("fail") /\ Others
    BY ONLY <1>3, WriteCommit, Zenon DEF WriteCommit, consumer, resetter
  <2>2. TypeOK'
    <3>1. /\ wpc' \in {"idle", "loadPin", "loadPout", "copy", "free"}
          /\ wdata' \in Seq(Values) /\ wpos' \in Pos /\ wk' \in 0 .. Len(wdata')
          /\ wret' \in {"none", "ok", "fail"} /\ wfree' \in Int /\ wquiet' \in BOOLEAN
      BY ONLY <2>1, WriteReturnsType, Zenon
    <3> QED
      BY ONLY TypeOK, <2>1, <3>1, Zenon DEF TypeOK
  <2>3. ResetInv' /\ RingInv' /\ CacheInv' /\ ReaderInv'
    BY <2>1, ResetFrame, RingFrame, CacheFrame, ReaderFrame, Zenon DEF resetter, consumer
  <2>4. WriterInv'
    BY ONLY <2>1, Zenon DEF WriterInv, writeReturns
  <2>5. SizeInv'
    BY ONLY SizeInv, <2>1, Zenon DEF SizeInv, writeReturns
  <2> QED
    BY <2>2, <2>3, <2>4, <2>5, Zenon
<1> QED
  BY <1>2, <1>3, Zenon

\* FifoInv is preserved when numFree() loads pin_.
LEMMA FreeLoadPinInv ==
  ASSUME FifoInv, FreeLoadPin
  PROVE  FifoInv'
<1> USE DEF FifoInv, FreeLoadPin, object, consumer, resetter, history
<1>1. TypeOK'
  BY DEF TypeOK, Unknown
<1>2. ResetInv' /\ RingInv' /\ CacheInv' /\ ReaderInv'
  BY ResetFrame, RingFrame, CacheFrame, ReaderFrame, Zenon
<1>3. WriterInv'
  BY SMTT(30) DEF WriterInv
<1>4. SizeInv'
  <2>1. Len(q) \in Nat /\ Len(q) <= N - 1
    BY ONLY TypeOK, RingInv DEF TypeOK, RingInv
  <2>2. Unknown <= N - 1 - Len(q)
    BY ONLY <2>1, NAssumption DEF Unknown
  <2>3. /\ wquiet' = ~resetting /\ wpc' = "free" /\ wpos' = pin /\ wfree' = Unknown
        /\ UNCHANGED <<resetting, pin, pout, q, rpc, rpos, rused, rquiet>>
    BY ONLY FreeLoadPin, Zenon DEF FreeLoadPin, object, consumer, history
  <2> QED
    BY ONLY SizeInv, <2>2, <2>3, Zenon DEF SizeInv
<1> QED
  BY <1>1, <1>2, <1>3, <1>4, Zenon

\* FifoInv is preserved when numFree() loads pout_ and reports a size.
LEMMA FreeLoadPoutInv ==
  ASSUME FifoInv, FreeLoadPout
  PROVE  FifoInv'
<1> USE DEF FifoInv, FreeLoadPout, object, consumer, resetter, history
<1>1. /\ pin \in Pos /\ pout \in Pos /\ wpos \in Pos
      /\ numUsed(wpos, pout) \in 0 .. N - 1 /\ Len(q) \in Nat
  <2>1. pin \in Pos /\ pout \in Pos /\ wpos \in Pos /\ Len(q) \in Nat
    BY DEF TypeOK
  <2>2. used(wpos, pout) \in 0 .. N - 1 /\ 0 \in 0 .. N - 1
    BY <2>1, UsedType, NAssumption, SMTT(30)
  <2> QED
    BY <2>1, <2>2, Zenon DEF numUsed
<1>2. TypeOK'
  BY <1>1, StartType, NAssumption, SMTT(30) DEF TypeOK
<1>3. ResetInv' /\ RingInv' /\ CacheInv' /\ ReaderInv'
  BY ResetFrame, RingFrame, CacheFrame, ReaderFrame, Zenon
<1>4. WriterInv'
  BY Zenon DEF WriterInv
<1>5. SizeInv'
  <2>1. wquiet => wpos = pin
    BY Zenon DEF SizeInv
  <2>2. wquiet => numUsed(wpos, pout) = Len(q)
    BY <2>1, Quiet, Zenon DEF numUsed, sameGeneration
  <2>3. wquiet => wfree' <= N - 1 - Len(q)
    BY <1>1, <2>2, NAssumption
  <2> QED
    BY <2>3, Zenon DEF SizeInv
<1> QED
  BY <1>2, <1>3, <1>4, <1>5, Zenon
--------------------------------------------------------------------------
(* The thread that calls read() and numUsed() *)

\* Calling read() keeps the invariant: it has read nothing yet.
LEMMA ReadBeginInv ==
  ASSUME FifoInv, NEW len \in 0 .. MaxBlock, ReadBegin(len)
  PROVE  FifoInv'
<1> USE DEF FifoInv, ReadBegin, readReturns, readGoesOn, object, producer, resetter
<1>1. TypeOK'
  <2>1. CASE resetting
    BY <2>1, ReadReturnsType, Zenon DEF TypeOK
  <2>2. CASE ~resetting
    <3>1. rdata = <<>> /\ len \in Nat
      BY BlockAssumption DEF ReaderInv
    <3> QED
      BY <2>2, <3>1 DEF TypeOK
  <2> QED
    BY <2>1, <2>2, Zenon
<1>2. ResetInv' /\ RingInv' /\ CacheInv' /\ WriterInv'
  BY ResetFrame, RingFrame, CacheFrame, WriterFrame, Zenon
<1>3. ReaderInv'
  BY Zenon DEF ReaderInv, TypeOK
<1>4. SizeInv'
  BY Zenon DEF SizeInv, TypeOK
<1> QED
  BY <1>1, <1>2, <1>3, <1>4, Zenon

\* FifoInv is preserved when read() captures its own cursor.
LEMMA ReadLoadPoutInv ==
  ASSUME FifoInv, ReadLoadPout
  PROVE  FifoInv'
<1> USE DEF FifoInv, ReadLoadPout, readGoesOn, object, producer, resetter, history
<1>1. TypeOK'
  BY Zenon DEF TypeOK
<1>2. ResetInv' /\ RingInv' /\ CacheInv' /\ WriterInv'
  BY ResetFrame, RingFrame, CacheFrame, WriterFrame, Zenon
<1>3. ReaderInv'
  <2>1. /\ pout \in Pos /\ pinCache \in Pos /\ pout.gen \in Nat /\ Len(q) \in Nat
        /\ rlen \in Nat /\ rdata = <<>> /\ used(pinCache, pout) \in 0 .. N - 1
    <3>1. pout \in Pos /\ pinCache \in Pos /\ Len(q) \in Nat /\ rlen \in Nat
      BY DEF TypeOK
    <3>2. rdata = <<>>
      BY Zenon DEF ReaderInv
    <3> QED
      BY <3>1, <3>2, UsedType, PosParts
  <2>2. holds(pinCache, pout) => rlen <= Len(q)
    BY <2>1, NAssumption DEF holds, sameGeneration, CacheInv
  <2>3. (rpc' = "copy" => holds(pinCache, pout)) /\ rdata' = <<>>
    BY <2>1, Zenon
  <2> QED
    BY <2>1, <2>2, <2>3 DEF ReaderInv, holds
<1>4. SizeInv'
  BY Zenon DEF SizeInv, TypeOK
<1> QED
  BY <1>1, <1>2, <1>3, <1>4, Zenon

\* FifoInv is preserved when read() tests for elements and may refresh its cached copy of pin_.
LEMMA ReadLoadPinInv ==
  ASSUME FifoInv, ReadLoadPin
  PROVE  FifoInv'
<1> USE DEF FifoInv, ReadLoadPin, readReturns, readGoesOn, producer, resetter, history
<1>1. TypeOK'
  <2>1. CASE holds(pin, rpos)
    BY <2>1, Zenon DEF TypeOK
  <2>2. CASE ~holds(pin, rpos)
    BY <2>2, ReadReturnsType, Zenon DEF TypeOK
  <2> QED
    BY <2>1, <2>2, Zenon
<1>2. RingInv' /\ WriterInv'
  BY RingFrame, WriterFrame, Zenon
<1>3. ResetInv'
  BY Zenon DEF ResetInv, freshPos
<1>4. pout \in Pos /\ pin \in Pos /\ Len(q) \in Nat /\ rlen \in Nat /\ pin.gen \in Nat
  BY PosParts DEF TypeOK
<1>5. CacheInv'
  BY <1>4 DEF CacheInv, RingInv
<1>6. ReaderInv'
  <2>1. CASE holds(pin, rpos)
    <3>1. rpos.gen <= pout.gen /\ (rpos.gen = pout.gen => rpos = pout) /\ rdata = <<>>
      BY Zenon DEF ReaderInv
    <3>2. rpos.gen = pout.gen => rlen <= Len(q)
      BY <1>4, <2>1, <3>1, Zenon DEF holds, sameGeneration, RingInv
    <3> QED
      BY <2>1, <3>1, <3>2 DEF ReaderInv, holds
  <2>2. CASE ~holds(pin, rpos)
    BY <2>2, Zenon DEF ReaderInv
  <2> QED
    BY <2>1, <2>2, Zenon
<1>7. SizeInv'
  BY Zenon DEF SizeInv, TypeOK
<1> QED
  BY <1>1, <1>2, <1>3, <1>5, <1>6, <1>7, Zenon

\* FifoInv is preserved when read() copies elements out of the used part of the ring.
LEMMA ReadCopyInv ==
  ASSUME FifoInv, ReadCopy
  PROVE  FifoInv'
<1> USE DEF FifoInv, ReadCopy, object, producer, resetter, history
<1> DEFINE k == Len(rdata)
           at == advance(rpos.idx, k)
<1>1. /\ rpos \in Pos /\ pout \in Pos /\ pinCache \in Pos /\ Len(q) \in Nat
      /\ rpos.idx \in 0 .. N - 1 /\ rlen \in Nat /\ k \in Nat /\ rdata \in Seq(Values)
  BY PosParts DEF TypeOK
<1>2. at \in 0 .. N - 1
  <2>1. used(pinCache, rpos) \in 0 .. N - 1
    BY <1>1, UsedType, Zenon
  <2>2. k \in 0 .. N
    BY <1>1, <2>1, NAssumption DEF ReaderInv, holds
  <2> QED
    BY <1>1, <2>2, AdvanceType, Zenon
<1>3. /\ rdata' \in Seq(Values) /\ Len(rdata') = k + 1 /\ rdata'[k + 1] = buf[at]
      /\ \A i \in 1 .. k : rdata'[i] = rdata[i]
  <2>1. buf[at] \in Values
    BY <1>2, Zenon DEF TypeOK
  <2> QED
    BY <1>1, <2>1
<1>4. TypeOK'
  <2>1. Len(rdata') <= rlen
    BY ONLY ReadCopy, <1>1, <1>3 DEF ReadCopy
  <2> QED
    BY <1>3, <2>1, Zenon DEF TypeOK
<1>5. ResetInv' /\ RingInv' /\ CacheInv' /\ WriterInv' /\ SizeInv'
  BY ResetFrame, RingFrame, CacheFrame, WriterFrame, SizeFrame, Zenon
<1>6. ReaderInv'
  <2> SUFFICES ASSUME rpos.gen = pout.gen, NEW i \in 1 .. k + 1
               PROVE  rdata'[i] = q[i]
    BY <1>3, Zenon DEF ReaderInv, holds
  <2>1. rpos = pout /\ rlen <= Len(q)
    BY Zenon DEF ReaderInv
  <2>2. CASE i = k + 1
    <3>1. k + 1 \in 1 .. Len(q)
      BY <1>1, <2>1
    <3>2. slot(k + 1) = at
      <4>1. (k + 1) - 1 = k
        BY <1>1
      <4> QED
        BY <2>1, <4>1, Zenon DEF slot
    <3> QED
      BY <1>3, <2>2, <3>1, <3>2, Zenon DEF RingInv
  <2>3. CASE i # k + 1
    <3>1. i \in 1 .. k
      BY <1>1, <2>3
    <3> QED
      BY <1>3, <3>1, Zenon DEF ReaderInv
  <2> QED
    BY <2>2, <2>3, Zenon
<1> QED
  BY <1>4, <1>5, <1>6, Zenon

\* FifoInv is preserved when read() releases its elements with the compare-and-swap of pout_, or fails.
LEMMA ReadCommitInv ==
  ASSUME FifoInv, ReadCommit
  PROVE  FifoInv'
<1> USE DEF FifoInv
<1>1. /\ rpos \in Pos /\ pout \in Pos /\ pin \in Pos /\ wpos \in Pos
      /\ pinCache \in Pos /\ poutCache \in Pos
      /\ pout.idx \in 0 .. N - 1 /\ pout.gen \in 0 .. GenLimit - 1
      /\ rlen \in Nat /\ Len(q) \in Nat /\ q \in Seq(Values)
  BY PosParts DEF TypeOK
<1> DEFINE Others == UNCHANGED <<buf, pin, poutCache, pinCache, resetting, wpc, wdata, wpos, wk, wret,
                                 wfree, wquiet, zpc, zold, resets>>
<1>2. CASE pout = rpos
  <2>1. /\ pout' = makePos(pout.gen, advance(pout.idx, rlen))
        /\ q' = SubSeq(q, rlen + 1, Len(q)) /\ got' = rdata
        /\ readReturns("ok") /\ rpc = "copy" /\ Len(rdata) = rlen /\ Others
    BY ONLY <1>2, ReadCommit, Zenon DEF ReadCommit, producer, resetter
  <2>2. rlen <= Len(q) /\ Len(q) <= N - 1
    BY ONLY <1>2, <2>1, ReaderInv, RingInv, Zenon DEF ReaderInv, RingInv
  <2>3. advance(pout.idx, rlen) \in 0 .. N - 1
    <3>1. rlen \in 0 .. N
      BY ONLY <1>1, <2>2, NAssumption
    <3> QED
      BY ONLY <1>1, <3>1, AdvanceType, Zenon
  <2>4. pout' \in Pos /\ pout'.gen = pout.gen /\ pout'.idx = advance(pout.idx, rlen)
    BY ONLY <1>1, <2>1, <2>3, MakePosType, Zenon
  <2>5. /\ q' \in Seq(Values) /\ Len(q') = Len(q) - rlen
        /\ \A i \in 1 .. Len(q) - rlen : q'[i] = q[rlen + i]
    BY ONLY <1>1, <2>1, <2>2
  <2>6. ASSUME NEW in \in Pos, rlen <= used(in, pout)
        PROVE  used(in, pout') = used(in, pout) - rlen
    BY ONLY <1>1, <2>1, <2>6, in \in Pos, UsedAfterRead, Zenon
  <2>7. TypeOK'
    <3>1. /\ rpc' \in {"idle", "loadPout", "loadPin", "copy", "used"}
          /\ rlen' \in Nat /\ rpos' \in Pos /\ rdata' \in Seq(Values) /\ Len(rdata') <= rlen'
          /\ rret' \in {"none", "ok", "fail"} /\ rused' \in Int /\ rquiet' \in BOOLEAN
      BY ONLY <2>1, ReadReturnsType, Zenon
    <3> QED
      BY ONLY TypeOK, <2>1, <2>4, <2>5, <3>1, Zenon DEF TypeOK
  <2>8. ResetInv'
    BY ONLY ResetInv, <2>1, <2>4, Zenon DEF ResetInv, freshPos
  <2>9. RingInv'
    <3>1. pin.gen = pout.gen => used(pin, pout') = Len(q')
      <4>1. pin.gen = pout.gen => used(pin, pout) = Len(q)
        BY ONLY RingInv, Zenon DEF RingInv
      <4> QED
        BY ONLY <1>1, <2>2, <2>5, <2>6, <4>1, Zenon
    <3>2. ASSUME NEW i \in 1 .. Len(q')
          PROVE  buf[slot(i)'] = q'[i]
      <4>1. /\ rlen \in 0 .. N - 1 /\ i - 1 \in 0 .. N - 1 /\ rlen + (i - 1) <= N - 1
            /\ rlen + i \in 1 .. Len(q) /\ rlen + (i - 1) = (rlen + i) - 1
            /\ i \in 1 .. Len(q) - rlen
        BY ONLY <1>1, <2>2, <2>5, i \in 1 .. Len(q'), NAssumption
      <4>2. slot(i)' = advance(advance(pout.idx, rlen), i - 1)
        BY ONLY <2>4, Zenon DEF slot
      <4>3. slot(i)' = slot(rlen + i)
        <5>1. advance(advance(pout.idx, rlen), i - 1) = advance(pout.idx, rlen + (i - 1))
          BY ONLY <1>1, <4>1, AdvanceTwice, Zenon
        <5> QED
          BY ONLY <4>1, <4>2, <5>1, Zenon DEF slot
      <4>4. buf[slot(rlen + i)] = q[rlen + i]
        BY ONLY <4>1, RingInv, Zenon DEF RingInv
      <4> QED
        BY ONLY <2>5, <4>1, <4>3, <4>4, Zenon
    <3>3. \A i \in 1 .. Len(q') : buf'[slot(i)'] = q'[i]
      BY <2>1, <3>2, Zenon
    <3>4. Len(q') <= N - 1
      BY ONLY <1>1, <2>2, <2>5, NAssumption
    <3> QED
      BY ONLY RingInv, <2>1, <2>4, <3>1, <3>3, <3>4, Zenon DEF RingInv
  <2>10. CacheInv'
    <3>1. pinCache.gen = pout.gen /\ rlen <= used(pinCache, pout)
      <4>1. holds(pinCache, rpos)
        BY ONLY <2>1, ReaderInv, Zenon DEF ReaderInv
      <4>2. used(pinCache, pout) \in 0 .. N - 1
        BY ONLY <1>1, UsedType, Zenon
      <4>3. pinCache.gen = pout.gen /\ used(pinCache, pout) >= rlen
        BY ONLY <1>2, <4>1, Zenon DEF holds, sameGeneration
      <4> QED
        BY ONLY <1>1, <4>2, <4>3, Zenon
    <3>2. used(pinCache, pout') = used(pinCache, pout) - rlen
      BY ONLY <1>1, <2>6, <3>1, Zenon
    <3>3. used(pinCache, pout) \in 0 .. N - 1 /\ used(pin, poutCache) \in 0 .. N - 1
      BY ONLY <1>1, UsedType, Zenon
    <3>4. used(pinCache, pout) <= Len(q) /\ (poutCache.gen = pin.gen => used(pin, poutCache) >= Len(q))
      BY ONLY <3>1, CacheInv, Zenon DEF CacheInv
    <3>5. used(pinCache, pout') <= Len(q') /\ (poutCache.gen = pin.gen => used(pin, poutCache) >= Len(q'))
      BY ONLY <1>1, <2>2, <2>5, <3>2, <3>3, <3>4
    <3> QED
      BY ONLY CacheInv, <2>1, <2>4, <3>5, Zenon DEF CacheInv
  <2>11. WriterInv'
    <3>1. wpc \in {"loadPout", "copy"} /\ wpos.gen = pout.gen => used(wpos, pout') = Len(q')
      BY ONLY WriterInv, <1>1, <2>2, <2>5, <2>6, Zenon DEF WriterInv
    <3>2. wpc \in {"loadPout", "copy"} /\ wpos.gen < pout.gen => q' = <<>>
      <4>1. q = <<>> => Len(q) = 0
        BY ONLY <1>1
      <4>2. Len(q) = 0 => Len(q') = 0
        BY ONLY <1>1, <2>2, <2>5
      <4>3. Len(q') = 0 => q' = <<>>
        BY ONLY <2>5
      <4> QED
        BY ONLY WriterInv, <4>1, <4>2, <4>3, Zenon DEF WriterInv
    <3>3. Len(wdata) \in Nat
      BY ONLY TypeOK DEF TypeOK
    <3>4. Len(q) + Len(wdata) <= N - 1 => Len(q') + Len(wdata) <= N - 1
      BY ONLY <1>1, <2>2, <2>5, <3>3, NAssumption
    <3>5. wpc = "copy" /\ wpos.gen = pout.gen => Len(q') + Len(wdata) <= N - 1
      BY ONLY WriterInv, <3>4, Zenon DEF WriterInv
    <3> QED
      BY ONLY WriterInv, <2>1, <2>4, <3>1, <3>2, <3>5, Zenon DEF WriterInv, fits
  <2>12. ReaderInv'
    BY ONLY <2>1, Zenon DEF ReaderInv, readReturns
  <2>13. SizeInv'
    <3>1. rquiet' = FALSE /\ rpc' = "idle"
      BY ONLY <2>1, Zenon DEF readReturns
    <3>2. wfree \in Int
      BY ONLY TypeOK, Zenon DEF TypeOK
    <3>3. wfree <= N - 1 - Len(q) => wfree <= N - 1 - Len(q')
      BY ONLY <1>1, <2>2, <2>5, <3>2, NAssumption
    <3> QED
      BY ONLY SizeInv, <2>1, <3>1, <3>3, Zenon DEF SizeInv
  <2> QED
    BY <2>7, <2>8, <2>9, <2>10, <2>11, <2>12, <2>13
<1>3. CASE pout # rpos
  <2>1. UNCHANGED <<pout, q, got>> /\ readReturns("fail") /\ Others
    BY ONLY <1>3, ReadCommit, Zenon DEF ReadCommit, producer, resetter
  <2>2. TypeOK'
    <3>1. /\ rpc' \in {"idle", "loadPout", "loadPin", "copy", "used"}
          /\ rlen' \in Nat /\ rpos' \in Pos /\ rdata' \in Seq(Values) /\ Len(rdata') <= rlen'
          /\ rret' \in {"none", "ok", "fail"} /\ rused' \in Int /\ rquiet' \in BOOLEAN
      BY ONLY <2>1, ReadReturnsType, Zenon
    <3> QED
      BY ONLY TypeOK, <2>1, <3>1, Zenon DEF TypeOK
  <2>3. ResetInv' /\ RingInv' /\ CacheInv' /\ WriterInv'
    BY <2>1, ResetFrame, RingFrame, CacheFrame, WriterFrame, Zenon
  <2>4. ReaderInv'
    BY ONLY <2>1, Zenon DEF ReaderInv, readReturns
  <2>5. SizeInv'
    BY ONLY SizeInv, <2>1, Zenon DEF SizeInv, readReturns
  <2> QED
    BY <2>2, <2>3, <2>4, <2>5, Zenon
<1> QED
  BY <1>2, <1>3

\* FifoInv is preserved when numUsed() loads pin_.
LEMMA UsedLoadPinInv ==
  ASSUME FifoInv, UsedLoadPin
  PROVE  FifoInv'
<1> USE DEF FifoInv, UsedLoadPin, object, producer, resetter
<1>1. TypeOK'
  BY DEF TypeOK, Unknown
<1>2. ResetInv' /\ RingInv' /\ CacheInv' /\ WriterInv'
  BY ResetFrame, RingFrame, CacheFrame, WriterFrame, Zenon
<1>3. ReaderInv'
  BY Zenon DEF ReaderInv
<1>4. SizeInv'
  <2>1. ~resetting => pin.gen = pout.gen /\ used(pin, pout) = Len(q)
    BY Zenon DEF ResetInv, RingInv
  <2>2. Len(q) \in Nat /\ rused' <= Len(q)
    BY DEF TypeOK, Unknown
  <2> QED
    BY <2>1, <2>2 DEF SizeInv, TypeOK
<1> QED
  BY <1>1, <1>2, <1>3, <1>4, Zenon

\* FifoInv is preserved when numUsed() loads pout_ and reports a size.
LEMMA UsedLoadPoutInv ==
  ASSUME FifoInv, UsedLoadPout
  PROVE  FifoInv'
<1> USE DEF FifoInv, UsedLoadPout, object, producer, resetter, history
<1>1. numUsed(rpos, pout) \in Int
  <2>1. used(rpos, pout) \in Int
    BY UsedType, NAssumption DEF TypeOK
  <2> QED
    BY <2>1 DEF numUsed
<1>2. TypeOK'
  BY <1>1, StartType, Zenon DEF TypeOK
<1>3. ResetInv' /\ RingInv' /\ CacheInv' /\ WriterInv'
  BY ResetFrame, RingFrame, CacheFrame, WriterFrame, Zenon
<1>4. ReaderInv'
  BY Zenon DEF ReaderInv
<1>5. SizeInv'
  BY Zenon DEF SizeInv, numUsed, sameGeneration
<1> QED
  BY <1>2, <1>3, <1>4, <1>5, Zenon

--------------------------------------------------------------------------
(* Steps of reset() *)

\* Taking resetting_ keeps the invariant: no position has moved yet.
LEMMA ResetEnterInv ==
  ASSUME FifoInv, NEW z \in Resetters, ResetEnter(z)
  PROVE  FifoInv'
<1> USE DEF FifoInv, ResetEnter, Goto, producer, consumer, history
<1>1. TypeOK'
  <2>1. resets' \in 0 .. MaxResets
    BY GenAssumption DEF TypeOK
  <2> QED
    BY <2>1, ZenonT(30) DEF TypeOK
<1>2. ResetInv'
  <2>1. \A y \in Resetters : zpc[y] = "idle"
    BY Zenon DEF ResetInv
  <2>2. zpc' \in [Resetters -> {"idle", "loadPin", "storePin", "storePout", "leave"}]
    BY <1>1, Zenon DEF TypeOK
  <2>3. \A y \in Resetters : zpc'[y] = IF y = z THEN "loadPin" ELSE "idle"
    BY <2>1, Zenon DEF TypeOK
  <2>4. pin.gen = pout.gen /\ pin.gen \in Nat /\ resets \in Nat /\ pin.gen <= resets
    BY <2>1, PosParts, GenAssumption, SMTT(30) DEF ResetInv, TypeOK
  <2> QED
    BY <2>3, <2>4 DEF ResetInv
<1>3. RingInv' /\ CacheInv' /\ WriterInv' /\ ReaderInv'
  BY RingFrame, CacheFrame, WriterFrame, ReaderFrame, Zenon
<1>4. SizeInv'
  BY Zenon DEF SizeInv
<1> QED
  BY <1>1, <1>2, <1>3, <1>4, Zenon

\* FifoInv is preserved when reset() loads pin_ under resetting_.
LEMMA ResetLoadPinInv ==
  ASSUME FifoInv, NEW z \in Resetters, ResetLoadPin(z)
  PROVE  FifoInv'
<1> USE DEF FifoInv, ResetLoadPin, Goto, object, producer, consumer, history
<1>1. TypeOK'
  <2>1. pin.gen \in 0 .. GenLimit - 1
    BY PosParts, Zenon DEF TypeOK
  <2> QED
    BY <2>1 DEF TypeOK
<1>2. ResetInv'
  <2>1. \A y \in Resetters : y # z => zpc[y] = "idle"
    BY Zenon DEF ResetInv
  <2>2. \A y \in Resetters : zpc'[y] = IF y = z THEN "storePin" ELSE "idle"
    BY <2>1, Zenon DEF TypeOK
  <2>3. zold'[z] = pin.gen
    BY Zenon DEF TypeOK
  <2>4. pin.gen = pout.gen /\ pin.gen < resets
    BY <2>1, SameGeneration, BeforeStores, Zenon
  <2> QED
    BY <2>2, <2>3, <2>4 DEF ResetInv
<1>3. RingInv' /\ CacheInv' /\ WriterInv' /\ ReaderInv' /\ SizeInv'
  BY RingFrame, CacheFrame, WriterFrame, ReaderFrame, SizeFrame, Zenon
<1> QED
  BY <1>1, <1>2, <1>3, Zenon

\* FifoInv is preserved when reset() stores the rewound pin_.
LEMMA ResetStorePinInv ==
  ASSUME FifoInv, NEW z \in Resetters, ResetStorePin(z)
  PROVE  FifoInv'
<1> USE DEF FifoInv
<1>1. /\ pin' \in Pos /\ pin'.gen = pin.gen + 1 /\ pin' = freshPos(z)
      /\ pin.gen \in Nat /\ resets \in Nat
  BY FreshPos, Generations, Zenon DEF ResetStorePin, Goto
<1>2. \A y \in Resetters : y # z => zpc[y] = "idle"
  BY OneReset, Zenon DEF ResetStorePin, Goto
<1>3. pin.gen = pout.gen /\ pin.gen < resets
  BY <1>2, SameGeneration, BeforeStores, Zenon DEF ResetStorePin, Goto
<1>4. /\ poutCache.gen \in Nat /\ pinCache.gen \in Nat
      /\ poutCache.gen <= pin.gen /\ pinCache.gen <= pin.gen
  <2>1. poutCache.gen <= pin.gen /\ pinCache.gen <= pin.gen
    BY <1>3, Zenon DEF CacheInv
  <2> QED
    BY <2>1, Generations, Zenon
<1>5. pout' = pout /\ poutCache' = poutCache /\ pinCache' = pinCache /\ resets' = resets /\ zold' = zold
  BY Zenon DEF ResetStorePin
<1>6. \* the rewound pin_ is ahead of every cursor
      /\ pin'.gen <= resets' /\ pin'.gen = pout'.gen + 1 /\ pout'.gen <= pin'.gen
      /\ pin'.gen # pout'.gen /\ pinCache'.gen # pin'.gen /\ poutCache'.gen # pin'.gen
      /\ poutCache'.gen <= pout'.gen /\ pinCache'.gen <= pin'.gen
  BY <1>1, <1>3, <1>4, <1>5
<1>7. zpc' \in [Resetters -> {"idle", "loadPin", "storePin", "storePout", "leave"}]
  BY DEF TypeOK, ResetStorePin, Goto
<1> USE DEF ResetStorePin, Goto, producer, consumer, history
<1>8. TypeOK'
  BY <1>1, <1>7, ZenonT(60) DEF TypeOK
<1>9. ResetInv'
  <2>1. \A y \in Resetters : zpc'[y] = IF y = z THEN "storePout" ELSE "idle"
    BY <1>2, Zenon DEF TypeOK
  <2>2. \A y \in Resetters : IF y = z THEN zpc'[y] = "storePout" ELSE zpc'[y] = "idle"
    BY <2>1, Zenon
  <2>3. pin' = freshPos(z)'
    BY Zenon DEF freshPos
  <2>4. resetting
    BY OneReset, Zenon
  <2> QED
    BY <1>6, <2>2, <2>3, <2>4, Zenon DEF ResetInv
<1>10. RingInv'
  BY <1>6, Zenon DEF RingInv, slot
<1>11. CacheInv'
  BY <1>6, Zenon DEF CacheInv
<1>12. WriterInv'
  <2>1. wpc \in {"loadPout", "copy"} => wpos.gen <= pin.gen
    BY Zenon DEF WriterInv
  <2>2. wpos.gen \in Nat
    BY Generations, Zenon
  <2>3. wpc \in {"loadPout", "copy"} => wpos.gen <= pin'.gen /\ wpos.gen # pin'.gen
    BY <1>1, <2>1, <2>2
  <2> QED
    BY <2>3, Zenon DEF WriterInv, fits
<1>13. ReaderInv'
  BY Zenon DEF ReaderInv, holds
<1>14. SizeInv'
  <2>1. resetting
    BY OneReset, Zenon
  <2>2. ~wquiet /\ ~rquiet
    BY <2>1, NotQuiet, Zenon
  <2> QED
    BY <2>2, Zenon DEF SizeInv
<1> QED
  BY <1>8, <1>9, <1>10, <1>11, <1>12, <1>13, <1>14, Zenon

\* FifoInv is preserved when reset() stores the rewound pout_.
LEMMA ResetStorePoutInv ==
  ASSUME FifoInv, NEW z \in Resetters, ResetStorePout(z)
  PROVE  FifoInv'
<1> USE DEF FifoInv
<1>1. /\ pout' = pin /\ pin' = pin /\ q' = <<>> /\ pin.gen = pout.gen + 1
      /\ pinCache.gen = pin.gen => pinCache = pin
  BY BetweenStores, Zenon DEF ResetStorePout, Goto
<1>2. pin \in Pos /\ pin.gen \in Nat /\ pout.gen \in Nat /\ poutCache.gen \in Nat
  BY Generations, Zenon DEF TypeOK
<1>3. used(pin, pin) = 0
  BY <1>2, NAssumption DEF used, Pos
<1>4. Len(q') = 0 /\ q' \in Seq(Values)
  BY <1>1
<1>5. zpc' \in [Resetters -> {"idle", "loadPin", "storePin", "storePout", "leave"}]
  BY DEF TypeOK, ResetStorePout, Goto
<1> USE DEF ResetStorePout, Goto, producer, consumer
<1>6. TypeOK'
  BY <1>1, <1>2, <1>4, <1>5, ZenonT(60) DEF TypeOK
<1>7. ResetInv'
  <2>1. \A y \in Resetters : y # z => zpc[y] = "idle"
    BY OneReset, Zenon
  <2>2. \A y \in Resetters : zpc'[y] = IF y = z THEN "leave" ELSE "idle"
    BY <2>1, Zenon DEF TypeOK
  <2>3. \A y \in Resetters : IF y = z THEN zpc'[y] = "leave" ELSE zpc'[y] = "idle"
    BY <2>2, Zenon
  <2>4. resetting
    BY OneReset, Zenon
  <2>5. pin.gen <= resets
    BY Zenon DEF ResetInv
  <2>6. pin.gen <= pin.gen
    BY <1>2
  <2>7. pin'.gen <= resets' /\ pout'.gen <= pin'.gen /\ pin'.gen = pout'.gen
    BY <1>1, <2>5, <2>6, Zenon
  <2> QED
    BY <2>3, <2>4, <2>7, Zenon DEF ResetInv
<1>8. RingInv'
  <2>1. Len(q') <= N - 1 /\ 1 .. Len(q') = {}
    BY <1>4, NAssumption
  <2> QED
    BY <1>1, <1>3, <1>4, <2>1, Zenon DEF RingInv
<1>9. CacheInv'
  <2>1. used(pin, poutCache) >= 0
    BY <1>2, UsedType, NAssumption DEF TypeOK
  <2>2. poutCache.gen <= pout.gen /\ pinCache.gen <= pin.gen
    BY Zenon DEF CacheInv
  <2>3. poutCache.gen <= pin.gen
    BY <1>1, <1>2, <2>2
  <2>4. used(pin, poutCache) >= Len(q') /\ used(pin, pin) <= Len(q')
    BY <1>3, <1>4, <2>1
  <2> QED
    BY <1>1, <2>2, <2>3, <2>4, Zenon DEF CacheInv
<1>10. WriterInv'
  <2>1. wpc \in {"loadPout", "copy"} => wpos.gen <= pin.gen /\ (wpos.gen = pin.gen => wpos = pin)
    BY Zenon DEF WriterInv
  <2>2. wpc = "copy" => wpos.gen = poutCache.gen
    BY Zenon DEF WriterInv, fits, sameGeneration
  <2>3. poutCache.gen <= pout.gen
    BY Zenon DEF CacheInv
  <2>4. wpc = "copy" => wpos.gen # pin.gen
    BY <1>1, <1>2, <2>2, <2>3
  <2> QED
    BY <1>1, <1>3, <1>4, <2>1, <2>4, Zenon DEF WriterInv, fits
<1>11. ReaderInv'
  <2>1. rpc \in {"loadPin", "copy"} => rpos.gen <= pout.gen
    BY Zenon DEF ReaderInv
  <2>2. rpos.gen \in Nat
    BY Generations, Zenon
  <2>3. rpc \in {"loadPin", "copy"} => rpos.gen <= pin.gen /\ rpos.gen # pin.gen
    BY <1>1, <1>2, <2>1, <2>2
  <2> QED
    BY <1>1, <2>3, Zenon DEF ReaderInv, holds
<1>12. SizeInv'
  <2>1. resetting
    BY OneReset, Zenon
  <2>2. ~wquiet /\ ~rquiet
    BY <2>1, NotQuiet, Zenon
  <2> QED
    BY <2>2, Zenon DEF SizeInv
<1> QED
  BY <1>6, <1>7, <1>8, <1>9, <1>10, <1>11, <1>12, Zenon

\* FifoInv is preserved when reset() releases resetting_.
LEMMA ResetLeaveInv ==
  ASSUME FifoInv, NEW z \in Resetters, ResetLeave(z)
  PROVE  FifoInv'
<1> USE DEF FifoInv, ResetLeave, Goto, producer, consumer, history
<1>1. TypeOK'
  BY ZenonT(30) DEF TypeOK
<1>2. ResetInv'
  <2>1. \A y \in Resetters : y # z => zpc[y] = "idle"
    BY OneReset, Zenon
  <2>2. \A y \in Resetters : zpc'[y] = "idle"
    BY <2>1, Zenon DEF TypeOK
  <2>3. pin.gen = pout.gen
    BY <2>1, Zenon DEF ResetInv
  <2> QED
    BY <2>2, <2>3, Zenon DEF ResetInv
<1>3. RingInv' /\ CacheInv' /\ WriterInv' /\ ReaderInv'
  BY RingFrame, CacheFrame, WriterFrame, ReaderFrame, Zenon
<1>4. SizeInv'
  BY Zenon DEF SizeInv
<1> QED
  BY <1>1, <1>2, <1>3, <1>4, Zenon

--------------------------------------------------------------------------
(* The theorems *)

\* The invariant holds of a FIFO that was just constructed.
LEMMA InitInv == Init => FifoInv
<1> SUFFICES ASSUME Init PROVE FifoInv
  BY Zenon
<1> USE DEF Init
<1>1. Start \in Pos /\ Start.gen = 0 /\ used(Start, Start) = 0
  BY StartType, NAssumption DEF Start, makePos, used
<1>2. TypeOK
  <2>1. buf \in [0 .. N - 1 -> Values] /\ resetting \in BOOLEAN /\ wquiet \in BOOLEAN /\ rquiet \in BOOLEAN
    BY Zenon
  <2>2. /\ wdata \in Seq(Values) /\ wk \in 0 .. Len(wdata) /\ wfree \in Int /\ rused \in Int
        /\ rlen \in Nat /\ rdata \in Seq(Values) /\ Len(rdata) <= rlen
        /\ q \in Seq(Values) /\ got \in Seq(Values)
    BY DEF Unknown
  <2>3. zpc \in [Resetters -> {"idle", "loadPin", "storePin", "storePout", "leave"}]
    BY Zenon
  <2>4. zold \in [Resetters -> 0 .. GenLimit - 1] /\ resets \in 0 .. MaxResets
    BY GenAssumption
  <2> QED
    BY <1>1, <2>1, <2>2, <2>3, <2>4, Zenon DEF TypeOK
<1>3. ResetInv /\ RingInv /\ CacheInv
  BY <1>1, NAssumption DEF ResetInv, RingInv, CacheInv
<1>4. WriterInv /\ ReaderInv /\ SizeInv
  BY Zenon DEF WriterInv, ReaderInv, SizeInv
<1> QED
  BY <1>2, <1>3, <1>4, Zenon DEF FifoInv

\* Every step of the ring buffer preserves its inductive invariant.
LEMMA NextInv == FifoInv /\ [Next]_vars => FifoInv'
<1> SUFFICES ASSUME FifoInv, [Next]_vars PROVE FifoInv'
  BY Zenon
<1>1. CASE Producer
  BY <1>1, WriteBeginInv, WriteLoadPinInv, WriteLoadPoutInv, WriteCopyInv, WriteCommitInv,
     FreeLoadPinInv, FreeLoadPoutInv, Zenon DEF Producer
<1>2. CASE Consumer
  BY <1>2, ReadBeginInv, ReadLoadPoutInv, ReadLoadPinInv, ReadCopyInv, ReadCommitInv,
     UsedLoadPinInv, UsedLoadPoutInv, Zenon DEF Consumer
<1>3. CASE \E z \in Resetters : Reset(z)
  BY <1>3, ResetEnterInv, ResetLoadPinInv, ResetStorePinInv, ResetStorePoutInv, ResetLeaveInv, Zenon
     DEF Reset
<1>4. CASE UNCHANGED vars
  <2> USE <1>4 DEF vars, object, producer, consumer, resetter, history
  <2>1. TypeOK'
    BY DEF FifoInv, TypeOK
  <2>2. ResetInv' /\ RingInv' /\ CacheInv'
    BY ResetFrame, RingFrame, CacheFrame, Zenon DEF FifoInv
  <2>3. WriterInv' /\ ReaderInv' /\ SizeInv'
    BY WriterFrame, ReaderFrame, SizeFrame, Zenon DEF FifoInv
  <2> QED
    BY <2>1, <2>2, <2>3, Zenon DEF FifoInv
<1> QED
  BY <1>1, <1>2, <1>3, <1>4, Zenon DEF Next

\* The ring buffer of GenericFIFO.h keeps FifoInv, whatever N, the element type, the
\* number of threads calling reset() and the bounds are, as long as the generation
\* counter does not wrap.
THEOREM FifoInvariant == Spec => []FifoInv
BY InitInv, NextInv, PTL DEF Spec

\* In particular every cursor stays inside the ring.
THEOREM FifoTypeOK == Spec => []TypeOK
<1>1. FifoInv => TypeOK
  BY Zenon DEF FifoInv
<1> QED
  BY <1>1, FifoInvariant, PTL

\* A write() sized by numFree() fails only when reset() intervened.
THEOREM NumFreeIsReliable == Spec => WriteSizedByNumFreeSucceeds
<1> DEFINE Promise == wpc # "idle" /\ wpc' = "idle" /\ wret' = "fail" /\ wquiet
                        => Len(wdata) > wfree
<1>1. FifoInv /\ [Next]_vars => [Promise]_vars
  <2> SUFFICES ASSUME FifoInv, Next, wpc # "idle", wpc' = "idle", wret' = "fail", wquiet
               PROVE  Len(wdata) > wfree
    BY Zenon
  <2>1. /\ pin.gen = pout.gen /\ used(pin, pout) = Len(q) /\ wfree <= N - 1 - Len(q)
        /\ wfree \in Int /\ Len(q) \in Nat /\ Len(wdata) \in Nat
    <3>1. pin.gen = pout.gen /\ used(pin, pout) = Len(q)
      BY Quiet, Zenon DEF FifoInv
    <3>2. wfree <= N - 1 - Len(q)
      BY Zenon DEF FifoInv, SizeInv
    <3> QED
      BY <3>1, <3>2 DEF FifoInv, TypeOK
  <2>2. CASE WriteLoadPout
    <3>1. ~fits(wpos, pout)
      BY <2>2, Zenon DEF WriteLoadPout, writeGoesOn
    <3>2. wpos = pin
      BY <2>1, <2>2, Zenon DEF WriteLoadPout, FifoInv, SizeInv, WriterInv
    <3>3. ~(N - used(pin, pout) - 1 >= Len(wdata))
      BY <2>1, <3>1, <3>2, Zenon DEF fits, sameGeneration
    <3>4. ~(N - Len(q) - 1 >= Len(wdata))
      BY <2>1, <3>3, Zenon
    <3> QED
      BY <2>1, <3>4, DoesNotFit, Zenon
  <2>3. CASE WriteCommit
    <3>1. wpos = pin
      BY <2>3, Zenon DEF WriteCommit, FifoInv, SizeInv, WriterInv
    <3> QED
      BY <2>3, <3>1, Zenon DEF WriteCommit, writeReturns
  <2>4. CASE FreeLoadPout
    <3>1. wret = "fail" /\ wpc = "free"
      BY <2>4, Zenon DEF FreeLoadPout
    <3> QED
      BY <3>1, Zenon DEF FifoInv, WriterInv
  <2>5. CASE \/ \E d \in Blocks : WriteBegin(d)
             \/ WriteLoadPin \/ WriteCopy \/ FreeLoadPin
    BY <2>5, Zenon DEF WriteBegin, WriteLoadPin, WriteCopy, FreeLoadPin, writeGoesOn
  <2>6. CASE Consumer
    BY <2>6, Zenon DEF Consumer, ReadBegin, ReadLoadPout, ReadLoadPin, ReadCopy, ReadCommit,
                UsedLoadPin, UsedLoadPout, producer
  <2>7. CASE \E z \in Resetters : Reset(z)
    BY <2>7, Zenon DEF Reset, ResetEnter, ResetLoadPin, ResetStorePin, ResetStorePout, ResetLeave,
                producer
  <2> QED
    BY <2>2, <2>3, <2>4, <2>5, <2>6, <2>7, Zenon DEF Next, Producer
<1> QED
  BY <1>1, FifoInvariant, PTL DEF Spec, WriteSizedByNumFreeSucceeds

\* A read() sized by numUsed() fails only when reset() intervened.
THEOREM NumUsedIsReliable == Spec => ReadSizedByNumUsedSucceeds
<1> DEFINE Promise == rpc # "idle" /\ rpc' = "idle" /\ rret' = "fail" /\ rquiet => rlen > rused
<1>1. FifoInv /\ [Next]_vars => [Promise]_vars
  <2> SUFFICES ASSUME FifoInv, Next, rpc # "idle", rpc' = "idle", rret' = "fail", rquiet
               PROVE  rlen > rused
    BY Zenon
  <2>1. /\ pin.gen = pout.gen /\ used(pin, pout) = Len(q) /\ rused <= Len(q)
        /\ rused \in Int /\ Len(q) \in Nat /\ rlen \in Nat
    <3>1. pin.gen = pout.gen /\ used(pin, pout) = Len(q)
      BY Quiet, Zenon DEF FifoInv
    <3>2. rused <= Len(q)
      BY ZenonT(30) DEF FifoInv, SizeInv
    <3> QED
      BY <3>1, <3>2 DEF FifoInv, TypeOK
  <2>2. CASE ReadLoadPin
    <3>1. ~holds(pin, rpos)
      BY <2>2, Zenon DEF ReadLoadPin, readGoesOn
    <3>2. rpos = pout
      BY <2>1, <2>2, Zenon DEF ReadLoadPin, FifoInv, SizeInv, ReaderInv
    <3>3. ~(used(pin, pout) >= rlen)
      BY <2>1, <3>1, <3>2, Zenon DEF holds, sameGeneration
    <3>4. ~(Len(q) >= rlen)
      BY <2>1, <3>3, Zenon
    <3> QED
      BY ONLY <2>1, <3>4
  <2>3. CASE ReadCommit
    <3>1. rpos = pout
      BY <2>3, Zenon DEF ReadCommit, FifoInv, SizeInv, ReaderInv
    <3> QED
      BY <2>3, <3>1, Zenon DEF ReadCommit, readReturns
  <2>4. CASE UsedLoadPout
    <3>1. rret = "fail" /\ rpc = "used"
      BY <2>4, Zenon DEF UsedLoadPout
    <3> QED
      BY <3>1, Zenon DEF FifoInv, ReaderInv
  <2>5. CASE \/ \E len \in 0 .. MaxBlock : ReadBegin(len)
             \/ ReadLoadPout \/ ReadCopy \/ UsedLoadPin
    BY <2>5, Zenon DEF ReadBegin, ReadLoadPout, ReadCopy, UsedLoadPin, readGoesOn
  <2>6. CASE Producer
    BY <2>6, Zenon DEF Producer, WriteBegin, WriteLoadPin, WriteLoadPout, WriteCopy, WriteCommit,
                FreeLoadPin, FreeLoadPout, consumer
  <2>7. CASE \E z \in Resetters : Reset(z)
    BY <2>7, Zenon DEF Reset, ResetEnter, ResetLoadPin, ResetStorePin, ResetStorePout, ResetLeave,
                consumer
  <2> QED
    BY <2>2, <2>3, <2>4, <2>5, <2>6, <2>7, Zenon DEF Next, Consumer
<1> QED
  BY <1>1, FifoInvariant, PTL DEF Spec, ReadSizedByNumUsedSucceeds

\* Every step of write(), read() and reset() is a step of the abstract queue or leaves it alone.
LEMMA StepRefines == FifoInv /\ [Next]_vars => [Queue!Next]_(Queue!vars)
<1> SUFFICES ASSUME FifoInv, [Next]_vars, ~UNCHANGED <<q, got>>
             PROVE  Queue!Next
  BY Zenon DEF Queue!vars
<1>1. Len(q) \in Nat /\ q \in Seq(Values) /\ Len(q) <= N - 1
  BY DEF FifoInv, TypeOK, RingInv
<1>2. CASE WriteCommit
  <2>1. pin = wpos /\ q' = q \o wdata /\ got' = got
    BY <1>2, Zenon DEF WriteCommit
  <2>2. pin.gen = pout.gen
    <3>1. pin \in Pos /\ pout \in Pos /\ poutCache \in Pos
      BY Zenon DEF FifoInv, TypeOK
    <3>2. fits(pin, poutCache)
      BY <1>2, <2>1, Zenon DEF FifoInv, WriteCommit, WriterInv
    <3>3. pin.gen = poutCache.gen
      BY <3>2, Zenon DEF fits, sameGeneration
    <3>4. poutCache.gen <= pout.gen /\ pout.gen <= pin.gen
      BY Zenon DEF FifoInv, CacheInv, ResetInv
    <3>5. pin.gen \in Nat /\ pout.gen \in Nat
      BY <3>1, PosParts
    <3> QED
      BY <3>3, <3>4, <3>5
  <2>3. Len(q) + Len(wdata) <= N - 1 /\ wdata \in Seq(Values) /\ Len(wdata) \in Nat
    BY <1>2, <2>1, <2>2, SMTT(30) DEF FifoInv, TypeOK, WriteCommit, WriterInv
  <2>4. Len(wdata) \in 0 .. N - 1 /\ wdata \in [1 .. Len(wdata) -> Values]
    BY <1>1, <2>3, NAssumption
  <2>5. Queue!Put(wdata)
    BY <2>1, <2>3, Zenon DEF Queue!Put
  <2> QED
    BY <2>4, <2>5, Zenon DEF Queue!Next
<1>3. CASE ReadCommit
  <2>1. /\ pout = rpos /\ q' = SubSeq(q, rlen + 1, Len(q)) /\ got' = rdata
        /\ rlen \in Nat /\ Len(rdata) = rlen /\ rdata \in Seq(Values)
    BY <1>3, Zenon DEF ReadCommit, FifoInv, TypeOK
  <2>2. rlen <= Len(q) /\ \A i \in 1 .. rlen : rdata[i] = q[i]
    BY <1>3, <2>1, Zenon DEF ReadCommit, FifoInv, ReaderInv
  <2>3. rdata = SubSeq(q, 1, rlen)
    BY <1>1, <2>1, <2>2
  <2>4. Queue!Get(rlen) /\ rlen \in 0 .. N - 1
    BY <1>1, <2>1, <2>2, <2>3, NAssumption DEF Queue!Get
  <2> QED
    BY <2>4, Zenon DEF Queue!Next
<1>4. CASE \/ \E len \in 0 .. MaxBlock : ReadBegin(len)
           \/ UsedLoadPin
  BY <1>4, Zenon DEF ReadBegin, UsedLoadPin, Queue!Next, Queue!Consumed
<1>5. CASE \E z \in Resetters : ResetStorePout(z)
  BY <1>5, Zenon DEF ResetStorePout, Queue!Next, Queue!Clear
<1>6. CASE \/ \E d \in Blocks : WriteBegin(d)
           \/ WriteLoadPin \/ WriteLoadPout \/ WriteCopy \/ FreeLoadPin \/ FreeLoadPout
  BY <1>6, Zenon DEF WriteBegin, WriteLoadPin, WriteLoadPout, WriteCopy, FreeLoadPin, FreeLoadPout,
              history
<1>7. CASE ReadLoadPout \/ ReadLoadPin \/ ReadCopy \/ UsedLoadPout
  BY <1>7, Zenon DEF ReadLoadPout, ReadLoadPin, ReadCopy, UsedLoadPout, history
<1>8. CASE \E z \in Resetters : ResetEnter(z) \/ ResetLoadPin(z) \/ ResetStorePin(z) \/ ResetLeave(z)
  BY <1>8, Zenon DEF ResetEnter, ResetLoadPin, ResetStorePin, ResetLeave, history
<1> QED
  BY <1>2, <1>3, <1>4, <1>5, <1>6, <1>7, <1>8, Zenon
     DEF Next, Producer, Consumer, Reset, vars, history

\* Both sides at once: a block no larger than numFree() or numUsed() last reported goes
\* through unless reset() ran since, for every capacity and number of resetting threads.
THEOREM ReportedSizesHold == Spec => SizedBlocksSucceed
  BY NumFreeIsReliable, NumUsedIsReliable, PTL DEF SizedBlocksSucceed

\* The lock-free ring buffer implements the abstract queue: a successful write() appends
\* its block at one instant, a successful read() takes the oldest elements, and reset()
\* empties the queue, in every interleaving.
THEOREM FifoImplementsQueue == Spec => ImplementsQueue
<1>1. Init => Queue!Init
  BY Zenon DEF Init, Queue!Init
<1> QED
  BY <1>1, StepRefines, FifoInvariant, PTL DEF Spec, ImplementsQueue, Queue!Spec

==========================================================================

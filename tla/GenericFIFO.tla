--------------------------- MODULE GenericFIFO ---------------------------
(***************************************************************************)
(* src/src/util/GenericFIFO.h: the lock-free ring buffer between the audio  *)
(* callbacks, the processing threads and the socket threads.  One producer  *)
(* thread calls write() and numFree(), one consumer thread calls read() and *)
(* numUsed(), and any thread of Resetters may call reset() at any time.     *)
(* Every load, store and compare-exchange of an atomic, and the copy of     *)
(* every element, is a step of its own.                                     *)
(***************************************************************************)
EXTENDS Integers, Sequences

CONSTANTS N,          \* nelem: the number of slots of buf
          Values,     \* the element type T
          Resetters,  \* the threads that call reset()
          GenLimit,   \* generations wrap at GenLimit (2^32 in the code)
          MaxResets,  \* bound: reset() calls in one behaviour
          MaxBlock    \* bound: the longest block a caller writes or reads

ASSUME NAssumption == N \in Nat \ {0}
ASSUME BlockAssumption == MaxBlock \in Nat
ASSUME GenAssumption == GenLimit \in Nat /\ MaxResets \in Nat /\ MaxResets < GenLimit

VARIABLES
  buf, pin, pout, poutCache, pinCache, resetting,   \* the object
  wpc, wdata, wpos, wk, wret,                       \* the producer inside write()
  wfree, wquiet,                                    \* the producer around numFree()
  rpc, rlen, rpos, rdata, rret,                     \* the consumer inside read()
  rused, rquiet,                                    \* the consumer around numUsed()
  zpc, zold, resets,                                \* the threads inside reset()
  q, got                                            \* history: the queue, the last read

object   == <<buf, pin, pout, poutCache, pinCache, resetting>>
producer == <<wpc, wdata, wpos, wk, wret, wfree>>
consumer == <<rpc, rlen, rpos, rdata, rret, rused>>
resetter == <<zpc, zold, resets>>
history  == <<q, got>>
vars     == <<object, producer, wquiet, consumer, rquiet, resetter, history>>

\* A Pos packs a generation and a ring index (makePos_, generationOf_, indexOf_).
Pos == [gen : 0 .. GenLimit - 1, idx : 0 .. N - 1]

makePos(gen, idx) == [gen |-> gen, idx |-> idx]

sameGeneration(p, r) == p.gen = r.gen

\* computeUsed_'s count, meaningful when p and r have the same generation.
used(in, out) == IF in.idx - out.idx < 0 THEN in.idx - out.idx + N
                                         ELSE in.idx - out.idx

\* How write() and read() advance an index by len elements, around the end.
advance(idx, len) == IF idx + len >= N THEN idx + len - N ELSE idx + len

Start == makePos(0, 0)

\* No numFree() or numUsed() result is waiting for its write() or read().
Unknown == -1

Init ==
  /\ buf \in [0 .. N - 1 -> Values]
  /\ pin = Start /\ pout = Start /\ poutCache = Start /\ pinCache = Start
  /\ resetting = FALSE
  /\ wpc = "idle" /\ wdata = <<>> /\ wpos = Start /\ wk = 0 /\ wret = "none"
  /\ wfree = Unknown /\ wquiet = FALSE
  /\ rpc = "idle" /\ rlen = 0 /\ rpos = Start /\ rdata = <<>> /\ rret = "none"
  /\ rused = Unknown /\ rquiet = FALSE
  /\ zpc = [z \in Resetters |-> "idle"] /\ zold = [z \in Resetters |-> 0] /\ resets = 0
  /\ q = <<>> /\ got = <<>>
--------------------------------------------------------------------------
(* write() *)

\* The locals of write() die with the call, and a numFree() result is used up.
writeReturns(result) ==
  /\ wpc' = "idle" /\ wret' = result
  /\ wdata' = <<>> /\ wpos' = Start /\ wk' = 0
  /\ wfree' = Unknown /\ wquiet' = FALSE

writeGoesOn(pc) == wpc' = pc /\ wret' = "none" /\ UNCHANGED <<wk, wfree, wquiet>>

\* canWrite_: the resetting_ load.
WriteBegin(d) ==
  /\ wpc = "idle"
  /\ IF resetting THEN writeReturns("fail")
                   ELSE writeGoesOn("loadPin") /\ wdata' = d /\ wpos' = wpos
  /\ UNCHANGED <<object, consumer, rquiet, resetter, history>>

\* Mutant: room for one element more than the ring can tell from empty.
fitsWithoutSpareSlot(in, out) == sameGeneration(in, out) /\ N - used(in, out) >= Len(wdata)

fits(in, out) == sameGeneration(in, out) /\ N - used(in, out) - 1 >= Len(wdata)

\* canWrite_: the pin_ load and the test against poutCache_.
WriteLoadPin ==
  /\ wpc = "loadPin"
  /\ wpos' = pin /\ wdata' = wdata
  /\ writeGoesOn(IF fits(pin, poutCache) THEN "copy" ELSE "loadPout")
  /\ UNCHANGED <<object, consumer, rquiet, resetter, history>>

\* Mutant: a stale poutCache_ is not reloaded.
WriteTrustsCache ==
  /\ wpc = "loadPout"
  /\ writeReturns("fail")
  /\ UNCHANGED <<object, consumer, rquiet, resetter, history>>

\* canWrite_: poutCache_ was stale or left too little room, reload it and test again.
WriteLoadPout ==
  /\ wpc = "loadPout"
  /\ poutCache' = pout
  /\ IF fits(wpos, pout) THEN writeGoesOn("copy") /\ UNCHANGED <<wdata, wpos>>
                         ELSE writeReturns("fail")
  /\ UNCHANGED <<buf, pin, pout, pinCache, resetting, consumer, rquiet, resetter, history>>

\* std::copy_n into the ring, one element.
WriteCopy ==
  /\ wpc = "copy" /\ wk < Len(wdata)
  /\ buf' = [buf EXCEPT ![advance(wpos.idx, wk)] = wdata[wk + 1]]
  /\ wk' = wk + 1
  /\ UNCHANGED <<pin, pout, poutCache, pinCache, resetting, wpc, wdata, wpos, wret, wfree,
                 wquiet, consumer, rquiet, resetter, history>>

\* The compare-exchange that publishes the elements, or gives the write up.
WriteCommit ==
  /\ wpc = "copy" /\ wk = Len(wdata)
  /\ IF pin = wpos
       THEN /\ pin' = makePos(wpos.gen, advance(wpos.idx, Len(wdata)))
            /\ q' = q \o wdata
            /\ writeReturns("ok")
       ELSE UNCHANGED <<pin, q>> /\ writeReturns("fail")
  /\ UNCHANGED <<buf, pout, poutCache, pinCache, resetting, consumer, rquiet, resetter, got>>
--------------------------------------------------------------------------
(* read() *)

readReturns(result) ==
  /\ rpc' = "idle" /\ rret' = result
  /\ rlen' = 0 /\ rpos' = Start /\ rdata' = <<>>
  /\ rused' = Unknown /\ rquiet' = FALSE

readGoesOn(pc) == rpc' = pc /\ rret' = "none" /\ UNCHANGED <<rdata, rused, rquiet>>

ReadBegin(len) ==
  /\ rpc = "idle"
  /\ got' = <<>>
  /\ IF resetting THEN readReturns("fail")
                   ELSE readGoesOn("loadPout") /\ rlen' = len /\ rpos' = rpos
  /\ UNCHANGED <<object, producer, wquiet, resetter, q>>

holds(in, out) == sameGeneration(in, out) /\ used(in, out) >= rlen

ReadLoadPout ==
  /\ rpc = "loadPout"
  /\ rpos' = pout /\ rlen' = rlen
  /\ readGoesOn(IF holds(pinCache, pout) THEN "copy" ELSE "loadPin")
  /\ UNCHANGED <<object, producer, wquiet, resetter, history>>

ReadLoadPin ==
  /\ rpc = "loadPin"
  /\ pinCache' = pin
  /\ IF holds(pin, rpos) THEN readGoesOn("copy") /\ UNCHANGED <<rlen, rpos>>
                         ELSE readReturns("fail")
  /\ UNCHANGED <<buf, pin, pout, poutCache, resetting, producer, wquiet, resetter, history>>

ReadCopy ==
  /\ rpc = "copy" /\ Len(rdata) < rlen
  /\ rdata' = Append(rdata, buf[advance(rpos.idx, Len(rdata))])
  /\ UNCHANGED <<object, producer, wquiet, rpc, rlen, rpos, rret, rused, rquiet, resetter,
                 history>>

ReadCommit ==
  /\ rpc = "copy" /\ Len(rdata) = rlen
  /\ IF pout = rpos
       THEN /\ pout' = makePos(rpos.gen, advance(rpos.idx, rlen))
            /\ q' = SubSeq(q, rlen + 1, Len(q)) /\ got' = rdata
            /\ readReturns("ok")
       ELSE UNCHANGED <<pout, q, got>> /\ readReturns("fail")
  /\ UNCHANGED <<buf, pin, poutCache, pinCache, resetting, producer, wquiet, resetter>>
--------------------------------------------------------------------------
(* numUsed() and numFree(): two independent loads *)

numUsed(in, out) == IF sameGeneration(in, out) THEN used(in, out) ELSE 0

\* The producer sizes its next write with numFree().
FreeLoadPin ==
  /\ wpc = "idle"
  /\ wpc' = "free" /\ wpos' = pin /\ wret' = "none"
  /\ wquiet' = ~resetting /\ wfree' = Unknown
  /\ UNCHANGED <<object, wdata, wk, consumer, rquiet, resetter, history>>

FreeLoadPout ==
  /\ wpc = "free"
  /\ wpc' = "idle" /\ wpos' = Start
  /\ wfree' = N - numUsed(wpos, pout) - 1
  /\ UNCHANGED <<object, wdata, wk, wret, wquiet, consumer, rquiet, resetter, history>>

\* The consumer sizes its next read with numUsed().
UsedLoadPin ==
  /\ rpc = "idle"
  /\ rpc' = "used" /\ rpos' = pin /\ rret' = "none"
  /\ rquiet' = ~resetting /\ rused' = Unknown
  /\ got' = <<>>
  /\ UNCHANGED <<object, producer, wquiet, rlen, rdata, resetter, q>>

UsedLoadPout ==
  /\ rpc = "used"
  /\ rpc' = "idle" /\ rpos' = Start
  /\ rused' = numUsed(rpos, pout)
  /\ UNCHANGED <<object, producer, wquiet, rlen, rdata, rret, rquiet, resetter, history>>
--------------------------------------------------------------------------
(* reset() *)

Goto(z, from, to) == zpc[z] = from /\ zpc' = [zpc EXCEPT ![z] = to]

\* The compare-exchange loop that serialises concurrent reset() calls.
ResetEnter(z) ==
  /\ Goto(z, "idle", "loadPin")
  /\ ~resetting /\ resets < MaxResets
  /\ resetting' = TRUE /\ resets' = resets + 1
  /\ wquiet' = FALSE /\ rquiet' = FALSE
  /\ UNCHANGED <<buf, pin, pout, poutCache, pinCache, producer, consumer, zold, history>>

ResetLoadPin(z) ==
  /\ Goto(z, "loadPin", "storePin")
  /\ zold' = [zold EXCEPT ![z] = pin.gen]
  /\ UNCHANGED <<object, producer, wquiet, consumer, rquiet, resets, history>>

\* Mutant: the cursors are rewound within the same generation.
rewoundPos(z) == makePos(zold[z], 0)

freshPos(z) == makePos((zold[z] + 1) % GenLimit, 0)

ResetStorePin(z) ==
  /\ Goto(z, "storePin", "storePout")
  /\ pin' = freshPos(z)
  /\ UNCHANGED <<buf, pout, poutCache, pinCache, resetting, producer, wquiet, consumer,
                 rquiet, zold, resets, history>>

\* The queue is empty for both sides once pout_ is rewound too.
ResetStorePout(z) ==
  /\ Goto(z, "storePout", "leave")
  /\ pout' = freshPos(z)
  /\ q' = <<>>
  /\ UNCHANGED <<buf, pin, poutCache, pinCache, resetting, producer, wquiet, consumer,
                 rquiet, zold, resets, got>>

ResetLeave(z) ==
  /\ Goto(z, "leave", "idle")
  /\ resetting' = FALSE
  /\ UNCHANGED <<buf, pin, pout, poutCache, pinCache, producer, wquiet, consumer, rquiet,
                 zold, resets, history>>
--------------------------------------------------------------------------
Blocks == UNION {[1 .. n -> Values] : n \in 0 .. MaxBlock}

Producer == \/ \E d \in Blocks : WriteBegin(d)
            \/ WriteLoadPin \/ WriteLoadPout \/ WriteCopy \/ WriteCommit
            \/ FreeLoadPin \/ FreeLoadPout

Consumer == \/ \E len \in 0 .. MaxBlock : ReadBegin(len)
            \/ ReadLoadPout \/ ReadLoadPin \/ ReadCopy \/ ReadCommit
            \/ UsedLoadPin \/ UsedLoadPout

Reset(z) == \/ ResetEnter(z) \/ ResetLoadPin(z) \/ ResetStorePin(z)
            \/ ResetStorePout(z) \/ ResetLeave(z)

Next == Producer \/ Consumer \/ \E z \in Resetters : Reset(z)

Spec == Init /\ [][Next]_vars
--------------------------------------------------------------------------
\* Every variable has its type: cursors are packed positions inside the ring.
TypeOK ==
  /\ buf \in [0 .. N - 1 -> Values]
  /\ pin \in Pos /\ pout \in Pos /\ poutCache \in Pos /\ pinCache \in Pos
  /\ resetting \in BOOLEAN
  /\ wpc \in {"idle", "loadPin", "loadPout", "copy", "free"}
  /\ wdata \in Seq(Values) /\ wpos \in Pos /\ wk \in 0 .. Len(wdata)
  /\ wret \in {"none", "ok", "fail"} /\ wfree \in Int /\ wquiet \in BOOLEAN
  /\ rpc \in {"idle", "loadPout", "loadPin", "copy", "used"}
  /\ rlen \in Nat /\ rpos \in Pos /\ rdata \in Seq(Values) /\ Len(rdata) <= rlen
  /\ rret \in {"none", "ok", "fail"} /\ rused \in Int /\ rquiet \in BOOLEAN
  /\ zpc \in [Resetters -> {"idle", "loadPin", "storePin", "storePout", "leave"}]
  /\ zold \in [Resetters -> 0 .. GenLimit - 1] /\ resets \in 0 .. MaxResets
  /\ q \in Seq(Values) /\ got \in Seq(Values)

\* The slot of the i-th element of the queue.
slot(i) == advance(pout.idx, i - 1)

\* One reset() at a time is past its compare-exchange loop, and it moves the two cursors
\* to the next generation one after the other.
ResetInv ==
  /\ \A y, z \in Resetters : zpc[y] # "idle" /\ zpc[z] # "idle" => y = z
  /\ resetting <=> \E z \in Resetters : zpc[z] # "idle"
  /\ pin.gen <= resets
  /\ \A z \in Resetters :
       /\ zpc[z] \in {"loadPin", "storePin"} => pin.gen < resets
       /\ zpc[z] = "storePin" => zold[z] = pin.gen
       /\ zpc[z] = "storePout" => /\ pin = freshPos(z) /\ pin.gen = pout.gen + 1
                                  /\ pinCache.gen = pin.gen => pinCache = pin
  /\ pout.gen <= pin.gen
  /\ pin.gen # pout.gen => \E z \in Resetters : zpc[z] = "storePout"

\* Between the cursors of one generation lies exactly the queue.
RingInv ==
  /\ Len(q) <= N - 1
  /\ pin.gen = pout.gen => used(pin, pout) = Len(q)
  /\ \A i \in 1 .. Len(q) : buf[slot(i)] = q[i]

\* A cached cursor of the current generation errs on the safe side.
CacheInv ==
  /\ poutCache.gen <= pout.gen /\ pinCache.gen <= pin.gen
  /\ poutCache.gen = pin.gen => used(pin, poutCache) >= Len(q)
  /\ pinCache.gen = pout.gen => used(pinCache, pout) <= Len(q)

\* A write() that no reset() overtook copies its block right behind the queue, into
\* slots the queue does not use; one that was overtaken finds the queue empty.
WriterInv ==
  /\ wpc # "copy" => wk = 0
  /\ wpc # "idle" => wret = "none"
  /\ wpc \in {"loadPout", "copy"} =>
       /\ wpos.gen <= pin.gen
       /\ wpos.gen = pin.gen => wpos = pin
       /\ wpos.gen = pout.gen => used(wpos, pout) = Len(q)
       /\ wpos.gen < pout.gen => q = <<>>
  /\ wpc = "copy" =>
       /\ fits(wpos, poutCache)
       /\ wpos.gen = pout.gen => Len(q) + Len(wdata) <= N - 1
       /\ wpos.gen = pin.gen => \A k \in 1 .. wk : buf[advance(wpos.idx, k - 1)] = wdata[k]

\* A read() that no reset() overtook has copied a prefix of the queue.
ReaderInv ==
  /\ rpc # "copy" => rdata = <<>>
  /\ rpc # "idle" => rret = "none"
  /\ rpc \in {"loadPin", "copy"} => /\ rpos.gen <= pout.gen
                                    /\ rpos.gen = pout.gen => rpos = pout
  /\ rpc = "copy" =>
       /\ holds(pinCache, rpos)
       /\ rpos.gen = pout.gen => /\ rlen <= Len(q)
                                 /\ \A i \in 1 .. Len(rdata) : rdata[i] = q[i]

\* A numFree() or numUsed() result that no reset() invalidated stays a lower bound.
SizeInv ==
  /\ wquiet \/ rquiet => ~resetting
  /\ wpc = "free" /\ wquiet => wpos = pin
  /\ wpc \in {"loadPout", "copy"} /\ wquiet => wpos.gen = pin.gen
  /\ wquiet => wfree <= N - 1 - Len(q)
  /\ rpc = "used" /\ rquiet => rpos.gen = pout.gen /\ used(rpos, pout) <= Len(q)
  /\ rpc \in {"loadPin", "copy"} /\ rquiet => rpos.gen = pout.gen
  /\ rquiet => rused <= Len(q)

\* The inductive invariant of the ring buffer: what the cursors, the cached cursors and
\* every half-finished write(), read() and reset() say about the slots.
FifoInv == TypeOK /\ ResetInv /\ RingInv /\ CacheInv /\ WriterInv /\ ReaderInv /\ SizeInv

Queue == INSTANCE FifoQueue WITH Capacity <- N - 1

\* Whatever a concurrent reset() does, a write() that returns 0 appended exactly its
\* block, a read() that returns 0 handed over exactly the oldest elements, and nothing
\* else but reset() changes the queue.
ImplementsQueue == Queue!Spec

\* A write() of no more elements than numFree() just told the producer fails only when
\* reset() ran since numFree() began: the stale poutCache_ is never to blame.
WriteSizedByNumFreeSucceeds ==
  [][wpc # "idle" /\ wpc' = "idle" /\ wret' = "fail" /\ wquiet => Len(wdata) > wfree]_vars

\* A read() of no more elements than numUsed() just told the consumer fails only when
\* reset() ran since numUsed() began.
ReadSizedByNumUsedSucceeds ==
  [][rpc # "idle" /\ rpc' = "idle" /\ rret' = "fail" /\ rquiet => rlen > rused]_vars

\* What numFree() and numUsed() told their own side can be relied on, unless reset() ran since.
SizedBlocksSucceed == WriteSizedByNumFreeSucceeds /\ ReadSizedByNumUsedSucceeds
==========================================================================

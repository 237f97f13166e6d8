----------------------------- MODULE UlogAsync -----------------------------
(***************************************************************************)
(* src/src/util/logging/ulog_async.cpp: log records of any thread go into a *)
(* lock-free ring; a consumer thread writes them out.  The owner is the     *)
(* static object that starts the consumer before main() and stops it at     *)
(* exit; another thread calls ulog_async_flush().                           *)
(*                                                                         *)
(* A record is its producer and number: the serialisation of its arguments  *)
(* and its rendering do not touch the ring.  Every access to an atomic is a *)
(* step, but the test of g_ringReady comes with the load of g_enqueuePos.   *)
(* compare_exchange_weak fails only when it has to (a spurious failure      *)
(* repeats the step).  g_sem is left out: a signal only shortens the 100 ms *)
(* wait, which may end at any moment here.  So is the line about dropped    *)
(* records that drain() ends with.  UlogFormat has the arguments.           *)
(***************************************************************************)
EXTENDS Integers, Sequences, Functions

CONSTANTS Producers,    \* threads that log
          Size,         \* kQueueLen
          MaxRecords,   \* bound: records logged
          MaxFlushes    \* bound: calls of ulog_async_flush()

VARIABLES seq, rec, enqueuePos, dequeuePos,       \* the ring
          ringReady, running, consumerIdle, dropped,   \* the other globals
          ppc, pos, num, logged,                  \* producers: where they are, local pos, record; records so far
          cpc, apc,                               \* consumer thread, owner
          dpc, dst,                               \* drain(), which only one of them is in, and its record
          fpc, fpos, flushes,                     \* ulog_async_flush()
          output, accepted, due                   \* history: what was written, pushed, and pushed before the flush

ring == <<seq, rec, enqueuePos, dequeuePos>>
producer == <<ppc, pos, num, logged>>
flusher == <<fpc, fpos, flushes, due>>
asyncVars == <<ring, ringReady, running, consumerIdle, dropped, producer, cpc, apc, dpc, dst, flusher,
          output, accepted>>

Cells == 0 .. Size - 1
cell(i) == i % Size
None == <<>>

AsyncInit ==
  /\ seq = [i \in Cells |-> 0] /\ rec = [i \in Cells |-> None] /\ enqueuePos = 0 /\ dequeuePos = 0
  /\ ringReady = FALSE /\ running = FALSE /\ consumerIdle = FALSE /\ dropped = 0
  /\ ppc = [p \in Producers |-> "idle"] /\ pos = [p \in Producers |-> 0] /\ num = [p \in Producers |-> 0]
  /\ logged = 0
  /\ cpc = "none" /\ apc = "off" /\ dpc = "off" /\ dst = None
  /\ fpc = "idle" /\ fpos = 0 /\ flushes = 0
  /\ output = <<>> /\ accepted = {} /\ due = {}
--------------------------------------------------------------------------
(* log_*() on a producer: ulog_log(), ulog_async_enqueue() and ringPush() *)

goto(p, from, to) == ppc[p] = from /\ ppc' = [ppc EXCEPT ![p] = to]
record(p) == <<p, num[p]>>
logs == logged < MaxRecords /\ logged' = logged + 1
finishes(p) == pos' = [pos EXCEPT ![p] = 0] /\ num' = [num EXCEPT ![p] = 0] /\ UNCHANGED logged

\* The consumer is up: the record is for the ring.
LogAsync(p) ==
  /\ ringReady /\ goto(p, "idle", "enqueue") /\ logs /\ num' = [num EXCEPT ![p] = logged']
  /\ UNCHANGED <<ring, ringReady, running, consumerIdle, dropped, pos, cpc, apc, dpc, dst,
                 flusher, output, accepted>>

\* It is not: the record is written here.
LogSync(p) ==
  /\ ~ringReady /\ ppc[p] = "idle" /\ logs
  /\ output' = Append(output, <<p, logged'>>)
  /\ UNCHANGED <<ring, ringReady, running, consumerIdle, dropped, ppc, pos, num, cpc, apc, dpc, dst,
                 flusher, accepted>>

\* ulog_async_enqueue() finds the ring closed, or ringPush() finds it full: the record is
\* counted and dropped.
Drop(p) ==
  /\ \/ ~ringReady /\ goto(p, "enqueue", "idle")
     \/ seq[cell(pos[p])] < pos[p] /\ goto(p, "seq", "idle")
  /\ dropped' = dropped + 1 /\ finishes(p)
  /\ UNCHANGED <<ring, ringReady, running, consumerIdle, cpc, apc, dpc, dst,
                 flusher, output, accepted>>

\* ringPush() loads g_enqueuePos, at first and when another producer was faster.
PushLoadPos(p) ==
  /\ \/ ringReady /\ goto(p, "enqueue", "seq")
     \/ seq[cell(pos[p])] > pos[p] /\ goto(p, "seq", "seq")
     \/ enqueuePos # pos[p] /\ goto(p, "claim", "seq")
  /\ pos' = [pos EXCEPT ![p] = enqueuePos]
  /\ UNCHANGED <<ring, ringReady, running, consumerIdle, dropped, num, logged, cpc, apc, dpc, dst,
                 flusher, output, accepted>>

\* The cell's sequence number says that it is free.
PushFindFree(p) ==
  /\ seq[cell(pos[p])] = pos[p] /\ goto(p, "seq", "claim")
  /\ UNCHANGED <<ring, ringReady, running, consumerIdle, dropped, pos, num, logged, cpc, apc, dpc, dst,
                 flusher, output, accepted>>

PushClaim(p) ==
  /\ enqueuePos = pos[p] /\ goto(p, "claim", "copy")
  /\ enqueuePos' = enqueuePos + 1
  /\ UNCHANGED <<seq, rec, dequeuePos, ringReady, running, consumerIdle, dropped, pos, num, logged, cpc, apc,
                 dpc, dst, flusher, output, accepted>>

\* The record is copied into the claimed cell (RingInv: nobody else's meanwhile), which is
\* then given to the consumer.
PushPublish(p) ==
  /\ goto(p, "copy", "idle") /\ finishes(p)
  /\ rec' = [rec EXCEPT ![cell(pos[p])] = record(p)]
  /\ seq' = [seq EXCEPT ![cell(pos[p])] = pos[p] + 1]
  /\ accepted' = accepted \cup {record(p)}
  /\ UNCHANGED <<enqueuePos, dequeuePos, ringReady, running, consumerIdle, dropped, cpc,
                 apc, dpc, dst, flusher, output>>
--------------------------------------------------------------------------
(* drain() and ringPop(), on the consumer or, in ulog_async_stop(), on the owner *)

\* ringPop() finds a record and copies it; its CAS has no competitor.
PopClaim ==
  /\ dpc = "pop" /\ seq[cell(dequeuePos)] = dequeuePos + 1
  /\ dpc' = "release" /\ dst' = rec[cell(dequeuePos)] /\ dequeuePos' = dequeuePos + 1
  /\ UNCHANGED <<seq, rec, enqueuePos, ringReady, running, consumerIdle, dropped, producer, cpc, apc,
                 flusher, output, accepted>>

PopRelease ==
  /\ dpc = "release" /\ dpc' = "write"
  /\ seq' = [seq EXCEPT ![cell(dequeuePos - 1)] = dequeuePos - 1 + Size]
  /\ UNCHANGED <<rec, enqueuePos, dequeuePos, ringReady, running, consumerIdle, dropped, producer, cpc,
                 apc, dst, flusher, output, accepted>>

\* emitRecord()
EmitRecord ==
  /\ dpc = "write" /\ dpc' = "pop"
  /\ output' = Append(output, dst) /\ dst' = None
  /\ UNCHANGED <<ring, ringReady, running, consumerIdle, dropped, producer, cpc, apc, flusher, accepted>>

\* The ring is empty, or its first record is not published yet: drain() returns to whoever called it.
DrainReturn ==
  /\ dpc = "pop" /\ seq[cell(dequeuePos)] # dequeuePos + 1
  /\ dpc' = "off"
  /\ cpc' = CASE cpc = "drain" -> "park" [] cpc = "sweep" -> "exited" [] OTHER -> cpc
  /\ apc' = IF apc = "sweep" THEN "close" ELSE apc
  /\ UNCHANGED <<ring, ringReady, running, consumerIdle, dropped, producer, dst, flusher, output,
                 accepted>>
--------------------------------------------------------------------------
(* consumerMain() *)

ConsumerTest ==
  /\ cpc = "test" /\ dpc' = "pop"
  /\ cpc' = IF running THEN "drain" ELSE "sweep"
  /\ UNCHANGED <<ring, ringReady, running, consumerIdle, dropped, producer, apc, dst, flusher, output,
                 accepted>>

Park ==
  /\ cpc = "park" /\ cpc' = "parked" /\ consumerIdle' = TRUE
  /\ UNCHANGED <<ring, ringReady, running, dropped, producer, apc, dpc, dst, flusher, output, accepted>>

\* waitFor(100) returns: signalled by a producer, a flush or stop(), or after its time.
WaitFor ==
  /\ cpc = "parked" /\ cpc' = "woken"
  /\ UNCHANGED <<ring, ringReady, running, consumerIdle, dropped, producer, apc, dpc, dst, flusher, output,
                 accepted>>

Unpark ==
  /\ cpc = "woken" /\ cpc' = "test" /\ consumerIdle' = FALSE
  /\ UNCHANGED <<ring, ringReady, running, dropped, producer, apc, dpc, dst, flusher, output, accepted>>
--------------------------------------------------------------------------
(* ulog_async_start() and ulog_async_stop() *)

RingInit ==
  /\ seq' = [i \in Cells |-> i] /\ enqueuePos' = 0 /\ dequeuePos' = 0
  /\ consumerIdle' = FALSE /\ ringReady' = TRUE

\* ringInit() sets g_ringReady last, and the thread comes after it.
Start ==
  /\ apc = "off" /\ apc' = "up"
  /\ RingInit /\ running' = TRUE /\ cpc' = "test"
  /\ UNCHANGED <<rec, dropped, producer, dpc, dst, flusher, output, accepted>>

StopRunning ==
  /\ apc = "up" /\ apc' = "join" /\ running' = FALSE
  /\ UNCHANGED <<ring, ringReady, consumerIdle, dropped, producer, cpc, dpc, dst, flusher, output, accepted>>

\* The consumer is joined; what it left is drained here.
StopJoin ==
  /\ apc = "join" /\ cpc = "exited" /\ apc' = "sweep" /\ dpc' = "pop"
  /\ UNCHANGED <<ring, ringReady, running, consumerIdle, dropped, producer, cpc, dst, flusher, output,
                 accepted>>

StopClose ==
  /\ apc = "close" /\ apc' = "stopped" /\ ringReady' = FALSE
  /\ UNCHANGED <<ring, running, consumerIdle, dropped, producer, cpc, dpc, dst, flusher, output, accepted>>
--------------------------------------------------------------------------
(* ulog_async_flush() *)

others == <<ring, ringReady, running, consumerIdle, dropped, producer, cpc, apc, dpc, dst, output, accepted>>

\* A call while the consumer is not running returns at once.
FlushCall ==
  /\ fpc = "idle" /\ running /\ flushes < MaxFlushes
  /\ fpc' = "load" /\ flushes' = flushes + 1 /\ due' = accepted
  /\ UNCHANGED <<others, fpos>>

\* The two positions are loaded in either order: the operands of == have none.
FlushLoadOne ==
  /\ fpc = "load"
  /\ \/ fpc' = "dequeuePos" /\ fpos' = enqueuePos
     \/ fpc' = "enqueuePos" /\ fpos' = dequeuePos
  /\ UNCHANGED <<others, flushes, due>>

FlushLoadOther ==
  /\ fpc \in {"dequeuePos", "enqueuePos"}
  /\ fpc' = IF fpos = (IF fpc = "dequeuePos" THEN dequeuePos ELSE enqueuePos) THEN "idleTest" ELSE "sleep"
  /\ fpos' = 0
  /\ UNCHANGED <<others, flushes, due>>

\* Mutant: an empty ring is enough.
FlushTrustRing ==
  /\ fpc = "idleTest" /\ fpc' = "flushed"
  /\ UNCHANGED <<others, fpos, flushes, due>>

FlushTestIdle ==
  /\ fpc = "idleTest" /\ fpc' = IF consumerIdle THEN "flushed" ELSE "sleep"
  /\ UNCHANGED <<others, fpos, flushes, due>>

FlushAgain ==
  /\ fpc = "sleep" /\ fpc' = "load"
  /\ UNCHANGED <<others, fpos, flushes, due>>

\* It returns, also after 2000 rounds without success.
FlushReturn ==
  /\ fpc \in {"flushed", "sleep"} /\ fpc' = "idle" /\ due' = {}
  /\ UNCHANGED <<others, fpos, flushes>>
--------------------------------------------------------------------------
Push(p) == PushLoadPos(p) \/ PushFindFree(p) \/ PushClaim(p) \/ PushPublish(p)
AsyncEnqueue(p) == Drop(p) \/ Push(p)
Producer(p) == LogAsync(p) \/ LogSync(p) \/ AsyncEnqueue(p)

Drain == PopClaim \/ PopRelease \/ EmitRecord \/ DrainReturn
Consumer == ConsumerTest \/ Park \/ WaitFor \/ Unpark
Stop == StopJoin \/ StopClose

Flush == \/ FlushCall \/ FlushLoadOne \/ FlushLoadOther
         \/ FlushTestIdle \/ FlushAgain \/ FlushReturn

\* The process is about to end: all that is left are threads with nothing to log.
Exit == apc = "stopped" /\ UNCHANGED asyncVars

AsyncNext ==
  \/ \E p \in Producers : Producer(p)
  \/ Drain \/ Consumer \/ Start \/ StopRunning \/ Stop \/ Flush \/ Exit

AsyncSpec == AsyncInit /\ [][AsyncNext]_asyncVars

\* Every thread that is in the logger's code goes on.  Nobody has to log or to stop it.
AsyncFairSpec ==
  /\ AsyncSpec
  /\ \A p \in Producers : WF_asyncVars(AsyncEnqueue(p))
  /\ WF_asyncVars(Drain) /\ WF_asyncVars(Consumer) /\ WF_asyncVars(Start) /\ WF_asyncVars(Stop)
--------------------------------------------------------------------------
Records == Producers \X (1 .. MaxRecords)

\* Every variable has its type.
AsyncTypeOK ==
  /\ seq \in [Cells -> Nat] /\ rec \in [Cells -> Records \cup {None}]
  /\ enqueuePos \in Nat /\ dequeuePos \in Nat
  /\ ringReady \in BOOLEAN /\ running \in BOOLEAN /\ consumerIdle \in BOOLEAN /\ dropped \in Nat
  /\ ppc \in [Producers -> {"idle", "enqueue", "seq", "claim", "copy"}]
  /\ pos \in [Producers -> Nat] /\ num \in [Producers -> 0 .. MaxRecords] /\ logged \in 0 .. MaxRecords
  /\ cpc \in {"none", "test", "drain", "park", "parked", "woken", "sweep", "exited"}
  /\ apc \in {"off", "up", "join", "sweep", "close", "stopped"}
  /\ dpc \in {"off", "pop", "release", "write"} /\ dst \in Records \cup {None}
  /\ fpc \in {"idle", "load", "enqueuePos", "dequeuePos", "idleTest", "flushed", "sleep"}
  /\ fpos \in Nat /\ flushes \in Nat
  /\ output \in Seq(Records) /\ accepted \subseteq Records /\ due \subseteq Records

writing == {p \in Producers : ppc[p] = "copy"}

\* The record in a cell is copied without a lock: no two producers own the same cell, and
\* none owns the one the consumer has claimed and not released; the ring never holds more
\* than its cells.
RingInv ==
  /\ dequeuePos <= enqueuePos /\ enqueuePos <= dequeuePos + Size
  /\ \A p, q \in writing : p # q => cell(pos[p]) # cell(pos[q])
  /\ dpc = "release" => \A p \in writing : cell(pos[p]) # cell(dequeuePos - 1)

\* ringPush() and ringPop() keep the ring's types and the exclusive ownership of its cells.
UlogInv == AsyncTypeOK /\ RingInv

queued == {rec[cell(i)] : i \in {j \in dequeuePos .. enqueuePos - 1 : seq[cell(j)] = j + 1}}

\* A record ringPush() has accepted is in the ring, in drain()'s hands or written: never
\* overwritten, and never written twice or before an older one of the same thread, which is
\* what "survivorsInOrder" of UlogAsyncTest looks for.
RecordsKept ==
  /\ accepted \subseteq queued \cup {dst} \cup Range(output)
  /\ \A i, j \in DOMAIN output : i < j /\ output[i][1] = output[j][1] => output[i][2] < output[j][2]

\* When ulog_async_flush() has seen the ring empty and the consumer idle, every record
\* pushed before the call has been written, not only popped.
FlushedIsWritten == fpc = "flushed" => due \subseteq Range(output)

\* What ulog_async.cpp promises at every moment: its cells are owned by one thread at a time,
\* no accepted record is lost, repeated or out of its thread's order, and a flush that
\* succeeds has flushed.
LogInv == UlogInv /\ RecordsKept /\ FlushedIsWritten

unwritten == accepted \ Range(output)

\* Records in the ring are written, whatever the producers do, unless the logger is stopped.
AcceptedIsWritten == unwritten # {} ~> unwritten = {} \/ ~running

\* ulog_async_stop() returns.
StopReturns == apc = "join" ~> apc = "stopped"
==========================================================================

------------------------------ MODULE UlogProofs ------------------------------
(*****************************************************************************)
(* The ring of ulog_async.cpp, for any number of producers and any number of *)
(* cells from two on. LogInv is not inductive: what makes it hold is that    *)
(* the sequence number of every cell between the consumer's position and one *)
(* round ahead of it says whether the cell is free, claimed or published     *)
(* (Ring), that a producer which copies owns a claimed cell (Owners), that   *)
(* what it has read of the ring is still good when its compare-exchange      *)
(* succeeds (Seen), and that records are numbered in the order in which      *)
(* their producer logs them (Numbers, Queue, Order). Flushing adds what a    *)
(* flush may conclude from each of its loads. IInv is their conjunction.     *)
(* Each part is shown to be preserved by the kinds of steps that StepKinds   *)
(* tells apart.                                                              *)
(*****************************************************************************)
EXTENDS UlogAsync, TLAPS

--------------------------------------------------------------------------
\* What the proofs assume of the constants: a ring of two cells or more (kQueueLen is 256; in a
\* ring of one the sequence numbers of a free and of a published cell would be the same).
Constants == Size \in Nat /\ Size > 1 /\ MaxRecords \in Nat

\* AsyncTypeOK in parts, with what is due among what was accepted.
FlagsOK == ringReady \in BOOLEAN /\ running \in BOOLEAN /\ consumerIdle \in BOOLEAN

RingOK ==
  /\ seq \in [Cells -> Nat] /\ rec \in [Cells -> Records \cup {None}]
  /\ enqueuePos \in Nat /\ dequeuePos \in Nat

ProducersOK ==
  /\ dropped \in Nat
  /\ ppc \in [Producers -> {"idle", "enqueue", "seq", "claim", "copy"}]
  /\ pos \in [Producers -> Nat] /\ num \in [Producers -> 0 .. MaxRecords] /\ logged \in 0 .. MaxRecords

ThreadsOK ==
  /\ cpc \in {"none", "test", "drain", "park", "parked", "woken", "sweep", "exited"}
  /\ apc \in {"off", "up", "join", "sweep", "close", "stopped"}
  /\ dpc \in {"off", "pop", "release", "write"}
  /\ fpc \in {"idle", "load", "enqueuePos", "dequeuePos", "idleTest", "flushed", "sleep"}
  /\ fpos \in Nat /\ flushes \in Nat

HistoryOK ==
  /\ dst \in Records \cup {None} /\ output \in Seq(Records)
  /\ accepted \subseteq Records /\ due \subseteq accepted

OtherOK == RingOK /\ ProducersOK /\ ThreadsOK /\ HistoryOK

\* What the three flags say of the threads.
Flags ==
  /\ ringReady => apc # "off"
  /\ ringReady \/ apc \in {"off", "stopped"}
  /\ running => apc # "off"
  /\ consumerIdle => cpc \in {"parked", "woken"}

\* Who may be in drain(), and what it holds there.
Control ==
  /\ apc = "off" => /\ cpc = "none" /\ dpc = "off" /\ fpc = "idle" /\ accepted = {}
                    /\ enqueuePos = 0 /\ dequeuePos = 0 /\ \A p \in Producers : ppc[p] = "idle"
  /\ apc \in {"sweep", "close", "stopped"} => cpc = "exited"
  /\ dpc # "off" => cpc \in {"drain", "sweep"} \/ apc = "sweep"
  /\ dpc \in {"release", "write"} => dst \in accepted
  /\ dpc \in {"off", "pop"} => dst = None

\* The positions up to which producers may claim cells.
freeEnd == IF dpc = "release" THEN dequeuePos - 1 + Size ELSE dequeuePos + Size

\* The sequence number of a cell says who may use it.
Ring ==
  /\ dequeuePos <= enqueuePos /\ enqueuePos <= freeEnd
  /\ dpc = "release" => dequeuePos > 0 /\ seq[cell(dequeuePos - 1)] = dequeuePos
  /\ \A j \in dequeuePos .. enqueuePos - 1 : seq[cell(j)] \in {j, j + 1}
  /\ apc # "off" => \A j \in enqueuePos .. freeEnd - 1 : seq[cell(j)] = j

\* A producer that copies owns a cell of its own.
Owners ==
  /\ \A p \in Producers : ppc[p] = "copy" =>
       dequeuePos <= pos[p] /\ pos[p] < enqueuePos /\ seq[cell(pos[p])] = pos[p]
  /\ \A p, q \in Producers : ppc[p] = "copy" /\ ppc[q] = "copy" /\ p # q => pos[p] # pos[q]

\* What a producer has seen of g_enqueuePos and of the cell.
Seen ==
  \A p \in Producers :
    /\ ppc[p] \in {"seq", "claim"} => pos[p] <= enqueuePos
    /\ ppc[p] = "claim" /\ pos[p] = enqueuePos => enqueuePos < freeEnd

\* The positions that hold a record for drain().
published == {j \in dequeuePos .. enqueuePos - 1 : seq[cell(j)] = j + 1}

\* A record to come has a higher number than any its producer has had accepted or written.
Numbers ==
  /\ \A p \in Producers : num[p] <= logged /\ (ppc[p] # "idle" => num[p] > 0)
  /\ \A r \in accepted \cup Range(output) : r[2] <= logged /\ (ppc[r[1]] # "idle" => r[2] < num[r[1]])

\* r is behind every record of s that the same producer logged.
Behind(s, r) == \A x \in Range(s) : x[1] = r[1] => x[2] < r[2]
\* Each producer's records are in s in the order of their numbers.
Ordered(s) == \A i, j \in DOMAIN s : i < j /\ s[i][1] = s[j][1] => s[i][2] < s[j][2]

\* Where the accepted records are, and that a producer's next one comes after its others.
Queue ==
  /\ \A r \in accepted : r = dst \/ r \in Range(output) \/ \E j \in published : rec[cell(j)] = r
  /\ \A j \in published : rec[cell(j)] \in accepted
  /\ \A p \in Producers, j \in published : ppc[p] = "copy" /\ rec[cell(j)][1] = p => j < pos[p]

\* Output, drain()'s record and queue are in each producer's order.
Order ==
  /\ Ordered(output)
  /\ dst # None => Behind(output, dst)
  /\ apc # "stopped" => \A j \in published :
       /\ Behind(output, rec[cell(j)])
       /\ dst # None /\ dst[1] = rec[cell(j)][1] => dst[2] < rec[cell(j)][2]
  /\ \A j, k \in published :
       j < k /\ rec[cell(j)][1] = rec[cell(k)][1] => rec[cell(j)][2] < rec[cell(k)][2]

\* What ulog_async_flush() knows of the due records after each of its loads.
Flushing ==
  /\ fpc = "dequeuePos" => \A j \in published : rec[cell(j)] \in due => j < fpos
  /\ fpc = "enqueuePos" => fpos <= dequeuePos
  /\ fpc = "idleTest" => due \subseteq {dst} \cup Range(output)
  /\ fpc = "flushed" => due \subseteq Range(output)

IInv == /\ FlagsOK /\ OtherOK /\ Flags /\ Control
        /\ Ring /\ Owners /\ Seen /\ Numbers /\ Queue /\ Order /\ Flushing
--------------------------------------------------------------------------
(* The cells of the ring: positions less than Size apart have different ones. *)

\* Division with remainder.
LEMMA DivMod ==
  ASSUME NEW n \in Nat, n > 0, NEW i \in Nat
  PROVE  i % n \in 0 .. (n - 1) /\ i \div n \in Nat /\ i = n * (i \div n) + (i % n)
OBVIOUS

\* Two numbers less than n apart are not both k more than a multiple of n.
LEMMA Apart ==
  ASSUME NEW n \in Nat, n > 0, NEW a \in Int, NEW b \in Int, NEW k \in Int, NEW i \in Int,
         NEW j \in Int,
         i = n * a + k, j = n * b + k, i < j, j < i + n
  PROVE  FALSE
<1>1. j - i = n * (b - a)
  BY SMT
<1>2. b - a > 0
  BY <1>1, SMT
<1>3. b - a < 1
  BY <1>1, SMT
<1> QED
  BY <1>2, <1>3, SMT

\* pos & (kQueueLen - 1) is a cell.
LEMMA CellType ==
  ASSUME Constants, NEW i \in Nat
  PROVE  cell(i) \in Cells
BY DivMod DEF Constants, cell, Cells

\* Positions less than Size apart have different cells.
LEMMA CellApart ==
  ASSUME Constants, NEW i \in Nat, NEW j \in Nat, i < j, j < i + Size
  PROVE  cell(i) # cell(j)
<1>1. Size \in Nat /\ Size > 0 /\ i \in Int /\ j \in Int
  BY DEF Constants
<1>2. i % Size \in Int /\ i \div Size \in Int /\ i = Size * (i \div Size) + (i % Size)
  BY <1>1, DivMod
<1>3. j % Size \in Int /\ j \div Size \in Int /\ j = Size * (j \div Size) + (j % Size)
  BY <1>1, DivMod
<1> SUFFICES ASSUME i % Size = j % Size PROVE FALSE
  BY DEF cell
<1>4. j = Size * (j \div Size) + (i % Size)
  BY <1>3
<1> QED
  BY ONLY <1>1, <1>2, <1>3, <1>4, Apart, i < j, j < i + Size, Zenon

\* A round of the ring leads back to the same cell.
LEMMA CellAgain ==
  ASSUME Constants, NEW i \in Nat
  PROVE  cell(i + Size) = cell(i)
<1> DEFINE a == i \div Size
           b == (i + Size) \div Size
           k == i % Size
           l == (i + Size) % Size
           c == b - a - 1
<1>1. Size \in Nat /\ Size > 0 /\ i + Size \in Nat
  BY DEF Constants
<1>2. /\ a \in Int /\ b \in Int /\ k \in 0 .. (Size - 1) /\ l \in 0 .. (Size - 1)
      /\ i = Size * a + k /\ i + Size = Size * b + l
  BY <1>1, DivMod
<1> HIDE DEF a, b, k, l
<1>3. c \in Int /\ Size * c = k - l
  BY <1>1, <1>2, SMT
<1> HIDE DEF c
<1>4. c < 1
  BY <1>1, <1>2, <1>3, SMT
<1>5. c > -1
  BY <1>1, <1>2, <1>3, SMT
<1>6. c = 0
  BY <1>3, <1>4, <1>5
<1>7. k = l
  BY <1>1, <1>2, <1>3, <1>6
<1> QED
  BY <1>7 DEF k, l, cell
--------------------------------------------------------------------------
(* The kinds of steps: what a step of each kind leaves alone is shown once. *)

\* A producer has not claimed a cell: it starts, gives up or looks for one.
Local(p) == LogAsync(p) \/ Drop(p) \/ PushLoadPos(p) \/ PushFindFree(p)

\* The consumer, the owner or the flusher goes on and touches no record.
Quiet ==
  /\ UNCHANGED <<ring, producer, dropped, dst, output, accepted>>
  /\ dpc' = "release" <=> dpc = "release"
  /\ apc' = "off" <=> apc = "off"
  /\ apc = "stopped" => apc' = "stopped"

Moves == DrainReturn \/ Consumer \/ StopRunning \/ Stop

\* What a producer's search leaves alone.
LEMMA LocalFrame ==
  ASSUME NEW p \in Producers, Local(p)
  PROVE  /\ UNCHANGED <<seq, rec, enqueuePos, dequeuePos, cpc, apc, dpc, dst, output, accepted>>
         /\ UNCHANGED <<ringReady, running, consumerIdle, fpc, fpos, flushes, due>>
<1> USE DEF ring, flusher
<1>1. CASE LogAsync(p)
  BY <1>1 DEF LogAsync
<1>2. CASE Drop(p)
  BY <1>2 DEF Drop
<1>3. CASE PushLoadPos(p)
  BY <1>3 DEF PushLoadPos
<1>4. CASE PushFindFree(p)
  BY <1>4 DEF PushFindFree
<1> QED
  BY <1>1, <1>2, <1>3, <1>4 DEF Local

\* It changes nothing of another producer, and claims nothing.
LEMMA LocalSteps ==
  ASSUME ProducersOK, NEW p \in Producers, Local(p)
  PROVE  /\ ppc'[p] # "copy"
         /\ \A q \in Producers \ {p} : ppc'[q] = ppc[q] /\ pos'[q] = pos[q] /\ num'[q] = num[q]
<1> USE DEF ProducersOK, goto
<1>1. CASE LogAsync(p)
  BY <1>1 DEF LogAsync
<1>2. CASE Drop(p)
  <2>1. ppc' = [ppc EXCEPT ![p] = "idle"]
    BY <1>2 DEF Drop
  <2> QED
    BY <1>2, <2>1 DEF Drop, finishes
<1>3. CASE PushLoadPos(p)
  <2>1. ppc' = [ppc EXCEPT ![p] = "seq"]
    BY <1>3 DEF PushLoadPos
  <2> QED
    BY <1>3, <2>1 DEF PushLoadPos
<1>4. CASE PushFindFree(p)
  BY <1>4 DEF PushFindFree
<1> QED
  BY <1>1, <1>2, <1>3, <1>4 DEF Local

\* What the threads' other steps leave alone.
LEMMA MovesAreQuiet ==
  ASSUME ThreadsOK, Control, Moves
  PROVE  Quiet
<1> USE DEF Quiet, ThreadsOK, Control
<1>1. CASE DrainReturn
  BY <1>1 DEF DrainReturn
<1>2. CASE ConsumerTest
  BY <1>2 DEF ConsumerTest
<1>3. CASE Park
  BY <1>3 DEF Park
<1>4. CASE WaitFor
  BY <1>4 DEF WaitFor
<1>5. CASE Unpark
  BY <1>5 DEF Unpark
<1>6. CASE StopRunning
  BY <1>6 DEF StopRunning
<1>7. CASE StopJoin
  BY <1>7 DEF StopJoin
<1>8. CASE StopClose
  BY <1>8 DEF StopClose
<1> QED
  BY <1>1, <1>2, <1>3, <1>4, <1>5, <1>6, <1>7, <1>8 DEF Moves, Consumer, Stop

\* A flush only looks.
LEMMA FlushFrame ==
  ASSUME Flush
  PROVE  UNCHANGED others
BY DEF Flush, FlushCall, FlushLoadOne, FlushLoadOther, FlushTestIdle, FlushAgain, FlushReturn

\* What is due changes only when a flush is called or returns.
LEMMA DueSteps ==
  ASSUME [AsyncNext]_asyncVars
  PROVE  due' \in {due, accepted, {}}
<1>1. CASE \E p \in Producers : Producer(p)
  <2>1. PICK p \in Producers : Local(p) \/ LogSync(p) \/ PushClaim(p) \/ PushPublish(p)
    BY <1>1 DEF Producer, AsyncEnqueue, Push, Local
  <2> QED
    BY <2>1, LocalFrame DEF LogSync, PushClaim, PushPublish, flusher
<1>2. CASE Flush
  BY <1>2 DEF Flush, FlushCall, FlushLoadOne, FlushLoadOther, FlushTestIdle, FlushAgain, FlushReturn
<1>3. CASE Drain \/ Consumer \/ Start \/ StopRunning \/ Stop \/ Exit \/ UNCHANGED asyncVars
  BY <1>3 DEF Drain, PopClaim, PopRelease, EmitRecord, DrainReturn, Consumer, ConsumerTest, Park, WaitFor,
              Unpark,
              Start, StopRunning, Stop, StopJoin, StopClose, Exit, asyncVars, flusher
<1> QED
  BY <1>1, <1>2, <1>3 DEF AsyncNext

\* Every step is of one of these kinds.
LEMMA StepKinds ==
  ASSUME ThreadsOK, Control, [AsyncNext]_asyncVars
  PROVE  \/ \E p \in Producers : Local(p) \/ LogSync(p) \/ PushClaim(p) \/ PushPublish(p)
         \/ PopClaim \/ PopRelease \/ EmitRecord \/ Start \/ Quiet
<1>1. CASE \E p \in Producers : Producer(p)
  BY <1>1 DEF Producer, AsyncEnqueue, Push, Local
<1>2. CASE Moves
  BY <1>2, MovesAreQuiet
<1>3. CASE Flush
  BY <1>3, FlushFrame DEF others, Quiet
<1>4. CASE UNCHANGED asyncVars
  BY <1>4 DEF asyncVars, Quiet
<1>5. CASE Drain \/ Start
  BY <1>2, <1>5 DEF Drain, Moves
<1> QED
  BY <1>1, <1>2, <1>3, <1>4, <1>5 DEF AsyncNext, Exit, Moves

\* A quiet step that is not the flusher's leaves its variables alone.
LEMMA FlushKinds ==
  ASSUME ThreadsOK, Control, [AsyncNext]_asyncVars
  PROVE  \/ \E p \in Producers : Local(p) \/ LogSync(p) \/ PushClaim(p) \/ PushPublish(p)
         \/ PopClaim \/ PopRelease \/ EmitRecord \/ Start \/ (Quiet /\ UNCHANGED flusher)
         \/ FlushCall \/ FlushLoadOne \/ FlushLoadOther \/ FlushTestIdle \/ FlushAgain \/ FlushReturn
<1>1. CASE \E p \in Producers : Producer(p)
  BY <1>1 DEF Producer, AsyncEnqueue, Push, Local
<1>2. CASE Moves
  <2>1. UNCHANGED flusher
    BY <1>2 DEF Moves, DrainReturn, Consumer, ConsumerTest, Park, WaitFor, Unpark, StopRunning, Stop,
                StopJoin, StopClose
  <2> QED
    BY <1>2, <2>1, MovesAreQuiet
<1>3. CASE UNCHANGED asyncVars
  BY <1>3 DEF asyncVars, Quiet
<1>4. CASE Drain
  BY <1>2, <1>4 DEF Drain, Moves
<1> QED
  BY <1>1, <1>2, <1>3, <1>4 DEF AsyncNext, Exit, Moves, Flush
--------------------------------------------------------------------------
\* The record of a producer that has something to log.
LEMMA RecordType ==
  ASSUME ProducersOK, Numbers, NEW p \in Producers, ppc[p] # "idle"
  PROVE  record(p) \in Records /\ num[p] \in Nat
BY DEF ProducersOK, Numbers, record, Records

\* drain() knows a record from none.
LEMMA NoneIsNoRecord == None \notin Records
BY DEF None, Records

\* Every step keeps the types of the ring.
LEMMA RingTyped ==
  ASSUME Constants, RingOK, ProducersOK, ThreadsOK, Numbers, Control, Ring, [AsyncNext]_asyncVars
  PROVE  RingOK'
<1> USE DEF RingOK
<1>1. ASSUME NEW p \in Producers, Local(p) PROVE RingOK'
  <2>1. UNCHANGED <<seq, rec, enqueuePos, dequeuePos>>
    BY <1>1, LocalFrame
  <2> QED
    BY <2>1
<1>2. ASSUME NEW p \in Producers, LogSync(p) PROVE RingOK'
  BY <1>2 DEF LogSync, ring
<1>3. ASSUME NEW p \in Producers, PushClaim(p) PROVE RingOK'
  BY <1>3 DEF PushClaim
<1>4. ASSUME NEW p \in Producers, PushPublish(p) PROVE RingOK'
  <2>1. pos[p] \in Nat /\ ppc[p] # "idle"
    BY <1>4 DEF PushPublish, goto, ProducersOK
  <2>2. cell(pos[p]) \in Cells /\ record(p) \in Records
    BY <2>1, CellType, RecordType
  <2> QED
    BY <1>4, <2>1, <2>2 DEF PushPublish
<1>5. CASE PopClaim
  BY <1>5 DEF PopClaim
<1>6. CASE PopRelease
  <2>1. dequeuePos - 1 \in Nat /\ dequeuePos - 1 + Size \in Nat
    BY <1>6 DEF PopRelease, Ring, Constants
  <2>2. cell(dequeuePos - 1) \in Cells
    BY <2>1, CellType
  <2> QED
    BY <1>6, <2>1, <2>2 DEF PopRelease
<1>7. CASE EmitRecord
  BY <1>7 DEF EmitRecord, ring
<1>8. CASE Start
  <2>1. [i \in Cells |-> i] \in [Cells -> Nat]
    BY DEF Cells, Constants
  <2> QED
    BY <1>8, <2>1 DEF Start, RingInit
<1>9. CASE Quiet
  BY <1>9 DEF Quiet, ring
<1> QED
  BY <1>1, <1>2, <1>3, <1>4, <1>5, <1>6, <1>7, <1>8, <1>9, StepKinds

\* Every step keeps the types of the producers.
LEMMA ProducersTyped ==
  ASSUME Constants, RingOK, ProducersOK, ThreadsOK, Control, [AsyncNext]_asyncVars
  PROVE  ProducersOK'
<1> USE DEF ProducersOK
<1>1. ASSUME NEW p \in Producers, Local(p) PROVE ProducersOK'
  <2> USE DEF Constants, goto
  <2>1. CASE LogAsync(p)
    BY <2>1 DEF LogAsync, logs
  <2>2. CASE Drop(p)
    <3>1. ppc' = [ppc EXCEPT ![p] = "idle"]
      BY <2>2 DEF Drop
    <3> QED
      BY <2>2, <3>1 DEF Drop, finishes
  <2>3. CASE PushLoadPos(p)
    <3>1. ppc' = [ppc EXCEPT ![p] = "seq"] /\ pos' = [pos EXCEPT ![p] = enqueuePos] /\ enqueuePos \in Nat
      BY <2>3 DEF PushLoadPos, RingOK
    <3> QED
      BY <2>3, <3>1 DEF PushLoadPos
  <2>4. CASE PushFindFree(p)
    BY <2>4 DEF PushFindFree
  <2> QED
    BY <1>1, <2>1, <2>2, <2>3, <2>4 DEF Local
<1>2. ASSUME NEW p \in Producers, LogSync(p) PROVE ProducersOK'
  BY <1>2 DEF LogSync, logs, Constants
<1>3. ASSUME NEW p \in Producers, PushClaim(p) PROVE ProducersOK'
  BY <1>3 DEF PushClaim, goto
<1>4. ASSUME NEW p \in Producers, PushPublish(p) PROVE ProducersOK'
  BY <1>4 DEF PushPublish, goto, finishes, Constants
<1>5. CASE PopClaim
  BY <1>5 DEF PopClaim, producer
<1>6. CASE PopRelease
  BY <1>6 DEF PopRelease, producer
<1>7. CASE EmitRecord
  BY <1>7 DEF EmitRecord, producer
<1>8. CASE Start
  BY <1>8 DEF Start, producer
<1>9. CASE Quiet
  BY <1>9 DEF Quiet, producer
<1> QED
  BY <1>1, <1>2, <1>3, <1>4, <1>5, <1>6, <1>7, <1>8, <1>9, StepKinds

\* Every step keeps the types of the consumer, the owner and the flusher.
LEMMA ThreadsTyped ==
  ASSUME RingOK, ThreadsOK, [AsyncNext]_asyncVars
  PROVE  ThreadsOK'
<1> USE DEF ThreadsOK
<1>1. ASSUME NEW p \in Producers, Local(p) PROVE ThreadsOK'
  <2>1. UNCHANGED <<cpc, apc, dpc, fpc, fpos, flushes>>
    BY <1>1, LocalFrame
  <2> QED
    BY <2>1
<1>2. ASSUME NEW p \in Producers, LogSync(p) PROVE ThreadsOK'
  BY <1>2 DEF LogSync, flusher
<1>3. ASSUME NEW p \in Producers, PushClaim(p) PROVE ThreadsOK'
  BY <1>3 DEF PushClaim, flusher
<1>4. ASSUME NEW p \in Producers, PushPublish(p) PROVE ThreadsOK'
  BY <1>4 DEF PushPublish, flusher
<1>5. CASE PopClaim
  BY <1>5 DEF PopClaim, flusher
<1>6. CASE PopRelease
  BY <1>6 DEF PopRelease, flusher
<1>7. CASE EmitRecord
  BY <1>7 DEF EmitRecord, flusher
<1>8. CASE Start
  BY <1>8 DEF Start, flusher
<1>9. CASE DrainReturn
  BY <1>9 DEF DrainReturn, flusher
<1>10. CASE ConsumerTest
  BY <1>10 DEF ConsumerTest, flusher
<1>11. CASE Park
  BY <1>11 DEF Park, flusher
<1>12. CASE WaitFor
  BY <1>12 DEF WaitFor, flusher
<1>13. CASE Unpark
  BY <1>13 DEF Unpark, flusher
<1>14. CASE StopRunning
  BY <1>14 DEF StopRunning, flusher
<1>15. CASE StopJoin
  BY <1>15 DEF StopJoin, flusher
<1>16. CASE StopClose
  BY <1>16 DEF StopClose, flusher
<1>17. CASE Flush
  <2>1. CASE FlushLoadOne
    <3>1. enqueuePos \in Nat /\ dequeuePos \in Nat
      BY DEF RingOK
    <3> QED
      BY <2>1, <3>1 DEF FlushLoadOne, others
  <2>2. CASE ~FlushLoadOne
    BY <1>17, <2>2 DEF Flush, FlushCall, FlushLoadOther, FlushTestIdle, FlushAgain, FlushReturn, others
  <2> QED
    BY <2>1, <2>2
<1>18. CASE UNCHANGED asyncVars
  BY <1>18 DEF asyncVars, flusher
<1> QED
  BY <1>1, <1>2, <1>3, <1>4, <1>5, <1>6, <1>7, <1>8, <1>9, <1>10, <1>11, <1>12, <1>13, <1>14, <1>15,
     <1>16, <1>17, <1>18
  DEF AsyncNext, Producer, AsyncEnqueue, Push, Local, Drain, Consumer, Stop, Exit

\* Every step keeps the types of drain()'s record and of the history.
LEMMA HistoryTyped ==
  ASSUME Constants, RingOK, ProducersOK, ThreadsOK, HistoryOK, Numbers, Control, [AsyncNext]_asyncVars
  PROVE  HistoryOK'
<1> USE DEF HistoryOK
<1>1. ASSUME NEW p \in Producers, Local(p) PROVE HistoryOK'
  <2>1. UNCHANGED <<dst, output, accepted, due>>
    BY <1>1, LocalFrame
  <2> QED
    BY <2>1
<1>2. ASSUME NEW p \in Producers, LogSync(p) PROVE HistoryOK'
  <2>1. <<p, logged'>> \in Records
    BY <1>2 DEF LogSync, logs, ProducersOK, Records, Constants
  <2> QED
    BY <1>2, <2>1 DEF LogSync, flusher
<1>3. ASSUME NEW p \in Producers, PushClaim(p) PROVE HistoryOK'
  BY <1>3 DEF PushClaim, flusher
<1>4. ASSUME NEW p \in Producers, PushPublish(p) PROVE HistoryOK'
  <2>1. record(p) \in Records
    BY <1>4, RecordType DEF PushPublish, goto, ProducersOK
  <2> QED
    BY <1>4, <2>1 DEF PushPublish, flusher
<1>5. CASE PopClaim
  <2>1. rec[cell(dequeuePos)] \in Records \cup {None}
    BY CellType DEF RingOK
  <2> QED
    BY <1>5, <2>1 DEF PopClaim, flusher
<1>6. CASE PopRelease
  BY <1>6 DEF PopRelease, flusher
<1>7. CASE EmitRecord
  <2>1. dst \in Records
    BY <1>7 DEF EmitRecord, Control
  <2> QED
    BY <1>7, <2>1 DEF EmitRecord, flusher
<1>8. CASE Start
  BY <1>8 DEF Start, flusher
<1>9. CASE Quiet
  <2>1. UNCHANGED <<dst, output, accepted>>
    BY <1>9 DEF Quiet
  <2>2. due' \in {due, accepted, {}}
    BY DueSteps
  <2> QED
    BY <2>1, <2>2
<1> QED
  BY <1>1, <1>2, <1>3, <1>4, <1>5, <1>6, <1>7, <1>8, <1>9, StepKinds

--------------------------------------------------------------------------
\* Every step keeps the flags Booleans, and what they say.
LEMMA FlagsKept ==
  ASSUME FlagsOK, Flags, ThreadsOK, [AsyncNext]_asyncVars
  PROVE  (FlagsOK /\ Flags)'
<1> USE DEF FlagsOK, Flags
<1>1. ASSUME NEW p \in Producers, Local(p) PROVE (FlagsOK /\ Flags)'
  <2>1. UNCHANGED <<ringReady, running, consumerIdle, cpc, apc>>
    BY <1>1, LocalFrame
  <2> QED
    BY <2>1, Zenon
<1>2. ASSUME NEW p \in Producers, LogSync(p) PROVE (FlagsOK /\ Flags)'
  BY <1>2, Zenon DEF LogSync
<1>3. ASSUME NEW p \in Producers, PushClaim(p) PROVE (FlagsOK /\ Flags)'
  BY <1>3, Zenon DEF PushClaim
<1>4. ASSUME NEW p \in Producers, PushPublish(p) PROVE (FlagsOK /\ Flags)'
  BY <1>4, Zenon DEF PushPublish
<1>5. CASE PopClaim
  BY <1>5, Zenon DEF PopClaim
<1>6. CASE PopRelease
  BY <1>6, Zenon DEF PopRelease
<1>7. CASE EmitRecord
  BY <1>7, Zenon DEF EmitRecord
<1>8. CASE Start
  BY <1>8, Zenon DEF Start, RingInit
<1>9. CASE DrainReturn
  BY <1>9, Zenon DEF DrainReturn
<1>10. CASE ConsumerTest
  BY <1>10, Zenon DEF ConsumerTest
<1>11. CASE Park
  BY <1>11, Zenon DEF Park
<1>12. CASE WaitFor
  BY <1>12, Zenon DEF WaitFor
<1>13. CASE Unpark
  BY <1>13, Zenon DEF Unpark
<1>14. CASE StopRunning
  BY <1>14, Zenon DEF StopRunning
<1>15. CASE StopJoin
  BY <1>15, Zenon DEF StopJoin
<1>16. CASE StopClose
  BY <1>16, Zenon DEF StopClose
<1>17. CASE Flush
  <2>1. UNCHANGED <<ringReady, running, consumerIdle, cpc, apc>>
    BY <1>17, FlushFrame DEF others
  <2> QED
    BY <2>1, Zenon
<1>18. CASE UNCHANGED asyncVars
  BY <1>18, Zenon DEF asyncVars
<1> QED
  BY <1>1, <1>2, <1>3, <1>4, <1>5, <1>6, <1>7, <1>8, <1>9, <1>10, <1>11, <1>12, <1>13, <1>14, <1>15,
     <1>16, <1>17, <1>18
  DEF AsyncNext, Producer, AsyncEnqueue, Push, Local, Drain, Consumer, Stop, Exit

\* drain() takes a position that is claimed and published.
LEMMA PopFinds ==
  ASSUME Constants, RingOK, ThreadsOK, Control, Ring, PopClaim
  PROVE  dequeuePos < enqueuePos /\ dequeuePos \in published
<1>1. apc # "off" /\ freeEnd = dequeuePos + Size /\ seq[cell(dequeuePos)] = dequeuePos + 1
  BY DEF PopClaim, Control, freeEnd
<1>2. dequeuePos # enqueuePos
  BY <1>1 DEF Ring, RingOK, Constants
<1> QED
  BY <1>1, <1>2 DEF Ring, RingOK, published

\* Every step keeps who is in drain() and what it holds.
LEMMA ControlKept ==
  ASSUME Constants, RingOK, ProducersOK, ThreadsOK, HistoryOK, Flags, Control, Queue, Ring, [AsyncNext]_asyncVars
  PROVE  Control'
<1> USE DEF ThreadsOK, Control
<1>1. ASSUME NEW p \in Producers, Local(p) PROVE Control'
  <2>1. UNCHANGED <<enqueuePos, dequeuePos, cpc, apc, dpc, fpc, dst, accepted>>
    BY <1>1, LocalFrame
  <2>2. apc # "off"
    BY <1>1 DEF Local, LogAsync, Drop, PushLoadPos, PushFindFree, goto, Flags
  <2> QED
    BY <2>1, <2>2
<1>2. ASSUME NEW p \in Producers, LogSync(p) PROVE Control'
  BY <1>2 DEF LogSync, ring, flusher
<1>3. ASSUME NEW p \in Producers, PushClaim(p) PROVE Control'
  BY <1>3 DEF PushClaim, goto, flusher
<1>4. ASSUME NEW p \in Producers, PushPublish(p) PROVE Control'
  BY <1>4 DEF PushPublish, goto, flusher
<1>5. CASE PopClaim
  <2>1. rec[cell(dequeuePos)] \in accepted
    BY <1>5, PopFinds DEF Queue
  <2> QED
    BY <1>5, <2>1 DEF PopClaim, flusher, producer
<1>6. CASE PopRelease
  BY <1>6 DEF PopRelease, ring, producer, flusher
<1>7. CASE EmitRecord
  BY <1>7 DEF EmitRecord, ring, producer, flusher
<1>8. CASE Start
  BY <1>8 DEF Start, RingInit
<1>9. CASE DrainReturn
  BY <1>9 DEF DrainReturn, ring, producer, flusher
<1>10. CASE ConsumerTest
  BY <1>10 DEF ConsumerTest, ring, producer, flusher
<1>11. CASE Park
  BY <1>11 DEF Park, ring, producer, flusher
<1>12. CASE WaitFor
  BY <1>12 DEF WaitFor, ring, producer, flusher
<1>13. CASE Unpark
  BY <1>13 DEF Unpark, ring, producer, flusher
<1>14. CASE StopRunning
  BY <1>14 DEF StopRunning, ring, producer, flusher
<1>15. CASE StopJoin
  BY <1>15 DEF StopJoin, ring, producer, flusher
<1>16. CASE StopClose
  BY <1>16 DEF StopClose, ring, producer, flusher
<1>17. CASE Flush
  <2>1. UNCHANGED <<ppc, enqueuePos, dequeuePos, cpc, apc, dpc, dst, accepted>>
    BY <1>17, FlushFrame DEF others, ring, producer
  <2>2. apc = "off" => fpc' = "idle"
    BY <1>17 DEF Flush, FlushCall, FlushLoadOne, FlushLoadOther, FlushTestIdle, FlushAgain,
                 FlushReturn, Flags
  <2> QED
    BY <2>1, <2>2
<1>18. CASE UNCHANGED asyncVars
  BY <1>18 DEF asyncVars, ring, producer, flusher
<1> QED
  BY <1>1, <1>2, <1>3, <1>4, <1>5, <1>6, <1>7, <1>8, <1>9, <1>10, <1>11, <1>12, <1>13, <1>14, <1>15, Zenon,
     <1>16, <1>17, <1>18
  DEF AsyncNext, Producer, AsyncEnqueue, Push, Local, Drain, Consumer, Stop, Exit

--------------------------------------------------------------------------
\* What a producer claims is a free cell.
LEMMA ClaimFindsFree ==
  ASSUME Constants, RingOK, ThreadsOK, Control, Ring, Seen, NEW p \in Producers, PushClaim(p)
  PROVE  /\ apc # "off" /\ pos[p] = enqueuePos /\ ppc[p] = "claim"
         /\ enqueuePos < freeEnd /\ seq[cell(enqueuePos)] = enqueuePos
<1>1. pos[p] = enqueuePos /\ ppc[p] = "claim"
  BY ONLY PushClaim(p) DEF PushClaim, goto
<1>2. apc # "off"
  BY ONLY Control, <1>1, p \in Producers DEF Control
<1>3. enqueuePos < freeEnd
  BY ONLY Seen, <1>1, p \in Producers DEF Seen
<1>4. enqueuePos \in Nat /\ freeEnd \in Int
  BY ONLY RingOK, Constants DEF RingOK, Constants, freeEnd
<1>5. enqueuePos \in enqueuePos .. freeEnd - 1
  BY ONLY <1>3, <1>4
<1>6. seq[cell(enqueuePos)] = enqueuePos
  BY ONLY Ring, <1>2, <1>5 DEF Ring
<1> QED
  BY ONLY <1>1, <1>2, <1>3, <1>6

\* Every step keeps what the cells' sequence numbers say.
LEMMA RingKept ==
  ASSUME Constants, RingOK, ProducersOK, ThreadsOK, Control, Ring, Owners, Seen, [AsyncNext]_asyncVars
  PROVE  Ring'
<1> USE DEF RingOK, ThreadsOK, Constants, Control, Ring, freeEnd
<1>1. ASSUME NEW p \in Producers, Local(p) PROVE Ring'
  <2>1. UNCHANGED <<seq, enqueuePos, dequeuePos, apc, dpc>>
    BY <1>1, LocalFrame
  <2> QED
    BY <2>1
<1>2. ASSUME NEW p \in Producers, LogSync(p) PROVE Ring'
  BY <1>2 DEF LogSync, ring
<1>3. ASSUME NEW p \in Producers, PushClaim(p) PROVE Ring'
  <2>1. enqueuePos < freeEnd /\ seq[cell(enqueuePos)] = enqueuePos /\ apc # "off"
    BY ONLY <1>3, ClaimFindsFree, Constants, RingOK, ThreadsOK, Control, Ring, Seen
  <2>2. enqueuePos' = enqueuePos + 1 /\ UNCHANGED <<seq, dequeuePos, apc, dpc>>
    BY ONLY <1>3 DEF PushClaim
  <2>3. enqueuePos \in Nat /\ dequeuePos \in Nat /\ freeEnd \in Int /\ freeEnd' = freeEnd
    BY ONLY RingOK, Constants, <2>2 DEF RingOK, Constants, freeEnd
  <2>4. dequeuePos' <= enqueuePos' /\ enqueuePos' <= freeEnd'
    BY ONLY Ring, <2>1, <2>2, <2>3 DEF Ring
  <2>5. ASSUME NEW j \in dequeuePos .. enqueuePos PROVE seq[cell(j)] \in {j, j + 1}
    <3>1. j \in dequeuePos .. enqueuePos - 1 \/ j = enqueuePos
      BY ONLY <2>3, <2>5
    <3> QED
      BY ONLY Ring, <2>1, <3>1 DEF Ring
  <2>6. ASSUME NEW j \in enqueuePos + 1 .. freeEnd - 1 PROVE seq[cell(j)] = j
    <3>1. j \in enqueuePos .. freeEnd - 1
      BY ONLY <2>3, <2>6
    <3> QED
      BY ONLY Ring, <2>1, <3>1 DEF Ring
  <2>7. dequeuePos' .. enqueuePos' - 1 = dequeuePos .. enqueuePos
    BY ONLY <2>2, <2>3
  <2>8. dpc' = "release" => dequeuePos' > 0 /\ seq'[cell(dequeuePos' - 1)] = dequeuePos'
    BY ONLY Ring, <2>2 DEF Ring
  <2> QED
    BY ONLY <2>2, <2>3, <2>4, <2>5, <2>6, <2>7, <2>8 DEF Ring
<1>4. ASSUME NEW p \in Producers, PushPublish(p) PROVE Ring'
  <2> DEFINE k == pos[p]
  <2>1. k \in Nat /\ dequeuePos <= k /\ k < enqueuePos /\ cell(k) \in Cells
    BY <1>4, CellType DEF PushPublish, goto, Owners, ProducersOK
  <2>2. /\ seq' = [seq EXCEPT ![cell(k)] = k + 1]
        /\ UNCHANGED <<enqueuePos, dequeuePos, dpc, apc>>
    BY <1>4 DEF PushPublish
  <2> HIDE DEF k
  <2>3. ASSUME NEW j \in Nat, dequeuePos - 1 <= j, j < freeEnd, j # k, j >= dequeuePos \/ dpc = "release"
        PROVE  seq'[cell(j)] = seq[cell(j)]
    <3>1. cell(j) \in Cells
      BY CellType
    <3>2. cell(j) # cell(k)
      BY <2>1, <2>3, CellApart
    <3> QED
      BY <2>2, <3>1, <3>2
  <2>4. seq'[cell(k)] = k + 1
    BY <2>1, <2>2
  <2>5. \A j \in dequeuePos .. enqueuePos - 1 : seq'[cell(j)] \in {j, j + 1}
    BY <2>1, <2>3, <2>4
  <2>6. dpc = "release" => seq'[cell(dequeuePos - 1)] = dequeuePos
    BY <2>1, <2>3
  <2>7. ASSUME apc # "off", NEW j \in enqueuePos .. freeEnd - 1 PROVE seq'[cell(j)] = j
    <3>1. j \in Nat /\ dequeuePos <= j /\ j < freeEnd /\ j # k
      BY ONLY RingOK, Constants, Ring, <2>1, <2>7 DEF RingOK, Constants, Ring, freeEnd
    <3>2. seq'[cell(j)] = seq[cell(j)]
      BY ONLY RingOK, <2>3, <3>1 DEF RingOK
    <3> QED
      BY ONLY Ring, <2>7, <3>2 DEF Ring
  <2>8. freeEnd' = freeEnd
    BY ONLY <2>2 DEF freeEnd
  <2> QED
    BY ONLY Ring, <2>2, <2>5, <2>6, <2>7, <2>8 DEF Ring
<1>5. CASE PopClaim
  <2>1. dequeuePos < enqueuePos
    BY <1>5, PopFinds
  <2>2. /\ dpc = "pop" /\ dpc' = "release" /\ seq[cell(dequeuePos)] = dequeuePos + 1
        /\ dequeuePos' = dequeuePos + 1 /\ UNCHANGED <<seq, enqueuePos, apc>>
    BY ONLY <1>5 DEF PopClaim
  <2>3. /\ dequeuePos \in Nat /\ enqueuePos \in Nat /\ dequeuePos' - 1 = dequeuePos
        /\ freeEnd' = freeEnd
    BY ONLY RingOK, Constants, <2>2 DEF RingOK, Constants, freeEnd
  <2>4. dequeuePos' <= enqueuePos' /\ dequeuePos' > 0
    BY ONLY <2>1, <2>2, <2>3
  <2>5. dequeuePos' .. enqueuePos' - 1 \subseteq dequeuePos .. enqueuePos - 1
    BY ONLY <2>2, <2>3
  <2> QED
    BY ONLY Ring, <2>2, <2>3, <2>4, <2>5 DEF Ring
<1>6. CASE PopRelease
  <2> DEFINE k == dequeuePos - 1
  <2>1. k \in Nat /\ cell(k) \in Cells /\ enqueuePos <= k + Size /\ apc # "off"
    BY <1>6, CellType DEF PopRelease
  <2>2. /\ seq' = [seq EXCEPT ![cell(k)] = k + Size] /\ dpc = "release" /\ dpc' = "write"
        /\ UNCHANGED <<enqueuePos, dequeuePos, apc>>
    BY <1>6 DEF PopRelease
  <2>3. ASSUME NEW j \in Nat, k < j, j < k + Size
        PROVE  seq'[cell(j)] = seq[cell(j)]
    <3>1. cell(j) \in Cells /\ cell(j) # cell(k)
      BY <2>1, <2>3, CellType, CellApart
    <3> QED
      BY <2>2, <3>1
  <2>4. seq'[cell(k + Size)] = k + Size
    BY <2>1, <2>2, CellAgain
  <2>5. \A j \in dequeuePos .. enqueuePos - 1 : seq'[cell(j)] \in {j, j + 1}
    BY <2>1, <2>3
  <2>6. \A j \in enqueuePos .. dequeuePos + Size - 1 : seq'[cell(j)] = j
    <3> TAKE j \in enqueuePos .. dequeuePos + Size - 1
    <3>1. CASE j = k + Size
      BY <2>4, <3>1
    <3>2. CASE j # k + Size
      BY <2>1, <2>2, <2>3, <3>2
    <3> QED
      BY <3>1, <3>2
  <2> QED
    BY <2>1, <2>2, <2>5, <2>6
<1>7. CASE EmitRecord
  BY <1>7 DEF EmitRecord, ring
<1>8. CASE Start
  <2>1. /\ seq' = [i \in Cells |-> i] /\ enqueuePos' = 0 /\ dequeuePos' = 0 /\ dpc = "off" /\ dpc' = "off"
    BY <1>8 DEF Start, RingInit
  <2>2. ASSUME NEW j \in 0 .. Size - 1 PROVE seq'[cell(j)] = j
    <3>1. j % Size = j
      BY DivMod
    <3> QED
      BY <2>1, <3>1 DEF Cells, cell
  <2>3. freeEnd' = Size /\ dpc' # "release"
    BY ONLY <2>1, Constants DEF freeEnd, Constants
  <2>4. 0 .. -1 = {} /\ 0 - 1 = -1 /\ 0 <= Size
    BY ONLY Constants DEF Constants
  <2> QED
    BY ONLY <2>1, <2>2, <2>3, <2>4 DEF Ring
<1>9. CASE Quiet
  BY <1>9 DEF Quiet, ring
<1> QED
  BY <1>1, <1>2, <1>3, <1>4, <1>5, <1>6, <1>7, <1>8, <1>9, StepKinds

\* Every step keeps the ownership of the claimed cells.
LEMMA OwnersKept ==
  ASSUME Constants, RingOK, ProducersOK, ThreadsOK, Control, Ring, Owners, Seen, [AsyncNext]_asyncVars
  PROVE  Owners'
<1> USE DEF RingOK, ProducersOK, ThreadsOK, Constants, Owners
<1>1. ASSUME NEW p \in Producers, Local(p) PROVE Owners'
  <2>1. UNCHANGED <<seq, enqueuePos, dequeuePos>>
    BY <1>1, LocalFrame
  <2>2. ppc'[p] # "copy" /\ \A q \in Producers \ {p} : ppc'[q] = ppc[q] /\ pos'[q] = pos[q]
    BY <1>1, LocalSteps
  <2>3. \A q \in Producers : ppc'[q] = "copy" => ppc[q] = "copy" /\ pos'[q] = pos[q]
    BY ONLY <2>2, Zenon
  <2> QED
    BY ONLY Owners, <2>1, <2>3, Zenon DEF Owners
<1>2. ASSUME NEW p \in Producers, LogSync(p) PROVE Owners'
  BY <1>2 DEF LogSync, ring
<1>3. ASSUME NEW p \in Producers, PushClaim(p) PROVE Owners'
  <2>1. seq[cell(enqueuePos)] = enqueuePos /\ pos[p] = enqueuePos
    BY ONLY <1>3, ClaimFindsFree, Constants, RingOK, ThreadsOK, Control, Ring, Seen
  <2>2. /\ enqueuePos' = enqueuePos + 1 /\ UNCHANGED <<seq, dequeuePos, pos>>
        /\ ppc' = [ppc EXCEPT ![p] = "copy"]
    BY ONLY <1>3 DEF PushClaim, goto
  <2>3. dequeuePos <= enqueuePos
    BY ONLY Ring DEF Ring
  <2>4. \A q \in Producers : q # p => ppc'[q] = ppc[q]
    BY ONLY ProducersOK, <2>2 DEF ProducersOK
  <2> QED
    BY ONLY Owners, RingOK, ProducersOK, <2>1, <2>2, <2>3, <2>4 DEF Owners, RingOK, ProducersOK
<1>4. ASSUME NEW p \in Producers, PushPublish(p) PROVE Owners'
  <2>1. ASSUME NEW q \in Producers, ppc[q] = "copy", q # p PROVE seq'[cell(pos[q])] = seq[cell(pos[q])]
    <3>1. cell(pos[p]) \in Cells /\ cell(pos[q]) \in Cells
      BY CellType
    <3>2. /\ dequeuePos <= pos[p] /\ pos[p] < enqueuePos /\ dequeuePos <= pos[q] /\ pos[q] < enqueuePos
          /\ pos[p] # pos[q] /\ enqueuePos <= dequeuePos + Size
      <4>1. ppc[p] = "copy"
        BY ONLY <1>4 DEF PushPublish, goto
      <4>2. enqueuePos <= dequeuePos + Size
        BY ONLY Ring, RingOK, Constants DEF Ring, freeEnd, RingOK, Constants
      <4> QED
        BY ONLY Owners, <2>1, <4>1, <4>2, p \in Producers DEF Owners
    <3>3. cell(pos[p]) # cell(pos[q])
      <4>1. pos[p] \in Nat /\ pos[q] \in Nat
        BY ONLY ProducersOK, <2>1, p \in Producers DEF ProducersOK
      <4>2. /\ pos[p] < pos[q] \/ pos[q] < pos[p]
            /\ pos[p] < pos[q] + Size /\ pos[q] < pos[p] + Size
        BY ONLY Constants, RingOK, <3>2, <4>1 DEF Constants, RingOK
      <4> QED
        BY ONLY Constants, CellApart, <4>1, <4>2, Zenon
    <3> QED
      BY <1>4, <3>1, <3>3 DEF PushPublish
  <2> QED
    BY <1>4, <2>1 DEF PushPublish, goto, finishes
<1>5. CASE PopClaim
  <2>1. /\ seq[cell(dequeuePos)] = dequeuePos + 1 /\ dequeuePos' = dequeuePos + 1
        /\ UNCHANGED <<seq, enqueuePos, ppc, pos>>
    BY ONLY <1>5 DEF PopClaim, producer
  <2>2. ASSUME NEW q \in Producers, ppc[q] = "copy" PROVE dequeuePos + 1 <= pos[q]
    <3>1. dequeuePos <= pos[q] /\ seq[cell(pos[q])] = pos[q]
      BY ONLY Owners, <2>2 DEF Owners
    <3>2. dequeuePos \in Nat /\ pos[q] \in Nat
      BY ONLY RingOK, ProducersOK, <2>2 DEF RingOK, ProducersOK
    <3>3. dequeuePos # pos[q]
      BY ONLY <2>1, <3>1, <3>2
    <3> QED
      BY ONLY <3>1, <3>2, <3>3
  <2> QED
    BY ONLY Owners, <2>1, <2>2 DEF Owners
<1>6. CASE PopRelease
  <2>1. ASSUME NEW q \in Producers, ppc[q] = "copy" PROVE seq'[cell(pos[q])] = seq[cell(pos[q])]
    <3>0. /\ dequeuePos \in Nat /\ dequeuePos > 0 /\ enqueuePos \in Nat /\ Size \in Nat
          /\ enqueuePos <= dequeuePos - 1 + Size
      <4>1. dpc = "release"
        BY ONLY <1>6 DEF PopRelease
      <4> QED
        BY ONLY Ring, RingOK, Constants, <4>1 DEF Ring, freeEnd, RingOK, Constants
    <3>1. dequeuePos - 1 \in Nat /\ cell(dequeuePos - 1) \in Cells /\ cell(pos[q]) \in Cells
      <4>1. dequeuePos - 1 \in Nat
        BY ONLY <3>0
      <4>2. pos[q] \in Nat
        BY ONLY ProducersOK, <2>1 DEF ProducersOK
      <4> QED
        BY ONLY Constants, CellType, <4>1, <4>2, Zenon
    <3>2. dequeuePos - 1 < pos[q] /\ pos[q] < dequeuePos - 1 + Size
      <4>1. dequeuePos <= pos[q] /\ pos[q] < enqueuePos /\ pos[q] \in Nat
        BY ONLY Owners, ProducersOK, <2>1 DEF Owners, ProducersOK
      <4> QED
        BY ONLY <3>0, <4>1
    <3>3. cell(dequeuePos - 1) # cell(pos[q])
      BY <3>1, <3>2, CellApart
    <3> QED
      BY <1>6, <3>1, <3>3 DEF PopRelease
  <2> QED
    BY <1>6, <2>1 DEF PopRelease, producer
<1>7. CASE EmitRecord
  BY <1>7 DEF EmitRecord, ring, producer
<1>8. CASE Start
  BY <1>8 DEF Start, producer, Control
<1>9. CASE Quiet
  BY <1>9 DEF Quiet, ring, producer
<1> QED
  BY <1>1, <1>2, <1>3, <1>4, <1>5, <1>6, <1>7, <1>8, <1>9, StepKinds, Zenon

\* Every step keeps what the producers have seen.
LEMMA SeenKept ==
  ASSUME Constants, RingOK, ProducersOK, ThreadsOK, Control, Ring, Seen, [AsyncNext]_asyncVars
  PROVE  Seen'
<1> USE DEF RingOK, ProducersOK, ThreadsOK, Constants, Seen, freeEnd
<1>1. ASSUME NEW p \in Producers, Local(p) PROVE Seen'
  <2>1. UNCHANGED <<seq, enqueuePos, dequeuePos, dpc>>
    BY <1>1, LocalFrame
  <2>2. CASE LogAsync(p)
    BY <2>2, <2>1 DEF LogAsync, goto
  <2>3. CASE Drop(p)
    <3>1. ppc' = [ppc EXCEPT ![p] = "idle"] /\ pos' = [pos EXCEPT ![p] = 0]
      BY <2>3 DEF Drop, goto, finishes
    <3> QED
      BY <2>1, <3>1
  <2>4. CASE PushLoadPos(p)
    <3>1. ppc' = [ppc EXCEPT ![p] = "seq"] /\ pos' = [pos EXCEPT ![p] = enqueuePos]
      BY <2>4 DEF PushLoadPos, goto
    <3> QED
      BY <2>1, <3>1
  <2>5. CASE PushFindFree(p)
    <3>1. pos[p] = enqueuePos => enqueuePos < freeEnd
      <4>0. enqueuePos \in Nat /\ freeEnd \in Int /\ enqueuePos <= freeEnd
        BY ONLY RingOK, Constants, Ring DEF RingOK, Constants, Ring, freeEnd
      <4> SUFFICES ASSUME pos[p] = enqueuePos, enqueuePos = freeEnd PROVE FALSE
        BY <4>0
      <4>1. seq[cell(enqueuePos)] = enqueuePos
        BY <2>5 DEF PushFindFree
      <4>2. CASE dpc = "release"
        <5>1. cell(enqueuePos) = cell(dequeuePos - 1) /\ seq[cell(dequeuePos - 1)] = dequeuePos
          <6>1. dequeuePos - 1 \in Nat /\ seq[cell(dequeuePos - 1)] = dequeuePos
            BY ONLY Ring, RingOK, <4>2 DEF Ring, RingOK
          <6>2. cell(dequeuePos - 1 + Size) = cell(dequeuePos - 1)
            BY ONLY Constants, CellAgain, <6>1
          <6> QED
            BY ONLY <4>2, <6>1, <6>2, enqueuePos = freeEnd DEF freeEnd
        <5> QED
          BY <4>1, <4>2, <5>1
      <4>3. CASE dpc # "release"
        <5>1. cell(enqueuePos) = cell(dequeuePos) /\ seq[cell(dequeuePos)] \in {dequeuePos, dequeuePos + 1}
          BY <4>3, CellAgain DEF Ring
        <5> QED
          BY <4>1, <4>3, <5>1
      <4> QED
        BY <4>2, <4>3
    <3> QED
      BY <2>5, <3>1 DEF PushFindFree, goto, ring
  <2> QED
    BY <1>1, <2>2, <2>3, <2>4, <2>5, Zenon DEF Local
<1>2. ASSUME NEW p \in Producers, LogSync(p) PROVE Seen'
  BY <1>2 DEF LogSync, ring
<1>3. ASSUME NEW p \in Producers, PushClaim(p) PROVE Seen'
  BY <1>3 DEF PushClaim, goto
<1>4. ASSUME NEW p \in Producers, PushPublish(p) PROVE Seen'
  BY <1>4 DEF PushPublish, goto, finishes
<1>5. CASE PopClaim
  BY <1>5 DEF PopClaim, producer
<1>6. CASE PopRelease
  BY <1>6 DEF PopRelease, producer
<1>7. CASE EmitRecord
  BY <1>7 DEF EmitRecord, ring, producer
<1>8. CASE Start
  BY <1>8 DEF Start, producer, Control
<1>9. CASE Quiet
  BY <1>9 DEF Quiet, ring, producer
<1> QED
  BY <1>1, <1>2, <1>3, <1>4, <1>5, <1>6, <1>7, <1>8, <1>9, StepKinds, Zenon

--------------------------------------------------------------------------
\* What Append adds to a sequence's elements.
LEMMA RangeAppend ==
  ASSUME NEW S, NEW s \in Seq(S), NEW x \in S
  PROVE  Range(Append(s, x)) = Range(s) \cup {x}
<1> DEFINE t == Append(s, x)
<1>1. /\ DOMAIN t = 1 .. Len(s) + 1 /\ DOMAIN s = 1 .. Len(s) /\ Len(s) \in Nat
      /\ \A i \in 1 .. Len(s) : t[i] = s[i]
      /\ t[Len(s) + 1] = x
  OBVIOUS
<1> HIDE DEF t
<1>2. ASSUME NEW y \in Range(t) PROVE y \in Range(s) \cup {x}
  BY <1>1 DEF Range
<1>3. ASSUME NEW y \in Range(s) PROVE y \in Range(t)
  BY <1>1 DEF Range
<1>4. x \in Range(t)
  BY <1>1 DEF Range
<1>5. Range(t) = Range(s) \cup {x}
  BY <1>2, <1>3, <1>4
<1> QED
  BY <1>5 DEF t

\* What is written when a record is.
LEMMA OutputGrows ==
  ASSUME HistoryOK, NEW x \in Records, output' = Append(output, x)
  PROVE  Range(output') = Range(output) \cup {x}
<1>1. output \in Seq(Records)
  BY DEF HistoryOK
<1>2. Range(Append(output, x)) = Range(output) \cup {x}
  BY ONLY <1>1, x \in Records, RangeAppend
<1> QED
  BY ONLY <1>2, output' = Append(output, x)

\* A record that is written by its producer is a new one.
LEMMA SyncRecord ==
  ASSUME Constants, ProducersOK, NEW p \in Producers, LogSync(p)
  PROVE  /\ <<p, logged'>> \in Records /\ output' = Append(output, <<p, logged'>>)
         /\ logged' = logged + 1 /\ ppc[p] = "idle" /\ ~ringReady
<1>1. /\ logged < MaxRecords /\ logged' = logged + 1 /\ ppc[p] = "idle" /\ ~ringReady
      /\ output' = Append(output, <<p, logged'>>)
  BY ONLY LogSync(p) DEF LogSync, logs
<1>2. logged' \in 1 .. MaxRecords
  BY ONLY <1>1, Constants, ProducersOK DEF Constants, ProducersOK
<1> QED
  BY ONLY <1>1, <1>2, p \in Producers DEF Records

\* A record behind those of its producer can be written.
LEMMA OrderedAppend ==
  ASSUME NEW S, NEW s \in Seq(S), NEW x \in S, Ordered(s), Behind(s, x)
  PROVE  Ordered(Append(s, x))
<1> DEFINE t == Append(s, x)
<1>1. /\ DOMAIN t = 1 .. Len(s) + 1 /\ DOMAIN s = 1 .. Len(s) /\ Len(s) \in Nat
      /\ \A i \in 1 .. Len(s) : t[i] = s[i] /\ s[i] \in Range(s)
      /\ t[Len(s) + 1] = x
  BY DEF Range
<1> HIDE DEF t
<1>2. ASSUME NEW i \in DOMAIN t, NEW j \in DOMAIN t, i < j, t[i][1] = t[j][1]
      PROVE  t[i][2] < t[j][2]
  <2>1. CASE j = Len(s) + 1
    BY <1>1, <1>2, <2>1 DEF Behind
  <2>2. CASE j # Len(s) + 1
    <3>1. i \in 1 .. Len(s) /\ j \in 1 .. Len(s)
      BY ONLY <1>1, <1>2, <2>2
    <3>2. t[i] = s[i] /\ t[j] = s[j] /\ i \in DOMAIN s /\ j \in DOMAIN s
      BY ONLY <1>1, <3>1, Zenon
    <3> QED
      BY ONLY <1>2, <3>2, Ordered(s), Zenon DEF Ordered
  <2> QED
    BY <2>1, <2>2
<1>3. Ordered(t)
  BY <1>2 DEF Ordered
<1> QED
  BY <1>3 DEF t

\* The queue is what the published positions hold.
LEMMA QueuedIs == queued = {rec[cell(j)] : j \in published}
BY DEF queued, published

\* Steps that leave the ring alone leave its records.
LEMMA RingSame ==
  ASSUME UNCHANGED ring
  PROVE  published' = published /\ rec' = rec
BY DEF ring, published

\* A claimed cell is not published.
LEMMA ClaimSame ==
  ASSUME Constants, RingOK, ProducersOK, ThreadsOK, Control, Ring, Seen, NEW p \in Producers,
         PushClaim(p)
  PROVE  published' = published /\ rec' = rec
<1>2. seq[cell(enqueuePos)] = enqueuePos
  BY ClaimFindsFree
<1>3. UNCHANGED <<seq, rec, dequeuePos>> /\ enqueuePos' = enqueuePos + 1
  BY DEF PushClaim
<1>4. ASSUME NEW j \in dequeuePos .. enqueuePos PROVE j \in dequeuePos .. enqueuePos - 1 \/ j = enqueuePos
  BY DEF RingOK
<1>5. ASSUME NEW j PROVE j \in published' <=> j \in published
  BY <1>2, <1>3, <1>4 DEF published, RingOK, Ring
<1> QED
  BY <1>3, <1>5, Zenon

\* The cell that is released was not published any more.
LEMMA ReleaseSame ==
  ASSUME Constants, RingOK, ThreadsOK, Ring, PopRelease
  PROVE  published' = published /\ rec' = rec
<1> DEFINE k == dequeuePos - 1
<1>1. k \in Nat /\ cell(k) \in Cells /\ enqueuePos <= k + Size
  BY CellType DEF PopRelease, Ring, freeEnd, RingOK
<1>2. seq' = [seq EXCEPT ![cell(k)] = k + Size] /\ UNCHANGED <<rec, enqueuePos, dequeuePos>>
  BY DEF PopRelease
<1>3. ASSUME NEW j \in dequeuePos .. enqueuePos - 1 PROVE seq'[cell(j)] = seq[cell(j)]
  <2>1. j \in Nat /\ k < j /\ j < k + Size
    BY <1>1 DEF RingOK, Constants
  <2>2. cell(j) \in Cells /\ cell(j) # cell(k)
    BY <1>1, <2>1, CellType, CellApart
  <2> QED
    BY <1>2, <2>2 DEF RingOK
<1> QED
  BY <1>2, <1>3 DEF published

\* The ring is empty when it is set up.
LEMMA StartSame ==
  ASSUME Control, Start
  PROVE  published' = published /\ rec' = rec
BY DEF Control, Start, RingInit, published

\* PushPublish adds its record to the queue and no other.
LEMMA PublishAdds ==
  ASSUME Constants, RingOK, ProducersOK, ThreadsOK, Ring, Owners, NEW p \in Producers, PushPublish(p)
  PROVE  /\ pos[p] \in Nat /\ pos[p] \notin published /\ published' = published \cup {pos[p]}
         /\ rec'[cell(pos[p])] = record(p) /\ \A j \in published : rec'[cell(j)] = rec[cell(j)]
<1> DEFINE k == pos[p]
<1>1. k \in Nat /\ dequeuePos <= k /\ k < enqueuePos /\ cell(k) \in Cells /\ seq[cell(k)] = k
  BY CellType DEF PushPublish, goto, Owners, ProducersOK
<1>2. /\ seq' = [seq EXCEPT ![cell(k)] = k + 1] /\ rec' = [rec EXCEPT ![cell(k)] = record(p)]
      /\ UNCHANGED <<enqueuePos, dequeuePos>>
  BY DEF PushPublish
<1> HIDE DEF k
<1>3. ASSUME NEW j \in dequeuePos .. enqueuePos - 1, j # k
      PROVE  seq'[cell(j)] = seq[cell(j)] /\ rec'[cell(j)] = rec[cell(j)]
  <2>1. j \in Nat /\ j < k + Size /\ k < j + Size
    BY <1>1 DEF RingOK, Constants, Ring, freeEnd
  <2>2. cell(j) \in Cells
    BY <2>1, CellType
  <2>3. cell(j) # cell(k)
    BY <1>1, <1>3, <2>1, CellApart
  <2> QED
    BY <1>2, <2>2, <2>3 DEF RingOK
<1>4. seq'[cell(k)] = k + 1 /\ rec'[cell(k)] = record(p)
  BY <1>1, <1>2 DEF RingOK
<1>5. k \in dequeuePos .. enqueuePos - 1
  BY <1>1 DEF RingOK
<1>6. k \notin published
  BY <1>1 DEF published
<1>7. ASSUME NEW j PROVE j \in published' <=> j \in published \cup {k}
  BY <1>2, <1>3, <1>4, <1>5 DEF published
<1>8. \A j \in published : rec'[cell(j)] = rec[cell(j)]
  BY <1>3, <1>6, Zenon DEF published
<1> QED
  BY <1>1, <1>4, <1>6, <1>7, <1>8 DEF k

\* PopClaim takes the first record of the queue.
LEMMA PopTakes ==
  ASSUME Constants, RingOK, ThreadsOK, Control, Ring, PopClaim
  PROVE  /\ dequeuePos \in published /\ published' = published \ {dequeuePos} /\ rec' = rec
         /\ \A j \in published : j \in Nat /\ dequeuePos <= j
<1>1. dequeuePos \in published
  BY PopFinds
<1>2. UNCHANGED <<seq, rec, enqueuePos>> /\ dequeuePos' = dequeuePos + 1
  BY DEF PopClaim
<1> QED
  BY <1>1, <1>2 DEF published, RingOK

--------------------------------------------------------------------------
\* None of the records of a producer that has something to log reaches its number.
LEMMA OwnRecordIsNew ==
  ASSUME ProducersOK, HistoryOK, Numbers, NEW p \in Producers, ppc[p] # "idle"
  PROVE  /\ record(p) \notin accepted /\ Behind(output, record(p))
         /\ \A r \in accepted : r[1] = p => r[2] < num[p]
<1>1. ASSUME NEW r \in accepted \cup Range(output), r[1] = p PROVE r[2] < num[p]
  BY <1>1 DEF Numbers
<1>2. record(p)[1] = p /\ record(p)[2] = num[p]
  BY DEF record
<1>3. num[p] \in Int
  BY DEF ProducersOK
<1>4. record(p) \notin accepted
  BY <1>1, <1>2, <1>3
<1> QED
  BY <1>1, <1>2, <1>4 DEF Behind

\* What is known of the elements of the history.
LEMMA HistoryElements ==
  ASSUME HistoryOK, NEW r \in accepted \cup Range(output)
  PROVE  r \in Records /\ r[1] \in Producers /\ r[2] \in Int
<1>1. r \in Records
  BY DEF HistoryOK, Range
<1> QED
  BY <1>1 DEF Records

\* Every step keeps the numbers of the records behind those to come.
LEMMA NumbersKept ==
  ASSUME Constants, RingOK, ProducersOK, ThreadsOK, HistoryOK, Numbers, Control, [AsyncNext]_asyncVars
  PROVE  Numbers'
<1> USE HistoryElements DEF ProducersOK, Numbers
<1>1. ASSUME NEW p \in Producers, Local(p) PROVE Numbers'
  <2>1. UNCHANGED <<output, accepted>>
    BY <1>1, LocalFrame
  <2>2. CASE LogAsync(p)
    <3>1. /\ logged' = logged + 1 /\ num' = [num EXCEPT ![p] = logged']
          /\ ppc' = [ppc EXCEPT ![p] = "enqueue"] /\ UNCHANGED <<accepted, output>>
      BY <2>2 DEF LogAsync, logs, goto
    <3> QED
      BY <3>1
  <2>3. CASE Drop(p)
    <3>1. /\ ppc' = [ppc EXCEPT ![p] = "idle"] /\ num' = [num EXCEPT ![p] = 0]
          /\ UNCHANGED <<logged, accepted, output>>
      BY <2>3 DEF Drop, goto, finishes
    <3>2. /\ ppc'[p] = "idle" /\ num'[p] = 0 /\ 0 <= logged
          /\ \A q \in Producers : q # p => ppc'[q] = ppc[q] /\ num'[q] = num[q]
      BY ONLY <3>1, ProducersOK, p \in Producers DEF ProducersOK
    <3>3. \A r \in accepted \cup Range(output) : r[1] \in Producers
      BY ONLY HistoryElements, HistoryOK
    <3> QED
      BY ONLY Numbers, <3>1, <3>2, <3>3, Zenon DEF Numbers
  <2>4. CASE PushLoadPos(p)
    <3>1. ppc[p] # "idle" /\ ppc' = [ppc EXCEPT ![p] = "seq"] /\ UNCHANGED <<num, logged, accepted, output>>
      BY <2>4 DEF PushLoadPos, goto
    <3> QED
      BY <3>1
  <2>5. CASE PushFindFree(p)
    <3>1. /\ ppc[p] # "idle" /\ ppc' = [ppc EXCEPT ![p] = "claim"]
          /\ UNCHANGED <<num, logged, accepted, output>>
      BY <2>5 DEF PushFindFree, goto
    <3> QED
      BY <3>1
  <2> QED
    BY <1>1, <2>2, <2>3, <2>4, <2>5 DEF Local
<1>2. ASSUME NEW p \in Producers, LogSync(p) PROVE Numbers'
  <2>1. /\ logged' = logged + 1 /\ ppc[p] = "idle" /\ UNCHANGED <<num, ppc, accepted>>
        /\ <<p, logged'>> \in Records /\ output' = Append(output, <<p, logged'>>)
    BY <1>2, SMTT(20) DEF LogSync, logs, Records, Constants, ProducersOK
  <2>2. Range(output') = Range(output) \cup {<<p, logged'>>}
    <3>1. output \in Seq(Records)
      BY DEF HistoryOK
    <3> QED
      BY ONLY <2>1, <3>1, RangeAppend
  <2>3. ASSUME NEW r \in accepted' \cup Range(output')
        PROVE  r[2] <= logged' /\ (ppc'[r[1]] # "idle" => r[2] < num'[r[1]])
    <3>1. CASE r = <<p, logged'>>
      BY <2>1, <3>1, SMTT(20)
    <3>2. CASE r \in accepted \cup Range(output)
      BY <2>1, <3>2, SMTT(20)
    <3>3. r = <<p, logged'>> \/ r \in accepted \cup Range(output)
      BY ONLY <2>1, <2>2, <2>3, Zenon
    <3> QED
      BY ONLY <3>1, <3>2, <3>3, Zenon
  <2>4. \A q \in Producers : num'[q] <= logged' /\ (ppc'[q] # "idle" => num'[q] > 0)
    BY <2>1
  <2> QED
    BY ONLY <2>3, <2>4 DEF Numbers
<1>3. ASSUME NEW p \in Producers, PushClaim(p) PROVE Numbers'
  <2>1. ppc[p] # "idle" /\ ppc' = [ppc EXCEPT ![p] = "copy"] /\ UNCHANGED <<num, logged, accepted, output>>
    BY <1>3 DEF PushClaim, goto
  <2> QED
    BY <2>1
<1>4. ASSUME NEW p \in Producers, PushPublish(p) PROVE Numbers'
  <2>1. /\ ppc' = [ppc EXCEPT ![p] = "idle"] /\ num' = [num EXCEPT ![p] = 0]
        /\ accepted' = accepted \cup {<<p, num[p]>>} /\ UNCHANGED <<logged, output>>
    BY <1>4 DEF PushPublish, goto, finishes, record
  <2> QED
    BY <2>1
<1>5. CASE PopClaim
  BY <1>5, Zenon DEF PopClaim, producer
<1>6. CASE PopRelease
  BY <1>6 DEF PopRelease, producer
<1>7. CASE EmitRecord
  <2>1. dst \in accepted /\ output' = Append(output, dst) /\ UNCHANGED <<accepted, num, ppc, logged>>
    BY <1>7 DEF EmitRecord, producer, Control
  <2>2. Range(output') = Range(output) \cup {dst}
    <3>1. dst \in Records
      BY ONLY <2>1, HistoryOK DEF HistoryOK
    <3> QED
      BY ONLY <2>1, <3>1, HistoryOK, OutputGrows
  <2> QED
    BY <2>1, <2>2
<1>8. CASE Start
  BY <1>8 DEF Start, producer
<1>9. CASE Quiet
  BY <1>9 DEF Quiet, producer
<1> QED
  BY <1>1, <1>2, <1>3, <1>4, <1>5, <1>6, <1>7, <1>8, <1>9, StepKinds, Zenon

\* Every step keeps the accepted records in the queue, in drain()'s hands or in the output.
LEMMA QueueKept ==
  ASSUME Constants, RingOK, ProducersOK, ThreadsOK, HistoryOK, Control, Ring, Owners, Seen, Numbers,
         Queue, [AsyncNext]_asyncVars
  PROVE  Queue'
<1> USE DEF Queue
<1>1. ASSUME NEW p \in Producers, Local(p) PROVE Queue'
  <2>1. published' = published /\ rec' = rec /\ UNCHANGED <<accepted, dst, output>>
    BY <1>1, LocalFrame, RingSame, Zenon DEF ring
  <2>2. ppc'[p] # "copy" /\ \A q \in Producers \ {p} : ppc'[q] = ppc[q] /\ pos'[q] = pos[q]
    BY <1>1, LocalSteps
  <2> QED
    BY <2>1, <2>2, Zenon
<1>2. ASSUME NEW p \in Producers, LogSync(p) PROVE Queue'
  <2>1. published' = published /\ rec' = rec /\ UNCHANGED <<accepted, dst, ppc, pos>>
    BY <1>2, RingSame DEF LogSync
  <2>2. <<p, logged'>> \in Records /\ output' = Append(output, <<p, logged'>>)
    BY ONLY <1>2, Constants, ProducersOK, SyncRecord
  <2>3. Range(output) \subseteq Range(output')
    BY ONLY <2>2, HistoryOK, OutputGrows
  <2> QED
    BY <2>1, <2>3
<1>3. ASSUME NEW p \in Producers, PushClaim(p) PROVE Queue'
  <2>1. /\ published' = published /\ rec' = rec /\ ppc' = [ppc EXCEPT ![p] = "copy"] /\ pos[p] = enqueuePos
        /\ UNCHANGED <<accepted, dst, output, pos>>
    BY <1>3, ClaimSame, Zenon DEF PushClaim, goto
  <2>2. \A j \in published : j < enqueuePos
    BY ONLY RingOK DEF published, RingOK
  <2>3. ASSUME NEW q \in Producers, NEW j \in published, ppc'[q] = "copy", rec[cell(j)][1] = q
        PROVE  j < pos[q]
    <3>1. CASE q = p
      BY ONLY <2>1, <2>2, <2>3, <3>1, Zenon
    <3>2. CASE q # p
      <4>1. ppc[q] = "copy"
        BY ONLY ProducersOK, <2>1, <2>3, <3>2 DEF ProducersOK
      <4> QED
        BY ONLY Queue, <2>3, <4>1, Zenon DEF Queue
    <3> QED
      BY <3>1, <3>2
  <2> QED
    BY ONLY Queue, <2>1, <2>3, Zenon DEF Queue
<1>4. ASSUME NEW p \in Producers, PushPublish(p) PROVE Queue'
  <2>1. /\ pos[p] \in Nat /\ published' = published \cup {pos[p]} /\ rec'[cell(pos[p])] = record(p)
        /\ \A j \in published : rec'[cell(j)] = rec[cell(j)]
    BY <1>4, PublishAdds, Zenon
  <2>2. /\ accepted' = accepted \cup {record(p)} /\ ppc[p] = "copy" /\ ppc' = [ppc EXCEPT ![p] = "idle"]
        /\ pos' = [pos EXCEPT ![p] = 0] /\ UNCHANGED <<dst, output>>
    BY <1>4, Zenon DEF PushPublish, goto, finishes
  <2>4. \A r \in accepted' : r = dst' \/ r \in Range(output') \/ \E j \in published' : rec'[cell(j)] = r
    BY <2>1, <2>2, Zenon
  <2>5. \A j \in published' : rec'[cell(j)] \in accepted'
    BY <2>1, <2>2, Zenon
  <2>6. ASSUME NEW q \in Producers, NEW j \in published', ppc'[q] = "copy", rec'[cell(j)][1] = q
        PROVE  j < pos'[q]
    <3>1. q # p /\ ppc[q] = "copy" /\ pos'[q] = pos[q]
      BY <2>2, <2>6 DEF ProducersOK
    <3>2. j # pos[p]
      <4>1. rec'[cell(pos[p])][1] = p
        <5>1. rec'[cell(pos[p])] = <<p, num[p]>>
          BY ONLY <2>1, Zenon DEF record
        <5> QED
          BY ONLY <5>1
      <4> QED
        BY ONLY <2>6, <3>1, <4>1, Zenon
    <3> QED
      BY <2>1, <2>6, <3>1, <3>2, Zenon
  <2> QED
    BY <2>4, <2>5, <2>6, Zenon
<1>5. CASE PopClaim
  <2>1. dequeuePos \in published /\ published' = published \ {dequeuePos} /\ rec' = rec
    BY <1>5, PopTakes
  <2>2. /\ dst = None /\ dst' = rec[cell(dequeuePos)] /\ UNCHANGED <<accepted, output, ppc, pos>>
    BY <1>5 DEF PopClaim, producer, Control
  <2>4. dst \notin accepted
    BY <2>2, NoneIsNoRecord, Zenon DEF HistoryOK
  <2> QED
    BY <2>1, <2>2, <2>4, Zenon
<1>6. CASE PopRelease
  <2>1. published' = published /\ rec' = rec /\ UNCHANGED <<accepted, dst, output, ppc, pos>>
    BY <1>6, ReleaseSame, Zenon DEF PopRelease, producer
  <2> QED
    BY <2>1, Zenon
<1>7. CASE EmitRecord
  <2>1. published' = published /\ rec' = rec /\ UNCHANGED <<accepted, ppc, pos>>
    BY <1>7, RingSame DEF EmitRecord, producer
  <2>2. dst \in Records /\ output' = Append(output, dst)
    BY <1>7 DEF EmitRecord, Control, HistoryOK
  <2>3. Range(output') = Range(output) \cup {dst}
    BY ONLY <2>2, HistoryOK, OutputGrows
  <2> QED
    BY <2>1, <2>3, Zenon
<1>8. CASE Start
  <2>1. published' = published /\ rec' = rec /\ UNCHANGED <<accepted, dst, output, ppc, pos>>
    BY <1>8, StartSame, Zenon DEF Start, producer
  <2> QED
    BY <2>1
<1>9. CASE Quiet
  <2>1. published' = published /\ rec' = rec /\ UNCHANGED <<accepted, dst, output, ppc, pos>>
    BY <1>9, RingSame DEF Quiet, producer
  <2> QED
    BY <2>1
<1> QED
  BY <1>1, <1>2, <1>3, <1>4, <1>5, <1>6, <1>7, <1>8, <1>9, StepKinds, Zenon

\* What a published position holds.
LEMMA PublishedRecord ==
  ASSUME RingOK, HistoryOK, Queue, NEW j \in published
  PROVE  /\ j \in Nat /\ rec[cell(j)] \in accepted /\ rec[cell(j)] \in Records /\ rec[cell(j)] # None
         /\ rec[cell(j)][1] \in Producers /\ rec[cell(j)][2] \in Nat
<1>1. j \in Nat
  BY DEF published, RingOK
<1>2. rec[cell(j)] \in accepted /\ rec[cell(j)] \in Records
  BY DEF Queue, HistoryOK
<1> QED
  BY <1>1, <1>2, NoneIsNoRecord DEF Records

\* Every step keeps the order of each producer's records.
LEMMA OrderKept ==
  ASSUME Constants, RingOK, ProducersOK, ThreadsOK, HistoryOK, Flags, Control, Ring, Owners, Seen,
         Numbers, Queue, Order, [AsyncNext]_asyncVars
  PROVE  Order'
<1> USE DEF Order
<1>1. ASSUME NEW p \in Producers, Local(p) PROVE Order'
  <2>1. published' = published /\ rec' = rec /\ UNCHANGED <<output, dst, apc>>
    BY <1>1, LocalFrame, RingSame, Zenon DEF ring
  <2> QED
    BY <2>1, Zenon
<1>2. ASSUME NEW p \in Producers, LogSync(p) PROVE Order'
  <2>1. published' = published /\ rec' = rec /\ UNCHANGED <<dst, apc>>
    BY <1>2, RingSame, Zenon DEF LogSync
  <2>2. /\ <<p, logged'>> \in Records /\ output' = Append(output, <<p, logged'>>)
        /\ logged' = logged + 1 /\ ~ringReady
    BY ONLY <1>2, Constants, ProducersOK, SyncRecord
  <2>3. output \in Seq(Records) /\ Behind(output, <<p, logged'>>)
    <3>1. logged \in Int
      BY ONLY Constants, ProducersOK DEF Constants, ProducersOK
    <3>2. ASSUME NEW x \in Range(output) PROVE x[2] < logged'
      <4>1. x[2] \in Int /\ x[2] <= logged
        BY ONLY HistoryOK, Numbers, HistoryElements, <3>2 DEF Numbers
      <4> QED
        BY ONLY <2>2, <3>1, <4>1
    <3> QED
      BY ONLY HistoryOK, <3>2 DEF Behind, HistoryOK
  <2>4. Ordered(output')
    BY <2>2, <2>3, OrderedAppend, Zenon
  <2>5. apc \in {"off", "stopped"} /\ dst = None
    BY <2>2 DEF Flags, Control, ThreadsOK
  <2>6. apc = "stopped" \/ published = {}
    <3>1. ASSUME apc = "off" PROVE dequeuePos .. enqueuePos - 1 = {}
      <4>1. enqueuePos = 0 /\ dequeuePos = 0
        BY ONLY Control, <3>1 DEF Control
      <4> QED
        BY ONLY <4>1
    <3> QED
      BY ONLY <2>5, <3>1 DEF published
  <2> QED
    BY <2>1, <2>4, <2>5, <2>6, Zenon
<1>3. ASSUME NEW p \in Producers, PushClaim(p) PROVE Order'
  <2>1. published' = published /\ rec' = rec /\ UNCHANGED <<output, dst, apc>>
    BY <1>3, ClaimSame, Zenon DEF PushClaim
  <2> QED
    BY <2>1, Zenon
<1>4. ASSUME NEW p \in Producers, PushPublish(p) PROVE Order'
  <2>1. /\ pos[p] \in Nat /\ published' = published \cup {pos[p]} /\ rec'[cell(pos[p])] = record(p)
        /\ \A j \in published : rec'[cell(j)] = rec[cell(j)]
    BY <1>4, PublishAdds, Zenon
  <2>2. ppc[p] = "copy" /\ UNCHANGED <<dst, output, apc>>
    BY <1>4 DEF PushPublish, goto
  <2>3. /\ Behind(output, record(p)) /\ \A r \in accepted : r[1] = p => r[2] < num[p]
        /\ record(p)[1] = p /\ record(p)[2] = num[p]
    BY <2>2, OwnRecordIsNew, Zenon DEF record
  <2>4. dst # None => dst \in accepted
    BY Zenon DEF Control, ThreadsOK
  <2>5. ASSUME NEW j \in published'
        PROVE  /\ apc' # "stopped" => Behind(output', rec'[cell(j)])
               /\ apc' # "stopped" /\ dst' # None /\ dst'[1] = rec'[cell(j)][1]
                    => dst'[2] < rec'[cell(j)][2]
    <3>1. CASE j = pos[p]
      BY <2>1, <2>2, <2>3, <2>4, <3>1, Zenon
    <3>2. CASE j \in published
      BY <2>1, <2>2, <3>2, Zenon
    <3> QED
      BY <2>1, <2>5, <3>1, <3>2, Zenon
  <2>6. ASSUME NEW j \in published', NEW k \in published', j < k, rec'[cell(j)][1] = rec'[cell(k)][1]
        PROVE  rec'[cell(j)][2] < rec'[cell(k)][2]
    <3>1. CASE j \in published /\ k \in published
      BY <2>1, <2>6, <3>1, Zenon
    <3>2. CASE j \in published /\ k = pos[p]
      BY <2>1, <2>3, <2>6, <3>2, PublishedRecord, Zenon
    <3>3. CASE j = pos[p] /\ k \in published
      <4>1. k < pos[p] /\ k \in Nat
        BY <2>1, <2>2, <2>3, <2>6, <3>3, PublishedRecord, Zenon DEF Queue
      <4>2. pos[p] < k /\ pos[p] \in Nat
        BY ONLY <2>1, <2>6, <3>3, Zenon
      <4> QED
        BY ONLY <4>1, <4>2
    <3>4. CASE j = pos[p] /\ k = pos[p]
      <4>1. pos[p] \in Nat /\ pos[p] < pos[p]
        BY ONLY <2>1, <2>6, <3>4
      <4> QED
        BY ONLY <4>1
    <3> QED
      BY <2>1, <3>1, <3>2, <3>3, <3>4, Zenon
  <2>7. Ordered(output') /\ (dst' # None => Behind(output', dst'))
    BY <2>2
  <2> QED
    BY <2>5, <2>6, <2>7, Zenon
<1>5. CASE PopClaim
  <2>1. /\ dequeuePos \in published /\ published' = published \ {dequeuePos} /\ rec' = rec
        /\ \A j \in published : j \in Nat /\ dequeuePos <= j
    BY <1>5, PopTakes, Zenon
  <2>2. dst' = rec[cell(dequeuePos)] /\ apc # "stopped" /\ UNCHANGED <<output, apc>>
    BY <1>5, Zenon DEF PopClaim, Control
  <2>3. dequeuePos \in Nat
    BY DEF RingOK
  <2>4. Behind(output, dst') /\ Ordered(output)
    BY <2>1, <2>2, Zenon
  <2>5. ASSUME NEW j \in published'
        PROVE  /\ Behind(output, rec[cell(j)])
               /\ dst'[1] = rec[cell(j)][1] => dst'[2] < rec[cell(j)][2]
    <3>1. j \in published /\ dequeuePos < j
      <4>1. j \in published /\ j # dequeuePos
        BY ONLY <2>1, <2>5
      <4>2. j \in Nat /\ dequeuePos <= j
        BY ONLY <2>1, <4>1
      <4> QED
        BY ONLY <2>3, <4>1, <4>2
    <3>2. rec[cell(dequeuePos)][1] = rec[cell(j)][1] => rec[cell(dequeuePos)][2] < rec[cell(j)][2]
      BY <2>1, <3>1, Zenon
    <3>3. Behind(output, rec[cell(j)])
      BY <2>2, <3>1, Zenon
    <3> QED
      BY ONLY <2>2, <3>2, <3>3
  <2>6. \A j, k \in published' :
          j < k /\ rec[cell(j)][1] = rec[cell(k)][1] => rec[cell(j)][2] < rec[cell(k)][2]
    BY <2>1, Zenon
  <2> QED
    BY <2>1, <2>2, <2>4, <2>5, <2>6, Zenon
<1>6. CASE PopRelease
  <2>1. published' = published /\ rec' = rec /\ UNCHANGED <<output, dst, apc>>
    BY <1>6, ReleaseSame, Zenon DEF PopRelease
  <2> QED
    BY <2>1, Zenon
<1>7. CASE EmitRecord
  <2>1. published' = published /\ rec' = rec
    BY <1>7, RingSame DEF EmitRecord
  <2>2. dst \in accepted /\ dst' = None /\ output' = Append(output, dst) /\ UNCHANGED apc
    BY <1>7, Zenon DEF EmitRecord, Control
  <2>3. dst \in Records /\ dst # None /\ output \in Seq(Records)
    BY <2>2, NoneIsNoRecord, Zenon DEF HistoryOK
  <2>4. Range(output') = Range(output) \cup {dst}
    BY ONLY <2>2, <2>3, RangeAppend
  <2>5. Ordered(output')
    BY <2>2, <2>3, OrderedAppend
  <2>6. ASSUME NEW j \in published, apc # "stopped" PROVE Behind(output', rec[cell(j)])
    BY <2>3, <2>4, <2>6 DEF Behind
  <2> QED
    BY <2>1, <2>2, <2>5, <2>6, Zenon
<1>8. CASE Start
  <2>1. published' = published /\ rec' = rec /\ apc # "stopped" /\ UNCHANGED <<output, dst>>
    BY <1>8, StartSame, Zenon DEF Start
  <2> QED
    BY <2>1, Zenon
<1>9. CASE Quiet
  <2>1. /\ published' = published /\ rec' = rec /\ UNCHANGED <<output, dst>>
        /\ apc = "stopped" => apc' = "stopped"
    BY <1>9, RingSame DEF Quiet
  <2> QED
    BY <2>1, Zenon
<1> QED
  BY <1>1, <1>2, <1>3, <1>4, <1>5, <1>6, <1>7, <1>8, <1>9, StepKinds, Zenon

\* Every step keeps what a flush has found out.
LEMMA FlushingKept ==
  ASSUME Constants, RingOK, ProducersOK, ThreadsOK, HistoryOK, Flags, Control, Ring, Owners, Seen,
         Numbers, Queue, Flushing, [AsyncNext]_asyncVars
  PROVE  Flushing'
<1> USE DEF Flushing
<1>1. ASSUME NEW p \in Producers, Local(p) PROVE Flushing'
  <2>1. published' = published /\ rec' = rec /\ UNCHANGED <<fpc, fpos, due, dst, output, dequeuePos>>
    BY <1>1, LocalFrame, RingSame DEF ring
  <2> QED
    BY <2>1
<1>2. ASSUME NEW p \in Producers, LogSync(p) PROVE Flushing'
  <2>1. published' = published /\ rec' = rec
    BY <1>2, RingSame DEF LogSync
  <2>2. /\ <<p, logged'>> \in Records /\ output' = Append(output, <<p, logged'>>)
        /\ UNCHANGED <<fpc, fpos, due, dst, dequeuePos>>
    <3>1. UNCHANGED <<fpc, fpos, due, dst, dequeuePos>>
      BY ONLY <1>2 DEF LogSync, flusher, ring
    <3> QED
      BY ONLY <1>2, <3>1, Constants, ProducersOK, SyncRecord
  <2>3. Range(output') = Range(output) \cup {<<p, logged'>>}
    BY ONLY <2>2, HistoryOK, OutputGrows
  <2> QED
    BY <2>1, <2>2, <2>3
<1>3. ASSUME NEW p \in Producers, PushClaim(p) PROVE Flushing'
  <2>1. published' = published /\ rec' = rec /\ UNCHANGED <<fpc, fpos, due, dst, output, dequeuePos>>
    BY <1>3, ClaimSame DEF PushClaim, flusher
  <2> QED
    BY <2>1
<1>4. ASSUME NEW p \in Producers, PushPublish(p) PROVE Flushing'
  <2>1. /\ pos[p] \in Nat /\ published' = published \cup {pos[p]} /\ rec'[cell(pos[p])] = record(p)
        /\ \A j \in published : rec'[cell(j)] = rec[cell(j)]
    BY <1>4, PublishAdds, Zenon
  <2>2. ppc[p] = "copy" /\ UNCHANGED <<fpc, fpos, due, dst, output, dequeuePos>>
    BY <1>4 DEF PushPublish, goto, flusher
  <2>3. record(p) \notin due
    BY <2>2, OwnRecordIsNew, Zenon DEF HistoryOK
  <2> QED
    BY <2>1, <2>2, <2>3, Zenon
<1>5. CASE PopClaim
  <2>1. published' = published \ {dequeuePos} /\ rec' = rec
    BY <1>5, PopTakes
  <2>2. dst = None /\ dequeuePos' = dequeuePos + 1 /\ UNCHANGED <<fpc, fpos, due, output>>
    BY <1>5 DEF PopClaim, flusher, Control
  <2>3. None \notin due
    BY NoneIsNoRecord DEF HistoryOK
  <2>4. fpos \in Nat /\ dequeuePos \in Nat
    BY DEF RingOK, ThreadsOK
  <2>5. fpc' = "dequeuePos" => \A j \in published' : rec'[cell(j)] \in due' => j < fpos'
    BY ONLY Flushing, <2>1, <2>2 DEF Flushing
  <2>6. fpc' = "enqueuePos" => fpos' <= dequeuePos'
    <3>1. fpc' = "enqueuePos" => fpos' <= dequeuePos
      BY ONLY Flushing, <2>2 DEF Flushing
    <3> QED
      BY ONLY <2>2, <2>4, <3>1
  <2>7. fpc' = "idleTest" => due' \subseteq {dst'} \cup Range(output')
    BY ONLY Flushing, <2>2, <2>3 DEF Flushing
  <2>8. fpc' = "flushed" => due' \subseteq Range(output')
    BY ONLY Flushing, <2>2 DEF Flushing
  <2> QED
    BY ONLY <2>5, <2>6, <2>7, <2>8 DEF Flushing
<1>6. CASE PopRelease
  <2>1. published' = published /\ rec' = rec /\ UNCHANGED <<fpc, fpos, due, dst, output, dequeuePos>>
    BY <1>6, ReleaseSame DEF PopRelease, flusher
  <2> QED
    BY <2>1
<1>7. CASE EmitRecord
  <2>1. published' = published /\ rec' = rec
    BY <1>7, RingSame DEF EmitRecord
  <2>2. dst \in Records /\ output' = Append(output, dst) /\ UNCHANGED <<fpc, fpos, due, dequeuePos>>
    BY <1>7 DEF EmitRecord, flusher, ring, Control, HistoryOK
  <2>3. Range(output') = Range(output) \cup {dst}
    BY ONLY <2>2, HistoryOK, OutputGrows
  <2> QED
    BY <2>1, <2>2, <2>3
<1>8. CASE Start
  BY <1>8 DEF Start, flusher, Control
<1>9. CASE Quiet /\ UNCHANGED flusher
  <2>1. published' = published /\ rec' = rec /\ UNCHANGED <<fpc, fpos, due, dst, output, dequeuePos>>
    BY <1>9, RingSame DEF Quiet, ring, flusher
  <2> QED
    BY <2>1
<1>10. CASE FlushCall
  BY <1>10 DEF FlushCall, others, flusher
<1>11. CASE FlushLoadOne
  <2>1. published' = published /\ rec' = rec /\ dequeuePos' = dequeuePos
    BY <1>11, RingSame DEF FlushLoadOne, others, ring
  <2>2. \A j \in published : j < enqueuePos
    BY DEF published, RingOK
  <2>3. dequeuePos \in Nat
    BY DEF RingOK
  <2>4. CASE fpc' = "dequeuePos" /\ fpos' = enqueuePos
    BY <2>1, <2>2, <2>4
  <2>5. CASE fpc' = "enqueuePos" /\ fpos' = dequeuePos
    BY <2>1, <2>3, <2>5
  <2> QED
    BY <1>11, <2>4, <2>5 DEF FlushLoadOne
<1>12. CASE FlushLoadOther
  <2>1. UNCHANGED <<dst, output, due>>
    BY <1>12 DEF FlushLoadOther, others
  <2>2. CASE fpc' = "sleep"
    BY <2>2
  <2>3. CASE fpc' = "idleTest"
    <3>1. \A j \in published : rec[cell(j)] \notin due
      <4>1. CASE fpc = "dequeuePos"
        <5>1. fpos = dequeuePos
          BY <1>12, <2>3, <4>1 DEF FlushLoadOther
        <5>2. \A j \in published : dequeuePos <= j /\ j \in Nat /\ dequeuePos \in Nat
          BY SMTT(20) DEF published, RingOK
        <5> QED
          BY <4>1, <5>1, <5>2
      <4>2. CASE fpc = "enqueuePos"
        <5>1. enqueuePos <= dequeuePos
          BY <1>12, <2>3, <4>2 DEF FlushLoadOther
        <5> QED
          BY <5>1 DEF published, RingOK
      <4> QED
        BY <1>12, <4>1, <4>2 DEF FlushLoadOther
    <3>2. due \subseteq {dst} \cup Range(output)
      BY <3>1 DEF Queue, HistoryOK
    <3> QED
      BY <2>1, <2>3, <3>2
  <2> QED
    BY <1>12, <2>2, <2>3 DEF FlushLoadOther
<1>13. CASE FlushTestIdle
  <2>1. due \subseteq {dst} \cup Range(output) /\ UNCHANGED <<dst, output, due>>
    BY <1>13 DEF FlushTestIdle, others
  <2>2. CASE fpc' = "sleep"
    BY <2>2
  <2>3. CASE consumerIdle /\ fpc' = "flushed"
    <3>1. dst = None
      BY <2>3 DEF Flags, Control, ThreadsOK
    <3>2. dst \notin due
      BY <3>1, NoneIsNoRecord DEF HistoryOK
    <3> QED
      BY <2>1, <2>3, <3>2
  <2> QED
    BY <1>13, <2>2, <2>3 DEF FlushTestIdle
<1>14. CASE FlushAgain
  BY <1>14, Zenon DEF FlushAgain, others, flusher
<1>15. CASE FlushReturn
  BY <1>15, Zenon DEF FlushReturn, others, flusher
<1> QED
  BY <1>1, <1>2, <1>3, <1>4, <1>5, <1>6, <1>7, <1>8, <1>9, <1>10, <1>11, <1>12, <1>13, <1>14, <1>15,
     FlushKinds, Zenon

\* A producer's cell, and the one drain() has claimed, are nobody else's.
LEMMA RingIsOwned ==
  ASSUME Constants, RingOK, ProducersOK, ThreadsOK, Ring, Owners
  PROVE  RingInv
<1>1. dequeuePos <= enqueuePos /\ enqueuePos <= dequeuePos + Size
  BY DEF Ring, freeEnd, RingOK, Constants
<1>2. ASSUME NEW p \in writing, NEW q \in writing, p # q PROVE cell(pos[p]) # cell(pos[q])
  <2>1. /\ pos[p] \in Nat /\ pos[q] \in Nat /\ pos[p] # pos[q]
        /\ pos[p] < pos[q] + Size /\ pos[q] < pos[p] + Size
    BY <1>1, <1>2 DEF Owners, writing, ProducersOK, RingOK, Constants
  <2> QED
    BY <2>1, CellApart
<1>3. ASSUME dpc = "release", NEW p \in writing PROVE cell(pos[p]) # cell(dequeuePos - 1)
  <2>1. /\ pos[p] \in Nat /\ dequeuePos - 1 \in Nat
        /\ dequeuePos - 1 < pos[p] /\ pos[p] < dequeuePos - 1 + Size
    <3>1. pos[p] \in Nat /\ dequeuePos <= pos[p] /\ pos[p] < enqueuePos
      BY ONLY <1>3, Owners, ProducersOK DEF Owners, writing, ProducersOK
    <3>2. /\ dequeuePos \in Nat /\ enqueuePos \in Nat /\ Size \in Nat /\ dequeuePos > 0
          /\ enqueuePos <= dequeuePos - 1 + Size
      BY ONLY <1>3, Ring, RingOK, Constants DEF Ring, freeEnd, RingOK, Constants
    <3> QED
      BY ONLY <3>1, <3>2
  <2> QED
    BY <2>1, CellApart
<1> QED
  BY <1>1, <1>2, <1>3 DEF RingInv

\* The inductive invariant says what LogInv says.
LEMMA IInvSuffices ==
  ASSUME Constants, IInv
  PROVE  LogInv
<1> USE DEF IInv, OtherOK
<1>1. AsyncTypeOK
  BY DEF AsyncTypeOK, FlagsOK, RingOK, ProducersOK, ThreadsOK, HistoryOK
<1>2. RingInv
  BY RingIsOwned
<1>3. accepted \subseteq queued \cup {dst} \cup Range(output)
  BY QueuedIs DEF Queue
<1>4. RecordsKept
  BY <1>3 DEF RecordsKept, Order, Ordered
<1>5. FlushedIsWritten
  BY DEF FlushedIsWritten, Flushing
<1> QED
  BY <1>1, <1>2, <1>4, <1>5 DEF LogInv, UlogInv

\* It holds before the logger is started.
LEMMA IInvInitially ==
  ASSUME Constants, AsyncInit
  PROVE  IInv
<1>1. FlagsOK /\ Flags
  BY Zenon DEF AsyncInit, FlagsOK, Flags
<1>2. RingOK /\ ProducersOK /\ ThreadsOK
  <2>1. RingOK
    BY DEF AsyncInit, RingOK
  <2>2. ProducersOK
    BY DEF AsyncInit, ProducersOK, Constants
  <2>3. ThreadsOK
    BY DEF AsyncInit, ThreadsOK
  <2> QED
    BY ONLY <2>1, <2>2, <2>3
<1>3. HistoryOK
  BY DEF AsyncInit, HistoryOK
<1>4. Control /\ Ring /\ Owners /\ Seen
  <2>1. Control
    BY DEF AsyncInit, Control
  <2>2. Ring
    <3>1. enqueuePos = 0 /\ dequeuePos = 0 /\ dpc = "off" /\ apc = "off"
      BY ONLY AsyncInit DEF AsyncInit
    <3>2. freeEnd = 0 + Size /\ 0 <= 0 + Size /\ 0 <= 0 /\ 0 .. 0 - 1 = {}
      BY ONLY Constants, <3>1 DEF Constants, freeEnd
    <3> QED
      BY ONLY <3>1, <3>2 DEF Ring
  <2>3. \A p \in Producers : ppc[p] = "idle"
    BY DEF AsyncInit
  <2>4. Owners /\ Seen
    BY ONLY <2>3 DEF Owners, Seen
  <2> QED
    BY ONLY <2>1, <2>2, <2>4
<1>5. published = {} /\ Range(output) = {} /\ accepted = {}
  BY DEF AsyncInit, published, Range
<1>6. Numbers /\ Queue /\ Flushing
  <2>1. \A p \in Producers : ppc[p] = "idle" /\ num[p] <= logged
    BY DEF AsyncInit
  <2>2. Numbers
    BY ONLY <1>5, <2>1 DEF Numbers
  <2>3. Queue
    BY ONLY <1>5, Zenon DEF Queue
  <2>4. fpc = "idle"
    BY DEF AsyncInit
  <2>5. Flushing
    BY ONLY <2>4 DEF Flushing
  <2> QED
    BY ONLY <2>2, <2>3, <2>5
<1>7. Order
  <2>1. output = << >> /\ dst = None
    BY ONLY AsyncInit DEF AsyncInit
  <2>2. DOMAIN output = {}
    BY ONLY <2>1
  <2>3. Ordered(output)
    BY ONLY <2>2, Zenon DEF Ordered
  <2> QED
    BY ONLY <1>5, <2>1, <2>3, Zenon DEF Order
<1> QED
  BY <1>1, <1>2, <1>3, <1>4, <1>6, <1>7 DEF IInv, OtherOK

\* Every step keeps it.
LEMMA IInvKept ==
  ASSUME Constants, IInv, [AsyncNext]_asyncVars
  PROVE  IInv'
<1> USE DEF IInv, OtherOK
<1>1. (FlagsOK /\ Flags)'
  BY FlagsKept
<1>2. RingOK' /\ ProducersOK' /\ ThreadsOK' /\ HistoryOK'
  BY RingTyped, ProducersTyped, ThreadsTyped, HistoryTyped
<1>3. Control' /\ Ring' /\ Owners' /\ Seen'
  BY ControlKept, RingKept, OwnersKept, SeenKept
<1>4. Numbers' /\ Queue' /\ Order' /\ Flushing'
  BY NumbersKept, QueueKept, OrderKept, FlushingKept
<1> QED
  BY <1>1, <1>2, <1>3, <1>4

\* ulog_async.cpp, with any number of producers, any ring of two cells or more and any number
\* of records: ringPush() and ringPop() never let two threads into one cell, no accepted record
\* is lost or written twice or before an older one of its thread, and ulog_async_flush()
\* succeeds only when what was accepted before the call is written.
THEOREM LoggerIsSafe ==
  ASSUME Constants
  PROVE  AsyncSpec => []LogInv
<1>1. AsyncInit => IInv
  BY IInvInitially
<1>2. IInv /\ [AsyncNext]_asyncVars => IInv'
  BY IInvKept
<1>3. IInv => LogInv
  BY IInvSuffices
<1> QED
  BY <1>1, <1>2, <1>3, PTL DEF AsyncSpec

===============================================================================

--------------------------- MODULE ConnectionProofs --------------------------
(*****************************************************************************)
(* TcpConnectionHandler and the destruction of a client that owns one, for   *)
(* any number of users, connections, sends and reads.  IConnection adds to   *)
(* ConnectionInv what the worker's place says of its task and what the       *)
(* receive thread knows of its buffer (WorkerInv).  That a failure closes    *)
(* only its own connection (IDrop) rests on there being one attempt at a     *)
(* time: it is with the user who calls connect(), with the timer, in the     *)
(* queue or with the worker, and no failure is queued behind it.  For the    *)
(* teardown (ITeardown) a disconnect that a destructor waits for is behind   *)
(* every connect of the queue, so that nothing that is left when it has run  *)
(* brings the connection up again; this holds of a client of which nothing   *)
(* was about to reconnect when its destructor forbade it.                    *)
(*****************************************************************************)
EXTENDS ClientTeardown, TLAPS

\* What the proofs assume of the constants.
Constants == BufferSize \in Nat /\ ReconnectModes \subseteq BOOLEAN

\* Where the worker is says whether it has a task; the receive thread reads into a free buffer.
WorkerInv ==
  /\ wpc = "idle" => task = <<>>
  /\ wpc # "idle" => Len(task) = 1
  /\ rpc = "select" => receiveBuffer < BufferSize

\* TcpTypeOK in two parts, the flags and the rest.
FlagsOK == /\ suppressEnqueue \in BOOLEAN /\ cancelConnect \in BOOLEAN
           /\ enableReconnect \in BOOLEAN /\ reconnectTimer \in BOOLEAN

OtherOK ==
  /\ eventQueue \in Seq(Task) /\ task \in Seq(Task)
  /\ wpc \in {"idle", "connecting", "tls", "join", "dispatching", "sending"}
  /\ socket \in Nat /\ established \in Nat
  /\ rpc \in {"none", "top", "select", "check", "dispatch", "drop", "ended"}
  /\ rconn \in Nat /\ receiveBuffer \in 0..BufferSize
  /\ upc \in [Users -> {"idle", "connect", "disconnect"}]
  /\ count \in [{"connects", "disconnects", "sends", "reads", "errors"} -> Nat]

CoreInv == OtherOK /\ ReceiverInv /\ WorkerInv

\* What is in a queue after something was put at its end.
LEMMA Appended ==
  ASSUME NEW q \in Seq(Task), NEW t \in Task
  PROVE  /\ Append(q, t) \in Seq(Task) /\ Len(Append(q, t)) = Len(q) + 1
         /\ \A i \in 1..Len(q) : Append(q, t)[i] = q[i]
         /\ Append(q, t)[Len(q) + 1] = t
  OBVIOUS

\* What is in a queue after its first task was taken.
LEMMA Taken ==
  ASSUME NEW q \in Seq(Task), q # <<>>
  PROVE  /\ Tail(q) \in Seq(Task) /\ Head(q) \in Task /\ Head(q) = q[1]
         /\ Len(q) \in Nat /\ Len(q) > 0 /\ Len(Tail(q)) = Len(q) - 1
         /\ \A i \in 1..(Len(q) - 1) : Tail(q)[i] = q[i + 1]
  OBVIOUS

\* A task, and the sequence that holds just it.
LEMMA Single ==
  ASSUME NEW t \in Task
  PROVE  <<t>> \in Seq(Task) /\ Len(<<t>>) = 1 /\ Head(<<t>>) = t /\ <<t>> # <<>>
  OBVIOUS

\* enqueue_() gives a queue of tasks.
LEMMA Enqueued ==
  ASSUME eventQueue \in Seq(Task), NEW k \in Kinds, NEW c \in Nat
  PROVE  enqueuedFor(k, c) \in Seq(Task)
  <1>1. [kind |-> k, conn |-> c] \in Task
    BY DEF Task
  <1> QED BY <1>1, Appended DEF enqueuedFor

\* A step of a user keeps the core of the invariant.
LEMMA UserKeepsCore ==
  ASSUME Constants, CoreInv, NEW u \in Users, User(u), UNCHANGED suppressEnqueue
  PROVE  CoreInv'
  <1> USE DEF CoreInv, OtherOK, ReceiverInv, WorkerInv, worker, link, flags, receiver, Constants
  <1>1. \A k \in Kinds : enqueued(k) \in Seq(Task)
    BY Enqueued DEF enqueued
  <1>2. CASE ConnectCall(u)
    BY <1>2 DEF ConnectCall, counted
  <1>3. CASE DisconnectCall(u)
    BY <1>3 DEF DisconnectCall, counted
  <1>4. CASE QueueCall(u)
    BY <1>1, <1>4 DEF QueueCall, Kinds
  <1>5. CASE SendCall(u)
    <2>1. eventQueue' \in Seq(Task)
      BY ONLY <1>1, <1>5 DEF SendCall, Kinds
    <2>2. count' \in [{"connects", "disconnects", "sends", "reads", "errors"} -> Nat]
      BY ONLY <1>5, CoreInv DEF SendCall, counted, CoreInv, OtherOK
    <2>3. UNCHANGED <<task, wpc, socket, established, rpc, rconn, receiveBuffer, upc>>
      BY ONLY <1>5 DEF SendCall, worker, link, receiver
    <2> QED BY <2>1, <2>2, <2>3
  <1> QED BY <1>2, <1>3, <1>4, <1>5 DEF User

\* A step of the worker keeps it.
LEMMA WorkerKeepsCore ==
  ASSUME Constants, CoreInv, Worker, UNCHANGED suppressEnqueue
  PROVE  CoreInv'
  <1> USE DEF CoreInv, OtherOK, ReceiverInv, WorkerInv, worker, link, flags, receiver, Constants, done
  <1>1. \A k \in Kinds : enqueued(k) \in Seq(Task)
    BY Enqueued DEF enqueued
  <1>2. ASSUME NEW k, take(k)
        PROVE  /\ eventQueue' \in Seq(Task) /\ wpc = "idle"
               /\ <<Head(eventQueue)>> \in Seq(Task) /\ Len(<<Head(eventQueue)>>) = 1
    BY <1>2, Taken, Single DEF take
  <1>3. CASE RunConnect
    BY <1>2, <1>3, Zenon DEF RunConnect, begin
  <1>4. CASE RunReconnect
    BY <1>2, <1>4, Zenon DEF RunReconnect, begin
  <1>5. CASE RunOnConnect
    BY <1>2, <1>5 DEF RunOnConnect
  <1>6. CASE RunDisconnect
    BY <1>2, <1>6, Zenon DEF RunDisconnect, begin
  <1>7. CASE RunDispatch
    BY <1>2, <1>7, Zenon DEF RunDispatch, begin
  <1>8. CASE RunSend
    BY <1>2, <1>8, Zenon DEF RunSend, begin
  <1>9. CASE ConnectFails
    BY <1>9 DEF ConnectFails
  <1>10. CASE ConnectSucceeds
    BY <1>10 DEF ConnectSucceeds
  <1>11. CASE TlsFails
    BY <1>11 DEF TlsFails
  <1>12. CASE TlsSucceeds
    BY <1>1, <1>12 DEF TlsSucceeds, Kinds
  <1>13. CASE Joined
    BY <1>13 DEF Joined
  <1>14. CASE Deliver
    BY <1>14 DEF Deliver
  <1>15. CASE DispatchEnds
    BY <1>15 DEF DispatchEnds
  <1>16. CASE SendCompletes
    BY <1>16 DEF SendCompletes
  <1>17. CASE SendAbandoned
    BY <1>17 DEF SendAbandoned
  <1>18. CASE SendFails
    BY <1>1, <1>18 DEF SendFails, Kinds
  <1>19. CASE SendSelectFails
    <2>1. eventQueue' \in Seq(Task)
      BY <1>1, <1>19 DEF SendSelectFails, Kinds
    <2> QED BY <1>19, <2>1 DEF SendSelectFails, counted
  <1> QED BY <1>3, <1>4, <1>5, <1>6, <1>7, <1>8, <1>9, <1>10, <1>11, <1>12, <1>13, <1>14, <1>15,
             <1>16, <1>17, <1>18, <1>19, Zenon DEF Worker, TakeTask, Attempt

\* A step of the receive thread or of the timer keeps it.
LEMMA ReceiverKeepsCore ==
  ASSUME Constants, CoreInv, Receiver \/ TimerFires, UNCHANGED suppressEnqueue
  PROVE  CoreInv'
  <1> USE DEF CoreInv, OtherOK, ReceiverInv, WorkerInv, worker, link, flags, receiver, Constants
  <1>1. \A k \in Kinds, c \in Nat : enqueuedFor(k, c) \in Seq(Task) /\ enqueued(k) \in Seq(Task)
    BY Enqueued, Zenon DEF enqueued
  <1>2. CASE ReceiveTop
    BY <1>2 DEF ReceiveTop
  <1>3. CASE ReceiveNothing \/ ReceiveCheck \/ ReceiveFails
    BY <1>3 DEF ReceiveNothing, ReceiveCheck, ReceiveFails
  <1>4. CASE ReceiveData
    BY <1>4 DEF ReceiveData, counted
  <1>5. CASE ReceiveQueue
    <2>1. eventQueue' \in Seq(Task)
      BY <1>1, <1>5, Zenon DEF ReceiveQueue, Kinds
    <2> QED BY <1>5, <2>1 DEF ReceiveQueue
  <1>6. CASE TimerFires
    BY <1>1, <1>6 DEF TimerFires, Kinds
  <1> QED BY <1>2, <1>3, <1>4, <1>5, <1>6, Zenon DEF Receiver

\* The handler starts in the core of the invariant.
LEMMA CoreInitially == ASSUME Constants, TcpInit PROVE CoreInv
  BY DEF Constants, TcpInit, CoreInv, OtherOK, ReceiverInv, WorkerInv
-----------------------------------------------------------------------------
(* the handler in use *)

IConnection ==
  CoreInv /\ FlagsOK /\ ReconnectComesUp /\ DeadConnectionIsDropped /\ suppressEnqueue = FALSE


\* What is queued while nothing suppresses it.
LEMMA QueuedAfter ==
  ASSUME eventQueue \in Seq(Task), ~suppressEnqueue, NEW k \in Kinds, NEW c \in Nat,
         eventQueue' = enqueuedFor(k, c)
  PROVE  /\ \E i \in DOMAIN eventQueue' : eventQueue'[i] = [kind |-> k, conn |-> c]
         /\ \A i \in DOMAIN eventQueue : i \in DOMAIN eventQueue' /\ eventQueue'[i] = eventQueue[i]
         /\ \A i \in DOMAIN eventQueue' :
               \/ i \in DOMAIN eventQueue /\ eventQueue'[i] = eventQueue[i]
               \/ i = Len(eventQueue) + 1 /\ eventQueue'[i] = [kind |-> k, conn |-> c]
         /\ DOMAIN eventQueue = 1..Len(eventQueue) /\ Len(eventQueue) \in Nat
  <1>1. [kind |-> k, conn |-> c] \in Task
    BY DEF Task
  <1>2. eventQueue' = Append(eventQueue, [kind |-> k, conn |-> c])
    BY DEF enqueuedFor
  <1> QED BY <1>1, <1>2, Appended

\* It is at the end of the queue.
LEMMA QueuedLast ==
  ASSUME eventQueue \in Seq(Task), ~suppressEnqueue, NEW k \in Kinds, NEW c \in Nat,
         eventQueue' = enqueuedFor(k, c)
  PROVE  Len(eventQueue) + 1 \in DOMAIN eventQueue'
  <1>1. [kind |-> k, conn |-> c] \in Task
    BY DEF Task
  <1> QED BY <1>1, Appended DEF enqueuedFor

\* What is queued after a task was taken.
LEMMA QueuedAfterTake ==
  ASSUME eventQueue \in Seq(Task), NEW k, take(k)
  PROVE  /\ eventQueue[1].kind = k /\ eventQueue[1] = Head(eventQueue)
         /\ DOMAIN eventQueue = 1..Len(eventQueue) /\ Len(eventQueue) \in Nat
         /\ DOMAIN eventQueue' = 1..(Len(eventQueue) - 1)
         /\ \A i \in DOMAIN eventQueue' : i + 1 \in DOMAIN eventQueue /\ eventQueue'[i] = eventQueue[i + 1]
         /\ \A i \in DOMAIN eventQueue : i # 1 => i - 1 \in DOMAIN eventQueue' /\ eventQueue'[i - 1] = eventQueue[i]
  BY Taken DEF take

\* The flags stay Booleans.
LEMMA FlagsKept ==
  ASSUME Constants, FlagsOK, Threads \/ \E u \in Users : User(u), UNCHANGED suppressEnqueue
  PROVE  FlagsOK'
  <1> USE DEF FlagsOK, worker, link, flags, receiver, Constants
  <1>1. CASE \E u \in Users : User(u)
    BY <1>1, Zenon DEF User, ConnectCall, DisconnectCall, QueueCall, SendCall
  <1>2. CASE TakeTask
    BY <1>2, Zenon DEF TakeTask, RunConnect, RunReconnect, RunOnConnect, RunDisconnect, RunDispatch,
                       RunSend
  <1>3. CASE Attempt \/ Joined
    BY <1>3, Zenon DEF Attempt, ConnectFails, ConnectSucceeds, TlsFails, TlsSucceeds, Joined
  <1>4. CASE Deliver \/ DispatchEnds \/ SendCompletes \/ SendAbandoned \/ SendFails \/ SendSelectFails
    BY <1>4, Zenon DEF Deliver, DispatchEnds, SendCompletes, SendAbandoned, SendFails, SendSelectFails
  <1>5. CASE Receiver \/ TimerFires
    BY <1>5, Zenon DEF Receiver, ReceiveTop, ReceiveNothing, ReceiveData, ReceiveCheck, ReceiveFails,
                       ReceiveQueue, TimerFires
  <1> QED BY <1>1, <1>2, <1>3, <1>4, <1>5, Zenon DEF Threads, Worker

\* A step that puts a task at the end of the queue or leaves the queue alone.
Growing == \A i \in DOMAIN eventQueue : i \in DOMAIN eventQueue' /\ eventQueue'[i] = eventQueue[i]

\* A step keeps the attempt to come and the end of a dead connection queued.
LEMMA ConnectionStep ==
  ASSUME Constants, IConnection, TcpNext
  PROVE  ReconnectComesUp' /\ DeadConnectionIsDropped'
  <1>1. eventQueue \in Seq(Task) /\ ~suppressEnqueue
    BY DEF IConnection, CoreInv, OtherOK
  <1>2. ASSUME NEW k \in Kinds, NEW c \in Nat, eventQueue' = enqueuedFor(k, c)
        PROVE  /\ Growing
               /\ \E i \in DOMAIN eventQueue' : eventQueue'[i] = [kind |-> k, conn |-> c]
    BY <1>1, <1>2, QueuedAfter DEF Growing
  <1>3. ASSUME NEW k, take(k)
        PROVE  /\ wpc = "idle"
               /\ \A i \in DOMAIN eventQueue :
                     eventQueue[i].kind # k => i - 1 \in DOMAIN eventQueue' /\ eventQueue'[i - 1] = eventQueue[i]
    BY <1>1, <1>3, QueuedAfterTake DEF take
  <1>0. /\ socket \in Nat /\ established \in Nat /\ rconn \in Nat
        /\ upc \in [Users -> {"idle", "connect", "disconnect"}]
    BY DEF IConnection, CoreInv, OtherOK
  <1> USE <1>0 DEF IConnection, CoreInv, ReceiverInv, ReconnectComesUp, queued, worker, link, flags,
                   receiver,
                   DeadConnectionIsDropped, done, enqueued
  <1>4. ASSUME NEW u \in Users, User(u)
        PROVE  ReconnectComesUp' /\ DeadConnectionIsDropped'
    BY <1>2, <1>4 DEF User, ConnectCall, DisconnectCall, QueueCall, SendCall, Kinds, Growing
  <1>5. CASE RunConnect
    BY <1>3, <1>5 DEF RunConnect, begin
  <1>6. CASE RunReconnect
    BY <1>3, <1>6 DEF RunReconnect, begin
  <1>7. CASE RunOnConnect
    BY <1>3, <1>7 DEF RunOnConnect
  <1>8. CASE RunDisconnect
    BY <1>3, <1>8 DEF RunDisconnect, begin
  <1>9. CASE RunDispatch
    BY <1>3, <1>9 DEF RunDispatch, begin
  <1>10. CASE RunSend
    BY <1>3, <1>10 DEF RunSend, begin
  <1>11. CASE ConnectFails
    BY <1>11, Zenon DEF ConnectFails
  <1>12. CASE ConnectSucceeds
    BY <1>12 DEF ConnectSucceeds
  <1>13. CASE TlsFails
    BY <1>13, Zenon DEF TlsFails
  <1>14. CASE Joined
    BY <1>14, Zenon DEF Joined
  <1>15. CASE Deliver
    BY <1>15 DEF Deliver
  <1>16. CASE DispatchEnds
    BY <1>16 DEF DispatchEnds
  <1>17. CASE SendCompletes
    BY <1>17 DEF SendCompletes
  <1>18. CASE SendAbandoned
    BY <1>18 DEF SendAbandoned
  <1>19. CASE ReceiveTop
    BY <1>19 DEF ReceiveTop
  <1>20. CASE ReceiveNothing
    BY <1>20 DEF ReceiveNothing
  <1>21. CASE ReceiveData
    BY <1>21 DEF ReceiveData
  <1>22. CASE ReceiveCheck
    BY <1>22 DEF ReceiveCheck
  <1>23. CASE ReceiveFails
    BY <1>23 DEF ReceiveFails
  <1>24. CASE TlsSucceeds
    BY <1>2, <1>24 DEF TlsSucceeds, Kinds, Growing
  <1>25. CASE SendFails
    BY <1>2, <1>25 DEF SendFails, Kinds, Growing
  <1>26. CASE SendSelectFails
    BY <1>2, <1>26 DEF SendSelectFails, Kinds, Growing
  <1>27. CASE ReceiveQueue
    BY <1>2, <1>27 DEF ReceiveQueue, Kinds, Growing
  <1>28. CASE TimerFires
    BY <1>2, <1>28 DEF TimerFires, Kinds, Growing
  <1>29. CASE Quiet
    BY <1>29 DEF Quiet, handler
  <1> QED BY <1>4, <1>5, <1>6, <1>7, <1>8, <1>9, <1>10, <1>11, <1>12, <1>13, <1>14, <1>15, <1>16,
             <1>17, <1>18, <1>19, <1>20, <1>21, <1>22, <1>23, <1>24, <1>25, <1>26, <1>27, <1>28, <1>29
          DEF TcpNext, Threads, Worker, TakeTask, Attempt, Receiver

\* The whole invariant is inductive.
LEMMA IConnectionKept ==
  ASSUME Constants, IConnection, [TcpNext]_tcpVars
  PROVE  IConnection'
  <1>1. CASE TcpNext
    <2>1. ReconnectComesUp' /\ DeadConnectionIsDropped'
      BY <1>1, ConnectionStep
    <2>2. UNCHANGED suppressEnqueue
      BY <1>1 DEF TcpNext
    <2>3. CASE Quiet
      BY <2>1, <2>2, <2>3 DEF Quiet, handler, worker, link, flags, receiver, IConnection, CoreInv,
                              OtherOK, FlagsOK, ReceiverInv, WorkerInv
    <2>4. CASE Threads \/ \E u \in Users : User(u)
      <3>1. CoreInv'
        BY <2>2, <2>4, UserKeepsCore, WorkerKeepsCore, ReceiverKeepsCore DEF Threads, IConnection
      <3>2. FlagsOK'
        BY <2>2, <2>4, FlagsKept DEF IConnection
      <3> QED BY <2>1, <2>2, <3>1, <3>2 DEF IConnection
    <2> QED BY <1>1, <2>3, <2>4 DEF TcpNext
  <1>2. CASE UNCHANGED tcpVars
    BY <1>2 DEF tcpVars, handler, worker, link, flags, receiver, IConnection, CoreInv, OtherOK, FlagsOK,
                ReceiverInv, WorkerInv, ReconnectComesUp, DeadConnectionIsDropped, queued
  <1> QED BY <1>1, <1>2

\* The handler starts in it.
LEMMA IConnectionInitially == ASSUME Constants, TcpInit PROVE IConnection
  <1>1. CoreInv
    BY CoreInitially
  <1>2. FlagsOK
    BY Zenon DEF TcpInit, FlagsOK
  <1> QED BY <1>1, <1>2 DEF TcpInit, IConnection, ReconnectComesUp, DeadConnectionIsDropped

\* At every moment at most one receive thread exists, for the connection the worker has or is
\* closing; a handler that is to stay connected and is not has an attempt coming up; and a
\* connection whose receive thread has ended is about to be closed: whatever users, worker,
\* receive thread and timer do, for any number of users and connections and any buffer.
THEOREM ConnectionIsSafe == ASSUME Constants PROVE TcpSpec => []ConnectionInv
  <1>1. TcpInit => IConnection
    BY IConnectionInitially
  <1>2. IConnection /\ [TcpNext]_tcpVars => IConnection'
    BY IConnectionKept
  <1>3. IConnection => ConnectionInv
    BY DEF IConnection, ConnectionInv, CoreInv, OtherOK, FlagsOK, TcpTypeOK
  <1> QED BY <1>1, <1>2, <1>3, PTL DEF TcpSpec
-----------------------------------------------------------------------------
(* connections made by one connect() and the reconnect timer *)

\* Where an attempt to connect can be, and where the failures of connections are.
Attempting(i) == eventQueue[i].kind \in {"connect", "reconnect"}
Calling == \E u \in Users : upc[u] = "connect"
Coming == \E i \in DOMAIN eventQueue : Attempting(i)

OneComing == \A i, j \in DOMAIN eventQueue : Attempting(i) /\ Attempting(j) => i = j
NoFailureBehind == \A i, j \in DOMAIN eventQueue : Attempting(i) /\ i < j => eventQueue[j].kind # "drop"
NoFailure == \A i \in DOMAIN eventQueue : eventQueue[i].kind # "drop"
FailureOf(c) == \A i \in DOMAIN eventQueue : eventQueue[i].kind = "drop" => eventQueue[i].conn = c

\* There is one connection or one attempt at it, on its way from the user or the timer to the
\* worker.
OneAttempt ==
  /\ Calling \/ reconnectTimer \/ Coming => socket = 0 /\ wpc = "idle" /\ count["connects"] # 0
  /\ socket # 0 \/ wpc # "idle" => count["connects"] # 0
  /\ Calling => ~reconnectTimer /\ ~Coming
  /\ reconnectTimer => ~Coming
  /\ \A u, v \in Users : upc[u] = "connect" /\ upc[v] = "connect" => u = v
  /\ OneComing

\* So no failure is queued behind an attempt, and none of an earlier connection is left over.
FailuresAreLatest ==
  /\ NoFailureBehind
  /\ wpc \in {"connecting", "tls"} => NoFailure
  /\ FailureOf(established)

IDrop == IConnection /\ OneAttempt /\ FailuresAreLatest

\* What a task at the end of the queue changes of this.
LEMMA PutKeeps ==
  ASSUME IDrop, UNCHANGED established, NEW k \in Kinds, NEW c \in Nat, eventQueue' = enqueuedFor(k, c)
  PROVE  /\ k \notin {"connect", "reconnect"} => (Coming' => Coming) /\ OneComing'
         /\ ~Coming => OneComing'
         /\ k # "drop" => NoFailureBehind' /\ (NoFailure => NoFailure') /\ FailureOf(established)'
         /\ ~Coming => NoFailureBehind'
         /\ c = established => FailureOf(established)'
  <1>1. /\ \A i \in DOMAIN eventQueue' :
               \/ i \in DOMAIN eventQueue /\ eventQueue'[i] = eventQueue[i]
               \/ i = Len(eventQueue) + 1 /\ eventQueue'[i].kind = k /\ eventQueue'[i].conn = c
        /\ DOMAIN eventQueue = 1..Len(eventQueue) /\ Len(eventQueue) \in Nat
    <2>1. eventQueue \in Seq(Task) /\ ~suppressEnqueue
      BY DEF IDrop, IConnection, CoreInv, OtherOK
    <2> QED BY <2>1, QueuedAfter
  <1> USE DEF IDrop, OneAttempt, FailuresAreLatest, Attempting
  <1>2. k \notin {"connect", "reconnect"} => (Coming' => Coming) /\ OneComing'
    BY <1>1 DEF Coming, OneComing
  <1>3. ~Coming => OneComing' /\ NoFailureBehind'
    BY <1>1 DEF Coming, OneComing, NoFailureBehind
  <1>4. k # "drop" => NoFailureBehind' /\ (NoFailure => NoFailure') /\ FailureOf(established)'
    BY <1>1 DEF NoFailureBehind, NoFailure, FailureOf
  <1>5. c = established => FailureOf(established)'
    BY <1>1 DEF FailureOf
  <1> QED BY <1>2, <1>3, <1>4, <1>5

\* What taking a task changes.
LEMMA TakeKeeps ==
  ASSUME IDrop, UNCHANGED established, NEW k, take(k)
  PROVE  /\ wpc = "idle" /\ (Coming' => Coming) /\ OneComing' /\ NoFailureBehind' /\ FailureOf(established)'
         /\ k \in {"connect", "reconnect"} => Coming /\ ~Coming' /\ NoFailure'
  <1>1. /\ wpc = "idle" /\ 1 \in DOMAIN eventQueue /\ eventQueue[1].kind = k
        /\ \A i \in DOMAIN eventQueue' : /\ i \in Nat /\ i > 0
                                         /\ i + 1 \in DOMAIN eventQueue /\ eventQueue'[i] = eventQueue[i + 1]
    <2>1. eventQueue \in Seq(Task)
      BY DEF IDrop, IConnection, CoreInv, OtherOK
    <2> QED BY <2>1, QueuedAfterTake, Taken DEF take
  <1> USE DEF IDrop, OneAttempt, FailuresAreLatest, Attempting
  <1>2. (Coming' => Coming) /\ (k \in {"connect", "reconnect"} => Coming)
    BY <1>1 DEF Coming
  <1>3. OneComing'
    BY <1>1 DEF OneComing
  <1>4. k \in {"connect", "reconnect"} => ~Coming'
    BY <1>1 DEF OneComing, Coming
  <1>5. NoFailureBehind' /\ (k \in {"connect", "reconnect"} => NoFailure')
    BY <1>1 DEF NoFailureBehind, NoFailure
  <1>6. FailureOf(established)'
    BY <1>1 DEF FailureOf
  <1> QED BY <1>1, <1>2, <1>3, <1>4, <1>5, <1>6

\* What is queued stays queued while the queue is left alone.
LEMMA SameQueue ==
  ASSUME UNCHANGED eventQueue
  PROVE  /\ Coming' = Coming /\ OneComing' = OneComing /\ NoFailureBehind' = NoFailureBehind
         /\ NoFailure' = NoFailure /\ (UNCHANGED established => FailureOf(established)' = FailureOf(established))
         /\ NoFailure => FailureOf(established)'
  BY DEF Coming, OneComing, NoFailureBehind, NoFailure, FailureOf, Attempting

\* A step keeps both, as long as connect() is called once.
LEMMA DropStep ==
  ASSUME Constants, MaxConnects = 1, IDrop, TcpNext
  PROVE  OneAttempt' /\ FailuresAreLatest'
  <1> USE DEF IDrop, IConnection, CoreInv, OtherOK, ReceiverInv, OneAttempt, FailuresAreLatest,
              Calling, worker, link, flags, receiver, done, enqueued
  <1>1. ASSUME NEW u \in Users, ConnectCall(u) PROVE OneAttempt' /\ FailuresAreLatest'
    BY SameQueue, <1>1 DEF ConnectCall, counted
  <1>2. ASSUME NEW u \in Users, DisconnectCall(u) PROVE OneAttempt' /\ FailuresAreLatest'
    BY SameQueue, <1>2 DEF DisconnectCall, counted
  <1>3. ASSUME NEW u \in Users, QueueCall(u) PROVE OneAttempt' /\ FailuresAreLatest'
    BY PutKeeps, <1>3, Zenon DEF QueueCall, counted, Kinds
  <1>4. ASSUME NEW u \in Users, SendCall(u) PROVE OneAttempt' /\ FailuresAreLatest'
    BY PutKeeps, <1>4, Zenon DEF SendCall, counted, Kinds
  <1>5. CASE RunConnect
    BY TakeKeeps, <1>5, Zenon DEF RunConnect, begin
  <1>6. CASE RunReconnect
    BY TakeKeeps, <1>6, Zenon DEF RunReconnect, begin
  <1>7. CASE RunOnConnect
    BY TakeKeeps, <1>7, Zenon DEF RunOnConnect
  <1>8. CASE RunDisconnect
    BY TakeKeeps, <1>8, Zenon DEF RunDisconnect, begin
  <1>9. CASE RunDispatch
    BY TakeKeeps, <1>9, Zenon DEF RunDispatch, begin
  <1>10. CASE RunSend
    BY TakeKeeps, <1>10, Zenon DEF RunSend, begin
  <1>11. CASE ConnectFails
    BY SameQueue, <1>11 DEF ConnectFails
  <1>12. CASE ConnectSucceeds
    BY SameQueue, <1>12 DEF ConnectSucceeds
  <1>13. CASE TlsFails
    BY SameQueue, <1>13 DEF TlsFails
  <1>14. CASE Joined
    BY SameQueue, <1>14 DEF Joined
  <1>15. CASE Deliver
    BY SameQueue, <1>15 DEF Deliver
  <1>16. CASE DispatchEnds
    BY SameQueue, <1>16 DEF DispatchEnds
  <1>17. CASE SendCompletes
    BY SameQueue, <1>17 DEF SendCompletes
  <1>18. CASE SendAbandoned
    BY SameQueue, <1>18 DEF SendAbandoned
  <1>19. CASE ReceiveTop
    BY SameQueue, <1>19 DEF ReceiveTop
  <1>20. CASE ReceiveNothing
    BY SameQueue, <1>20 DEF ReceiveNothing
  <1>21. CASE ReceiveData
    BY SameQueue, <1>21 DEF ReceiveData, counted
  <1>22. CASE ReceiveCheck
    BY SameQueue, <1>22 DEF ReceiveCheck
  <1>23. CASE ReceiveFails
    BY SameQueue, <1>23 DEF ReceiveFails
  <1>24. CASE TlsSucceeds
    BY PutKeeps, <1>24, Zenon DEF TlsSucceeds, Kinds
  <1>25. CASE SendFails
    BY PutKeeps, <1>25, Zenon DEF SendFails, Kinds
  <1>26. CASE SendSelectFails
    BY PutKeeps, <1>26, Zenon DEF SendSelectFails, Kinds, counted
  <1>27. CASE ReceiveQueue
    BY PutKeeps, <1>27, Zenon DEF ReceiveQueue, Kinds
  <1>28. CASE TimerFires
    BY PutKeeps, <1>28, Zenon DEF TimerFires, Kinds
  <1>29. CASE Quiet
    BY SameQueue, <1>29 DEF Quiet, handler
  <1> QED BY <1>1, <1>2, <1>3, <1>4, <1>5, <1>6, <1>7, <1>8, <1>9, <1>10, <1>11, <1>12, <1>13, <1>14,
             <1>15, <1>16, <1>17, <1>18, <1>19, <1>20, <1>21, <1>22, <1>23, <1>24, <1>25, <1>26, <1>27,
             <1>28, <1>29, Zenon
          DEF TcpNext, User, Threads, Worker, TakeTask, Attempt, Receiver

\* A disconnect queued because a connection failed closes that connection and no later one, for
\* any number of connections, as long as they come from one connect() and the reconnect timer.
THEOREM FailureClosesItsOwn == ASSUME Constants, MaxConnects = 1 PROVE TcpSpec => DropClosesItsOwn
  <1>1. TcpInit => IDrop
    <2> SUFFICES ASSUME TcpInit PROVE IDrop
      OBVIOUS
    <2>1. IConnection
      BY IConnectionInitially
    <2> QED BY <2>1 DEF TcpInit, IDrop, OneAttempt, FailuresAreLatest, Calling, Coming, OneComing,
                        NoFailureBehind, NoFailure, FailureOf
  <1>2. IDrop /\ [TcpNext]_tcpVars => IDrop'
    <2> SUFFICES ASSUME IDrop, [TcpNext]_tcpVars PROVE IDrop'
      OBVIOUS
    <2>1. IConnection'
      BY IConnectionKept DEF IDrop
    <2>2. CASE TcpNext
      BY <2>1, <2>2, DropStep DEF IDrop
    <2>3. CASE UNCHANGED tcpVars
      BY <2>1, <2>3, SameQueue DEF IDrop, OneAttempt, FailuresAreLatest, Calling, tcpVars, handler,
                                   worker, link,
                                   flags, receiver
    <2> QED BY <2>2, <2>3
  <1>3. IDrop /\ [TcpNext]_tcpVars =>
          [(wpc = "idle" /\ wpc' = "join" /\ Head(task').kind = "drop") => Head(task').conn = socket]_tcpVars
    <2> SUFFICES ASSUME IDrop, TcpNext, wpc = "idle", wpc' = "join", Head(task').kind = "drop"
                 PROVE  Head(task').conn = socket
      BY DEF tcpVars
    <2>1. RunDisconnect /\ socket # 0 /\ task' = <<Head(eventQueue)>>
      BY DEF TcpNext, User, ConnectCall, DisconnectCall, QueueCall, SendCall, Threads, Worker, TakeTask,
             Attempt,
             Receiver, RunConnect, RunReconnect, RunOnConnect, RunDisconnect, RunDispatch, RunSend,
             ConnectFails,
             ConnectSucceeds, TlsFails, TlsSucceeds, Joined, Deliver, DispatchEnds, SendCompletes,
             SendAbandoned,
             SendFails, SendSelectFails, ReceiveTop, ReceiveNothing, ReceiveData, ReceiveCheck,
             ReceiveFails,
             ReceiveQueue, TimerFires, Quiet, handler, worker, begin, done
    <2>2. eventQueue \in Seq(Task) /\ eventQueue # <<>>
      BY <2>1 DEF RunDisconnect, take, IDrop, IConnection, CoreInv, OtherOK
    <2>3. 1 \in DOMAIN eventQueue /\ Head(eventQueue) = eventQueue[1] /\ Head(task') = Head(eventQueue)
      BY <2>1, <2>2, Taken, Single
    <2> QED BY <2>1, <2>3 DEF IDrop, IConnection, CoreInv, ReceiverInv, FailuresAreLatest, FailureOf
  <1> QED BY <1>1, <1>2, <1>3, PTL DEF TcpSpec, DropClosesItsOwn
-----------------------------------------------------------------------------
(* the client that is destroyed *)

\* The connection is down and nothing that is queued brings it up.
Down == socket = 0 /\ wpc = "idle" /\ rpc = "none" /\ ~queued("connect")

\* A disconnect is queued behind every connect.
Behind ==
  \E j \in DOMAIN eventQueue : /\ eventQueue[j].kind = "disconnect"
                               /\ \A i \in DOMAIN eventQueue : eventQueue[i].kind = "connect" => i < j

\* The disconnect of a destructor is queued, or is being carried out, or has been.
Ending == \/ Behind
          \/ wpc = "join" /\ Head(task).kind = "disconnect" /\ ~queued("connect")
          \/ Down

\* Nothing reconnects, nor will anything that is queued allow it.
NoReconnect == /\ ~enableReconnect /\ ~reconnectTimer /\ ~queued("reconnect")
               /\ queued("connect") => ReconnectModes \subseteq {FALSE}

TeardownSteps == {"alive", "flag", "cancel", "queue", "wait", "drain", "draining", "release", "gone"}

\* How far the destructors are.
Position ==
  /\ dpc \in TeardownSteps \X {1, 2, 3}
  /\ at("alive") => destructor = 1
  /\ destructor = 3 => dpc[1] \in {"drain", "draining", "release", "gone"}
  /\ at("gone") => destructor = 3
  /\ suppressEnqueue => at("draining")
  /\ ~at("alive") => \A u \in Users : upc[u] = "idle"
  /\ settled => ~at("alive") /\ ~(at("flag") /\ destructor = 1)

\* What that says of the connection of a client that does not reconnect any more.
Progress ==
  /\ at("wait") => Ending
  /\ dpc[1] \in {"drain", "draining", "release", "gone"} \/ destructor # 1 => Down
  /\ at("release") => eventQueue = <<>>
  /\ destructor # 1 => \A i \in DOMAIN eventQueue : eventQueue[i].kind = "disconnect"

ITeardown == CoreInv /\ Position /\ (settled => NoReconnect /\ Progress)

\* What is queued after a task was put at the end.
LEMMA QueueingAfterPut ==
  ASSUME eventQueue \in Seq(Task), NEW k \in Kinds, NEW c \in Nat, eventQueue' = enqueuedFor(k, c)
  PROVE  /\ \A x : x # k => (queued(x)' => queued(x))
         /\ k # "connect" /\ Behind => Behind'
         /\ (\A i \in DOMAIN eventQueue : eventQueue[i].kind = "disconnect") /\ k = "disconnect"
              => \A i \in DOMAIN eventQueue' : eventQueue'[i].kind = "disconnect"
         /\ k = "disconnect" /\ ~suppressEnqueue => Behind'
  <1>1. CASE suppressEnqueue
    BY <1>1 DEF enqueuedFor, queued, Behind
  <1>2. CASE ~suppressEnqueue
    <2>1. /\ \A i \in DOMAIN eventQueue : i \in DOMAIN eventQueue' /\ eventQueue'[i] = eventQueue[i]
          /\ \A i \in DOMAIN eventQueue' :
               \/ i \in DOMAIN eventQueue /\ eventQueue'[i] = eventQueue[i]
               \/ i = Len(eventQueue) + 1 /\ eventQueue'[i].kind = k
          /\ DOMAIN eventQueue = 1..Len(eventQueue) /\ Len(eventQueue) \in Nat
      BY <1>2, QueuedAfter
    <2>2. \A x : x # k => (queued(x)' => queued(x))
      BY <2>1 DEF queued
    <2>3. k # "connect" /\ Behind => Behind'
      BY <2>1 DEF Behind
    <2>4. k = "disconnect" => Behind'
      <3> SUFFICES ASSUME k = "disconnect" PROVE Behind'
        OBVIOUS
      <3>1. Len(eventQueue) + 1 \in DOMAIN eventQueue'
        BY <1>2, QueuedLast
      <3> QED BY <2>1, <3>1 DEF Behind
    <2> QED BY <2>1, <2>2, <2>3, <2>4
  <1> QED BY <1>1, <1>2

\* What is queued after a task was taken.
LEMMA QueueingAfterTake ==
  ASSUME eventQueue \in Seq(Task), NEW k, take(k)
  PROVE  /\ wpc = "idle" /\ queued(k)
         /\ \A x : queued(x)' => queued(x)
         /\ (\A i \in DOMAIN eventQueue : eventQueue[i].kind = "disconnect")
              => \A i \in DOMAIN eventQueue' : eventQueue'[i].kind = "disconnect"
         /\ Behind => Behind' \/ (k = "disconnect" /\ ~queued("connect")')
  <1>1. /\ wpc = "idle" /\ 1 \in DOMAIN eventQueue /\ eventQueue[1].kind = k
        /\ DOMAIN eventQueue \subseteq Nat \ {0}
        /\ \A i \in DOMAIN eventQueue' : /\ i \in Nat /\ i > 0
                                         /\ i + 1 \in DOMAIN eventQueue /\ eventQueue'[i] = eventQueue[i + 1]
        /\ \A i \in DOMAIN eventQueue : i # 1 => i - 1 \in DOMAIN eventQueue' /\ eventQueue'[i - 1] = eventQueue[i]
    BY QueuedAfterTake, Taken DEF take
  <1>2. \A x : queued(x)' => queued(x)
    BY <1>1 DEF queued
  <1>3. ASSUME NEW j \in DOMAIN eventQueue, eventQueue[j].kind = "disconnect",
               \A i \in DOMAIN eventQueue : eventQueue[i].kind = "connect" => i < j
        PROVE  Behind' \/ (k = "disconnect" /\ ~queued("connect")')
    <2>1. CASE j = 1
      BY <1>1, <1>3, <2>1 DEF queued
    <2>2. CASE j # 1
      <3>1. /\ j - 1 \in DOMAIN eventQueue' /\ eventQueue'[j - 1].kind = "disconnect"
            /\ \A i \in DOMAIN eventQueue' : eventQueue'[i].kind = "connect" => i < j - 1
        <4>1. j \in Nat /\ j - 1 \in DOMAIN eventQueue' /\ eventQueue'[j - 1].kind = "disconnect"
          BY ONLY <1>1, <1>3, <2>2
        <4>2. ASSUME NEW i \in DOMAIN eventQueue', eventQueue'[i].kind = "connect" PROVE i < j - 1
          <5>1. i \in Nat /\ i + 1 < j
            BY ONLY <1>1, <1>3, <4>2
          <5> QED BY ONLY <4>1, <5>1
        <4> QED BY ONLY <4>1, <4>2
      <3> QED BY <3>1 DEF Behind
    <2> QED BY <2>1, <2>2
  <1> QED BY <1>1, <1>2, <1>3 DEF Behind, queued

\* Nothing starts the reconnect timer of a handler that may not reconnect.
LEMMA NoReconnectKept ==
  ASSUME CoreInv, NoReconnect, Threads
  PROVE  NoReconnect'
  <1>1. eventQueue \in Seq(Task) /\ socket \in Nat /\ rconn \in Nat
    BY DEF CoreInv, OtherOK
  <1> DEFINE Fewer == /\ queued("reconnect")' => queued("reconnect")
                      /\ queued("connect")' => queued("connect")
  <1>2. ASSUME NEW k, take(k)
        PROVE  Fewer
    BY <1>1, <1>2, QueueingAfterTake
  <1>3. ASSUME NEW k \in Kinds, k \notin {"connect", "reconnect"}, NEW c \in Nat, eventQueue' = enqueuedFor(k, c)
        PROVE  Fewer
    BY <1>1, <1>3, QueueingAfterPut
  <1>4. UNCHANGED eventQueue => Fewer
    BY DEF queued
  <1>5. ASSUME Fewer, ~enableReconnect', ~reconnectTimer'
        PROVE  NoReconnect'
    BY <1>5, Zenon DEF NoReconnect
  <1> HIDE DEF Fewer
  <1>6. CASE TakeTask
    <2>1. ~enableReconnect' /\ ~reconnectTimer'
      <3>1. CASE RunConnect
        <4>1. ReconnectModes \subseteq {FALSE}
          BY <1>1, <3>1, QueueingAfterTake DEF RunConnect, NoReconnect
        <4>2. enableReconnect' = enableReconnect \/ enableReconnect' \in ReconnectModes
          BY <3>1 DEF RunConnect
        <4>3. ~enableReconnect'
          BY <4>1, <4>2, Zenon DEF NoReconnect
        <4> QED BY <3>1, <4>3 DEF RunConnect, NoReconnect
      <3>2. CASE ~RunConnect
        BY <1>6, <3>2 DEF TakeTask, RunReconnect, RunOnConnect, RunDisconnect, RunDispatch, RunSend,
                          NoReconnect, flags
      <3> QED BY <3>1, <3>2
    <2>2. \E k : take(k)
      BY <1>6, Zenon DEF TakeTask, RunConnect, RunReconnect, RunOnConnect, RunDisconnect, RunDispatch,
                         RunSend
    <2> QED BY <1>2, <1>5, <2>1, <2>2
  <1>7. CASE ConnectFails \/ ConnectSucceeds \/ TlsFails \/ Joined \/ Deliver \/ DispatchEnds
    <2>1. /\ reconnectTimer' = reconnectTimer \/ reconnectTimer' = (reconnectTimer \/ enableReconnect)
          /\ enableReconnect' = enableReconnect /\ UNCHANGED eventQueue
      BY <1>7 DEF ConnectFails, ConnectSucceeds, TlsFails, Joined, Deliver, DispatchEnds, flags
    <2>2. ~enableReconnect'
      BY <2>1, Zenon DEF NoReconnect
    <2>3. ~reconnectTimer'
      BY <2>1 DEF NoReconnect
    <2> QED BY <1>4, <1>5, <2>1, <2>2, <2>3
  <1>8. CASE SendCompletes \/ SendAbandoned \/ ReceiveTop \/ ReceiveNothing \/ ReceiveData \/ ReceiveCheck \/ ReceiveFails
    <2>1. UNCHANGED <<eventQueue, enableReconnect, reconnectTimer>>
      BY <1>8 DEF SendCompletes, SendAbandoned, ReceiveTop, ReceiveNothing, ReceiveData,
                  ReceiveCheck, ReceiveFails, flags
    <2> QED BY <1>4, <1>5, <2>1 DEF NoReconnect
  <1>9. CASE TlsSucceeds \/ SendFails \/ SendSelectFails \/ ReceiveQueue
    <2>1. /\ UNCHANGED <<enableReconnect, reconnectTimer>>
          /\ \E k \in {"onConnect", "drop", "dispatch"}, c \in Nat : eventQueue' = enqueuedFor(k, c)
      BY <1>1, <1>9 DEF TlsSucceeds, SendFails, SendSelectFails, ReceiveQueue, enqueued, flags
    <2>2. Fewer
      BY <1>3, <2>1 DEF Kinds
    <2> QED BY <1>5, <2>1, <2>2 DEF NoReconnect
  <1>10. ~TimerFires
    BY DEF TimerFires, NoReconnect
  <1> QED BY <1>6, <1>7, <1>8, <1>9, <1>10 DEF Threads, Worker, Attempt, Receiver

\* While the connection is down the worker only empties the queue.
LEMMA DownKept ==
  ASSUME CoreInv, NoReconnect, Down, Threads
  PROVE  /\ Down' /\ eventQueue # <<>>
         /\ (\A i \in DOMAIN eventQueue : eventQueue[i].kind = "disconnect")
              => \A i \in DOMAIN eventQueue' : eventQueue'[i].kind = "disconnect"
  <1>1. TakeTask
    BY DEF Down, NoReconnect, Threads, Worker, Attempt, Receiver, TimerFires, ConnectFails,
           ConnectSucceeds,
           TlsFails, TlsSucceeds, Joined, Deliver, DispatchEnds, SendCompletes, SendAbandoned,
           SendFails,
           SendSelectFails, ReceiveTop, ReceiveNothing, ReceiveData, ReceiveCheck, ReceiveFails,
           ReceiveQueue
  <1>2. PICK k : take(k) /\ UNCHANGED rpc /\ (k \notin {"connect", "reconnect"} => socket' = 0 /\ wpc' = wpc)
    BY <1>1 DEF Down, TakeTask, RunConnect, RunReconnect, RunOnConnect, RunDisconnect, RunDispatch,
                RunSend,
                worker, link, receiver
  <1>3. /\ queued(k) /\ (queued("connect")' => queued("connect"))
        /\ (\A i \in DOMAIN eventQueue : eventQueue[i].kind = "disconnect")
              => \A i \in DOMAIN eventQueue' : eventQueue'[i].kind = "disconnect"
    BY <1>2, QueueingAfterTake DEF CoreInv, OtherOK
  <1> QED BY <1>2, <1>3 DEF Down, NoReconnect, take

\* A destructor that waits for its disconnect waits for what will bring the connection down.
LEMMA EndingKept ==
  ASSUME CoreInv, NoReconnect, Ending, Threads
  PROVE  Ending'
  <1>1. eventQueue \in Seq(Task) /\ socket \in Nat /\ rconn \in Nat
    BY DEF CoreInv, OtherOK
  <1>2. CASE Down
    BY <1>2, DownKept DEF Ending
  <1>3. CASE Behind
    <2>1. ASSUME NEW k, take(k)
          PROVE  Behind' \/ (k = "disconnect" /\ ~queued("connect")')
      BY <1>1, <1>3, <2>1, QueueingAfterTake
    <2>2. CASE RunDisconnect
      <3>1. CASE Behind'
        BY <3>1 DEF Ending
      <3>2. CASE ~Behind'
        <4>1. take("disconnect") /\ ~queued("connect")'
          BY <2>1, <2>2, <3>2 DEF RunDisconnect
        <4>2. CASE socket = 0
          BY <2>2, <4>1, <4>2 DEF RunDisconnect, Ending, Down, CoreInv, ReceiverInv, take, worker,
                                  receiver
        <4>3. CASE socket # 0
          <5>1. task' = <<Head(eventQueue)>> /\ wpc' = "join" /\ Head(eventQueue).kind = "disconnect"
            BY <2>2, <4>1, <4>3 DEF RunDisconnect, begin, take
          <5>2. Head(task').kind = "disconnect"
            BY <1>1, <4>1, <5>1, Taken, Single DEF take
          <5> QED BY <4>1, <5>1, <5>2 DEF Ending
        <4> QED BY <4>2, <4>3
      <3> QED BY <3>1, <3>2
    <2>3. CASE TakeTask /\ ~RunDisconnect
      BY <2>1, <2>3 DEF TakeTask, RunConnect, RunReconnect, RunOnConnect, RunDispatch, RunSend, Ending
    <2>4. ASSUME NEW k \in Kinds, k # "connect", NEW c \in Nat, eventQueue' = enqueuedFor(k, c)
          PROVE  Ending'
      BY <1>1, <1>3, <2>4, QueueingAfterPut DEF Ending
    <2>5. ASSUME UNCHANGED eventQueue
          PROVE  Ending'
      BY <1>3, <2>5 DEF Ending, Behind
    <2>6. CASE Attempt \/ Joined \/ Deliver \/ DispatchEnds
      BY <1>1, <2>4, <2>5, <2>6 DEF Attempt, ConnectFails, ConnectSucceeds, TlsFails, TlsSucceeds,
                                    Joined, Deliver,
                                    DispatchEnds, enqueued, Kinds
    <2>7. CASE SendCompletes \/ SendAbandoned \/ SendFails \/ SendSelectFails
      BY <1>1, <2>4, <2>5, <2>7 DEF SendCompletes, SendAbandoned, SendFails, SendSelectFails, enqueued,
                                    Kinds
    <2>8. CASE Receiver \/ TimerFires
      BY <1>1, <2>4, <2>5, <2>8 DEF Receiver, ReceiveTop, ReceiveNothing, ReceiveData, ReceiveCheck,
                                    ReceiveFails,
                                    ReceiveQueue, TimerFires, enqueued, Kinds
    <2> QED BY <2>2, <2>3, <2>6, <2>7, <2>8 DEF Threads, Worker
  <1>4. CASE wpc = "join" /\ Head(task).kind = "disconnect" /\ ~queued("connect")
    <2>1. CASE Joined
      BY <1>4, <2>1 DEF Joined, done, Ending, Down, link, CoreInv, ReceiverInv, queued
    <2>2. CASE Receiver
      <3>1. wpc' = wpc /\ task' = task
        BY <2>2 DEF Receiver, ReceiveTop, ReceiveNothing, ReceiveData, ReceiveCheck, ReceiveFails,
                    ReceiveQueue, worker
      <3>2. UNCHANGED eventQueue \/ \E k \in {"dispatch", "drop"} : eventQueue' = enqueuedFor(k, rconn)
        BY <2>2 DEF Receiver, ReceiveTop, ReceiveNothing, ReceiveData, ReceiveCheck, ReceiveFails,
                    ReceiveQueue
      <3>3. queued("connect")' => queued("connect")
        <4>1. CASE UNCHANGED eventQueue
          BY <4>1 DEF queued
        <4>2. ASSUME NEW k \in {"dispatch", "drop"}, eventQueue' = enqueuedFor(k, rconn)
              PROVE  queued("connect")' => queued("connect")
          BY <1>1, <4>2, QueueingAfterPut DEF Kinds
        <4> QED BY <3>2, <4>1, <4>2
      <3> QED BY <1>4, <3>1, <3>3 DEF Ending
    <2>3. ~TimerFires
      BY DEF TimerFires, NoReconnect
    <2> QED BY <1>4, <2>1, <2>2, <2>3 DEF Threads, Worker, TakeTask, Attempt, RunConnect, RunReconnect,
                                          RunOnConnect,
              RunDisconnect, RunDispatch, RunSend, take, ConnectFails, ConnectSucceeds, TlsFails,
              TlsSucceeds, Deliver,
              DispatchEnds, SendCompletes, SendAbandoned, SendFails, SendSelectFails
  <1> QED BY <1>2, <1>3, <1>4 DEF Ending

\* A step of the connection's own threads leaves the users and the destructor where they are,
\* and what that says of the connection.
LEMMA ThreadsKeepUsers ==
  ASSUME Threads
  PROVE  UNCHANGED upc
  BY Zenon DEF Threads, Worker, TakeTask, Attempt, Receiver, RunConnect, RunReconnect, RunOnConnect,
         RunDisconnect, RunDispatch, RunSend, ConnectFails, ConnectSucceeds, TlsFails, TlsSucceeds,
         Joined, Deliver, DispatchEnds, SendCompletes, SendAbandoned, SendFails, SendSelectFails,
         ReceiveTop, ReceiveNothing, ReceiveData, ReceiveCheck, ReceiveFails, ReceiveQueue, TimerFires

\* The threads go on while a destructor is at work.
LEMMA ThreadsKeepProgress ==
  ASSUME CoreInv, NoReconnect, Progress, Threads, UNCHANGED dpc
  PROVE  Progress'
  <1>1. Ending => Ending'
    BY EndingKept
  <1>2. Down => /\ Down' /\ eventQueue # <<>>
                /\ (\A i \in DOMAIN eventQueue : eventQueue[i].kind = "disconnect")
                     => \A i \in DOMAIN eventQueue' : eventQueue'[i].kind = "disconnect"
    BY DownKept
  <1> QED BY <1>1, <1>2 DEF Progress, at, destructor

\* The steps of the destroying thread, and the clearing of the event handlers.
DestroyStep == ClearHandlers \/ Destroy \/ (RunClear /\ UNCHANGED destroying)

\* What a step of the destroying thread does to the queue.
LEMMA DestroyQueues ==
  ASSUME eventQueue \in Seq(Task), socket \in Nat, NEW k \in {"clear", "disconnect"}, eventQueue' = enqueued(k)
  PROVE  /\ eventQueue' \in Seq(Task)
         /\ queued("connect")' => queued("connect")
         /\ queued("reconnect")' => queued("reconnect")
         /\ k = "disconnect" /\ ~suppressEnqueue => Behind'
         /\ (\A i \in DOMAIN eventQueue : eventQueue[i].kind = "disconnect") /\ k = "disconnect"
              => \A i \in DOMAIN eventQueue' : eventQueue'[i].kind = "disconnect"
  <1>1. k \in Kinds /\ eventQueue' = enqueuedFor(k, socket)
    BY DEF enqueued, Kinds
  <1>2. eventQueue' \in Seq(Task)
    BY <1>1, Enqueued
  <1> QED BY <1>1, <1>2, QueueingAfterPut

\* Where a step of the destroying thread may lead.
LEMMA PositionAt ==
  ASSUME NEW p \in TeardownSteps \ {"alive"}, NEW n \in {1, 2, 3}, dpc' = <<p, n>>,
         n = 3 => p \in {"drain", "draining", "release", "gone"}, p = "gone" => n = 3,
         suppressEnqueue' => p = "draining",
         \A u \in Users : upc'[u] = "idle",
         settled' => ~(p = "flag" /\ n = 1)
  PROVE  Position'
  <1>1. dpc'[1] = p /\ dpc'[2] = n
    OBVIOUS
  <1> QED BY <1>1 DEF Position, at, destructor

\* The destructors keep what the connection always keeps, and go on step by step.
LEMMA DestroyKeepsPosition ==
  ASSUME CoreInv, Position, DestroyStep
  PROVE  CoreInv' /\ Position'
  <1>1. /\ eventQueue \in Seq(Task) /\ socket \in Nat /\ dpc \in TeardownSteps \X {1, 2, 3}
        /\ dpc = <<dpc[1], dpc[2]>>
    BY DEF CoreInv, OtherOK, Position
  <1>2. eventQueue' \in Seq(Task)
    <2>1. ASSUME NEW k \in {"clear", "disconnect"}, eventQueue' = enqueued(k)
          PROVE  eventQueue' \in Seq(Task)
      BY <1>1, <2>1, DestroyQueues
    <2>2. CASE eventQueue' = eventQueue
      BY <1>1, <2>2
    <2>3. CASE take("clear")
      BY <1>1, <2>3, QueuedAfterTake, Taken DEF take
    <2>4. CASE eventQueue' = <<>>
      BY <2>4
    <2> QED BY <2>1, <2>2, <2>3, <2>4 DEF DestroyStep, Destroy, ClearHandlers, StopReconnecting, Cancel,
              QueueDisconnect, DisconnectDone, DrainEnter, DrainReturn, Release, RunClear, handler,
              tcpVars
  <1>3. UNCHANGED <<task, wpc, socket, established, rpc, rconn, receiveBuffer, upc, count>>
    BY DEF DestroyStep, Destroy, ClearHandlers, StopReconnecting, Cancel, QueueDisconnect,
           DisconnectDone, DrainEnter, DrainReturn, Release, RunClear, handler, tcpVars, worker, link,
           receiver
  <1>4. CoreInv'
    BY <1>2, <1>3 DEF CoreInv, OtherOK, ReceiverInv, WorkerInv
  <1>5. Position'
    <2> USE DEF at, destructor
    <2> DEFINE Ready == \A u \in Users : upc'[u] = "idle"
    <2>1. CASE ClearHandlers
      <3>1. dpc' = <<"flag", destructor>> /\ UNCHANGED <<settled, suppressEnqueue>> /\ at("alive") /\ Ready
        BY <1>3, <2>1 DEF ClearHandlers, goto
      <3> QED BY <1>1, <3>1, PositionAt DEF Position, TeardownSteps
    <2>2. CASE Destroy
      <3>0. ~at("alive")
        BY <2>2, Zenon DEF Destroy, StopReconnecting, Cancel, QueueDisconnect, DisconnectDone, DrainEnter,
                           DrainReturn, Release
      <3>1. Ready
        BY <1>3, <3>0 DEF Position
      <3>2. CASE StopReconnecting
        <4>1. dpc' = <<"cancel", destructor>> /\ UNCHANGED suppressEnqueue /\ at("flag")
          BY <3>2 DEF StopReconnecting
        <4> QED BY <1>1, <3>1, <4>1, PositionAt DEF Position, TeardownSteps
      <3>3. CASE Cancel
        <4>1. dpc' = <<"queue", destructor>> /\ UNCHANGED suppressEnqueue /\ at("cancel")
          BY <3>3 DEF Cancel, goto
        <4> QED BY <1>1, <3>1, <4>1, PositionAt DEF Position, TeardownSteps
      <3>4. CASE QueueDisconnect
        <4>1. dpc' = <<"wait", destructor>> /\ UNCHANGED suppressEnqueue /\ at("queue")
          BY <3>4 DEF QueueDisconnect, goto
        <4> QED BY <1>1, <3>1, <4>1, PositionAt DEF Position, TeardownSteps
      <3>5. CASE DisconnectDone
        <4>1. dpc' = <<"drain", destructor>> /\ UNCHANGED suppressEnqueue /\ at("wait")
          BY <3>5 DEF DisconnectDone, goto, tcpVars
        <4> QED BY <1>1, <3>1, <4>1, PositionAt DEF Position, TeardownSteps
      <3>6. CASE DrainEnter
        <4>1. dpc' = <<"draining", destructor>>
          BY <3>6 DEF DrainEnter, goto
        <4> QED BY <1>1, <3>1, <4>1, PositionAt DEF TeardownSteps
      <3>7. CASE DrainReturn
        <4>1. dpc' = <<"release", destructor>> /\ ~suppressEnqueue'
          BY <3>7, Zenon DEF DrainReturn, goto
        <4> QED BY <1>1, <3>1, <4>1, PositionAt DEF TeardownSteps
      <3>8. CASE Release
        <4>1. /\ dpc' = <<"flag", 2>> \/ dpc' = <<"drain", 3>> \/ dpc' = <<"gone", 3>>
              /\ suppressEnqueue' = suppressEnqueue /\ at("release")
          BY <3>8, Zenon DEF Release
        <4> QED BY <3>1, <4>1, PositionAt DEF Position, TeardownSteps
      <3> QED BY <2>2, <3>2, <3>3, <3>4, <3>5, <3>6, <3>7, <3>8, Zenon DEF Destroy
    <2>3. CASE RunClear /\ UNCHANGED destroying
      BY <1>3, <2>3 DEF RunClear, destroying, Position
    <2> QED BY <2>1, <2>2, <2>3, Zenon DEF DestroyStep
  <1> QED BY <1>4, <1>5

\* When ~SocketIoClient forbids to reconnect and nothing is about to, nothing will be.
LEMMA Settles ==
  ASSUME CoreInv, Position, StopReconnecting, destructor = 1, settled'
  PROVE  NoReconnect' /\ Progress'
  <1>1. /\ UNCHANGED <<eventQueue, reconnectTimer, suppressEnqueue>> /\ ~enableReconnect'
        /\ dpc' = <<"cancel", 1>> /\ NothingReconnects
    BY DEF StopReconnecting
  <1>2. NoReconnect'
    BY <1>1 DEF NoReconnect, NothingReconnects, queued
  <1>3. Progress'
    BY <1>1 DEF Progress, at, destructor
  <1> QED BY <1>2, <1>3

\* The destructors bring the connection of such a client down and keep it down.
LEMMA DestroyKeepsProgress ==
  ASSUME CoreInv, Position, settled, NoReconnect, Progress, DestroyStep
  PROVE  NoReconnect' /\ Progress'
  <1>1. /\ eventQueue \in Seq(Task) /\ socket \in Nat /\ dpc \in TeardownSteps \X {1, 2, 3}
        /\ dpc = <<dpc[1], dpc[2]>>
    BY DEF CoreInv, OtherOK, Position
  <1>2. UNCHANGED <<eventQueue, socket, wpc, rpc, task>> =>
          /\ queued("connect")' = queued("connect") /\ queued("reconnect")' = queued("reconnect")
          /\ Down' = Down /\ Ending' = Ending
    BY DEF queued, Behind, Down, Ending
  <1>3. UNCHANGED <<socket, wpc, rpc, task>> /\ (queued("connect")' => queued("connect")) =>
          /\ Down => Down'
          /\ Behind' => Ending'
    BY DEF Down, Ending
  <1> USE DEF at, goto, destructor, handler, worker, link, flags, receiver, tcpVars
  <1>4. CASE ClearHandlers
    BY <1>4 DEF ClearHandlers, Position
  <1>5. CASE StopReconnecting
    <2>1. destructor = 2 /\ dpc' = <<"cancel", 2>>
      BY <1>1, <1>5 DEF StopReconnecting, Position
    <2>2. NoReconnect'
      BY <1>2, <1>5 DEF StopReconnecting, NoReconnect
    <2>3. Progress'
      BY <1>2, <1>5, <2>1 DEF StopReconnecting, Progress
    <2> QED BY <2>2, <2>3
  <1>6. CASE Cancel
    <2>1. NoReconnect'
      BY <1>2, <1>6 DEF Cancel, NoReconnect
    <2>2. Progress'
      BY <1>1, <1>2, <1>6 DEF Cancel, Progress
    <2> QED BY <2>1, <2>2
  <1>7. CASE QueueDisconnect
    <2>1. /\ eventQueue' = enqueued("disconnect") /\ dpc' = <<"wait", destructor>> /\ ~suppressEnqueue
          /\ UNCHANGED <<socket, wpc, rpc, task, enableReconnect, reconnectTimer>>
      BY <1>1, <1>7 DEF QueueDisconnect, Position
    <2>2. /\ queued("connect")' => queued("connect")
          /\ queued("reconnect")' => queued("reconnect")
          /\ Behind'
          /\ (\A i \in DOMAIN eventQueue : eventQueue[i].kind = "disconnect")
               => \A i \in DOMAIN eventQueue' : eventQueue'[i].kind = "disconnect"
      BY <1>1, <2>1, DestroyQueues
    <2>3. NoReconnect'
      BY <2>1, <2>2 DEF NoReconnect
    <2>4. Progress'
      BY <1>1, <1>3, <2>1, <2>2 DEF Progress
    <2> QED BY <2>3, <2>4
  <1>8. CASE DisconnectDone
    <2>1. NoReconnect'
      BY <1>2, <1>8 DEF DisconnectDone, NoReconnect
    <2>2. Down
      BY <1>8 DEF DisconnectDone, Progress, Ending, Behind, queued, CoreInv, WorkerInv
    <2>3. Progress'
      BY <1>1, <1>2, <1>8, <2>2 DEF DisconnectDone, Progress
    <2> QED BY <2>1, <2>3
  <1>9. CASE DrainEnter \/ DrainReturn
    <2>1. /\ UNCHANGED <<eventQueue, socket, wpc, rpc, task, enableReconnect, reconnectTimer>>
          /\ dpc[1] \in {"drain", "draining"} /\ dpc'[2] = dpc[2]
          /\ dpc'[1] = "draining" \/ (dpc'[1] = "release" /\ eventQueue = <<>>)
      <3>1. CASE DrainEnter
        BY <3>1 DEF DrainEnter
      <3>2. CASE DrainReturn
        BY <3>2 DEF DrainReturn
      <3> QED BY <1>9, <3>1, <3>2
    <2>2. NoReconnect'
      BY <1>2, <2>1 DEF NoReconnect
    <2>3. Progress'
      BY <1>2, <2>1 DEF Progress
    <2> QED BY <2>2, <2>3
  <1>10. CASE Release
    <2>1. UNCHANGED <<eventQueue, socket, wpc, rpc, task, enableReconnect>> /\ ~reconnectTimer'
      BY <1>10 DEF Release, Progress, NoReconnect
    <2>2. NoReconnect'
      BY <1>2, <2>1 DEF NoReconnect
    <2>3. /\ Down' = Down /\ Down /\ dpc'[1] \in {"flag", "drain", "gone"}
          /\ \A i \in DOMAIN eventQueue : eventQueue[i].kind = "disconnect"
      <3>1. Down /\ eventQueue = <<>> /\ Down' = Down
        BY <1>2, <1>10, <2>1 DEF Release, Progress
      <3>2. dpc' = <<"flag", 2>> \/ dpc' = <<"drain", 3>> \/ dpc' = <<"gone", 3>>
        BY <1>10, Zenon DEF Release
      <3>3. dpc'[1] \in {"flag", "drain", "gone"}
        BY ONLY <3>2
      <3> QED BY <3>1, <3>3
    <2>4. Progress'
      BY <2>1, <2>3 DEF Progress
    <2> QED BY <2>2, <2>4
  <1>11. CASE RunClear /\ UNCHANGED destroying
    <2>1. /\ queued("clear") /\ eventQueue # <<>>
          /\ queued("connect")' => queued("connect")
          /\ queued("reconnect")' => queued("reconnect")
          /\ Behind => Behind'
          /\ (\A i \in DOMAIN eventQueue : eventQueue[i].kind = "disconnect")
               => \A i \in DOMAIN eventQueue' : eventQueue'[i].kind = "disconnect"
      <3>1. take("clear")
        BY <1>11 DEF RunClear
      <3> QED BY <1>1, <3>1, QueueingAfterTake, Taken DEF take
    <2>2. UNCHANGED <<socket, wpc, rpc, task, enableReconnect, reconnectTimer, dpc>>
      BY <1>11 DEF RunClear, destroying
    <2>3. NoReconnect'
      BY <2>1, <2>2 DEF NoReconnect
    <2>4. Ending => Ending'
      BY <1>3, <2>1, <2>2 DEF Ending, Down
    <2>5. Progress'
      BY <1>3, <2>1, <2>2, <2>4 DEF Progress
    <2> QED BY <2>3, <2>5
  <1> QED BY <1>4, <1>5, <1>6, <1>7, <1>8, <1>9, <1>10, <1>11, Zenon DEF DestroyStep, Destroy

\* The invariant of the teardown is inductive.
LEMMA ITeardownKept ==
  ASSUME Constants, ITeardown, [TeardownNext]_tvars
  PROVE  ITeardown'
  <1>1. CASE DestroyStep
    <2>1. CoreInv' /\ Position'
      BY <1>1, DestroyKeepsPosition DEF ITeardown
    <2>2. CASE settled
      BY <1>1, <2>1, <2>2, DestroyKeepsProgress DEF ITeardown
    <2>3. CASE ~settled
      <3>1. settled' => StopReconnecting /\ destructor = 1
        BY <1>1, <2>3, Zenon DEF DestroyStep, Destroy, ClearHandlers, StopReconnecting, Cancel, QueueDisconnect,
                  DisconnectDone, DrainEnter, DrainReturn, Release, RunClear, goto, destroying
      <3> QED BY <2>1, <3>1, Settles DEF ITeardown
    <2> QED BY <2>2, <2>3
  <1>2. CASE ~at("gone") /\ Running /\ UNCHANGED <<destroying, suppressEnqueue>>
    <2>1. Threads \/ (at("alive") /\ \E u \in Users : User(u))
      BY <1>2 DEF Running
    <2>2. UNCHANGED <<dpc, settled, suppressEnqueue>>
      BY <1>2 DEF destroying
    <2>3. CoreInv'
      BY <2>1, <2>2, UserKeepsCore, WorkerKeepsCore, ReceiverKeepsCore DEF Threads, ITeardown
    <2>4. Position'
      BY <2>1, <2>2, ThreadsKeepUsers DEF ITeardown, Position, at, destructor
    <2>5. ASSUME settled PROVE NoReconnect' /\ Progress'
      <3>1. Threads
        BY <2>1, <2>5 DEF ITeardown, Position
      <3> QED BY <2>2, <2>5, <3>1, NoReconnectKept, ThreadsKeepProgress DEF ITeardown
    <2> QED BY <2>2, <2>3, <2>4, <2>5 DEF ITeardown
  <1>3. CASE UNCHANGED tvars
    <2>1. /\ UNCHANGED <<eventQueue, task, wpc, socket, established, rpc, rconn, receiveBuffer>>
          /\ UNCHANGED <<upc, count, dpc, settled, suppressEnqueue, enableReconnect, reconnectTimer>>
      BY ONLY <1>3 DEF tvars, destroying, tcpVars, handler, worker, link, flags, receiver
    <2>2. CoreInv'
      BY ONLY ITeardown, <2>1 DEF ITeardown, CoreInv, OtherOK, ReceiverInv, WorkerInv
    <2>3. NoReconnect' = NoReconnect
      BY ONLY <2>1 DEF NoReconnect, queued
    <2>4. Down' = Down /\ Ending' = Ending
      BY ONLY <2>1 DEF Down, Ending, Behind, queued
    <2>5. Progress' = Progress
      BY ONLY <2>1, <2>4 DEF Progress, at, destructor
    <2>6. Position'
      BY ONLY ITeardown, <2>1 DEF ITeardown, Position, at, destructor
    <2> QED BY ONLY ITeardown, <2>1, <2>2, <2>3, <2>5, <2>6 DEF ITeardown
  <1> QED BY <1>1, <1>2, <1>3 DEF TeardownNext, ClientGone, DestroyStep

\* Once ~SocketIoClient() is over the handler calls none of its functions any more, and when the
\* members of TcpConnectionHandler go there is no receive thread, no socket and no timer left:
\* whenever a client, reconnecting or not, is destroyed while nothing is about to reconnect, for
\* any number of users, connections and sends.
THEOREM TeardownIsSafe ==
  ASSUME Constants
  PROVE  TeardownSpec => NothingLeftBehind
  <1>1. TeardownInit => ITeardown
    <2> SUFFICES ASSUME TeardownInit PROVE ITeardown
      OBVIOUS
    <2>1. CoreInv
      BY CoreInitially DEF TeardownInit
    <2>2. /\ dpc = <<"alive", 1>> /\ ~settled /\ ~suppressEnqueue
          /\ dpc[1] = "alive" /\ dpc[2] = 1
      BY DEF TeardownInit, TcpInit
    <2>3. Position
      BY <2>2 DEF Position, TeardownSteps, at, destructor
    <2> QED BY <2>1, <2>2, <2>3, Zenon DEF ITeardown
  <1>2. ITeardown /\ [TeardownNext]_tvars => ITeardown'
    BY ITeardownKept, Zenon
  <1>3. ITeardown => (settled => NothingLeft)
    BY DEF ITeardown, NoReconnect, Progress, Down, NothingLeft, destructor
  <1>4. ITeardown => (settled /\ ~ClientExists => ~CallsClient)
    <2> SUFFICES ASSUME ITeardown, settled, ~ClientExists PROVE ~CallsClient
      OBVIOUS
    <2>1. Down /\ \A i \in DOMAIN eventQueue : eventQueue[i].kind = "disconnect"
      BY DEF ITeardown, Progress, ClientExists
    <2>2. ~take("onConnect")
      <3>1. eventQueue \in Seq(Task)
        BY DEF ITeardown, CoreInv, OtherOK
      <3>2. take("onConnect") => 1 \in DOMAIN eventQueue /\ eventQueue[1].kind = "onConnect"
        BY <3>1 DEF take
      <3> QED BY <2>1, <3>2
    <2> QED BY <2>1, <2>2 DEF CallsClient, RunOnConnect, Deliver, Joined, Down
  <1>5. ITeardown => [settled /\ ~ClientExists => ~CallsClient]_tvars
    BY <1>4
  <1> QED BY <1>1, <1>2, <1>3, <1>5, PTL DEF TeardownSpec, NothingLeftBehind
=============================================================================

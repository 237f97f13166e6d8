--------------------------- MODULE TcpConnection -------------------------
(***************************************************************************)
(* src/src/util/TcpConnectionHandler.cpp: the life of the connections of    *)
(* one handler.  Users call connect(), disconnect() and send(), which queue *)
(* tasks for the handler's worker (see ThreadedObject); every connection    *)
(* has a receive thread; the reconnect timer (see ThreadedTimer) queues a   *)
(* new attempt.  How connectImpl_() finds an address that answers is        *)
(* HappyEyeballs; here the attempt succeeds, fails or is cancelled.         *)
(*                                                                         *)
(* Connections are numbered in the order they are established, 0 standing   *)
(* for INVALID_SOCKET, and a task carries the number of the connection it   *)
(* was queued for.  Data is counted in reads.                               *)
(***************************************************************************)
EXTENDS Naturals, Sequences

CONSTANTS Users,           \* threads that use the handler
          ReconnectModes,  \* what they pass to connect() as enableReconnect
          BufferSize,      \* reads that fit into receiveBuffer_
          MaxConnections,  \* bound: connections established
          MaxConnects,     \* bound: calls of connect()
          MaxDisconnects,  \* bound: calls of disconnect()
          MaxSends,        \* bound: calls of send()
          MaxReads,        \* bound: reads that return data
          MaxErrors        \* bound: failing select() calls in sendImpl_()

VARIABLES eventQueue, task,             \* the worker's queue and what it runs, as a sequence
          suppressEnqueue,              \* set by destructors (see ClientTeardown), not here
          wpc,                          \* where the worker is in that task
          socket, established,          \* the current and the latest connection
          cancelConnect, enableReconnect, reconnectTimer,
          rpc,                          \* where the receive thread is; "none": not joinable
          rconn,                        \* the connection it was started for
          receiveBuffer,                \* reads in the buffer
          upc,                          \* where each user is inside a call
          count                         \* what the bounds count

worker == <<task, wpc>>
link == <<socket, established>>
flags == <<cancelConnect, enableReconnect, reconnectTimer>>
receiver == <<rpc, rconn, receiveBuffer>>
handler == <<eventQueue, worker, link, flags, receiver, upc, count>>
tcpVars == <<handler, suppressEnqueue>>

Kinds == {"connect", "reconnect", "disconnect", "drop", "onConnect", "dispatch", "send", "clear"}
Task == [kind : Kinds, conn : Nat]

TcpInit ==
  /\ eventQueue = <<>> /\ suppressEnqueue = FALSE /\ task = <<>> /\ wpc = "idle"
  /\ socket = 0 /\ established = 0
  /\ cancelConnect = FALSE /\ enableReconnect = FALSE /\ reconnectTimer = FALSE
  /\ rpc = "none" /\ rconn = 0 /\ receiveBuffer = 0
  /\ upc = [u \in Users |-> "idle"]
  /\ count = [connects |-> 0, disconnects |-> 0, sends |-> 0, reads |-> 0, errors |-> 0]

\* enqueue_() as SerialQueue has it
enqueuedFor(k, c) == IF suppressEnqueue THEN eventQueue ELSE Append(eventQueue, [kind |-> k, conn |-> c])
enqueued(k) == enqueuedFor(k, socket)
counted(field) == [count EXCEPT ![field] = @ + 1]
--------------------------------------------------------------------------
(* calls of the users *)

\* connect() and disconnect() set the flag at once, and then queue their task.
ConnectCall(u) ==
  /\ upc[u] = "idle" /\ count.connects < MaxConnects
  /\ cancelConnect' = FALSE
  /\ upc' = [upc EXCEPT ![u] = "connect"] /\ count' = counted("connects")
  /\ UNCHANGED <<eventQueue, worker, link, enableReconnect, reconnectTimer, receiver>>

DisconnectCall(u) ==
  /\ upc[u] = "idle" /\ count.disconnects < MaxDisconnects
  /\ cancelConnect' = TRUE
  /\ upc' = [upc EXCEPT ![u] = "disconnect"] /\ count' = counted("disconnects")
  /\ UNCHANGED <<eventQueue, worker, link, enableReconnect, reconnectTimer, receiver>>

QueueCall(u) ==
  /\ upc[u] \in {"connect", "disconnect"}
  /\ eventQueue' = enqueued(upc[u])
  /\ upc' = [upc EXCEPT ![u] = "idle"]
  /\ UNCHANGED <<worker, link, flags, receiver, count>>

SendCall(u) ==
  /\ upc[u] = "idle" /\ count.sends < MaxSends
  /\ eventQueue' = enqueued("send") /\ count' = counted("sends")
  /\ UNCHANGED <<worker, link, flags, receiver, upc>>

\* The reconnect timer fires.
TimerFires ==
  /\ reconnectTimer
  /\ reconnectTimer' = FALSE /\ eventQueue' = enqueued("reconnect")
  /\ UNCHANGED <<worker, link, cancelConnect, enableReconnect, receiver, upc, count>>
--------------------------------------------------------------------------
(* the worker: a task is taken, and may then need further steps *)

take(k) == /\ wpc = "idle" /\ eventQueue # <<>> /\ Head(eventQueue).kind = k
           /\ eventQueue' = Tail(eventQueue)

begin(pc) == task' = <<Head(eventQueue)>> /\ wpc' = pc
done == task' = <<>> /\ wpc' = "idle"

\* The task of connect(): ignored while connected, otherwise an attempt begins.
RunConnect ==
  /\ take("connect")
  /\ IF socket # 0
       THEN UNCHANGED <<worker, enableReconnect>>
       ELSE begin("connecting") /\ enableReconnect' \in ReconnectModes
  /\ UNCHANGED <<link, cancelConnect, reconnectTimer, receiver, upc, count>>

\* connectImpl_() queued by the timer.
RunReconnect ==
  /\ take("reconnect")
  /\ IF socket # 0 THEN UNCHANGED worker ELSE begin("connecting")
  /\ UNCHANGED <<link, flags, receiver, upc, count>>

\* connectImpl_() ends without a socket: all attempts failed, or it was cancelled.
ConnectFails ==
  /\ wpc = "connecting"
  /\ reconnectTimer' = (reconnectTimer \/ enableReconnect)
  /\ done
  /\ UNCHANGED <<eventQueue, link, cancelConnect, enableReconnect, receiver, upc, count>>

\* It has a socket; the TLS handshake, if any, follows.
ConnectSucceeds ==
  /\ wpc = "connecting" /\ established < MaxConnections
  /\ established' = established + 1 /\ socket' = established + 1
  /\ wpc' = "tls"
  /\ UNCHANGED <<eventQueue, task, flags, receiver, upc, count>>

\* Mutant: the reconnect timer is not started.
TlsFailsForGood ==
  /\ wpc = "tls"
  /\ socket' = 0 /\ done
  /\ UNCHANGED <<eventQueue, established, flags, receiver, upc, count>>

\* disconnectImpl_(false): refused, timed out or cancelled.
TlsFails ==
  /\ wpc = "tls"
  /\ socket' = 0
  /\ reconnectTimer' = (reconnectTimer \/ enableReconnect)
  /\ done
  /\ UNCHANGED <<eventQueue, established, cancelConnect, enableReconnect, receiver, upc, count>>

\* Queue onConnect_() and start the receive thread.
TlsSucceeds ==
  /\ wpc = "tls"
  /\ eventQueue' = enqueued("onConnect")
  /\ rpc' = "top" /\ rconn' = socket
  /\ done
  /\ UNCHANGED <<link, flags, receiveBuffer, upc, count>>

RunOnConnect ==
  /\ take("onConnect")
  /\ UNCHANGED <<worker, link, flags, receiver, upc, count>>

\* disconnectImpl_() of disconnect() and of a connection that failed: invalidate the socket.
RunDisconnect ==
  /\ take("disconnect") \/ take("drop")
  /\ socket' = 0
  /\ IF socket # 0
       THEN begin("join") /\ UNCHANGED cancelConnect
       ELSE /\ UNCHANGED worker
            /\ cancelConnect' = (cancelConnect /\ Head(eventQueue).kind = "drop")
  /\ UNCHANGED <<established, enableReconnect, reconnectTimer, receiver, upc, count>>

\* Mutant: the receive thread is not joined.
JoinedAtOnce ==
  /\ wpc = "join"
  /\ reconnectTimer' = (reconnectTimer \/ enableReconnect)
  /\ cancelConnect' = (cancelConnect /\ Head(task).kind = "drop")
  /\ done
  /\ UNCHANGED <<eventQueue, link, enableReconnect, receiver, upc, count>>

\* Join the receive thread, close the socket, onDisconnect_(), start the timer.
Joined ==
  /\ wpc = "join" /\ rpc \in {"ended", "none"}
  /\ rpc' = "none" /\ rconn' = 0
  /\ reconnectTimer' = (reconnectTimer \/ enableReconnect)
  /\ cancelConnect' = (cancelConnect /\ Head(task).kind = "drop")
  /\ done
  /\ UNCHANGED <<eventQueue, link, enableReconnect, receiveBuffer, upc, count>>

RunDispatch ==
  /\ take("dispatch")
  /\ IF socket = 0 THEN UNCHANGED worker ELSE begin("dispatching")
  /\ UNCHANGED <<link, flags, receiver, upc, count>>

\* onReceive_() with the next bytes of the buffer.
Deliver ==
  /\ wpc = "dispatching" /\ receiveBuffer > 0
  /\ receiveBuffer' = receiveBuffer - 1
  /\ UNCHANGED <<eventQueue, worker, link, flags, rpc, rconn, upc, count>>

\* The buffer is empty: onRecvEndFn_().
DispatchEnds ==
  /\ wpc = "dispatching" /\ receiveBuffer = 0
  /\ done
  /\ UNCHANGED <<eventQueue, link, flags, receiver, upc, count>>

RunSend ==
  /\ take("send")
  /\ IF socket = 0 THEN UNCHANGED worker ELSE begin("sending")
  /\ UNCHANGED <<link, flags, receiver, upc, count>>

SendCompletes ==
  /\ wpc = "sending" /\ done
  /\ UNCHANGED <<eventQueue, link, flags, receiver, upc, count>>

\* Mutant: the test of cancelConnect_ is missing.
SendNotAbandoned == FALSE /\ UNCHANGED handler

\* The peer does not read, and disconnect() has been called.
SendAbandoned ==
  /\ wpc = "sending" /\ cancelConnect /\ done
  /\ UNCHANGED <<eventQueue, link, flags, receiver, upc, count>>

SendFails ==
  /\ wpc = "sending"
  /\ eventQueue' = enqueued("drop")
  /\ done
  /\ UNCHANGED <<link, flags, receiver, upc, count>>

\* select() fails: a disconnect is queued, and the loop goes on.
SendSelectFails ==
  /\ wpc = "sending" /\ count.errors < MaxErrors
  /\ eventQueue' = enqueued("drop") /\ count' = counted("errors")
  /\ UNCHANGED <<worker, link, flags, receiver, upc>>
--------------------------------------------------------------------------
(* receiveImpl_() *)

\* The loop condition, and the wait for room in the buffer.
ReceiveTop ==
  /\ rpc = "top"
  /\ \/ socket = 0 /\ rpc' = "ended"
     \/ socket # 0 /\ receiveBuffer < BufferSize /\ rpc' = "select"
  /\ UNCHANGED <<eventQueue, worker, link, flags, rconn, receiveBuffer, upc, count>>

\* Nothing to read in time, or the socket has been invalidated meanwhile.
ReceiveNothing ==
  /\ rpc = "select" /\ rpc' = "top"
  /\ UNCHANGED <<eventQueue, worker, link, flags, rconn, receiveBuffer, upc, count>>

ReceiveData ==
  /\ rpc = "select" /\ count.reads < MaxReads
  /\ receiveBuffer' = receiveBuffer + 1 /\ count' = counted("reads")
  /\ rpc' = "check"
  /\ UNCHANGED <<eventQueue, worker, link, flags, rconn, upc>>

\* Data is dispatched if the socket is still valid.
ReceiveCheck ==
  /\ rpc = "check"
  /\ rpc' = IF socket # 0 THEN "dispatch" ELSE "top"
  /\ UNCHANGED <<eventQueue, worker, link, flags, rconn, receiveBuffer, upc, count>>

\* End of file or an error on a valid socket.
ReceiveFails ==
  /\ rpc = "select" /\ socket # 0 /\ rpc' = "drop"
  /\ UNCHANGED <<eventQueue, worker, link, flags, rconn, receiveBuffer, upc, count>>

\* The task is queued; after a failure the thread ends.
ReceiveQueue ==
  /\ rpc \in {"dispatch", "drop"}
  /\ eventQueue' = enqueuedFor(rpc, rconn)
  /\ rpc' = IF rpc = "drop" THEN "ended" ELSE "top"
  /\ UNCHANGED <<worker, link, flags, rconn, receiveBuffer, upc, count>>
--------------------------------------------------------------------------
User(u) == ConnectCall(u) \/ DisconnectCall(u) \/ QueueCall(u) \/ SendCall(u)

Attempt == ConnectFails \/ ConnectSucceeds \/ TlsFails \/ TlsSucceeds

TakeTask == RunConnect \/ RunReconnect \/ RunOnConnect \/ RunDisconnect \/ RunDispatch \/ RunSend

Worker == \/ TakeTask \/ Attempt \/ Joined \/ Deliver \/ DispatchEnds
          \/ SendCompletes \/ SendAbandoned \/ SendFails \/ SendSelectFails

Receiver == ReceiveTop \/ ReceiveNothing \/ ReceiveData \/ ReceiveCheck \/ ReceiveFails \/ ReceiveQueue

\* Nothing is left to do and the bounds are used up.
Quiet == /\ eventQueue = <<>> /\ wpc = "idle" /\ ~reconnectTimer /\ \A u \in Users : upc[u] = "idle"
         /\ UNCHANGED handler

Threads == Worker \/ Receiver \/ TimerFires

TcpNext == ((\E u \in Users : User(u)) \/ Threads \/ Quiet) /\ UNCHANGED suppressEnqueue

TcpSpec == TcpInit /\ [][TcpNext]_tcpVars

\* The threads run; attempts end (the system calls and the handshake have timeouts); the
\* timer fires.  The peer need not read, write or close, so a send need not complete.
TcpFairness ==
  /\ WF_handler(TakeTask)
  /\ WF_handler(Attempt) /\ WF_handler(Joined) /\ WF_handler(Deliver \/ DispatchEnds) /\ WF_handler(SendAbandoned)
  /\ WF_handler(ReceiveTop \/ ReceiveNothing \/ ReceiveCheck \/ ReceiveQueue)
  /\ WF_handler(TimerFires) /\ \A u \in Users : WF_handler(QueueCall(u))

TcpFairSpec == TcpSpec /\ TcpFairness
--------------------------------------------------------------------------
\* Every variable has its type.
TcpTypeOK ==
  /\ eventQueue \in Seq(Task) /\ suppressEnqueue \in BOOLEAN /\ task \in Seq(Task)
  /\ wpc \in {"idle", "connecting", "tls", "join", "dispatching", "sending"}
  /\ socket \in Nat /\ established \in Nat
  /\ cancelConnect \in BOOLEAN /\ enableReconnect \in BOOLEAN /\ reconnectTimer \in BOOLEAN
  /\ rpc \in {"none", "top", "select", "check", "dispatch", "drop", "ended"}
  /\ rconn \in Nat /\ receiveBuffer \in 0..BufferSize
  /\ upc \in [Users -> {"idle", "connect", "disconnect"}]
  /\ count \in [{"connects", "disconnects", "sends", "reads", "errors"} -> Nat]

\* At most one receive thread exists, and only for the connection the worker has or is
\* closing: the next one never replaces a joinable thread, and its socket is still open.
ReceiverInv ==
  /\ socket \in {0, established}
  /\ wpc \in {"connecting", "tls"} => rpc = "none"
  /\ wpc = "connecting" => socket = 0
  /\ wpc = "tls" => socket # 0
  /\ wpc = "join" => socket = 0 /\ rpc # "none"
  /\ wpc \in {"dispatching", "sending"} => socket # 0
  /\ socket = 0 /\ wpc # "join" => rpc = "none"
  /\ socket # 0 /\ wpc # "tls" => rpc # "none"
  /\ rpc # "none" => rconn = established

queued(k) == \E i \in DOMAIN eventQueue : eventQueue[i].kind = k

\* A handler that is to stay connected and is not has an attempt coming up.
ReconnectComesUp ==
  enableReconnect /\ socket = 0 /\ wpc \notin {"connecting", "join"} => reconnectTimer \/ queued("reconnect")

\* A receive thread that has ended while its connection is up, so that nobody reads from it any
\* more, has queued the end of that connection.
DeadConnectionIsDropped ==
  rpc = "ended" /\ socket # 0 =>
    \E i \in DOMAIN eventQueue : eventQueue[i] = [kind |-> "drop", conn |-> socket]

\* What TcpConnectionHandler keeps: at most one receive thread exists, and only for the connection
\* the worker has or is closing; a handler that is to stay connected and is not has an attempt
\* coming up; and a connection that nobody reads from any more is about to be closed.
ConnectionInv == TcpTypeOK /\ ReceiverInv /\ ReconnectComesUp /\ DeadConnectionIsDropped

\* receiveImpl_() takes it for granted that what the buffer holds has a dispatch task
\* queued, and waits for room if the buffer is full.
BufferedDataHasDispatch ==
  rpc = "top" /\ socket # 0 /\ receiveBuffer > 0 => wpc = "dispatching" \/ queued("dispatch")

\* A disconnect queued because a connection failed closes no later connection.
DropClosesItsOwn ==
  [][(wpc = "idle" /\ wpc' = "join" /\ Head(task').kind = "drop") => Head(task').conn = socket]_tcpVars

\* disconnect() is carried out, although the peer may have stopped reading.
DisconnectReturns == queued("disconnect") ~> ~queued("disconnect") /\ wpc # "join"

\* A handler that is to stay connected and is not attempts to connect, unless a destructor
\* forbids it.
AttemptsToReconnect == enableReconnect /\ socket = 0 ~> wpc = "connecting" \/ ~enableReconnect
==========================================================================

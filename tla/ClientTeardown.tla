-------------------------- MODULE ClientTeardown -------------------------
(***************************************************************************)
(* The destruction of a SocketIoClient (src/src/util/SocketIoClient.cpp),   *)
(* composed with the connection it owns: ~SocketIoClient disconnects and    *)
(* waits for the worker's tasks, then its members go; ~TcpConnectionHandler *)
(* does the same and its members go, the reconnect timer among them; then   *)
(* ~ThreadedObject waits a last time.  Meanwhile the worker, the receive    *)
(* thread and the timer of TcpConnection go on.                             *)
(*                                                                         *)
(* Whoever destroys a client no longer uses it, so users call only while    *)
(* nobody has begun to.  The steps of both destructors are numbered: 1 is   *)
(* ~SocketIoClient, 2 ~TcpConnectionHandler and 3 ~ThreadedObject.          *)
(***************************************************************************)
EXTENDS TcpConnection

VARIABLES dpc,      \* where the destroying thread is: a step and a destructor
          settled   \* history: nothing was about to reconnect when ~SocketIoClient forbade it

destroying == <<dpc, settled>>
tvars == <<tcpVars, destroying>>

TeardownInit == TcpInit /\ dpc = <<"alive", 1>> /\ settled = FALSE

destructor == dpc[2]
at(step) == dpc[1] = step
goto(step) == dpc' = <<step, destructor>> /\ UNCHANGED settled

\* The reconnect timer is not running, and no task is queued that attempts to reconnect or, as
\* connect() with enableReconnect would, allows it again.
NothingReconnects ==
  /\ ~reconnectTimer /\ ~queued("reconnect")
  /\ queued("connect") => ReconnectModes \subseteq {FALSE}
--------------------------------------------------------------------------
\* ~SocketIoClient queues the clearing of the event handlers.
ClearHandlers ==
  /\ at("alive") /\ \A u \in Users : upc[u] = "idle"
  /\ eventQueue' = enqueued("clear") /\ goto("flag")
  /\ UNCHANGED <<suppressEnqueue, worker, link, flags, receiver, upc, count>>

StopReconnecting ==
  /\ at("flag") /\ enableReconnect' = FALSE /\ dpc' = <<"cancel", destructor>>
  /\ settled' = IF destructor = 1 THEN NothingReconnects ELSE settled
  /\ UNCHANGED <<eventQueue, suppressEnqueue, worker, link, cancelConnect, reconnectTimer, receiver, upc, count>>

\* disconnect(): the flag, the task, and the wait for it.
Cancel ==
  /\ at("cancel") /\ cancelConnect' = TRUE /\ goto("queue")
  /\ UNCHANGED <<eventQueue, suppressEnqueue, worker, link, enableReconnect, reconnectTimer, receiver, upc, count>>

QueueDisconnect ==
  /\ at("queue") /\ eventQueue' = enqueued("disconnect") /\ goto("wait")
  /\ UNCHANGED <<suppressEnqueue, worker, link, flags, receiver, upc, count>>

\* Mutant: the destructor does not wait for the future.
DisconnectNotAwaited ==
  /\ at("wait") /\ goto("release")
  /\ UNCHANGED tcpVars

DisconnectDone ==
  /\ at("wait") /\ ~queued("disconnect") /\ (task # <<>> => Head(task).kind # "disconnect")
  /\ goto("drain")
  /\ UNCHANGED tcpVars

\* waitForAllTasksComplete_() as ThreadedObject has it.
DrainEnter ==
  /\ at("drain") /\ suppressEnqueue' = TRUE /\ goto("draining")
  /\ UNCHANGED handler

DrainReturn ==
  /\ at("draining") /\ eventQueue = <<>> /\ wpc = "idle"
  /\ suppressEnqueue' = FALSE /\ goto("release")
  /\ UNCHANGED handler

\* The destructor's body is over: the members of the class go, and the next one begins.
\* The reconnect timer of the handler is stopped by its own destructor.
Release ==
  /\ at("release")
  /\ \/ destructor = 1 /\ dpc' = <<"flag", 2>> /\ UNCHANGED <<eventQueue, reconnectTimer>>
     \/ destructor = 2 /\ dpc' = <<"drain", 3>> /\ reconnectTimer' = FALSE /\ UNCHANGED eventQueue
     \/ destructor = 3 /\ dpc' = <<"gone", 3>> /\ eventQueue' = <<>> /\ UNCHANGED reconnectTimer
  /\ UNCHANGED <<suppressEnqueue, worker, link, cancelConnect, enableReconnect, receiver, upc, count, settled>>

RunClear ==
  /\ take("clear")
  /\ UNCHANGED <<suppressEnqueue, worker, link, flags, receiver, upc, count>>

ClientGone == at("gone") /\ UNCHANGED tvars
--------------------------------------------------------------------------
Destroy == \/ StopReconnecting \/ Cancel \/ QueueDisconnect \/ DisconnectDone
           \/ DrainEnter \/ DrainReturn \/ Release

Running == \/ at("alive") /\ \E u \in Users : User(u)
           \/ Threads

TeardownNext == \/ ClearHandlers \/ Destroy \/ ClientGone
                \/ RunClear /\ UNCHANGED destroying
                \/ ~at("gone") /\ Running /\ UNCHANGED <<destroying, suppressEnqueue>>

TeardownSpec == TeardownInit /\ [][TeardownNext]_tvars

\* As in TcpConnection; the destroying thread, once it has begun, goes on.
TeardownFairness ==
  /\ TcpFairness /\ WF_handler(RunClear /\ UNCHANGED destroying) /\ WF_tvars(Destroy)

FairTeardown == TeardownSpec /\ TeardownFairness
--------------------------------------------------------------------------
\* The client part of the object still exists, with the functions the handler calls.
ClientExists == destructor = 1

\* The handler calls onConnect_(), onReceive_() or onDisconnect_().
CallsClient == RunOnConnect \/ Deliver \/ Joined

\* These functions are pure virtual once ~SocketIoClient is over: the handler calls none of
\* them any more.
NoCallbackAfterRelease == [][~ClientExists => ~CallsClient]_tvars

\* Nothing of the connection is left when the handler's members go: no receive thread, no
\* socket, no timer to fire.
NothingLeft ==
  destructor = 3 => rpc = "none" /\ socket = 0 /\ wpc = "idle" /\ ~reconnectTimer

\* Destroying a client, reconnecting or not, is safe if no attempt to reconnect was coming up
\* when ~SocketIoClient cleared enableReconnect_: no callback comes once the client is gone, and
\* nothing of the connection is left when the handler's members go.
NothingLeftBehind ==
  [][settled /\ ~ClientExists => ~CallsClient]_tvars /\ [](settled => NothingLeft)

\* The destructors return, although the peer may have stopped reading.
TeardownReturns == at("flag") ~> at("gone")
==========================================================================

-------------------------- MODULE FreeDVReporter --------------------------
(***************************************************************************)
(* src/src/reporting/FreeDVReporter.cpp on top of                           *)
(* src/src/util/SocketIoClient.cpp: what a station reports to the server,   *)
(* and what the server knows of it, over several connections.               *)
(*                                                                         *)
(* The connection below is the one of TcpConnection with its tasks made     *)
(* atomic; connect() is called once.  Bytes that a lost connection left in  *)
(* the receive buffer are discarded here (TcpConnection keeps them).  A     *)
(* message that the WebSocket layer accepts reaches the server at once: the *)
(* send task it queues could only be lost together with the connection.     *)
(***************************************************************************)
EXTENDS Integers, Sequences, Functions

CONSTANTS Values,          \* what a reported field can be; 0 is what it is at first
          MaxConnections,  \* bound: connections established
          MaxCalls,        \* bound: calls of the station's user
          MaxReports,      \* bound: events about other stations
          MaxFailures      \* bound: failures of connections

ASSUME ReporterAssumption ==
  /\ Values \subseteq Nat /\ 0 \in Values
  /\ MaxConnections \in Nat /\ MaxCalls \in Nat
  /\ MaxReports \in Nat /\ MaxFailures \in Nat

VARIABLES isFullyConnected, hidden, last,         \* FreeDVReporter
          cpc,                                    \* where its connect() is
          eventQueue, connection, registered, pingTimer,   \* SocketIoClient; are handlers in eventFnMap_?
          socket, reconnectTimer,                 \* TcpConnectionHandler
          server, wire,                           \* the server, and what it sent
          count                                   \* what the bounds count

reporter == <<isFullyConnected, hidden, last>>
client == <<connection, registered, pingTimer>>
tcp == <<socket, reconnectTimer>>
vars == <<reporter, cpc, eventQueue, client, tcp, server, wire, count>>

Fields == {"freq", "tx", "message"}
Unknown == -1
NewView == [hidden |-> FALSE, fields |-> [f \in Fields |-> Unknown]]
Absent == [phase |-> "none", view |-> NewView]

Init ==
  /\ isFullyConnected = FALSE /\ hidden = FALSE /\ last = [f \in Fields |-> 0]
  /\ cpc = "start" /\ eventQueue = <<>>
  /\ connection = "none" /\ registered = FALSE /\ pingTimer = FALSE
  /\ socket = FALSE /\ reconnectTimer = FALSE
  /\ server = Absent /\ wire = <<>>
  /\ count = [connections |-> 0, calls |-> 0, reports |-> 0, failures |-> 0]

counted(field) == [count EXCEPT ![field] = @ + 1]
queuedTask(k, m) == [kind |-> k, msg |-> m]
plain(k) == queuedTask(k, <<>>)

\* SocketIoClient::emit() of each of the messages
emitted(ms) == [i \in DOMAIN ms |-> queuedTask("emit", ms[i])]
emittedIfConnected(ms) == IF isFullyConnected THEN emitted(ms) ELSE <<>>

\* freqChangeImpl_(), transmitImpl_() and sendMessageImpl_() with what is saved
savedState == << <<"freq", last["freq"]>>, <<"tx", last["tx"]>>, <<"message", last["message"]>> >>
--------------------------------------------------------------------------
(* connect() *)

\* The connection is requested, and onReporterConnectFn_ runs.
Connect ==
  /\ cpc = "start" /\ cpc' = "connecting"
  /\ isFullyConnected' = FALSE
  /\ eventQueue' = Append(eventQueue, plain("connect"))
  /\ UNCHANGED <<hidden, last, client, tcp, server, wire, count>>

\* Only then are the handlers of the server's events registered.
RegisterHandlers ==
  /\ cpc = "connecting" /\ cpc' = "done"
  /\ eventQueue' = Append(eventQueue, plain("on"))
  /\ UNCHANGED <<reporter, client, tcp, server, wire, count>>
--------------------------------------------------------------------------
(* calls of the user, each with objMutex_ held *)

called == count.calls < MaxCalls /\ count' = counted("calls")

\* freqChange(), transmit() and updateMessage(): sent if connected, and saved.
Change(f, v) ==
  /\ called
  /\ eventQueue' = eventQueue \o emittedIfConnected(<< <<f, v>> >>)
  /\ last' = [last EXCEPT ![f] = v]
  /\ UNCHANGED <<isFullyConnected, hidden, cpc, client, tcp, server, wire>>

HideFromView ==
  /\ called
  /\ hidden' = TRUE /\ eventQueue' = eventQueue \o emittedIfConnected(<< <<"hide">> >>)
  /\ UNCHANGED <<isFullyConnected, last, cpc, client, tcp, server, wire>>

\* Mutant: the saved state is not sent again.
ShowOnly ==
  /\ called
  /\ hidden' = FALSE /\ eventQueue' = eventQueue \o emittedIfConnected(<< <<"show">> >>)
  /\ UNCHANGED <<isFullyConnected, last, cpc, client, tcp, server, wire>>

ShowOurselves ==
  /\ called
  /\ hidden' = FALSE /\ eventQueue' = eventQueue \o emittedIfConnected(<< <<"show">> >> \o savedState)
  /\ UNCHANGED <<isFullyConnected, last, cpc, client, tcp, server, wire>>

\* A received station is reported at once or never.
AddReceiveRecord ==
  /\ called /\ isFullyConnected
  /\ eventQueue' = eventQueue \o emitted(<< <<"rx">> >>)
  /\ UNCHANGED <<reporter, cpc, client, tcp, server, wire>>

\* requestQSY() does not ask whether there is a connection.
RequestQSY ==
  /\ called
  /\ eventQueue' = eventQueue \o emitted(<< <<"qsy">> >>)
  /\ UNCHANGED <<reporter, cpc, client, tcp, server, wire>>
--------------------------------------------------------------------------
(* the worker of the client runs the tasks *)

take(k) == /\ eventQueue # <<>> /\ Head(eventQueue).kind = k
takeOnly(k) == take(k) /\ eventQueue' = Tail(eventQueue)

\* connectImpl_() finds the server: onConnect_() is queued and the receive thread started.
Connected ==
  /\ take("connect") /\ ~socket /\ count.connections < MaxConnections
  /\ socket' = TRUE /\ count' = counted("connections")
  /\ eventQueue' = Append(Tail(eventQueue), plain("onConnect"))
  /\ UNCHANGED <<reporter, cpc, client, reconnectTimer, server, wire>>

\* It does not, and will try again.
NotConnected ==
  /\ takeOnly("connect") /\ ~socket /\ count.failures < MaxFailures
  /\ reconnectTimer' = TRUE /\ count' = counted("failures")
  /\ UNCHANGED <<reporter, cpc, client, socket, server, wire>>

\* A new WebSocket connection starts with its request; one that was closed is replaced.
OnConnect ==
  /\ takeOnly("onConnect")
  /\ connection' = "connecting"
  /\ server' = IF socket THEN [server EXCEPT !.phase = "request"] ELSE server
  /\ UNCHANGED <<reporter, cpc, registered, pingTimer, tcp, wire, count>>

\* on(): from here on the events find their handlers.
RunOn ==
  /\ takeOnly("on") /\ registered' = TRUE
  /\ UNCHANGED <<reporter, cpc, connection, pingTimer, tcp, server, wire, count>>

\* What the server makes of an event.
applied(view, m) ==
  CASE m[1] = "hide" -> [view EXCEPT !.hidden = TRUE]
    [] m[1] = "show" -> [view EXCEPT !.hidden = FALSE]
    [] m[1] \in Fields -> [view EXCEPT !.fields[m[1]] = m[2]]
    [] OTHER -> view

\* connection_->send(): refused unless the WebSocket connection is open.
RunEmit ==
  /\ takeOnly("emit")
  /\ server' = IF socket /\ connection = "open"
                 THEN [server EXCEPT !.view = applied(@, Head(eventQueue).msg)] ELSE server
  /\ UNCHANGED <<reporter, cpc, client, tcp, wire, count>>

received == Head(eventQueue).msg[1]

\* A message without a connection to read it on: lost.
DispatchNothing ==
  /\ takeOnly("dispatch") /\ ~socket
  /\ UNCHANGED <<reporter, cpc, client, tcp, server, wire, count>>

\* The server accepts: open_handler sends the authentication, the ping timer starts.
DispatchOpen ==
  /\ takeOnly("dispatch") /\ socket /\ received = "open"
  /\ connection' = "open" /\ pingTimer' = TRUE
  /\ server' = [server EXCEPT !.phase = "joined"]
  /\ UNCHANGED <<reporter, cpc, registered, tcp, wire, count>>

\* An event of the server is queued once more.
DispatchEvent ==
  /\ take("dispatch") /\ socket /\ received \in {"success", "report"}
  /\ eventQueue' = Append(Tail(eventQueue), queuedTask("event", <<received>>))
  /\ UNCHANGED <<reporter, cpc, client, tcp, server, wire, count>>

\* The server closes, refuses, or sends what cannot be understood: disconnect().
DispatchClose ==
  /\ take("dispatch") /\ socket /\ received = "close"
  /\ eventQueue' = Append(Tail(eventQueue), plain("disconnect"))
  /\ UNCHANGED <<reporter, cpc, client, tcp, server, wire, count>>

\* Mutant: isFullyConnected_ is not set, and so nothing is sent.
ConnectionSuccessfulUnnoticed ==
  /\ takeOnly("event") /\ received = "success"
  /\ UNCHANGED <<reporter, cpc, client, tcp, server, wire, count>>

\* fireEvent() with connection_successful: what is saved is sent.
ConnectionSuccessful ==
  /\ take("event") /\ received = "success"
  /\ isFullyConnected' = (registered \/ isFullyConnected)
  /\ eventQueue' = Tail(eventQueue) \o
       (IF ~registered THEN <<>> ELSE emitted(IF hidden THEN << <<"hide">> >> ELSE savedState))
  /\ UNCHANGED <<hidden, last, cpc, client, tcp, server, wire, count>>

\* fireEvent() with an event about another station, or a bulk of them: the user's callback
\* is told, if the fields have their types.
StationEvent ==
  /\ takeOnly("event") /\ received = "report"
  /\ UNCHANGED <<reporter, cpc, client, tcp, server, wire, count>>

\* disconnectImpl_() and onDisconnect_(): eof() closes the WebSocket connection, whose
\* fail_handler calls disconnect() again if it was not open yet.
Disconnect ==
  /\ take("disconnect") /\ socket
  /\ socket' = FALSE /\ reconnectTimer' = TRUE
  /\ connection' = IF connection = "none" THEN "none" ELSE "closed"
  /\ pingTimer' = FALSE /\ isFullyConnected' = FALSE
  /\ eventQueue' = IF connection = "connecting" THEN Append(Tail(eventQueue), plain("disconnect"))
                   ELSE Tail(eventQueue)
  /\ server' = Absent /\ wire' = <<>>
  /\ UNCHANGED <<hidden, last, cpc, registered, count>>

\* No connection to close, or one to open already open.
RunNothing ==
  /\ (takeOnly("disconnect") /\ ~socket) \/ (takeOnly("connect") /\ socket)
  /\ UNCHANGED <<reporter, cpc, client, tcp, server, wire, count>>
--------------------------------------------------------------------------
(* timers, the receive thread and the server *)

ReconnectTimerFires ==
  /\ reconnectTimer /\ count.connections < MaxConnections
  /\ reconnectTimer' = FALSE /\ eventQueue' = Append(eventQueue, plain("connect"))
  /\ UNCHANGED <<reporter, cpc, client, socket, server, wire, count>>

\* No ping came in time: disconnect().
PingTimerFires ==
  /\ pingTimer /\ count.failures < MaxFailures
  /\ eventQueue' = Append(eventQueue, plain("disconnect")) /\ count' = counted("failures")
  /\ UNCHANGED <<reporter, cpc, client, tcp, server, wire>>

Receive ==
  /\ socket /\ wire # <<>>
  /\ eventQueue' = Append(eventQueue, queuedTask("dispatch", <<Head(wire)>>)) /\ wire' = Tail(wire)
  /\ UNCHANGED <<reporter, cpc, client, tcp, server, count>>

\* The connection breaks.
ReceiveFails ==
  /\ socket /\ count.failures < MaxFailures
  /\ eventQueue' = Append(eventQueue, plain("disconnect")) /\ count' = counted("failures")
  /\ UNCHANGED <<reporter, cpc, client, tcp, server, wire>>

ServerOpens ==
  /\ server.phase = "request"
  /\ server' = [server EXCEPT !.phase = "opened"] /\ wire' = Append(wire, "open")
  /\ UNCHANGED <<reporter, cpc, eventQueue, client, tcp, count>>

\* The station is known to the server; its users see it as "unknown" until it reports.
ServerWelcomes ==
  /\ server.phase = "joined"
  /\ server' = [server EXCEPT !.phase = "welcomed"] /\ wire' = Append(wire, "success")
  /\ UNCHANGED <<reporter, cpc, eventQueue, client, tcp, count>>

ServerReports ==
  /\ server.phase = "welcomed" /\ count.reports < MaxReports
  /\ wire' = Append(wire, "report") /\ count' = counted("reports")
  /\ UNCHANGED <<reporter, cpc, eventQueue, client, tcp, server>>

ServerCloses ==
  /\ socket /\ count.failures < MaxFailures
  /\ wire' = Append(wire, "close") /\ count' = counted("failures")
  /\ UNCHANGED <<reporter, cpc, eventQueue, client, tcp, server>>
--------------------------------------------------------------------------
User == \/ \E f \in Fields, v \in Values : Change(f, v)
        \/ HideFromView \/ ShowOurselves \/ AddReceiveRecord \/ RequestQSY

Dispatch == DispatchNothing \/ DispatchOpen \/ DispatchEvent \/ DispatchClose

Worker == \/ Connected \/ NotConnected \/ OnConnect \/ RunOn \/ RunEmit \/ Dispatch
          \/ ConnectionSuccessful \/ StationEvent \/ Disconnect \/ RunNothing

Caller == Connect \/ RegisterHandlers
Server == ServerOpens \/ ServerWelcomes \/ ServerReports \/ ServerCloses

\* Nothing is left to do and the bounds are used up.
Quiet == cpc = "done" /\ eventQueue = <<>> /\ UNCHANGED vars

Next == \/ User \/ Caller \/ Worker \/ Server \/ Receive \/ ReceiveFails
        \/ ReconnectTimerFires \/ PingTimerFires \/ Quiet

Spec == Init /\ [][Next]_vars

\* The threads run and the network delivers what the server sends on a connection that
\* holds.  The server need not answer.
FairSpec == Spec /\ WF_vars(Worker) /\ WF_vars(Caller) /\ WF_vars(Receive) /\ WF_vars(ReconnectTimerFires)
--------------------------------------------------------------------------
Kinds == {"connect", "onConnect", "on", "emit", "dispatch", "event", "disconnect"}

\* Every variable has its type.
TypeOK ==
  /\ isFullyConnected \in BOOLEAN /\ hidden \in BOOLEAN /\ last \in [Fields -> Values]
  /\ cpc \in {"start", "connecting", "done"}
  /\ \A i \in DOMAIN eventQueue : eventQueue[i].kind \in Kinds
  /\ connection \in {"none", "connecting", "open", "closed"}
  /\ registered \in BOOLEAN /\ pingTimer \in BOOLEAN /\ socket \in BOOLEAN /\ reconnectTimer \in BOOLEAN
  /\ server \in [phase : {"none", "request", "opened", "joined", "welcomed"},
                 view : [hidden : BOOLEAN, fields : [Fields -> Values \cup {Unknown}]]]
  /\ wire \in Seq({"open", "success", "report", "close"})

pending(m) == m \in Range(wire) \/ \E i \in DOMAIN eventQueue : eventQueue[i].msg = <<m>>

\* onReceive_() uses connection_ without a test: data is only ever read on a connection
\* that onConnect_() has made for this socket, never on a missing or a closed one.
ReceiveHasConnection == take("dispatch") /\ socket => connection \in {"connecting", "open"}

\* The invariant of reporter and client.
ReporterInv == TypeOK /\ ReceiveHasConnection

says(t, names) == t.kind = "emit" /\ t.msg[1] \in names
silent(q, k, names) == \A i \in (k + 1)..Len(q) : ~says(q[i], names)

\* Of the events queued behind the k-th task that bear one of the names, the last is m; or there
\* is none, and the server knows already what m would tell it.
willKnow(q, k, names, m, knows) ==
  \/ silent(q, k, names) /\ knows
  \/ \E i \in (k + 1)..Len(q) : says(q[i], names) /\ q[i].msg = m /\ silent(q, i, names)

\* Once the server's welcome has been handled, what the server knows, with the reports
\* still queued applied in order, is what the station last asked for: whatever was changed
\* offline, hidden or while reconnecting, no report is lost, stale or out of order.
ServerKnowsStation ==
  /\ isFullyConnected /\ socket /\ server.phase = "welcomed"
  /\ ~pending("success")
  => /\ willKnow(eventQueue, 0, {"hide", "show"}, IF hidden THEN <<"hide">> ELSE <<"show">>,
                server.view.hidden = hidden)
     /\ ~hidden => \A f \in Fields :
          willKnow(eventQueue, 0, {f}, <<f, last[f]>>, server.view.fields[f] = last[f])

\* Reporter and client in every state: what the callbacks rely on holds, and the server
\* knows, or has queued for it, the station as it is.
StationInv == ReporterInv /\ ServerKnowsStation

known == /\ server.phase = "welcomed"
         /\ server.view.hidden = hidden /\ (hidden \/ server.view.fields = last)

\* A station whose handlers are registered becomes known as it is to the server that
\* accepts it, or the connection is lost.
StationBecomesKnown == server.phase = "welcomed" /\ pending("success") /\ registered ~> known \/ ~socket

\* The same whenever the server accepts it: "State set before connecting must be replayed
\* once the server says the connection is fully established" (FreeDVReporterTrafficTest).
StateIsReplayed == server.phase = "welcomed" ~> known \/ ~socket
==========================================================================

---------------------------- MODULE SocketIoSession ----------------------------
(***************************************************************************)
(* The Socket.IO client over its WebSocket: SocketIoClient as the user of a *)
(* client connection (WsConnection), the worker thread's queue of           *)
(* TcpConnectionHandler, the receive thread, the ping timer, and a server   *)
(* that is a connection of the server role with an Engine.IO application.   *)
(* Sessions follow one another when the client reconnects.  Nothing empties *)
(* receiveBuffer_ in between: a session that begins with bytes of another   *)
(* one is outside this module; TcpConnection shows that there are some.     *)
(***************************************************************************)
EXTENDS WsEndpoint

CONSTANTS BufferSize,     \* connection_read_buffer_size
          ReadSize,       \* READ_SIZE_BYTES of TcpConnectionHandler
          Answers,        \* how the server may answer the opening handshake
          ServerMessages, \* messages the server's application may send
          MaxActs,        \* messages, faults, emits and late pings, in all
          MaxSessions     \* connections made

VARIABLES
    client, server,       \* the two connection objects
    toClient, toServer,   \* how much of the peer's output has been delivered
    inbox,                \* receiveBuffer_: read by the receive thread
    tasks,                \* the worker thread's queue
    up,                   \* socket_ is valid
    eof,                  \* the server's stream has ended
    hung,                 \* the server has stopped without closing
    rx,                   \* the receive thread runs
    fired,                \* events given to the event handlers, in order
    count                 \* acts and sessions so far

vars == <<client, server, toClient, toServer, inbox, tasks, up, eof, hung, rx,
          fired, count>>

-------------------------------------------------------------------------------
\* SocketIoClient's handlers.  app.timer is the ping timer, app.tasks what the
\* handlers have put in the worker's queue; messages are pairs of a type and a
\* number.
\* Mutant: the newest task first.
EnqueueFirst(c, task) == [c EXCEPT !.app.tasks = <<task>> \o @]
Enqueue(c, task) == [c EXCEPT !.app.tasks = Append(@, task)]

ClientOpen(c) == Send(c, <<"40", 0>>)

\* Mutant: the open packet does not start the ping timer.
ClientMessageUntimed(c, m) ==
    CASE m[1] = "0" -> c
      [] m[1] = "2" -> [Send(c, <<"3", 0>>) EXCEPT !.app.timer = TRUE]
      [] m[1] = "40" -> [c EXCEPT !.app.connected = TRUE]
      [] m[1] = "42" -> Enqueue(c, <<"event", m[2]>>)
      [] m[1] \in {"1", "44", "x"} -> Enqueue(c, <<"disconnect", 0>>)
      [] OTHER -> c

ClientMessage(c, m) ==
    CASE m[1] = "0" -> [c EXCEPT !.app.timer = TRUE]
      [] m[1] = "2" -> [Send(c, <<"3", 0>>) EXCEPT !.app.timer = TRUE]
      [] m[1] = "40" -> [c EXCEPT !.app.connected = TRUE]
      [] m[1] = "42" -> Enqueue(c, <<"event", m[2]>>)
      [] m[1] \in {"1", "44", "x"} -> Enqueue(c, <<"disconnect", 0>>)
      [] OTHER -> c

\* The server's application: Engine.IO's open packet, and the answer to the
\* namespace connection.
ServerOpen(c) == Send(c, <<"0", 0>>)
ServerMessage(c, m) == IF m[1] = "40" THEN Send(c, <<"40", 0>>) ELSE c

C == INSTANCE WsConnection WITH OnOpen <- ClientOpen, OnMessage <- ClientMessage
S == INSTANCE WsConnection WITH OnOpen <- ServerOpen, OnMessage <- ServerMessage

ClientApp == [timer |-> FALSE, connected |-> FALSE, tasks |-> <<>>]
\* connection_ before the first onConnect_ and between two sessions: nothing can
\* be sent on it.
NoConnection == [CreateConnection(FALSE, ClientApp) EXCEPT !.state = "closed"]

\* What a step of the worker thread on the client's connection leaves behind:
\* the tasks its handlers queued, with the disconnect of the fail handler.
Failures(c) == Len(SelectSeq(c.calls, LAMBDA h : h = "fail"))
After(before, c, rest) ==
    /\ client' = [c EXCEPT !.app.tasks = <<>>]
    /\ tasks' = rest \o c.app.tasks
                     \o (IF Failures(c) > Failures(before)
                         THEN <<<<"disconnect", 0>>>> ELSE <<>>)

-------------------------------------------------------------------------------
Idle(answer) == CreateConnection(TRUE, [answer |-> answer])

Init ==
    /\ client = NoConnection
    /\ server = Idle("ok")
    /\ toClient = 0 /\ toServer = 0
    /\ inbox = <<>> /\ tasks = <<>>
    /\ up = FALSE /\ eof = FALSE /\ hung = FALSE /\ rx = FALSE
    /\ fired = <<>>
    /\ count = [acts |-> 0, sessions |-> 0]

\* connectImpl_ has a socket: onConnect_ is queued and the receive thread
\* started; the server accepts.  It runs as a task itself, so what is queued
\* then was queued after it.  Only sessions that find the receive buffer empty.
Connect ==
    /\ ~up /\ inbox = <<>> /\ \A i \in DOMAIN tasks : tasks[i][1] = "emit"
    /\ count.sessions < MaxSessions
    /\ \E a \in Answers : server' = S!Start(Idle(a))
    /\ up' = TRUE /\ eof' = FALSE /\ hung' = FALSE /\ rx' = TRUE
    /\ toClient' = 0 /\ toServer' = 0
    /\ tasks' = Append(tasks, <<"connect", 0>>)
    /\ client' = NoConnection
    /\ count' = [count EXCEPT !.sessions = @ + 1]
    /\ UNCHANGED <<inbox, fired>>

\* onConnect_: client_.get_connection() and client_.connect(), which the
\* iostream transport completes at once.
GetConnection == CreateConnection(FALSE, ClientApp)
HandleConnect(c) == C!Start(c)
RunConnect ==
    /\ tasks # <<>> /\ Head(tasks)[1] = "connect"
    /\ After(client, HandleConnect(GetConnection), Tail(tasks))
    /\ UNCHANGED <<server, toClient, toServer, inbox, up, eof, hung, rx, fired,
                   count>>

\* The receive thread: up to ReadSize items at a time go to the receive buffer
\* and a dispatch task is queued; at the end of the stream it queues a
\* disconnect and stops.
Arrived == SubSeq(server.out, toClient + 1, Len(server.out))
Receive ==
    /\ up /\ rx /\ Arrived # <<>>
    /\ \E n \in 1..Len(Arrived) :
         /\ n <= ReadSize
         /\ inbox' = inbox \o SubSeq(Arrived, 1, n)
         /\ toClient' = toClient + n
    /\ tasks' = Append(tasks, <<"receive", 0>>)
    /\ UNCHANGED <<client, server, toServer, up, eof, hung, rx, fired, count>>

ReceiveEnd ==
    /\ up /\ rx /\ eof /\ Arrived = <<>>
    /\ rx' = FALSE
    /\ tasks' = Append(tasks, <<"disconnect", 0>>)
    /\ UNCHANGED <<client, server, toClient, toServer, inbox, up, eof, hung,
                   fired, count>>

\* The dispatch task drains the buffer through onReceive_ in reads of at most
\* ReadSize.
Chunks == [i \in 1..((Len(inbox) + ReadSize - 1) \div ReadSize) |->
             SubSeq(inbox, (i - 1) * ReadSize + 1,
                    IF i * ReadSize < Len(inbox) THEN i * ReadSize
                    ELSE Len(inbox))]
RunReceive ==
    /\ tasks # <<>> /\ Head(tasks)[1] = "receive"
    /\ IF up THEN /\ After(client, FoldLeft(C!ReadSome, client, Chunks), Tail(tasks))
                  /\ inbox' = <<>>
             ELSE /\ tasks' = Tail(tasks)
                  /\ UNCHANGED <<client, inbox>>
    /\ UNCHANGED <<server, toClient, toServer, up, eof, hung, rx, fired, count>>

\* fireEvent, and the task of emit.
RunEvent ==
    /\ tasks # <<>> /\ Head(tasks)[1] = "event"
    /\ fired' = Append(fired, Head(tasks)[2])
    /\ tasks' = Tail(tasks)
    /\ UNCHANGED <<client, server, toClient, toServer, inbox, up, eof, hung, rx,
                   count>>

Emit ==
    /\ count.acts < MaxActs
    /\ tasks' = Append(tasks, <<"emit", count.acts + 1>>)
    /\ count' = [count EXCEPT !.acts = @ + 1]
    /\ UNCHANGED <<client, server, toClient, toServer, inbox, up, eof, hung, rx,
                   fired>>

RunEmit ==
    /\ tasks # <<>> /\ Head(tasks)[1] = "emit"
    /\ After(client, Send(client, <<"42", Head(tasks)[2]>>), Tail(tasks))
    /\ UNCHANGED <<server, toClient, toServer, inbox, up, eof, hung, rx, fired,
                   count>>

\* disconnectImpl_ with onDisconnect_: the connection sees the end of the
\* stream and the ping timer is stopped.  A task that finds the socket closed
\* does nothing.
RunDisconnect ==
    /\ tasks # <<>> /\ Head(tasks)[1] = "disconnect"
    /\ IF up THEN /\ up' = FALSE /\ rx' = FALSE
                  /\ After(client, [C!Eof(client) EXCEPT !.app.timer = FALSE],
                           Tail(tasks))
             ELSE /\ tasks' = Tail(tasks)
                  /\ UNCHANGED <<client, up, rx>>
    /\ UNCHANGED <<server, toClient, toServer, inbox, eof, hung, fired, count>>

\* The ping timer's callback, on the timer server's thread: the server has
\* hung, or a ping is merely late.
PingTimeout ==
    /\ client.app.timer
    /\ \A i \in DOMAIN tasks : tasks[i][1] # "disconnect"
    /\ hung \/ count.acts < MaxActs
    /\ count' = [count EXCEPT !.acts = IF hung THEN @ ELSE @ + 1]
    /\ tasks' = Append(tasks, <<"disconnect", 0>>)
    /\ UNCHANGED <<client, server, toClient, toServer, inbox, up, eof, hung, rx,
                   fired>>

-------------------------------------------------------------------------------
\* The server: what it reads, what its application does, and how it fails.
Serving == count.sessions > 0 /\ ~hung /\ ~eof
Stays == UNCHANGED <<client, toClient, inbox, tasks, up, rx, fired>>

ServerReceive ==
    LET waiting == SubSeq(client.out, toServer + 1, Len(client.out))
    IN /\ Serving /\ up /\ waiting # <<>>
       /\ \E n \in 1..Len(waiting) :
            /\ n <= BufferSize
            /\ server' = S!ReadSome(server, SubSeq(waiting, 1, n))
            /\ toServer' = toServer + n
       /\ Stays /\ UNCHANGED <<eof, hung, count>>

\* The number a message carries is the count it was sent at.
ServerActs(c) ==
    /\ Serving /\ count.acts < MaxActs
    /\ server' = c
    /\ count' = [count EXCEPT !.acts = @ + 1]
    /\ Stays /\ UNCHANGED <<toServer, eof, hung>>

ServerSend ==
    \E m \in ServerMessages :
        server.state = "open" /\ ServerActs(Send(server, <<m, count.acts + 1>>))
ServerPing == server.state = "open" /\ ServerActs(Ping(server))
ServerClose ==
    \E code \in {"away", "none", "protocol"} :
        server.state = "open" /\ ServerActs(Close(server, code))
\* A frame the client's processor refuses, or a close frame with a code that
\* may not be on the wire.
ServerBadFrame ==
    \E f \in {Frame("bad", "-"), Frame("close", "bad")} :
        /\ server.state = "open"
        /\ ServerActs([server EXCEPT !.out = Append(@, f)])

ServerHangs ==
    /\ Serving /\ count.acts < MaxActs
    /\ hung' = TRUE
    /\ count' = [count EXCEPT !.acts = @ + 1]
    /\ Stays /\ UNCHANGED <<server, toServer, eof>>

\* The server's end of the TCP connection closes: its WebSocket is closed, the
\* client has gone, or the link is cut.
ServerShut ==
    /\ Serving
    /\ server.state = "closed" \/ ~up
    /\ eof' = TRUE
    /\ server' = S!Eof(server)
    /\ Stays /\ UNCHANGED <<toServer, hung, count>>

LinkCut ==
    /\ Serving /\ up /\ count.acts < MaxActs
    /\ eof' = TRUE
    /\ server' = S!Eof(server)
    /\ count' = [count EXCEPT !.acts = @ + 1]
    /\ Stays /\ UNCHANGED <<toServer, hung>>

Worker == RunConnect \/ RunReceive \/ RunEvent \/ RunEmit \/ RunDisconnect
Next ==
    \/ Connect \/ Receive \/ ReceiveEnd \/ Worker \/ Emit \/ PingTimeout
    \/ ServerReceive \/ ServerSend \/ ServerPing \/ ServerClose
    \/ ServerBadFrame \/ ServerHangs \/ ServerShut \/ LinkCut

\* Weak fairness, with the condition under which each action can be taken
\* written out: the worker, the receive thread and the network keep running;
\* the ping timer fires when the server has hung; a server that has not hung
\* reads, and closes its end when it is done.
CanRead == Serving /\ up /\ toServer < Len(client.out)
CanShut == Serving /\ (server.state = "closed" \/ ~up)
CanTimeOut == hung /\ client.app.timer
              /\ \A i \in DOMAIN tasks : tasks[i][1] # "disconnect"
Fairness ==
    /\ []<>(tasks = <<>>) \/ []<><<Worker>>_vars
    /\ []<>(~(up /\ rx /\ (Arrived # <<>> \/ eof)))
       \/ []<><<Receive \/ ReceiveEnd>>_vars
    /\ []<>(~CanTimeOut) \/ []<><<PingTimeout>>_vars
    /\ []<>(~CanRead) \/ []<><<ServerReceive>>_vars
    /\ []<>(~CanShut) \/ []<><<ServerShut>>_vars

Spec == Init /\ [][Next]_vars /\ Fairness

===============================================================================

------------------------------ MODULE WsEndpoint ------------------------------
(***************************************************************************)
(* One websocketpp connection object: its state and the operations that     *)
(* write to the transport or end the connection.  An operation maps the     *)
(* record of a connection to the record after it.  The transport is the     *)
(* iostream one: async_write hands its bytes to the write handler and calls *)
(* the completion handler before it returns, and dispatch calls its         *)
(* argument in place, so each operation is one step.                        *)
(*                                                                          *)
(* A frame on the wire is a record with its opcode and what the model tells *)
(* apart in its payload; close codes are represented by their class.        *)
(***************************************************************************)
EXTENDS Naturals, Sequences, SequencesExt

States == {"connecting", "open", "closing", "closed"}
IStates == {"USER_INIT", "TRANSPORT_INIT", "READ_HTTP_REQUEST",
            "WRITE_HTTP_REQUEST", "READ_HTTP_RESPONSE",
            "PROCESS_HTTP_REQUEST", "PROCESS_CONNECTION"}
Readers == {"none", "handshake", "response", "frame"}

\* Close codes: normal (1000), away (1001), protocol (1002, one of the
\* terminal codes), none (1005, no status), abnormal (1006), bad (a code
\* that may not be on the wire) and blank (let send_close_frame choose).
Codes == {"normal", "away", "protocol", "none", "abnormal", "bad", "blank"}
TerminalCode(code) == code = "protocol"
MayBeSent(code) == code \notin {"abnormal", "bad"}

Frame(op, val) == [op |-> op, val |-> val, terminal |-> FALSE]
IsControl(f) == f.op \in {"ping", "pong", "close"}

\* The connection object as its constructor leaves it.  out is everything
\* handed to the transport so far, calls the handlers called so far, got the
\* messages given to the message handler, app the state of the handlers.
NewConnection(server, app) ==
    [server |-> server, state |-> "connecting", istate |-> "USER_INIT",
     reading |-> "none", writeFlag |-> FALSE, queue |-> <<>>, out |-> <<>>,
     local |-> "abnormal", remote |-> "abnormal", clean |-> FALSE,
     ec |-> "ok", stopped |-> FALSE, calls |-> <<>>, got |-> <<>>,
     dropped |-> FALSE, app |-> app]

\* create_connection: the endpoint's defaults go into a new connection.
CreateConnection(server, app) == NewConnection(server, app)

Called(c, h) == [c EXCEPT !.calls = Append(@, h)]

\* async_write: everything is handed to the write handler, in order.
AsyncWrite(c, items) == [c EXCEPT !.out = @ \o items]

-------------------------------------------------------------------------------
\* terminate, and handle_terminate, which async_shutdown calls in place.
TerminateEc(c, ec) ==
    IF ec = "ok" THEN c ELSE [c EXCEPT !.ec = ec, !.local = "abnormal"]

Terminate(c, ec) ==
    LET d == TerminateEc(c, ec)
        closed == [d EXCEPT !.state = "closed"]
    IN CASE c.state = "connecting" -> Called(closed, "fail")
         [] c.state \in {"open", "closing"} -> Called(closed, "close")
         [] c.state = "closed" -> d

\* write_frame takes the queue up to the first terminal message and writes it;
\* handle_write_frame ends the connection after a terminal message and else
\* clears the flag.  The batch has emptied the queue in that case, so no
\* second write is dispatched.
Batch(queue) ==
    LET ends == {i \in DOMAIN queue : queue[i].terminal}
    IN SubSeq(queue, 1, IF ends = {} THEN Len(queue)
                        ELSE CHOOSE i \in ends : \A j \in ends : i <= j)

HandleWriteFrame(c, batch) ==
    IF Last(batch).terminal THEN Terminate(c, "ok")
    ELSE [c EXCEPT !.writeFlag = FALSE]

WriteFrame(c) ==
    LET batch == Batch(c.queue)
    IN IF c.writeFlag \/ batch = <<>> THEN c
       ELSE HandleWriteFrame(
              AsyncWrite([c EXCEPT !.writeFlag = TRUE,
                             !.queue = SubSeq(@, Len(batch) + 1, Len(@))],
                         batch), batch)

\* write_push, and the dispatch of write_frame when no write is under way.
Push(c, f) == WriteFrame([c EXCEPT !.queue = Append(@, f)])

\* send, ping and pong refuse a connection that is not open.
Send(c, msg) == IF c.state = "open" THEN Push(c, Frame("text", msg)) ELSE c
Ping(c) == IF c.state = "open" THEN Push(c, Frame("ping", "-")) ELSE c
Pong(c) == IF c.state = "open" THEN Push(c, Frame("pong", "-")) ELSE c

\* send_close_frame: the code it answers with, the frame, the state change and
\* the write.  A code that may not be sent leaves the connection as it was but
\* for the local close code.
LocalCode(c, code, ack) ==
    CASE code # "blank" -> code
      [] code = "blank" /\ ~ack -> "none"
      [] code = "blank" /\ ack /\ c.remote = "none" -> "normal"
      [] OTHER -> c.remote

SendCloseFrame(c, code, ack, terminal) ==
    LET local == LocalCode(c, code, ack)
        f == [op |-> "close", val |-> local, terminal |-> terminal]
        d == [c EXCEPT !.local = local]
    IN IF ~MayBeSent(local) THEN d
       ELSE Push([d EXCEPT !.state = "closing", !.clean = ack \/ @], f)

SendCloseAck(c, code) == SendCloseFrame(c, code, TRUE, c.server)

CanClose(c, code) == c.state = "open" /\ MayBeSent(LocalCode(c, code, FALSE))
Close(c, code) ==
    IF c.state = "open"
    THEN SendCloseFrame(c, code, FALSE, TerminalCode(code)) ELSE c

-------------------------------------------------------------------------------
\* The iostream transport: one outstanding read at most.
AsyncRead(c, handler) ==
    IF c.reading # "none" THEN Terminate(c, "double_read")
    ELSE [c EXCEPT !.reading = handler]

\* start and handle_transport_init: the server waits for a request, the client
\* writes one (send_http_request) and, the write being done when async_write
\* returns, waits for the response (handle_send_http_request).
HandleSendHttpRequest(c) ==
    AsyncRead([c EXCEPT !.istate = "READ_HTTP_RESPONSE"], "response")

SendHttpRequest(c) ==
    HandleSendHttpRequest(
        AsyncWrite([c EXCEPT !.istate = "WRITE_HTTP_REQUEST"],
                   <<Frame("request", "ok")>>))

ReadHandshake(c) == AsyncRead(c, "handshake")

HandleTransportInit(c) ==
    IF c.server THEN ReadHandshake([c EXCEPT !.istate = "READ_HTTP_REQUEST"])
    ELSE SendHttpRequest(c)

Start(c) ==
    IF c.istate # "USER_INIT" THEN Terminate(c, "invalid_state")
    ELSE HandleTransportInit([c EXCEPT !.istate = "TRANSPORT_INIT"])

===============================================================================

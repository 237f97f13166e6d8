----------------------------- MODULE WsConnection -----------------------------
(***************************************************************************)
(* The reading half of a websocketpp connection: the opening handshake of   *)
(* both roles, the dispatch of frames, control frames and the end of the    *)
(* stream.  OnOpen and OnMessage are the handlers the user registered; they *)
(* may call the operations of WsEndpoint on the connection.                 *)
(***************************************************************************)
EXTENDS WsEndpoint

CONSTANTS OnOpen(_), OnMessage(_, _),
          BufferSize      \* connection_read_buffer_size, in items of the model

\* process_control_frame, for a close frame: a code that may not be on the
\* wire is answered with a protocol error whatever the state, a close that
\* answers ours completes the handshake.
ReceiveClose(c, code) ==
    LET d == [c EXCEPT !.remote = code]
        e == [d EXCEPT !.clean = TRUE]
    IN CASE code = "bad" -> SendCloseAck(d, "protocol")
         [] code # "bad" /\ c.state = "open" -> SendCloseAck(d, "blank")
         [] code # "bad" /\ c.state = "closing" /\ ~c.clean ->
                IF c.server THEN Terminate(e, "ok") ELSE e
         [] OTHER -> d

ProcessControlFrame(c, f) ==
    CASE c.state = "closed" -> c
      [] c.state # "closed" /\ f.op = "close" -> ReceiveClose(c, f.val)
      [] c.state = "open" /\ f.op = "ping" -> Pong(c)
      [] OTHER -> c

\* A frame the processor refuses: the connection is closed with the matching
\* code, or ended when no close frame can be sent, and the loop is left.
ConsumeError(c) ==
    LET d == [c EXCEPT !.stopped = TRUE]
    IN IF CanClose(c, "protocol") THEN Close(d, "protocol")
       ELSE Terminate(d, "invalid_state")

ConsumeFrame(c, f) ==
    CASE c.stopped -> c
      [] ~c.stopped /\ f.op = "bad" -> ConsumeError(c)
      [] ~c.stopped /\ IsControl(f) -> ProcessControlFrame(c, f)
      [] ~c.stopped /\ f.op = "text" /\ c.state = "open" ->
             OnMessage(Called([c EXCEPT !.got = Append(@, f.val)], "message"),
                       f.val)
      [] OTHER -> c

\* Mutant: the next read is left to the next frame.
ReadFrameNever(c) == c
ReadFrame(c) == AsyncRead(c, "frame")

HandleReadFrame(c, frames) ==
    IF c.istate # "PROCESS_CONNECTION"
    THEN IF c.state = "closed" THEN c ELSE Terminate(c, "invalid_state")
    ELSE LET d == FoldLeft(ConsumeFrame, [c EXCEPT !.stopped = FALSE], frames)
         IN IF d.stopped THEN d ELSE ReadFrame(d)

\* The handshake is over: the open handler runs before what followed the
\* handshake in the buffer is looked at.
Opened(c, frames) ==
    HandleReadFrame(
        OnOpen(Called([c EXCEPT !.istate = "PROCESS_CONNECTION",
                                !.state = "open"], "open")), frames)

AfterParts(items) == SelectSeq(items, LAMBDA i : i.op # "part")

\* Mutant: a refused upgrade ends the connection without leaving the handler.
HandleReadHttpResponseOn(c, items) ==
    LET rest == AfterParts(items)
        frames == Tail(rest)
    IN CASE c.state = "closed" -> c
         [] c.state # "closed"
            /\ (c.state # "connecting" \/ c.istate # "READ_HTTP_RESPONSE") ->
                Terminate(c, "invalid_state")
         [] OTHER ->
              CASE rest = <<>> -> AsyncRead(c, "response")
                [] rest # <<>> /\ Head(rest).val = "garbage" ->
                       Terminate(c, "general")
                [] rest # <<>> /\ Head(rest).val = "refused" ->
                       Opened(Terminate(c, "invalid_http_status"), frames)
                [] rest # <<>> /\ Head(rest).val = "bad_extension" ->
                       Opened(Terminate(c, "extension_neg_failed"), frames)
                [] rest # <<>> /\ Head(rest).val = "ok" -> Opened(c, frames)

\* handle_read_http_response.  A failed extension negotiation terminates the
\* connection but does not leave the handler.
HandleReadHttpResponse(c, items) ==
    LET rest == AfterParts(items)
        frames == Tail(rest)
    IN CASE c.state = "closed" -> c
         [] c.state # "closed"
            /\ (c.state # "connecting" \/ c.istate # "READ_HTTP_RESPONSE") ->
                Terminate(c, "invalid_state")
         [] OTHER ->
              CASE rest = <<>> -> AsyncRead(c, "response")
                [] rest # <<>> /\ Head(rest).val = "garbage" ->
                       Terminate(c, "general")
                [] rest # <<>> /\ Head(rest).val = "refused" ->
                       Terminate(c, "invalid_http_status")
                [] rest # <<>> /\ Head(rest).val = "bad_extension" ->
                       Opened(Terminate(c, "extension_neg_failed"), frames)
                [] rest # <<>> /\ Head(rest).val = "ok" -> Opened(c, frames)

\* The server's side: handle_read_handshake with process_handshake_request,
\* write_http_response and handle_write_http_response.  What it answers is
\* app.answer, the outcome of the validate handler and the processor.
HandleWriteHttpResponse(c, frames) ==
    IF c.app.answer \in {"ok", "bad_extension"} THEN Opened(c, frames)
    ELSE Terminate(c, "rejected")

WriteHttpResponse(c, frames) ==
    HandleWriteHttpResponse(
        AsyncWrite([c EXCEPT !.istate = "PROCESS_HTTP_REQUEST"],
                   <<Frame("part", "-"), Frame("response", c.app.answer)>>),
        frames)

HandleReadHandshake(c, items) ==
    LET rest == AfterParts(items)
    IN CASE c.state = "closed" -> c
         [] c.state # "closed"
            /\ (c.state # "connecting" \/ c.istate # "READ_HTTP_REQUEST") ->
                Terminate(c, "invalid_state")
         [] OTHER -> IF rest = <<>> THEN ReadHandshake(c)
                     ELSE WriteHttpResponse(c, Tail(rest))

-------------------------------------------------------------------------------
\* read_some gives what fits the buffer to the outstanding read; without one,
\* and beyond the buffer, the bytes are lost to the connection.
ReadSome(c, items) ==
    LET n == IF Len(items) < BufferSize THEN Len(items) ELSE BufferSize
        now == SubSeq(items, 1, n)
        lost == (c.reading = "none" \/ n < Len(items)) /\ c.state # "closed"
        d == [c EXCEPT !.reading = "none", !.dropped = @ \/ lost]
    IN CASE c.reading = "none" -> d
         [] c.reading = "handshake" -> HandleReadHandshake(d, now)
         [] c.reading = "response" -> HandleReadHttpResponse(d, now)
         [] c.reading = "frame" -> HandleReadFrame(d, now)

\* eof ends the outstanding read, if any, with an error.
Eof(c) ==
    LET d == [c EXCEPT !.reading = "none"]
    IN CASE c.reading = "none" \/ c.state = "closed" -> d
         [] c.reading = "frame" /\ c.state = "closing" /\ ~c.server ->
                Terminate(d, "ok")
         [] OTHER -> Terminate(d, "eof")

===============================================================================

--------------------------- MODULE MCSocketIoSession ---------------------------
(***************************************************************************)
(* Properties of a Socket.IO session and the instance TLC checks.           *)
(***************************************************************************)
EXTENDS SocketIoSession

Texts(c) == SelectSeq(c.out, LAMBDA f : f.op = "text")
Values(s) == [i \in DOMAIN s |-> s[i].val]

\* Shape of the session's state; in addition no frame waits in the queue of an
\* open connection (every push dispatches write_frame), an open connection has
\* a read outstanding, and no byte is dropped by read_some on a connection that
\* has not ended, although SocketIoClient::onReceive_ ignores its result.
SessionInv ==
    /\ \A c \in {client, server} :
         /\ c.state \in States /\ c.istate \in IStates /\ c.reading \in Readers
         /\ c.local \in Codes /\ c.remote \in Codes
         /\ c.state \in {"open", "closing"} =>
              c.queue = <<>> /\ ~c.writeFlag /\ c.reading = "frame"
         /\ ~c.dropped
    /\ toClient <= Len(server.out) /\ toServer <= Len(client.out)

FailedNegotiation(c) == c.server = FALSE /\ server.app.answer = "bad_extension"

\* The handlers of a connection are called in the order their users rely on:
\* fail alone, or open first, then messages, then close, each of the others at
\* most once (handle_read_http_response, terminate).  The exception is a failed
\* extension negotiation, which calls both fail and open.
HandlersInOrder ==
    \A c \in {client, server} :
        ~FailedNegotiation(c) =>
        \A i \in DOMAIN c.calls :
            /\ (c.calls[i] = "open") <=> (i = 1 /\ c.calls[1] # "fail")
            /\ c.calls[i] = "fail" => Len(c.calls) = 1
            /\ c.calls[i] = "close" => i = Len(c.calls)

\* After its close frame a connection writes no message, ping or pong: send,
\* ping and pong refuse (RFC 6455 5.5.1).  Only another close frame can follow,
\* which process_control_frame answers an invalid close code with in any state.
NothingAfterClose ==
    \A c \in {client, server} : \A i, j \in DOMAIN c.out :
        i < j /\ c.out[i].op = "close" /\ c.out[i].val # "bad" =>
            c.out[j].op = "close"

\* Both ends keep to the protocol, whatever their handlers do inside a read:
\* their handlers run in order, and nothing but a close follows a close.
ProtocolKept == HandlersInOrder /\ NothingAfterClose

\* Each side's messages are a prefix of what the other side sent in this
\* session, whatever the grouping of frames into reads, and frames that arrive
\* together with the handshake response are not skipped.
MessagesInOrder ==
    /\ IsPrefix(client.got, Values(Texts(server)))
    /\ IsPrefix(server.got, Values(Texts(client)))

\* Events reach the event handlers at most once and in the order the server
\* sent them, across reconnections: the tasks handleSocketIoMessage_ queues are
\* never overtaken.
EventsInOrder ==
    \A i, j \in DOMAIN fired : i < j => fired[i] < fired[j]

\* What is sent arrives at most once and in order: messages on either side of
\* the connection, and events at their handlers across reconnections.
DeliveredInOrder == MessagesInOrder /\ EventsInOrder

Over == up /\ (eof \/ \E i \in DOMAIN client.calls :
                          client.calls[i] \in {"fail", "close"})

\* A session that has ended, because the stream ended or the WebSocket failed
\* or closed, is dropped by the client, so that it can reconnect: the fail
\* handler, the server's answer to the close, or the receive thread sees to it.
EndedSessionIsDropped == Over ~> (~up \/ hung)

\* A server that hangs after Engine.IO's open packet is dropped by the ping
\* timer.
HungServerIsDropped == (up /\ hung /\ <<"0", 0>> \in Range(client.got)) ~> ~up

\* An event the connection has received is given to its handler, even when the
\* session is dropped in the meantime.
ReceivedEventIsFired ==
    \A n \in 1..MaxActs :
        (<<"42", n>> \in Range(client.got)) ~> (n \in Range(fired))

\* No session is stuck: one that has ended or whose server is silent is dropped,
\* by the fail handler, the receive thread or the ping timer, and no event that
\* was received is forgotten on the way.
SessionMovesOn == EndedSessionIsDropped /\ HungServerIsDropped /\ ReceivedEventIsFired

===============================================================================

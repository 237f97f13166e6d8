------------------------------ MODULE WsHandshake ------------------------------
(***************************************************************************)
(* The opening handshake: websocketpp's uri, the request the client builds, *)
(* what the server makes of it and the client's check of the response.      *)
(* Requests and responses are records of the headers the two sides look at; *)
(* how they are written and parsed as text is module HttpParser.            *)
(***************************************************************************)
EXTENDS Naturals, Sequences, SequencesExt, FiniteSetsExt

-------------------------------------------------------------------------------
(* base64.hpp, in which keys are written: bytes, and the values 0..63 of    *)
(* the alphabet; "=" is Pad and any other character Junk.                   *)

Pad == 64
Junk == 65
NotFound == 255     \* std::string::npos as an unsigned char

\* Three bytes as four values, and back; missing bytes are zero, a character
\* that is not in the alphabet is NotFound.
Four(b) == <<b[1] \div 4,
             (b[1] % 4) * 16 + (b[2] \div 16),
             (b[2] % 16) * 4 + (b[3] \div 64),
             b[3] % 64>>
Three(v) == <<(v[1] * 4 + ((v[2] \div 16) % 4)) % 256,
              ((v[2] % 16) * 16 + ((v[3] \div 4) % 16)) % 256,
              ((v[3] % 4) * 64 + v[4]) % 256>>

RECURSIVE Encode64(_)
Encode64(bytes) ==
    LET i == Len(bytes)
        padded == [j \in 1..3 |-> IF j <= i THEN bytes[j] ELSE 0]
    IN CASE i = 0 -> <<>>
         [] i >= 3 -> Four(SubSeq(bytes, 1, 3)) \o Encode64(SubSeq(bytes, 4, i))
         [] OTHER -> SubSeq(Four(padded), 1, i + 1) \o [j \in 1..(3 - i) |-> Pad]

\* Decoding stops at the first character outside the alphabet.
RECURSIVE Decode64(_)
Decode64(text) ==
    LET usable == CHOOSE n \in 0..Len(text) :
                    /\ \A j \in 1..n : text[j] \in 0..63
                    /\ n < Len(text) => text[n + 1] \notin 0..63
        i == usable
        padded == [j \in 1..4 |-> IF j <= i THEN text[j] ELSE NotFound]
    IN CASE i = 0 -> <<>>
         [] i >= 4 -> Three(SubSeq(text, 1, 4)) \o Decode64(SubSeq(text, 5, Len(text)))
         [] OTHER -> SubSeq(Three(padded), 1, i - 1)

-------------------------------------------------------------------------------
(* URIs.                                                                    *)

\* Decimal digits of a port; a port of this model has at most five.
PortDigit == [c \in {"0", "1", "3", "4", "5", "6", "8"} |->
                 CASE c = "0" -> 0 [] c = "1" -> 1 [] c = "3" -> 3 [] c = "4" -> 4
                   [] c = "5" -> 5 [] c = "6" -> 6 [] OTHER -> 8]
Secure(scheme) == scheme \in {"wss", "https"}
DefaultPort(secure) == IF secure THEN 443 ELSE 80

FirstOf(s, b, set) == Min({i \in b..Len(s) : s[i] \in set} \cup {Len(s) + 1})
LastOf(s, c) == Max({i \in 1..Len(s) : s[i] = c} \cup {0})

\* atoi: the value of the digits at the front, 0 if there are none.
Atoi(s) ==
    LET d == SubSeq(s, 1, FirstOf(s, 1, {s[i] : i \in DOMAIN s} \ DOMAIN PortDigit) - 1)
        v[i \in 0..Len(d)] == IF i = 0 THEN 0 ELSE v[i - 1] * 10 + PortDigit[d[i]]
    IN v[Len(d)]

\* get_port_from_string: the port and whether it is one.
GetPort(secure, port) ==
    IF port = <<>> THEN [port |-> DefaultPort(secure), ok |-> TRUE]
    ELSE [port |-> Atoi(port) % 65536, ok |-> Atoi(port) \in 1..65535]

MakeUri(scheme, host, port, resource) ==
    [scheme |-> scheme, host |-> host, port |-> GetPort(Secure(scheme), port).port,
     resource |-> IF resource = <<>> THEN <<"/">> ELSE resource,
     valid |-> GetPort(Secure(scheme), port).ok]
InvalidUri == [scheme |-> "", host |-> <<>>, port |-> 0, resource |-> <<>>,
               valid |-> FALSE]

\* The constructor from a string: scheme stands for the prefix up to "://"
\* ("" for a prefix that is not one of the four), s for what follows it.
ParseUri(scheme, s) ==
    LET bracket == s # <<>> /\ s[1] = "["
        close == FirstOf(s, 2, {"]"})
        hostEnd == IF bracket THEN close + 1 ELSE FirstOf(s, 1, {"/", ":"})
        host == IF bracket THEN SubSeq(s, 2, close - 1) ELSE SubSeq(s, 1, hostEnd - 1)
        atPort == hostEnd <= Len(s) /\ s[hostEnd] = ":"
        slash == IF atPort THEN FirstOf(s, hostEnd + 1, {"/"}) ELSE hostEnd
        port == IF atPort THEN SubSeq(s, hostEnd + 1, slash - 1) ELSE <<>>
    IN IF \/ scheme = "" \/ s = <<>>
          \/ bracket /\ close > Len(s)
          \/ bracket /\ hostEnd <= Len(s) /\ s[hostEnd] \notin {"/", ":"}
          \/ ~GetPort(Secure(scheme), port).ok
       THEN InvalidUri
       ELSE MakeUri(scheme, host, port, <<"/">> \o SubSeq(s, slash + 1, Len(s)))

\* A port as a stringstream writes it.
RECURSIVE PortText(_)
PortText(n) == (IF n < 10 THEN <<>> ELSE PortText(n \div 10))
                   \o << CHOOSE d \in DOMAIN PortDigit : PortDigit[d] = n % 10 >>

GetHostPort(u) == IF u.port = DefaultPort(Secure(u.scheme)) THEN u.host
                  ELSE u.host \o <<":">> \o PortText(u.port)
\* str(), after the scheme.
UriText(u) == GetHostPort(u) \o u.resource

\* get_uri_from_host
UriFromHost(h, scheme, resource) ==
    LET colon == LastOf(h, ":")
    IN IF colon = 0 \/ LastOf(h, "]") > colon
       THEN MakeUri(scheme, h, <<>>, resource)
       ELSE MakeUri(scheme, SubSeq(h, 1, colon - 1), SubSeq(h, colon + 1, Len(h)), resource)

-------------------------------------------------------------------------------
\* process_handshake_key: the digest of a key.  Different keys have different
\* digests, and no digest is a key (SHA-1 and its library are not modelled).
AcceptKey(key) == <<"accept", key>>
NoKey == <<"none", 0>>

\* hybi13::client_handshake_request.  upgrade and connection say whether the
\* header contains its token.
ClientRequest(u, protocols, key) ==
    [method |-> "GET", version |-> "HTTP/1.1", resource |-> u.resource,
     upgrade |-> TRUE, connection |-> TRUE, wsVersion |-> "13",
     host |-> GetHostPort(u), protocols |-> protocols, badList |-> FALSE,
     extensions |-> "", key |-> key]

\* add_subprotocol of a client, and select_subprotocol of a server.
Tokens == {"p", "q"}       \* the texts of this model that are not empty and are tokens
AddSubprotocol(list, value) == IF value \in Tokens THEN Append(list, value) ELSE list

\* Mutant: a subprotocol nobody asked for is selected.
SelectSubprotocolAny(con, value) ==
    IF con.isServer THEN [con EXCEPT !.subprotocol = value]
    ELSE [con EXCEPT !.ec = "server_only"]

SelectSubprotocol(con, value) ==
    CASE ~con.isServer -> [con EXCEPT !.ec = "server_only"]
      [] con.isServer /\ value = "" -> con
      [] OTHER -> IF Contains(con.requested, value)
                  THEN [con EXCEPT !.subprotocol = value]
                  ELSE [con EXCEPT !.ec = "unrequested_subprotocol"]

IsWebsocketHandshake(r) == r.upgrade /\ r.connection
\* get_websocket_version: 0 without the header, -1 if it is not a number.
WebsocketVersion(r) == CASE r.wsVersion = "" -> 0 [] r.wsVersion = "13" -> 13
                         [] r.wsVersion = "9" -> 9 [] OTHER -> 99
Supported == {0, 7, 8, 13}

\* negotiate_extensions with the disabled permessage_deflate: an unreadable
\* list is an error, any other list is ignored.
NegotiateExtensions(r) == IF r.extensions = "bad" THEN "extension_parse_error" ELSE "ok"

ValidateHandshake(r) ==
    CASE r.method # "GET" -> "invalid_http_method"
      [] r.method = "GET" /\ r.version # "HTTP/1.1" -> "invalid_http_version"
      [] OTHER -> IF r.key = NoKey THEN "missing_required_header" ELSE "ok"

NoResponse == [status |-> 0, upgrade |-> FALSE, connection |-> FALSE,
               accept |-> NoKey, protocol |-> "", versions |-> {}]
ProcessHandshake(r, subprotocol) ==
    [status |-> 101, upgrade |-> TRUE, connection |-> TRUE,
     accept |-> AcceptKey(r.key), protocol |-> subprotocol, versions |-> {}]

\* initialize_processor: the status it sets on failure, 0 if it goes on.
InitializeProcessor(r) ==
    IF ~IsWebsocketHandshake(r) THEN [status |-> 0, ec |-> "ok", versions |-> {}]
    ELSE IF WebsocketVersion(r) = 99
    THEN [status |-> 400, ec |-> "invalid_version", versions |-> {}]
    ELSE IF WebsocketVersion(r) \in Supported
    THEN [status |-> 0, ec |-> "ok", versions |-> {}]
    ELSE [status |-> 400, ec |-> "unsupported_version", versions |-> Supported]

\* process_handshake_request of a version 13 server; handler is what the
\* validate handler does: the subprotocol it selects, or "reject".
ProcessHandshakeRequest(r, secure, handler, httpHandler) ==
    LET ws == IsWebsocketHandshake(r)
        scheme == IF ws THEN (IF secure THEN "wss" ELSE "ws")
                  ELSE (IF secure THEN "https" ELSE "http")
        u == UriFromHost(r.host, scheme, r.resource)
        con == SelectSubprotocol([isServer |-> TRUE, ec |-> "ok", subprotocol |-> "",
                                  requested |-> IF r.badList THEN <<>> ELSE r.protocols],
                                 handler)
        Bad(ec) == [res |-> [NoResponse EXCEPT !.status = 400], ec |-> ec, uri |-> u]
    IN IF ~ws THEN
          IF ~u.valid THEN Bad("invalid_uri")
          ELSE IF httpHandler THEN [res |-> [NoResponse EXCEPT !.status = 200],
                                    ec |-> "ok", uri |-> u]
          ELSE [res |-> [NoResponse EXCEPT !.status = 426],
                ec |-> "upgrade_required", uri |-> u]
       ELSE IF ValidateHandshake(r) # "ok" THEN Bad(ValidateHandshake(r))
       ELSE IF NegotiateExtensions(r) # "ok" THEN Bad("extension_parse_error")
       ELSE IF ~u.valid THEN Bad("invalid_uri")
       ELSE IF handler = "reject" THEN Bad("rejected")
       ELSE [res |-> ProcessHandshake(r, con.subprotocol), ec |-> "ok", uri |-> u]

\* What the server writes for a request.
ServerAnswer(r, secure, handler, httpHandler) ==
    LET i == InitializeProcessor(r)
    IN IF i.ec # "ok"
       THEN [res |-> [NoResponse EXCEPT !.status = i.status, !.versions = i.versions],
             ec |-> i.ec, uri |-> InvalidUri]
       ELSE ProcessHandshakeRequest(r, secure, handler, httpHandler)

\* hybi13::validate_server_handshake_response
ValidateResponse(req, res) ==
    CASE res.status # 101 -> "invalid_http_status"
      [] res.status = 101 /\ ~(res.upgrade /\ res.connection) -> "missing_required_header"
      [] OTHER -> IF res.accept = AcceptKey(req.key) THEN "ok"
                  ELSE "missing_required_header"

===============================================================================

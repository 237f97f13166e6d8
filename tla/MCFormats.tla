------------------------------- MODULE MCFormats -------------------------------
(***************************************************************************)
(* What one side writes the other reads: one behaviour checks one format,   *)
(* chosen in the initial state.  Frames and HTTP messages arrive in reads   *)
(* of any size; texts grow by one symbol per step; the callsign of an over  *)
(* and the reporter's file have steps of their own; the other inputs are    *)
(* checked where they stand.                                                *)
(***************************************************************************)
EXTENDS WsFraming, HttpParser, WsHandshake, FiniteSets

CONSTANTS MaxText,                                       \* longest text of the growing inputs
          MaxIter, SymSize, Callsigns, Damages,          \* RadeText
          Fields, MaxLines, MaxOpens,                    \* ReportFormats
          Nsec, PerMs, SecMax,                           \* Timespec
          ArgBufLen, StrMax, RenderLen, PrefixMax        \* UlogFormat

VARIABLES which, http,    \* the format, and the parser of an HTTP message
          text, stage, syms, llr, vc, cv, message, converged, iterations, heard,
          csvFile, csvStream, csvRows, csvOpens
MCVars == <<vars, which, http>>
textVars == <<text, stage, syms, llr, vc, cv, message, converged, iterations, heard>>
csvVars == <<csvFile, csvStream, csvRows, csvOpens>>
formatVars == <<MCVars, textVars, csvVars>>

Rade == INSTANCE RadeText
Report == INSTANCE ReportFormats
Time == INSTANCE Timespec
Log == INSTANCE UlogFormat
Deflate == INSTANCE PermessageDeflate

-------------------------------------------------------------------------------
\* Frames: whole and fragmented text (a two-byte character may be split between
\* fragments, or never be completed), a byte that is not UTF-8, control frames in between, sizes on
\* both sides of the limit of a 7-bit size and of a message, and frames the
\* protocol forbids.  short is FALSE for a size written longer than needed.
Key == <<1, 130, 7, 64>>
F(op, fin, payload) ==
    [op |-> op, fin |-> fin, payload |-> payload, wrong |-> FALSE, short |-> TRUE]
Bytes(n) == [i \in 1..n |-> i]
Frames ==
    {F(TEXT, TRUE, <<97>>), F(TEXT, FALSE, <<98, 195>>), F(CONTINUATION, FALSE, <<>>),
     F(CONTINUATION, TRUE, <<169, 99, 100, 101, 102>>), F(CONTINUATION, TRUE, <<>>), F(TEXT, TRUE, <<255>>),
     F(PING, TRUE, <<1, 2>>), F(PING, FALSE, <<>>), F(CLOSE, TRUE, <<3, 232>>),
     F(3, TRUE, <<>>), [F(BINARY, TRUE, <<5>>) EXCEPT !.wrong = TRUE]}
LongFrames ==
    {F(BINARY, TRUE, Bytes(125)), F(BINARY, FALSE, Bytes(126)),
     F(CONTINUATION, TRUE, Bytes(MaxMessageSize - 126)),
     F(CONTINUATION, TRUE, Bytes(MaxMessageSize - 125)), F(PING, TRUE, Bytes(126)),
     F(BINARY, TRUE, Bytes(MaxMessageSize + 1)),
     [F(TEXT, TRUE, <<97>>) EXCEPT !.short = FALSE]}

Encode(f, server) ==
    LET masked == (~server) # f.wrong
        head == PrepareHeader(f.op, Len(f.payload), f.fin, masked, Key)
        long == PrepareHeader(f.op, 126, f.fin, masked, Key)
    IN (IF f.short THEN head
        ELSE [long EXCEPT ![3] = 0, ![4] = Len(f.payload)])
           \o (IF masked THEN ByteMask(f.payload, Key) ELSE f.payload)

\* The peer of the decoder encodes: a server decodes what a client prepared.
StreamOf(server, frames) ==
    [server |-> server, frames |-> frames,
     bytes |-> FlattenSeq([i \in DOMAIN frames |-> Encode(frames[i], ~server)])]

MCStreams == {StreamOf(s, fs) : s \in BOOLEAN,
                 fs \in UNION {[1..n -> Frames] : n \in 1..3}
                        \cup UNION {[1..n -> LongFrames] : n \in 1..2}}

\* Reference: what a sequence of frames means by RFC 6455, frame by frame and
\* without bytes: the messages up to the first fault.  torn is the message at
\* fault if that is a text that ends in a continuation, inside a character.
NoPart == [op |-> -1, payload |-> <<>>]
RECURSIVE Meaning(_, _, _, _)
Meaning(frames, i, part, msgs) ==
    IF i > Len(frames) THEN [msgs |-> msgs, ok |-> TRUE, torn |-> NoPart]
    ELSE LET f == frames[i]
             m == IF f.op = CONTINUATION
                  THEN [part EXCEPT !.payload = @ \o f.payload]
                  ELSE [op |-> f.op, payload |-> f.payload]
             legal == /\ ~f.wrong /\ f.short /\ ~Reserved(f.op)
                      /\ IsControl(f.op) => f.fin /\ Len(f.payload) <= 125
                      /\ ~IsControl(f.op) => /\ (f.op = CONTINUATION) <=> part # NoPart
                                             /\ Len(m.payload) <= MaxMessageSize
             utf8 == Utf8Decode(0, m.payload)
             sound == m.op # TEXT \/ (utf8 # 1 /\ (f.fin => utf8 = 0))
             torn == legal /\ utf8 # 1 /\ f.op = CONTINUATION
         IN IF ~legal \/ ~sound
            THEN [msgs |-> msgs, ok |-> FALSE, torn |-> IF torn THEN m ELSE NoPart]
            ELSE IF IsControl(f.op) THEN Meaning(frames, i + 1, part, Append(msgs, m))
            ELSE IF f.fin THEN Meaning(frames, i + 1, NoPart, Append(msgs, m))
            ELSE Meaning(frames, i + 1, m, msgs)
Expected == Meaning(stream.frames, 1, NoPart, <<>>)

\* However the bytes of the frames are grouped into reads, hybi13::consume and
\* the loop of handle_read_frame give out the messages of the frames, in order
\* and no others, and stop exactly where the frames are not a legal sequence.
\* The exception: finalize_message asks a whole character at the end only of a
\* text whose last frame has the opcode of a text; a torn text is given out.
DecodesFrames ==
    which = "frames" =>
        LET e == Expected
            torn == Append(e.msgs, e.torn)
        IN IF e.torn = NoPart
           THEN /\ IsPrefix(got, e.msgs)
                /\ err # "ok" => ~e.ok /\ got = e.msgs
                /\ pos = Len(stream.bytes) => got = e.msgs /\ (err = "ok" <=> e.ok)
           ELSE /\ IsPrefix(got, torn) \/ IsPrefix(torn, got)
                /\ err # "ok" \/ pos = Len(stream.bytes) => IsPrefix(torn, got)

Circ(words, bytes, key) == IF words THEN WordMaskCirc(bytes, key) ELSE ByteMaskCirc(bytes, key)

\* A payload masked in up to three pieces, each by words or by bytes with the key
\* the piece before gave (word_mask_circ, byte_mask_circ), or at once
\* (word_mask_exact), is the payload masked byte by byte.
MaskingAgrees ==
    which = "mask" =>
        LET b == Bytes(stream.size)
            one == Circ(stream.words[1], SubSeq(b, 1, stream.cut[1]), PrepareMaskingKey(Key))
            two == Circ(stream.words[2], SubSeq(b, stream.cut[1] + 1, stream.cut[2]), one.key)
            three == Circ(stream.words[3], SubSeq(b, stream.cut[2] + 1, stream.size), two.key)
        IN /\ one.out \o two.out \o three.out = ByteMask(b, Key)
           /\ WordMaskExact(b, Key) = ByteMask(b, Key)
Masks == {m \in [size : {1, 8, 11, 19}, cut : (0..19) \X (0..19), words : BOOLEAN \X BOOLEAN \X BOOLEAN] :
             m.cut[1] <= m.cut[2] /\ m.cut[2] <= m.size}

-------------------------------------------------------------------------------
\* HTTP messages: what the program builds, line by line anything else, and
\* messages that consume counts as half the largest size, the largest and more.
Start == [req |-> <<"G", " ", "/", " ", "v">>, res |-> <<"v", " ", "1", "0", "1", " ">>]
HttpLines == {<<"A", ":", " ", " ", "b", " ", " ", " ">>, <<"a", ":", "b">>, <<"H", ":", "h", ":", "1">>,
              <<"L", ":", "2">>, <<"L", ":", "b">>, <<"A", "b">>, <<":", "a">>}
Text(lines) == FlattenSeq([i \in DOMAIN lines |-> lines[i] \o CRLF])
HttpTexts(start) ==
    {Text(<<start>> \o ls \o <<<<>>>>) \o rest :
        ls \in UNION {[1..n -> HttpLines] : n \in 0..2},
        rest \in {<<>>, <<"b", CR, LF>>}}
      \cup {Text(<<start, <<"H", ":">> \o [i \in 1..(n - Len(start) - 11) |-> "b"], <<>>>>) :
               n \in {MaxHeaderSize \div 2, MaxHeaderSize, MaxHeaderSize + 1}}
      \cup {Text(<<<<>>, start>>), Text(<<<<"G">>, <<>>>>), Text(<<<<"(", " ", "/", " ">>>>)}

WithHeaders(p, hs, body) ==
    LET Add(q, h) == AppendHeader(q, h[1], h[2]) IN SetBody(FoldLeft(Add, p, hs), body)
Headers == {<<Host, <<"h">>>>, <<<<"A">>, <<"b", " ", "b">>>>, <<<<"a">>, <<"1">>>>}
Built(isRequest) ==
    {WithHeaders(IF isRequest
                 THEN [Parser EXCEPT !.start = <<"G">>, !.mid = <<"/">>, !.last = <<"v">>]
                 ELSE SetStatus([Parser EXCEPT !.start = <<"v">>], <<"1", "0", "1">>, <<>>),
                 <<<<Host, <<"h">>>>>> \o hs, body) :
        hs \in UNION {[1..n -> Headers] : n \in 0..2},
        body \in {<<>>, <<"b">>, <<CR, LF, "b">>}}

HttpStreams(isRequest) ==
    {[request |-> isRequest, bytes |-> t, built |-> Parser] :
        t \in HttpTexts(IF isRequest THEN Start.req ELSE Start.res)}
      \cup {[request |-> isRequest, bytes |-> Raw(p) \o <<"b">>, built |-> p] :
               p \in Built(isRequest)}

\* One read of an HTTP message: the parser is given what has arrived, until the
\* message is complete.
HttpRead ==
    /\ which = "http" /\ http.err = "ok" /\ http.state # "DONE"
    /\ pos < Len(stream.bytes)
    /\ \E end \in {Min2(pos + n, Len(stream.bytes)) : n \in ReadSizes} :
         \E r \in {HttpConsume(http, SubSeq(stream.bytes, pos + 1, end), stream.request)} :
            http' = r.p /\ pos' = pos + r.n
    /\ UNCHANGED <<stream, dec, got, err, which>>

\* What a parser has understood, without its place in the text.
Understood(p) == [p EXCEPT !.buf = <<>>, !.headerBytes = 0]
\* consume counts three for every read that ends before the headers do, so that
\* a message in pieces may count up to five for each of its bytes.
MayCountTooMuch == 5 * Len(stream.bytes) > MaxHeaderSize
ReadsLike(whole) ==
    /\ http.err # "ok" => whole.p.err # "ok" \/ (http.err = "size" /\ MayCountTooMuch)
    /\ HeadersReady(http) => whole.p.err = "ok" /\ http.headers = whole.p.headers
    /\ http.state = "DONE" => Understood(http) = Understood(whole.p) /\ pos = whole.n
    /\ http.err = "ok" /\ pos = Len(stream.bytes) => Understood(http) = Understood(whole.p)

\* The part of a text that response::consume gets from a stream: the lines
\* before the first one that does not fit its buffer, and what fits of that.
StreamPart(t) ==
    LET long == {i \in 1..(Len(t) - IstreamBuffer + 1) :
                    /\ i = 1 \/ t[i - 1] = LF
                    /\ \A k \in i..(i + IstreamBuffer - 1) : t[k] # LF}
    IN IF long = {} THEN t
       ELSE SubSeq(t, 1, (CHOOSE i \in long : \A j \in long : i <= j) + IstreamBuffer - 2)

\* Two results of reading the whole text that mean the same, and a reading r of a
\* text at whose end the parser is called once more, without bytes.
SameReading(s, w) ==
    \/ s.p.err = "size" /\ MayCountTooMuch
    \/ s.p.err = w.p.err /\ (s.p.err = "ok" => Understood(s.p) = Understood(w.p) /\ s.n = w.n)
AtEnd(r) == IF r.p.err # "ok" THEN r ELSE [HttpConsume(r.p, <<>>, FALSE) EXCEPT !.n = r.n]

\* request::consume and response::consume: however a message is grouped into
\* reads, what is understood is the same, and the same bytes are left for what
\* follows the message (the first frames); what is refused whole is refused in
\* pieces.  A message accepted whole may be refused for its size in pieces, if it
\* is longer than a fifth of the largest size, and for nothing else.  A response read from a stream
\* line by line is understood as its text would be (the read that meets the end
\* of the stream offers no bytes).
HttpAnyReads ==
    which = "http" =>
        /\ ReadsLike(HttpConsume(Parser, stream.bytes, stream.request))
        /\ pos = 0 /\ ~stream.request =>
               SameReading(ConsumeStream(Parser, stream.bytes, 0),
                           AtEnd(HttpConsume(Parser, StreamPart(stream.bytes), FALSE)))

\* What raw() wrote, consume reads back: start line, header list, body; and
\* nothing after the message is taken for a part of it.
HttpRoundTrip ==
    which = "http" /\ stream.built # Parser /\ http.state = "DONE" =>
        /\ \A f \in {"start", "mid", "last", "headers", "body"} :
              http[f] = stream.built[f]
        /\ pos = Len(stream.bytes) - 1

-------------------------------------------------------------------------------
\* Parameter lists: what a list looks like when written, with the whitespace
\* the grammar allows.
Values == {<<>>, <<"b">>, <<"a", "quote">>, <<"b", ",", " ">>}
Attrs == {NoAttributes} \cup {[n \in {<<"a">>} |-> v] : v \in Values}
             \cup {[n \in {<<"a">>, <<"v", "1">>} |-> <<"b">>]}
Lists == UNION {[1..n -> [name : {<<"a">>, <<"b", "1">>}, attrs : Attrs]] : n \in 1..2}
Spaces == {<<>>, <<" ">>, <<CR, LF, " ", "TAB">>}

Quoted(v) == <<"quote">> \o FlattenSeq([i \in DOMAIN v |->
                 IF v[i] = "quote" THEN <<"\\", "quote">> ELSE <<v[i]>>]) \o <<"quote">>
WriteValue(v, sp) ==
    IF v = <<>> THEN <<>>
    ELSE sp \o <<"=">> \o sp \o (IF \A i \in DOMAIN v : IsTokenChar(v[i]) THEN v
                                 ELSE Quoted(v))
WriteParameter(p, sp) ==
    LET keys == SetToSeq(DOMAIN p.attrs)
    IN sp \o p.name \o sp \o FlattenSeq([i \in DOMAIN keys |->
           <<";">> \o sp \o keys[i] \o WriteValue(p.attrs[keys[i]], sp) \o sp])
WriteList(l, sp) == FlattenSeq([i \in DOMAIN l |->
                       (IF i = 1 THEN <<>> ELSE <<",">>) \o WriteParameter(l[i], sp)])

\* extract_parameters and its helpers give back the list that was written,
\* quoted values and folded whitespace included.
ParameterListRoundTrip ==
    which = "plist" =>
        ParseParameterList(stream.text) = [error |-> FALSE, params |-> stream.list]

-------------------------------------------------------------------------------
\* UTF-8 and base64 on bytes around the limits of their cases.
Utf8Bytes == {0, 127, 128, 143, 144, 159, 160, 191, 192, 193, 194, 223, 224, 225,
              236, 237, 238, 239, 240, 241, 243, 244, 245, 255}
Trail == 128..191
\* Reference: the sequences RFC 3629 allows for one character.
OneCharacter(b) ==
    CASE Len(b) = 1 -> b[1] \in 0..127
      [] Len(b) = 2 -> b[1] \in 194..223 /\ b[2] \in Trail
      [] Len(b) = 3 -> /\ b[1] \in 224..239 /\ b[2] \in Trail /\ b[3] \in Trail
                       /\ b[1] = 224 => b[2] >= 160
                       /\ b[1] = 237 => b[2] <= 159
      [] Len(b) = 4 -> /\ b[1] \in 240..244 /\ \A i \in 2..4 : b[i] \in Trail
                       /\ b[1] = 240 => b[2] >= 144
                       /\ b[1] = 244 => b[2] <= 143
      [] OTHER -> FALSE
RECURSIVE WellFormed(_)
WellFormed(b) == b = <<>> \/ \E n \in 1..Len(b) :
                    OneCharacter(SubSeq(b, 1, n)) /\ WellFormed(SubSeq(b, n + 1, Len(b)))

\* validator::decode and complete accept exactly the well-formed texts, also
\* when the text comes in two pieces.
Utf8IsRfc3629 ==
    which = "utf8" =>
        /\ Utf8Validate(stream) <=> WellFormed(stream)
        /\ \A n \in 0..Len(stream) :
              Utf8Decode(Utf8Decode(0, SubSeq(stream, 1, n)),
                         SubSeq(stream, n + 1, Len(stream))) = Utf8Decode(0, stream)

\* base64_decode undoes base64_encode, whose text has full groups of four, and
\* stops at a character that is not one of the alphabet.
Base64RoundTrip ==
    which = "base64" =>
        /\ Decode64(Encode64(stream)) = stream
        /\ Decode64(Encode64(stream) \o <<Junk, 1>>) = stream
        /\ Len(Encode64(stream)) % 4 = 0

-------------------------------------------------------------------------------
\* Frames an endpoint prepares, read by its peer.
Prepared ==
    [kind : {"close"}, server : BOOLEAN, size : {0, 1, 123, 124},
     code : {0, 999, 1000, 1004, 1005, 1006, 1014, 1015, 1016, 2999, 3000, 4999, 5000}]
      \cup [kind : {"data"}, server : BOOLEAN, size : {0, 1, 125, 126, 127}, code : {TEXT, BINARY, PING}]
      \cup [kind : {"head"}, server : BOOLEAN, code : {BINARY},
            size : {0, 125, 126, 65535, 65536, 16777215}]
Reason(n) == [i \in 1..n |-> 65 + (i % 26)]
ReadBy(server, bytes) == ReadLoop(Decoder, bytes, server, <<>>)

\* prepare_close refuses a code that may not be sent or a reason that does not
\* fit, and otherwise the peer extracts that code and that reason.
CloseRoundTrip ==
    which = "prepared" /\ stream.kind = "close" =>
        LET f == PrepareClose(stream.server, stream.code, Reason(stream.size), Key)
            r == ReadBy(~stream.server, f)
            sendable == /\ stream.code \in 1000..1003 \cup 1005..1014 \cup 3000..4999
                        /\ stream.code # 1006 /\ stream.size <= 123
                        /\ stream.code = 1005 => stream.size = 0
        IN /\ f # <<>> <=> sendable
           /\ sendable =>
                /\ r.ec = "ok" /\ Len(r.msgs) = 1 /\ r.msgs[1].op = CLOSE
                /\ ExtractCode(r.msgs[1].payload) = [code |-> stream.code, ok |-> TRUE]
                /\ ExtractReason(r.msgs[1].payload) =
                       [reason |-> Reason(stream.size), ok |-> TRUE]

\* prepare_data_frame and prepare_control: the peer reads the message that was
\* sent; a header of any size is read back as that size, minimally encoded.
FrameRoundTrip ==
    /\ which = "prepared" /\ stream.kind = "data" =>
        LET f == IF stream.code = PING
                 THEN PrepareControl(stream.server, PING, Reason(stream.size), Key)
                 ELSE PrepareDataFrame(stream.server, stream.code, TRUE,
                                       Reason(stream.size), Key)
        IN IF stream.code = PING /\ stream.size > 125 THEN f = <<>>
           ELSE ReadBy(~stream.server, f).msgs =
                    <<[op |-> stream.code, payload |-> Reason(stream.size)]>>
    /\ which = "prepared" /\ stream.kind = "head" =>
        LET h == PrepareHeader(stream.code, stream.size, TRUE, ~stream.server, Key)
            b == BasicStep(Decoder, h, ~stream.server)
            d == [b.d EXCEPT !.ext = SubSeq(h, 3, Len(h))]
        IN /\ b.ec = "ok" /\ HeaderLen(d) = Len(h)
           /\ PayloadSize(d) = stream.size /\ ValidateExtendedHeader(d) = "ok"
           /\ ~stream.server => MaskingKey(d) = Key

-------------------------------------------------------------------------------
\* URIs and the handshake they begin.
UriChars == {"a", ":", "/", "[", "]", "8"}
Schemes == {"ws", "wss", ""}
Ports == {<<"a", ":", "6", "5", "5", "3", "5", "/">>, <<"a", ":", "6", "5", "5", "3", "6">>,
          <<"a", ":", "6", "5", "6", "1", "6", "/", "a">>, <<"a", ":", "4", "4", "3">>,
          <<"a", ":", "0">>, <<"a", ":", "8", "0", "/", "?", "a">>}
Uri == ParseUri(stream.scheme, stream.text)
\* A host written in brackets (an IPv6 literal) loses them in get_host_port and
\* str: such a uri is not read back.
PlainHost == \A i \in DOMAIN Uri.host : Uri.host[i] \in {"a", "8"}
Protocols == {<<>>, <<"p">>, <<"p", "q">>, <<"p p", "">>}
Handlers == {"", "p", "q", "reject"}
Request(k) == ClientRequest(Uri, <<"p">>, k)
MyKey == <<"key", 1>>

\* uri: a valid one has a port in range and a resource; str() and the Host
\* header are read back as the same uri.
UriRoundTrip ==
    which = "uri" /\ Uri.valid =>
        /\ Uri.port \in 1..65535 /\ Uri.resource[1] = "/"
        /\ PlainHost /\ Uri.host # <<>> =>
              /\ ParseUri(Uri.scheme, UriText(Uri)) = Uri
              /\ UriFromHost(GetHostPort(Uri), Uri.scheme, Uri.resource) = Uri

\* The client accepts the answer exactly when the server took the connection,
\* and then both sides mean the same uri and a subprotocol that was asked for.
AnswerAgrees ==
    which = "uri" /\ Uri.valid /\ PlainHost /\ Uri.host # <<>> =>
        \A handler \in Handlers, protocols \in Protocols :
            LET req == ClientRequest(Uri, FoldLeft(AddSubprotocol, <<>>, protocols), MyKey)
                a == ServerAnswer(req, Secure(Uri.scheme), handler, FALSE)
            IN /\ ValidateResponse(req, a.res) = "ok" <=> a.ec = "ok"
               /\ a.ec = "ok" <=> handler # "reject"
               /\ a.ec = "ok" => a.uri = Uri /\ a.res.protocol \in (ToSet(protocols) \cap Tokens) \cup {""}

\* The requests that differ from r in one part, in a way that matters to the
\* handshake: another resource or host or the versions 7 and 8 are as good.
Altered(r) ==
    {[r EXCEPT !.method = "POST"], [r EXCEPT !.version = "HTTP/1.0"],
     [r EXCEPT !.upgrade = FALSE], [r EXCEPT !.connection = FALSE],
     [r EXCEPT !.wsVersion = "9"], [r EXCEPT !.wsVersion = "x"],
     [r EXCEPT !.key = NoKey], [r EXCEPT !.key = <<"key", 2>>],
     [r EXCEPT !.extensions = "bad"], [r EXCEPT !.host = <<"a", ":", "0">>]}

\* validate_handshake and validate_server_handshake_response: a request whose
\* method, HTTP version, upgrade or connection header, key or extension list was
\* changed on the way, or that asks for an unknown version or port 0, does not
\* open the connection; the server refuses it, or the client the answer.
AlteredIsRefused ==
    which = "uri" /\ Uri.valid =>
        \A r \in Altered(Request(MyKey)), http2 \in BOOLEAN :
            ValidateResponse(Request(MyKey),
                ServerAnswer(r, Secure(Uri.scheme), "", http2).res) # "ok"

-------------------------------------------------------------------------------
Inputs ==
    [frames |-> Streams, mask |-> Masks, http |-> HttpStreams(TRUE) \cup HttpStreams(FALSE),
     plist |-> {[list |-> l, text |-> WriteList(l, sp)] : l \in Lists, sp \in Spaces},
     utf8 |-> {<<>>}, base64 |-> {<<>>}, prepared |-> Prepared,
     uri |-> [scheme : Schemes, text : {<<>>} \cup Ports]]

MCInit ==
    /\ which \in DOMAIN Inputs /\ stream \in Inputs[which]
    /\ pos = 0 /\ dec = Decoder /\ got = <<>> /\ err = "ok" /\ http = Parser

\* A text that was rejected stays rejected: it is not grown further.
Grow ==
    /\ UNCHANGED <<pos, dec, got, err, http, which>>
    /\ \/ /\ which = "utf8" /\ Len(stream) < MaxText /\ Utf8Decode(0, stream) # 1
          /\ \E b \in Utf8Bytes : stream' = Append(stream, b)
       \/ /\ which = "base64" /\ Len(stream) < MaxText
          /\ \E b \in {0, 1, 15, 16, 63, 64, 128, 255} : stream' = Append(stream, b)
       \/ /\ which = "uri" /\ Len(stream.text) < MaxText
          /\ \E c \in UriChars : stream' = [stream EXCEPT !.text = Append(@, c)]

MCNext == \/ which = "frames" /\ Read /\ UNCHANGED <<which, http>>
          \/ HttpRead
          \/ Grow
MCSpec == MCInit /\ [][MCNext]_MCVars

-------------------------------------------------------------------------------
MCCallsigns == {<<>>, <<75, 54, 97, 32, 47, 48, 122, 46, 65>>}
MCDamages == {{}} \cup {{k} : k \in 0..55} \cup {{k, k + 5} : k \in 0..9}
                 \cup {{k, k + 1, k + 7} : k \in {0, 10, 20}}

MCFields == {<<>>, <<"a", ",">>, <<"quote", "a">>, <<"CR", "LF">>}

Letters(n) == [i \in 1..n |-> 64 + i]
Receivers == [callsign : {Letters(0), Letters(4)}, grid : {Letters(2), Letters(3)},
              software : {Letters(1), Letters(3)}]
SenderRecords == [callsign : {Letters(1), Letters(3), Letters(4)}, snr : {-5, 7},
                  frequency : {0, 14236000, 2147483647}, time : {1, 1700000000}]

\* CsvReporter: whatever the fields contain and however often the program is
\* restarted or killed, the file reads back as one header and the records that
\* were added.  PskReporter's reportCommon_: a reader that follows the templates
\* of a datagram finds the receiver and every record in it, with nothing cut off
\* or left over.
ReportsReadBack ==
    /\ which = "csv" => Report!CsvReadsBack
    /\ which = "datagram" => Report!DatagramReadsBack(stream[1], stream[2])

\* timespec.c: whatever the form of the operands, the functions compute on the
\* times they stand for; sums, differences and conversions are in the form POSIX
\* requires.  timespec_mod is the remainder with the sign of the divisor, as
\* long as its guard against overflow stops in time; its nanoseconds may be
\* negative if the dividend is.
TimesAreNumbers ==
    which = "time" => /\ Time!TimesAreNumbers(stream[1], stream[2])
                      /\ Time!ModIsRemainder(stream[1], stream[2])
Times == {Time!Ts(s, n) : s \in -3..3, n \in -9..9}
             \cup {Time!Ts(s, n) : s \in {-6, 5, 6, 7}, n \in {0, 3, 7}}

-------------------------------------------------------------------------------
\* Log messages: a format is a row of parts, literal characters and conversions
\* the deferred printf supports or not.
Conversion(prefix, len, conv) ==
    [lit |-> "", prefix |-> prefix, len |-> len, conv |-> conv,
     chars |-> <<"%">> \o prefix \o len \o <<conv>>]
LiteralPart(c, chars) == [lit |-> c, chars |-> chars]
Parts ==
    {Conversion(<<"-", "0", "5">>, <<>>, "d"), Conversion(<<>>, <<"h", "h">>, "d"),
     Conversion(<<"2">>, <<"l">>, "u"), Conversion(<<".", "2">>, <<>>, "f"),
     Conversion(<<>>, <<>>, "c"), Conversion(<<>>, <<>>, "s"), Conversion(<<"5">>, <<"l">>, "s"),
     Conversion(<<"*">>, <<"l">>, "d"), Conversion(<<"1", "$", "0">>, <<>>, "d"),
     LiteralPart("d", <<"d">>), LiteralPart("%", <<"%", "%">>)}
Arguments == {[int |-> i, str |-> s] : i \in {-3, 5},
                 s \in {Log!NullString, <<"a">>, <<"a", "b", "c", "d">>}}
LongArguments == {a \in Arguments : a.int = 5 /\ Len(a.str) > 1}
LogInputs == UNION {[parts : [1..n -> Parts], args : {<<a, b, a>> : a \in Arguments, b \in LongArguments}] : n \in {1, 3}}

SupportedPart(p) == /\ Log!Kind(p.conv, p.len) # "UNSUPPORTED"
                    /\ \A i \in DOMAIN p.prefix : p.prefix[i] \notin {"*", "$"}
Cut(s) == SubSeq(s, 1, Min2(Len(s), StrMax))
\* Reference: printf, where a part that cannot be deferred is a mark and a string
\* is cut at StrMax.
ArgumentOf(parts, i) == 1 + Cardinality({j \in 1..(i - 1) : parts[j].lit = ""})
Printf(parts, args) ==
    LET Part(i) ==
            LET p == parts[i]
                a == args[ArgumentOf(parts, i)]
            IN CASE p.lit # "" -> <<Log!Literal(p.lit)>>
                 [] p.lit = "" /\ ~SupportedPart(p) -> Log!Lost
                 [] OTHER -> IF p.conv = "s" THEN Log!PrintString(p.prefix, Cut(a.str))
                             ELSE Log!PrintNumber(Log!Kind(p.conv, p.len), p.prefix, p.len, p.conv, a.int)
    IN FlattenSeq([i \in DOMAIN parts |-> Part(i)])
CutsString(parts, args) ==
    \E i \in DOMAIN parts :
        /\ parts[i].lit = "" /\ SupportedPart(parts[i]) /\ parts[i].conv = "s"
        /\ Len(args[ArgumentOf(parts, i)].str) > StrMax
LiteralsOf(s) == SelectSeq(s, LAMBDA c : c[1] = "literal")

Deferred == Log!SerializeArgs(FlattenSeq([i \in DOMAIN stream.parts |-> stream.parts[i].chars]), stream.args)
\* How far a message is what printf writes.
Agreed(out, full) == Max({k \in 0..Len(out) : IsPrefix(SubSeq(out, 1, k), full)})
Departs(out, full, same) ==
    IF same = Len(out) THEN same \in {Len(full), RenderLen - 1}
    ELSE out[same + 1][1] \in {"lost", "truncated"}
RendersRecord(rec, out, full) ==
    /\ Len(out) < RenderLen
    /\ Departs(out, full, Agreed(out, full))
    /\ Len(out) < RenderLen - 1 => LiteralsOf(out) = LiteralsOf(full)
    /\ ~rec.truncated => IsPrefix(out, full)
    /\ (\E i \in DOMAIN full : full[i][1] = "lost") => rec.truncated
    /\ CutsString(stream.parts, stream.args) => rec.truncated
    /\ rec.truncated => Len(out) = RenderLen - 1 \/ \E i \in DOMAIN out : out[i][1] = "truncated"
Renders(rec, full) == RendersRecord(rec, Log!RenderMessage(rec), full)

\* serializeArgs on the calling thread and renderMessage on the consumer: the
\* message is what printf would have written there and then, up to its size, with
\* the strings cut to kStrMax; it departs from that only at a mark, keeps every
\* literal character, and says at its end that something was cut or left out.
RendersAsPrintf ==
    which = "log" => Renders(Deferred, Printf(stream.parts, stream.args))

-------------------------------------------------------------------------------
\* permessage-deflate: a server with any settings, and the offers of a request.
BitValues == {-1, 8, 12, 16}
ServerSettings ==
    {LET e == IF takeover THEN Deflate!Extension ELSE Deflate!EnableServerNoContextTakeover(Deflate!Extension)
     IN Deflate!SetClientMaxWindowBits(Deflate!SetServerMaxWindowBits(e, sb, sm), cb, cm) :
        takeover \in BOOLEAN, sb \in {8, 15}, cb \in {8, 10}, sm, cm \in Deflate!Modes}
Offers == {f \in UNION {[names -> BitValues] : names \in SUBSET ToSet(Deflate!Names)} :
              \A n \in DOMAIN f \ {Deflate!ClientBits, Deflate!ServerBits} : f[n] = -1}
Refused == [n \in {Deflate!ServerBits} |-> 16]
DeflateInputs == [server : ServerSettings,
                  offers : {<<o>> : o \in Offers} \cup {<<Refused, Deflate!GenerateOffer>>}]
ServerSide == Deflate!NegotiateExtensions(stream.server, stream.offers, TRUE)
ClientSide(server) ==
    Deflate!NegotiateExtensions(Deflate!Extension, <<Deflate!GenerateResponse(server)>>, FALSE)
Payloads == {<<>>, <<1>>, <<1, 2, 3, 4>>}

\* compress and decompress after a negotiation: what one side compresses the
\* other side decompresses, whatever the size of their buffers.
CompressedIsRead ==
    which = "deflate" =>
        LET s == ServerSide
            c == ClientSide(s)
        IN s.enabled => /\ c.enabled
                        /\ \A in \in Payloads, size \in {1, 2, 16}, end \in {<<s, c>>, <<c, s>>} :
                              LET z == Deflate!Compress(end[1], in, size)
                              IN z.ec = "ok" /\ Deflate!Decompress(end[2], z.out, size) = [ec |-> "ok", out |-> in]

\* negotiate, generate_response and init: a side whose answer says it will not
\* keep its window from one message to the next flushes it after each, and only
\* that side.
PromiseKept ==
    which = "deflate" =>
        LET s == ServerSide
            said == DOMAIN Deflate!GenerateResponse(s)
        IN s.enabled => /\ Deflate!ClientNoContext \in said <=> ClientSide(s).fullFlush
                        /\ Deflate!ServerNoContext \in said <=> s.fullFlush

-------------------------------------------------------------------------------
\* WebSocket frames: what hybi13 prepares, its peer consumes as the same
\* messages, in reads of any size, masked in pieces of any size, with the text
\* checked by the streaming UTF-8 validator and the code and reason of a close
\* recovered; and it stops exactly where the frames are not a legal sequence, but
\* for a text whose last continuation ends inside a character, which it takes.
FramesAreRead ==
    DecodesFrames /\ MaskingAgrees /\ Utf8IsRfc3629 /\ CloseRoundTrip /\ FrameRoundTrip

\* HTTP messages: what raw() wrote consume reads back; the grouping into reads
\* changes neither what is understood nor what is left for the first frames, and
\* only the size counted, for which a message longer than a fifth of the limit
\* may be refused in pieces; a parameter list means the same written with quotes
\* and folded whitespace.
HttpIsRead == HttpAnyReads /\ HttpRoundTrip /\ ParameterListRoundTrip

\* The opening handshake: the client takes the answer exactly when the server
\* took the request, and then both mean the same uri, key, subprotocol and
\* settings of the extension, with which each decompresses what the other
\* compresses; a request altered on the way in one of the parts that matter to the
\* handshake (Altered lists them) opens nothing.
HandshakeAgrees ==
    /\ UriRoundTrip /\ Base64RoundTrip /\ AnswerAgrees /\ AlteredIsRefused
    /\ CompressedIsRead /\ PromiseKept

-------------------------------------------------------------------------------
OwnInputs ==
    [callsign |-> {<<>>}, csv |-> {<<>>}, log |-> LogInputs, deflate |-> DeflateInputs,
     datagram |-> Receivers \X UNION {[1..n -> SenderRecords] : n \in 0..2},
     time |-> Times \X Times]

FormatsInit ==
    /\ Rade!TextInit /\ Report!CsvInit
    /\ \/ MCInit
       \/ /\ which \in DOMAIN OwnInputs /\ stream \in OwnInputs[which]
          /\ pos = 0 /\ dec = Decoder /\ got = <<>> /\ err = "ok" /\ http = Parser

FormatsNext == \/ MCNext /\ UNCHANGED <<textVars, csvVars>>
               \/ which = "callsign" /\ Rade!TextNext /\ UNCHANGED <<MCVars, csvVars>>
               \/ which = "csv" /\ Report!CsvNext /\ UNCHANGED <<MCVars, textVars>>
FormatsSpec == FormatsInit /\ [][FormatsNext]_formatVars
===============================================================================

------------------------------ MODULE HttpParser ------------------------------
(***************************************************************************)
(* The HTTP messages of the opening handshake: http::parser's tokens,       *)
(* parameter lists and header list, and the incremental consume of a        *)
(* request and of a response.  A text is a sequence of characters; CR and   *)
(* LF are the characters of a line end.  Every header name, method and      *)
(* version is one character here: the parser compares them only as wholes.  *)
(***************************************************************************)
EXTENDS Naturals, Sequences, SequencesExt, FiniteSetsExt

CONSTANT MaxHeaderSize,    \* max_header_size
         MaxBodySize,      \* m_body_bytes_max
         IstreamBuffer     \* istream_buffer

CR == "CR"
LF == "LF"
CRLF == <<CR, LF>>
Digit == [c \in {"0", "1", "2", "3"} |->
             CASE c = "0" -> 0 [] c = "1" -> 1 [] c = "2" -> 2 [] OTHER -> 3]
Lower(c) == CASE c = "H" -> "h" [] c = "L" -> "l" [] c = "A" -> "a" [] OTHER -> c
\* The entries of header_token that are 1, of the characters used here.
TokenChars == {"G", "H", "h", "L", "l", "A", "a", "b", "v"} \cup DOMAIN Digit
IsTokenChar(c) == c \in TokenChars
IsWhitespace(c) == c \in {" ", "TAB"}

\* std::find_if and std::search from position b; one past the end if none.
FindIf(s, b, P(_)) == Min({i \in b..Len(s) : P(s[i])} \cup {Len(s) + 1})
Search(s, b, pat) ==
    Min({i \in b..Len(s) : /\ i + Len(pat) - 1 <= Len(s)
                           /\ SubSeq(s, i, i + Len(pat) - 1) = pat} \cup {Len(s) + 1})
End(s) == Len(s) + 1

-------------------------------------------------------------------------------
\* Extractors: the text taken and the position after it.
ExtractToken(s, b) ==
    LET e == FindIf(s, b, LAMBDA c : ~IsTokenChar(c))
    IN [str |-> SubSeq(s, b, e - 1), at |-> e]

RECURSIVE QuotedRest(_, _, _, _, _)
QuotedRest(s, begin, marker, from, acc) ==
    LET q == FindIf(s, from, LAMBDA c : c = "quote")
    IN CASE q = End(s) -> [str |-> <<>>, at |-> begin]
         [] q # End(s) /\ s[q - 1] = "\\" ->
              QuotedRest(s, begin, q + 1, q + 1,
                         Append(acc \o SubSeq(s, marker, q - 2), "quote"))
         [] OTHER -> [str |-> acc \o SubSeq(s, marker, q - 1), at |-> q + 1]
ExtractQuotedString(s, b) ==
    IF b = End(s) \/ s[b] # "quote" THEN [str |-> <<>>, at |-> b]
    ELSE QuotedRest(s, b, b + 1, b + 1, <<>>)

ExtractLws(s, b) ==
    LET folded == /\ End(s) - b > 2
                  /\ SubSeq(s, b, b + 1) = CRLF
                  /\ IsWhitespace(s[b + 2])
    IN FindIf(s, IF folded THEN b + 3 ELSE b, LAMBDA c : ~IsWhitespace(c))

RECURSIVE ExtractAllLws(_, _)
ExtractAllLws(s, b) ==
    LET n == ExtractLws(s, b)
    IN IF n # End(s) /\ n # b THEN ExtractAllLws(s, n) ELSE n

StripLws(s) ==
    LET b == ExtractAllLws(s, 1)
        r == ExtractAllLws(Reverse(s), 1)
    IN IF b = End(s) \/ r = End(s) THEN <<>> ELSE SubSeq(s, b, End(s) - r)

\* What follows the name of an attribute: "=" and a quoted string or a token, or
\* nothing, which is a blank value.
TokenValue(t) == [ok |-> t.str # <<>>, str |-> t.str, at |-> t.at]
QuotedOrToken(s, b, q) ==
    IF q.at # b THEN [ok |-> TRUE, str |-> q.str, at |-> q.at] ELSE TokenValue(ExtractToken(s, b))
ExtractValue(s, b) == QuotedOrToken(s, b, ExtractQuotedString(s, b))
AfterAttributeName(s, b) ==
    IF b = End(s) \/ s[b] # "=" THEN [ok |-> TRUE, str |-> <<>>, at |-> b]
    ELSE ExtractValue(s, ExtractAllLws(s, b + 1))

\* The loop of extract_attributes, from position b past the whitespace (at c), the
\* name (token) and the value (v) of one attribute; failing is returning begin.
RECURSIVE AttributesFrom(_, _, _, _, _), AttributeAt(_, _, _, _, _), NamedAttribute(_, _, _, _),
          SetAttribute(_, _, _, _, _)
SetAttribute(s, begin, name, v, attrs) ==
    IF ~v.ok THEN [at |-> begin, attrs |-> attrs]
    ELSE AttributesFrom(s, begin, v.at, FALSE,
             [n \in DOMAIN attrs \cup {name} |-> IF n = name THEN v.str ELSE attrs[n]])
NamedAttribute(s, begin, token, attrs) ==
    IF token.str = <<>> THEN [at |-> begin, attrs |-> attrs]
    ELSE SetAttribute(s, begin, token.str, AfterAttributeName(s, ExtractAllLws(s, token.at)), attrs)
AttributeAt(s, begin, c, first, attrs) ==
    IF c = End(s) \/ (~first /\ s[c] # ";") THEN [at |-> c, attrs |-> attrs]
    ELSE NamedAttribute(s, begin, ExtractToken(s, ExtractAllLws(s, IF first THEN c ELSE c + 1)), attrs)
AttributesFrom(s, begin, b, first, attrs) ==
    IF b = End(s) THEN [at |-> b, attrs |-> attrs]
    ELSE AttributeAt(s, begin, ExtractAllLws(s, b), first, attrs)
NoAttributes == [n \in {} |-> <<>>]
ExtractAttributes(s, b) == AttributesFrom(s, b, b, TRUE, NoAttributes)

\* The loop of extract_parameters, likewise; it fails by returning position 1.
RECURSIVE ParametersFrom(_, _, _), ParameterAt(_, _, _), NamedParameter(_, _, _),
          AfterName(_, _, _, _), WithAttributes(_, _, _, _, _), AfterParameter(_, _, _)
AfterParameter(s, comma, params) ==
    IF comma = End(s) \/ s[comma] # "," THEN [at |-> comma, params |-> params]
    ELSE IF comma + 1 = End(s) THEN [at |-> 1, params |-> params]
    ELSE ParametersFrom(s, comma + 1, params)
WithAttributes(s, name, b, a, params) ==
    IF a.at = b THEN [at |-> 1, params |-> params]
    ELSE AfterParameter(s, ExtractAllLws(s, a.at), Append(params, [name |-> name, attrs |-> a.attrs]))
AfterName(s, name, t, params) ==
    IF t # End(s) /\ s[t] = ";"
    THEN WithAttributes(s, name, t + 1, ExtractAttributes(s, t + 1), params)
    ELSE AfterParameter(s, t, Append(params, [name |-> name, attrs |-> NoAttributes]))
NamedParameter(s, token, params) ==
    IF token.str = <<>> THEN [at |-> 1, params |-> params]
    ELSE AfterName(s, token.str, ExtractAllLws(s, token.at), params)
ParameterAt(s, c, params) ==
    IF c = End(s) THEN [at |-> c, params |-> params] ELSE NamedParameter(s, ExtractToken(s, c), params)
ParametersFrom(s, b, params) ==
    IF b = End(s) THEN [at |-> b, params |-> params] ELSE ParameterAt(s, ExtractAllLws(s, b), params)

\* parse_parameter_list: error is TRUE when the position did not move.
ParseParameterList(s) ==
    IF s = <<>> THEN [error |-> FALSE, params |-> <<>>]
    ELSE LET r == ParametersFrom(s, 1, <<>>) IN [error |-> r.at = 1, params |-> r.params]

-------------------------------------------------------------------------------
\* http::parser: the header list, keyed without regard to case.
LowerText(s) == [i \in DOMAIN s |-> Lower(s[i])]
GetHeader(p, key) == IF LowerText(key) \in DOMAIN p.headers
                     THEN p.headers[LowerText(key)] ELSE <<>>
ReplaceHeader(p, key, val) ==
    [p EXCEPT !.headers = [k \in DOMAIN @ \cup {LowerText(key)} |->
                              IF k = LowerText(key) THEN val ELSE @[k]]]
RemoveHeader(p, key) ==
    [p EXCEPT !.headers = [k \in DOMAIN @ \ {LowerText(key)} |-> @[k]]]
AppendHeader(p, key, val) ==
    IF \E i \in DOMAIN key : ~IsTokenChar(key[i]) THEN [p EXCEPT !.err = "name"]
    ELSE ReplaceHeader(p, key, IF GetHeader(p, key) = <<>> THEN val
                               ELSE GetHeader(p, key) \o <<",", " ">> \o val)
ContentLength == <<"L">>
Host == <<"H">>
\* A number as a stringstream writes it.
RECURSIVE Number(_)
Number(n) == (IF n < 10 THEN <<>> ELSE Number(n \div 10))
                 \o << CHOOSE d \in DOMAIN Digit : Digit[d] = n % 10 >>
SetBody(p, value) ==
    IF value = <<>> THEN [RemoveHeader(p, ContentLength) EXCEPT !.body = <<>>]
    ELSE [ReplaceHeader(p, ContentLength, Number(Len(value))) EXCEPT !.body = value]

ProcessHeader(p, line) ==
    LET colon == Search(line, 1, <<":">>)
    IN IF colon = End(line) THEN [p EXCEPT !.err = "line"]
       ELSE AppendHeader(p, StripLws(SubSeq(line, 1, colon - 1)),
                         StripLws(SubSeq(line, colon + 1, Len(line))))

\* operator>> and strtoul: the digits a text begins with.
LeadingDigits(s) == SubSeq(s, 1, FindIf(s, 1, LAMBDA c : c \notin DOMAIN Digit) - 1)
Decimal(s) ==
    LET d == LeadingDigits(s)
        v[i \in 0..Len(d)] == IF i = 0 THEN 0 ELSE v[i - 1] * 10 + Digit[d[i]]
    IN v[Len(d)]

RawHeaders(p) ==
    LET keys == SetToSeq(DOMAIN p.headers)
    IN FlattenSeq([i \in DOMAIN keys |->
                     keys[i] \o <<":", " ">> \o p.headers[keys[i]] \o CRLF])

-------------------------------------------------------------------------------
\* One message being parsed.  start is the first word of the start line (the
\* method, or the version of a response), mid the second, last the rest; need
\* is m_body_bytes_needed of a request and m_read of a response.
Parser == [state |-> "LINE", buf |-> <<>>, headerBytes |-> 0, need |-> 0,
           start |-> <<>>, mid |-> <<>>, last |-> <<>>,
           headers |-> [k \in {} |-> <<>>], body |-> <<>>, err |-> "ok"]

\* request::process and response::process: two spaces split the line; a method
\* must be a token, a status code must begin with a digit.
ProcessLine(p, line, isRequest) ==
    LET a == Search(line, 1, <<" ">>)
        b == Search(line, a + 1, <<" ">>)
        start == SubSeq(line, 1, a - 1)
        mid == SubSeq(line, a + 1, b - 1)
    IN IF \/ a = End(line) \/ b = End(line)
          \/ isRequest /\ \E i \in DOMAIN start : ~IsTokenChar(start[i])
          \/ ~isRequest /\ LeadingDigits(mid) = <<>>
       THEN [p EXCEPT !.err = "line"]
       ELSE [p EXCEPT !.start = start, !.last = SubSeq(line, b + 1, Len(line)),
                      !.mid = IF isRequest THEN mid ELSE Number(Decimal(mid))]

\* Body bytes: a request of length 0 is complete at once, a response only when
\* it is offered more bytes.
RequestBody(p, bytes) ==
    LET n == Min({p.need, Len(bytes)})
    IN [p |-> [p EXCEPT !.body = @ \o SubSeq(bytes, 1, n), !.need = @ - n,
                        !.state = IF p.need = n THEN "DONE" ELSE "BODY"], n |-> n]
ResponseBody(p, bytes) ==
    IF p.need = 0 THEN [p |-> [p EXCEPT !.state = "DONE"], n |-> 0]
    ELSE LET n == Min({p.need, Len(bytes)})
         IN [p |-> [p EXCEPT !.body = @ \o SubSeq(bytes, 1, n), !.need = @ - n,
                             !.state = IF Len(bytes) >= p.need THEN "DONE" ELSE @],
             n |-> n]

\* The empty line: read is what this call has used of its bytes so far.
EndOfHeaders(p, bytes, read, isRequest) ==
    LET length == GetHeader(p, ContentLength)
        rest == SubSeq(bytes, read + 1, Len(bytes))
        q == [p EXCEPT !.buf = <<>>, !.need = Decimal(length), !.state = "BODY"]
        r == IF isRequest THEN RequestBody(q, rest) ELSE ResponseBody(q, rest)
        none == [p |-> [q EXCEPT !.state = "DONE"], n |-> 0]
        fail == [p |-> [p EXCEPT !.err = "incomplete"], n |-> read]
    IN IF isRequest
       THEN IF p.start = <<>> \/ GetHeader(p, Host) = <<>> THEN fail
            ELSE IF length = <<>> THEN [none EXCEPT !.n = read]
            ELSE IF Decimal(length) > MaxBodySize THEN fail
            ELSE [r EXCEPT !.n = @ + read]
       ELSE IF p.state = "LINE" \/ (length # <<>> /\ LeadingDigits(length) = <<>>)
            THEN fail
            ELSE IF read < Len(bytes) THEN [r EXCEPT !.n = @ + read]
            ELSE [p |-> q, n |-> read]

\* The loop of consume over the lines in the buffer, from position b.
\* sizeof(header_delimiter) counts its terminating zero: 3.
RECURSIVE Lines(_, _, _, _), LineTo(_, _, _, _, _), NextLine(_, _, _, _)
NextLine(p, b, bytes, isRequest) ==
    IF p.err # "ok" THEN [p |-> p, n |-> Len(bytes)] ELSE Lines(p, b, bytes, isRequest)
\* The line from b to its end e, counted in q.
LineTo(q, b, e, bytes, isRequest) ==
    LET line == SubSeq(q.buf, b, e - 1)
        first == IF isRequest THEN q.start = <<>> ELSE q.state = "LINE"
    IN CASE q.headerBytes > MaxHeaderSize ->
              [p |-> [q EXCEPT !.err = "size"], n |-> Len(bytes)]
         [] q.headerBytes <= MaxHeaderSize /\ e = End(q.buf) ->
              [p |-> [q EXCEPT !.buf = line, !.headerBytes = @ - Len(line)],
               n |-> Len(bytes)]
         [] OTHER -> IF e = b
                     THEN EndOfHeaders(q, bytes, Len(bytes) + 2 - (End(q.buf) - e), isRequest)
                     ELSE NextLine(IF first
                                   THEN [ProcessLine(q, line, isRequest) EXCEPT !.state = "HEADERS"]
                                   ELSE ProcessHeader(q, line), e + 2, bytes, isRequest)
Counted(p, b, e) == [p EXCEPT !.headerBytes = @ + (e - b) + 3]
Lines(p, b, bytes, isRequest) ==
    LET e == Search(p.buf, b, CRLF) IN LineTo(Counted(p, b, e), b, e, bytes, isRequest)

\* Mutant: a line that began in the read before is forgotten.
HttpConsumeAfresh(p, bytes, isRequest) ==
    CASE p.state = "DONE" -> [p |-> p, n |-> 0]
      [] p.state = "BODY" -> IF isRequest THEN RequestBody(p, bytes)
                             ELSE ResponseBody(p, bytes)
      [] OTHER -> Lines([p EXCEPT !.buf = bytes], 1, bytes, isRequest)

\* consume: the parser after the bytes, and how many of them it used.
HttpConsume(p, bytes, isRequest) ==
    CASE p.state = "DONE" -> [p |-> p, n |-> 0]
      [] p.state = "BODY" -> IF isRequest THEN RequestBody(p, bytes)
                             ELSE ResponseBody(p, bytes)
      [] OTHER -> Lines([p EXCEPT !.buf = @ \o bytes], 1, bytes, isRequest)

HeadersReady(p) == p.state \in {"BODY", "DONE"}
Raw(p) == p.start \o <<" ">> \o p.mid \o <<" ">> \o p.last \o CRLF
              \o RawHeaders(p) \o CRLF \o p.body

\* response::consume of a stream, line by line.  A line that does not fit the
\* buffer fails the stream, which ends the loop.
RECURSIVE ConsumeStream(_, _, _), StreamOn(_, _, _, _, _)
StreamOn(r, n, fits, text, total) ==
    IF r.n # n \/ ~fits \/ r.p.err # "ok" THEN [p |-> r.p, n |-> total + r.n]
    ELSE ConsumeStream(r.p, SubSeq(text, n + 1, Len(text)), total + n)
ConsumeStream(p, text, total) ==
    LET line == Search(text, 1, <<LF>>) - 1
        fits == line < Len(text) /\ line < IstreamBuffer
        n == CASE fits -> line + 1
               [] ~fits /\ line < IstreamBuffer -> line
               [] OTHER -> IstreamBuffer - 1
    IN StreamOn(HttpConsume(p, SubSeq(text, 1, n), FALSE), n, fits, text, total)

SetStatus(p, code, msg) == [p EXCEPT !.mid = code, !.last = msg]

===============================================================================

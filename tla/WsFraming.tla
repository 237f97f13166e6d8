------------------------------- MODULE WsFraming -------------------------------
(***************************************************************************)
(* Frames as bytes: how processor::hybi13 prepares them and how it consumes *)
(* a stream of them that arrives in reads of any size.  The decoder keeps   *)
(* its place between reads (state, bytes needed, masking key, UTF-8 state), *)
(* so where a read ends must not matter.                                    *)
(***************************************************************************)
EXTENDS Integers, Sequences, Bitwise

CONSTANTS MaxMessageSize,  \* m_max_message_size
          Streams,         \* the byte streams that arrive: see Stream below
          ReadSizes        \* how many bytes a read may bring

VARIABLES stream,          \* [server, bytes]: who decodes, and what arrives
          pos,             \* bytes read so far
          dec,             \* the decoder
          got,             \* messages dispatched
          err              \* the error that stopped the decoder, or "ok"

vars == <<stream, pos, dec, got, err>>

CONTINUATION == 0
TEXT == 1
BINARY == 2
CLOSE == 8
PING == 9
PONG == 10
IsControl(op) == op >= 8
Reserved(op) == op \in 3..7 \cup 11..15

-------------------------------------------------------------------------------
(* utf8_validator.hpp: a streaming validator, the automaton of utf8d by byte *)
(* class and state.  State 0 accepts, state 1 rejects.                      *)

\* The class of a byte: the first 256 entries of utf8d.
ByteClass(b) ==
    CASE b \in 0..127 -> 0
      [] b \in 128..143 -> 1
      [] b \in 144..159 -> 9
      [] b \in 160..191 -> 7
      [] b \in {192, 193} \cup 245..255 -> 8
      [] b \in 194..223 -> 2
      [] b = 224 -> 10
      [] b \in 225..236 \cup {238, 239} -> 3
      [] b = 237 -> 4
      [] b = 240 -> 11
      [] b \in 241..243 -> 6
      [] b = 244 -> 5

\* The rest of utf8d: from each state, the classes that do not reject.
LeadState(class) ==
    CASE class = 0 -> 0 [] class = 2 -> 2 [] class = 3 -> 3 [] class = 4 -> 5
      [] class = 5 -> 8 [] class = 6 -> 7 [] class = 10 -> 4 [] class = 11 -> 6
      [] OTHER -> 1

TrailStates == <<[from |-> 2, on |-> {1, 7, 9}, to |-> 0],
                 [from |-> 3, on |-> {1, 7, 9}, to |-> 2],
                 [from |-> 4, on |-> {7}, to |-> 2],
                 [from |-> 5, on |-> {1, 9}, to |-> 2],
                 [from |-> 6, on |-> {7, 9}, to |-> 3],
                 [from |-> 7, on |-> {1, 7, 9}, to |-> 3],
                 [from |-> 8, on |-> {1}, to |-> 3]>>

Utf8Next(state, b) ==
    LET class == ByteClass(b)
    IN IF state = 0 THEN LeadState(class)
       ELSE IF state # 1 /\ class \in TrailStates[state - 1].on
            THEN TrailStates[state - 1].to ELSE 1

\* validator::decode from a state: byte by byte, in halves of the text.
RECURSIVE Utf8Decode(_, _)
Utf8Decode(state, bytes) ==
    LET half == Len(bytes) \div 2
    IN CASE bytes = <<>> \/ state = 1 -> state
         [] state # 1 /\ Len(bytes) = 1 -> Utf8Next(state, bytes[1])
         [] OTHER -> Utf8Decode(Utf8Decode(state, SubSeq(bytes, 1, half)),
                                SubSeq(bytes, half + 1, Len(bytes)))

Utf8Complete(state) == state = 0
Utf8Validate(bytes) == Utf8Complete(Utf8Decode(0, bytes))

-------------------------------------------------------------------------------
\* frame.hpp: headers and masking.
SizeCode(size) == CASE size <= 125 -> size
                    [] size > 125 /\ size <= 65535 -> 126
                    [] OTHER -> 127

BigEndian(n, width) == [i \in 1..width |-> (n \div 256^(width - i)) % 256]
\* A payload size of this model fits four bytes.
ExtendedSize(size) == CASE SizeCode(size) <= 125 -> <<>>
                        [] SizeCode(size) = 126 -> BigEndian(size, 2)
                        [] OTHER -> <<0, 0, 0, 0, 0>> \o BigEndian(size, 3)

Flag(b, v) == IF b THEN v ELSE 0
PrepareHeader(op, size, fin, masked, key) ==
    <<Flag(fin, 128) + op, Flag(masked, 128) + SizeCode(size)>>
        \o ExtendedSize(size) \o (IF masked THEN key ELSE <<>>)

Fin(d) == d.b0 >= 128
Rsv(d) == (d.b0 \div 16) % 8
Opcode(d) == d.b0 % 16
Masked(d) == d.b1 >= 128
BasicSize(d) == d.b1 % 128
KeyOffset(d) == CASE BasicSize(d) = 126 -> 2 [] BasicSize(d) = 127 -> 8
                  [] OTHER -> 0
HeaderLen(d) == 2 + KeyOffset(d) + (IF Masked(d) THEN 4 ELSE 0)
MaskingKey(d) == IF Masked(d) THEN SubSeq(d.ext, KeyOffset(d) + 1, KeyOffset(d) + 4)
                 ELSE <<0, 0, 0, 0>>
Value(bytes) ==
    LET v[i \in 0..Len(bytes)] == IF i = 0 THEN 0 ELSE v[i - 1] * 256 + bytes[i]
    IN v[Len(bytes)]
PayloadSize(d) ==
    IF BasicSize(d) <= 125 THEN BasicSize(d) ELSE Value(SubSeq(d.ext, 1, KeyOffset(d)))

MaskWith(bytes, key) == [i \in DOMAIN bytes |-> bytes[i] ^^ key[((i - 1) % Len(key)) + 1]]
ByteMask(bytes, key) == MaskWith(bytes, key)

\* Keys prepared as a machine word of eight bytes, lowest address first.  A
\* circular mask also gives the key that goes on with the next byte.
PrepareMaskingKey(key) == key \o key
CircShift(word, n) == [i \in 1..8 |-> word[((i - 1 + n) % 8) + 1]]

ByteMaskCirc(bytes, word) ==
    [out |-> MaskWith(bytes, SubSeq(word, 1, 4)), key |-> CircShift(word, Len(bytes) % 4)]

\* Word by word, and the rest byte by byte.
WordMaskCirc(bytes, word) ==
    LET whole == 8 * (Len(bytes) \div 8)
    IN [out |-> MaskWith(SubSeq(bytes, 1, whole), word)
                    \o MaskWith(SubSeq(bytes, whole + 1, Len(bytes)), word),
        key |-> CircShift(word, Len(bytes) - whole)]

WordMaskExact(bytes, key) ==
    LET whole == 8 * (Len(bytes) \div 8)
    IN MaskWith(SubSeq(bytes, 1, whole), PrepareMaskingKey(key))
           \o [i \in 1..(Len(bytes) - whole) |->
                  bytes[whole + i] ^^ key[((whole + i - 1) % 4) + 1]]

-------------------------------------------------------------------------------
\* hybi13: preparing frames.  <<>> stands for an error code.
PrepareDataFrame(server, op, fin, payload, key) ==
    IF IsControl(op) \/ (op = TEXT /\ ~Utf8Validate(payload)) THEN <<>>
    ELSE PrepareHeader(op, Len(payload), fin, ~server, key)
             \o (IF server THEN payload ELSE ByteMask(payload, key))

PrepareControl(server, op, payload, key) ==
    IF ~IsControl(op) \/ Len(payload) > 125 THEN <<>>
    ELSE PrepareHeader(op, Len(payload), TRUE, ~server, key)
             \o (IF server THEN payload ELSE ByteMask(payload, key))

\* close.hpp: codes that may not be sent, and what a payload says.
ReservedCode(code) == code \in 1016..2999 \cup {1004}

InvalidCode(code) == code <= 999 \/ code >= 5000 \/ code \in {1005, 1006, 1015}

PrepareClose(server, code, reason, key) ==
    IF \/ ReservedCode(code)
       \/ InvalidCode(code) /\ code # 1005
       \/ code = 1005 /\ Len(reason) > 0
       \/ Len(reason) > 123
    THEN <<>>
    ELSE PrepareControl(server, CLOSE,
             IF code = 1005 THEN <<>> ELSE BigEndian(code, 2) \o reason, key)

ExtractCode(payload) ==
    CASE payload = <<>> -> [code |-> 1005, ok |-> TRUE]
      [] Len(payload) = 1 -> [code |-> 1002, ok |-> FALSE]
      [] OTHER -> LET code == Value(SubSeq(payload, 1, 2))
                  IN [code |-> code, ok |-> ~InvalidCode(code) /\ ~ReservedCode(code)]
ExtractReason(payload) ==
    LET reason == SubSeq(payload, 3, Len(payload))
    IN [reason |-> reason, ok |-> Utf8Validate(reason)]

-------------------------------------------------------------------------------
\* The decoder.  A message being read: its opcode, payload so far, key and
\* UTF-8 state; data holds a fragmented message across control frames.
NoMsg == [on |-> FALSE, op |-> 0, out |-> <<>>, key |-> [i \in 1..8 |-> 0], utf8 |-> 0]
Decoder == [state |-> "HEADER_BASIC", needed |-> 2, b0 |-> 0, b1 |-> 0,
            ext |-> <<>>, data |-> NoMsg, control |-> NoMsg, current |-> "data"]

\* Mutant: the extended header of the frame before is kept.
ResetHeadersPart(d) == [d EXCEPT !.state = "HEADER_BASIC", !.needed = 2, !.b0 = 0, !.b1 = 0]

ResetHeaders(d) == [d EXCEPT !.state = "HEADER_BASIC", !.needed = 2,
                             !.b0 = 0, !.b1 = 0, !.ext = <<>>]

Min2(a, b) == IF a < b THEN a ELSE b

ValidateBasicHeader(d, server) ==
    LET op == Opcode(d)
    IN CASE IsControl(op) /\ BasicSize(d) > 125 -> "control_too_big"
         [] ~(IsControl(op) /\ BasicSize(d) > 125) ->
              CASE Rsv(d) # 0 -> "invalid_rsv_bit"
                [] Rsv(d) = 0 /\ Reserved(op) -> "invalid_opcode"
                [] Rsv(d) = 0 /\ IsControl(op) /\ ~Reserved(op) /\ ~Fin(d) ->
                       "fragmented_control"
                [] Rsv(d) = 0 /\ ~IsControl(op) /\ ~Reserved(op)
                   /\ (d.data.on <=> op # CONTINUATION) -> "invalid_continuation"
                [] OTHER -> IF server = Masked(d) THEN "ok" ELSE "masking"

\* HEADER_BASIC: copy_basic_header_bytes takes n bytes, then the checks of the
\* header e they make.
BasicBytes(d, buf, n) ==
    [d EXCEPT !.b0 = IF d.needed = 2 THEN buf[1] ELSE @,
              !.b1 = IF d.needed = 1 THEN buf[1] ELSE IF n = 2 THEN buf[2] ELSE @,
              !.needed = @ - n]
BasicHeader(e, n, server) ==
    IF e.needed > 0 THEN [d |-> e, n |-> n, ec |-> "ok"]
    ELSE [d |-> [e EXCEPT !.state = "HEADER_EXTENDED", !.needed = HeaderLen(e) - 2],
          n |-> n, ec |-> ValidateBasicHeader(e, server)]
BasicStep(d, buf, server) ==
    LET n == IF Len(buf) > 1 /\ d.needed = 2 THEN 2 ELSE 1
    IN BasicHeader(BasicBytes(d, buf, n), n, server)

ValidateExtendedHeader(d) ==
    IF \/ BasicSize(d) = 126 /\ PayloadSize(d) <= 125
       \/ BasicSize(d) = 127 /\ PayloadSize(d) <= 65535
    THEN "non_minimal_encoding" ELSE "ok"

\* HEADER_EXTENDED: the frame's message is made, or continued with a new key.
Announce(d) ==
    LET op == Opcode(d)
        size == PayloadSize(d)
        e == [d EXCEPT !.state = "APPLICATION", !.needed = size]
        new == [NoMsg EXCEPT !.on = TRUE, !.op = op, !.key = PrepareMaskingKey(MaskingKey(d))]
    IN CASE IsControl(op) ->
              [d |-> [e EXCEPT !.control = new, !.current = "control"], ec |-> "ok"]
         [] ~IsControl(op) /\ ~d.data.on ->
              [d |-> [e EXCEPT !.data = new, !.current = "data"],
               ec |-> IF size > MaxMessageSize THEN "message_too_big" ELSE "ok"]
         [] OTHER ->
              [d |-> [e EXCEPT !.data.key = PrepareMaskingKey(MaskingKey(d)), !.current = "data"],
               ec |-> IF Len(d.data.out) + size > MaxMessageSize
                      THEN "message_too_big" ELSE "ok"]

Taking(n, r) == [d |-> r.d, n |-> n, ec |-> r.ec]
ExtendedHeader(e, n, ec) ==
    IF e.needed > 0 THEN [d |-> e, n |-> n, ec |-> "ok"]
    ELSE IF ec # "ok" THEN [d |-> e, n |-> n, ec |-> ec]
    ELSE Taking(n, Announce(e))
ExtendedChecked(e, n) ==
    ExtendedHeader(e, n, IF e.needed = 0 THEN ValidateExtendedHeader(e) ELSE "ok")
ExtendedStep(d, buf) ==
    LET n == Min2(d.needed, Len(buf))
    IN ExtendedChecked([d EXCEPT !.ext = @ \o SubSeq(buf, 1, n), !.needed = @ - n], n)

\* APPLICATION: process_payload_bytes, then finalize_message at the end of the
\* last frame.  finalize_message looks at the opcode of that frame.
AppendPlain(m, plain, key) ==
    [m EXCEPT !.out = @ \o plain, !.key = key,
              !.utf8 = IF m.op = TEXT THEN Utf8Decode(@, plain) ELSE @]
AppendMasked(m, mask) == AppendPlain(m, mask.out, mask.key)
ProcessPayload(m, bytes, masked) ==
    IF masked THEN AppendMasked(m, ByteMaskCirc(bytes, m.key)) ELSE AppendPlain(m, bytes, m.key)

FinalizeMessage(d) ==
    IF Opcode(d) = TEXT /\ ~Utf8Complete(d.data.utf8)
    THEN [d |-> d, ec |-> "invalid_utf8"]
    ELSE [d |-> [d EXCEPT !.state = "READY"], ec |-> "ok"]

AfterPayload(e, n) ==
    CASE n > 0 /\ e[e.current].utf8 = 1 -> [d |-> e, n |-> 0, ec |-> "invalid_utf8"]
      [] ~(n > 0 /\ e[e.current].utf8 = 1) /\ e.needed > 0 -> [d |-> e, n |-> n, ec |-> "ok"]
      [] OTHER -> IF Fin(e) THEN Taking(n, FinalizeMessage(e))
                  ELSE [d |-> ResetHeaders(e), n |-> n, ec |-> "ok"]
PayloadStep(d, buf) ==
    LET n == Min2(d.needed, Len(buf))
    IN AfterPayload([d EXCEPT ![d.current] =
                                  IF n > 0 THEN ProcessPayload(@, SubSeq(buf, 1, n), Masked(d)) ELSE @,
                              !.needed = @ - n], n)

\* consume: steps until a message is ready, the bytes are used up, or an error.
DecoderStep(d, left, server) ==
    CASE d.state = "HEADER_BASIC" -> BasicStep(d, left, server)
      [] d.state = "HEADER_EXTENDED" -> ExtendedStep(d, left)
      [] d.state = "APPLICATION" -> PayloadStep(d, left)
RECURSIVE Consume(_, _, _, _), ConsumeOn(_, _, _, _)
ConsumeOn(r, buf, p, server) ==
    IF r.ec = "ok" THEN Consume(r.d, buf, p + r.n, server)
    ELSE [d |-> r.d, p |-> p + r.n, ec |-> r.ec]
Consume(d, buf, p, server) ==
    IF d.state = "READY" \/ ~(p < Len(buf) \/ d.needed = 0)
    THEN [d |-> d, p |-> p, ec |-> "ok"]
    ELSE ConsumeOn(DecoderStep(d, SubSeq(buf, p + 1, Len(buf)), server), buf, p, server)

\* get_message hands the message over and makes room for the next.
Message(d) == [op |-> d[d.current].op, payload |-> d[d.current].out]
GetMessage(d) ==
    ResetHeaders([d EXCEPT ![d.current] = [@ EXCEPT !.on = FALSE]])

\* The loop of handle_read_frame over one read.
RECURSIVE ReadLoop(_, _, _, _), ReadOn(_, _, _, _)
ReadOn(r, buf, server, msgs) ==
    IF r.ec # "ok" THEN [d |-> r.d, msgs |-> msgs, ec |-> r.ec]
    ELSE LET ready == r.d.state = "READY"
         IN ReadLoop(IF ready THEN GetMessage(r.d) ELSE r.d, SubSeq(buf, r.p + 1, Len(buf)), server,
                     IF ready THEN Append(msgs, Message(r.d)) ELSE msgs)
ReadLoop(d, buf, server, msgs) ==
    IF buf = <<>> THEN [d |-> d, msgs |-> msgs, ec |-> "ok"]
    ELSE ReadOn(Consume(d, buf, 0, server), buf, server, msgs)

-------------------------------------------------------------------------------
Init ==
    /\ stream \in Streams
    /\ pos = 0 /\ dec = Decoder /\ got = <<>> /\ err = "ok"

Read ==
    /\ err = "ok" /\ pos < Len(stream.bytes)
    /\ \E end \in {Min2(pos + n, Len(stream.bytes)) : n \in ReadSizes} :
         \E r \in {ReadLoop(dec, SubSeq(stream.bytes, pos + 1, end), stream.server, got)} :
            pos' = end /\ dec' = r.d /\ got' = r.msgs /\ err' = r.ec
    /\ UNCHANGED stream

Spec == Init /\ [][Read]_vars

===============================================================================

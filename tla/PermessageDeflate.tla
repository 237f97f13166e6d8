-------------------------- MODULE PermessageDeflate ---------------------------
(***************************************************************************)
(* Negotiation of the permessage-deflate extension, as                      *)
(* extensions/permessage_deflate/enabled.hpp and the extension helper of    *)
(* processors/hybi13.hpp do it on both sides: the server with the offers of *)
(* the request, the client with the parameters of the response.             *)
(*                                                                         *)
(* An attribute list is a function from names to values; a value is the     *)
(* number its text holds, -1 for an empty text.  zlib is external: what it  *)
(* writes carries the window it may refer back to, and a smaller window     *)
(* cannot read it.                                                          *)
(***************************************************************************)
EXTENDS Integers, Sequences

LOCAL INSTANCE Folds
LOCAL INSTANCE SequencesExt

DefaultBits == 15
MinBits == 8
MaxBits == 15
Modes == {"accept", "decline", "largest", "smallest"}
Empty == -1

ClientBits == "client_max_window_bits"
ClientNoContext == "client_no_context_takeover"
ServerBits == "server_max_window_bits"
ServerNoContext == "server_no_context_takeover"
\* An attribute_list is a std::map: the loop over it is in the order of names.
Names == <<ClientBits, ClientNoContext, ServerBits, ServerNoContext, "x_unknown">>

\* The constructor.
Extension ==
    [enabled |-> FALSE, serverNoContext |-> FALSE, clientNoContext |-> FALSE,
     serverBits |-> DefaultBits, clientBits |-> DefaultBits,
     serverMode |-> "accept", clientMode |-> "accept",
     initialized |-> FALSE, deflate |-> 0, inflate |-> 0, fullFlush |-> FALSE, ec |-> "ok"]

EnableServerNoContextTakeover(e) == [e EXCEPT !.serverNoContext = TRUE]
EnableClientNoContextTakeover(e) == [e EXCEPT !.clientNoContext = TRUE]

\* zlib does not support a window of 8 bits.
Supported(bits) == IF bits = 8 THEN 9 ELSE bits
InRange(bits) == bits \in MinBits..MaxBits

SetServerMaxWindowBits(e, bits, mode) ==
    IF InRange(bits) THEN [e EXCEPT !.serverBits = Supported(bits), !.serverMode = mode] ELSE e
SetClientMaxWindowBits(e, bits, mode) ==
    IF InRange(bits) THEN [e EXCEPT !.clientBits = Supported(bits), !.clientMode = mode] ELSE e

\* generate_offer, whatever the settings are.
GenerateOffer == [n \in {ClientNoContext, ClientBits} |-> Empty]

\* uint8_t(atoi(value))
Atoi8(value) == IF value = Empty THEN 0 ELSE value % 256

\* The switch on the mode, with the value of the peer and the one of ours.
Negotiated(mode, bits, mine) ==
    Supported(CASE mode = "decline" -> DefaultBits
                [] mode = "accept" -> bits
                [] mode = "largest" -> IF bits < mine THEN bits ELSE mine
                [] mode = "smallest" -> MinBits)

NegotiateServerMaxWindowBits(e, value) ==
    LET bits == Atoi8(value)
    IN IF ~InRange(bits)
       THEN [e EXCEPT !.ec = "invalid_attribute_value", !.serverBits = DefaultBits]
       ELSE [e EXCEPT !.serverBits = Negotiated(e.serverMode, bits, @)]

NegotiateClientMaxWindowBits(e, value) ==
    LET bits == IF value = Empty THEN DefaultBits ELSE Atoi8(value)
    IN IF ~InRange(bits)
       THEN [e EXCEPT !.ec = "invalid_attribute_value", !.clientBits = DefaultBits]
       ELSE [e EXCEPT !.clientBits = Negotiated(e.clientMode, bits, @)]

NegotiateServerNoContextTakeover(e, value) ==
    IF value # Empty THEN [e EXCEPT !.ec = "invalid_attribute_value"]
    ELSE EnableServerNoContextTakeover(e)
NegotiateClientNoContextTakeover(e, value) ==
    IF value # Empty THEN [e EXCEPT !.ec = "invalid_attribute_value"]
    ELSE EnableClientNoContextTakeover(e)

\* generate_response: only what differs from the defaults is said.
GenerateResponse(e) ==
    LET said == {n \in {ClientBits, ClientNoContext, ServerBits, ServerNoContext} :
                   CASE n = ClientBits -> e.clientBits < DefaultBits
                     [] n = ServerBits -> e.serverBits < DefaultBits
                     [] n = ClientNoContext -> e.clientNoContext
                     [] n = ServerNoContext -> e.serverNoContext}
    IN [n \in said |-> CASE n = ClientBits -> e.clientBits
                         [] n = ServerBits -> e.serverBits
                         [] OTHER -> Empty]

NegotiateOne(offer, e, name) ==
    IF e.ec # "ok" \/ name \notin DOMAIN offer THEN e
    ELSE CASE name = ServerNoContext -> NegotiateServerNoContextTakeover(e, offer[name])
           [] name = ClientNoContext -> NegotiateClientNoContextTakeover(e, offer[name])
           [] name = ServerBits -> NegotiateServerMaxWindowBits(e, offer[name])
           [] name = ClientBits -> NegotiateClientMaxWindowBits(e, offer[name])
           [] OTHER -> [e EXCEPT !.ec = "invalid_attributes"]

Negotiate(e, offer) ==
    LET n == FoldLeft(LAMBDA acc, name : NegotiateOne(offer, acc, name),
                      [e EXCEPT !.ec = "ok"], Names)
    IN [n EXCEPT !.enabled = @ \/ n.ec = "ok"]

\* init: zlib refuses a window of less than 9 bits.
InitExtension(e, isServer) ==
    LET d == IF isServer THEN e.serverBits ELSE e.clientBits
        i == IF isServer THEN e.clientBits ELSE e.serverBits
    IN IF d < 9 \/ i < 9 THEN [e EXCEPT !.ec = "zlib_error"]
       ELSE [e EXCEPT !.initialized = TRUE, !.deflate = d, !.inflate = i,
                      !.fullFlush = \/ isServer /\ e.serverNoContext
                                    \/ ~isServer /\ e.clientNoContext]

\* negotiate_extensions_helper: the first offer that can be accepted is.
TryOffer(isServer, e, offer) ==
    IF e.enabled THEN e
    ELSE LET n == Negotiate(e, offer)
         IN IF n.ec # "ok" THEN n ELSE InitExtension(n, isServer)
NegotiateExtensions(e, offers, isServer) ==
    FoldLeft(LAMBDA acc, offer : TryOffer(isServer, acc, offer), e, offers)

-------------------------------------------------------------------------------
\* External: deflate with a flush ends in an empty block, inflate reads it back.
EmptyBlock == <<<<"block">>, <<"block">>, <<"block">>, <<"block">>>>
Deflated(in, window) == [i \in DOMAIN in |-> <<"code", in[i], window>>] \o EmptyBlock
Codes(bytes) == SelectSeq(bytes, LAMBDA b : b[1] = "code")
Readable(bytes, window) == \A i \in DOMAIN Codes(bytes) : Codes(bytes)[i][3] <= window
Inflated(bytes) == [i \in DOMAIN Codes(bytes) |-> Codes(bytes)[i][2]]

\* The loop around zlib: a call fills the buffer of that size or ends the loop.
Calls(bytes, size) ==
    [k \in 1..((Len(bytes) \div size) + 1) |->
        SubSeq(bytes, (k - 1) * size + 1, IF k * size < Len(bytes) THEN k * size ELSE Len(bytes))]

Compress(e, in, size) ==
    IF ~e.initialized THEN [ec |-> "uninitialized", out |-> <<>>]
    ELSE [ec |-> "ok", out |-> IF in = <<>> THEN <<<<"empty">>, <<"empty">>>> \o EmptyBlock
                               ELSE FlattenSeq(Calls(Deflated(in, e.deflate), size))]

Decompress(e, bytes, size) ==
    IF ~e.initialized THEN [ec |-> "uninitialized", out |-> <<>>]
    ELSE IF ~Readable(bytes, e.inflate) THEN [ec |-> "zlib_error", out |-> <<>>]
    ELSE [ec |-> "ok", out |-> FlattenSeq(Calls(Inflated(bytes), size))]

===============================================================================

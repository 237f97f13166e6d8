------------------------------ MODULE UlogFormat ------------------------------
(***************************************************************************)
(* The deferred printf of util/logging/ulog_async.cpp: the calling thread   *)
(* walks the format and copies the arguments into the record, the consumer  *)
(* thread walks the same format and renders each conversion on its own.     *)
(*                                                                         *)
(* A format is a sequence of characters.  A byte of a record and a          *)
(* character of a message are tuples that say what they are a part of, so   *)
(* that a byte read with the wrong size or a character out of place is      *)
(* seen.  Integer widths are small and in the order of the real ones.       *)
(***************************************************************************)
EXTENDS Integers, Sequences

LOCAL INSTANCE Folds
LOCAL INSTANCE SequencesExt

CONSTANTS ArgBufLen,    \* kArgBufLen
          StrMax,       \* kStrMax
          RenderLen,    \* kRenderLen
          PrefixMax     \* kSpecPrefixMax

Least(a, b) == IF a < b THEN a ELSE b

-------------------------------------------------------------------------------
(* The format walker both threads use.                                      *)

Ch(s, i) == IF i <= Len(s) THEN s[i] ELSE "NUL"
Skip(s, i, set) ==
    CHOOSE j \in i..(Len(s) + 1) : /\ Ch(s, j) \notin set
                                   /\ \A k \in i..(j - 1) : s[k] \in set

Flags == {"-", "+", " ", "#", "0"}
Digits == {"0", "1", "2", "5"}

\* unsupportedSpecLen: one past the conversion character.
UnsupportedEnd(s, i) ==
    LET j == Skip(s, i, Flags \cup Digits \cup {".", "*", "$", "h", "l", "j", "z", "t", "L"})
    IN IF Ch(s, j) = "NUL" THEN j ELSE j + 1

LengthModifier(s, i) ==
    IF Ch(s, i) \in {"h", "l"}
    THEN IF Ch(s, i + 1) = s[i] THEN <<s[i], s[i]>> ELSE <<s[i]>>
    ELSE IF Ch(s, i) \in {"j", "z", "t", "L"} THEN <<s[i]>> ELSE <<>>

Kind(conv, len) ==
    CASE conv \in {"d", "i"} -> "S64"
      [] conv \in {"u", "o", "x", "X"} -> "U64"
      [] conv \in {"f", "F", "e", "E", "g", "G", "a", "A"} -> "DBL"
      [] conv = "c" /\ len # <<"l">> -> "CHR"
      [] conv = "s" /\ len # <<"l">> -> "STR"
      [] conv = "p" -> "PTR"
      [] OTHER -> "UNSUPPORTED"

\* parseSpec, at a '%': the conversion and the position after it.
ParseSpec(s, start) ==
    LET first == start + 1
        width == Skip(s, first, Flags)
        point == Skip(s, width, Digits)
        hasPrecision == Ch(s, point) = "."
        mod == IF hasPrecision THEN Skip(s, point + 1, Digits) ELSE point
        len == LengthModifier(s, mod)
        at == mod + Len(len)
        Unsupported(next) ==
            [kind |-> "UNSUPPORTED", prefix |-> <<>>, len |-> <<>>, conv |-> "NUL",
             next |-> next]
    IN CASE Ch(s, first) = "%" -> [Unsupported(first + 1) EXCEPT !.kind = "NONE"]
         [] Ch(s, width) = "*" -> Unsupported(UnsupportedEnd(s, width))
         [] Ch(s, point) = "$" -> Unsupported(UnsupportedEnd(s, point))
         [] hasPrecision /\ Ch(s, point + 1) = "*" ->
                Unsupported(UnsupportedEnd(s, point + 1))
         [] Ch(s, at) = "NUL" -> Unsupported(at)
         [] OTHER -> [kind |-> Kind(s[at], len), len |-> len, conv |-> s[at],
                      prefix |-> SubSeq(s, first, Least(mod, first + PrefixMax) - 1),
                      next |-> at + 1]

\* The loop over a format: its literal characters and its conversions in order.
Items(fmt) ==
    LET from[i \in 1..(Len(fmt) + 1)] ==
            IF i > Len(fmt) THEN <<>>
            ELSE IF fmt[i] # "%"
            THEN <<[kind |-> "LITERAL", conv |-> fmt[i]]>> \o from[i + 1]
            ELSE LET spec == ParseSpec(fmt, i) IN <<spec>> \o from[spec.next]
    IN from[1]

-------------------------------------------------------------------------------
(* Arguments.  An argument is an integer or a string, as its conversion     *)
(* reads it; a string is the sequence of its characters.                    *)

CharBits == 2
ShortBits == 3
IntBits == 4
LongBits == 6
NullString == <<"NULL">>
NullLength == 65535

\* The value va_arg and the cast give for an integer conversion.
Cast(kind, len, v) ==
    LET bits == CASE len = <<"h", "h">> -> CharBits [] len = <<"h">> -> ShortBits
                  [] len = <<>> -> IntBits [] OTHER -> LongBits
        half == 2^(bits - 1)
    IN CASE kind = "U64" -> v % 2^bits
         [] kind = "S64" -> ((v + half) % 2^bits) - half
         [] OTHER -> v

\* What the C library prints for one conversion of a number or of a string.
PrintNumber(kind, prefix, len, conv, v) ==
    LET x == Cast(kind, len, v)
        size == IF x < 0 THEN 2 + ((-x) % 2) ELSE 1 + (x % 2)
    IN [i \in 1..size |-> <<"number", prefix, conv, x, i>>]
PrintString(prefix, str) == [i \in 1..Len(str) |-> <<"string", prefix, str[i]>>]
Literal(c) == <<"literal", c>>
Lost == [i \in 1..3 |-> <<"lost", i>>]                 \* "<?>"
Truncated == [i \in 1..4 |-> <<"truncated", i>>]       \* " [ulog_async: truncated]"

\* The bytes of a value of n bytes, and the value of n bytes that were read.
Encode(v, n) == [i \in 1..n |-> <<v, i, n>>]
DecodeBytes(b) == IF b = Encode(b[1][1], Len(b)) THEN b[1][1] ELSE -1
SizeOf(kind) == IF kind = "CHR" THEN 4 ELSE 8

\* Mutant: what fits of a value is copied.
PutPart(w, bytes) ==
    IF w.stop THEN w
    ELSE [w EXCEPT !.buf = @ \o SubSeq(bytes, 1, Least(Len(bytes), ArgBufLen - Len(@)))]

\* BlobWriter::put.
Put(w, bytes) ==
    IF w.stop \/ Len(w.buf) + Len(bytes) > ArgBufLen
    THEN [w EXCEPT !.stop = TRUE, !.truncated = TRUE]
    ELSE [w EXCEPT !.buf = @ \o bytes]

PutString(w, str) ==
    IF str = NullString THEN Put(w, Encode(NullLength, 2))
    ELSE LET n == Least(StrMax, Len(str))
         IN Put(Put([w EXCEPT !.truncated = @ \/ Len(str) > StrMax], Encode(n, 2)),
                [i \in 1..n |-> <<str[i]>>])

\* serializeArgs: the loop ends at the first conversion that is not supported
\* or whose argument does not fit.
SerializeItem(args, w, item) ==
    IF w.stop \/ item.kind \in {"LITERAL", "NONE"} THEN w
    ELSE IF item.kind = "UNSUPPORTED"
    THEN [w EXCEPT !.stop = TRUE, !.truncated = TRUE]
    ELSE LET next == [w EXCEPT !.arg = @ + 1]
         IN IF item.kind = "STR" THEN PutString(next, args[w.arg].str)
            ELSE Put(next, Encode(Cast(item.kind, item.len, args[w.arg].int),
                                  SizeOf(item.kind)))

SerializeArgs(fmt, args) ==
    LET w == FoldLeft(LAMBDA acc, item : SerializeItem(args, acc, item),
                      [buf |-> <<>>, arg |-> 1, truncated |-> FALSE, stop |-> FALSE],
                      Items(fmt))
    IN [fmt |-> fmt, buf |-> w.buf, truncated |-> w.truncated]

-------------------------------------------------------------------------------
(* The consumer.  text is what the buffer holds up to its NUL, used where   *)
(* the next output goes; a failed snprintf leaves used behind its output.   *)

Snprintf(o, s) ==
    [o EXCEPT !.text = SubSeq(@, 1, o.used)
                           \o SubSeq(s, 1, Least(Len(s), RenderLen - o.used - 1))]
AppendLiteral(o, c) ==
    IF o.used + 1 < RenderLen
    THEN [Snprintf(o, <<Literal(c)>>) EXCEPT !.used = @ + 1] ELSE o

\* snprintf(...); if (n > 0 && used + n < cap) used += n;
PrintMark(o, mark) ==
    [Snprintf(o, mark) EXCEPT !.used = IF @ + Len(mark) < RenderLen THEN @ + Len(mark) ELSE @]

\* The same, and else if (n > 0) used = cap - 1;
PrintConversion(o, s) ==
    [Snprintf(o, s) EXCEPT !.used = IF @ + Len(s) < RenderLen THEN @ + Len(s)
                                    ELSE RenderLen - 1]

\* BlobReader::get and peek: n bytes, when the record still has them.
Has(o, rec, n) == o.pos + n <= Len(rec.buf)
Take(o, rec, n) == SubSeq(rec.buf, o.pos + 1, o.pos + n)

Exhausted(o) == PrintConversion([o EXCEPT !.exhausted = TRUE], Lost)

RenderNumber(o, rec, item) ==
    LET n == SizeOf(item.kind)
        len == IF item.kind \in {"S64", "U64"} THEN <<"l", "l">> ELSE <<>>
    IN IF ~Has(o, rec, n) THEN Exhausted(o)
       ELSE PrintConversion([o EXCEPT !.pos = @ + n],
                PrintNumber(item.kind, item.prefix, len, item.conv,
                            DecodeBytes(Take(o, rec, n))))

RenderString(o, rec, item) ==
    IF ~Has(o, rec, 2) THEN Exhausted(o)
    ELSE LET sl == DecodeBytes(Take(o, rec, 2))
             q == [o EXCEPT !.pos = @ + 2]
             chars == Take(q, rec, sl)
         IN IF sl = NullLength THEN PrintConversion(q, PrintString(item.prefix, NullString))
            ELSE IF ~Has(q, rec, sl) THEN Exhausted(q)
            ELSE PrintConversion([q EXCEPT !.pos = @ + sl],
                     PrintString(item.prefix, [i \in 1..sl |-> chars[i][1]]))

RenderItem(rec, o, item) ==
    CASE item.kind = "LITERAL" -> AppendLiteral(o, item.conv)
      [] item.kind = "NONE" -> AppendLiteral(o, "%")
      [] item.kind = "UNSUPPORTED" \/ (item.kind \notin {"LITERAL", "NONE"} /\ o.exhausted) ->
             PrintMark([o EXCEPT !.exhausted = TRUE], Lost)
      [] item.kind = "STR" /\ ~o.exhausted -> RenderString(o, rec, item)
      [] OTHER -> RenderNumber(o, rec, item)

\* renderMessage.
RenderMessage(rec) ==
    LET o == FoldLeft(LAMBDA acc, item : RenderItem(rec, acc, item),
                      [text |-> <<>>, used |-> 0, pos |-> 0, exhausted |-> FALSE],
                      Items(rec.fmt))
    IN IF rec.truncated THEN PrintMark(o, Truncated).text ELSE o.text

===============================================================================

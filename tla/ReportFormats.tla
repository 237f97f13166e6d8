----------------------------- MODULE ReportFormats -----------------------------
(***************************************************************************)
(* What the reporters write: the datagram of PskReporter, a template and    *)
(* data layout of bytes, and the lines of CsvReporter's file.  Texts are    *)
(* sequences of byte values in a datagram, and of characters in the file.   *)
(* Frequencies stay below 2^31.                                             *)
(***************************************************************************)
EXTENDS Integers, Sequences, SequencesExt

CONSTANTS Fields,          \* the texts a line of the CSV file may contain
          MaxLines, MaxOpens

-------------------------------------------------------------------------------
Prefixed(s) == <<Len(s) % 256>> \o s
Byte(n, k) == IF k > 3 THEN 0 ELSE (n \div 256^k) % 256
Bytes(n, width) == [i \in 1..width |-> Byte(n, width - i)]
Zeros(n) == [i \in 1..n |-> 0]

Enterprise == <<0, 0, 118, 143>>
Field(id, len) == <<128, id>> \o len \o Enterprise
Variable == <<255, 255>>
RxFormatHeader ==
    <<0, 3, 0, 36, 153, 146, 0, 3, 0, 0>> \o Field(2, Variable) \o Field(4, Variable)
      \o Field(8, Variable) \o <<0, 0>>
TxFormatHeader ==
    <<0, 2, 0, 52, 153, 147, 0, 6>> \o Field(1, Variable) \o Field(5, <<0, 5>>)
      \o Field(6, <<0, 1>>) \o Field(10, Variable) \o Field(11, <<0, 1>>) \o <<0, 150, 0, 4>>

Mode == <<70, 82, 69, 69, 68, 86>>
RecordSize(r) == (1 + Len(r.callsign)) + 5 + 1 + (1 + Len(Mode)) + 1 + 4
EncodeRecord(r) ==
    Prefixed(r.callsign) \o Bytes(r.frequency, 5) \o <<r.snr % 256>> \o Prefixed(Mode)
      \o <<1>> \o Bytes(r.time, 4)

\* Sizes are padded to a multiple of four.
Aligned(size) == IF size % 4 > 0 THEN size + (4 - (size % 4)) ELSE size
RxDataSize(rx) ==
    Aligned(4 + (1 + Len(rx.callsign)) + (1 + Len(rx.grid)) + (1 + Len(rx.software)))
TxDataSize(recs) ==
    IF recs = <<>> THEN 0
    ELSE LET Add(size, r) == size + RecordSize(r) IN Aligned(FoldLeft(Add, 4, recs))

\* The packet is zeroed first: what a record does not fill is padding.
FillTo(s, size) == IF Len(s) < size THEN s \o Zeros(size - Len(s)) ELSE s
EncodeReceiverRecord(rx) ==
    FillTo(<<153, 146>> \o Bytes(RxDataSize(rx), 2) \o Prefixed(rx.callsign)
             \o Prefixed(rx.grid) \o Prefixed(rx.software), RxDataSize(rx))
EncodeSenderRecords(recs) ==
    IF recs = <<>> THEN <<>>
    ELSE FillTo(<<153, 147>> \o Bytes(TxDataSize(recs), 2)
                  \o FlattenSeq([i \in DOMAIN recs |-> EncodeRecord(recs[i])]),
                TxDataSize(recs))
DatagramSize(rx, recs) ==
    16 + Len(RxFormatHeader) + (IF TxDataSize(recs) = 0 THEN 0 ELSE Len(TxFormatHeader))
      + RxDataSize(rx) + TxDataSize(recs)
Datagram(rx, recs, time, seq, id) ==
    <<0, 10>> \o Bytes(DatagramSize(rx, recs), 2) \o Bytes(time, 4) \o Bytes(seq, 4)
      \o Bytes(id, 4) \o RxFormatHeader
      \o (IF TxDataSize(recs) > 0 THEN TxFormatHeader ELSE <<>>)
      \o EncodeReceiverRecord(rx) \o EncodeSenderRecords(recs)

-------------------------------------------------------------------------------
\* A reader of the layout that knows no more than the layout says: the message is
\* a row of sets with their lengths; a template lists fields and their widths;
\* a data set has records of the template it names, then padding.
Num(b, i, width) ==
    LET Add(acc, k) == (acc * 256) + b[i + k] IN FoldLeft(Add, 0, [k \in 1..width |-> k - 1])
RECURSIVE Sets(_, _)
Sets(b, i) ==
    IF i > Len(b) THEN <<>>
    ELSE <<SubSeq(b, i, i + Num(b, i + 2, 2) - 1)>> \o Sets(b, i + Num(b, i + 2, 2))
\* The widths of a template's fields; a field with an enterprise number has the
\* top bit of its identifier set.
RECURSIVE Widths(_, _, _)
Widths(t, i, n) ==
    IF n = 0 THEN <<>>
    ELSE <<Num(t, i + 2, 2)>> \o Widths(t, i + (IF t[i] >= 128 THEN 8 ELSE 4), n - 1)
Template(sets, id) ==
    LET t == CHOOSE s \in ToSet(sets) : Num(s, 1, 2) \in {2, 3} /\ Num(s, 5, 2) = id
    IN Widths(t, IF Num(t, 1, 2) = 3 THEN 11 ELSE 9, Num(t, 7, 2))
\* The records of a data set, each the texts of its fields.
RECURSIVE ReadRecord(_, _, _)
ReadRecord(s, i, widths) ==
    IF widths = <<>> THEN [fields |-> <<>>, end |-> i]
    ELSE LET from == IF widths[1] = 65535 THEN i + 1 ELSE i
             n == IF widths[1] = 65535 THEN s[i] ELSE widths[1]
             rest == ReadRecord(s, from + n, Tail(widths))
         IN [fields |-> <<SubSeq(s, from, from + n - 1)>> \o rest.fields, end |-> rest.end]
RECURSIVE ReadRecords(_, _, _)
ReadRecords(s, i, widths) ==
    IF Len(s) - i + 1 < 4 THEN <<>>
    ELSE LET r == ReadRecord(s, i, widths) IN <<r.fields>> \o ReadRecords(s, r.end, widths)
DataOf(b, id) ==
    LET sets == Sets(b, 17)
    IN FlattenSeq([k \in DOMAIN sets |->
           IF Num(sets[k], 1, 2) = id THEN ReadRecords(sets[k], 5, Template(sets, id))
           ELSE <<>>])

-------------------------------------------------------------------------------
\* csvField: RFC 4180 quoting.
NeedsQuotes(v) == \E i \in DOMAIN v : v[i] \in {",", "quote", "CR", "LF"}

\* Mutant: a quote inside a field is written once.
CsvFieldOnce(v) == IF NeedsQuotes(v) THEN <<"quote">> \o v \o <<"quote">> ELSE v

CsvField(v) ==
    IF ~NeedsQuotes(v) THEN v
    ELSE <<"quote">> \o FlattenSeq([i \in DOMAIN v |->
             IF v[i] = "quote" THEN <<"quote", "quote">> ELSE <<v[i]>>]) \o <<"quote">>
CsvHeader == <<<<"date">>, <<"time">>, <<"callsign">>, <<"mode">>, <<"frequency_hz">>, <<"snr_db">>>>
CsvText(fields) ==
    FlattenSeq([i \in DOMAIN fields |-> (IF i = 1 THEN <<>> ELSE <<",">>) \o fields[i]])
      \o <<"LF">>

VARIABLES csvFile,         \* what is in the file
          csvStream,       \* [open, buffer]: the ofstream
          csvRows,         \* the records added, reference
          csvOpens
csvVars == <<csvFile, csvStream, csvRows, csvOpens>>

CsvInit == /\ csvFile = <<>> /\ csvStream = [open |-> FALSE, buffer |-> <<>>]
           /\ csvRows = <<>> /\ csvOpens = 0

\* The constructor, on a path that can or cannot be opened.
CsvOpen ==
    /\ ~csvStream.open /\ csvOpens < MaxOpens /\ csvOpens' = csvOpens + 1
    /\ \/ csvStream' = [open |-> TRUE,
                        buffer |-> IF csvFile = <<>> THEN CsvText(CsvHeader) ELSE <<>>]
       \/ UNCHANGED csvStream
    /\ UNCHANGED <<csvFile, csvRows>>
\* addReceiveRecord writes one line and flushes the stream.
CsvLine(callsign, mode) ==
    CsvText(<<<<"d">>, <<"t">>, CsvField(callsign), CsvField(mode), <<"f">>, <<"s">>>>)
CsvAdd ==
    /\ Len(csvRows) < MaxLines
    /\ \E callsign, mode \in Fields :
         IF csvStream.open
         THEN /\ csvFile' = csvFile \o csvStream.buffer \o CsvLine(callsign, mode)
              /\ csvStream' = [csvStream EXCEPT !.buffer = <<>>]
              /\ csvRows' = Append(csvRows, <<<<"d">>, <<"t">>, callsign, mode, <<"f">>, <<"s">>>>)
         ELSE UNCHANGED <<csvFile, csvStream, csvRows>>
    /\ UNCHANGED csvOpens
\* The destructor writes what is buffered; a killed program does not.
CsvClose ==
    /\ csvStream.open
    /\ csvFile' \in {csvFile, csvFile \o csvStream.buffer}
    /\ csvStream' = [open |-> FALSE, buffer |-> <<>>]
    /\ UNCHANGED <<csvRows, csvOpens>>
CsvNext == CsvOpen \/ CsvAdd \/ CsvClose

-------------------------------------------------------------------------------
\* A reader of RFC 4180 files: the rows of the text from i on, given the fields
\* of the row, the field so far and whether it is inside quotes.
RECURSIVE CsvRead(_, _, _, _, _)
CsvRead(t, i, row, field, quoted) ==
    IF i > Len(t) THEN <<>>
    ELSE IF quoted THEN
        IF t[i] # "quote" THEN CsvRead(t, i + 1, row, Append(field, t[i]), TRUE)
        ELSE IF i < Len(t) /\ t[i + 1] = "quote"
        THEN CsvRead(t, i + 2, row, Append(field, "quote"), TRUE)
        ELSE CsvRead(t, i + 1, row, field, FALSE)
    ELSE IF t[i] = "quote" THEN CsvRead(t, i + 1, row, field, TRUE)
    ELSE IF t[i] = "," THEN CsvRead(t, i + 1, Append(row, field), <<>>, FALSE)
    ELSE IF t[i] = "LF" THEN <<Append(row, field)>> \o CsvRead(t, i + 1, <<>>, <<>>, FALSE)
    ELSE CsvRead(t, i + 1, row, Append(field, t[i]), FALSE)

\* CsvReporter: whatever the callsigns and modes contain, and however often the
\* program is restarted or killed, the file is one header and then the records
\* that were added, as an RFC 4180 reader sees it.
CsvReadsBack ==
    LET rows == CsvRead(csvFile, 1, <<>>, <<>>, FALSE)
    IN IF csvFile = <<>> THEN csvRows = <<>> ELSE rows = <<CsvHeader>> \o csvRows

\* reportCommon_, for one receiver and any records: a reader that only follows
\* the templates of the datagram finds the receiver and the records, and the
\* datagram is as long as it says, so that nothing is cut off or left over.
DatagramReadsBack(rx, recs) ==
    LET d == Datagram(rx, recs, 7, 1, 99)
    IN /\ Num(d, 3, 2) = Len(d) /\ Len(d) % 4 = 0
       /\ DataOf(d, 39314) = <<<<rx.callsign, rx.grid, rx.software>>>>
       /\ DataOf(d, 39315) = [i \in DOMAIN recs |->
             <<recs[i].callsign, Bytes(recs[i].frequency, 5), <<recs[i].snr % 256>>, Mode,
               <<1>>, Bytes(recs[i].time, 4)>>]
===============================================================================

------------------------------- MODULE RadeText -------------------------------
(***************************************************************************)
(* The callsign carried by the end-of-over frame (rade_text.cpp): at most   *)
(* eight 6-bit characters and a CRC-8 fill the 56 information bits of an    *)
(* LDPC(112,56) block (ldpc_encode.cpp, ldpc_decode.cpp, HRA_56_56.h),      *)
(* whose 112 bits are interleaved and sent as 56 QPSK symbols; the rest of  *)
(* the frame is a known filling.                                           *)
(*                                                                         *)
(* A symbol is its direction (re, im); all have the same amplitude.  The    *)
(* known filling tells the receiver how noisy the channel is.  The floats   *)
(* of the decoder are integers here.  That is exact to the last decision    *)
(* where the likelihoods, whose magnitude is one over the noise, are at     *)
(* least 26: max_star has no correction term there, and phi has the three   *)
(* values of Phi.  A noisier channel is outside this module.                *)
(***************************************************************************)
EXTENDS Integers, SequencesExt, Bitwise

CONSTANTS MaxIter,         \* belief-propagation iterations (30 in the code)
          SymSize,         \* symbols of an end-of-over frame (>= 56)
          Callsigns,       \* the texts that may be sent, sequences of ASCII codes
          Damages          \* sets of the 56 symbols the air may damage together

VARIABLES text,            \* the text being sent
          stage,           \* "idle", "air", "decoding", "decoded", "done"
          syms,            \* the symbols on the air
          llr, vc, cv,     \* likelihoods, messages from and to the bits
          message, converged, iterations,
          heard            \* the texts the callback was given
textVars == <<text, stage, syms, llr, vc, cv, message, converged, iterations, heard>>

MaxLength == 8             \* RADE_TEXT_MAX_LENGTH
Half == 56
Total == 112
Bits == 0..(Total - 1)

-------------------------------------------------------------------------------
\* The 6-bit character set; 0 ends a text, a character without a code is skipped.
ToOta(c) ==
    CASE c \in 38..46 -> c - 37
      [] c = 47 -> 46
      [] c \in 48..57 -> c - 38
      [] c \in 65..90 -> c - 45
      [] c \in 97..122 -> c - 77
      [] OTHER -> 0
FromOta(o) ==
    CASE o \in 1..9 -> o + 37
      [] o \in 10..19 -> o + 38
      [] o \in 20..45 -> o + 45
      [] o = 46 -> 47
      [] OTHER -> 0

Shorter(a, b) == IF a < b THEN a ELSE b
NonZero(c) == c # 0
ConvertCallsignToOta(str) ==
    SelectSeq([i \in 1..Shorter(Len(str), MaxLength) |-> ToOta(str[i])], NonZero)

\* The characters up to the first null.
UpToNull(raw) ==
    LET nulls == {i \in DOMAIN raw : raw[i] = 0}
    IN IF nulls = {} THEN raw ELSE SubSeq(raw, 1, Min(nulls) - 1)
ConvertOtaToCallsign(raw) ==
    LET t == UpToNull(raw) IN SelectSeq([i \in DOMAIN t |-> FromOta(t[i])], NonZero)

\* CRC-8, generator 0x1D.
CrcShift(crc) == IF crc >= 128 THEN ((2 * crc) % 256) ^^ 29 ELSE 2 * crc
CrcByte(crc, ch) ==
    LET Eight(x) == CrcShift(CrcShift(CrcShift(CrcShift(
                    CrcShift(CrcShift(CrcShift(CrcShift(x))))))))
    IN CHOOSE c \in {Eight(x) : x \in {crc ^^ ch}} : TRUE
CalculateCRC8(raw) == FoldLeft(CrcByte, 0, UpToNull(raw))

-------------------------------------------------------------------------------
\* The information bits: the CRC, then the characters, least significant first.
Bit(n, k) == (n \div 2^k) % 2
PackBits(crc, ota) ==
    [b \in 0..(Half - 1) |->
        IF b < 8 THEN Bit(crc, b)
        ELSE LET i == 1 + ((b - 8) \div 6)
             IN IF i <= Len(ota) THEN Bit(ota[i], (b - 8) % 6) ELSE 0]
Weigh(bits, first, n) ==
    LET W[k \in 0..n] == IF k = 0 THEN 0 ELSE W[k - 1] + bits[first + k - 1] * 2^(k - 1)
    IN W[n]
UnpackCrc(bits) == Weigh(bits, 0, 8)
UnpackText(bits) == [i \in 1..MaxLength |-> Weigh(bits, 8 + 6 * (i - 1), 6)]
\* rade_text_ldpc_decode, without its bit error statistics: what it leaves in dest.
RadeTextLdpcDecode(bits) == [crc |-> UnpackCrc(bits), text |-> UnpackText(bits)]

-------------------------------------------------------------------------------
\* The parity matrix: the three information bits of each row.  Its right half is
\* the diagonal and the one below it.
InfoBits ==
    <<<<3,13,40>>, <<32,45,54>>, <<21,38,46>>, <<1,26,43>>, <<6,42,55>>, <<11,21,45>>,
      <<14,18,19>>, <<40,44,54>>, <<5,15,20>>, <<1,22,39>>, <<7,30,36>>, <<3,51,52>>,
      <<0,2,12>>, <<6,7,31>>, <<19,50,51>>, <<9,12,21>>, <<1,30,31>>, <<0,10,23>>,
      <<27,30,43>>, <<6,35,41>>, <<2,10,48>>, <<24,27,37>>, <<17,29,47>>, <<18,20,23>>,
      <<16,37,55>>, <<14,25,47>>, <<7,41,49>>, <<12,28,38>>, <<8,22,25>>, <<11,32,49>>,
      <<38,44,53>>, <<5,18,25>>, <<16,27,36>>, <<31,39,55>>, <<2,9,13>>, <<5,22,26>>,
      <<9,40,45>>, <<17,24,43>>, <<3,28,44>>, <<33,35,42>>, <<0,28,52>>, <<13,48,51>>,
      <<8,37,39>>, <<4,10,20>>, <<14,29,50>>, <<11,41,46>>, <<4,15,29>>, <<34,36,49>>,
      <<4,48,50>>, <<16,34,42>>, <<15,17,26>>, <<35,46,53>>, <<19,23,52>>, <<8,24,47>>,
      <<33,53,54>>, <<32,33,34>>>>
Checks == 0..(Half - 1)
Row == [i \in Checks |-> ToSet(InfoBits[i + 1]) \cup {Half + i}
                           \cup (IF i = 0 THEN {} ELSE {Half + i - 1})]
Column == [j \in Bits |-> {i \in Checks : j \in Row[i]}]

\* Each parity bit is the parity of the information bits of its row and of the
\* parity bit before it: a running sum over the rows.
RECURSIVE RowsSum(_, _, _)
RowsSum(s, first, last) ==
    IF first = last
    THEN LET r == InfoBits[first + 1] IN s[r[1]] + s[r[2]] + s[r[3]]
    ELSE LET mid == (first + last) \div 2
         IN RowsSum(s, first, mid) + RowsSum(s, mid + 1, last)
LdpcEncode(s) ==
    [b \in Bits |-> IF b < Half THEN s[b] ELSE RowsSum(s, 0, b - Half) % 2]

-------------------------------------------------------------------------------
\* The interleaver permutes symbols, that is pairs of bits.
InterleaverB == 37
NewIndex(i) == (InterleaverB * i) % Half
InterleaveBits(bits) ==
    [b \in Bits |->
        LET from == {i \in Checks : NewIndex(i) = b \div 2}
        IN IF from = {} THEN 0 ELSE bits[2 * Max(from) + (b % 2)]]
DeinterleaveComp(in) == [i \in Checks |-> in[NewIndex(i)]]

Qpsk(b0, b1) ==
    [re |-> IF b0 = b1 THEN 1 - (2 * b0) ELSE 0,
     im |-> IF b0 = b1 THEN 0 ELSE 1 - (2 * b0)]
GenerateTxString(str) ==
    LET ota == ConvertCallsignToOta(str)
        tx == InterleaveBits(LdpcEncode(PackBits(CalculateCRC8(ota), ota)))
    IN [k \in 0..(SymSize - 1) |-> IF k < Half THEN Qpsk(tx[2 * k], tx[(2 * k) + 1])
                                   ELSE Qpsk(0, 0)]

-------------------------------------------------------------------------------
\* One over the noise variance, measured on the filling; it is at least 1e-6.
MaxClarity == 1000000
Filling == Half..(SymSize - 1)
Clarity(in) ==
    LET ss == MapThenSumSet(LAMBDA k : (1 - in[k].re)^2 + in[k].im^2, Filling)
    IN IF ss = 0 THEN MaxClarity
       ELSE Shorter(MaxClarity, ((2 * Cardinality(Filling)) - 1) \div ss)

LlrMax == 10000
Magnitude(x) == IF x < 0 THEN -x ELSE x
ClampLlr(x) == IF x < -LlrMax THEN -LlrMax ELSE Shorter(x, LlrMax)

\* How likely a symbol is a point of the constellation, and from that how much
\* more likely each of its bits is 0 than 1.
CalcLikelihood(sym, clarity, re, im) ==
    -((clarity * ((sym.re - re)^2 + (sym.im - im)^2)) \div 2)
MaxStar(x, y) == IF x < y THEN y ELSE x
LinearLogMap(in, clarity) ==
    [b \in Bits |->
        LET P(re, im) == CalcLikelihood(in[b \div 2], clarity, re, im)
            Best(x, y) == MaxStar(MaxStar(-LlrMax, x), y)
        IN ClampLlr(IF b % 2 = 0 THEN Best(P(1, 0), P(0, 1)) - Best(P(0, -1), P(-1, 0))
                    ELSE Best(P(1, 0), P(0, -1)) - Best(P(0, 1), P(-1, 0)))]

\* phi: nothing at all counts as certainty; the exponential of more than 709 is
\* infinite and the result not a number; from 26 on it is too small to be told
\* from 0 in a sum of a row.
NotANumber == -1
Phi(x) == CASE x <= 0 -> LlrMax [] x > 709 -> NotANumber [] OTHER -> 0
\* std::max(0, x) is 0 if x is not a number.
AtLeast0(x) == MaxStar(0, x)

\* What check i tells each of its bits: the sign of what the other bits told it,
\* and phi of the sum of their phi.  That is the sum of all bits' phi less the
\* bit's own, and not a number if its own is not one.
CheckToVariables(i) ==
    LET phi == [v \in Row[i] |-> Phi(Magnitude(vc[i][v]))]
        sum == MapThenSumSet(LAMBDA v : AtLeast0(phi[v]), Row[i])
        negative == {v \in Row[i] : vc[i][v] < 0}
        Sign(j) == IF Cardinality(negative \ {j}) % 2 = 0 THEN 1 ELSE -1
    IN [j \in Row[i] |->
           Sign(j) * AtLeast0(IF phi[j] = NotANumber THEN NotANumber ELSE Phi(sum - phi[j]))]
Told(m, j) == MapThenSumSet(LAMBDA i : m[i][j], Column[j])
SyndromeIsZero(bits) ==
    \A i \in Checks : MapThenSumSet(LAMBDA j : bits[j], Row[i]) % 2 = 0

-------------------------------------------------------------------------------
Silence == [k \in 0..(SymSize - 1) |-> Qpsk(0, 0)]
NoMessages == [i \in Checks |-> [j \in Row[i] |-> 0]]
TextInit ==
    /\ text = <<>> /\ stage = "idle" /\ syms = Silence /\ heard = <<>>
    /\ llr = [b \in Bits |-> 0] /\ vc = NoMessages /\ cv = NoMessages
    /\ message = [b \in Bits |-> 0] /\ converged = FALSE /\ iterations = 0

\* rade_text_generate_tx_string, and the frame leaves the transmitter.
Transmit ==
    /\ stage = "idle" /\ stage' = "air"
    /\ \E t \in Callsigns : text' = t /\ syms' = GenerateTxString(t)
    /\ UNCHANGED <<llr, vc, cv, message, converged, iterations, heard>>

\* The air: symbols turned to a neighbour or to their opposite, so that the one,
\* the other or both bits are wrong, and perhaps one symbol of the filling.
Turns == {"swapped", "mirrored", "opposite"}
Turn(s, how) ==
    CASE how = "swapped" -> [re |-> s.im, im |-> s.re]
      [] how = "mirrored" -> [re |-> -s.im, im |-> -s.re]
      [] how = "opposite" -> [re |-> -s.re, im |-> -s.im]
Damage ==
    /\ stage = "air" /\ syms = GenerateTxString(text)
    /\ \E hit \in Damages, how \in Turns, noisy \in BOOLEAN :
         syms' = [k \in DOMAIN syms |->
             IF k \in hit THEN Turn(syms[k], how)
             ELSE IF noisy /\ k = SymSize - 1 THEN Turn(syms[k], "swapped")
             ELSE syms[k]]
    /\ UNCHANGED <<text, stage, llr, vc, cv, message, converged, iterations, heard>>

\* rade_text_rx up to the decoder's loop.
BeginRx ==
    /\ stage = "air" /\ stage' = "decoding"
    /\ llr' = LinearLogMap(DeinterleaveComp(syms), Clarity(syms))
    /\ vc' = [i \in Checks |-> [j \in Row[i] |-> llr'[j]]] /\ cv' = NoMessages
    /\ message' = [b \in Bits |-> 0] /\ converged' = FALSE /\ iterations' = 0
    /\ UNCHANGED <<text, syms, heard>>

\* One iteration of ldpc_decode; the last decision counts even if the loop ends
\* without convergence.
Iterate ==
    /\ stage = "decoding"
    /\ cv' = [i \in Checks |-> CheckToVariables(i)]
    /\ \E total \in {[j \in Bits |-> llr[j] + Told(cv', j)]} :
         /\ vc' = [i \in Checks |-> [j \in Row[i] |-> ClampLlr(total[j] - cv'[i][j])]]
         /\ message' = [j \in Bits |-> IF total[j] < 0 THEN 1 ELSE 0]
    /\ converged' = SyndromeIsZero(message') /\ iterations' = iterations + 1
    /\ stage' = IF converged' \/ iterations' = MaxIter THEN "decoded" ELSE "decoding"
    /\ UNCHANGED <<text, syms, llr, heard>>


\* The rest of rade_text_rx: the callback is given a text whose CRC is right.
Deliver ==
    /\ stage = "decoded" /\ stage' = "done"
    /\ LET dest == RadeTextLdpcDecode(message)
       IN heard' = IF converged /\ dest.crc = CalculateCRC8(dest.text)
                   THEN Append(heard, ConvertOtaToCallsign(dest.text)) ELSE heard
    /\ UNCHANGED <<text, syms, llr, vc, cv, message, converged, iterations>>

TextNext == Transmit \/ Damage \/ BeginRx \/ Iterate \/ Deliver

-------------------------------------------------------------------------------
\* What of a text the channel can carry: its first eight characters, those of
\* the character set, in capitals.
Carried(t) ==
    LET Known(c) == c \in 38..57 \cup 65..90
        up == [i \in 1..Shorter(Len(t), MaxLength) |->
                  IF t[i] \in 97..122 THEN t[i] - 32 ELSE t[i]]
    IN SelectSeq(up, Known)

\* The bits the symbols give wrong, and the bits that most of their own checks
\* tell wrong because bit j is.
WrongBits ==
    LET ota == ConvertCallsignToOta(text)
        sent == LdpcEncode(PackBits(CalculateCRC8(ota), ota))
    IN {b \in Bits : (llr[b] < 0) # (sent[b] = 1)}
Misled(j) ==
    {v \in Bits \ {j} : 2 * Cardinality(Column[v] \cap Column[j]) > Cardinality(Column[v])}


\* ldpc_decode corrects one wrong bit, at the first iteration, unless it misleads
\* another: the bit with a single check takes its three neighbours' word for it.
\* On a channel without noise it corrects nothing, for phi is not a number.
CorrectsOneBit ==
    stage = "done" =>
        /\ Clarity(syms) > 709 /\ WrongBits # {} => heard = <<>>
        /\ Clarity(syms) <= 709 /\ Cardinality(WrongBits) = 1 =>
              \A j \in WrongBits : IF Misled(j) = {} THEN Len(heard) = 1 /\ iterations = 1
                                   ELSE heard = <<>>

\* The decoder is only given values for which Phi is what phi computes.
PhiIsExact == \A i \in Checks : \A j \in Row[i] : vc[i][j] = 0 \/ Magnitude(vc[i][j]) >= 26
===============================================================================

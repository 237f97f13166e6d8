--------------------------- MODULE PipelineSteps ---------------------------
(***************************************************************************)
(* AudioPipeline and the steps it is built from.  A step is a record with   *)
(* its kind, its two sample rates and its state; StepExecute hands it some  *)
(* samples and gives what comes out and the step's new state.  What the     *)
(* signal processing libraries compute is abstracted to what it is computed *)
(* from: a sample is an identity, and the output of a codec carries the     *)
(* frame it encodes.  Frame sizes and FIFO capacities are constants, with   *)
(* the relations they have in the code.                                     *)
(***************************************************************************)
EXTENDS Integers, SequencesExt

CONSTANTS RnnFrame,          \* RNNOISE_FRAME_SIZE, and its FIFO's capacity
          AgcFrame, AgcCap,  \* numSamplesPerRun_, MAX_AGC_SAMPLES
          LoudnessInterval,  \* LOUDNESS_UPDATE_INTERVAL_BLOCKS
          BweFrame, BweCap, BweFactor,
          LpcFrame,          \* LPCNET_FRAME_SIZE
          NbFeatures,        \* NB_TOTAL_FEATURES: features of one speech frame
          RadeFeatures,      \* rade_n_features_in_out()
          TxOut, EooOut,     \* rade_n_tx_out(), eooLengthInSamples()
          TxFifoCap,         \* capacity of outputSampleFifo_
          ModemMax, SpeechMax, \* one second at the modem's and at the speech rate
          NinMax,            \* rade_nin_max()
          LinkCap, LinkMax,  \* capacity of a LinkStep's FIFO, samples it returns at once
          Lufs(_),           \* external: the loudness of a block, in 1/1000 dB
          Nin(_), Sync(_)    \* external: samples of the k-th frame; whether it has "features", "eoo" or neither

Sub(s, a, b) == IF a > b THEN <<>> ELSE SubSeq(s, a, b)
From(s, a) == Sub(s, a, Len(s))
Whole(s, n) == [k \in 1 .. (Len(s) \div n) |-> SubSeq(s, (k - 1) * n + 1, k * n)]
Rest(s, n) == From(s, n * (Len(s) \div n) + 1)
Concat(ss) == FoldLeft(LAMBDA x, y : x \o y, <<>>, ss)
---------------------------------------------------------------------------
(* Steps that cut the stream into frames of n samples.                     *)

\* The common loop of RNNoiseStep, AgcStep and BandwidthExpandStep: fill the input FIFO with
\* what fits, then take whole frames off it
RECURSIVE Fill(_, _, _, _, _)
Fill(buf, in, cap, n, frames) ==
    LET w   == Min({cap - Len(buf), Len(in)})
        all == buf \o Sub(in, 1, w)
    IN IF in = <<>> \/ (w = 0 /\ Len(all) < n) THEN [buf |-> buf, frames |-> frames]
       ELSE Fill(Rest(all, n), From(in, w + 1), cap, n, frames \o Whole(all, n))

\* RNNoise: the first frame after a reset is swallowed
RnnNew == [buf |-> <<>>, first |-> TRUE]
RnnExecute(s, in) ==
    LET r    == Fill(s.buf, in, RnnFrame, RnnFrame, <<>>)
        kept == IF s.first THEN From(r.frames, 2) ELSE r.frames
    IN [st |-> [buf |-> r.buf, first |-> s.first /\ r.frames = <<>>], out |-> Concat(kept)]

\* AGC: the target follows the loudness measured every few blocks, the gain follows the target
\* in every block unless the last measurement was silence.  Gains in 1/1000 dB.
AgcNew == [buf |-> <<>>, target |-> 0, gain |-> 0, since |-> 0, valid |-> FALSE, out |-> <<>>]
Quot(a, b) == IF a < 0 THEN -((-a) \div b) ELSE a \div b
AgcTarget(lufs) == Max({-20000, Min({12000, -23000 - lufs})})
AgcGain(gain, target) == gain + Quot(target - gain, IF target < gain THEN 50 ELSE 600)
AgcBlock(s, block) ==
    LET measure == s.since + 1 >= LoudnessInterval
        valid   == IF measure THEN Lufs(block) > -33000 ELSE s.valid
        target  == IF measure /\ valid THEN AgcTarget(Lufs(block)) ELSE s.target
        gain    == IF valid THEN AgcGain(s.gain, target) ELSE s.gain
    IN [s EXCEPT !.since = IF measure THEN 0 ELSE s.since + 1, !.valid = valid, !.target = target,
                 !.gain = gain,
                 !.out = @ \o [i \in 1 .. Len(block) |-> <<block[i], gain>>]]

\* Mutant: what a call leaves over of a frame is dropped
AgcExecuteAfresh(s, in) ==
    LET r == Fill(<<>>, in, AgcCap, AgcFrame, <<>>)
        t == FoldLeft(AgcBlock, s, r.frames)
    IN [st |-> [t EXCEPT !.out = <<>>], out |-> t.out]

AgcExecute(s, in) ==
    LET r == Fill(s.buf, in, AgcCap, AgcFrame, <<>>)
        t == FoldLeft(AgcBlock, [s EXCEPT !.buf = r.buf], r.frames)
    IN [st |-> [t EXCEPT !.out = <<>>], out |-> t.out]

\* Bandwidth expansion: BweFactor samples out for each sample in
BweNew == [buf |-> <<>>]
BweOut(frame) == [j \in 1 .. (BweFactor * BweFrame) |-> <<"bwe", frame, j>>]
BweExecute(s, in) ==
    LET r == Fill(s.buf, in, BweCap, BweFrame, <<>>)
    IN [st |-> [buf |-> r.buf], out |-> Concat([k \in 1 .. Len(r.frames) |-> BweOut(r.frames[k])])]
---------------------------------------------------------------------------
(* RADETransmitStep: speech frames to features, features to modem frames.  *)

TxNew == [buf |-> <<>>, features |-> <<>>, fifo |-> <<>>]
Features(frame) == [i \in 1 .. NbFeatures |-> <<frame, i>>]
ModemFrame(features) == [j \in 1 .. TxOut |-> <<"tx", features, j>>]
FifoWrite(fifo, s, cap) == IF Len(fifo) + Len(s) <= cap THEN fifo \o s ELSE fifo

RECURSIVE TxLoop(_, _, _)
TxLoop(s, in, nout) ==
    LET w   == Min({LpcFrame - Len(s.buf), Len(in)})
        buf == s.buf \o Sub(in, 1, w)
        fs  == s.features \o Features(buf)
        out == FoldLeft(LAMBDA f, m : FifoWrite(f, ModemFrame(m), TxFifoCap), s.fifo, Whole(fs, RadeFeatures))
    IN IF nout + TxOut >= ModemMax THEN [st |-> s, n |-> nout]
       ELSE IF Len(buf) < LpcFrame THEN [st |-> [s EXCEPT !.buf = buf], n |-> nout]
       ELSE TxLoop([buf |-> <<>>, features |-> Rest(fs, RadeFeatures), fifo |-> out], From(in, w + 1),
                   IF Len(fs) >= RadeFeatures THEN Len(out) ELSE nout)

\* No samples: what restartVocoder() queued is handed over
TxExecute(s, in) ==
    LET r == IF in = <<>> THEN [st |-> s, n |-> Len(s.fifo)] ELSE TxLoop(s, in, 0)
    IN [st |-> [r.st EXCEPT !.fifo = From(@, r.n + 1)], out |-> Sub(r.st.fifo, 1, r.n)]

RestartVocoder(s) ==
    [s EXCEPT !.fifo = FifoWrite(@, [j \in 1 .. EooOut |-> <<"eoo", j>>], TxFifoCap)]
---------------------------------------------------------------------------
(* RADEReceiveStep: modem samples to features to speech.  decoded counts    *)
(* the calls of rade_rx(); stale is set by one made without a fresh read(). *)

RxNew == [buf |-> <<>>, features |-> <<>>, decoded |-> 0, texts |-> 0, stale |-> FALSE]
RadeRx(k, frame) == IF Sync(k) = "features" THEN [i \in 1 .. RadeFeatures |-> <<frame, i>>] ELSE <<>>

\* numFree() of inputSampleFifo_, which holds rade_nin_max() samples
RxRoom(buf) == NinMax - Len(buf)

Fargan(features) == [j \in 1 .. LpcFrame |-> <<"rx", features, j>>]

RECURSIVE RxLoop(_, _, _)
RxLoop(s, in, out) ==
    LET k     == s.decoded + 1
        nin   == Nin(k)
        w     == Min({RxRoom(s.buf), Len(in)})
        buf   == s.buf \o Sub(in, 1, w)
        rest  == From(in, w + 1)
        read  == Len(buf) >= nin
        fs    == s.features \o RadeRx(k, Sub(buf, 1, nin))
        spoke == Whole(fs, NbFeatures)
    IN IF Len(out) + LpcFrame >= SpeechMax THEN [st |-> s, out |-> out]
       ELSE IF ~read /\ rest = <<>> THEN [st |-> [s EXCEPT !.buf = buf], out |-> out]
       ELSE RxLoop([buf |-> IF read THEN From(buf, nin + 1) ELSE buf,
                    features |-> Rest(fs, NbFeatures), decoded |-> k,
                    texts |-> s.texts + (IF Sync(k) = "eoo" THEN 1 ELSE 0),
                    stale |-> s.stale \/ ~read],
                   rest, out \o Concat([i \in 1 .. Len(spoke) |-> Fargan(spoke[i])]))

RxExecute(s, in) == RxLoop(s, in, <<>>)
---------------------------------------------------------------------------
(* The other steps.                                                        *)

\* Converting to float and back, scaled by num / den: saturates, never wraps
ToInt(x) == IF x <= -32768 THEN -32768 ELSE IF x >= 32767 THEN 32767 ELSE x
LevelAdjust(x, num, den) == ToInt(Quot(x * num, den))
ToneInterferer(x, tone) == Max({-32768, Min({32767, x + tone})})

\* Each input sample becomes as many output samples as the rates call for
ResampleNew == [n |-> 0]
ResampleExecute(r, in) ==
    LET upTo(i) == ((r.st.n + i) * r.out) \div r.in
    IN IF in = <<>> \/ r.in = r.out THEN [st |-> r.st, out |-> in]
       ELSE [st |-> [n |-> (r.st.n + Len(in)) % r.in],
             out |-> Concat([i \in 1 .. Len(in) |-> [j \in 1 .. (upTo(i) - upTo(i - 1)) |-> in[i]]])]

MuteExecute(step, in) == [j \in 1 .. ((Len(in) * step.out) \div step.in) |-> 0]

\* LinkStep: its input end takes a block or nothing, its output end what is asked for
LinkNew == [fifo |-> <<>>]
LinkInput(s, in) == [fifo |-> FifoWrite(s.fifo, in, LinkCap)]
LinkOutput(s, n) ==
    LET m == Min({IF n > 0 THEN Min({Len(s.fifo), n}) ELSE Len(s.fifo), LinkMax})
    IN [st |-> [fifo |-> From(s.fifo, m + 1)], out |-> Sub(s.fifo, 1, m)]
ClearFifo(s) == [s EXCEPT !.fifo = <<>>]
---------------------------------------------------------------------------
(* AudioPipeline.                                                          *)

NewState(kind) == CASE kind = "rnnoise" -> RnnNew  [] kind = "agc" -> AgcNew [] kind = "bwe" -> BweNew
                    [] kind = "radetx" -> TxNew [] kind = "raderx" -> RxNew [] kind = "link" -> LinkNew
                    [] kind = "resample" -> ResampleNew [] OTHER -> [none |-> 0]
Step(kind, in, out) == [kind |-> kind, in |-> in, out |-> out, st |-> NewState(kind)]

\* The steps with their rates; rnn, modem and speech are those of RNNoise, the modem and the vocoder
RnnStep(rnn) == Step("rnnoise", rnn, rnn)
AgcStep(rate) == Step("agc", rate, rate)
TxStep(speech, modem) == Step("radetx", speech, modem)
RxStep(modem, speech) == Step("raderx", modem, speech)
BweStep(speech) == Step("bwe", speech, BweFactor * speech)
LevelStep(rate) == Step("level", rate, rate)
MuteStep(in, out) == Step("mute", in, out)
LinkStep(rate) == Step("link", rate, rate)

StepExecute(step, in) ==
    CASE step.kind = "rnnoise"  -> RnnExecute(step.st, in)
      [] step.kind = "agc"      -> AgcExecute(step.st, in)
      [] step.kind = "bwe"      -> BweExecute(step.st, in)
      [] step.kind = "radetx"   -> TxExecute(step.st, in)
      [] step.kind = "raderx"   -> RxExecute(step.st, in)
      [] step.kind = "resample" -> ResampleExecute(step, in)
      [] step.kind = "mute"     -> [st |-> step.st, out |-> MuteExecute(step, in)]
      [] step.kind = "link"     -> [st |-> LinkInput(step.st, in), out |-> <<>>]
      [] OTHER                  -> [st |-> step.st, out |-> in]

\* reset() of each step; a LinkStep's ends and the steps without state keep IPipelineStep's empty one,
\* and rade_rx()'s count is RADE's own
RnnReset(s) == [s EXCEPT !.buf = <<>>, !.first = TRUE]
AgcReset(s) == [s EXCEPT !.buf = <<>>, !.target = 0, !.gain = 0, !.since = 0, !.valid = FALSE]
BweReset(s) == [s EXCEPT !.buf = <<>>]
TxReset(s) == [s EXCEPT !.buf = <<>>, !.fifo = <<>>, !.features = <<>>]
RxReset(s) == [s EXCEPT !.buf = <<>>, !.features = <<>>]
ResampleReset(s) == [s EXCEPT !.n = 0]
StepReset(step) ==
    CASE step.kind = "rnnoise"  -> [step EXCEPT !.st = RnnReset(@)]
      [] step.kind = "agc"      -> [step EXCEPT !.st = AgcReset(@)]
      [] step.kind = "bwe"      -> [step EXCEPT !.st = BweReset(@)]
      [] step.kind = "radetx"   -> [step EXCEPT !.st = TxReset(@)]
      [] step.kind = "raderx"   -> [step EXCEPT !.st = RxReset(@)]
      [] step.kind = "resample" -> [step EXCEPT !.st = ResampleReset(@)]
      [] OTHER                  -> step

None == Step("none", 0, 0)
Resampler(in, out) == IF in # out THEN Step("resample", in, out) ELSE None

\* The rate at which samples leave the first n steps
RateAfter(p, n) == IF n = 0 THEN p.in ELSE p.steps[n].out

\* reloadResultResampler_(): an existing one is kept when it fits the last step
ReloadResultResampler(p) ==
    LET n == Len(p.steps)
        create == \/ p.result = None
                  \/ n = 0 /\ (p.result.in # p.in \/ p.result.out # p.out)
                  \/ n > 0 /\ p.result.in # RateAfter(p, n)
    IN IF create THEN [p EXCEPT !.result = Resampler(RateAfter(p, n), p.out)] ELSE p

NewPipeline(in, out) ==
    LET p == [in |-> in, out |-> out, steps |-> <<>>, resamplers |-> <<>>, result |-> None]
    IN IF in # out THEN ReloadResultResampler(p) ELSE p

\* appendPipelineStep(): reloadResampler_() for a step that has none yet
AppendStep(p, step) ==
    ReloadResultResampler([p EXCEPT !.steps = Append(@, step),
                                    !.resamplers = Append(@, Resampler(RateAfter(p, Len(p.steps)), step.in))])

\* MinimalTxRxThread::initializePipeline_(): the steps of a transmitter or of a receiver
InitializePipeline(tx, in, out, rnn, modem, speech) ==
    FoldLeft(AppendStep, NewPipeline(in, out),
             IF tx THEN <<RnnStep(rnn), AgcStep(speech), TxStep(speech, modem), LevelStep(out)>>
             ELSE <<RxStep(modem, speech), BweStep(speech)>>)

Through(resampler, in) ==
    IF resampler = None THEN [st |-> resampler.st, out |-> in] ELSE ResampleExecute(resampler, in)

\* One turn of execute()'s loop on the run a: the i-th step's resampler has given r, then the step x
AfterStep(a, i, r, x) ==
    [p |-> [a.p EXCEPT !.resamplers[i].st = r.st, !.steps[i].st = x.st], out |-> x.out]
RunStep(a, i, r) == AfterStep(a, i, r, StepExecute(a.p.steps[i], r.out))
PipelineStep(a, i) == RunStep(a, i, Through(a.p.resamplers[i], a.out))

\* The end of execute(): the result's resampler has given r
AfterResult(a, r) == [p |-> [a.p EXCEPT !.result.st = r.st], out |-> r.out]
PipelineResult(a) == AfterResult(a, Through(a.p.result, a.out))

\* execute(): each step's resampler and the step in turn, then the result's resampler
PipelineExecute(p, in) ==
    PipelineResult(FoldLeft(PipelineStep, [p |-> p, out |-> in], [i \in 1 .. Len(p.steps) |-> i]))

PipelineReset(p) ==
    LET fresh(ss) == [i \in 1 .. Len(ss) |-> StepReset(ss[i])]
    IN [p EXCEPT !.steps = fresh(@), !.resamplers = fresh(@), !.result = StepReset(@)]
===========================================================================

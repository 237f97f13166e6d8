----------------------------- MODULE MCAudio ------------------------------
(***************************************************************************)
(* The audio path: a behaviour is one of the transmit or receive thread     *)
(* ("threads"), of a TapStep ("tap"), of the helper that paces the threads   *)
(* ("helper"), of the thread that writes features to a file ("features"), or *)
(* of a pipeline step or a whole pipeline fed in calls of any size ("steps").*)
(***************************************************************************)
EXTENDS AudioThreads, PipelineSteps, TapStep, RealtimeHelper, FeatureWriter

CONSTANTS FeedSizes, MaxFed, MaxSteps

VARIABLES which, kind, pipe, stream, played, over1, base

stepVars == <<kind, pipe, stream, played, over1, base>>
MCVars == <<which, vars, tapVars, stepVars, helperVars, featureVars>>
---------------------------------------------------------------------------
\* External: three kinds of blocks, and the pattern in which RADE asks for and decodes samples
MCLufs(b) == LET x == b[1] % 3 IN IF x = 0 THEN -90000 ELSE IF x = 1 THEN -30000 ELSE -1000
MCNin(k) == <<2, 3, 1>>[(k % 3) + 1]
MCSync(k) == <<"features", "none", "features", "eoo">>[(k % 4) + 1]

Kinds == {"rnnoise", "agc", "bwe", "radetx", "raderx", "resample", "link", "mute", "tx", "rx"}
Setup(k) ==
    CASE k = "rnnoise"  -> AppendStep(NewPipeline(6, 6), RnnStep(6))
      [] k = "agc"      -> AppendStep(NewPipeline(2, 2), AgcStep(2))
      [] k = "bwe"      -> AppendStep(NewPipeline(2, 6), BweStep(2))
      [] k = "radetx"   -> AppendStep(NewPipeline(2, 1), TxStep(2, 1))
      [] k = "raderx"   -> AppendStep(NewPipeline(1, 2), RxStep(1, 2))
      [] k = "resample" -> NewPipeline(3, 2)
      [] k = "link"     -> AppendStep(NewPipeline(2, 2), LinkStep(2))
      [] k = "mute"     -> AppendStep(NewPipeline(3, 2), MuteStep(3, 2))
      [] k = "tx"       -> InitializePipeline(TRUE, 2, 2, 6, 1, 2)
      [] k = "rx"       -> InitializePipeline(FALSE, 1, 2, 6, 1, 2)
      [] OTHER          -> NewPipeline(1, 2)

StepsInit(k) == kind = k /\ pipe = Setup(k) /\ stream = <<>> /\ played = <<>> /\ over1 = FALSE /\ base = 0

Feed(n) == /\ kind \in Kinds /\ ~over1 /\ Len(stream) + n <= MaxFed
           /\ LET in == [i \in 1 .. n |-> Len(stream) + i]
                  r == PipelineExecute(pipe, in)
              IN /\ stream' = IF kind = "link" /\ Len(pipe.steps[1].st.fifo) + n > LinkCap THEN stream
                              ELSE stream \o in
                 /\ pipe' = r.p
                 /\ played' = played \o r.out
           /\ UNCHANGED <<kind, over1, base>>

\* The other end of a LinkStep
LinkRead(n) == /\ kind = "link"
               /\ LET r == LinkOutput(pipe.steps[1].st, n)
                  IN pipe' = [pipe EXCEPT !.steps[1].st = r.st] /\ played' = played \o r.out
               /\ UNCHANGED <<kind, stream, over1, base>>

LinkClear == /\ kind = "link" /\ stream # <<>>
             /\ pipe' = [pipe EXCEPT !.steps[1].st = ClearFifo(@)]
             /\ stream' = <<>> /\ played' = <<>>
             /\ UNCHANGED <<kind, over1, base>>

\* The end of an over: restartVocoder(), then execute() without samples
EndOver == /\ kind \in {"radetx", "tx"} /\ ~over1
           /\ LET i == IF kind = "tx" THEN 3 ELSE 1
                  r == PipelineExecute([pipe EXCEPT !.steps[i].st = RestartVocoder(@)], <<>>)
              IN pipe' = r.p /\ played' = played \o r.out
           /\ over1' = TRUE
           /\ UNCHANGED <<kind, stream, base>>

ResetAll == /\ kind \in Kinds \ {"link"} /\ stream # <<>>
            /\ pipe' = PipelineReset(pipe)
            /\ stream' = <<>> /\ played' = <<>> /\ over1' = FALSE
            /\ base' = IF kind \in {"raderx", "rx"} THEN pipe.steps[1].st.decoded ELSE 0
            /\ base' <= 2 * MaxFed
            /\ UNCHANGED kind

\* Building a pipeline from steps of any rates
Build == /\ kind = "build" /\ Len(pipe.steps) < MaxSteps
         /\ \E i, o \in {1, 2, 6} : pipe' = AppendStep(pipe, MuteStep(i, o))
         /\ UNCHANGED <<kind, stream, played, over1, base>>

StepsNext == (\E n \in FeedSizes : Feed(n) \/ LinkRead(n)) \/ LinkClear \/ EndOver \/ ResetAll \/ Build
---------------------------------------------------------------------------
MCInit == /\ which \in {"threads", "tap", "steps", "helper", "features"}
          /\ Init /\ (which # "threads" => mTx)
          /\ TapInit /\ HelperInit /\ FeatureInit
          /\ \E k \in Kinds \cup {"build"} : StepsInit(k) /\ (which # "steps" => k = "build")

MCNext ==
  \/ which = "threads" /\ Next /\ UNCHANGED <<which, tapVars, stepVars, helperVars, featureVars>>
  \/ which = "tap" /\ TapNext /\ UNCHANGED <<which, vars, stepVars, helperVars, featureVars>>
  \/ which = "steps" /\ StepsNext /\ UNCHANGED <<which, vars, tapVars, helperVars, featureVars>>
  \/ which = "helper" /\ HelperNext /\ UNCHANGED <<which, vars, tapVars, stepVars, featureVars>>
  \/ which = "features" /\ FeatureNext /\ UNCHANGED <<which, vars, tapVars, stepVars, helperVars>>

MCSpec == /\ MCInit /\ [][MCNext]_MCVars
          /\ Fairness
          /\ WF_tapVars(which = "tap" /\ Caller) /\ WF_tapVars(which = "tap" /\ TapThread)
          /\ WF_featureVars(which = "features" /\ (SignalFeatures \/ SignalExit \/ Close))
          /\ WF_featureVars(which = "features" /\ FeatureThread)
---------------------------------------------------------------------------
\* The end of an over is only generated once the recorded audio has been read.
EooAfterRecordedAudio == pc = "eoo" /\ ~eooSent => input = <<>>
---------------------------------------------------------------------------
\* Nobody waits for ever.  A keyed-down transmitter gets to the end of its over, which the thread
\* reports as enqueued, and stop() returns once the thread had been told to start; a tap catches up
\* with what execute() accepted, without another call; ~TapStep() and the destructor of a step
\* that writes features return.
AudioMovesOn ==
  /\ (mTx /\ app = "running" /\ gTx /\ endingTx) ~> (eooEnqueued \/ app # "running" \/ ~gTx)
  /\ (app = "stopping") ~> (app = "stopped")
  /\ TapCatchesUp /\ DestructorReturns /\ FeatureThreadEnds

---------------------------------------------------------------------------
(* What the steps should do with a whole stream.                           *)

ResampleRef(s, in, out) == [j \in 1 .. ((Len(s) * out) \div in) |-> s[(j * in + out - 1) \div out]]
RnnRef(s) == From(Sub(s, 1, RnnFrame * (Len(s) \div RnnFrame)), RnnFrame + 1)
AgcRef(s) == FoldLeft(AgcBlock, AgcNew, Whole(s, AgcFrame)).out
Map(Op(_), ss) == Concat([k \in 1 .. Len(ss) |-> Op(ss[k])])
TxRef(s) == Map(ModemFrame, Whole(Map(Features, Whole(s, LpcFrame)), RadeFeatures))
RECURSIVE RxFeatures(_, _)
RxFeatures(s, k) == IF Len(s) < Nin(k) THEN <<>>
                    ELSE RadeRx(k, Sub(s, 1, Nin(k))) \o RxFeatures(From(s, Nin(k) + 1), k + 1)
RxRef(s) == Map(Fargan, Whole(RxFeatures(s, base + 1), NbFeatures))
BweRef(s) == Map(BweOut, Whole(s, BweFrame))
Eoo == IF over1 THEN [j \in 1 .. EooOut |-> <<"eoo", j>>] ELSE <<>>

Reference ==
    CASE kind = "rnnoise"  -> RnnRef(stream)
      [] kind = "agc"      -> AgcRef(stream)
      [] kind = "bwe"      -> BweRef(stream)
      [] kind = "radetx"   -> TxRef(stream) \o Eoo
      [] kind = "raderx"   -> RxRef(stream)
      [] kind = "resample" -> ResampleRef(stream, 3, 2)
      [] kind = "tx"       -> ResampleRef(TxRef(ResampleRef(AgcRef(ResampleRef(RnnRef(
                                  ResampleRef(stream, 2, 6)), 6, 2)), 2, 2)) \o Eoo, 1, 2)
      [] kind = "rx"       -> ResampleRef(BweRef(RxRef(stream)), 6, 2)
      [] OTHER             -> played

\* What comes out of a step, or of the transmit or receive pipeline, depends only on the samples
\* fed since the last reset() and not on how the calls of execute() cut them: no sample is lost,
\* repeated or reordered at the end of a call, and the end of an over comes after all the modem
\* frames, whole.
OutputOfStream ==
  /\ which = "steps" => played = Reference
  /\ kind = "link" => played \o pipe.steps[1].st.fifo = stream

\* rade_rx() is never handed a buffer that read() did not just fill, though execute() goes on after
\* a failed read() whenever input is left (RADEReceiveStep.cpp:211), and what remains buffered
\* is less than a frame.
DecodesFreshSamples ==
  kind \in {"raderx", "rx"} =>
    ~pipe.steps[1].st.stale /\ Len(pipe.steps[1].st.buf) < Nin(pipe.steps[1].st.decoded + 1)

\* Every step of a pipeline gets samples at its own input rate and the result has the pipeline's
\* output rate, however the steps were appended (the assert in AudioPipeline::execute()).
RatesChain ==
  LET rate(n) == IF n = 0 THEN pipe.in ELSE pipe.steps[n].out
      joins(r, a, b) == IF r = None THEN a = b ELSE r.in = a /\ r.out = b
  IN /\ \A i \in 1 .. Len(pipe.steps) : joins(pipe.resamplers[i], rate(i - 1), pipe.steps[i].in)
     /\ joins(pipe.result, rate(Len(pipe.steps)), pipe.out)

\* Scaling a sample saturates and never wraps to the other sign: a louder sample stays at least
\* as loud, the tone interferer included, and AgcStep's conversion to float and back, which
\* divides by 32767 and multiplies by 32768, gives every sample but -32767 back at a gain of one.
SamplesNeverWrap ==
  which = "steps" /\ kind = "build" /\ pipe.steps = <<>> =>
    /\ \A x \in -32768 .. 32767 : LevelAdjust(x, 32768, 32767) = IF x = -32767 THEN -32768 ELSE x
    /\ \A x \in -32768 .. 32766 : /\ LevelAdjust(x, 2, 1) <= LevelAdjust(x + 1, 2, 1)
                                  /\ LevelAdjust(x, 3981, 1000) <= LevelAdjust(x + 1, 3981, 1000)
                                  /\ \A t \in {-32768, -9, 32767} : ToneInterferer(x, t) <= ToneInterferer(x + 1, t)

\* The steps and pipelines: what comes out is that of the stream, however the calls cut it; the
\* modem is never handed stale samples; sample rates match from step to step, in whatever order
\* the steps were appended; and no gain makes a sample wrap.
PipelineInv == OutputOfStream /\ DecodesFreshSamples /\ RatesChain /\ SamplesNeverWrap
===========================================================================

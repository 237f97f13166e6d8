--------------------------- MODULE AudioThreads ---------------------------
(***************************************************************************)
(* The transmit and the receive thread (MinimalTxRxThread), the four FIFOs  *)
(* they share with the sound cards, and the flags g_tx, endingTx and        *)
(* g_eoo_enqueued they share with the program that keys the transmitter.    *)
(*                                                                         *)
(* One unit of audio is one FRAME_DURATION_MS block.  A unit is a record:   *)
(* the transmission ("over") it belongs to, 0 between overs, and what it    *)
(* is.  The pipelines are abstracted to what they hold back: they turn      *)
(* NFrame blocks into NFrame blocks at once (RADE's modem frame), and       *)
(* restartVocoder() queues the EooLen blocks that end an over.  FIFO        *)
(* operations are atomic, which is what GenericFIFO is shown to implement.  *)
(***************************************************************************)
EXTENDS Integers, Sequences

CONSTANTS NFrame,    \* blocks in a modem frame
          EooLen,    \* blocks in the end of an over
          InCap,     \* capacity() of infifo1 and infifo2, in blocks
          OutCap,    \* capacity() of outfifo1 and outfifo2, in blocks
          MaxOvers,  \* transmissions in a behaviour
          MaxBlocks  \* blocks the microphone or the radio delivers in a behaviour

\* A modem frame and the end of an over have at least one block.
ASSUME AudioAssumption == /\ NFrame \in Nat \ {0} /\ EooLen \in Nat \ {0}
                          /\ InCap \in Nat /\ OutCap \in Nat /\ MaxOvers \in Nat

VARIABLES mTx,        \* m_tx: this is the transmit thread
          run,        \* m_run
          pc,         \* where the thread is
          ready,      \* readySem_
          start,      \* startSem_
          input,      \* infifo1 (tx) or infifo2 (rx)
          output,     \* outfifo1 (tx) or outfifo2 (rx)
          pend,       \* blocks inside the pipeline
          vocoder,    \* outputSampleFifo_ of RADETransmitStep
          block,      \* inputSamples_: what the last read() gave, or NoBlock
          deferReset, \* deferReset_
          eooSent,    \* hasEooBeenSent_
          app,        \* where the program that owns the threads is
          gTx, endingTx, eooEnqueued,
          over,       \* how many overs have begun
          fed,        \* blocks delivered so far
          spoke,      \* a block of the current over went through the pipeline
          missed,     \* the thread did not see the pause before the current over
          lastOut,    \* the last block written to output
          lost        \* a write() to output failed

thread == <<mTx, run, pc, ready, start>>
fifos  == <<input, output>>
inside == <<pend, vocoder, block, deferReset, eooSent>>
flags  == <<gTx, endingTx, eooEnqueued>>
ghosts == <<over, fed, spoke, missed, lastOut, lost>>
vars   == <<thread, fifos, inside, app, flags, ghosts>>

Unit(k, w) == [over |-> k, what |-> w]
NoBlock == Unit(0, "none")

\* Mutant: the end of an over is not counted
RoomNeededForFrame(tx) == NFrame

\* getTxNNomModemSamples(), getRxNumSpeechSamples(): room a pass needs
RoomNeeded(tx) == IF tx /\ EooLen > NFrame THEN EooLen ELSE NFrame
NumFree == OutCap - Len(output)

Init == /\ mTx \in BOOLEAN
        /\ run = TRUE /\ pc = "none" /\ ready = 0 /\ start = 0
        /\ input = <<>> /\ output = <<>>
        /\ pend = <<>> /\ vocoder = <<>> /\ block = NoBlock
        /\ deferReset = FALSE /\ eooSent = FALSE
        /\ app = "created"
        /\ gTx = FALSE /\ endingTx = FALSE /\ eooEnqueued = FALSE
        /\ over = 0 /\ fed = 0 /\ spoke = FALSE /\ missed = FALSE
        /\ lastOut = NoBlock /\ lost = FALSE
---------------------------------------------------------------------------
(* The program's calls.                                                    *)

Start == /\ app = "created"
         /\ app' = "started" /\ pc' = "init"
         /\ UNCHANGED <<mTx, run, ready, start, fifos, inside, flags, ghosts>>

WaitForReady == /\ app = "started" /\ ready > 0
                /\ app' = "ready" /\ ready' = ready - 1
                /\ UNCHANGED <<mTx, run, pc, start, fifos, inside, flags, ghosts>>

SignalToStart == /\ app = "ready"
                 /\ app' = "running" /\ start' = start + 1
                 /\ UNCHANGED <<mTx, run, pc, ready, fifos, inside, flags, ghosts>>

\* stop(): thread_ may be waiting on startSem_, which stop() does not signal
Stop == /\ app \in {"ready", "running"}
        /\ run' = FALSE
        /\ app' = IF app = "running" THEN "stopping" ELSE "abandoning"
        /\ UNCHANGED <<mTx, pc, ready, start, fifos, inside, flags, ghosts>>

Join == /\ app \in {"stopping", "abandoning"} /\ pc = "done"
        /\ app' = "stopped"
        /\ UNCHANGED <<thread, fifos, inside, flags, ghosts>>

\* Keying the transmitter: the over begins, and the two other flags are cleared first
Press == /\ app = "running" /\ ~gTx /\ over < MaxOvers
         /\ endingTx' = FALSE /\ eooEnqueued' = FALSE /\ gTx' = TRUE
         /\ over' = over + 1 /\ spoke' = FALSE
         /\ missed' = ~deferReset
         /\ UNCHANGED <<thread, fifos, inside, app, fed, lastOut, lost>>

Release == /\ app = "running" /\ gTx /\ ~endingTx
           /\ endingTx' = TRUE
           /\ UNCHANGED <<thread, fifos, inside, app, gTx, eooEnqueued, ghosts>>

\* The program drops g_tx once g_eoo_enqueued says the end of the over is on its way; for the
\* receive thread, whose model leaves the transmit thread out, that may be at any moment
Finish == /\ gTx /\ endingTx /\ (mTx => eooEnqueued)
          /\ gTx' = FALSE
          /\ UNCHANGED <<thread, fifos, inside, app, endingTx, eooEnqueued, ghosts>>
---------------------------------------------------------------------------
(* The sound cards' callbacks.                                             *)

\* The microphone stays live between overs; it is not fed while an over is ending
Deliver == /\ fed < MaxBlocks /\ app \in {"ready", "running", "stopping"}
           /\ mTx => ~(gTx /\ endingTx)
           /\ fed' = fed + 1
           /\ input' = IF Len(input) < InCap
                       THEN Append(input, Unit(IF mTx /\ ~gTx THEN 0 ELSE over, "speech"))
                       ELSE input
           /\ UNCHANGED <<thread, output, inside, app, flags, over, spoke, missed, lastOut, lost>>

Play == /\ output # <<>>
        /\ output' = Tail(output)
        /\ UNCHANGED <<thread, input, inside, app, flags, ghosts>>
---------------------------------------------------------------------------
(* Entry(): the thread's steps.                                            *)

\* initializePipeline_(): the receive side also clears its FIFOs
Ready == /\ pc = "init"
         /\ input' = IF mTx THEN input ELSE <<>>
         /\ output' = IF mTx THEN output ELSE <<>>
         /\ ready' = ready + 1 /\ pc' = "start"
         /\ UNCHANGED <<mTx, run, start, inside, app, flags, ghosts>>

\* startSem_.wait(); clearFifos_()
Begin == /\ pc = "start" /\ start > 0
         /\ start' = start - 1
         /\ input' = <<>> /\ output' = <<>>
         /\ pc' = "pass"
         /\ UNCHANGED <<mTx, run, ready, inside, app, flags, ghosts>>

Exit == /\ pc = "pass" /\ ~run
        /\ pc' = "done"
        /\ pend' = <<>> /\ vocoder' = <<>>
        /\ UNCHANGED <<mTx, run, ready, start, fifos, block, deferReset, eooSent, app, flags, ghosts>>

\* txProcessing_(): the load of g_tx
TxPass == /\ mTx /\ pc = "pass" /\ run
          /\ pc' = IF ~gTx THEN "pass" ELSE IF deferReset THEN "reset" ELSE "loop"
          /\ deferReset' = ~gTx
          /\ UNCHANGED <<mTx, run, ready, start, fifos, pend, vocoder, block, eooSent, app, flags, ghosts>>

\* Mutant: the FIFOs are cleared without pipeline_->reset()
ResetPipelineNot == /\ pc = "reset"
                    /\ input' = <<>>
                    /\ pc' = "resetOutput"
                    /\ UNCHANGED <<mTx, run, ready, start, output, inside, app, flags, ghosts>>

\* pipeline_->reset() and the first half of clearFifos_()
ResetPipeline == /\ pc = "reset"
                 /\ pend' = <<>> /\ vocoder' = <<>>
                 /\ input' = <<>>
                 /\ pc' = "resetOutput"
                 /\ UNCHANGED <<mTx, run, ready, start, output, block, deferReset, eooSent, app, flags, ghosts>>

ResetOutput == /\ pc = "resetOutput"
               /\ output' = <<>>
               /\ pc' = IF mTx THEN "loop" ELSE "pass"
               /\ UNCHANGED <<mTx, run, ready, start, input, inside, app, flags, ghosts>>

\* The loop's condition and read(): NoBlock stands for inputSamplesZeros_
TxRead == /\ mTx /\ pc = "loop"
          /\ IF NumFree >= RoomNeeded(TRUE)
             THEN /\ pc' = "ending"
                  /\ block' = IF input = <<>> THEN NoBlock ELSE Head(input)
                  /\ input' = IF input = <<>> THEN input ELSE Tail(input)
             ELSE pc' = "pass" /\ UNCHANGED <<block, input>>
          /\ UNCHANGED <<mTx, run, ready, start, output, pend, vocoder, deferReset, eooSent, app, flags, ghosts>>

\* The load of endingTx, after the read()
LoadEndingTx == /\ pc = "ending"
                /\ pc' = IF block = NoBlock /\ endingTx THEN "eoo" ELSE "speech"
                /\ UNCHANGED <<mTx, run, ready, start, fifos, inside, app, flags, ghosts>>

\* write(): all or nothing
Write(s) == /\ output' = IF Len(s) <= NumFree THEN output \o s ELSE output
            /\ lost' = (lost \/ Len(s) > NumFree)
            /\ lastOut' = IF s = <<>> \/ Len(s) > NumFree THEN lastOut ELSE s[Len(s)]

\* Mutant: the end of the over is never reported
TxEooUnsaid == /\ pc = "eoo"
               /\ eooSent' = TRUE
               /\ vocoder' = <<>>
               /\ Write(IF eooSent THEN vocoder
                        ELSE vocoder \o [i \in 1 .. EooLen |-> Unit(over, "eoo")])
               /\ pc' = "pass"
               /\ UNCHANGED <<mTx, run, ready, start, input, pend, block, deferReset, app, flags,
                              over, fed, spoke, missed>>

\* restartVocoder() once, then execute() with no samples: what the vocoder holds comes out
TxEoo == /\ pc = "eoo"
         /\ eooSent' = TRUE
         /\ vocoder' = <<>>
         /\ LET out == IF eooSent THEN vocoder
                       ELSE vocoder \o [i \in 1 .. EooLen |-> Unit(over, "eoo")]
            IN /\ Write(out)
               /\ eooEnqueued' = (eooEnqueued \/ out = <<>>)
         /\ pc' = "pass"
         /\ UNCHANGED <<mTx, run, ready, start, input, pend, block, deferReset, app, gTx, endingTx,
                        over, fed, spoke, missed>>

\* execute() of one block: a modem frame comes out when NFrame blocks are inside
Execute(b) == LET all == Append(pend, b)
              IN IF Len(all) = NFrame THEN pend' = <<>> /\ Write(all)
                 ELSE pend' = all /\ Write(<<>>)

\* Mutant: hasEooBeenSent_ is left as it is
TxSpeechSent == /\ pc = "speech"
                /\ eooEnqueued' = FALSE
                /\ Execute(IF block = NoBlock THEN Unit(over, "silence") ELSE block)
                /\ spoke' = TRUE
                /\ pc' = "loop"
                /\ UNCHANGED <<mTx, run, ready, start, input, vocoder, block, deferReset, eooSent, app, gTx,
                               endingTx, over, fed, missed>>

TxSpeech == /\ pc = "speech"
            /\ eooEnqueued' = FALSE /\ eooSent' = FALSE
            /\ Execute(IF block = NoBlock THEN Unit(over, "silence") ELSE block)
            /\ spoke' = TRUE
            /\ pc' = "loop"
            /\ UNCHANGED <<mTx, run, ready, start, input, vocoder, block, deferReset, app, gTx, endingTx,
                           over, fed, missed>>

\* rxProcessing_(): the load of g_tx; clearFifos_() while transmitting
RxPass == /\ ~mTx /\ pc = "pass" /\ run
          /\ pc' = IF gTx THEN "clear" ELSE "loop"
          /\ UNCHANGED <<mTx, run, ready, start, fifos, inside, app, flags, ghosts>>

RxClear == /\ pc = "clear"
           /\ input' = <<>>
           /\ missed' = FALSE
           /\ pc' = "resetOutput"
           /\ UNCHANGED <<mTx, run, ready, start, output, inside, app, flags, over, fed, spoke, lastOut, lost>>

RxRead == /\ ~mTx /\ pc = "loop"
          /\ IF NumFree >= RoomNeeded(FALSE) /\ input # <<>>
             THEN pc' = "decode" /\ block' = Head(input) /\ input' = Tail(input)
             ELSE pc' = "pass" /\ UNCHANGED <<block, input>>
          /\ UNCHANGED <<mTx, run, ready, start, output, pend, vocoder, deferReset, eooSent, app, flags, ghosts>>

\* execute(), write(), and the load of g_tx that ends the loop
RxDecode == /\ pc = "decode"
            /\ Execute(block)
            /\ pc' = IF gTx THEN "pass" ELSE "loop"
            /\ UNCHANGED <<mTx, run, ready, start, input, vocoder, block, deferReset, eooSent, app, flags,
                           over, fed, spoke, missed>>
---------------------------------------------------------------------------
Thread == \/ Ready \/ Begin \/ Exit
          \/ TxPass \/ ResetPipeline \/ ResetOutput \/ TxRead \/ LoadEndingTx \/ TxEoo \/ TxSpeech
          \/ RxPass \/ RxClear \/ RxRead \/ RxDecode

Program == Start \/ WaitForReady \/ SignalToStart \/ Stop \/ Join \/ Press \/ Release \/ Finish

Next == Thread \/ Program \/ Deliver \/ Play

\* The thread is scheduled, the sound card plays what is queued, and the thread encodes
\* faster than the sound card plays, so that a pass fills the output FIFO and ends
Fairness == /\ WF_vars(Thread) /\ WF_vars(Play) /\ WF_vars(Join)
            /\ []<>(pc \in {"none", "init", "start", "pass", "done"})

Spec == Init /\ [][Next]_vars /\ Fairness
---------------------------------------------------------------------------
Units == [over : 0 .. MaxOvers, what : {"none", "speech", "silence", "eoo"}]

FlagsOK ==
  /\ mTx \in BOOLEAN /\ run \in BOOLEAN /\ deferReset \in BOOLEAN /\ eooSent \in BOOLEAN
  /\ gTx \in BOOLEAN /\ endingTx \in BOOLEAN /\ eooEnqueued \in BOOLEAN
  /\ spoke \in BOOLEAN /\ missed \in BOOLEAN /\ lost \in BOOLEAN

\* The types of what the threads and the sound cards share.
AudioTypeOK ==
  /\ FlagsOK
  /\ {ready, start} \subseteq 0 .. 1
  /\ input \in Seq(Units) /\ Len(input) <= InCap
  /\ output \in Seq(Units) /\ Len(output) <= OutCap
  /\ pend \in Seq(Units) /\ Len(pend) < NFrame
  /\ block \in Units /\ lastOut \in Units

\* The FIFOs and the pipeline stay within their capacities, and every block the pipelines produce
\* finds room in the output FIFO: the room a pass asks for before it executes covers a whole modem
\* frame and the whole end of an over, whatever the sound card does meanwhile
\* (MinimalTxRxThread.cpp txProcessing_, the two write() calls, whose failure is only logged or
\* ignored, and rxProcessing_).
OutputNeverLost == AudioTypeOK /\ ~lost

\* Once the transmit thread has made its reset for the current over, nothing said before that
\* over is in the FIFOs, in the pipeline or in the thread's buffer, so nothing of it can go on
\* the air.  It needs the thread to have seen g_tx low between the two overs.  Once the receive
\* thread has seen an over, what it queues for the loudspeaker is what came in since that over
\* began, but for the part of one modem frame the pipeline still held.
OversStartClean ==
  /\ mTx /\ gTx /\ ~missed /\ ~deferReset /\ pc \notin {"reset", "resetOutput"} =>
       /\ \A s \in {input, output, pend, vocoder} : \A i \in 1 .. Len(s) : s[i].over = over
       /\ pc \in {"ending", "speech"} => block.over = over \/ block = NoBlock
  /\ ~mTx /\ ~missed /\ pc # "resetOutput" =>
       /\ output # <<>> => output[Len(output)].over = over
       /\ \A i \in 1 .. Len(output) : output[i].over < over => i < NFrame

\* When g_eoo_enqueued tells the program that the over is complete, the last thing queued for
\* the radio is the end-of-over, if any audio of the over went through the pipeline at all.
OverEndsWithEoo ==
  mTx /\ gTx /\ eooEnqueued /\ spoke /\ ~missed => lastOut = Unit(over, "eoo")
===========================================================================

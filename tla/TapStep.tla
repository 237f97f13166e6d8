----------------------------- MODULE TapStep -----------------------------
(***************************************************************************)
(* TapStep: execute() copies the audio that passes through it into a FIFO,  *)
(* from which a thread of its own feeds the tapped step in 10 ms blocks.    *)
(* What does not fit is dropped and counted; the tap thread says so.  The   *)
(* audio thread, the tap thread and the destructor interleave at every      *)
(* FIFO, semaphore and atomic operation.  Samples are numbered.             *)
(***************************************************************************)
EXTENDS Naturals, Sequences

CONSTANTS Block,      \* samples in 10 ms: sampleRate_ / 100
          TapCap,     \* capacity() of tapThreadInput_
          CallSizes,  \* the numInputSamples execute() is called with
          MaxCalls,   \* calls of execute() in a behaviour
          SemMax      \* the most a Semaphore counts to (1 on Windows)

ASSUME TapAssumption == /\ Block \in Nat \ {0} /\ TapCap \in Nat /\ CallSizes \subseteq Nat
                        /\ SemMax \in Nat

VARIABLES fifo,       \* tapThreadInput_
          sem,        \* sem_
          ending,     \* endingTapThread_
          unreportedSamples, unreportedDrops,
          dropping, samplesDropped,
          caller,     \* the thread that calls execute() and the destructor: where it is
          left,       \* numInputSamples of the call
          dropped,    \* samplesDropped of the call
          tap,        \* the tap thread: where it is
          drops,      \* drops in reportDrops_()
          calls, next, seen, accepted, allDropped, said

tapVars == <<fifo, sem, ending, unreportedSamples, unreportedDrops, dropping, samplesDropped,
             caller, left, dropped, tap, drops, calls, next, seen, accepted, allDropped, said>>
queue   == <<fifo, sem, next, seen, accepted>>
counts  == <<unreportedSamples, unreportedDrops>>
report  == <<dropping, samplesDropped, drops, said>>
call    == <<caller, left, dropped, calls, allDropped>>

TapInit == /\ fifo = <<>> /\ sem = 0 /\ ending = FALSE
           /\ unreportedSamples = 0 /\ unreportedDrops = 0
           /\ dropping = FALSE /\ samplesDropped = 0
           /\ caller = "idle" /\ left = 0 /\ dropped = 0
           /\ tap = "check" /\ drops = 0
           /\ calls = 0 /\ next = 1 /\ seen = 0 /\ accepted = <<>>
           /\ allDropped = 0 /\ said = FALSE

Signal == sem' = IF sem < SemMax THEN sem + 1 ELSE sem
---------------------------------------------------------------------------
(* execute(), on the audio thread.                                         *)

TapExecute == /\ caller = "idle" /\ ~ending /\ calls < MaxCalls
              /\ \E n \in CallSizes : left' = n
              /\ caller' = "write" /\ dropped' = 0 /\ calls' = calls + 1
              /\ UNCHANGED <<queue, counts, report, ending, tap, allDropped>>

\* One write() of the loop: a whole piece or nothing
WritePiece == /\ caller = "write" /\ left > 0
              /\ LET n == IF left < Block THEN left ELSE Block
                     piece == [i \in 1 .. n |-> next + i - 1]
                     fits == Len(fifo) + n <= TapCap
                 IN /\ fifo' = IF fits THEN fifo \o piece ELSE fifo
                    /\ accepted' = IF fits THEN accepted \o piece ELSE accepted
                    /\ dropped' = IF fits THEN dropped ELSE dropped + n
                    /\ left' = left - n
                    /\ next' = next + n
              /\ UNCHANGED <<sem, seen, counts, report, ending, tap, caller, calls, allDropped>>

WakeTap == /\ caller = "write" /\ left = 0
           /\ IF Len(fifo) >= Block THEN Signal ELSE sem' = sem
           /\ caller' = IF dropped > 0 THEN "addSamples" ELSE "idle"
           /\ UNCHANGED <<fifo, next, seen, accepted, counts, report, ending, tap, left, dropped,
                          calls, allDropped>>

AddDroppedSamples == /\ caller = "addSamples"
                     /\ unreportedSamples' = unreportedSamples + dropped
                     /\ allDropped' = allDropped + dropped
                     /\ caller' = "addDrops"
                     /\ UNCHANGED <<queue, unreportedDrops, report, ending, tap, left, dropped, calls>>

AddDrops == /\ caller = "addDrops"
            /\ unreportedDrops' = unreportedDrops + 1
            /\ caller' = "idle"
            /\ UNCHANGED <<queue, unreportedSamples, report, ending, tap, left, dropped, calls, allDropped>>
---------------------------------------------------------------------------
(* The tap thread.  "process", "drops" and "samples" are run in the loop    *)
(* and once more, as "last...", after it.                                   *)

\* Mutant: the thread ends without looking at the FIFO again
CheckEndingAtOnce == /\ tap = "check"
                     /\ tap' = IF ending THEN "lastDrops" ELSE "process"
                     /\ UNCHANGED <<queue, counts, report, ending, call>>

CheckEnding == /\ tap = "check"
               /\ tap' = IF ending THEN "lastProcess" ELSE "process"
               /\ UNCHANGED <<queue, counts, report, ending, call>>

ProcessBufferedBlocks == /\ tap \in {"process", "lastProcess"}
                         /\ IF Len(fifo) >= Block
                            THEN /\ fifo' = SubSeq(fifo, Block + 1, Len(fifo))
                                 /\ seen' = seen + Block
                                 /\ tap' = tap
                            ELSE /\ tap' = IF tap = "process" THEN "drops" ELSE "lastDrops"
                                 /\ UNCHANGED <<fifo, seen>>
                         /\ UNCHANGED <<sem, next, accepted, counts, report, ending, call>>

ExchangeDrops == /\ tap \in {"drops", "lastDrops"}
                 /\ drops' = unreportedDrops /\ unreportedDrops' = 0
                 /\ tap' = IF tap = "drops" THEN "samples" ELSE "lastSamples"
                 /\ UNCHANGED <<queue, unreportedSamples, dropping, samplesDropped, said, ending, call>>

\* The second exchange and the rest of reportDrops_()
ReportDrops == /\ tap \in {"samples", "lastSamples"}
               /\ unreportedSamples' = 0
               /\ dropping' = (drops > 0)
               /\ samplesDropped' = IF drops > 0 THEN samplesDropped + unreportedSamples ELSE 0
               /\ said' = (said \/ drops > 0)
               /\ tap' = IF tap = "samples" THEN "wait" ELSE "done"
               /\ UNCHANGED <<queue, unreportedDrops, drops, ending, call>>

TapWait == /\ tap = "wait" /\ sem > 0
           /\ sem' = sem - 1
           /\ tap' = "check"
           /\ UNCHANGED <<fifo, next, seen, accepted, counts, report, ending, call>>
---------------------------------------------------------------------------
(* ~TapStep(), on the thread that called execute().                        *)

SetEnding == /\ caller = "idle" /\ ~ending
             /\ ending' = TRUE /\ caller' = "signal"
             /\ UNCHANGED <<queue, counts, report, tap, left, dropped, calls, allDropped>>

SignalEnd == /\ caller = "signal"
             /\ Signal
             /\ caller' = "join"
             /\ UNCHANGED <<fifo, next, seen, accepted, counts, report, ending, tap, left, dropped,
                            calls, allDropped>>

JoinTap == /\ caller = "join" /\ tap = "done"
           /\ caller' = "destroyed"
           /\ UNCHANGED <<queue, counts, report, ending, tap, left, dropped, calls, allDropped>>
---------------------------------------------------------------------------
Caller == WritePiece \/ WakeTap \/ AddDroppedSamples \/ AddDrops \/ SignalEnd \/ JoinTap
TapThread == CheckEnding \/ ProcessBufferedBlocks \/ ExchangeDrops \/ ReportDrops \/ TapWait

TapNext == TapExecute \/ SetEnding \/ Caller \/ TapThread

TapSpec == TapInit /\ [][TapNext]_tapVars /\ WF_tapVars(Caller) /\ WF_tapVars(TapThread)
---------------------------------------------------------------------------
\* The tapped step gets the accepted samples in the order execute() was given them, none twice
\* and none skipped, and every sample was either accepted or counted as dropped.
TapKeepsOrder ==
  /\ sem \in 0 .. SemMax /\ Len(fifo) <= TapCap
  /\ fifo = SubSeq(accepted, seen + 1, Len(accepted))
  /\ \A i \in 2 .. Len(accepted) : accepted[i - 1] < accepted[i]
  /\ caller = "idle" => Len(accepted) + allDropped = next - 1

\* "Hand over whatever arrived before we were told to stop, so that e.g. a recording doesn't
\* lose its last moments": after the destructor no whole block is left in the FIFO.
LastBlocksHandedOver == caller = "destroyed" => Len(fifo) < Block

\* Dropped audio "gets said rather than dropped quietly": a tap that lost anything has logged it
\* by the time it is destroyed.
DropsAreSaid == caller = "destroyed" /\ allDropped > 0 => said

\* The tapped step gets the accepted samples in the order TapStep::execute() was given them, none
\* twice and none skipped, and every sample was either accepted or counted as dropped; after
\* ~TapStep() no whole block is left in the FIFO, and a tap that lost anything has logged it.
TapInv == TapKeepsOrder /\ LastBlocksHandedOver /\ DropsAreSaid

\* A block execute() accepted reaches the tapped step without waiting for another call: the
\* thread catches up, so the signal sent after the write is never lost.
TapCatchesUp == (Len(fifo) >= Block) ~> (Len(fifo) < Block)

\* The destructor returns.
DestructorReturns == ending ~> (caller = "destroyed")
===========================================================================

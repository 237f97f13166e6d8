----------------------------- MODULE FeatureWriter ----------------------------
(***************************************************************************)
(* The thread that RADETransmitStep and RADEReceiveStep start to write the  *)
(* features of the codec to a file: the audio thread puts blocks of them    *)
(* into a FIFO and wakes the thread when it is three quarters full; the     *)
(* destructor of the step ends it.  Both steps have the same code.          *)
(***************************************************************************)
EXTENDS Integers, Sequences

CONSTANTS FeatureSlots,   \* capacity of utFeatures_ in blocks
          MaxFeatures       \* bound: blocks of features computed

ASSUME FeatureAssumption == FeatureSlots \in Nat

VARIABLES utFeatures,     \* the blocks in the FIFO
          computed,       \* blocks computed so far: the number of the last one
          featureSem, exiting,
          audio,          \* the audio thread, then the destructor
          writer,         \* the feature thread
          file,           \* what was written
          taken           \* history: the blocks write() took

featureVars == <<utFeatures, computed, featureSem, exiting, audio, writer, file, taken>>

FeatureInit ==
    /\ utFeatures = <<>> /\ computed = 0 /\ featureSem = 0 /\ exiting = FALSE
    /\ audio = "run" /\ writer = "check" /\ file = <<>>
    /\ taken = <<>>

\* execute(): a block that does not fit is dropped by write().
WriteFeatures ==
    /\ audio = "run" /\ computed < MaxFeatures
    /\ computed' = computed + 1 /\ audio' = "signal"
    /\ IF Len(utFeatures) < FeatureSlots
       THEN utFeatures' = Append(utFeatures, computed') /\ taken' = Append(taken, computed')
       ELSE UNCHANGED <<utFeatures, taken>>
    /\ UNCHANGED <<featureSem, exiting, writer, file>>

\* Mutant: the thread is woken only when the FIFO is full.
SignalFull ==
    /\ audio = "signal" /\ audio' = "run"
    /\ featureSem' = IF Len(utFeatures) > FeatureSlots THEN featureSem + 1 ELSE featureSem
    /\ UNCHANGED <<utFeatures, computed, exiting, writer, file, taken>>

\* numUsed() > 0.75 * capacity(): the thread may have read in between.
SignalFeatures ==
    /\ audio = "signal" /\ audio' = "run"
    /\ featureSem' = IF 4 * Len(utFeatures) > 3 * FeatureSlots THEN featureSem + 1 ELSE featureSem
    /\ UNCHANGED <<utFeatures, computed, exiting, writer, file, taken>>

\* The destructor: the flag, the signal, join(), and fclose().
SetExiting ==
    /\ audio = "run" /\ audio' = "exiting" /\ exiting' = TRUE
    /\ UNCHANGED <<utFeatures, computed, featureSem, writer, file, taken>>
SignalExit ==
    /\ audio = "exiting" /\ audio' = "join" /\ featureSem' = featureSem + 1
    /\ UNCHANGED <<utFeatures, computed, exiting, writer, file, taken>>

Close ==
    /\ audio = "join" /\ writer = "done" /\ audio' = "closed"
    /\ UNCHANGED <<utFeatures, computed, featureSem, exiting, writer, file, taken>>

\* utFeatureThreadEntry_(): the test of the flag,
CheckExiting ==
    /\ writer = "check" /\ writer' = IF exiting THEN "last" ELSE "drain"
    /\ UNCHANGED <<utFeatures, computed, featureSem, exiting, audio, file, taken>>

\* one round of a loop that reads and writes all there is, before the wait and
\* once more at the end,
Drain ==
    /\ writer \in {"drain", "last"}
    /\ IF utFeatures = <<>>
       THEN /\ writer' = IF writer = "drain" THEN "wait" ELSE "done"
            /\ UNCHANGED <<utFeatures, file>>
       ELSE /\ file' = file \o utFeatures /\ utFeatures' = <<>>
            /\ UNCHANGED writer
    /\ UNCHANGED <<computed, featureSem, exiting, audio, taken>>

\* and the wait.
FeatureWait ==
    /\ writer = "wait" /\ featureSem > 0
    /\ featureSem' = featureSem - 1 /\ writer' = "check"
    /\ UNCHANGED <<utFeatures, computed, exiting, audio, file, taken>>

FeatureThread == CheckExiting \/ Drain \/ FeatureWait
Destructor == SetExiting \/ SignalExit \/ Close
FeatureNext == WriteFeatures \/ SignalFeatures \/ Destructor \/ FeatureThread
FeatureFairness ==
    /\ WF_featureVars(SignalFeatures \/ SignalExit \/ Close)
    /\ WF_featureVars(FeatureThread)
FeatureSpec == FeatureInit /\ [][FeatureNext]_featureVars /\ FeatureFairness

-------------------------------------------------------------------------------
\* Every block that write() took is in the FIFO or in the file, in order, and
\* all of them are in the file when the destructor has closed it.
BlocksKept ==
    /\ file \o utFeatures = taken /\ Len(utFeatures) <= FeatureSlots
    /\ audio = "closed" => file = taken

\* The thread never sleeps through a FIFO that is nearly full: a block can be
\* dropped only because the thread is slow, not because nobody woke it.
NoLostWakeup ==
    audio # "signal" /\ 4 * Len(utFeatures) > 3 * FeatureSlots =>
        writer # "wait" \/ featureSem > 0

\* Every block of features that write() took is in the FIFO or in the file, in
\* order, and all of them are in the file when the step's destructor has closed
\* it; and the thread that writes them never sleeps through a FIFO that is nearly
\* full, so that only a slow thread makes write() drop a block.
FeaturesKept == BlocksKept /\ NoLostWakeup

\* The destructor of the step returns.
FeatureThreadEnds == audio = "exiting" ~> audio = "closed"

===============================================================================

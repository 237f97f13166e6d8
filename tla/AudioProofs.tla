------------------------------ MODULE AudioProofs -----------------------------
(***************************************************************************)
(* The threads of the audio path: TxRxThread (AudioThreads), TapStep, the   *)
(* thread that writes the features of the codec (FeatureWriter) and the     *)
(* helper that paces them (RealtimeHelper).                                 *)
(*                                                                          *)
(* None of the properties is inductive.  AudioIInv adds which blocks belong *)
(* to the current over, at every place of a pass; TapIInv how the queue, its *)
(* history and the counters of dropped samples fit together between two     *)
(* steps of either thread; FeatureIInv that the flag precedes the thread's  *)
(* last round; HelperIInv that what is owed is no more than the worst delay. *)
(***************************************************************************)
EXTENDS AudioThreads, TapStep, FeatureWriter, RealtimeHelper, SequenceTheorems, TLAPS

-------------------------------------------------------------------------------
(* AudioThreads: TxRxThread and the sound cards.                              *)

TxPlaces == {"none", "init", "start", "pass", "reset", "resetOutput", "loop", "ending", "speech",
             "eoo", "done"}
RxPlaces == {"none", "init", "start", "pass", "clear", "resetOutput", "loop", "decode", "done"}

\* The types, and where the thread and the program that owns it can be together.
PlacesInv ==
    /\ ready \in 0 .. 1 /\ start \in 0 .. 1
    /\ input \in Seq(Units) /\ Len(input) <= InCap
    /\ output \in Seq(Units) /\ Len(output) <= OutCap
    /\ pend \in Seq(Units) /\ Len(pend) < NFrame
    /\ block \in Units /\ lastOut \in Units
    /\ over \in 0 .. MaxOvers /\ vocoder = <<>>
    /\ pc \in IF mTx THEN TxPlaces ELSE RxPlaces
    /\ app = "created" => pc = "none"
    /\ pc \in {"none", "init"} => ready = 0
    /\ app \in {"created", "started", "ready"} => start = 0

\* The thread found the room before it reads, and only the sound card has touched the FIFO since.
RoomInv ==
    /\ pc \in {"ending", "speech", "eoo"} => NumFree >= RoomNeeded(TRUE)
    /\ pc = "decode" => NumFree >= RoomNeeded(FALSE)
    /\ ~lost

\* All the blocks of s belong to over k; and of what the receive thread has queued since it
\* last cleared the FIFO, only the start of the first frame may be older.
OfOver(s, k) == \A i \in 1 .. Len(s) : s[i].over = k
Fresh(s, k) ==
    /\ s # <<>> => s[Len(s)].over = k
    /\ \A i \in 1 .. Len(s) : s[i].over # k => i < NFrame

\* The transmit thread, from its reset for the current over.
TxInv ==
    /\ deferReset => pc \in {"pass", "done"}
    /\ gTx /\ ~missed /\ ~deferReset /\ pc # "reset" =>
         /\ OfOver(input, over) /\ OfOver(pend, over)
         /\ pc # "resetOutput" => OfOver(output, over)
         /\ pc \in {"ending", "speech"} => block.over = over \/ block = NoBlock

\* The receive thread, from the first pass in which it saw the current over.
RxInv ==
    /\ ~deferReset
    /\ ~missed =>
         /\ OfOver(input, over)
         /\ pc = "decode" => block.over = over
         /\ pc # "resetOutput" => Fresh(output, over) /\ (output # <<>> => OfOver(pend, over))

\* The end of the over, once it has been generated, is the last thing queued.
EooInv ==
    /\ eooSent /\ spoke => lastOut = Unit(over, "eoo")
    /\ eooEnqueued => eooSent

AudioIInv == /\ FlagsOK /\ PlacesInv /\ RoomInv
             /\ mTx => TxInv /\ EooInv
             /\ ~mTx => RxInv

\* Blocks are of the current over when they are made.
LEMMA UnitsAre ==
  ASSUME NEW k \in 0 .. MaxOvers, NEW w \in {"none", "speech", "silence", "eoo"}
  PROVE  Unit(k, w) \in Units /\ Unit(k, w).over = k /\ Unit(k, w).what = w
BY DEF Unit, Units

\* What belongs to an over still does after append(), a read() or another write().
LEMMA OfOverKept ==
  ASSUME NEW s \in Seq(Units), NEW k, OfOver(s, k)
  PROVE  /\ \A u \in Units : u.over = k => OfOver(Append(s, u), k)
         /\ s # <<>> => OfOver(Tail(s), k) /\ Head(s).over = k
         /\ \A t \in Seq(Units) : OfOver(t, k) => OfOver(s \o t, k)
<1>1. ASSUME NEW u \in Units, u.over = k PROVE OfOver(Append(s, u), k)
  BY <1>1 DEF OfOver
<1>2. ASSUME s # <<>> PROVE OfOver(Tail(s), k) /\ Head(s).over = k
  BY <1>2 DEF OfOver
<1>3. ASSUME NEW t \in Seq(Units), OfOver(t, k) PROVE OfOver(s \o t, k)
  BY <1>3 DEF OfOver
<1> QED BY <1>1, <1>2, <1>3

\* What is queued for the loudspeaker stays fresh when the sound card plays some of it, when the
\* first frame is written and when a later one is.
LEMMA FreshKept ==
  ASSUME NEW s \in Seq(Units), NEW k, Fresh(s, k)
  PROVE  /\ s # <<>> => Fresh(Tail(s), k)
         /\ \A t \in Seq(Units) : OfOver(t, k) => Fresh(s \o t, k)
<1>1. ASSUME s # <<>> PROVE Fresh(Tail(s), k)
  BY <1>1, AudioAssumption DEF Fresh
<1>2. ASSUME NEW t \in Seq(Units), OfOver(t, k) PROVE Fresh(s \o t, k)
  <2>1. s \o t \in Seq(Units) /\ Len(s \o t) = Len(s) + Len(t)
    OBVIOUS
  <2>2. CASE Len(t) = 0
    BY <2>2
  <2>3. CASE Len(t) > 0
    BY <1>2, <2>1, <2>3 DEF OfOver, Fresh
  <2> QED BY <2>2, <2>3
<1> QED BY <1>1, <1>2

\* A frame written to an empty FIFO is fresh when its last block is of the current over.
LEMMA FirstFrame ==
  ASSUME NEW p \in Seq(Units), NEW u \in Units, Len(p) + 1 = NFrame
  PROVE  Fresh(<<>> \o Append(p, u), u.over)
<1>1. <<>> \o Append(p, u) = Append(p, u) /\ Append(p, u) \in Seq(Units) /\ Len(Append(p, u)) = NFrame
  BY AudioAssumption
<1> QED BY <1>1, AudioAssumption DEF Fresh

\* A write() for which there is room appends all of it.
LEMMA WriteFits ==
  ASSUME PlacesInv, NEW s \in Seq(Units), Len(s) <= NumFree
  PROVE  /\ output \o s \in Seq(Units) /\ Len(output \o s) <= OutCap
         /\ s # <<>> => s[Len(s)] \in Units
         /\ output \o <<>> = output
BY AudioAssumption DEF PlacesInv, NumFree

allFlags == <<mTx, run, deferReset, eooSent, gTx, endingTx, eooEnqueued, spoke, missed, lost>>

\* Every step keeps the flags Boolean.
LEMMA FlagsKept ==
  ASSUME FlagsOK, [Next]_vars
  PROVE  FlagsOK'
<1>0. UNCHANGED allFlags => FlagsOK'
  BY Zenon DEF FlagsOK, allFlags
<1>1. CASE Thread
  <2>1. CASE Ready \/ Begin \/ Exit \/ RxPass \/ RxRead
    BY <1>0, <2>1, Zenon DEF allFlags, Ready, Begin, Exit, RxPass, RxRead, inside, flags, ghosts
  <2>2. CASE TxEoo
    BY <2>2, Zenon DEF FlagsOK, TxEoo, Execute, Write, flags
  <2>6. CASE TxSpeech
    BY <2>6, Zenon DEF FlagsOK, TxSpeech, Execute, Write, flags
  <2>7. CASE RxDecode
    BY <2>7, Zenon DEF FlagsOK, RxDecode, Execute, Write, flags
  <2>3. CASE RxClear
    BY <2>3, Zenon DEF FlagsOK, RxClear, inside, flags
  <2>4. CASE TxPass
    BY <2>4, Zenon DEF FlagsOK, TxPass, flags, ghosts
  <2>5. CASE ResetPipeline \/ ResetOutput \/ TxRead \/ LoadEndingTx
    BY <1>0, <2>5, Zenon DEF allFlags, ResetPipeline, ResetOutput, TxRead, LoadEndingTx, inside, flags, ghosts
  <2> QED BY <1>1, <2>1, <2>2, <2>3, <2>4, <2>5, <2>6, <2>7, Zenon DEF Thread
<1>2. CASE Program
  <2>1. CASE Start \/ WaitForReady \/ SignalToStart \/ Join
    BY <1>0, <2>1 DEF allFlags, Start, WaitForReady, SignalToStart, Join, thread, inside, flags, ghosts
  <2>2. CASE Stop
    BY <2>2, Zenon DEF FlagsOK, Stop, inside, flags, ghosts
  <2>3. CASE Press
    BY <2>3, Zenon DEF FlagsOK, Press, thread, inside
  <2>4. CASE Release \/ Finish
    BY <2>4, Zenon DEF FlagsOK, Release, Finish, thread, inside, ghosts
  <2> QED BY <1>2, <2>1, <2>2, <2>3, <2>4, Zenon DEF Program
<1>3. CASE Deliver \/ Play \/ UNCHANGED vars
  BY <1>0, <1>3 DEF allFlags, Deliver, Play, vars, thread, inside, flags, ghosts
<1> QED BY <1>1, <1>2, <1>3, Zenon DEF Next

\* execute() keeps the block inside the pipeline, or a whole frame comes out and finds room.
LEMMA ExecuteFits ==
  ASSUME FlagsOK, PlacesInv, NEW b \in Units, NumFree >= NFrame, Execute(b)
  PROVE  /\ pend' \in Seq(Units) /\ Len(pend') < NFrame /\ lost' = lost
         /\ output' \in Seq(Units) /\ Len(output') <= OutCap /\ lastOut' \in Units
         /\ \/ pend' = Append(pend, b) /\ output' = output
            \/ Len(pend) + 1 = NFrame /\ pend' = <<>> /\ output' = output \o Append(pend, b)
<1>1. /\ pend \in Seq(Units) /\ Len(pend) < NFrame /\ output \in Seq(Units) /\ Len(output) <= OutCap
      /\ NFrame \in Nat /\ NumFree \in Int
  BY AudioAssumption DEF PlacesInv, NumFree
<1>2. Append(pend, b) \in Seq(Units) /\ Len(Append(pend, b)) = Len(pend) + 1
  BY <1>1
<1>3. CASE Len(pend) + 1 = NFrame
  <2>1. pend' = <<>> /\ Write(Append(pend, b))
    BY <1>2, <1>3, Zenon DEF Execute
  <2>2. /\ Len(Append(pend, b)) <= NumFree /\ ~(Len(Append(pend, b)) > NumFree)
        /\ Append(pend, b) # <<>>
    BY <1>1, <1>2, <1>3
  <2>3. output' = output \o Append(pend, b) /\ lastOut' = Append(pend, b)[Len(Append(pend, b))]
    BY <2>1, <2>2, Zenon DEF Write
  <2>4. lost' = lost
    BY <2>1, <2>2, Zenon DEF Write, FlagsOK
  <2>5. Append(pend, b)[Len(Append(pend, b))] = b
    BY <1>1, <1>2
  <2>6. output' \in Seq(Units) /\ Len(output') <= OutCap
    BY <1>2, <2>2, <2>3, WriteFits, Zenon
  <2> QED BY <1>1, <1>2, <1>3, <2>1, <2>3, <2>4, <2>5, <2>6
<1>4. CASE Len(pend) + 1 # NFrame
  <2>1. pend' = Append(pend, b) /\ Write(<<>>)
    BY <1>2, <1>4, Zenon DEF Execute
  <2>2. output' = output /\ lost' = lost /\ lastOut' \in Units
    BY <1>1, <2>1, WriteFits, AudioAssumption DEF Write, PlacesInv, FlagsOK
  <2> QED BY <1>1, <1>2, <1>4, <2>1, <2>2
<1> QED BY <1>3, <1>4

\* The first state is as the invariant says.
LEMMA AudioStarts == Init => AudioIInv
<1> SUFFICES ASSUME Init PROVE AudioIInv
  OBVIOUS
<1>1. NoBlock \in Units
  BY UnitsAre, AudioAssumption DEF NoBlock
<1>2. PlacesInv
  BY <1>1, AudioAssumption DEF Init, PlacesInv, TxPlaces, RxPlaces
<1>3. RoomInv
  BY DEF Init, RoomInv
<1>4. TxInv /\ EooInv
  BY DEF Init, TxInv, EooInv
<1>6. FlagsOK
  BY Zenon DEF Init, FlagsOK
<1>5. RxInv
  BY DEF Init, RxInv, OfOver, Fresh
<1> QED BY <1>2, <1>3, <1>4, <1>5, <1>6 DEF AudioIInv

\* The program's calls, but for the key that starts an over.
LEMMA CallsKeepAudio ==
  ASSUME AudioIInv, Start \/ WaitForReady \/ SignalToStart \/ Stop \/ Join \/ Release \/ Finish
  PROVE  AudioIInv'
<1>1. /\ UNCHANGED <<fifos, inside, ghosts, mTx>> /\ eooEnqueued' = eooEnqueued /\ (gTx' => gTx)
      /\ pc' = pc \/ (pc = "none" /\ pc' = "init")
  <2>1. UNCHANGED <<fifos, inside, ghosts, mTx>> /\ eooEnqueued' = eooEnqueued /\ (gTx' => gTx)
    BY DEF Start, WaitForReady, SignalToStart, Stop, Join, Release, Finish, thread, flags
  <2>2. pc' = pc \/ (app = "created" /\ pc' = "init")
    BY DEF Start, WaitForReady, SignalToStart, Stop, Join, Release, Finish, thread
  <2> QED BY <2>1, <2>2 DEF AudioIInv, PlacesInv
<1>2. PlacesInv'
  <2>1. UNCHANGED <<input, output, pend, block, lastOut, over, vocoder, mTx>>
    BY <1>1 DEF fifos, inside, ghosts
  <2>2. /\ ready' \in 0 .. 1 /\ start' \in 0 .. 1
        /\ app' = "created" => pc' = "none"
        /\ pc' \in {"none", "init"} => ready' = 0
        /\ app' \in {"created", "started", "ready"} => start' = 0
    <3>1. /\ ready \in 0 .. 1 /\ start \in 0 .. 1
          /\ app = "created" => pc = "none"
          /\ pc \in {"none", "init"} => ready = 0
          /\ app \in {"created", "started", "ready"} => start = 0
      BY DEF AudioIInv, PlacesInv
    <3>2. CASE Start
      BY <3>1, <3>2 DEF Start
    <3>3. CASE WaitForReady
      BY <3>1, <3>3 DEF WaitForReady
    <3>4. CASE SignalToStart
      BY <3>1, <3>4 DEF SignalToStart
    <3>5. CASE Stop \/ Join
      BY <3>1, <3>5 DEF Stop, Join, thread
    <3>6. CASE Release \/ Finish
      BY <3>1, <3>6 DEF Release, Finish, thread
    <3> QED BY <3>2, <3>3, <3>4, <3>5, <3>6
  <2>3. pc' \in IF mTx' THEN TxPlaces ELSE RxPlaces
    <3>1. "init" \in TxPlaces /\ "init" \in RxPlaces
      BY DEF TxPlaces, RxPlaces
    <3>2. mTx' = mTx /\ (pc' = pc \/ pc' = "init") /\ pc \in IF mTx THEN TxPlaces ELSE RxPlaces
      BY <1>1, Zenon DEF AudioIInv, PlacesInv
    <3> QED BY <3>1, <3>2, Zenon
  <2> QED BY <2>1, <2>2, <2>3 DEF AudioIInv, PlacesInv
<1>3. RoomInv'
  BY <1>1, Zenon DEF AudioIInv, RoomInv, NumFree, fifos, ghosts
<1>4. mTx' => TxInv' /\ EooInv'
  BY <1>1 DEF AudioIInv, TxInv, EooInv, fifos, inside, ghosts
<1>5. ~mTx' => RxInv'
  BY <1>1 DEF AudioIInv, RxInv, fifos, inside, ghosts
<1>6. FlagsOK'
  BY FlagsKept DEF AudioIInv, Next, Program
<1> QED BY <1>2, <1>3, <1>4, <1>5, <1>6 DEF AudioIInv

\* Keying the transmitter: a thread that did not see the pause has missed it.
LEMMA PressKeepsAudio ==
  ASSUME AudioIInv, Press
  PROVE  AudioIInv'
<1>1. /\ UNCHANGED <<thread, fifos, inside, app, fed, lastOut, lost>> /\ over' = over + 1
      /\ ~endingTx' /\ ~eooEnqueued' /\ gTx' /\ ~spoke' /\ missed' = ~deferReset /\ over < MaxOvers
  BY DEF Press
<1>2. PlacesInv'
  BY <1>1, AudioAssumption DEF AudioIInv, PlacesInv, thread, fifos, inside
<1>3. RoomInv'
  BY <1>1, Zenon DEF AudioIInv, RoomInv, NumFree, fifos, thread
<1>4. mTx' => TxInv' /\ EooInv'
  BY <1>1, Zenon DEF AudioIInv, TxInv, EooInv, thread, inside
<1>5. ~mTx' => RxInv'
  BY <1>1, Zenon DEF AudioIInv, RxInv, thread, inside
<1>6. FlagsOK'
  BY FlagsKept DEF AudioIInv, Next, Program
<1> QED BY <1>2, <1>3, <1>4, <1>5, <1>6 DEF AudioIInv

\* The sound cards deliver a block of the current over, or of none, and play the oldest.
LEMMA CardsKeepAudio ==
  ASSUME AudioIInv, Deliver \/ Play
  PROVE  AudioIInv'
<1>0. FlagsOK /\ PlacesInv /\ RoomInv
  BY DEF AudioIInv
<1>1. CASE Deliver
  <2> DEFINE k == IF mTx /\ ~gTx THEN 0 ELSE over
  <2>0. k \in 0 .. MaxOvers
    BY <1>0, AudioAssumption DEF PlacesInv
  <2>1. input' = input \/ (input' = Append(input, Unit(k, "speech")) /\ Len(input) < InCap)
    BY <1>1, Zenon DEF Deliver
  <2>2. /\ UNCHANGED <<thread, output, inside, app, flags, over, spoke, missed, lastOut, lost>>
        /\ Unit(k, "speech") \in Units /\ Unit(k, "speech").over = k
    BY <1>1, <2>0, UnitsAre DEF Deliver
  <2>k. (mTx /\ ~gTx) \/ k = over
    OBVIOUS
  <2> HIDE DEF k
  <2>3. input \in Seq(Units) /\ input' \in Seq(Units) /\ Len(input') <= InCap
    BY <1>0, <2>1, <2>2, AudioAssumption DEF PlacesInv
  <2>4. OfOver(input, over) /\ ~(mTx /\ ~gTx) => OfOver(input', over)
    <3> SUFFICES ASSUME OfOver(input, over), ~(mTx /\ ~gTx) PROVE OfOver(input', over)
      OBVIOUS
    <3>1. Unit(k, "speech") \in Units /\ Unit(k, "speech").over = over
      BY <2>k, <2>2
    <3>2. OfOver(Append(input, Unit(k, "speech")), over)
      BY <2>3, <3>1, OfOverKept
    <3> QED BY <2>1, <3>2, Zenon
  <2>5. PlacesInv'
    BY <1>0, <2>2, <2>3 DEF PlacesInv, thread, inside, flags
  <2>6. RoomInv'
    BY <1>0, <2>2, Zenon DEF RoomInv, NumFree, thread
  <2>7. mTx' => TxInv' /\ EooInv'
    BY <2>2, <2>4 DEF AudioIInv, TxInv, EooInv, thread, inside, flags
  <2>8. ~mTx' => RxInv'
    BY <2>2, <2>4 DEF AudioIInv, RxInv, thread, inside, flags
  <2>9. FlagsOK'
    BY FlagsKept, <1>0, <1>1 DEF Next
  <2> QED BY <2>5, <2>6, <2>7, <2>8, <2>9 DEF AudioIInv
<1>2. CASE Play
  <2>1. /\ UNCHANGED <<thread, input, inside, app, flags, ghosts>>
        /\ output # <<>> /\ output' = Tail(output) /\ output \in Seq(Units)
    BY <1>0, <1>2 DEF Play, PlacesInv
  <2>2. output' \in Seq(Units) /\ Len(output') = Len(output) - 1 /\ Len(output) \in Nat
    BY <2>1
  <2>3. /\ OfOver(output, over) => OfOver(output', over)
        /\ Fresh(output, over) => Fresh(output', over)
    BY <2>1, OfOverKept, FreshKept
  <2>5. PlacesInv'
    BY <1>0, <2>1, <2>2, AudioAssumption DEF PlacesInv, thread, inside, flags, ghosts
  <2>6. RoomInv'
    BY <1>0, <2>1, <2>2, AudioAssumption DEF RoomInv, NumFree, RoomNeeded, thread, ghosts
  <2>7. mTx' => TxInv' /\ EooInv'
    BY <2>1, <2>3 DEF AudioIInv, TxInv, EooInv, thread, inside, flags, ghosts
  <2>8. ~mTx' => RxInv'
    BY <2>1, <2>3 DEF AudioIInv, RxInv, thread, inside, flags, ghosts
  <2>9. FlagsOK'
    BY FlagsKept, <1>0, <1>2 DEF Next
  <2> QED BY <2>5, <2>6, <2>7, <2>8, <2>9 DEF AudioIInv
<1> QED BY <1>1, <1>2

\* The thread's steps that read or write no block.
LEMMA PassesKeepAudio ==
  ASSUME AudioIInv, Ready \/ Begin \/ Exit \/ TxPass \/ ResetPipeline \/ ResetOutput \/ LoadEndingTx \/ RxPass \/ RxClear
  PROVE  AudioIInv'
<1>0. FlagsOK /\ PlacesInv /\ RoomInv /\ (mTx => TxInv /\ EooInv) /\ (~mTx => RxInv)
  BY DEF AudioIInv
<1>1. /\ UNCHANGED <<mTx, eooSent, app, flags, over, fed, spoke, lastOut, lost, block, run>>
      /\ input' \in {input, <<>>} /\ output' \in {output, <<>>}
      /\ pend' \in {pend, <<>>} /\ vocoder' \in {vocoder, <<>>}
  BY Zenon DEF Ready, Begin, Exit, TxPass, ResetPipeline, ResetOutput, LoadEndingTx, RxPass, RxClear, fifos, inside, ghosts
<1>2. PlacesInv'
  <2>1. /\ input' \in Seq(Units) /\ Len(input') <= InCap /\ output' \in Seq(Units) /\ Len(output') <= OutCap
        /\ pend' \in Seq(Units) /\ Len(pend') < NFrame /\ vocoder' = <<>>
    <3>1. <<>> \in Seq(Units) /\ Len(<<>>) <= InCap /\ Len(<<>>) <= OutCap /\ Len(<<>>) < NFrame
      BY AudioAssumption
    <3> QED BY <1>0, <1>1, <3>1, Zenon DEF PlacesInv
  <2>2. /\ ready' \in 0 .. 1 /\ start' \in 0 .. 1 /\ (pc' \in {"none", "init"} => ready' = 0)
        /\ app' = "created" => pc' = "none"
        /\ app' \in {"created", "started", "ready"} => start' = 0
    <3>1. pc # "none" /\ pc' \notin {"none", "init"} /\ app' = app
      BY <1>1 DEF Ready, Begin, Exit, TxPass, ResetPipeline, ResetOutput, LoadEndingTx, RxPass, RxClear
    <3>2. CASE Ready
      BY <1>0, <3>1, <3>2 DEF PlacesInv, Ready
    <3>3. CASE Begin
      BY <1>0, <3>1, <3>3 DEF PlacesInv, Begin
    <3>4. CASE Exit \/ TxPass \/ ResetPipeline \/ ResetOutput \/ LoadEndingTx \/ RxPass \/ RxClear
      <4>1. UNCHANGED <<ready, start>>
        BY <3>4, Zenon DEF Exit, TxPass, ResetPipeline, ResetOutput, LoadEndingTx, RxPass, RxClear
      <4> QED BY <1>0, <3>1, <4>1 DEF PlacesInv
    <3> QED BY <3>2, <3>3, <3>4
  <2>3. pc' \in IF mTx' THEN TxPlaces ELSE RxPlaces
    BY <1>0, <1>1, Zenon DEF PlacesInv, TxPlaces, RxPlaces, Ready, Begin, Exit, TxPass, ResetPipeline, ResetOutput,
       LoadEndingTx, RxPass, RxClear
  <2> QED BY <1>0, <1>1, <2>1, <2>2, <2>3 DEF PlacesInv
<1>3. RoomInv'
  BY <1>0, <1>1, Zenon DEF RoomInv, NumFree, Ready, Begin, Exit, TxPass, ResetPipeline, ResetOutput, LoadEndingTx, RxPass,
     RxClear, fifos
<1>4. ASSUME mTx PROVE TxInv' /\ EooInv'
  <2>1. EooInv'
    BY <1>0, <1>1, <1>4 DEF EooInv, flags
  <2>2. TxInv'
    <3>1. OfOver(<<>>, over)
      BY DEF OfOver
    <3>2. CASE TxPass
      BY <1>0, <1>4, <3>2, Zenon DEF TxInv, TxPass, fifos, flags, ghosts
    <3>3. CASE ResetPipeline
      <4>1. /\ input' = <<>> /\ pend' = <<>> /\ pc' = "resetOutput" /\ pc = "reset"
            /\ UNCHANGED <<gTx, deferReset, missed, over>>
        BY <3>3 DEF ResetPipeline, flags, ghosts
      <4> QED BY <1>0, <1>4, <3>1, <4>1 DEF TxInv
    <3>4. CASE ResetOutput
      <4>1. /\ output' = <<>> /\ pc' = "loop" /\ pc = "resetOutput"
            /\ UNCHANGED <<input, pend, gTx, deferReset, missed, over>>
        BY <1>4, <3>4 DEF ResetOutput, inside, flags, ghosts
      <4> QED BY <1>0, <1>4, <3>1, <4>1 DEF TxInv
    <3>5. CASE LoadEndingTx
      <4>1. /\ pc' \in {"eoo", "speech"} /\ pc = "ending"
            /\ UNCHANGED <<input, output, pend, block, gTx, deferReset, missed, over>>
        BY <3>5 DEF LoadEndingTx, fifos, inside, flags, ghosts
      <4> QED BY <1>0, <1>4, <3>1, <4>1 DEF TxInv
    <3>6. CASE Ready \/ Begin \/ Exit
      <4>1. /\ input' \in {input, <<>>} /\ output' \in {output, <<>>} /\ pend' \in {pend, <<>>}
            /\ pc' \in {"start", "pass", "done"} /\ pc \in {"init", "start", "pass"}
            /\ pc = "pass" => pc' = "done"
            /\ UNCHANGED <<gTx, deferReset, missed, over>>
        BY <3>6 DEF Ready, Begin, Exit, fifos, inside, flags, ghosts
      <4> QED BY <1>0, <1>4, <3>1, <4>1 DEF TxInv
    <3>7. CASE RxPass \/ RxClear
      BY <1>0, <1>4, <3>7 DEF PlacesInv, TxPlaces, RxPass, RxClear
    <3> QED BY <3>2, <3>3, <3>4, <3>5, <3>6, <3>7
  <2> QED BY <2>1, <2>2
<1>5. ASSUME ~mTx PROVE RxInv'
  <2>1. OfOver(<<>>, over) /\ Fresh(<<>>, over)
    BY DEF OfOver, Fresh
  <2>2. CASE RxPass
    <3>1. /\ pc = "pass" /\ pc' \in {"clear", "loop"}
          /\ UNCHANGED <<input, output, pend, block, deferReset, missed, over>>
      BY <2>2 DEF RxPass, fifos, inside, ghosts
    <3> QED BY <1>0, <1>5, <3>1 DEF RxInv
  <2>6. CASE RxClear
    <3>1. /\ input' = <<>> /\ pc' = "resetOutput" /\ UNCHANGED <<deferReset, over>>
      BY <2>6 DEF RxClear, inside
    <3> QED BY <1>0, <1>5, <2>1, <3>1 DEF RxInv
  <2>3. CASE ResetOutput
    BY <1>0, <1>5, <2>1, <2>3 DEF RxInv, ResetOutput, inside, flags, ghosts
  <2>4. CASE Ready \/ Begin \/ Exit
    <3>1. /\ input' \in {input, <<>>} /\ output' \in {output, <<>>} /\ pend' \in {pend, <<>>}
          /\ pc \in {"init", "start", "pass"} /\ pc' \in {"start", "pass", "done"}
          /\ UNCHANGED <<deferReset, missed, over>>
      BY <2>4, Zenon DEF Ready, Begin, Exit, fifos, inside, ghosts
    <3> QED BY <1>0, <1>5, <2>1, <3>1 DEF RxInv
  <2>5. CASE TxPass \/ ResetPipeline \/ LoadEndingTx
    BY <1>0, <1>5, <2>5 DEF PlacesInv, RxPlaces, TxPass, ResetPipeline, LoadEndingTx
  <2> QED BY <2>2, <2>3, <2>4, <2>5, <2>6
<1>6. FlagsOK'
  BY <1>0, FlagsKept DEF Next, Thread
<1>7. mTx' = mTx
  BY <1>1
<1> QED BY <1>2, <1>3, <1>4, <1>5, <1>6, <1>7 DEF AudioIInv

\* The loop's condition and the read() that follows it.
LEMMA ReadsKeepAudio ==
  ASSUME AudioIInv, TxRead \/ RxRead
  PROVE  AudioIInv'
<1>0. FlagsOK /\ PlacesInv /\ RoomInv /\ (mTx => TxInv /\ EooInv) /\ (~mTx => RxInv)
  BY DEF AudioIInv
<1>1. /\ UNCHANGED <<mTx, run, ready, start, output, pend, vocoder, deferReset, eooSent, app, flags, ghosts>>
      /\ pc = "loop"
      /\ \/ pc' = "pass" /\ UNCHANGED <<block, input>>
         \/ /\ pc' = IF mTx THEN "ending" ELSE "decode"
            /\ IF mTx THEN NumFree >= RoomNeeded(TRUE) ELSE NumFree >= RoomNeeded(FALSE)
            /\ \/ input # <<>> /\ block' = Head(input) /\ input' = Tail(input)
               \/ mTx /\ input = <<>> /\ block' = NoBlock /\ input' = input
  <2>1. CASE TxRead
    BY <2>1, Zenon DEF TxRead
  <2>2. CASE RxRead
    BY <2>2, Zenon DEF RxRead
  <2> QED BY <2>1, <2>2, Zenon
<1>2. NoBlock \in Units
  BY UnitsAre, AudioAssumption DEF NoBlock
<1>3. input' \in Seq(Units) /\ Len(input') <= InCap /\ block' \in Units
  <2>1. input # <<>> => /\ Head(input) \in Units /\ Tail(input) \in Seq(Units)
                        /\ Len(Tail(input)) <= InCap
    BY <1>0, AudioAssumption DEF PlacesInv
  <2> QED BY <1>0, <1>1, <1>2, <2>1, Zenon DEF PlacesInv
<1>4. PlacesInv'
  <2>1. pc' \in IF mTx' THEN TxPlaces ELSE RxPlaces
    BY <1>1, Zenon DEF TxPlaces, RxPlaces
  <2>2. pc' \notin {"none", "init"} /\ app' # "created"
    BY <1>0, <1>1, Zenon DEF PlacesInv
  <2> QED BY <1>0, <1>1, <1>3, <2>1, <2>2 DEF PlacesInv, ghosts
<1>5. RoomInv'
  BY <1>0, <1>1 DEF RoomInv, NumFree, RoomNeeded, ghosts
<1>6. OfOver(input, over) => /\ OfOver(input', over)
                             /\ pc' # "pass" => block'.over = over \/ (mTx /\ block' = NoBlock)
  <2>1. input \in Seq(Units)
    BY <1>0 DEF PlacesInv
  <2>2. OfOver(input, over) /\ input # <<>> => OfOver(Tail(input), over) /\ Head(input).over = over
    BY <2>1, OfOverKept
  <2> QED BY <1>1, <2>2, Zenon
<1>7. ASSUME mTx PROVE TxInv' /\ EooInv'
  BY <1>0, <1>1, <1>6, <1>7 DEF TxInv, EooInv, flags, ghosts
<1>8. ASSUME ~mTx PROVE RxInv'
  BY <1>0, <1>1, <1>6, <1>8 DEF RxInv, flags, ghosts
<1>9. FlagsOK'
  BY <1>0, FlagsKept DEF Next, Thread
<1>10. mTx' = mTx
  BY <1>1
<1> QED BY <1>4, <1>5, <1>7, <1>8, <1>9, <1>10 DEF AudioIInv

\* The blocks restartVocoder() queues.
LEMMA EooBlocks ==
  ASSUME NEW k \in 0 .. MaxOvers
  PROVE  LET e == <<>> \o [i \in 1 .. EooLen |-> Unit(k, "eoo")]
         IN  e \in Seq(Units) /\ Len(e) = EooLen /\ e # <<>> /\ e[Len(e)] = Unit(k, "eoo") /\ OfOver(e, k)
<1> DEFINE e == [i \in 1 .. EooLen |-> Unit(k, "eoo")]
<1>1. Unit(k, "eoo") \in Units /\ Unit(k, "eoo").over = k /\ EooLen \in Nat /\ EooLen > 0
  BY UnitsAre, AudioAssumption
<1>2. e \in Seq(Units) /\ Len(e) = EooLen
  BY <1>1
<1>3. \A i \in 1 .. EooLen : e[i] = Unit(k, "eoo")
  OBVIOUS
<1> HIDE DEF e
<1>4. <<>> \o e = e
  BY <1>2
<1>5. e # <<>> /\ e[Len(e)] = Unit(k, "eoo") /\ OfOver(e, k)
  BY <1>1, <1>2, <1>3 DEF OfOver
<1> QED BY <1>2, <1>4, <1>5, Zenon DEF e

\* The end of the over: it is written, or there was nothing left to write.
LEMMA EooKeepsAudio ==
  ASSUME AudioIInv, TxEoo
  PROVE  AudioIInv'
<1>0. FlagsOK /\ PlacesInv /\ RoomInv /\ mTx /\ TxInv /\ EooInv
  <2>1. pc = "eoo" /\ "eoo" \notin RxPlaces
    BY DEF TxEoo, RxPlaces
  <2> QED BY <2>1, Zenon DEF AudioIInv, PlacesInv
<1> DEFINE e == <<>> \o [i \in 1 .. EooLen |-> Unit(over, "eoo")]
           out == IF eooSent THEN <<>> ELSE e
<1>1. /\ UNCHANGED <<mTx, run, ready, start, input, pend, block, deferReset, app, gTx, endingTx,
                     over, fed, spoke, missed>>
      /\ pc = "eoo" /\ pc' = "pass" /\ eooSent' /\ vocoder' = <<>> /\ Write(out)
  <2>1. vocoder = <<>>
    BY <1>0 DEF PlacesInv
  <2> QED BY <2>1, Zenon DEF TxEoo
<1>2. /\ e \in Seq(Units) /\ Len(e) = EooLen /\ e # <<>> /\ e[Len(e)] = Unit(over, "eoo")
      /\ OfOver(e, over) /\ Unit(over, "eoo") \in Units
  BY <1>0, EooBlocks, UnitsAre, Zenon DEF PlacesInv
<1> HIDE DEF e
<1>3. /\ NumFree \in Int /\ EooLen \in Nat /\ NumFree >= EooLen /\ output \in Seq(Units)
      /\ Len(output) <= OutCap /\ lastOut \in Units
  BY <1>0, <1>1, AudioAssumption DEF RoomInv, RoomNeeded, NumFree, PlacesInv
<1>4. /\ output' \in Seq(Units) /\ Len(output') <= OutCap /\ lastOut' \in Units /\ ~lost'
      /\ output' = IF eooSent THEN output ELSE output \o e
      /\ lastOut' = IF eooSent THEN lastOut ELSE Unit(over, "eoo")
  <2>1. CASE eooSent
    <3>1. Write(<<>>) /\ Len(<<>>) <= NumFree /\ ~(Len(<<>>) > NumFree) /\ output \o <<>> = output
      BY <1>1, <1>3, <2>1
    <3>2. output' = output /\ lastOut' = lastOut /\ ~lost'
      BY <1>0, <3>1, Zenon DEF Write, RoomInv
    <3> QED BY <1>3, <2>1, <3>2, Zenon
  <2>2. CASE ~eooSent
    <3>1. Write(e) /\ Len(e) <= NumFree /\ ~(Len(e) > NumFree)
      BY <1>1, <1>2, <1>3, <2>2
    <3>2. output' = output \o e /\ lastOut' = Unit(over, "eoo") /\ ~lost'
      BY <1>0, <1>2, <3>1, Zenon DEF Write, RoomInv
    <3>3. output \o e \in Seq(Units) /\ Len(output \o e) <= OutCap
      BY <1>0, <1>2, <3>1, WriteFits
    <3> QED BY <1>2, <2>2, <3>2, <3>3, Zenon
  <2> QED BY <2>1, <2>2
<1>5. PlacesInv'
  <2>1. pc' \in TxPlaces /\ pc' \notin {"none", "init"} /\ app # "created"
    BY <1>0, <1>1 DEF PlacesInv, TxPlaces
  <2> QED BY <1>0, <1>1, <1>4, <2>1 DEF PlacesInv
<1>6. RoomInv'
  BY <1>1, <1>4 DEF RoomInv
<1>7. EooInv'
  BY <1>0, <1>1, <1>4 DEF EooInv
<1>8. OfOver(output, over) => OfOver(output', over)
  <2>1. OfOver(output, over) => OfOver(output \o e, over)
    BY <1>2, <1>3, OfOverKept
  <2> QED BY <1>4, <2>1
<1>9. TxInv'
  BY <1>0, <1>1, <1>8 DEF TxInv
<1>10. FlagsOK'
  BY <1>0, FlagsKept DEF Next, Thread
<1> QED BY <1>0, <1>1, <1>5, <1>6, <1>7, <1>9, <1>10 DEF AudioIInv

\* A block that goes through the pipeline.
LEMMA BlocksKeepAudio ==
  ASSUME AudioIInv, TxSpeech \/ RxDecode
  PROVE  AudioIInv'
<1>0. FlagsOK /\ PlacesInv /\ RoomInv /\ (mTx => TxInv /\ EooInv) /\ (~mTx => RxInv)
  BY DEF AudioIInv
<1> DEFINE b == IF mTx /\ block = NoBlock THEN Unit(over, "silence") ELSE block
<1>1. /\ UNCHANGED <<mTx, run, ready, start, input, vocoder, block, deferReset, app, gTx, endingTx,
                     over, fed, missed>>
      /\ IF mTx THEN pc = "speech" /\ pc' = "loop" /\ ~eooEnqueued' /\ ~eooSent'
                ELSE pc = "decode" /\ pc' \in {"pass", "loop"}
      /\ Execute(b)
  <2>1. CASE TxSpeech
    <3>1. mTx
      <4>1. pc = "speech" /\ "speech" \notin RxPlaces
        BY <2>1 DEF TxSpeech, RxPlaces
      <4> QED BY <1>0, <4>1, Zenon DEF PlacesInv
    <3> QED BY <2>1, <3>1, Zenon DEF TxSpeech
  <2>2. CASE RxDecode
    <3>1. ~mTx
      <4>1. pc = "decode" /\ "decode" \notin TxPlaces
        BY <2>2 DEF RxDecode, TxPlaces
      <4> QED BY <1>0, <4>1, Zenon DEF PlacesInv
    <3> QED BY <2>2, <3>1, Zenon DEF RxDecode, flags
  <2> QED BY <2>1, <2>2
<1>2. b \in Units /\ (block = NoBlock /\ mTx => b.over = over) /\ (~(block = NoBlock /\ mTx) => b = block)
  BY <1>0, UnitsAre DEF PlacesInv
<1> HIDE DEF b
<1>3. NumFree >= NFrame
  <2>1. NumFree \in Int /\ NFrame \in Nat /\ EooLen \in Nat
    BY <1>0, AudioAssumption DEF NumFree, PlacesInv
  <2>2. NumFree >= RoomNeeded(TRUE) \/ NumFree >= RoomNeeded(FALSE)
    BY <1>0, <1>1, Zenon DEF RoomInv
  <2> QED BY <2>1, <2>2 DEF RoomNeeded
<1>4. /\ pend' \in Seq(Units) /\ Len(pend') < NFrame /\ lost' = lost
      /\ output' \in Seq(Units) /\ Len(output') <= OutCap /\ lastOut' \in Units
      /\ \/ pend' = Append(pend, b) /\ output' = output
         \/ Len(pend) + 1 = NFrame /\ pend' = <<>> /\ output' = output \o Append(pend, b)
  BY <1>0, <1>1, <1>2, <1>3, ExecuteFits, Zenon
<1>5. PlacesInv'
  <2>1. (pc' \in IF mTx' THEN TxPlaces ELSE RxPlaces) /\ pc' \notin {"none", "init"} /\ app # "created"
    BY <1>0, <1>1 DEF PlacesInv, TxPlaces, RxPlaces
  <2> QED BY <1>0, <1>1, <1>4, <2>1 DEF PlacesInv
<1>6. RoomInv'
  BY <1>0, <1>1, <1>4, Zenon DEF RoomInv
<1>7. pend \in Seq(Units) /\ output \in Seq(Units) /\ <<>> \in Seq(Units) /\ OfOver(<<>>, over)
  BY <1>0 DEF PlacesInv, OfOver
<1>8. OfOver(pend, over) /\ b.over = over => OfOver(pend', over) /\ OfOver(Append(pend, b), over)
  <2> SUFFICES ASSUME OfOver(pend, over), b.over = over PROVE OfOver(pend', over) /\ OfOver(Append(pend, b), over)
    OBVIOUS
  <2>1. OfOver(Append(pend, b), over)
    BY <1>2, <1>7, OfOverKept
  <2> QED BY <1>4, <1>7, <2>1, Zenon
<1>9. ASSUME mTx PROVE TxInv' /\ EooInv'
  <2>1. EooInv'
    BY <1>1, <1>9 DEF EooInv
  <2>2. ASSUME gTx', ~missed', ~deferReset'
        PROVE  OfOver(input', over') /\ OfOver(pend', over') /\ OfOver(output', over')
    <3>1. OfOver(input, over) /\ OfOver(pend, over) /\ OfOver(output, over) /\ b.over = over
      BY <1>0, <1>1, <1>2, <1>9, <2>2 DEF TxInv
    <3>2. Append(pend, b) \in Seq(Units)
      BY <1>2, <1>7
    <3>3. OfOver(output \o Append(pend, b), over)
      BY <1>7, <1>8, <3>1, <3>2, OfOverKept, Zenon
    <3>4. OfOver(output', over) /\ OfOver(pend', over)
      BY <1>4, <1>8, <3>1, <3>3, Zenon
    <3> QED BY <1>1, <3>1, <3>4, Zenon
  <2>3. pc' = "loop" /\ (deferReset' => deferReset) /\ pc = "speech"
    BY <1>1, <1>9
  <2> QED BY <1>0, <1>9, <2>1, <2>2, <2>3 DEF TxInv
<1>10. ASSUME ~mTx PROVE RxInv'
  <2>1. ASSUME ~missed'
        PROVE  OfOver(input', over') /\ Fresh(output', over') /\ (output' # <<>> => OfOver(pend', over'))
    <3>1. OfOver(input, over) /\ Fresh(output, over) /\ b.over = over /\ (output # <<>> => OfOver(pend, over))
      BY <1>0, <1>1, <1>2, <1>10, <2>1 DEF RxInv
    <3>2. CASE pend' = Append(pend, b) /\ output' = output
      BY <1>1, <1>8, <3>1, <3>2
    <3>3. CASE Len(pend) + 1 = NFrame /\ pend' = <<>> /\ output' = output \o Append(pend, b)
      <4>1. Append(pend, b) \in Seq(Units)
        BY <1>2, <1>7
      <4>2. CASE output = <<>>
        BY <1>1, <1>2, <1>7, <3>1, <3>3, <4>2, FirstFrame
      <4>3. CASE output # <<>>
        <5>1. OfOver(Append(pend, b), over)
          BY <1>8, <3>1, <4>3
        <5>2. Fresh(output \o Append(pend, b), over)
          BY <1>7, <3>1, <4>1, <5>1, FreshKept, Zenon
        <5> QED BY <1>1, <1>7, <3>1, <3>3, <5>2
      <4> QED BY <4>2, <4>3
    <3> QED BY <1>4, <3>2, <3>3
  <2>2. pc' \in {"pass", "loop"} /\ ~deferReset'
    BY <1>0, <1>1, <1>10 DEF RxInv
  <2> QED BY <2>1, <2>2 DEF RxInv
<1>11. FlagsOK'
  BY <1>0, FlagsKept DEF Next, Thread
<1>12. mTx' = mTx
  BY <1>1
<1> QED BY <1>5, <1>6, <1>9, <1>10, <1>11, <1>12 DEF AudioIInv

\* Every step keeps the invariant.
LEMMA AudioInductive ==
  ASSUME AudioIInv, [Next]_vars
  PROVE  AudioIInv'
<1>1. CASE UNCHANGED vars
  <2>1. FlagsOK'
    BY FlagsKept DEF AudioIInv
  <2>2. UNCHANGED <<mTx, pc, ready, start, input, output, pend, vocoder, block, deferReset, eooSent, app,
                    gTx, eooEnqueued, over, spoke, missed, lastOut, lost>>
    BY <1>1 DEF vars, thread, fifos, inside, flags, ghosts
  <2>3. PlacesInv'
    BY <2>2 DEF AudioIInv, PlacesInv
  <2>4. RoomInv' /\ (mTx' => TxInv' /\ EooInv') /\ (~mTx' => RxInv')
    BY <2>2, Zenon DEF AudioIInv, RoomInv, NumFree, TxInv, EooInv, RxInv
  <2> QED BY <2>1, <2>3, <2>4 DEF AudioIInv
<1>2. CASE Thread
  BY <1>2, PassesKeepAudio, ReadsKeepAudio, EooKeepsAudio, BlocksKeepAudio DEF Thread
<1>3. CASE Program
  BY <1>3, CallsKeepAudio, PressKeepsAudio DEF Program
<1> QED BY <1>1, <1>2, <1>3, CardsKeepAudio DEF Next

\* The invariant says that no block is lost, that overs start clean and that they end with the
\* end-of-over.
LEMMA AudioIsSafeThen == AudioIInv => OutputNeverLost /\ OversStartClean /\ OverEndsWithEoo
<1> SUFFICES ASSUME AudioIInv PROVE OutputNeverLost /\ OversStartClean /\ OverEndsWithEoo
  OBVIOUS
<1>1. OutputNeverLost
  BY DEF AudioIInv, PlacesInv, RoomInv, OutputNeverLost, AudioTypeOK
<1>2. OverEndsWithEoo
  BY DEF AudioIInv, EooInv, OverEndsWithEoo
<1>3. OversStartClean
  <2>1. ASSUME mTx, gTx, ~missed, ~deferReset, pc \notin {"reset", "resetOutput"}
        PROVE  /\ \A s \in {input, output, pend, vocoder} : \A i \in 1 .. Len(s) : s[i].over = over
               /\ pc \in {"ending", "speech"} => block.over = over \/ block = NoBlock
    <3>1. OfOver(input, over) /\ OfOver(output, over) /\ OfOver(pend, over) /\ OfOver(vocoder, over)
      <4>1. vocoder = <<>> /\ OfOver(<<>>, over)
        BY DEF AudioIInv, PlacesInv, OfOver
      <4> QED BY <2>1, <4>1 DEF AudioIInv, TxInv
    <3>2. pc \in {"ending", "speech"} => block.over = over \/ block = NoBlock
      BY <2>1 DEF AudioIInv, TxInv
    <3> QED BY <3>1, <3>2 DEF OfOver
  <2>2. ASSUME ~mTx, ~missed, pc # "resetOutput"
        PROVE  /\ output # <<>> => output[Len(output)].over = over
               /\ \A i \in 1 .. Len(output) : output[i].over < over => i < NFrame
    <3>1. Fresh(output, over) /\ output \in Seq(Units) /\ over \in 0 .. MaxOvers
      BY <2>2 DEF AudioIInv, RxInv, PlacesInv
    <3>2. \A i \in 1 .. Len(output) : output[i].over \in 0 .. MaxOvers
      <4>1. \A u \in Units : u.over \in 0 .. MaxOvers
        BY DEF Units
      <4>2. \A i \in 1 .. Len(output) : output[i] \in Units
        BY <3>1
      <4> QED BY <4>1, <4>2
    <3> QED BY <3>1, <3>2, AudioAssumption DEF Fresh
  <2> QED BY <2>1, <2>2 DEF OversStartClean
<1> QED BY <1>1, <1>2, <1>3

\* No block a pipeline produces is lost for want of room in the output FIFO, whatever the sound
\* card does meanwhile, for any capacities and lengths of a modem frame and of the end of an over.
THEOREM AudioNotLost == Spec => []OutputNeverLost
<1>1. Init => AudioIInv
  BY AudioStarts
<1>2. AudioIInv /\ [Next]_vars => AudioIInv'
  BY AudioInductive
<1>3. AudioIInv => OutputNeverLost
  BY AudioIsSafeThen
<1> QED BY <1>1, <1>2, <1>3, PTL DEF Spec

\* Once a thread has made its reset for an over, nothing of an earlier one is left that could go
\* on the air, or to the loudspeaker but for the part of a frame the pipeline still held.
THEOREM AudioStartsClean == Spec => []OversStartClean
<1>1. Init => AudioIInv
  BY AudioStarts
<1>2. AudioIInv /\ [Next]_vars => AudioIInv'
  BY AudioInductive
<1>3. AudioIInv => OversStartClean
  BY AudioIsSafeThen
<1> QED BY <1>1, <1>2, <1>3, PTL DEF Spec

\* When g_eoo_enqueued is set, the end of the over is the last thing queued for the radio.
THEOREM AudioEndsWithEoo == Spec => []OverEndsWithEoo
<1>1. Init => AudioIInv
  BY AudioStarts
<1>2. AudioIInv /\ [Next]_vars => AudioIInv'
  BY AudioInductive
<1>3. AudioIInv => OverEndsWithEoo
  BY AudioIsSafeThen
<1> QED BY <1>1, <1>2, <1>3, PTL DEF Spec

-------------------------------------------------------------------------------
(* TapStep: the samples of a queue of numbered ones, and the counters of drops. *)

\* Where the two threads are, and what they have.
TapTypeOK ==
    /\ fifo \in Seq(Nat) /\ accepted \in Seq(Nat) /\ sem \in 0 .. SemMax
    /\ ending \in BOOLEAN /\ said \in BOOLEAN
    /\ unreportedDrops \in Nat /\ drops \in Nat /\ left \in Nat /\ dropped \in Nat
    /\ next \in Nat /\ seen \in Nat /\ allDropped \in Nat
    /\ caller \in {"idle", "write", "addSamples", "addDrops", "signal", "join", "destroyed"}
    /\ tap \in {"check", "process", "lastProcess", "drops", "lastDrops", "samples", "lastSamples",
                "wait", "done"}

\* f holds what of a comes after its first k samples; and the samples of a are in order, below m.
Unseen(f, a, k) == k + Len(f) = Len(a) /\ \A i \in 1 .. Len(f) : f[i] = a[k + i]
Numbered(a, m) ==
    /\ \A i \in 1 .. Len(a) : a[i] < m
    /\ \A i \in 2 .. Len(a) : a[i - 1] < a[i]

\* The FIFO holds what was accepted and not yet seen, and every sample is accounted for.
TapQueueInv ==
    /\ Len(fifo) <= TapCap /\ Unseen(fifo, accepted, seen) /\ Numbered(accepted, next)
    /\ Len(accepted) + allDropped + (IF caller \in {"write", "addSamples"} THEN dropped ELSE 0) = next - 1

\* Who is past what.
TapEndInv ==
    /\ ending <=> caller \in {"signal", "join", "destroyed"}
    /\ tap \in {"lastProcess", "lastDrops", "lastSamples", "done"} => ending
    /\ tap \in {"lastDrops", "lastSamples", "done"} => Len(fifo) < Block
    /\ caller = "destroyed" => tap = "done"

\* Dropped samples that nobody has heard of are on their way to the tap thread.
TapSaidInv ==
    /\ allDropped > 0 /\ ~said =>
           \/ unreportedDrops > 0 \/ caller = "addDrops"
           \/ tap \in {"samples", "lastSamples"} /\ drops > 0
    /\ tap \in {"lastSamples", "done"} => unreportedDrops = 0

TapIInv == TapTypeOK /\ TapQueueInv /\ TapEndInv /\ TapSaidInv

\* The first state is as the invariant says.
LEMMA TapStarts == TapInit => TapIInv
<1> SUFFICES ASSUME TapInit PROVE TapIInv
  OBVIOUS
<1>1. Unseen(<<>>, <<>>, 0) /\ Numbered(<<>>, 1)
  BY DEF Unseen, Numbered
<1>2. TapTypeOK
  <2>1. fifo \in Seq(Nat) /\ accepted \in Seq(Nat)
    BY DEF TapInit
  <2>2. sem \in 0 .. SemMax
    BY TapAssumption DEF TapInit
  <2>3. ending \in BOOLEAN /\ said \in BOOLEAN
    BY Zenon DEF TapInit
  <2>4. /\ unreportedDrops \in Nat /\ drops \in Nat /\ left \in Nat /\ dropped \in Nat
        /\ next \in Nat /\ seen \in Nat /\ allDropped \in Nat
    BY DEF TapInit
  <2> QED BY <2>1, <2>2, <2>3, <2>4 DEF TapInit, TapTypeOK
<1>4. TapQueueInv
  BY <1>1, TapAssumption DEF TapInit, TapQueueInv
<1>3. TapEndInv /\ TapSaidInv
  BY DEF TapInit, TapEndInv, TapSaidInv
<1> QED BY <1>2, <1>3, <1>4 DEF TapIInv

\* The numbers of a queue of x out of y samples, of which k were seen, when n are read.
LEMMA ReadSums ==
  ASSUME NEW k \in Nat, NEW n \in Nat, NEW x \in Nat, NEW y \in Nat, k + x = y
  PROVE  (k + n) + (x - n) = y /\ k + (x + n) = y + n
OBVIOUS

\* The samples accepted and dropped, when n more are accepted or dropped.
LEMMA WriteSums ==
  ASSUME NEW x \in Nat, NEW y \in Nat, NEW d \in Nat, NEW m \in Nat, NEW n \in Nat, x + y + d = m - 1
  PROVE  (x + n) + y + d = (m + n) - 1 /\ x + y + (d + n) = (m + n) - 1
OBVIOUS

\* What a sequence holds once another is appended to it.
LEMMA Appended ==
  ASSUME NEW s \in Seq(Nat), NEW p \in Seq(Nat)
  PROVE  /\ s \o p \in Seq(Nat) /\ Len(s) \in Nat /\ Len(s \o p) = Len(s) + Len(p)
         /\ \A i \in 1 .. Len(s) : (s \o p)[i] = s[i]
         /\ \A i \in 1 .. Len(p) : (s \o p)[Len(s) + i] = p[i]
<1>1. Len(s) \in Nat /\ Len(p) \in Nat
  BY LenProperties
<1>2. s \o p \in Seq(Nat) /\ Len(s \o p) = Len(s) + Len(p)
  BY ConcatProperties
<1>3. \A i \in 1 .. Len(s) + Len(p) : (s \o p)[i] = IF i <= Len(s) THEN s[i] ELSE p[i - Len(s)]
  BY ConcatProperties
<1>4. ASSUME NEW i \in 1 .. Len(s) PROVE (s \o p)[i] = s[i]
  BY <1>1, <1>3
<1>5. ASSUME NEW i \in 1 .. Len(p) PROVE (s \o p)[Len(s) + i] = p[i]
  <2>1. Len(s) + i \in 1 .. Len(s) + Len(p) /\ ~(Len(s) + i <= Len(s)) /\ (Len(s) + i) - Len(s) = i
    BY <1>1
  <2> QED BY <1>3, <2>1
<1> QED BY <1>1, <1>2, <1>4, <1>5

\* A piece numbered from m on, appended to samples numbered in order below m.
LEMMA PieceNumbered ==
  ASSUME NEW a \in Seq(Nat), NEW m \in Nat, NEW n \in Nat,
         NEW p \in Seq(Nat), Len(p) = n, \A i \in 1 .. n : p[i] = m + i - 1, Numbered(a, m)
  PROVE  Numbered(a \o p, m + n)
<1> DEFINE b == a \o p
           l == Len(a)
<1>1. l \in Nat /\ Len(b) = l + n
  BY Appended, Zenon
<1>2. \A i \in 1 .. l : b[i] = a[i]
  BY Appended
<1>3. \A i \in 1 .. n : b[l + i] = m + i - 1
  BY Appended
<1>4. \A i \in 1 .. l : a[i] \in Nat /\ a[i] < m
  BY ElementOfSeq DEF Numbered
<1>5. \A i \in 2 .. l : a[i - 1] < a[i]
  BY DEF Numbered
<1> HIDE DEF b, l
<1>6. ASSUME NEW i \in 1 .. (l + n) PROVE b[i] < m + n
  <2>1. CASE i \in 1 .. l
    BY <1>2, <1>4, <2>1
  <2>2. CASE i \notin 1 .. l
    <3>1. i - l \in 1 .. n /\ l + (i - l) = i
      BY <1>1, <2>2
    <3>2. b[i] = m + (i - l) - 1
      BY <1>3, <3>1
    <3> QED BY <1>1, <3>1, <3>2
  <2> QED BY <2>1, <2>2
<1>7. ASSUME NEW i \in 2 .. (l + n) PROVE b[i - 1] < b[i]
  <2>1. CASE i \in 2 .. l
    <3>1. i - 1 \in 1 .. l /\ i \in 1 .. l
      BY <1>1, <2>1
    <3> QED BY <1>2, <1>5, <2>1, <3>1
  <2>2. CASE i = l + 1
    <3>1. i - 1 \in 1 .. l /\ 1 \in 1 .. n
      BY <1>1, <2>2
    <3>2. b[i - 1] < m
      BY <1>2, <1>4, <3>1
    <3>3. b[i] = m
      BY <1>3, <2>2, <3>1
    <3> QED BY <3>2, <3>3
  <2>3. CASE i > l + 1
    <3>1. i - l \in 1 .. n /\ l + (i - l) = i /\ (i - l) - 1 \in 1 .. n /\ l + ((i - l) - 1) = i - 1
      BY <1>1, <2>3
    <3>2. b[i] = m + (i - l) - 1 /\ b[i - 1] = m + ((i - l) - 1) - 1
      BY <1>3, <3>1, Zenon
    <3> QED BY <1>1, <3>1, <3>2
  <2> QED BY <1>1, <2>1, <2>2, <2>3
<1>8. Len(b) = l + n /\ (\A i \in 1 .. Len(b) : b[i] < m + n) /\ \A i \in 2 .. Len(b) : b[i - 1] < b[i]
  BY <1>1, <1>6, <1>7
<1> QED BY <1>8 DEF Numbered, b

\* The same piece is appended to what was accepted and to what is unseen.
LEMMA PieceUnseen ==
  ASSUME NEW f \in Seq(Nat), NEW a \in Seq(Nat), NEW k \in Nat, NEW p \in Seq(Nat), Unseen(f, a, k)
  PROVE  Unseen(f \o p, a \o p, k)
<1> DEFINE g == f \o p
           b == a \o p
           x == Len(f)
           y == Len(a)
           n == Len(p)
<1>1. x \in Nat /\ y \in Nat /\ n \in Nat /\ Len(g) = x + n /\ Len(b) = y + n
  BY Appended, LenProperties
<1>2. (\A i \in 1 .. x : g[i] = f[i]) /\ (\A i \in 1 .. n : g[x + i] = p[i])
  BY Appended
<1>3. (\A i \in 1 .. y : b[i] = a[i]) /\ (\A i \in 1 .. n : b[y + i] = p[i])
  BY Appended
<1>4. \A i \in 1 .. x : f[i] = a[k + i]
  BY DEF Unseen
<1>k. k + x = y
  BY DEF Unseen
<1> HIDE DEF g, b, x, y, n
<1>5. k + (x + n) = y + n
  BY <1>1, <1>k, ReadSums
<1>6. ASSUME NEW i \in 1 .. (x + n) PROVE g[i] = b[k + i]
  <2>1. CASE i \in 1 .. x
    <3>1. k + i \in 1 .. y
      BY <1>1, <1>k, <2>1
    <3> QED BY <1>2, <1>3, <1>4, <2>1, <3>1
  <2>2. CASE i \notin 1 .. x
    <3>1. i - x \in 1 .. n /\ x + (i - x) = i /\ y + (i - x) = k + i
      BY <1>1, <1>k, <2>2
    <3> QED BY <1>2, <1>3, <3>1
  <2> QED BY <2>1, <2>2
<1>7. k + Len(g) = Len(b) /\ \A i \in 1 .. Len(g) : g[i] = b[k + i]
  BY <1>1, <1>5, <1>6
<1> QED BY <1>7, Zenon DEF Unseen, g, b

\* The end of a sequence, from its element m on.
LEMMA EndOf ==
  ASSUME NEW s \in Seq(Nat), NEW l \in Nat, l = Len(s), NEW m \in Nat \ {0}
  PROVE  LET t == SubSeq(s, m, l)
         IN  /\ t \in Seq(Nat) /\ Len(t) = IF m <= l THEN l - m + 1 ELSE 0
             /\ \A i \in 1 .. (l - m + 1) : t[i] = s[m + i - 1]
<1>1. m \in Int /\ l \in Int
  OBVIOUS
<1>2. ASSUME NEW i \in m .. l PROVE s[i] \in Nat
  <2>1. i \in 1 .. Len(s)
    OBVIOUS
  <2> QED BY <2>1, ElementOfSeq
<1>3. \A i \in m .. l : s[i] \in Nat
  BY <1>2
<1> QED BY <1>1, <1>3, SubSeqProperties

\* What remains of a sequence without its first n elements.
LEMMA Remains ==
  ASSUME NEW s \in Seq(Nat), NEW n \in Nat, n <= Len(s)
  PROVE  LET t == SubSeq(s, n + 1, Len(s))
         IN  t \in Seq(Nat) /\ Len(t) = Len(s) - n /\ \A i \in 1 .. (Len(s) - n) : t[i] = s[n + i]
<1> DEFINE t == SubSeq(s, n + 1, Len(s))
           l == Len(s)
           m == n + 1
<1>6. l \in Nat /\ n <= l /\ m \in Nat \ {0}
  BY LenProperties
<1> HIDE DEF t, l, m
<1>4. t \in Seq(Nat) /\ Len(t) = IF m <= l THEN l - m + 1 ELSE 0
  <2>1. l = Len(s) /\ t = SubSeq(s, m, l)
    BY DEF t, l, m
  <2> QED BY <1>6, <2>1, EndOf
<1>5. \A i \in 1 .. (l - m + 1) : t[i] = s[m + i - 1]
  <2>1. l = Len(s) /\ t = SubSeq(s, m, l)
    BY DEF t, l, m
  <2> QED BY <1>6, <2>1, EndOf
<1> USE DEF m
<1>7. l - (n + 1) + 1 = l - n /\ Len(t) = l - n
  BY <1>4, <1>6
<1>8. ASSUME NEW i \in 1 .. (l - n) PROVE t[i] = s[n + i]
  <2>1. (n + 1) + i - 1 = n + i
    BY <1>6
  <2> QED BY <1>5, <1>7, <2>1
<1> QED BY <1>4, <1>7, <1>8, Zenon DEF t, l

\* A block that is read is the oldest.
LEMMA BlockRead ==
  ASSUME NEW f \in Seq(Nat), NEW a \in Seq(Nat), NEW k \in Nat, NEW n \in Nat, n <= Len(f), Unseen(f, a, k)
  PROVE  LET g == SubSeq(f, n + 1, Len(f))
         IN  g \in Seq(Nat) /\ Len(g) = Len(f) - n /\ Unseen(g, a, k + n)
<1> DEFINE g == SubSeq(f, n + 1, Len(f))
           x == Len(f)
           y == Len(a)
<1>1. g \in Seq(Nat) /\ Len(g) = x - n /\ \A i \in 1 .. (x - n) : g[i] = f[n + i]
  BY Remains
<1>2. x \in Nat /\ y \in Nat /\ n <= x
  BY LenProperties
<1>3. \A i \in 1 .. x : f[i] = a[k + i]
  BY DEF Unseen
<1>k. k + x = y
  BY DEF Unseen
<1> HIDE DEF g, x, y
<1>4. ASSUME NEW i \in 1 .. (x - n) PROVE g[i] = a[(k + n) + i]
  <2>1. n + i \in 1 .. x /\ k + (n + i) = (k + n) + i
    BY <1>2
  <2> QED BY <1>1, <1>3, <2>1, Zenon
<1>5. (k + n) + (x - n) = y
  BY <1>2, <1>k, ReadSums
<1>6. (k + n) + Len(g) = y /\ \A i \in 1 .. Len(g) : g[i] = a[(k + n) + i]
  BY <1>1, <1>4, <1>5
<1>7. Unseen(g, a, k + n)
  BY <1>6 DEF Unseen, y
<1> QED BY <1>1, <1>7 DEF g, x

\* What is unseen is the end of what was accepted.
LEMMA UnseenIsRest ==
  ASSUME NEW f \in Seq(Nat), NEW a \in Seq(Nat), NEW k \in Nat, Unseen(f, a, k)
  PROVE  f = SubSeq(a, k + 1, Len(a))
<1> DEFINE g == SubSeq(a, k + 1, Len(a))
           x == Len(f)
           y == Len(a)
<1>1. \A i \in 1 .. x : f[i] = a[k + i]
  BY DEF Unseen
<1>2. k <= y /\ y - k = x
  <2>1. x \in Nat /\ y \in Nat /\ k + x = y
    BY LenProperties DEF Unseen
  <2> HIDE DEF x, y
  <2> QED BY <2>1
<1>3. g \in Seq(Nat) /\ Len(g) = y - k /\ \A i \in 1 .. (y - k) : g[i] = a[k + i]
  BY <1>2, Remains
<1> HIDE DEF g, x, y
<1>4. x = Len(g) /\ \A i \in 1 .. x : f[i] = g[i]
  BY <1>1, <1>2, <1>3, Zenon
<1> QED BY <1>3, <1>4, SeqEqual, Zenon DEF g, x

\* execute() up to its loop, and the destructor, which move no sample.
LEMMA CallerKeepsTap ==
  ASSUME TapIInv, TapExecute \/ WakeTap \/ AddDroppedSamples \/ AddDrops \/ SetEnding \/ SignalEnd \/ JoinTap
  PROVE  TapIInv'
<1>1. UNCHANGED <<fifo, accepted, seen, next, tap, dropping, samplesDropped, drops, said>>
  BY Zenon DEF TapExecute, WakeTap, AddDroppedSamples, AddDrops, SetEnding, SignalEnd, JoinTap, queue, report
<1>2. sem' \in 0 .. SemMax
  <2>1. sem \in 0 .. SemMax /\ SemMax \in Nat
    BY TapAssumption DEF TapIInv, TapTypeOK
  <2>2. sem' = sem \/ sem' = IF sem < SemMax THEN sem + 1 ELSE sem
    BY Zenon DEF TapExecute, WakeTap, AddDroppedSamples, AddDrops, SetEnding, SignalEnd, JoinTap, queue, Signal
  <2> QED BY <2>1, <2>2
<1>3. CASE TapExecute
  <2>1. /\ caller = "idle" /\ caller' = "write" /\ dropped' = 0 /\ left' \in Nat /\ calls' = calls + 1 /\ ~ending
        /\ UNCHANGED <<unreportedSamples, unreportedDrops, ending, allDropped>>
    BY <1>3, TapAssumption DEF TapExecute, counts
  <2>p. TapTypeOK'
    BY <1>1, <1>2, <2>1 DEF TapIInv, TapTypeOK
  <2>q. TapQueueInv'
    BY <1>1, <1>2, <2>1 DEF TapIInv, TapTypeOK, TapQueueInv
  <2>r. TapEndInv'
    BY <1>1, <1>2, <2>1 DEF TapIInv, TapEndInv
  <2>s. TapSaidInv'
    BY <1>1, <1>2, <2>1 DEF TapIInv, TapTypeOK, TapSaidInv
  <2> QED BY <2>p, <2>q, <2>r, <2>s DEF TapIInv
<1>4. CASE WakeTap
  <2>1. /\ caller = "write" /\ caller' = IF dropped > 0 THEN "addSamples" ELSE "idle"
        /\ UNCHANGED <<unreportedSamples, unreportedDrops, ending, allDropped, left, dropped, calls>>
    BY <1>4 DEF WakeTap, counts
  <2>2. TapTypeOK' /\ TapEndInv' /\ TapSaidInv'
    BY <1>1, <1>2, <2>1 DEF TapIInv, TapTypeOK, TapEndInv, TapSaidInv
  <2>3. TapQueueInv'
    <3>1. allDropped \in Nat /\ Len(accepted) \in Nat /\ dropped \in Nat
      BY LenProperties DEF TapIInv, TapTypeOK
    <3>2. Len(accepted) + allDropped + (IF caller' \in {"write", "addSamples"} THEN dropped ELSE 0) = next - 1
      <4>1. Len(accepted) + allDropped + dropped = next - 1
        BY <2>1 DEF TapIInv, TapQueueInv
      <4> QED BY <2>1, <3>1, <4>1
    <3> QED BY <1>1, <2>1, <3>2 DEF TapIInv, TapQueueInv
  <2> QED BY <2>2, <2>3 DEF TapIInv
<1>5. CASE AddDroppedSamples
  <2>1. /\ caller = "addSamples" /\ caller' = "addDrops"
        /\ unreportedSamples' = unreportedSamples + dropped /\ allDropped' = allDropped + dropped
        /\ UNCHANGED <<unreportedDrops, ending, left, dropped, calls>>
    BY <1>5 DEF AddDroppedSamples
  <2>p. TapTypeOK'
    BY <1>1, <1>2, <2>1 DEF TapIInv, TapTypeOK
  <2>q. TapQueueInv'
    BY <1>1, <1>2, <2>1 DEF TapIInv, TapTypeOK, TapQueueInv
  <2>r. TapEndInv'
    BY <1>1, <1>2, <2>1 DEF TapIInv, TapEndInv
  <2>s. TapSaidInv'
    BY <1>1, <1>2, <2>1 DEF TapIInv, TapTypeOK, TapSaidInv
  <2> QED BY <2>p, <2>q, <2>r, <2>s DEF TapIInv
<1>6. CASE AddDrops
  <2>1. /\ caller = "addDrops" /\ caller' = "idle" /\ unreportedDrops' = unreportedDrops + 1
        /\ UNCHANGED <<unreportedSamples, ending, left, dropped, calls, allDropped>>
    BY <1>6 DEF AddDrops
  <2>p. TapTypeOK'
    BY <1>1, <1>2, <2>1 DEF TapIInv, TapTypeOK
  <2>q. TapQueueInv'
    BY <1>1, <1>2, <2>1 DEF TapIInv, TapTypeOK, TapQueueInv
  <2>r. TapEndInv'
    BY <1>1, <1>2, <2>1 DEF TapIInv, TapEndInv
  <2>s. TapSaidInv'
    BY <1>1, <1>2, <2>1 DEF TapIInv, TapTypeOK, TapEndInv, TapSaidInv
  <2> QED BY <2>p, <2>q, <2>r, <2>s DEF TapIInv
<1>7. CASE SetEnding \/ SignalEnd \/ JoinTap
  <2>1. /\ UNCHANGED <<unreportedSamples, unreportedDrops, left, dropped, calls, allDropped>>
        /\ \/ caller = "idle" /\ ending' /\ caller' = "signal"
           \/ caller = "signal" /\ caller' = "join" /\ ending' = ending
           \/ caller = "join" /\ caller' = "destroyed" /\ ending' = ending /\ tap = "done"
    BY <1>7 DEF SetEnding, SignalEnd, JoinTap, counts
  <2>p. TapTypeOK'
    BY <1>1, <1>2, <2>1, Zenon DEF TapIInv, TapTypeOK
  <2>q. TapQueueInv'
    BY <1>1, <1>2, <2>1 DEF TapIInv, TapTypeOK, TapQueueInv
  <2>r. TapEndInv'
    BY <1>1, <1>2, <2>1 DEF TapIInv, TapEndInv
  <2>s. TapSaidInv'
    BY <1>1, <1>2, <2>1 DEF TapIInv, TapTypeOK, TapSaidInv
  <2> QED BY <2>p, <2>q, <2>r, <2>s DEF TapIInv
<1> QED BY <1>3, <1>4, <1>5, <1>6, <1>7

\* One write() of the loop.
LEMMA WriteKeepsTap ==
  ASSUME TapIInv, WritePiece
  PROVE  TapIInv'
<1> DEFINE n == IF left < Block THEN left ELSE Block
           piece == [i \in 1 .. n |-> next + i - 1]
<1>1. /\ caller = "write" /\ left > 0 /\ left' = left - n /\ next' = next + n
      /\ UNCHANGED <<sem, seen, unreportedSamples, unreportedDrops, dropping, samplesDropped, drops, said,
                     ending, tap, caller, calls, allDropped>>
      /\ IF Len(fifo) + n <= TapCap
         THEN fifo' = fifo \o piece /\ accepted' = accepted \o piece /\ dropped' = dropped
         ELSE fifo' = fifo /\ accepted' = accepted /\ dropped' = dropped + n
  BY Zenon DEF WritePiece, counts, report
<1>2. n \in Nat /\ n <= left /\ left \in Nat /\ next \in Nat /\ n > 0
  <2>1. left \in Nat /\ next \in Nat /\ Block \in Nat \ {0} /\ left > 0
    BY <1>1, TapAssumption DEF TapIInv, TapTypeOK
  <2> QED BY <2>1
<1>3. piece \in Seq(Nat) /\ Len(piece) = n /\ \A i \in 1 .. n : piece[i] = next + i - 1
  BY <1>2
<1> HIDE DEF n, piece
<1>4. /\ fifo \in Seq(Nat) /\ accepted \in Seq(Nat) /\ seen \in Nat /\ dropped \in Nat /\ allDropped \in Nat
      /\ Unseen(fifo, accepted, seen) /\ Numbered(accepted, next) /\ Len(fifo) <= TapCap
      /\ Len(accepted) + allDropped + dropped = next - 1
  BY <1>1 DEF TapIInv, TapTypeOK, TapQueueInv
<1>5. /\ fifo \o piece \in Seq(Nat) /\ accepted \o piece \in Seq(Nat)
      /\ Len(fifo \o piece) = Len(fifo) + n /\ Len(accepted \o piece) = Len(accepted) + n
      /\ Unseen(fifo \o piece, accepted \o piece, seen) /\ Numbered(accepted \o piece, next + n)
  <2>1. Unseen(fifo \o piece, accepted \o piece, seen) /\ Numbered(accepted \o piece, next + n)
    BY <1>2, <1>3, <1>4, PieceUnseen, PieceNumbered
  <2>2. /\ fifo \o piece \in Seq(Nat) /\ accepted \o piece \in Seq(Nat)
        /\ Len(fifo \o piece) = Len(fifo) + n /\ Len(accepted \o piece) = Len(accepted) + n
    BY <1>3, <1>4, Appended, Zenon
  <2> QED BY <2>1, <2>2
<1>6. TapTypeOK' /\ TapQueueInv'
  <2>0. Len(fifo) \in Nat /\ Len(accepted) \in Nat /\ TapCap \in Nat
    BY <1>4, TapAssumption
  <2>n. left' \in Nat /\ next' \in Nat
    BY <1>1, <1>2
  <2>1. CASE Len(fifo) + n <= TapCap
    <3>1. fifo' = fifo \o piece /\ accepted' = accepted \o piece /\ dropped' = dropped
      BY <1>1, <2>1
    <3>2. TapTypeOK'
      BY <1>1, <1>5, <2>n, <3>1 DEF TapIInv, TapTypeOK
    <3>3. (Len(accepted) + n) + allDropped + dropped = (next + n) - 1
      BY <1>2, <1>4, <2>0, WriteSums
    <3> QED BY <1>1, <1>5, <2>1, <3>1, <3>2, <3>3 DEF TapQueueInv
  <2>2. CASE ~(Len(fifo) + n <= TapCap)
    <3>1. fifo' = fifo /\ accepted' = accepted /\ dropped' = dropped + n
      BY <1>1, <2>2
    <3>2. TapTypeOK'
      <4>1. dropped' \in Nat
        BY <1>2, <1>4, <3>1
      <4> QED BY <1>1, <2>n, <3>1, <4>1 DEF TapIInv, TapTypeOK
    <3>3. Len(accepted) + allDropped + (dropped + n) = (next + n) - 1
      BY <1>2, <1>4, <2>0, WriteSums
    <3>4. Numbered(accepted, next + n)
      BY <1>2, <1>4 DEF Numbered
    <3> QED BY <1>1, <1>4, <3>1, <3>2, <3>3, <3>4 DEF TapQueueInv
  <2> QED BY <2>1, <2>2
<1>7. TapEndInv'
  BY <1>1 DEF TapIInv, TapEndInv
<1>8. TapSaidInv'
  BY <1>1 DEF TapIInv, TapSaidInv
<1> QED BY <1>6, <1>7, <1>8 DEF TapIInv

\* The tap thread.
LEMMA ThreadKeepsTap ==
  ASSUME TapIInv, TapThread
  PROVE  TapIInv'
<1>1. UNCHANGED <<ending, caller, left, dropped, calls, allDropped, next, accepted>>
  BY DEF TapThread, CheckEnding, ProcessBufferedBlocks, ExchangeDrops, ReportDrops, TapWait, queue, call
<1>2. CASE CheckEnding
  <2>1. /\ tap = "check" /\ tap' = IF ending THEN "lastProcess" ELSE "process"
        /\ UNCHANGED <<fifo, sem, seen, unreportedSamples, unreportedDrops, dropping, samplesDropped, drops, said>>
    BY <1>2 DEF CheckEnding, queue, counts, report
  <2>p. TapTypeOK'
    BY <1>1, <2>1 DEF TapIInv, TapTypeOK
  <2>q. TapQueueInv'
    BY <1>1, <2>1 DEF TapIInv, TapTypeOK, TapQueueInv
  <2>r. TapEndInv'
    BY <1>1, <2>1 DEF TapIInv, TapEndInv
  <2>s. TapSaidInv'
    BY <1>1, <2>1 DEF TapIInv, TapTypeOK, TapSaidInv
  <2> QED BY <2>p, <2>q, <2>r, <2>s DEF TapIInv
<1>3. CASE ProcessBufferedBlocks
  <2>1. UNCHANGED <<sem, unreportedSamples, unreportedDrops, dropping, samplesDropped, drops, said>>
    BY <1>3 DEF ProcessBufferedBlocks, counts, report
  <2>2. CASE Len(fifo) >= Block
    <3>1. /\ tap \in {"process", "lastProcess"} /\ tap' = tap
          /\ fifo' = SubSeq(fifo, Block + 1, Len(fifo)) /\ seen' = seen + Block
      BY <1>3, <2>2, Zenon DEF ProcessBufferedBlocks
    <3>2. fifo \in Seq(Nat) /\ Block \in Nat /\ Block > 0 /\ seen \in Nat /\ Len(fifo) \in Nat
      BY TapAssumption DEF TapIInv, TapTypeOK
    <3>3. accepted \in Seq(Nat) /\ Unseen(fifo, accepted, seen) /\ Block <= Len(fifo)
      BY <2>2, <3>2 DEF TapIInv, TapTypeOK, TapQueueInv
    <3>4. fifo' \in Seq(Nat) /\ Len(fifo') = Len(fifo) - Block /\ Unseen(fifo', accepted, seen + Block)
      BY <3>1, <3>2, <3>3, BlockRead
    <3>5. TapTypeOK'
      <4>1. seen' \in Nat
        BY <3>1, <3>2
      <4> QED BY <1>1, <2>1, <3>1, <3>4, <4>1 DEF TapIInv, TapTypeOK
    <3>6. TapQueueInv'
      <4>1. Len(fifo') <= TapCap
        BY <3>2, <3>4, TapAssumption DEF TapIInv, TapQueueInv
      <4> QED BY <1>1, <3>1, <3>4, <4>1 DEF TapIInv, TapQueueInv
    <3> QED BY <1>1, <2>1, <3>1, <3>5, <3>6 DEF TapIInv, TapEndInv, TapSaidInv
  <2>3. CASE ~(Len(fifo) >= Block)
    <3>1. /\ tap \in {"process", "lastProcess"} /\ tap' = IF tap = "process" THEN "drops" ELSE "lastDrops"
          /\ UNCHANGED <<fifo, seen>>
      BY <1>3, <2>3, Zenon DEF ProcessBufferedBlocks
    <3>2. Len(fifo) < Block
      BY <2>3, TapAssumption DEF TapIInv, TapTypeOK
    <3>p. TapTypeOK'
      BY <1>1, <2>1, <3>1, <3>2 DEF TapIInv, TapTypeOK
    <3>q. TapQueueInv'
      BY <1>1, <2>1, <3>1, <3>2 DEF TapIInv, TapTypeOK, TapQueueInv
    <3>r. TapEndInv'
      BY <1>1, <2>1, <3>1, <3>2 DEF TapIInv, TapEndInv
    <3>s. TapSaidInv'
      BY <1>1, <2>1, <3>1, <3>2 DEF TapIInv, TapTypeOK, TapSaidInv
    <3> QED BY <3>p, <3>q, <3>r, <3>s DEF TapIInv
  <2> QED BY <2>2, <2>3
<1>4. CASE ExchangeDrops
  <2>1. /\ tap \in {"drops", "lastDrops"} /\ tap' = IF tap = "drops" THEN "samples" ELSE "lastSamples"
        /\ drops' = unreportedDrops /\ unreportedDrops' = 0
        /\ UNCHANGED <<fifo, sem, seen, unreportedSamples, dropping, samplesDropped, said>>
    BY <1>4 DEF ExchangeDrops, queue
  <2>2. TapTypeOK' /\ TapQueueInv' /\ TapEndInv'
    BY <1>1, <2>1 DEF TapIInv, TapTypeOK, TapQueueInv, TapEndInv
  <2>3. TapSaidInv'
    BY <1>1, <2>1 DEF TapIInv, TapTypeOK, TapSaidInv
  <2> QED BY <2>2, <2>3 DEF TapIInv
<1>5. CASE ReportDrops
  <2>1. /\ tap \in {"samples", "lastSamples"} /\ tap' = IF tap = "samples" THEN "wait" ELSE "done"
        /\ unreportedSamples' = 0 /\ samplesDropped' = IF drops > 0 THEN samplesDropped + unreportedSamples ELSE 0
        /\ UNCHANGED <<fifo, sem, seen, unreportedDrops, drops>>
    BY <1>5 DEF ReportDrops, queue
  <2>2. said' \in BOOLEAN /\ (drops > 0 \/ said => said') /\ (said' => said \/ drops > 0)
    <3>1. said' = (said \/ drops > 0)
      BY <1>5, Zenon DEF ReportDrops
    <3> QED BY <3>1, Zenon
  <2>3. TapTypeOK' /\ TapQueueInv' /\ TapEndInv'
    BY <1>1, <2>1, <2>2 DEF TapIInv, TapTypeOK, TapQueueInv, TapEndInv
  <2>4. TapSaidInv'
    BY <1>1, <2>1, <2>2 DEF TapIInv, TapTypeOK, TapEndInv, TapSaidInv
  <2> QED BY <2>3, <2>4 DEF TapIInv
<1>6. CASE TapWait
  <2>1. /\ tap = "wait" /\ tap' = "check" /\ sem > 0 /\ sem' = sem - 1
        /\ UNCHANGED <<fifo, seen, unreportedSamples, unreportedDrops, dropping, samplesDropped, drops, said>>
    BY <1>6 DEF TapWait, counts, report
  <2>p. TapTypeOK'
    BY <1>1, <2>1, TapAssumption DEF TapIInv, TapTypeOK
  <2>q. TapQueueInv'
    BY <1>1, <2>1, TapAssumption DEF TapIInv, TapTypeOK, TapQueueInv
  <2>r. TapEndInv'
    BY <1>1, <2>1, TapAssumption DEF TapIInv, TapEndInv
  <2>s. TapSaidInv'
    BY <1>1, <2>1, TapAssumption DEF TapIInv, TapTypeOK, TapSaidInv
  <2> QED BY <2>p, <2>q, <2>r, <2>s DEF TapIInv
<1> QED BY <1>2, <1>3, <1>4, <1>5, <1>6 DEF TapThread

\* The tapped step gets what execute() accepted, in order; the destructor leaves no whole block
\* behind and nothing dropped unsaid; for any block, FIFO and sizes of the calls.
THEOREM TapIsSafe == TapSpec => []TapInv
<1>1. TapInit => TapIInv
  BY TapStarts
<1>2. TapIInv /\ [TapNext]_tapVars => TapIInv'
  <2>1. ASSUME TapIInv, UNCHANGED tapVars PROVE TapIInv'
    BY <2>1, Zenon DEF tapVars, TapIInv, TapTypeOK, TapQueueInv, TapEndInv, TapSaidInv
  <2> QED BY <2>1, CallerKeepsTap, WriteKeepsTap, ThreadKeepsTap DEF TapNext, Caller
<1>3. TapIInv => TapInv
  <2> SUFFICES ASSUME TapIInv PROVE TapInv
    OBVIOUS
  <2>1. fifo = SubSeq(accepted, seen + 1, Len(accepted))
    BY UnseenIsRest DEF TapIInv, TapTypeOK, TapQueueInv
  <2>2. TapKeepsOrder
    <3>1. sem \in 0 .. SemMax /\ Len(fifo) <= TapCap
      BY DEF TapIInv, TapTypeOK, TapQueueInv
    <3>2. caller = "idle" => Len(accepted) + allDropped = next - 1
      <4> SUFFICES ASSUME caller = "idle" PROVE Len(accepted) + allDropped = next - 1
        OBVIOUS
      <4>1. Len(accepted) + allDropped + 0 = next - 1
        BY DEF TapIInv, TapQueueInv
      <4>2. Len(accepted) \in Nat /\ allDropped \in Nat
        BY LenProperties DEF TapIInv, TapTypeOK
      <4> QED BY <4>1, <4>2
    <3> QED BY <2>1, <3>1, <3>2, Zenon DEF TapIInv, TapQueueInv, Numbered, TapKeepsOrder
  <2>3. LastBlocksHandedOver
    BY DEF TapIInv, TapEndInv, LastBlocksHandedOver
  <2>4. DropsAreSaid
    BY DEF TapIInv, TapTypeOK, TapEndInv, TapSaidInv, DropsAreSaid
  <2> QED BY <2>2, <2>3, <2>4 DEF TapInv
<1> QED BY <1>1, <1>2, <1>3, PTL DEF TapSpec

-------------------------------------------------------------------------------
(* FeatureWriter: the file and the FIFO.                                      *)

FeatureTypeOK ==
    /\ utFeatures \in Seq(Nat) /\ file \in Seq(Nat) /\ taken \in Seq(Nat)
    /\ computed \in Nat /\ featureSem \in Nat /\ exiting \in BOOLEAN
    /\ audio \in {"run", "signal", "exiting", "join", "closed"}
    /\ writer \in {"check", "drain", "last", "wait", "done"}

\* The destructor set the flag before the thread's last round, which leaves nothing
\* in the FIFO, because nothing is written to it any more.
FeatureStages ==
    /\ exiting => audio \in {"exiting", "join", "closed"}
    /\ writer \in {"last", "done"} => exiting
    /\ writer = "done" => utFeatures = <<>>
    /\ audio = "closed" => writer = "done"

FeatureIInv ==
    /\ FeatureTypeOK /\ FeatureStages /\ NoLostWakeup
    /\ file \o utFeatures = taken /\ Len(utFeatures) <= FeatureSlots

\* A block appended to a FIFO is appended to the file and the FIFO together.
LEMMA AppendJoined ==
  ASSUME NEW f \in Seq(Nat), NEW u \in Seq(Nat), NEW c \in Nat
  PROVE  f \o Append(u, c) = Append(f \o u, c)
<1>1. <<c>> \in Seq(Nat)
  OBVIOUS
<1>2. f \o u \in Seq(Nat)
  BY ConcatProperties
<1>3. Append(u, c) = u \o <<c>> /\ Append(f \o u, c) = (f \o u) \o <<c>>
  BY <1>2, AppendIsConcat, Zenon
<1> QED BY <1>1, <1>3, ConcatAssociative

\* execute() writes a block, or drops it, while the destructor has not begun.
LEMMA WriteKeepsFeatures ==
  ASSUME FeatureIInv, WriteFeatures
  PROVE  FeatureIInv'
<1>1. /\ audio = "run" /\ computed' = computed + 1 /\ audio' = "signal"
      /\ featureSem' = featureSem /\ exiting' = exiting /\ writer' = writer /\ file' = file
  BY DEF WriteFeatures
<1>2. /\ utFeatures \in Seq(Nat) /\ file \in Seq(Nat) /\ taken \in Seq(Nat) /\ computed \in Nat
      /\ file \o utFeatures = taken /\ Len(utFeatures) <= FeatureSlots
  BY DEF FeatureIInv, FeatureTypeOK
<1>3. computed' \in Nat
  BY <1>1, <1>2
<1>4. /\ utFeatures' \in Seq(Nat) /\ taken' \in Seq(Nat)
      /\ file \o utFeatures' = taken' /\ Len(utFeatures') <= FeatureSlots
  <2>1. CASE Len(utFeatures) < FeatureSlots
    <3>1. utFeatures' = Append(utFeatures, computed') /\ taken' = Append(taken, computed')
      BY <2>1 DEF WriteFeatures
    <3>2. Len(utFeatures) + 1 <= FeatureSlots
      BY <1>2, <2>1, LenProperties, FeatureAssumption
    <3>3. taken' \in Seq(Nat) /\ utFeatures' \in Seq(Nat) /\ Len(utFeatures') = Len(utFeatures) + 1
      BY <1>2, <1>3, <3>1, AppendProperties
    <3>4. file \o utFeatures' = taken'
      <4>0. file \in Seq(Nat) /\ utFeatures \in Seq(Nat)
        BY <1>2
      <4>1. file \o Append(utFeatures, computed') = Append(file \o utFeatures, computed')
        BY <1>3, <4>0, AppendJoined
      <4> QED BY <1>2, <3>1, <4>1, Zenon
    <3> QED BY <3>2, <3>3, <3>4
  <2>2. CASE ~(Len(utFeatures) < FeatureSlots)
    BY <1>2, <2>2 DEF WriteFeatures
  <2> QED BY <2>1, <2>2
<1>5. FeatureTypeOK'
  BY <1>1, <1>3, <1>4 DEF FeatureIInv, FeatureTypeOK
<1>6. FeatureStages'
  BY <1>1 DEF FeatureIInv, FeatureStages
<1>7. NoLostWakeup'
  BY <1>1 DEF NoLostWakeup
<1> QED BY <1>1, <1>4, <1>5, <1>6, <1>7 DEF FeatureIInv

\* The signal after it, and the destructor.
LEMMA AudioKeepsFeatures ==
  ASSUME FeatureIInv, SignalFeatures \/ Destructor
  PROVE  FeatureIInv'
<1>1. UNCHANGED <<utFeatures, computed, writer, file, taken>>
  BY DEF SignalFeatures, Destructor, SetExiting, SignalExit, Close
<1>2. file' \o utFeatures' = taken' /\ Len(utFeatures') <= FeatureSlots
  BY <1>1 DEF FeatureIInv
<1>3. featureSem \in Nat
  BY DEF FeatureIInv, FeatureTypeOK
<1>4. CASE SignalFeatures
  <2>1. audio = "signal" /\ audio' = "run" /\ exiting' = exiting
    BY <1>4 DEF SignalFeatures
  <2>2. featureSem' \in Nat /\ (4 * Len(utFeatures) > 3 * FeatureSlots => featureSem' > 0)
    BY <1>3, <1>4 DEF SignalFeatures
  <2>3. FeatureTypeOK' /\ FeatureStages'
    BY <1>1, <2>1, <2>2 DEF FeatureIInv, FeatureTypeOK, FeatureStages
  <2>4. NoLostWakeup'
    BY <1>1, <2>2 DEF NoLostWakeup
  <2> QED BY <1>2, <2>3, <2>4 DEF FeatureIInv
<1>5. CASE SetExiting
  <2>1. audio = "run" /\ audio' = "exiting" /\ exiting' = TRUE /\ featureSem' = featureSem
    BY <1>5 DEF SetExiting
  <2>2. FeatureTypeOK'
    BY <1>1, <2>1 DEF FeatureIInv, FeatureTypeOK
  <2>3. FeatureStages' /\ NoLostWakeup'
    BY <1>1, <2>1 DEF FeatureIInv, FeatureStages, NoLostWakeup
  <2> QED BY <1>2, <2>2, <2>3 DEF FeatureIInv
<1>6. CASE SignalExit
  <2>1. audio = "exiting" /\ audio' = "join" /\ exiting' = exiting /\ featureSem' = featureSem + 1
    BY <1>6 DEF SignalExit
  <2>2. featureSem' \in Nat /\ featureSem' > 0
    BY <1>3, <2>1
  <2>3. FeatureTypeOK' /\ FeatureStages'
    BY <1>1, <2>1, <2>2 DEF FeatureIInv, FeatureTypeOK, FeatureStages
  <2>4. NoLostWakeup'
    BY <2>2 DEF NoLostWakeup
  <2> QED BY <1>2, <2>3, <2>4 DEF FeatureIInv
<1>7. CASE Close
  <2>1. audio = "join" /\ writer = "done" /\ audio' = "closed" /\ exiting' = exiting /\ featureSem' = featureSem
    BY <1>7 DEF Close
  <2>2. FeatureTypeOK' /\ FeatureStages' /\ NoLostWakeup'
    BY <1>1, <2>1 DEF FeatureIInv, FeatureTypeOK, FeatureStages, NoLostWakeup
  <2> QED BY <1>2, <2>2 DEF FeatureIInv
<1> QED BY <1>4, <1>5, <1>6, <1>7 DEF Destructor

\* The thread moves what is in the FIFO to the file, and waits.
LEMMA ThreadKeepsFeatures ==
  ASSUME FeatureIInv, FeatureThread
  PROVE  FeatureIInv'
<1>1. computed' = computed /\ exiting' = exiting /\ audio' = audio /\ taken' = taken
  BY DEF FeatureThread, CheckExiting, Drain, FeatureWait
<1>2. /\ utFeatures \in Seq(Nat) /\ file \in Seq(Nat) /\ featureSem \in Nat
      /\ file \o utFeatures = taken /\ Len(utFeatures) <= FeatureSlots
  BY DEF FeatureIInv, FeatureTypeOK
<1>3. CASE CheckExiting
  <2>1. utFeatures' = utFeatures /\ file' = file /\ featureSem' = featureSem /\ writer = "check"
        /\ ((writer' = "last" /\ exiting) \/ writer' = "drain")
    BY <1>3 DEF CheckExiting
  <2>2. FeatureTypeOK' /\ FeatureStages'
    BY <1>1, <2>1 DEF FeatureIInv, FeatureTypeOK, FeatureStages
  <2>3. NoLostWakeup'
    BY <2>1 DEF NoLostWakeup
  <2> QED BY <1>1, <1>2, <2>1, <2>2, <2>3 DEF FeatureIInv
<1>4. CASE Drain /\ utFeatures = <<>>
  <2>1. utFeatures' = utFeatures /\ file' = file /\ featureSem' = featureSem
        /\ ((writer = "drain" /\ writer' = "wait") \/ (writer = "last" /\ writer' = "done"))
    BY <1>4 DEF Drain
  <2>2. FeatureTypeOK' /\ FeatureStages'
    BY <1>1, <1>4, <2>1 DEF FeatureIInv, FeatureTypeOK, FeatureStages
  <2>3. ~(4 * Len(utFeatures') > 3 * FeatureSlots)
    <3>1. Len(utFeatures') = 0
      BY <1>4, <2>1, EmptySeq
    <3> QED BY <3>1, FeatureAssumption
  <2>4. NoLostWakeup'
    BY <2>3 DEF NoLostWakeup
  <2> QED BY <1>1, <1>2, <2>1, <2>2, <2>4 DEF FeatureIInv
<1>5. CASE Drain /\ utFeatures # <<>>
  <2>1. /\ writer \in {"drain", "last"} /\ file' = file \o utFeatures /\ utFeatures' = <<>>
        /\ writer' = writer /\ featureSem' = featureSem
    BY <1>5 DEF Drain
  <2>2. file' \in Seq(Nat) /\ utFeatures' \in Seq(Nat)
    BY <1>2, <2>1, ConcatProperties, EmptySeq, Zenon
  <2>3. FeatureTypeOK' /\ FeatureStages'
    BY <1>1, <2>1, <2>2 DEF FeatureIInv, FeatureTypeOK, FeatureStages
  <2>4. NoLostWakeup'
    BY <2>1 DEF NoLostWakeup
  <2>5. file' \o utFeatures' = taken' /\ Len(utFeatures') <= FeatureSlots
    <3>1. file' \o <<>> = file' /\ Len(<<>>) = 0
      BY <2>2, ConcatEmptySeq, EmptySeq
    <3>2. 0 <= FeatureSlots
      BY FeatureAssumption
    <3> QED BY <1>1, <1>2, <2>1, <3>1, <3>2
  <2> QED BY <2>3, <2>4, <2>5 DEF FeatureIInv
<1>6. CASE FeatureWait
  <2>1. /\ utFeatures' = utFeatures /\ file' = file /\ writer = "wait" /\ writer' = "check"
        /\ featureSem > 0 /\ featureSem' = featureSem - 1
    BY <1>6 DEF FeatureWait
  <2>2. featureSem' \in Nat
    BY <1>2, <2>1
  <2>3. FeatureTypeOK' /\ FeatureStages'
    BY <1>1, <2>1, <2>2 DEF FeatureIInv, FeatureTypeOK, FeatureStages
  <2>4. NoLostWakeup'
    BY <2>1 DEF NoLostWakeup
  <2> QED BY <1>1, <1>2, <2>1, <2>3, <2>4 DEF FeatureIInv
<1> QED BY <1>3, <1>4, <1>5, <1>6 DEF FeatureThread

\* Every block of features that write() took is in the FIFO or in the file, in
\* order, and all of them are in the file once the destructor of the RADE step has
\* closed it; the thread never sleeps through a FIFO that is nearly full.
THEOREM FeaturesAreKept == FeatureSpec => []FeaturesKept
<1>1. FeatureInit => FeatureIInv
  <2> SUFFICES ASSUME FeatureInit PROVE FeatureIInv
    OBVIOUS
  <2>1. <<>> \in Seq(Nat) /\ Len(<<>>) = 0
    BY EmptySeq
  <2>2. <<>> \o <<>> = <<>>
    BY <2>1, ConcatEmptySeq
  <2>3. FeatureTypeOK
    BY <2>1, Zenon DEF FeatureInit, FeatureTypeOK
  <2>4. FeatureStages /\ NoLostWakeup
    BY DEF FeatureInit, FeatureStages, NoLostWakeup
  <2> QED BY <2>1, <2>2, <2>3, <2>4, FeatureAssumption DEF FeatureInit, FeatureIInv
<1>2. FeatureIInv /\ [FeatureNext]_featureVars => FeatureIInv'
  <2>1. ASSUME FeatureIInv, UNCHANGED featureVars PROVE FeatureIInv'
    BY <2>1 DEF featureVars, FeatureIInv, FeatureTypeOK, FeatureStages, NoLostWakeup
  <2> QED BY <2>1, WriteKeepsFeatures, AudioKeepsFeatures, ThreadKeepsFeatures DEF FeatureNext
<1>3. FeatureIInv => FeaturesKept
  <2> SUFFICES ASSUME FeatureIInv PROVE FeaturesKept
    OBVIOUS
  <2>1. ASSUME audio = "closed" PROVE file = taken
    <3>1. utFeatures = <<>> /\ file \in Seq(Nat) /\ file \o utFeatures = taken
      BY <2>1 DEF FeatureIInv, FeatureTypeOK, FeatureStages
    <3> QED BY <3>1, ConcatEmptySeq
  <2> QED BY <2>1 DEF FeatureIInv, BlocksKept, FeaturesKept
<1> QED BY <1>1, <1>2, <1>3, PTL DEF FeatureSpec

-------------------------------------------------------------------------------
(* RealtimeHelper: while no pass is later than an int holds, the conversion   *)
(* changes nothing.                                                           *)

HelperIInv ==
    /\ {due, spent, worst} \subseteq Int /\ extra \in Int
    /\ worst <= IntMax => extra >= 0 /\ extra <= worst /\ spent = due + extra

\* The conversion of a long that an int can hold keeps it.
LEMMA NarrowKeeps ==
  ASSUME NEW x \in Nat, x <= IntMax
  PROVE  Narrow(x) = x
<1> DEFINE w == 2 * (IntMax + 1)
<1>1. IntMax \in Nat
  BY HelperAssumption
<1>2. x + IntMax + 1 \in 0 .. (w - 1) /\ w \in Nat \ {0}
  BY <1>1
<1>3. (x + IntMax + 1) % w = x + IntMax + 1
  BY <1>1, <1>2
<1> QED BY <1>1, <1>3 DEF Narrow

\* The conversion gives an integer.
LEMMA NarrowIsInt == \A x \in Int : Narrow(x) \in Int
<1> SUFFICES ASSUME NEW x \in Int PROVE Narrow(x) \in Int
  OBVIOUS
<1>1. IntMax \in Nat
  BY HelperAssumption
<1>2. x + IntMax + 1 \in Int /\ 2 * (IntMax + 1) \in Nat \ {0}
  BY <1>1
<1>3. (x + IntMax + 1) % (2 * (IntMax + 1)) \in Int
  BY <1>2
<1> QED BY <1>1, <1>3 DEF Narrow

\* The passes of the audio threads keep to the sum of their nominal times, whatever
\* these are, as long as no pass is later than an int holds: together they never take
\* less, and what they take more is taken off the next sleep.
THEOREM HelperKeepsSchedule == HelperSpec => []KeepsSchedule
<1>1. HelperInit => HelperIInv
  BY HelperAssumption DEF HelperInit, HelperIInv
<1>2. ASSUME HelperIInv, NEW fastMode \in BOOLEAN, NEW late \in 0 .. MaxLate,
             StopRealTimeWork(fastMode, late)
      PROVE  HelperIInv'
  <2> DEFINE nominal == IF fastMode THEN Fast ELSE Slow
             elapsed == Larger(0, nominal - extra) + late
             duration == elapsed - (nominal - extra)
  <2>1. nominal \in Int /\ late \in Int /\ late >= 0 /\ IntMax \in Nat
    BY HelperAssumption
  <2>2. /\ due \in Int /\ spent \in Int /\ worst \in Int /\ extra \in Int
        /\ worst <= IntMax => extra >= 0 /\ extra <= worst /\ spent = due + extra
    BY <1>2 DEF HelperIInv
  <2>3. /\ due' = due + nominal /\ spent' = spent + elapsed /\ worst' = Larger(worst, duration)
        /\ extra' = Narrow(Larger(0, duration))
    BY <1>2, Zenon DEF StopRealTimeWork
  <2> HIDE DEF nominal
  <2>4. elapsed \in Int /\ elapsed >= nominal - extra
    BY <2>1, <2>2 DEF Larger
  <2> HIDE DEF elapsed
  <2>5. duration \in Int /\ duration >= 0 /\ spent + elapsed = spent + (nominal - extra) + duration
    BY <2>1, <2>2, <2>4
  <2> HIDE DEF duration
  <2>6. /\ Larger(0, duration) = duration /\ Larger(worst, duration) \in Int
        /\ Larger(worst, duration) >= worst /\ Larger(worst, duration) >= duration
    BY <2>2, <2>5 DEF Larger
  <2>7. extra' \in Int /\ due' \in Int /\ spent' \in Int /\ worst' \in Int
    <3>1. Narrow(duration) \in Int
      BY <2>5, NarrowIsInt
    <3>2. due + nominal \in Int /\ spent + elapsed \in Int
      BY <2>1, <2>2, <2>4
    <3> QED BY <2>3, <2>6, <3>1, <3>2, Zenon
  <2>8. ASSUME worst' <= IntMax
        PROVE  extra' >= 0 /\ extra' <= worst' /\ spent' = due' + extra'
    <3>1. worst <= IntMax /\ duration <= IntMax
      BY <2>1, <2>2, <2>3, <2>5, <2>6, <2>8
    <3>2. extra' = duration
      <4>1. duration \in Nat
        BY <2>5
      <4>2. Narrow(duration) = duration
        BY <3>1, <4>1, NarrowKeeps
      <4> QED BY <2>3, <2>6, <4>2, Zenon
    <3>3. spent + (nominal - extra) + duration = due + nominal + duration
      BY <2>1, <2>2, <2>5, <3>1
    <3> QED BY <2>3, <2>5, <2>6, <3>2, <3>3, Zenon
  <2> QED BY <2>7, <2>8 DEF HelperIInv
<1>3. HelperIInv /\ UNCHANGED helperVars => HelperIInv'
  BY DEF HelperIInv, helperVars
<1>4. HelperIInv => KeepsSchedule
  BY Zenon DEF HelperIInv, KeepsSchedule
<1>5. HelperIInv /\ [HelperNext]_helperVars => HelperIInv'
  BY <1>2, <1>3, Zenon DEF HelperNext
<1> QED BY <1>1, <1>4, <1>5, PTL DEF HelperSpec
===============================================================================

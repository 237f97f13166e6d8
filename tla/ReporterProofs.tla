---------------------------- MODULE ReporterProofs ----------------------------
(***************************************************************************)
(* The PSK and the UDP reporter, for any number of threads that report and  *)
(* of reports.                                                              *)
(***************************************************************************)
EXTENDS PskReporter, UdpReporter, FiniteSetTheorems, SequenceTheorems, TLAPS

-------------------------------------------------------------------------------
(* PskReporter *)

Networking(r) == report[r] \in {"getaddrinfo", "socket", "sendto"}

\* Callers in send(), who have not started their thread yet
Waiting == {c \in Callers : pc[c] \in {"send", "join"}}

Datagram == [seq : Nat, recs : Seq(Nat), outcome : {"pending", "failed", "sent"}]

\* The types of PskReporter's state.
PskTypeOK ==
    /\ recordList \in Seq(Nat) /\ accepted \in Nat
    /\ listOwner \in Runners \cup {"none"} /\ sendThread \in {"none", "running", "finished"}
    /\ pc \in [Callers -> {"idle", "adding", "send", "join"}]
    /\ report \in [Runners -> {"off", "lock", "getaddrinfo", "socket", "sendto"}]
    /\ dtor \in {"alive", "join", "check", "report", "gone"}
    /\ datagrams \in Seq(Datagram)

\* Who holds recordListMutex_ is in the network calls, and his is the last datagram; the thread is
\* joinable and not over exactly while it reports, and so is the destructor.
OwnersInv ==
    /\ \A r \in Runners : Networking(r) <=> listOwner = r
    /\ listOwner # "none" => Len(datagrams) > 0
    /\ sendThread = "running" <=> report["thread"] # "off"
    /\ dtor = "report" <=> report["dtor"] # "off"

\* What the destructor knows: nobody calls any more, the thread is joined, and the list is empty
\* once it has built its datagram.
DestructorInv ==
    /\ dtor # "alive" => \A c \in Callers : pc[c] = "idle"
    /\ dtor \in {"check", "report", "gone"} => sendThread = "none"
    /\ (dtor = "report" /\ Networking("dtor")) \/ dtor = "gone" => recordList = <<>>

\* Whoever put a record into a full list waits to start a thread, or has started the one that is
\* about to empty the list.
ListInv ==
    Len(recordList) <= Full - 1 + Cardinality(Waiting) + (IF report["thread"] = "lock" THEN 1 ELSE 0)

PskIInv == PskTypeOK /\ OwnersInv /\ DestructorInv /\ ListInv /\ EveryRecordOnce

\* The callers in send() are finitely many, at most all.
LEMMA WaitingFinite ==
    /\ IsFiniteSet(Waiting) /\ Cardinality(Waiting) \in Nat /\ Cardinality(Callers) \in Nat
    /\ Cardinality(Waiting) <= Cardinality(Callers)
<1>1. Waiting \in SUBSET Callers
  BY DEF Waiting
<1>2. IsFiniteSet(Waiting) /\ Cardinality(Waiting) <= Cardinality(Callers)
  BY <1>1, FS_Subset, PskAssumption
<1> QED
  BY <1>2, FS_CardinalityType, PskAssumption

\* One more is in send() when a caller enters it.
LEMMA WaitingGrows ==
    ASSUME PskTypeOK, NEW c \in Callers, c \notin Waiting, NEW to \in {"send", "join"},
           pc' = [pc EXCEPT ![c] = to]
    PROVE  Cardinality(Waiting') = Cardinality(Waiting) + 1
<1>1. Waiting' = Waiting \cup {c}
  BY DEF PskTypeOK, Waiting
<1> QED
  BY <1>1, WaitingFinite, FS_AddElement

\* One fewer is when a caller leaves it.
LEMMA WaitingShrinks ==
    ASSUME PskTypeOK, NEW c \in Callers, c \in Waiting, pc' = [pc EXCEPT ![c] = "idle"]
    PROVE  Cardinality(Waiting') = Cardinality(Waiting) - 1
<1>1. Waiting' = Waiting \ {c}
  BY DEF PskTypeOK, Waiting
<1> QED
  BY <1>1, WaitingFinite, FS_RemoveElement

\* A step of a caller who is in send() before and after, or neither, changes nothing of it.
LEMMA WaitingSame ==
    ASSUME PskTypeOK, NEW c \in Callers, NEW to \in {"idle", "adding", "send", "join"},
           pc' = [pc EXCEPT ![c] = to], c \in Waiting <=> to \in {"send", "join"}
    PROVE  Waiting' = Waiting
BY DEF PskTypeOK, Waiting

-------------------------------------------------------------------------------
BatchesOf(ds, list) ==
    [i \in 1..(Len(ds) + 1) |-> IF i \in DOMAIN ds THEN ds[i].recs ELSE list]

\* Batches is BatchesOf, before and after a step.
LEMMA BatchesAre ==
    /\ Batches = BatchesOf(datagrams, recordList)
    /\ Batches' = BatchesOf(datagrams', recordList')
BY Zenon DEF Batches, BatchesOf

\* The batches are sequences of numbers; the last is the list.
LEMMA BatchTypes ==
    ASSUME NEW ds \in Seq(Datagram), NEW list \in Seq(Nat)
    PROVE  /\ Len(ds) \in Nat /\ DOMAIN ds = 1..Len(ds)
           /\ DOMAIN BatchesOf(ds, list) = 1..(Len(ds) + 1) /\ BatchesOf(ds, list) \in [1..(Len(ds) + 1) -> Seq(Nat)]
           /\ BatchesOf(ds, list)[Len(ds) + 1] = list
           /\ \A i \in 1..Len(ds) : ds[i] \in Datagram /\ BatchesOf(ds, list)[i] = ds[i].recs
<1> DEFINE B == BatchesOf(ds, list)
<1>1. Len(ds) \in Nat /\ DOMAIN ds = 1..Len(ds)
  OBVIOUS
<1>2. Len(ds) + 1 \notin DOMAIN ds
  BY <1>1
<1>3. \A i \in DOMAIN ds : ds[i] \in Datagram /\ ds[i].recs \in Seq(Nat)
  <2>1. \A i \in DOMAIN ds : ds[i] \in Datagram
    BY <1>1
  <2>2. \A d \in Datagram : d.recs \in Seq(Nat)
    BY Zenon DEF Datagram
  <2> QED
    BY <2>1, <2>2, Zenon
<1>4. B \in [1..(Len(ds) + 1) -> Seq(Nat)]
  BY <1>3, Zenon DEF BatchesOf
<1>5. Len(ds) + 1 \in 1..(Len(ds) + 1) /\ 1..Len(ds) \subseteq 1..(Len(ds) + 1)
  BY <1>1
<1>6. B[Len(ds) + 1] = list /\ \A i \in 1..Len(ds) : B[i] = ds[i].recs
  BY <1>1, <1>2, <1>5, Zenon DEF BatchesOf
<1> QED
  BY <1>1, <1>3, <1>4, <1>6, Zenon

\* The batches hold 1..n, in order: what NoneLost and InOrder say, of batches B.
Placed(B, n) == \A r \in 1..n : \E i \in DOMAIN B : \E k \in DOMAIN B[i] : B[i][k] = r
Ordered(B, n) ==
    \A i, j \in DOMAIN B : \A k \in DOMAIN B[i], l \in DOMAIN B[j] :
        /\ B[i][k] \in 1..n
        /\ i < j \/ (i = j /\ k < l) => B[i][k] < B[j][l]

\* A record behind all others.
LEMMA RecordAdded ==
    ASSUME NEW last \in Nat \ {0}, NEW n \in Nat,
           NEW B \in [1..last -> Seq(Nat)], NEW C \in [1..last -> Seq(Nat)],
           \A i \in 1..last : i # last => C[i] = B[i],
           C[last] = Append(B[last], n + 1), Placed(B, n), Ordered(B, n)
    PROVE  Placed(C, n + 1) /\ Ordered(C, n + 1)
<1> DEFINE len == Len(B[last])
           new(i, k) == i = last /\ k = len + 1
<1>1. /\ last \in 1..last /\ len \in Nat /\ DOMAIN B[last] = 1..len /\ DOMAIN C[last] = 1..(len + 1)
      /\ \A k \in 1..len : C[last][k] = B[last][k]
      /\ C[last][len + 1] = n + 1 /\ DOMAIN B = 1..last /\ DOMAIN C = 1..last
  <2>1. last \in 1..last
    OBVIOUS
  <2>2. B[last] \in Seq(Nat)
    BY <2>1
  <2> QED
    BY <2>1, <2>2
<1>2. \A i \in 1..last : \A k \in DOMAIN B[i] : /\ k \in DOMAIN C[i] /\ C[i][k] = B[i][k] /\ ~new(i, k)
                                                /\ B[i][k] \in 1..n
  <2>1. \A i \in 1..last : \A k \in DOMAIN B[i] : B[i][k] \in 1..n
    BY <1>1, Zenon DEF Ordered
  <2>2. TAKE i \in 1..last
  <2>3. TAKE k \in DOMAIN B[i]
  <2>4. CASE i = last
    BY <1>1, <2>1, <2>4
  <2>5. CASE i # last
    BY <2>1, <2>5
  <2> QED
    BY <2>4, <2>5
<1>3. \A i \in 1..last : \A k \in DOMAIN C[i] : k \in DOMAIN B[i] \/ (new(i, k) /\ C[i][k] = n + 1)
  <2>2. TAKE i \in 1..last
  <2>3. TAKE k \in DOMAIN C[i]
  <2>4. CASE i = last
    BY <1>1, <2>4
  <2>5. CASE i # last
    BY <2>5
  <2> QED
    BY <2>4, <2>5
<1>4. Placed(C, n + 1)
  <2> SUFFICES ASSUME NEW r \in 1..(n + 1)
               PROVE  \E i \in 1..last : \E k \in DOMAIN C[i] : C[i][k] = r
    BY <1>1, Zenon DEF Placed
  <2>1. CASE r = n + 1
    <3>1. len + 1 \in DOMAIN C[last] /\ C[last][len + 1] = r
      BY <1>1, <2>1
    <3> QED
      BY <1>1, <3>1, Zenon
  <2>2. CASE r # n + 1
    <3>1. r \in 1..n
      BY <2>2
    <3>2. \E i \in 1..last : \E k \in DOMAIN B[i] : B[i][k] = r
      BY <1>1, <3>1, Zenon DEF Placed
    <3> QED
      BY <1>2, <3>2, Zenon
  <2> QED
    BY <2>1, <2>2
<1>5. Ordered(C, n + 1)
  <2> SUFFICES ASSUME NEW i \in 1..last, NEW j \in 1..last, NEW k \in DOMAIN C[i], NEW l \in DOMAIN C[j]
               PROVE  /\ C[i][k] \in 1..(n + 1)
                      /\ i < j \/ (i = j /\ k < l) => C[i][k] < C[j][l]
    BY <1>1, Zenon DEF Ordered
  <2>1. C[i][k] \in 1..(n + 1)
    <3>1. C[i][k] \in 1..n \/ C[i][k] = n + 1
      BY <1>2, <1>3, Zenon
    <3>2. 1..n \subseteq 1..(n + 1) /\ n + 1 \in 1..(n + 1)
      BY ONLY n \in Nat
    <3> QED
      BY <3>1, <3>2, Zenon
  <2>2. ASSUME i < j \/ (i = j /\ k < l) PROVE C[i][k] < C[j][l]
    <3>1. CASE k \in DOMAIN B[i] /\ l \in DOMAIN B[j]
      <4>1. B[i][k] < B[j][l]
        BY <1>1, <3>1, <2>2, Zenon DEF Ordered
      <4> QED
        BY <4>1, <1>2, <3>1
    <3>2. CASE k \in DOMAIN B[i] /\ new(j, l) /\ C[j][l] = n + 1
      <4>1. C[i][k] \in 1..n
        BY <1>2, <3>2, Zenon
      <4> QED
        BY ONLY <4>1, <3>2, n \in Nat
    <3>3. CASE new(i, k)
      <4>1. i = last /\ j = last /\ k = len + 1 /\ k < l
        BY <2>2, <3>3
      <4>2. l \in 1..(len + 1)
        BY <4>1, <1>1
      <4> QED
        BY ONLY <4>1, <4>2, <1>1
    <3> QED
      BY <1>3, <3>1, <3>2, <3>3, Zenon
  <2> QED
    BY <2>1, <2>2
<1> QED
  BY <1>4, <1>5

\* An empty batch behind all others.
LEMMA BatchAdded ==
    ASSUME NEW last \in Nat, NEW n \in Nat, NEW B, NEW C, DOMAIN B = 1..last, DOMAIN C = 1..(last + 1),
           \A i \in 1..last : C[i] = B[i], C[last + 1] = <<>>, Placed(B, n), Ordered(B, n)
    PROVE  Placed(C, n) /\ Ordered(C, n)
<1>1. /\ 1..last \subseteq 1..(last + 1) /\ \A i \in 1..(last + 1) : i \in 1..last \/ i = last + 1
      /\ DOMAIN C[last + 1] = {}
  OBVIOUS
<1>2. Placed(C, n)
  <2> SUFFICES ASSUME NEW r \in 1..n PROVE \E i \in DOMAIN C : \E k \in DOMAIN C[i] : C[i][k] = r
    BY Zenon DEF Placed
  <2>1. PICK i \in DOMAIN B : \E k \in DOMAIN B[i] : B[i][k] = r
    BY Zenon DEF Placed
  <2>2. i \in DOMAIN C /\ C[i] = B[i]
    BY <1>1, Zenon
  <2> QED
    BY <2>1, <2>2, Zenon
<1>3. \A i \in DOMAIN C : \A k \in DOMAIN C[i] : i \in DOMAIN B /\ k \in DOMAIN B[i] /\ C[i] = B[i]
  BY <1>1, Zenon
<1>4. Ordered(C, n)
  BY <1>3, Zenon DEF Ordered
<1> QED
  BY <1>2, <1>4

\* A step that leaves list, datagrams and their owner alone keeps what is said of the records.
LEMMA QuietSteps ==
    ASSUME EveryRecordOnce, UNCHANGED <<recordList, listOwner, datagrams, accepted>>
    PROVE  NoneLost' /\ InOrder' /\ OneAtATime' /\ DatagramFits'
<1>1. Batches' = Batches
  BY Zenon DEF Batches
<1>2. NoneLost' /\ InOrder'
  <2>1. accepted' = accepted /\ NoneLost /\ InOrder
    BY Zenon DEF EveryRecordOnce
  <2>2. NoneLost'
    BY ONLY <1>1, <2>1 DEF NoneLost
  <2>3. InOrder'
    BY ONLY <1>1, <2>1 DEF InOrder
  <2> QED
    BY <2>2, <2>3
<1>3. OneAtATime' /\ DatagramFits'
  BY Zenon DEF EveryRecordOnce, OneAtATime, DatagramFits
<1> QED
  BY <1>2, <1>3

\* What is true of a destroyed reporter follows from what its destructor knows.
LEMMA GoneEmptyAfter ==
    ASSUME PskTypeOK', OwnersInv', DestructorInv'
    PROVE  GoneEmpty'
<1> SUFFICES ASSUME dtor' = "gone"
             PROVE  recordList' = <<>> /\ sendThread' = "none" /\ \A r \in Runners : report'[r] = "off"
  BY DEF GoneEmpty
<1>1. recordList' = <<>> /\ sendThread' = "none"
  BY DEF DestructorInv
<1>2. report'["thread"] = "off" /\ report'["dtor"] = "off"
  BY <1>1 DEF OwnersInv
<1> QED
  BY <1>1, <1>2 DEF Runners

\* The initial state.
LEMMA PskStarts == PskInit => PskIInv
<1> SUFFICES ASSUME PskInit PROVE PskIInv
  OBVIOUS
<1>1. PskTypeOK
  BY DEF PskInit, PskTypeOK, Runners
<1>2. OwnersInv /\ DestructorInv
  BY DEF PskInit, OwnersInv, DestructorInv, Networking, Runners
<1>3. ListInv
  BY WaitingFinite, PskAssumption DEF PskInit, ListInv, Runners
<1>4. NoneLost /\ InOrder
  <2>1. accepted = 0 /\ recordList = <<>> /\ datagrams = <<>>
    BY DEF PskInit
  <2>2. \A i \in DOMAIN Batches : DOMAIN Batches[i] = {}
    BY <2>1 DEF Batches
  <2>3. InOrder
    BY <2>2 DEF InOrder
  <2> QED
    BY <2>1, <2>3 DEF NoneLost
<1>5. OneAtATime /\ DatagramFits
  BY DEF PskInit, OneAtATime, DatagramFits
<1>6. GoneEmpty
  BY DEF PskInit, GoneEmpty
<1> QED
  BY <1>1, <1>2, <1>3, <1>4, <1>5, <1>6 DEF PskIInv, EveryRecordOnce

\* Calls of addReceiveRecord and send: the caller moves, and the list can only be longer than
\* allowed by those who wait.
LEMMA CallsKeep ==
    ASSUME PskIInv, NEW c \in Callers, CallAdd(c) \/ CallSend(c) \/ LockSend(c)
    PROVE  PskIInv'
<1>1. /\ UNCHANGED <<recordList, listOwner, sendThread, report, dtor, datagrams, accepted>>
      /\ \/ pc[c] = "idle" /\ dtor = "alive" /\ pc' = [pc EXCEPT ![c] = "adding"]
         \/ pc[c] = "idle" /\ dtor = "alive" /\ pc' = [pc EXCEPT ![c] = "send"]
         \/ pc[c] = "send" /\ pc' = [pc EXCEPT ![c] = "join"]
  BY Zenon DEF CallAdd, CallSend, LockSend
<1>2. PskTypeOK'
  <2>1. pc' \in [Callers -> {"idle", "adding", "send", "join"}]
    BY <1>1 DEF PskIInv, PskTypeOK
  <2> QED
    BY ONLY <1>1, <2>1, PskIInv, Zenon DEF PskIInv, PskTypeOK
<1>3. OwnersInv'
  BY ONLY <1>1, PskIInv, Zenon DEF PskIInv, OwnersInv, Networking
<1>4. DestructorInv'
  <2>1. dtor = "alive"
    BY <1>1 DEF PskIInv, DestructorInv, PskTypeOK
  <2> QED
    BY <1>1, <2>1 DEF DestructorInv
<1>5. ListInv'
  <2>1. /\ Cardinality(Waiting) \in Nat /\ Cardinality(Waiting') \in Nat
        /\ Cardinality(Waiting') >= Cardinality(Waiting)
    <3>1. CASE pc[c] = "idle" /\ pc' = [pc EXCEPT ![c] = "adding"]
      <4>1. Waiting' = Waiting
        BY <3>1, WaitingSame DEF PskIInv, Waiting
      <4> QED
        BY <4>1, WaitingFinite
    <3>2. CASE pc[c] = "idle" /\ pc' = [pc EXCEPT ![c] = "send"]
      <4>1. Cardinality(Waiting') = Cardinality(Waiting) + 1
        BY <3>2, WaitingGrows, Zenon DEF PskIInv, Waiting
      <4> QED
        BY <4>1, WaitingFinite
    <3>3. CASE pc[c] = "send" /\ pc' = [pc EXCEPT ![c] = "join"]
      <4>1. Waiting' = Waiting
        BY <3>3, WaitingSame DEF PskIInv, Waiting
      <4> QED
        BY <4>1, WaitingFinite
    <3> QED
      BY <1>1, <3>1, <3>2, <3>3
  <2>2. Len(recordList) \in Nat
    BY DEF PskIInv, PskTypeOK
  <2> QED
    BY ONLY <1>1, <2>1, <2>2, ListInv, PskAssumption, PskIInv DEF PskIInv, ListInv
<1>6. NoneLost' /\ InOrder' /\ OneAtATime' /\ DatagramFits'
  BY <1>1, QuietSteps DEF PskIInv
<1>7. GoneEmpty'
  BY <1>2, <1>3, <1>4, GoneEmptyAfter
<1> QED
  BY <1>2, <1>3, <1>4, <1>5, <1>6, <1>7 DEF PskIInv, EveryRecordOnce

\* send starts the thread when the one before is over: whoever waited now has a thread about to
\* take the list.
LEMMA StartKeeps ==
    ASSUME PskIInv, NEW c \in Callers, StartThread(c)
    PROVE  PskIInv'
<1>1. /\ UNCHANGED <<recordList, listOwner, dtor, datagrams, accepted>>
      /\ pc[c] = "join" /\ pc' = [pc EXCEPT ![c] = "idle"] /\ sendThread # "running"
      /\ sendThread' = "running" /\ report' = [report EXCEPT !["thread"] = "lock"]
  BY Zenon DEF StartThread
<1>2. /\ report["thread"] = "off" /\ report'["thread"] = "lock" /\ report'["dtor"] = report["dtor"]
      /\ report' \in [Runners -> {"off", "lock", "getaddrinfo", "socket", "sendto"}]
  BY <1>1 DEF PskIInv, PskTypeOK, OwnersInv, Runners
<1>3. PskTypeOK'
  <2>1. pc' \in [Callers -> {"idle", "adding", "send", "join"}]
    BY <1>1 DEF PskIInv, PskTypeOK
  <2> QED
    BY ONLY <1>1, <1>2, <2>1, PskIInv, Zenon DEF PskIInv, PskTypeOK
<1>4. OwnersInv'
  BY ONLY <1>1, <1>2, PskIInv DEF PskIInv, OwnersInv, Networking, Runners
<1>5. DestructorInv'
  <2>1. dtor = "alive"
    BY <1>1 DEF PskIInv, DestructorInv, PskTypeOK
  <2> QED
    BY <1>1, <2>1 DEF DestructorInv
<1>6. ListInv'
  <2>1. Cardinality(Waiting') = Cardinality(Waiting) - 1
    BY <1>1, WaitingShrinks, Zenon DEF PskIInv, Waiting
  <2>2. Len(recordList) \in Nat
    BY DEF PskIInv, PskTypeOK
  <2> QED
    BY ONLY <1>1, <1>2, <2>1, <2>2, WaitingFinite, PskAssumption, PskIInv DEF PskIInv, ListInv
<1>7. NoneLost' /\ InOrder' /\ OneAtATime' /\ DatagramFits'
  BY <1>1, QuietSteps DEF PskIInv
<1>8. GoneEmpty'
  BY <1>3, <1>4, <1>5, GoneEmptyAfter
<1> QED
  BY <1>3, <1>4, <1>5, <1>6, <1>7, <1>8 DEF PskIInv, EveryRecordOnce

\* The destructor's steps before and after its report: it never meets a caller, and looks at the
\* list when nobody is left to change it.
LEMMA DestructorKeeps ==
    ASSUME PskIInv, DestroyPsk \/ JoinThread \/ CheckList
    PROVE  PskIInv'
<1>1. UNCHANGED <<recordList, listOwner, pc, datagrams, accepted>>
  BY Zenon DEF DestroyPsk, JoinThread, CheckList
<1>2. \/ /\ dtor = "alive" /\ dtor' = "join" /\ UNCHANGED <<sendThread, report>>
         /\ \A c \in Callers : pc[c] = "idle"
      \/ /\ dtor = "join" /\ dtor' = "check" /\ sendThread # "running" /\ sendThread' = "none"
         /\ UNCHANGED report
      \/ /\ dtor = "check" /\ recordList = <<>> /\ dtor' = "gone" /\ UNCHANGED <<sendThread, report>>
      \/ /\ dtor = "check" /\ dtor' = "report" /\ UNCHANGED sendThread
         /\ report' = [report EXCEPT !["dtor"] = "lock"]
  BY Zenon DEF DestroyPsk, JoinThread, CheckList
<1>3. /\ report' \in [Runners -> {"off", "lock", "getaddrinfo", "socket", "sendto"}]
      /\ report'["thread"] = report["thread"]
      /\ report'["dtor"] = report["dtor"] \/ (dtor' = "report" /\ report'["dtor"] = "lock")
      /\ dtor' = "report" => report["dtor"] = "off"
  BY <1>2 DEF PskIInv, PskTypeOK, OwnersInv, Runners
<1>4. PskTypeOK'
  <2>1. /\ dtor' \in {"alive", "join", "check", "report", "gone"}
        /\ sendThread' \in {"none", "running", "finished"}
    BY <1>2 DEF PskIInv, PskTypeOK
  <2> QED
    BY ONLY <1>1, <1>3, <2>1, PskIInv, Zenon DEF PskIInv, PskTypeOK
<1>5. OwnersInv'
  BY ONLY <1>1, <1>2, <1>3, PskIInv DEF PskIInv, OwnersInv, Networking, Runners, PskTypeOK
<1>6. DestructorInv'
  BY ONLY <1>1, <1>2, <1>3, PskIInv DEF PskIInv, DestructorInv, Networking, Runners, PskTypeOK
<1>7. ListInv'
  <2>1. Waiting' = Waiting
    BY <1>1, Zenon DEF Waiting
  <2> QED
    BY ONLY <1>1, <1>3, <2>1, PskIInv, Zenon DEF PskIInv, ListInv
<1>8. NoneLost' /\ InOrder' /\ OneAtATime' /\ DatagramFits'
  BY <1>1, QuietSteps DEF PskIInv
<1>9. GoneEmpty'
  BY <1>4, <1>5, <1>6, GoneEmptyAfter
<1> QED
  BY <1>4, <1>5, <1>6, <1>7, <1>8, <1>9 DEF PskIInv, EveryRecordOnce

-------------------------------------------------------------------------------
\* addReceiveRecord's locked part: the record is behind all others, and whoever makes the list
\* full goes on to send().
LEMMA PushKeeps ==
    ASSUME PskIInv, NEW c \in Callers, PushRecord(c)
    PROVE  PskIInv'
<1> DEFINE last == Len(datagrams) + 1
<1>1. /\ pc[c] = "adding" /\ listOwner = "none"
      /\ recordList' = Append(recordList, accepted + 1) /\ accepted' = accepted + 1
      /\ pc' = [pc EXCEPT ![c] = IF Len(recordList') >= Full THEN "send" ELSE "idle"]
      /\ UNCHANGED <<listOwner, sendThread, report, dtor, datagrams>>
  BY Zenon DEF PushRecord
<1>2. /\ recordList \in Seq(Nat) /\ accepted \in Nat /\ recordList' \in Seq(Nat) /\ accepted' \in Nat
      /\ Len(recordList) \in Nat /\ Len(recordList') = Len(recordList) + 1
      /\ DOMAIN recordList = 1..Len(recordList) /\ DOMAIN recordList' = 1..(Len(recordList) + 1)
      /\ \A k \in DOMAIN recordList : recordList'[k] = recordList[k]
      /\ recordList'[Len(recordList) + 1] = accepted + 1
  BY <1>1 DEF PskIInv, PskTypeOK
<1>3. PskTypeOK'
  <2>1. pc' \in [Callers -> {"idle", "adding", "send", "join"}]
    BY <1>1 DEF PskIInv, PskTypeOK
  <2> QED
    BY ONLY <1>1, <1>2, <2>1, PskIInv, Zenon DEF PskIInv, PskTypeOK
<1>4. OwnersInv'
  BY ONLY <1>1, PskIInv, Zenon DEF PskIInv, OwnersInv, Networking
<1>5. DestructorInv'
  <2>1. dtor = "alive"
    BY <1>1 DEF PskIInv, DestructorInv, PskTypeOK
  <2> QED
    BY <1>1, <2>1 DEF DestructorInv
<1>6. ListInv'
  <2>1. c \notin Waiting
    BY <1>1 DEF Waiting
  <2>2. CASE Len(recordList') >= Full
    <3>1. Cardinality(Waiting') = Cardinality(Waiting) + 1
      BY <1>1, <2>1, <2>2, WaitingGrows, Zenon DEF PskIInv
    <3> QED
      BY ONLY <1>1, <1>2, <3>1, WaitingFinite, PskAssumption, PskIInv DEF PskIInv, ListInv
  <2>3. CASE ~(Len(recordList') >= Full)
    <3>1. Waiting' = Waiting
      BY <1>1, <2>1, <2>3, WaitingSame, Zenon DEF PskIInv
    <3> QED
      BY ONLY <1>1, <1>2, <2>3, <3>1, WaitingFinite, PskAssumption DEF ListInv
  <2> QED
    BY <2>2, <2>3
<1>7. NoneLost' /\ InOrder'
  <2>1. /\ last \in Nat \ {0} /\ Batches \in [1..last -> Seq(Nat)] /\ Batches[last] = recordList
        /\ \A i \in 1..Len(datagrams) : Batches[i] = datagrams[i].recs
    BY BatchesAre, BatchTypes DEF PskIInv, PskTypeOK
  <2>2. /\ Batches' \in [1..last -> Seq(Nat)] /\ Batches'[last] = recordList'
        /\ \A i \in 1..Len(datagrams) : Batches'[i] = datagrams[i].recs
    <3>1. datagrams' = datagrams /\ datagrams \in Seq(Datagram)
      BY <1>1, Zenon DEF PskIInv, PskTypeOK
    <3> QED
      BY ONLY <1>2, <3>1, BatchesAre, BatchTypes
  <2>3. \A i \in 1..last : i # last => Batches'[i] = Batches[i]
    BY <2>1, <2>2
  <2>4. Placed(Batches, accepted) /\ Ordered(Batches, accepted)
    BY Zenon DEF Placed, Ordered, PskIInv, EveryRecordOnce, NoneLost, InOrder
  <2>5. Placed(Batches', accepted + 1) /\ Ordered(Batches', accepted + 1)
    BY ONLY <1>1, <1>2, <2>1, <2>2, <2>3, <2>4, RecordAdded, Zenon
  <2> QED
    BY <1>1, <2>5, Zenon DEF Placed, Ordered, NoneLost, InOrder
<1>10. OneAtATime' /\ DatagramFits'
  BY ONLY <1>1, PskIInv, Zenon DEF PskIInv, EveryRecordOnce, OneAtATime, DatagramFits
<1>11. GoneEmpty'
  BY <1>3, <1>4, <1>5, GoneEmptyAfter
<1> QED
  BY <1>3, <1>4, <1>5, <1>6, <1>7, <1>10, <1>11 DEF PskIInv, EveryRecordOnce

\* reportCommon_'s locked part: the list becomes the last datagram and starts anew.
LEMMA BuildKeeps ==
    ASSUME PskIInv, NEW r \in Runners, BuildDatagram(r)
    PROVE  PskIInv'
<1> DEFINE len == Len(datagrams)
           new == [seq |-> len, recs |-> recordList, outcome |-> "pending"]
<1>1. /\ report[r] = "lock" /\ listOwner = "none" /\ listOwner' = r
      /\ report' = [report EXCEPT ![r] = "getaddrinfo"] /\ recordList' = <<>>
      /\ datagrams' = Append(datagrams, new)
      /\ UNCHANGED <<sendThread, pc, dtor, accepted>>
  BY Zenon DEF BuildDatagram
<1>2. /\ report' \in [Runners -> {"off", "lock", "getaddrinfo", "socket", "sendto"}]
      /\ report'[r] = "getaddrinfo" /\ \A q \in Runners : q # r => report'[q] = report[q]
  BY <1>1 DEF PskIInv, PskTypeOK
<1>3. /\ datagrams \in Seq(Datagram) /\ recordList \in Seq(Nat) /\ len \in Nat /\ new \in Datagram
      /\ DOMAIN datagrams = 1..len
  BY DEF PskIInv, PskTypeOK, Datagram
<1>4. /\ datagrams' \in Seq(Datagram) /\ Len(datagrams') = len + 1 /\ DOMAIN datagrams' = 1..(len + 1)
      /\ \A i \in 1..len : datagrams'[i] = datagrams[i]
      /\ datagrams'[len + 1] = new
  <2> HIDE DEF new
  <2> QED
    BY ONLY <1>1, <1>3
<1>5. <<>> \in Seq(Nat) /\ Len(<<>>) = 0
  OBVIOUS
<1>6. PskTypeOK'
  BY ONLY <1>1, <1>2, <1>4, <1>5, PskIInv, Zenon DEF PskIInv, PskTypeOK
<1>7. OwnersInv'
  <2>1. \A q \in Runners : Networking(q)' <=> listOwner' = q
    BY ONLY <1>1, <1>2, PskIInv DEF PskIInv, OwnersInv, Networking, Runners
  <2>2. Len(datagrams') > 0
    BY ONLY <1>3, <1>4
  <2>3. \A q \in Runners : report'[q] = "off" <=> report[q] = "off"
    BY ONLY <1>1, <1>2
  <2>4. "thread" \in Runners /\ "dtor" \in Runners
    BY DEF Runners
  <2> QED
    BY ONLY <1>1, <2>1, <2>2, <2>3, <2>4, PskIInv, Zenon DEF PskIInv, OwnersInv
<1>8. DestructorInv'
  BY ONLY <1>1, PskIInv, Zenon DEF PskIInv, DestructorInv
<1>9. ListInv'
  <2>1. Waiting' = Waiting
    BY <1>1, Zenon DEF Waiting
  <2> QED
    BY ONLY <1>1, <1>5, <2>1, WaitingFinite, PskAssumption DEF ListInv
<1>10. NoneLost' /\ InOrder'
  <2>1. /\ DOMAIN Batches = 1..(len + 1) /\ Batches[len + 1] = recordList
        /\ \A i \in 1..len : Batches[i] = datagrams[i].recs
    BY ONLY <1>3, BatchesAre, BatchTypes
  <2>2. /\ DOMAIN Batches' = 1..(len + 1 + 1) /\ Batches'[len + 1 + 1] = <<>>
        /\ \A i \in 1..(len + 1) : Batches'[i] = datagrams'[i].recs
    <3>1. recordList' \in Seq(Nat)
      BY ONLY <1>1, <1>5
    <3>2. /\ DOMAIN Batches' = 1..(Len(datagrams') + 1) /\ Batches'[Len(datagrams') + 1] = recordList'
          /\ \A i \in 1..Len(datagrams') : Batches'[i] = datagrams'[i].recs
      BY ONLY <1>4, <3>1, BatchesAre, BatchTypes, Zenon
    <3> QED
      BY ONLY <1>1, <1>4, <3>2, Zenon
  <2>3. \A i \in 1..(len + 1) : Batches'[i] = Batches[i]
    <3>1. \A i \in 1..(len + 1) : i \in 1..len \/ i = len + 1
      BY ONLY <1>3
    <3>2. \A i \in 1..len : i \in 1..(len + 1)
      BY ONLY <1>3
    <3>3. new.recs = recordList /\ len + 1 \in 1..(len + 1)
      BY ONLY <1>3
    <3> HIDE DEF new
    <3> QED
      BY ONLY <1>4, <2>1, <2>2, <3>1, <3>2, <3>3, Zenon
  <2>4. Placed(Batches, accepted) /\ Ordered(Batches, accepted)
    BY Zenon DEF Placed, Ordered, PskIInv, EveryRecordOnce, NoneLost, InOrder
  <2>5. len + 1 \in Nat /\ accepted \in Nat
    BY <1>3 DEF PskIInv, PskTypeOK
  <2>6. Placed(Batches', accepted) /\ Ordered(Batches', accepted)
    BY ONLY <2>1, <2>2, <2>3, <2>4, <2>5, BatchAdded
  <2> QED
    BY <1>1, <2>6, Zenon DEF Placed, Ordered, NoneLost, InOrder
<1>11. OneAtATime'
  <2>1. SUFFICES ASSUME NEW i \in 1..(len + 1)
                 PROVE  /\ datagrams'[i].seq = i - 1
                        /\ datagrams'[i].outcome = "pending" => i = len + 1
    <3>1. listOwner' # "none"
      BY <1>1 DEF Runners
    <3> QED
      BY ONLY <1>4, <2>1, <3>1, Zenon DEF OneAtATime
  <2>2. CASE i = len + 1
    BY ONLY <1>3, <1>4, <2>2
  <2>3. CASE i # len + 1
    <3>1. i \in 1..len
      BY ONLY <1>3, <2>3, i \in 1..(len + 1)
    <3>2. datagrams[i].seq = i - 1 /\ datagrams[i].outcome # "pending"
      BY ONLY <1>1, <1>3, <3>1, PskIInv, Zenon DEF PskIInv, EveryRecordOnce, OneAtATime
    <3> QED
      BY ONLY <1>4, <3>1, <3>2, Zenon
  <2> QED
    BY <2>2, <2>3
<1>12. DatagramFits'
  <2>1. Len(recordList) <= Full + Cardinality(Callers)
    BY ONLY <1>3, WaitingFinite, PskAssumption, PskIInv DEF PskIInv, ListInv
  <2>2. \A i \in 1..len : Len(datagrams[i].recs) <= Full + Cardinality(Callers)
    BY ONLY <1>3, PskIInv, Zenon DEF PskIInv, EveryRecordOnce, DatagramFits
  <2>3. \A i \in 1..(len + 1) : i \in 1..len \/ i = len + 1
    BY ONLY <1>3
  <2>4. new.recs = recordList
    OBVIOUS
  <2> HIDE DEF new
  <2> QED
    BY ONLY <1>4, <2>1, <2>2, <2>3, <2>4, Zenon DEF DatagramFits
<1>13. GoneEmpty'
  BY <1>6, <1>7, <1>8, GoneEmptyAfter
<1> QED
  BY <1>6, <1>7, <1>8, <1>9, <1>10, <1>11, <1>12, <1>13 DEF PskIInv, EveryRecordOnce

\* A network call that is not the last returns.
LEMMA NetworkGoesOn ==
    ASSUME PskIInv, NEW r \in Runners, Networking(r), NEW to \in {"socket", "sendto"},
           report' = [report EXCEPT ![r] = to],
           UNCHANGED <<recordList, listOwner, sendThread, pc, dtor, datagrams, accepted>>
    PROVE  PskIInv'
<1>1. /\ report' \in [Runners -> {"off", "lock", "getaddrinfo", "socket", "sendto"}]
      /\ \A q \in Runners : /\ report'[q] = "off" <=> report[q] = "off"
                            /\ report'[q] = "lock" <=> report[q] = "lock"
                            /\ Networking(q)' <=> Networking(q)
  BY DEF PskIInv, PskTypeOK, Networking, Runners
<1>2. "thread" \in Runners /\ "dtor" \in Runners
  BY DEF Runners
<1>3. PskTypeOK'
  BY <1>1, Zenon DEF PskIInv, PskTypeOK
<1>4. OwnersInv'
  BY <1>1, <1>2, Zenon DEF PskIInv, OwnersInv
<1>5. DestructorInv'
  BY <1>1, <1>2, Zenon DEF PskIInv, DestructorInv
<1>6. ListInv'
  <2>1. Waiting' = Waiting
    BY Zenon DEF Waiting
  <2> QED
    BY <1>1, <1>2, <2>1, Zenon DEF PskIInv, ListInv
<1>7. NoneLost' /\ InOrder' /\ OneAtATime' /\ DatagramFits'
  BY QuietSteps DEF PskIInv
<1>8. GoneEmpty'
  BY <1>3, <1>4, <1>5, GoneEmptyAfter
<1> QED
  BY <1>3, <1>4, <1>5, <1>6, <1>7, <1>8 DEF PskIInv, EveryRecordOnce

\* reportCommon_ returns: the datagram is sent or lost, and the list is free again.
LEMMA FinishKeeps ==
    ASSUME PskIInv, NEW r \in Runners, Networking(r), NEW outcome \in {"failed", "sent"},
           Finish(r, outcome), UNCHANGED <<recordList, pc, accepted>>
    PROVE  PskIInv'
<1> DEFINE len == Len(datagrams)
<1>1. /\ datagrams' = [datagrams EXCEPT ![len].outcome = outcome]
      /\ listOwner' = "none" /\ report' = [report EXCEPT ![r] = "off"]
      /\ sendThread' = IF r = "thread" THEN "finished" ELSE sendThread
      /\ dtor' = IF r = "dtor" THEN "gone" ELSE dtor
  BY Zenon DEF Finish
<1>2. /\ report' \in [Runners -> {"off", "lock", "getaddrinfo", "socket", "sendto"}]
      /\ report'[r] = "off" /\ \A q \in Runners : q # r => report'[q] = report[q]
      /\ listOwner = r /\ len > 0
  BY <1>1 DEF PskIInv, PskTypeOK, OwnersInv, Runners
<1>3. /\ datagrams \in Seq(Datagram) /\ recordList \in Seq(Nat) /\ len \in Nat /\ DOMAIN datagrams = 1..len
      /\ len \in DOMAIN datagrams /\ datagrams[len] \in Datagram
  BY <1>2 DEF PskIInv, PskTypeOK
<1>4. /\ datagrams' \in Seq(Datagram) /\ Len(datagrams') = len /\ DOMAIN datagrams' = 1..len
      /\ \A i \in 1..len : i # len => datagrams'[i] = datagrams[i]
      /\ datagrams'[len].seq = datagrams[len].seq /\ datagrams'[len].recs = datagrams[len].recs
      /\ datagrams'[len].outcome = outcome
  <2> DEFINE ended == [datagrams[len] EXCEPT !.outcome = outcome]
  <2>1. /\ ended \in Datagram /\ ended.seq = datagrams[len].seq /\ ended.recs = datagrams[len].recs
        /\ ended.outcome = outcome
    BY ONLY <1>3, outcome \in {"failed", "sent"}, Zenon DEF Datagram
  <2>2. datagrams' = [datagrams EXCEPT ![len] = ended]
    BY ONLY <1>1
  <2> HIDE DEF ended
  <2>3. /\ datagrams' \in Seq(Datagram) /\ Len(datagrams') = len /\ DOMAIN datagrams' = 1..len
        /\ \A i \in 1..len : i # len => datagrams'[i] = datagrams[i]
        /\ datagrams'[len] = ended
    BY ONLY <1>3, <2>1, <2>2, ExceptSeq, Zenon
  <2> QED
    BY ONLY <2>1, <2>3, Zenon
<1>5. PskTypeOK'
  <2>1. /\ sendThread' \in {"none", "running", "finished"}
        /\ dtor' \in {"alive", "join", "check", "report", "gone"}
    BY <1>1 DEF PskIInv, PskTypeOK
  <2> QED
    BY ONLY <1>1, <1>2, <1>4, <2>1, PskIInv, UNCHANGED <<recordList, pc, accepted>>, Zenon
       DEF PskIInv, PskTypeOK
<1>6. OwnersInv'
  BY ONLY <1>1, <1>2, PskIInv, r \in Runners DEF PskIInv, OwnersInv, Networking, Runners, PskTypeOK
<1>7. DestructorInv'
  <2>1. r = "dtor" => dtor = "report" /\ recordList = <<>>
    BY <1>2 DEF PskIInv, OwnersInv, DestructorInv, Networking, Runners
  <2>2. dtor \in {"check", "report", "gone"} => r # "thread"
    BY <1>2 DEF PskIInv, OwnersInv, DestructorInv, Networking, Runners
  <2>3. r = "thread" => report'["dtor"] = report["dtor"]
    BY <1>2 DEF Runners
  <2> QED
    BY ONLY <1>1, <2>1, <2>2, <2>3, PskIInv, r \in Runners, UNCHANGED <<recordList, pc>>
       DEF PskIInv, DestructorInv, Networking, Runners
<1>8. ListInv'
  <2>1. Waiting' = Waiting
    BY Zenon DEF Waiting
  <2>2. report'["thread"] = "lock" <=> report["thread"] = "lock"
    BY <1>2 DEF Runners, Networking
  <2> QED
    BY <2>1, <2>2, Zenon DEF PskIInv, ListInv
<1>9. NoneLost' /\ InOrder'
  <2>1. /\ Batches \in [1..(len + 1) -> Seq(Nat)] /\ Batches[len + 1] = recordList
        /\ \A i \in 1..len : Batches[i] = datagrams[i].recs
    BY ONLY <1>3, BatchesAre, BatchTypes
  <2>2. /\ Batches' \in [1..(len + 1) -> Seq(Nat)] /\ Batches'[len + 1] = recordList
        /\ \A i \in 1..len : Batches'[i] = datagrams'[i].recs
    <3>1. recordList' \in Seq(Nat) /\ recordList' = recordList
      BY <1>3
    <3>2. /\ Batches' \in [1..(Len(datagrams') + 1) -> Seq(Nat)]
          /\ Batches'[Len(datagrams') + 1] = recordList'
          /\ \A i \in 1..Len(datagrams') : Batches'[i] = datagrams'[i].recs
      BY ONLY <1>4, <3>1, BatchesAre, BatchTypes, Zenon
    <3> QED
      BY ONLY <1>4, <3>1, <3>2, Zenon
  <2>3. \A i \in 1..(len + 1) : Batches'[i] = Batches[i]
    <3>1. \A i \in 1..len : datagrams'[i].recs = datagrams[i].recs
      BY ONLY <1>4, Zenon
    <3>2. \A i \in 1..(len + 1) : i \in 1..len \/ i = len + 1
      BY ONLY <1>3
    <3> QED
      BY ONLY <2>1, <2>2, <3>1, <3>2, Zenon
  <2>4. Batches' = Batches
    BY ONLY <2>1, <2>2, <2>3
  <2>5. accepted' = accepted /\ NoneLost /\ InOrder
    BY Zenon DEF PskIInv, EveryRecordOnce
  <2>6. NoneLost'
    BY ONLY <2>4, <2>5 DEF NoneLost
  <2>7. InOrder'
    BY ONLY <2>4, <2>5 DEF InOrder
  <2> QED
    BY <2>6, <2>7
<1>10. OneAtATime'
  <2> SUFFICES ASSUME NEW i \in 1..len
               PROVE  datagrams'[i].seq = i - 1 /\ datagrams'[i].outcome # "pending"
    BY <1>4, Zenon DEF OneAtATime
  <2>1. datagrams[i].seq = i - 1 /\ (datagrams[i].outcome = "pending" => i = len)
    BY ONLY <1>3, PskIInv, Zenon DEF PskIInv, EveryRecordOnce, OneAtATime
  <2> QED
    BY ONLY <1>4, <2>1, outcome \in {"failed", "sent"}, Zenon
<1>11. DatagramFits'
  <2>1. \A i \in 1..len : datagrams'[i].recs = datagrams[i].recs
    BY ONLY <1>4, Zenon
  <2> QED
    BY ONLY <1>3, <1>4, <2>1, PskIInv, Zenon DEF PskIInv, EveryRecordOnce, DatagramFits
<1>12. GoneEmpty'
  BY <1>5, <1>6, <1>7, GoneEmptyAfter
<1> QED
  BY <1>5, <1>6, <1>7, <1>8, <1>9, <1>10, <1>11, <1>12 DEF PskIInv, EveryRecordOnce

\* Every step of PskReporter.
LEMMA PskInductive == PskIInv /\ [PskNext]_pskVars => PskIInv'
<1> SUFFICES ASSUME PskIInv, [PskNext]_pskVars PROVE PskIInv'
  OBVIOUS
<1>1. ASSUME NEW c \in Callers, CallAdd(c) \/ CallSend(c) \/ CallSteps(c)
      PROVE  PskIInv'
  BY <1>1, CallsKeep, PushKeeps, StartKeeps, Zenon DEF CallSteps
<1>2. ASSUME NEW r \in Runners, Reporting(r)
      PROVE  PskIInv'
  <2>1. CASE BuildDatagram(r)
    BY <2>1, BuildKeeps
  <2>2. CASE NetworkStep(r)
    <3>1. Networking(r) /\ UNCHANGED <<recordList, pc, accepted>>
      BY <2>2, Zenon DEF NetworkStep, Networking
    <3>2. CASE Finish(r, "failed") \/ Finish(r, "sent")
      BY <3>1, <3>2, FinishKeeps
    <3>3. ASSUME NEW to \in {"socket", "sendto"}, report' = [report EXCEPT ![r] = to],
                 UNCHANGED <<listOwner, sendThread, dtor, datagrams>>
          PROVE  PskIInv'
      BY <3>1, <3>3, NetworkGoesOn, Zenon
    <3> QED
      BY <2>2, <3>2, <3>3, Zenon DEF NetworkStep
  <2> QED
    BY <1>2, <2>1, <2>2 DEF Reporting
<1>3. CASE DestroyPsk \/ Destructor
  BY <1>3, DestructorKeeps DEF Destructor
<1>4. CASE UNCHANGED pskVars
  <2>1. UNCHANGED <<recordList, listOwner, sendThread, pc, report, dtor, datagrams, accepted>>
    BY <1>4, Zenon DEF pskVars
  <2>2. NoneLost' /\ InOrder' /\ OneAtATime' /\ DatagramFits'
    BY <2>1, QuietSteps DEF PskIInv
  <2>3. PskTypeOK' /\ OwnersInv' /\ DestructorInv'
    BY <2>1, Zenon DEF PskIInv, PskTypeOK, OwnersInv, DestructorInv, Networking
  <2>4. Waiting' = Waiting
    BY <2>1, Zenon DEF Waiting
  <2>5. ListInv'
    BY <2>1, <2>4, Zenon DEF PskIInv, ListInv
  <2>6. GoneEmpty'
    BY <2>3, GoneEmptyAfter
  <2> QED
    BY <2>2, <2>3, <2>5, <2>6 DEF PskIInv, EveryRecordOnce
<1> QED
  BY <1>1, <1>2, <1>3, <1>4, Zenon DEF PskNext

\* PskReporter, for any number of callers and of records and any size of the list that is sent
\* early: every record that addReceiveRecord accepted is in exactly one datagram or still in the
\* list, in order; the datagrams are numbered without gaps and sent one at a time; a destroyed
\* reporter has no thread and no record left; no datagram has more than one record per caller over
\* the limit.
THEOREM PskKeepsRecords == PskSpec => []EveryRecordOnce
<1>1. PskIInv => EveryRecordOnce
  BY DEF PskIInv
<1> QED
  BY <1>1, PskStarts, PskInductive, PTL DEF PskSpec

-------------------------------------------------------------------------------
(* UdpHandler and UdpReporter *)

UdpTasks == [op : {"open", "send", "close"}, thread : UdpThreads \cup {Nobody}, buf : Nat]

\* The types of UdpHandler's and UdpReporter's state.
UdpTypeOK ==
    /\ udpTasks \in Seq(UdpTasks)
    /\ live \in [UdpThreads -> Nat] /\ udpPc \in [UdpThreads -> {"idle", "waiting", "done"}]
    /\ given \in Seq(Nat) /\ lastBuf \in Nat /\ lastFd \in Nat /\ udpSocket.fd \in Nat
    /\ life \in {"new", "opening", "open", "closing", "closed", "closingAgain", "gone"}

\* The i-th task is the call of a thread that waits for it, with the buffer that thread allocated.
\* The buffers of the queue are the last ones, in order.
Queued(i) ==
    /\ udpTasks[i].op = "send" /\ udpTasks[i].buf = lastBuf - Len(udpTasks) + i
    /\ udpTasks[i].thread \in UdpThreads /\ udpPc[udpTasks[i].thread] = "waiting"
    /\ live[udpTasks[i].thread] = udpTasks[i].buf

\* What is queued at each stage of the handler's life.
UdpQueueInv ==
    /\ life \in {"new", "closed", "gone"} => Len(udpTasks) = 0
    /\ life = "opening" => Len(udpTasks) = 1 /\ udpTasks[1] = UdpTask("open", Nobody, 0)
    /\ life \in {"closing", "closingAgain"} => Len(udpTasks) = 1 /\ udpTasks[1] = UdpTask("close", Nobody, 0)
    /\ life = "open" => Len(udpTasks) <= lastBuf /\ \A i \in 1..Len(udpTasks) : Queued(i)
    /\ life # "open" => \A t \in UdpThreads : udpPc[t] = "idle"
    /\ \A t \in UdpThreads : udpPc[t] = "idle" => live[t] = 0

\* The socket is there from open to close, and the receive thread and the groups with it.
UdpSocketInv ==
    /\ life \in {"new", "opening"} => lastBuf = 0 /\ Len(given) = 0
    /\ life \in {"new", "opening", "closed", "closingAgain", "gone"} => udpSocket.fd = 0
    /\ receiveThread => udpSocket.fd # 0
    /\ openFds = {udpSocket.fd} \ {0} /\ groups \subseteq openFds

\* The reporter's own socket has the family of the address.
UdpFamilyInv ==
    host = NoHost /\ destination.ok /\ udpSocket.fd # 0 => udpSocket.family = destination.family

\* What sendto was called with is the reports that are no longer queued, and what it refused is
\* among them.
UdpSentInv ==
    destination.ok =>
        /\ Len(given) + (IF life = "open" THEN Len(udpTasks) ELSE 0) = lastBuf
        /\ \A b \in 1..Len(given) : given[b] = b
        /\ refused \subseteq 1..Len(given)

UdpIInv == UdpTypeOK /\ UdpQueueInv /\ UdpSocketInv /\ UdpFamilyInv /\ UdpSentInv

\* The fields of the handler's own tasks.
LEMMA OwnTasks ==
    \A op : /\ UdpTask(op, Nobody, 0).op = op /\ UdpTask(op, Nobody, 0).buf = 0
BY DEF UdpTask

\* The first task tells where in its life the handler is.
LEMMA FirstTaskTells ==
    ASSUME UdpIInv, Len(udpTasks) # 0
    PROVE  \/ life = "opening" /\ Len(udpTasks) = 1 /\ udpTasks[1].op = "open" /\ udpTasks[1].buf = 0
           \/ life = "open" /\ udpTasks[1].op = "send"
           \/ /\ life \in {"closing", "closingAgain"} /\ Len(udpTasks) = 1
              /\ udpTasks[1].op = "close" /\ udpTasks[1].buf = 0
<1>1. Len(udpTasks) \in Nat
  BY DEF UdpIInv, UdpTypeOK
<1>2. life \notin {"new", "closed", "gone"}
  BY Zenon DEF UdpIInv, UdpQueueInv
<1>3. CASE life = "opening"
  BY <1>3, OwnTasks, Zenon DEF UdpIInv, UdpQueueInv
<1>4. CASE life \in {"closing", "closingAgain"}
  BY <1>4, OwnTasks, Zenon DEF UdpIInv, UdpQueueInv
<1>5. CASE life = "open"
  <2>1. 1 \in 1..Len(udpTasks)
    BY <1>1
  <2> QED
    BY <1>5, <2>1, Zenon DEF UdpIInv, UdpQueueInv, Queued
<1>6. life \in {"opening", "closing", "closingAgain", "open"}
  <2>1. life \in {"new", "opening", "open", "closing", "closed", "closingAgain", "gone"}
    BY Zenon DEF UdpIInv, UdpTypeOK
  <2> QED
    BY ONLY <1>2, <2>1
<1> QED
  BY <1>3, <1>4, <1>5, <1>6, Zenon

\* The inductive invariant is strong enough.
LEMMA UdpIsSafeThen == UdpIInv => UdpInv
<1> SUFFICES ASSUME UdpIInv PROVE UdpInv
  OBVIOUS
<1> DEFINE len == Len(udpTasks)
<1>1. DOMAIN udpTasks = 1..len /\ len \in Nat /\ lastBuf \in Nat /\ DOMAIN given = 1..Len(given)
      /\ Len(given) \in Nat
  BY DEF UdpIInv, UdpTypeOK
<1>2. life # "open" => \A i \in 1..len : udpTasks[i].op # "send" /\ udpTasks[i].buf = 0
  <2>1. CASE len = 0
    <3>1. \A i \in 1..len : FALSE
      BY ONLY <2>1
    <3> QED
      BY ONLY <3>1, Zenon
  <2>2. CASE len # 0
    <3>1. life # "open" => len = 1 /\ udpTasks[1].op \in {"open", "close"} /\ udpTasks[1].buf = 0
      BY <2>2, FirstTaskTells, Zenon
    <3>2. len = 1 => \A i \in 1..len : i = 1
      OBVIOUS
    <3>3. "send" \notin {"open", "close"}
      OBVIOUS
    <3> QED
      BY ONLY <3>1, <3>2, <3>3, Zenon
  <2> QED
    BY <2>1, <2>2
<1>3. UdpHandlerInv
  <2>1. \A i \in 1..len : udpTasks[i].op = "send" => live[udpTasks[i].thread] = udpTasks[i].buf
    BY ONLY <1>2, UdpIInv, Zenon DEF UdpIInv, UdpQueueInv, Queued
  <2>2. life = "gone" => openFds = {} /\ ~receiveThread
    BY ONLY UdpIInv DEF UdpIInv, UdpSocketInv
  <2>3. life = "gone" => \A t \in UdpThreads : live[t] = 0
    BY ONLY UdpIInv DEF UdpIInv, UdpQueueInv
  <2> QED
    BY ONLY <1>1, <2>1, <2>2, <2>3, UdpIInv, Zenon DEF UdpIInv, UdpSocketInv, UdpHandlerInv
<1>4. ReportsAreSent
  <2>1. SUFFICES ASSUME destination.ok
                 PROVE  /\ \A b \in DOMAIN given : given[b] = b
                        /\ \A b \in 1..lastBuf :
                              b > Len(given) <=> \E i \in DOMAIN udpTasks : udpTasks[i].buf = b
                        /\ Len(given) <= lastBuf /\ refused \subseteq 1..Len(given)
                        /\ host = NoHost /\ udpSocket.fd # 0 =>
                              udpSocket.family = destination.family
    BY Zenon DEF ReportsAreSent
  <2>2. /\ Len(given) + (IF life = "open" THEN len ELSE 0) = lastBuf
        /\ \A b \in 1..Len(given) : given[b] = b
        /\ refused \subseteq 1..Len(given)
        /\ host = NoHost /\ udpSocket.fd # 0 => udpSocket.family = destination.family
    BY ONLY <2>1, UdpIInv, Zenon DEF UdpIInv, UdpSentInv, UdpFamilyInv
  <2>3. ASSUME NEW b \in 1..lastBuf
        PROVE  b > Len(given) <=> \E i \in 1..len : udpTasks[i].buf = b
    <3>1. CASE life = "open"
      <4>1. \A i \in 1..len : udpTasks[i].buf = Len(given) + i
        <5>1. \A i \in 1..len : udpTasks[i].buf = lastBuf - len + i
          BY ONLY <3>1, UdpIInv, Zenon DEF UdpIInv, UdpQueueInv, Queued
        <5>2. lastBuf - len = Len(given)
          BY ONLY <1>1, <2>2, <3>1
        <5> QED
          BY ONLY <5>1, <5>2, Zenon
      <4>2. ASSUME b > Len(given) PROVE b - Len(given) \in 1..len /\ Len(given) + (b - Len(given)) = b
        BY ONLY <1>1, <2>2, <3>1, <4>2, b \in 1..lastBuf
      <4>3. ASSUME NEW i \in 1..len PROVE Len(given) + i > Len(given)
        BY ONLY <1>1, i \in 1..len
      <4> QED
        BY ONLY <4>1, <4>2, <4>3, Zenon
    <3>2. CASE life # "open"
      <4>1. ~(b > Len(given)) /\ b # 0
        BY ONLY <1>1, <2>2, <3>2, b \in 1..lastBuf
      <4> QED
        BY ONLY <1>2, <3>2, <4>1, Zenon
    <3> QED
      BY <3>1, <3>2
  <2>4. Len(given) <= lastBuf
    <3>1. \A a, b, c \in Nat : (a + b = c => a <= c) /\ (a + 0 = c => a <= c)
      OBVIOUS
    <3> QED
      BY ONLY <1>1, <2>2, <3>1, Zenon
  <2> QED
    BY ONLY <1>1, <2>2, <2>3, <2>4, Zenon
<1> QED
  BY <1>3, <1>4 DEF UdpInv

\* The initial state.
LEMMA UdpStarts == UdpInit => UdpIInv
<1> SUFFICES ASSUME UdpInit PROVE UdpIInv
  OBVIOUS
<1>1. UdpTypeOK
  BY DEF UdpInit, UdpTypeOK, Invalid
<1>2. UdpQueueInv
  BY DEF UdpInit, UdpQueueInv
<1>3. UdpSocketInv /\ UdpFamilyInv /\ UdpSentInv
  BY DEF UdpInit, UdpSocketInv, UdpFamilyInv, UdpSentInv, Invalid
<1> QED
  BY <1>1, <1>2, <1>3 DEF UdpIInv

\* A task at the end of the queue.
LEMMA TaskQueued ==
    ASSUME NEW s \in Seq(UdpTasks), NEW e \in UdpTasks
    PROVE  /\ Append(s, e) \in Seq(UdpTasks) /\ Len(s) \in Nat /\ Len(Append(s, e)) = Len(s) + 1
           /\ \A i \in 1..Len(s) : Append(s, e)[i] = s[i]
           /\ Append(s, e)[Len(s) + 1] = e
OBVIOUS

\* What was sent and what is queued add up, before and after a step.
LEMMA SentSums ==
    ASSUME NEW sent, NEW queued, NEW all, sent \in Nat, queued \in Nat, all \in Nat, sent + queued = all
    PROVE  /\ sent <= all /\ sent + (queued + 1) = all + 1 /\ all - queued = sent
           /\ all - queued + 1 = sent + 1 /\ sent + 1 + (queued - 1) = all
OBVIOUS

\* The first task taken.
LEMMA TaskTaken ==
    ASSUME NEW s \in Seq(UdpTasks), s # <<>>
    PROVE  /\ Tail(s) \in Seq(UdpTasks) /\ Len(s) \in Nat \ {0} /\ Len(Tail(s)) = Len(s) - 1
           /\ \A i \in 1..(Len(s) - 1) : Tail(s)[i] = s[i + 1]
           /\ Head(s) = s[1] /\ s[1] \in UdpTasks
OBVIOUS

\* open and close: the task is alone in the queue, as no call is under way.
LEMMA OpenAndClose ==
    ASSUME UdpIInv, Open \/ Close
    PROVE  UdpIInv'
<1> DEFINE task == UdpTask(IF life = "new" THEN "open" ELSE "close", Nobody, 0)
<1>1. /\ udpTasks' = Append(udpTasks, task)
      /\ \/ life = "new" /\ life' = "opening"
         \/ life = "open" /\ life' = "closing" /\ \A t \in UdpThreads : udpPc[t] = "idle"
         \/ life = "closed" /\ life' = "closingAgain"
      /\ UNCHANGED <<destination, udpSocket, groups, openFds, lastFd, receiveThread, live, udpPc,
                     given, refused, lastBuf>>
      /\ life # "new" => host' = host
  BY DEF Open, Close
<1>2. task \in UdpTasks
  BY DEF UdpTasks, UdpTask
<1>3. udpTasks \in Seq(UdpTasks) /\ Len(udpTasks) \in Nat
  BY DEF UdpIInv, UdpTypeOK
<1>4. Len(udpTasks) = 0
  <2>1. CASE life = "open"
    <3>1. \A i \in 1..Len(udpTasks) : Queued(i)
      BY ONLY <2>1, UdpIInv, Zenon DEF UdpIInv, UdpQueueInv
    <3>2. \A i \in 1..Len(udpTasks) : FALSE
      BY ONLY <1>1, <2>1, <3>1 DEF Queued
    <3> QED
      BY ONLY <1>3, <3>2
  <2> QED
    BY ONLY <1>1, <2>1, UdpIInv DEF UdpIInv, UdpQueueInv
<1>5. udpTasks' \in Seq(UdpTasks) /\ Len(udpTasks') = 1 /\ udpTasks'[1] = task
  <2> HIDE DEF task
  <2>1. /\ udpTasks' \in Seq(UdpTasks) /\ Len(udpTasks') = Len(udpTasks) + 1
        /\ udpTasks'[Len(udpTasks) + 1] = task
    BY ONLY <1>1, <1>2, <1>3, TaskQueued, Zenon
  <2> QED
    BY ONLY <1>4, <2>1
<1>6. UdpTypeOK'
  <2>1. life' \in {"new", "opening", "open", "closing", "closed", "closingAgain", "gone"}
    BY ONLY <1>1
  <2> QED
    BY ONLY <1>1, <1>5, <2>1, UdpIInv, Zenon DEF UdpIInv, UdpTypeOK
<1>7. UdpQueueInv'
  <2>1. \A t \in UdpThreads : udpPc'[t] = "idle" /\ live'[t] = 0
    BY ONLY <1>1, UdpIInv DEF UdpIInv, UdpQueueInv
  <2>2. /\ life' = "opening" => task = UdpTask("open", Nobody, 0)
        /\ life' \in {"closing", "closingAgain"} => task = UdpTask("close", Nobody, 0)
        /\ life' \in {"opening", "closing", "closingAgain"}
    BY ONLY <1>1
  <2> HIDE DEF task
  <2> QED
    BY ONLY <1>5, <2>1, <2>2 DEF UdpQueueInv
<1>8. UdpSocketInv'
  BY ONLY <1>1, UdpIInv DEF UdpIInv, UdpSocketInv
<1>9. UdpFamilyInv'
  <2>1. CASE udpSocket.fd = 0
    BY ONLY <1>1, <2>1, Zenon DEF UdpFamilyInv
  <2>2. CASE udpSocket.fd # 0
    <3>1. host' = host
      BY ONLY <1>1, <2>2, UdpIInv DEF UdpIInv, UdpSocketInv
    <3> QED
      BY ONLY <1>1, <3>1, UdpIInv, Zenon DEF UdpIInv, UdpFamilyInv
  <2> QED
    BY <2>1, <2>2
<1>10. UdpSentInv'
  <2>1. Len(given) \in Nat
    BY DEF UdpIInv, UdpTypeOK
  <2>2. Len(given) + (IF life = "open" THEN Len(udpTasks) ELSE 0) = lastBuf =>
            Len(given) + (IF life' = "open" THEN Len(udpTasks') ELSE 0) = lastBuf
    BY ONLY <1>1, <1>4, <2>1
  <2> QED
    BY ONLY <1>1, <2>2, UdpIInv, Zenon DEF UdpIInv, UdpSentInv
<1> QED
  BY <1>6, <1>7, <1>8, <1>9, <1>10 DEF UdpIInv

\* openImpl_: from the queue's only task to the open handler, whatever the network calls say.
LEMMA RunOpenKeeps ==
    ASSUME UdpIInv, RunOpen
    PROVE  UdpIInv'
<1>1. /\ udpTasks # <<>> /\ Head(udpTasks).op = "open" /\ udpTasks' = Tail(udpTasks) /\ life' = "open"
      /\ UNCHANGED <<destination, host, live, udpPc, given, refused, lastBuf>>
      /\ IF host = NoHost THEN OpenUnbound ELSE OpenBound
  BY Zenon DEF RunOpen
<1>2. /\ udpTasks \in Seq(UdpTasks) /\ Len(udpTasks) \in Nat \ {0} /\ lastFd \in Nat /\ lastBuf \in Nat
      /\ Head(udpTasks) = udpTasks[1] /\ udpTasks' \in Seq(UdpTasks)
      /\ Len(udpTasks') = Len(udpTasks) - 1
  BY <1>1, TaskTaken DEF UdpIInv, UdpTypeOK
<1>3. life = "opening" /\ Len(udpTasks) = 1
  <2>1. Len(udpTasks) # 0 /\ udpTasks[1].op = "open"
    BY ONLY <1>1, <1>2
  <2> QED
    BY <2>1, FirstTaskTells
<1>4. Len(udpTasks') = 0
  BY ONLY <1>2, <1>3
<1>5. /\ lastBuf = 0 /\ Len(given) = 0 /\ udpSocket.fd = 0 /\ ~receiveThread
      /\ openFds = {} /\ groups = {}
  BY ONLY <1>3, UdpIInv DEF UdpIInv, UdpSocketInv
<1>6. /\ lastFd' \in Nat /\ udpSocket'.fd \in Nat /\ openFds' = {udpSocket'.fd} \ {0}
      /\ groups' \subseteq openFds' /\ (receiveThread' => udpSocket'.fd # 0)
      /\ host = NoHost /\ destination.ok /\ udpSocket'.fd # 0 => udpSocket'.family = destination.family
  <2>1. ASSUME NEW family, NewSocket(family)
        PROVE  /\ lastFd' \in Nat /\ udpSocket'.fd \in Nat /\ openFds' = {udpSocket'.fd} \ {0}
               /\ udpSocket'.fd # 0 => udpSocket'.family = family
    <3>1. CASE /\ udpSocket' = [fd |-> lastFd + 1, family |-> family]
               /\ lastFd' = lastFd + 1 /\ openFds' = openFds \cup {lastFd + 1}
      <4>1. udpSocket'.fd = lastFd + 1 /\ udpSocket'.family = family
        BY ONLY <3>1
      <4> QED
        BY ONLY <1>2, <1>5, <3>1, <4>1
    <3>2. CASE udpSocket' = Invalid /\ UNCHANGED <<lastFd, openFds>>
      BY ONLY <1>2, <1>5, <3>2 DEF Invalid
    <3> QED
      BY <2>1, <3>1, <3>2, Zenon DEF NewSocket
  <2>2. ASSUME NEW address, JoinMulticastGroup(address), openFds' = {udpSocket'.fd} \ {0}
        PROVE  groups' \subseteq openFds'
    BY <1>5, <2>2 DEF JoinMulticastGroup
  <2>3. CASE host = NoHost
    <3>1. /\ NewSocket(IF destination.ok THEN destination.family ELSE "v4")
          /\ JoinMulticastGroup(destination) \/ UNCHANGED groups
          /\ UNCHANGED receiveThread
      BY ONLY <1>1, <2>3, Zenon DEF OpenUnbound
    <3>2. /\ lastFd' \in Nat /\ udpSocket'.fd \in Nat /\ openFds' = {udpSocket'.fd} \ {0}
          /\ udpSocket'.fd # 0 => udpSocket'.family = (IF destination.ok THEN destination.family ELSE "v4")
      <4>1. PICK family : family = (IF destination.ok THEN destination.family ELSE "v4")
        OBVIOUS
      <4>2. NewSocket(family)
        BY ONLY <3>1, <4>1
      <4>3. /\ lastFd' \in Nat /\ udpSocket'.fd \in Nat /\ openFds' = {udpSocket'.fd} \ {0}
            /\ udpSocket'.fd # 0 => udpSocket'.family = family
        BY ONLY <2>1, <4>2
      <4> QED
        BY ONLY <4>1, <4>3
    <3>3. groups' \subseteq openFds'
      BY ONLY <1>5, <2>2, <3>1, <3>2
    <3> QED
      BY ONLY <1>5, <3>1, <3>2, <3>3, Zenon
  <2>4. CASE host # NoHost /\ host.ok
    <3>1. /\ NewSocket(host.family) /\ JoinMulticastGroup(host)
          /\ udpSocket'.fd = 0 => receiveThread' = FALSE
      BY ONLY <1>1, <2>4, Zenon DEF OpenBound
    <3>2. /\ lastFd' \in Nat /\ udpSocket'.fd \in Nat /\ openFds' = {udpSocket'.fd} \ {0}
      BY ONLY <2>1, <3>1, Zenon
    <3>3. groups' \subseteq openFds'
      BY ONLY <2>2, <3>1, <3>2, Zenon
    <3> QED
      BY ONLY <2>4, <3>1, <3>2, <3>3
  <2>5. CASE host # NoHost /\ ~host.ok
    <3>1. UNCHANGED <<udpSocket, lastFd, openFds, receiveThread, groups>>
      BY ONLY <1>1, <2>5, Zenon DEF OpenBound
    <3> QED
      BY ONLY <1>2, <1>5, <2>5, <3>1
  <2> QED
    BY <2>3, <2>4, <2>5
<1>7. UdpTypeOK'
  BY ONLY <1>1, <1>2, <1>6, UdpIInv, Zenon DEF UdpIInv, UdpTypeOK
<1>8. UdpQueueInv'
  <2>1. \A t \in UdpThreads : udpPc'[t] = "idle" => live'[t] = 0
    BY ONLY <1>1, UdpIInv, Zenon DEF UdpIInv, UdpQueueInv
  <2>2. Len(udpTasks') <= lastBuf' /\ \A i \in 1..Len(udpTasks') : FALSE
    <3>1. Len(udpTasks') = 0 /\ lastBuf' = 0
      BY ONLY <1>1, <1>4, <1>5, Zenon
    <3> QED
      BY ONLY <3>1
  <2> QED
    BY ONLY <1>1, <2>1, <2>2, Zenon DEF UdpQueueInv
<1>9. UdpSocketInv'
  BY ONLY <1>1, <1>6 DEF UdpSocketInv
<1>10. UdpFamilyInv'
  BY ONLY <1>1, <1>6 DEF UdpFamilyInv
<1>11. UdpSentInv'
  <2>1. /\ Len(given') + Len(udpTasks') = lastBuf' /\ \A b \in 1..Len(given') : given'[b] = b
    BY ONLY <1>1, <1>4, <1>5
  <2>2. destination'.ok => refused' \subseteq 1..Len(given')
    BY ONLY <1>1, UdpIInv, Zenon DEF UdpIInv, UdpSentInv
  <2> QED
    BY ONLY <1>1, <2>1, <2>2, Zenon DEF UdpSentInv
<1> QED
  BY <1>7, <1>8, <1>9, <1>10, <1>11 DEF UdpIInv

\* addReceiveRecord puts its task behind those of the others.
LEMMA AddReceiveKeeps ==
    ASSUME UdpIInv, NEW t \in UdpThreads, AddReceiveRecord(t)
    PROVE  UdpIInv'
<1> DEFINE len == Len(udpTasks)
           task == UdpTask("send", t, lastBuf')
<1>1. /\ life = "open" /\ udpPc[t] = "idle" /\ lastBuf' = lastBuf + 1
      /\ live' = [live EXCEPT ![t] = lastBuf'] /\ udpTasks' = Append(udpTasks, task)
      /\ udpPc' = [udpPc EXCEPT ![t] = "waiting"]
      /\ UNCHANGED <<destination, host, udpSocket, groups, openFds, lastFd, receiveThread, given, refused, life>>
  BY Zenon DEF AddReceiveRecord
<1>2. lastBuf \in Nat /\ lastBuf' \in Nat /\ udpTasks \in Seq(UdpTasks) /\ len \in Nat /\ len <= lastBuf
  BY <1>1 DEF UdpIInv, UdpTypeOK, UdpQueueInv
<1>3. /\ task \in UdpTasks /\ task.op = "send" /\ task.thread = t /\ task.buf = lastBuf'
  BY ONLY <1>2, t \in UdpThreads DEF UdpTasks, UdpTask
<1>4. /\ udpTasks' \in Seq(UdpTasks) /\ Len(udpTasks') = len + 1 /\ udpTasks'[len + 1] = task
      /\ \A i \in 1..len : udpTasks'[i] = udpTasks[i]
  <2> HIDE DEF task
  <2> QED
    BY ONLY <1>1, <1>2, <1>3, TaskQueued, Zenon
<1>5. /\ live' \in [UdpThreads -> Nat] /\ live'[t] = lastBuf'
      /\ \A u \in UdpThreads : u # t => live'[u] = live[u]
      /\ udpPc' \in [UdpThreads -> {"idle", "waiting", "done"}] /\ udpPc'[t] = "waiting"
      /\ \A u \in UdpThreads : u # t => udpPc'[u] = udpPc[u]
  BY ONLY <1>1, <1>2, UdpIInv, t \in UdpThreads DEF UdpIInv, UdpTypeOK
<1>6. UdpTypeOK'
  BY ONLY <1>1, <1>2, <1>4, <1>5, UdpIInv, Zenon DEF UdpIInv, UdpTypeOK
<1>7. UdpQueueInv'
  <2>1. ASSUME NEW i \in 1..(len + 1) PROVE Queued(i)'
    <3>1. CASE i = len + 1
      <4>1. lastBuf' - Len(udpTasks') + i = lastBuf' /\ udpTasks'[i] = task
        <5>1. lastBuf' - (len + 1) + (len + 1) = lastBuf'
          BY ONLY <1>2
        <5> HIDE DEF task
        <5> QED
          BY ONLY <1>4, <3>1, <5>1, Zenon
      <4> HIDE DEF task
      <4> QED
        BY ONLY <1>3, <1>5, <4>1, t \in UdpThreads DEF Queued
    <3>2. CASE i # len + 1
      <4>0. i \in 1..len
        BY ONLY <1>2, <3>2, i \in 1..(len + 1)
      <4>1. Queued(i)
        BY ONLY <1>1, <4>0, UdpIInv, Zenon DEF UdpIInv, UdpQueueInv
      <4>2. udpTasks[i].thread # t
        BY ONLY <1>1, <4>1 DEF Queued
      <4>3. lastBuf' - Len(udpTasks') + i = lastBuf - len + i
        BY ONLY <1>1, <1>2, <1>4, <4>0
      <4>4. udpTasks'[i] = udpTasks[i]
        BY ONLY <1>4, <4>0
      <4> QED
        BY ONLY <1>5, <4>1, <4>2, <4>3, <4>4, Zenon DEF Queued
    <3> QED
      BY <3>1, <3>2
  <2>2. \A u \in UdpThreads : udpPc'[u] = "idle" => live'[u] = 0
    <3>1. \A u \in UdpThreads : udpPc[u] = "idle" => live[u] = 0
      BY ONLY UdpIInv, Zenon DEF UdpIInv, UdpQueueInv
    <3> QED
      BY ONLY <1>5, <3>1
  <2>3. len + 1 <= lastBuf'
    BY ONLY <1>1, <1>2
  <2> QED
    BY ONLY <1>1, <1>4, <2>1, <2>2, <2>3 DEF UdpQueueInv
<1>8. UdpSocketInv'
  BY ONLY <1>1, UdpIInv DEF UdpIInv, UdpSocketInv
<1>9. UdpFamilyInv'
  BY ONLY <1>1, UdpIInv, Zenon DEF UdpIInv, UdpFamilyInv
<1>10. UdpSentInv'
  <2>1. Len(given) \in Nat
    BY DEF UdpIInv, UdpTypeOK
  <2>2. Len(given) + len = lastBuf => Len(given') + Len(udpTasks') = lastBuf'
    <3>2. Len(given) + len = lastBuf => Len(given) + (len + 1) = lastBuf + 1
      BY ONLY <1>2, <2>1, SentSums
    <3>3. Len(given') = Len(given) /\ Len(udpTasks') = len + 1 /\ lastBuf' = lastBuf + 1
      BY ONLY <1>1, <1>4, Zenon
    <3> QED
      BY ONLY <3>2, <3>3, Zenon
  <2> QED
    BY ONLY <1>1, <2>2, UdpIInv, Zenon DEF UdpIInv, UdpSentInv
<1> QED
  BY <1>6, <1>7, <1>8, <1>9, <1>10 DEF UdpIInv

\* sendImpl_: sendto is called with the first task's buffer, and its thread, which no other task
\* belongs to, may free it.
LEMMA RunUdpSendKeeps ==
    ASSUME UdpIInv, RunUdpSend
    PROVE  UdpIInv'
<1> DEFINE len == Len(udpTasks)
           first == udpTasks[1]
<1>1. /\ udpTasks # <<>> /\ Head(udpTasks).op = "send" /\ udpTasks' = Tail(udpTasks)
      /\ \/ /\ destination.ok /\ given' = Append(given, Head(udpTasks).buf)
            /\ refused' = refused \cup {Head(udpTasks).buf} \/ refused' = refused
         \/ ~destination.ok /\ given' = given /\ refused' = refused
      /\ udpPc' = [udpPc EXCEPT ![Head(udpTasks).thread] = "done"]
      /\ UNCHANGED <<destination, host, udpSocket, groups, openFds, lastFd, receiveThread, live,
                     lastBuf, life>>
  BY Zenon DEF RunUdpSend
<1>2. /\ udpTasks \in Seq(UdpTasks) /\ len \in Nat /\ len >= 1 /\ lastBuf \in Nat
      /\ Head(udpTasks) = first /\ first \in UdpTasks /\ udpTasks' \in Seq(UdpTasks)
      /\ Len(udpTasks') = len - 1 /\ \A i \in 1..(len - 1) : udpTasks'[i] = udpTasks[i + 1]
  BY <1>1, TaskTaken DEF UdpIInv, UdpTypeOK
<1>3. life = "open"
  <2>1. len # 0 /\ udpTasks[1].op = "send"
    BY ONLY <1>1, <1>2
  <2> QED
    BY <2>1, FirstTaskTells
<1>4. len <= lastBuf /\ \A i \in 1..len : Queued(i)
  BY ONLY <1>3, UdpIInv, Zenon DEF UdpIInv, UdpQueueInv
<1>5. /\ first.thread \in UdpThreads /\ first.buf = lastBuf - len + 1 /\ first.buf \in Nat
      /\ udpPc[first.thread] = "waiting" /\ live[first.thread] = first.buf
  <2>1. Queued(1)
    BY ONLY <1>2, <1>4
  <2> QED
    <3>1. /\ first.buf = lastBuf - len + 1 /\ first.thread \in UdpThreads
          /\ udpPc[first.thread] = "waiting" /\ live[first.thread] = first.buf
      BY ONLY <2>1, Zenon DEF Queued
    <3>2. lastBuf - len + 1 \in Nat
      BY ONLY <1>2, <1>4
    <3> QED
      BY ONLY <3>1, <3>2, Zenon
<1>6. /\ udpPc' \in [UdpThreads -> {"idle", "waiting", "done"}] /\ udpPc'[first.thread] = "done"
      /\ \A u \in UdpThreads : u # first.thread => udpPc'[u] = udpPc[u]
  BY ONLY <1>1, <1>2, <1>5, UdpIInv DEF UdpIInv, UdpTypeOK
<1>7. given \in Seq(Nat) /\ Len(given) \in Nat /\ given' \in Seq(Nat)
  <2>1. given \in Seq(Nat)
    BY DEF UdpIInv, UdpTypeOK
  <2>2. Append(given, first.buf) \in Seq(Nat)
    BY ONLY <1>5, <2>1
  <2>3. Len(given) \in Nat
    BY ONLY <2>1
  <2> QED
    BY ONLY <1>1, <1>2, <2>1, <2>2, <2>3, Zenon
<1>8. UdpTypeOK'
  BY ONLY <1>1, <1>2, <1>6, <1>7, UdpIInv, Zenon DEF UdpIInv, UdpTypeOK
<1>9. UdpQueueInv'
  <2>1. ASSUME NEW i \in 1..(len - 1) PROVE Queued(i)'
    <3>1. i + 1 \in 1..len
      BY ONLY <1>2, i \in 1..(len - 1)
    <3>2. /\ udpTasks[i + 1].op = "send" /\ udpTasks[i + 1].buf = lastBuf - len + (i + 1)
          /\ udpTasks[i + 1].thread \in UdpThreads /\ udpPc[udpTasks[i + 1].thread] = "waiting"
          /\ live[udpTasks[i + 1].thread] = udpTasks[i + 1].buf
      BY ONLY <1>4, <3>1, Zenon DEF Queued
    <3>3. lastBuf - len + (i + 1) # lastBuf - len + 1 /\ lastBuf - len + (i + 1) = lastBuf - (len - 1) + i
      BY ONLY <1>2, i \in 1..(len - 1)
    <3>4. udpTasks[i + 1].thread # first.thread
      BY ONLY <1>5, <3>2, <3>3, Zenon
    <3>5. udpTasks'[i] = udpTasks[i + 1]
      BY ONLY <1>2, i \in 1..(len - 1)
    <3>6. udpPc'[udpTasks[i + 1].thread] = "waiting"
      BY ONLY <1>6, <3>2, <3>4, Zenon
    <3> QED
      BY ONLY <1>1, <1>2, <3>2, <3>3, <3>5, <3>6, Zenon DEF Queued
  <2>2. \A u \in UdpThreads : udpPc'[u] = "idle" => live'[u] = 0
    <3>1. \A u \in UdpThreads : udpPc[u] = "idle" => live[u] = 0
      BY ONLY UdpIInv, Zenon DEF UdpIInv, UdpQueueInv
    <3> QED
      BY ONLY <1>1, <1>6, <3>1
  <2>3. len - 1 <= lastBuf'
    BY ONLY <1>1, <1>2, <1>4
  <2> QED
    BY ONLY <1>1, <1>2, <1>3, <2>1, <2>2, <2>3 DEF UdpQueueInv
<1>10. UdpSocketInv'
  BY ONLY <1>1, <1>3, UdpIInv DEF UdpIInv, UdpSocketInv
<1>11. UdpFamilyInv'
  BY ONLY <1>1, UdpIInv, Zenon DEF UdpIInv, UdpFamilyInv
<1>12. UdpSentInv'
  <2>1. SUFFICES ASSUME destination.ok
                 PROVE  /\ Len(given') + (len - 1) = lastBuf /\ \A b \in 1..Len(given') : given'[b] = b
                        /\ refused' \subseteq 1..Len(given')
    BY <1>1, <1>2, <1>3, Zenon DEF UdpSentInv
  <2>2. /\ Len(given) + len = lastBuf /\ \A b \in 1..Len(given) : given[b] = b
        /\ refused \subseteq 1..Len(given)
    BY ONLY <1>3, <2>1, UdpIInv, Zenon DEF UdpIInv, UdpSentInv
  <2>3. given' = Append(given, first.buf) /\ refused' \subseteq refused \cup {first.buf}
    BY ONLY <1>1, <1>2, <2>1, Zenon
  <2>a. len \in Nat /\ lastBuf \in Nat /\ Len(given) \in Nat /\ Len(given) + len = lastBuf
    BY ONLY <1>2, <1>7, <2>2, Zenon
  <2>6. Len(given) + 1 + (len - 1) = lastBuf /\ lastBuf - len + 1 = Len(given) + 1
    BY ONLY <2>a, SentSums
  <2>4. first.buf = Len(given) + 1
    BY ONLY <1>5, <2>6, Zenon
  <2>5. Len(given') = Len(given) + 1 /\ \A b \in 1..Len(given') : given'[b] = b
    BY ONLY <1>7, <2>2, <2>3, <2>4
  <2>7. 1..Len(given) \subseteq 1..(Len(given) + 1) /\ Len(given) + 1 \in 1..(Len(given) + 1)
    BY ONLY <2>a
  <2> QED
    BY ONLY <2>2, <2>3, <2>4, <2>5, <2>6, <2>7, Zenon
<1> QED
  BY <1>8, <1>9, <1>10, <1>11, <1>12 DEF UdpIInv

\* The buffer is freed when the promise is set: no task has it any more.
LEMMA FreeBufferKeeps ==
    ASSUME UdpIInv, NEW t \in UdpThreads, FreeBuffer(t)
    PROVE  UdpIInv'
<1>1. /\ udpPc[t] = "done" /\ udpPc' = [udpPc EXCEPT ![t] = "idle"] /\ live' = [live EXCEPT ![t] = 0]
      /\ UNCHANGED <<destination, host, udpTasks, udpSocket, groups, openFds, lastFd, receiveThread,
                     given, refused, lastBuf, life>>
  BY Zenon DEF FreeBuffer
<1>2. /\ live' \in [UdpThreads -> Nat] /\ live'[t] = 0
      /\ \A u \in UdpThreads : u # t => live'[u] = live[u]
      /\ udpPc' \in [UdpThreads -> {"idle", "waiting", "done"}] /\ udpPc'[t] = "idle"
      /\ \A u \in UdpThreads : u # t => udpPc'[u] = udpPc[u]
  BY ONLY <1>1, UdpIInv, t \in UdpThreads DEF UdpIInv, UdpTypeOK
<1>3. life = "open"
  BY <1>1 DEF UdpIInv, UdpQueueInv
<1>4. UdpTypeOK'
  BY ONLY <1>1, <1>2, UdpIInv, Zenon DEF UdpIInv, UdpTypeOK
<1>5. UdpQueueInv'
  <2>1. ASSUME NEW i \in 1..Len(udpTasks) PROVE Queued(i)'
    <3>1. Queued(i)
      BY ONLY <1>3, i \in 1..Len(udpTasks), UdpIInv, Zenon DEF UdpIInv, UdpQueueInv
    <3>2. udpTasks[i].thread # t
      BY ONLY <1>1, <3>1 DEF Queued
    <3> QED
      BY ONLY <1>1, <1>2, <3>1, <3>2, Zenon DEF Queued
  <2>2. \A u \in UdpThreads : udpPc'[u] = "idle" => live'[u] = 0
    <3>1. \A u \in UdpThreads : udpPc[u] = "idle" => live[u] = 0
      BY ONLY UdpIInv, Zenon DEF UdpIInv, UdpQueueInv
    <3> QED
      BY ONLY <1>2, <3>1, Zenon
  <2>3. Len(udpTasks) <= lastBuf
    BY ONLY <1>3, UdpIInv, Zenon DEF UdpIInv, UdpQueueInv
  <2> QED
    BY ONLY <1>1, <1>3, <2>1, <2>2, <2>3 DEF UdpQueueInv
<1>6. UdpSocketInv'
  BY ONLY <1>1, UdpIInv, Zenon DEF UdpIInv, UdpSocketInv
<1>7. UdpFamilyInv' /\ UdpSentInv'
  BY ONLY <1>1, UdpIInv, Zenon DEF UdpIInv, UdpFamilyInv, UdpSentInv
<1> QED
  BY <1>4, <1>5, <1>6, <1>7 DEF UdpIInv

\* closeImpl_: socket, groups and receive thread go together.
LEMMA RunCloseKeeps ==
    ASSUME UdpIInv, RunClose
    PROVE  UdpIInv'
<1>1. /\ udpTasks # <<>> /\ Head(udpTasks).op = "close" /\ udpTasks' = Tail(udpTasks)
      /\ life' = (IF life = "closing" THEN "closed" ELSE "gone")
      /\ UNCHANGED <<destination, host, lastFd, live, udpPc, given, refused, lastBuf>>
      /\ IF udpSocket.fd # 0
         THEN /\ udpSocket' = Invalid /\ openFds' = openFds \ {udpSocket.fd}
              /\ groups' = groups \ {udpSocket.fd} /\ receiveThread' = FALSE
         ELSE UNCHANGED <<udpSocket, openFds, groups, receiveThread>>
  BY Zenon DEF RunClose
<1>2. /\ udpTasks \in Seq(UdpTasks) /\ Len(udpTasks) \in Nat \ {0} /\ Head(udpTasks) = udpTasks[1]
      /\ udpTasks' \in Seq(UdpTasks) /\ Len(udpTasks') = Len(udpTasks) - 1
  BY <1>1, TaskTaken DEF UdpIInv, UdpTypeOK
<1>3. life \in {"closing", "closingAgain"} /\ Len(udpTasks) = 1
  <2>1. Len(udpTasks) # 0 /\ udpTasks[1].op = "close"
    BY ONLY <1>1, <1>2
  <2> QED
    BY <2>1, FirstTaskTells
<1>4. Len(udpTasks') = 0 /\ life' \in {"closed", "gone"}
  BY ONLY <1>1, <1>2, <1>3
<1>5. /\ udpSocket'.fd = 0 /\ openFds' = {} /\ groups' = {} /\ (receiveThread' => FALSE)
  <2>1. CASE udpSocket.fd # 0
    BY ONLY <1>1, <2>1, UdpIInv DEF UdpIInv, UdpSocketInv, Invalid
  <2>2. CASE udpSocket.fd = 0
    BY ONLY <1>1, <2>2, UdpIInv DEF UdpIInv, UdpSocketInv
  <2> QED
    BY <2>1, <2>2
<1>6. UdpTypeOK'
  <2>1. udpSocket'.fd \in Nat /\ life' \in {"new", "opening", "open", "closing", "closed", "closingAgain", "gone"}
    BY ONLY <1>4, <1>5
  <2> QED
    BY ONLY <1>1, <1>2, <2>1, UdpIInv, Zenon DEF UdpIInv, UdpTypeOK
<1>7. UdpQueueInv'
  <2>1. \A t \in UdpThreads : udpPc'[t] = "idle" /\ live'[t] = 0
    BY ONLY <1>1, <1>3, UdpIInv DEF UdpIInv, UdpQueueInv
  <2> QED
    BY ONLY <1>4, <2>1 DEF UdpQueueInv
<1>8. UdpSocketInv'
  BY ONLY <1>4, <1>5 DEF UdpSocketInv
<1>9. UdpFamilyInv' /\ UdpSentInv'
  <2>1. life # "open" /\ life' # "open"
    BY ONLY <1>3, <1>4
  <2> QED
    BY ONLY <1>1, <1>5, <2>1, UdpIInv, Zenon DEF UdpIInv, UdpFamilyInv, UdpSentInv
<1> QED
  BY <1>6, <1>7, <1>8, <1>9 DEF UdpIInv

\* UdpHandler and UdpReporter, for any number of threads, of reports and of addresses, and whatever
\* the network calls return: no task has a buffer that was freed, no descriptor or thread is left
\* behind, and sendto is called once for each report and in order, also when it refuses some.
THEOREM UdpIsSafe == UdpSpec => []UdpInv
<1>1. UdpIInv /\ [UdpNext]_udpVars => UdpIInv'
  <2> SUFFICES ASSUME UdpIInv, [UdpNext]_udpVars PROVE UdpIInv'
    OBVIOUS
  <2>1. CASE UdpWorker \/ Open \/ Close
    BY <2>1, RunOpenKeeps, RunUdpSendKeeps, RunCloseKeeps, OpenAndClose DEF UdpWorker
  <2>2. ASSUME NEW t \in UdpThreads, AddReceiveRecord(t) \/ FreeBuffer(t)
        PROVE  UdpIInv'
    BY <2>2, AddReceiveKeeps, FreeBufferKeeps
  <2>3. CASE UNCHANGED udpVars
    BY <2>3, Zenon DEF udpVars, UdpIInv, UdpTypeOK, UdpQueueInv, Queued, UdpSocketInv,
        UdpFamilyInv, UdpSentInv
  <2> QED
    BY <2>1, <2>2, <2>3, Zenon DEF UdpNext
<1> QED
  BY <1>1, UdpStarts, UdpIsSafeThen, PTL DEF UdpSpec
===============================================================================

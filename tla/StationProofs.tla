----------------------------- MODULE StationProofs -----------------------------
(*******************************************************************************)
(* What the server knows of the station, for any values, connections, calls,   *)
(* events and failures. StationInv is not inductive. That data is read only on *)
(* the connection made for it takes that there is one attempt to connect at a  *)
(* time (AttemptOK) and that nothing is queued before onConnect_() but what is *)
(* harmless (NewConnectionOK). That the server will know the station takes     *)
(* what it has heard before the station takes itself for connected, which is   *)
(* nothing, and after (HearsOK): isFullyConnected_ may come of a welcome that  *)
(* was queued before a reconnection. StationIInv is their conjunction.         *)
(* The lemmas about queues say what taking a task and queueing tasks does to   *)
(* each part; then there is one lemma for every kind of step.                  *)
(*******************************************************************************)
EXTENDS FreeDVReporter, TLAPS

\* The events a station sends, what a server sends, and the tasks of the worker.
Emits == {<<w>> : w \in {"hide", "show", "rx", "qsy"}} \cup {<<f, v>> : f \in Fields, v \in Values}
Answers == {<<w>> : w \in {"open", "success", "report", "close"}}
StationTasks == [kind : {"emit"}, msg : Emits] \cup [kind : {"dispatch", "event"}, msg : Answers]
                \cup [kind : {"connect", "onConnect", "on", "disconnect"}, msg : {<<>>}]
StationQueues == Seq(StationTasks)

\* A task of kind k is queued; and none is behind those of kind k, or before them, but events of the
\* station and the registering of its handlers.
IsQueued(q, k) == \E i \in 1 .. Len(q) : q[i].kind = k
Harmless(t) == t.kind \in {"emit", "on"}
NothingBehind(q, k) == \A i, j \in 1 .. Len(q) : q[i].kind = k /\ i < j => Harmless(q[j])
NothingBefore(q, k) == \A i, j \in 1 .. Len(q) : q[j].kind = k /\ i < j => Harmless(q[i])

\* There is one attempt to connect at a time: it is yet to be made, in the queue, with the timer, or
\* it has succeeded.  While there is no connection nothing of one comes up.
AttemptOK(q) ==
    /\ cpc = "start" \/ reconnectTimer \/ socket => ~IsQueued(q, "connect")
    /\ cpc = "start" \/ reconnectTimer => ~socket
    /\ cpc = "start" => ~reconnectTimer
    /\ ~socket => /\ ~IsQueued(q, "onConnect") /\ ~pingTimer /\ server = Absent
                  /\ connection \in {"none", "closed"}
    /\ NothingBehind(q, "connect")

\* Until onConnect_() has run, nothing that was queued before it is taken for the new connection,
\* which the server knows nothing of before it is open.
NewConnectionOK(q) ==
    /\ NothingBefore(q, "onConnect")
    /\ IsQueued(q, "onConnect") => connection # "open"
    /\ socket /\ ~IsQueued(q, "onConnect") => connection \in {"connecting", "open"}
    /\ connection # "open" => server.view = NewView /\ server.phase \notin {"joined", "welcomed"}
    /\ isFullyConnected => registered

\* The tasks behind the k-th are those for the connection that there is or is about to be.
From(q, k) == /\ k = 0 \/ q[k].kind = "onConnect"
              /\ \A i \in (k + 1) .. Len(q) : q[i].kind # "onConnect"

HideShow == {"hide", "show"}
Reports == HideShow \cup Fields

\* Before the station takes itself for connected the server hears nothing of it; from then on,
\* even if it was an earlier server that welcomed it, the server will not take it for hidden when
\* it is not.
HearsOK(q) ==
    \A k \in 0 .. Len(q) : socket /\ From(q, k) =>
      /\ ~isFullyConnected => server.view = NewView /\ silent(q, k, Reports)
      /\ isFullyConnected /\ ~hidden => willKnow(q, k, HideShow, <<"show">>, ~server.view.hidden)

\* ServerKnowsStation, of a queue.
Welcome(q) == "success" \in Range(wire) \/ \E i \in 1 .. Len(q) : q[i].msg = <<"success">>
KnowsAll(q) ==
    /\ willKnow(q, 0, HideShow, IF hidden THEN <<"hide">> ELSE <<"show">>, server.view.hidden = hidden)
    /\ ~hidden => \A f \in Fields :
                    willKnow(q, 0, {f}, <<f, last[f]>>, server.view.fields[f] = last[f])
KnowsOK(q) ==
    isFullyConnected /\ socket /\ server.phase = "welcomed" /\ ~Welcome(q) => KnowsAll(q)

QueueOK(q) == q \in StationQueues /\ AttemptOK(q) /\ NewConnectionOK(q) /\ HearsOK(q) /\ KnowsOK(q)

StationIInv == TypeOK /\ QueueOK(eventQueue)

\* Messages that tell something of the station are told from the others by their names.
LEMMA TaskKinds ==
  ASSUME NEW t \in StationTasks
  PROVE  /\ t.kind \in Kinds
         /\ t.kind = "emit" => t.msg \in Emits
         /\ t.kind # "emit" => \A n : ~says(t, n)
         /\ t.kind \in {"dispatch", "event"} => t.msg \in Answers
         /\ t.msg = <<"success">> => t.kind \in {"dispatch", "event"}
<1>1. \A m \in Emits : m # <<"success">>
  BY DEF Emits, Fields
<1>2. <<>> # <<"success">>
  OBVIOUS
<1> QED BY <1>1, <1>2, Zenon DEF StationTasks, says, Kinds

\* Taking a task: what is left of what the queue was.
LEMMA TaskTakenFrom ==
  ASSUME NEW q \in StationQueues, q # <<>>
  PROVE  /\ Tail(q) \in StationQueues /\ Head(q) \in StationTasks /\ Head(q) = q[1]
         /\ Len(Tail(q)) = Len(q) - 1 /\ Len(q) \in Nat /\ Len(q) > 0
         /\ \A i \in 1 .. Len(Tail(q)) : i + 1 \in 1 .. Len(q) /\ Tail(q)[i] = q[i + 1]
         /\ \A i \in 2 .. Len(q) : i - 1 \in 1 .. Len(Tail(q)) /\ q[i] = Tail(q)[i - 1]
BY DEF StationQueues

\* The order of the tasks that are left.
LEMMA TakenOrder ==
  ASSUME NEW q \in StationQueues, q # <<>>, NEW k
  PROVE  /\ IsQueued(Tail(q), k) => IsQueued(q, k)
         /\ IsQueued(q, k) => IsQueued(Tail(q), k) \/ Head(q).kind = k
         /\ NothingBehind(q, k) => NothingBehind(Tail(q), k)
         /\ NothingBefore(q, k) => NothingBefore(Tail(q), k)
         /\ NothingBehind(q, k) /\ Head(q).kind = k => \A i \in 1 .. Len(Tail(q)) : Harmless(Tail(q)[i])
         /\ NothingBefore(q, k) /\ IsQueued(q, k) => Harmless(Head(q)) \/ Head(q).kind = k
<1> DEFINE r == Tail(q)
<1>1. /\ Head(q) = q[1] /\ Len(r) = Len(q) - 1 /\ Len(q) \in Nat /\ Len(q) > 0
      /\ \A i \in 1 .. Len(r) : i + 1 \in 1 .. Len(q) /\ r[i] = q[i + 1]
      /\ \A i \in 2 .. Len(q) : i - 1 \in 1 .. Len(r) /\ q[i] = r[i - 1]
  BY TaskTakenFrom
<1> HIDE DEF r
<1>2. /\ IsQueued(r, k) => IsQueued(q, k)
      /\ IsQueued(q, k) => IsQueued(r, k) \/ q[1].kind = k
  BY <1>1 DEF IsQueued
<1>3. NothingBehind(q, k) => NothingBehind(r, k)
  BY <1>1 DEF NothingBehind
<1>4. NothingBefore(q, k) => NothingBefore(r, k)
  BY <1>1 DEF NothingBefore
<1>5. NothingBehind(q, k) /\ q[1].kind = k => \A i \in 1 .. Len(r) : Harmless(r[i])
  BY <1>1 DEF NothingBehind
<1>6. NothingBefore(q, k) /\ IsQueued(q, k) => Harmless(q[1]) \/ q[1].kind = k
  BY <1>1 DEF NothingBefore, IsQueued
<1> QED BY <1>1, <1>2, <1>3, <1>4, <1>5, <1>6 DEF r

\* What the server will know by the tasks that are left.
LEMMA TakenTells ==
  ASSUME NEW q \in StationQueues, q # <<>>, NEW n, NEW m, NEW knows \in BOOLEAN
  PROVE  /\ \A k \in Nat : silent(q, k + 1, n) => silent(Tail(q), k, n)
         /\ \A k \in Nat : willKnow(q, k + 1, n, m, knows) => willKnow(Tail(q), k, n, m, knows)
         /\ silent(q, 0, n) => silent(Tail(q), 0, n)
         /\ willKnow(q, 0, n, m, knows) /\ ~says(Head(q), n) => willKnow(Tail(q), 0, n, m, knows)
         /\ willKnow(q, 0, n, m, knows) /\ says(Head(q), n)
              => \A known2 \in BOOLEAN : (Head(q).msg = m => known2) => willKnow(Tail(q), 0, n, m, known2)
<1> DEFINE r == Tail(q)
<1>1. /\ Head(q) = q[1] /\ Len(r) = Len(q) - 1 /\ Len(q) \in Nat /\ Len(q) > 0
      /\ \A i \in 1 .. Len(r) : i + 1 \in 1 .. Len(q) /\ r[i] = q[i + 1]
      /\ \A i \in 2 .. Len(q) : i - 1 \in 1 .. Len(r) /\ q[i] = r[i - 1]
  BY TaskTakenFrom
<1> HIDE DEF r
<1>2. \A k \in Nat : silent(q, k + 1, n) => silent(r, k, n)
  BY <1>1 DEF silent
<1>3. ASSUME NEW k \in Nat, NEW i \in (k + 1) .. Len(q), i > 1,
             says(q[i], n), q[i].msg = m, silent(q, i, n)
      PROVE  \A v : willKnow(r, IF k = 0 THEN 0 ELSE k - 1, n, m, v)
  <2>1. i - 1 \in 1 .. Len(r) /\ r[i - 1] = q[i]
    BY <1>1, <1>3
  <2>2. silent(r, i - 1, n)
    BY <1>2, <1>3
  <2> QED BY <1>1, <1>3, <2>1, <2>2 DEF willKnow
<1>4. \A k \in Nat : willKnow(q, k + 1, n, m, knows) => willKnow(r, k, n, m, knows)
  <2> SUFFICES ASSUME NEW k \in Nat, willKnow(q, k + 1, n, m, knows)
               PROVE  willKnow(r, k, n, m, knows)
    OBVIOUS
  <2>1. CASE silent(q, k + 1, n) /\ knows
    BY <1>2, <2>1 DEF willKnow
  <2>2. CASE ~(silent(q, k + 1, n) /\ knows)
    <3>1. PICK i \in (k + 2) .. Len(q) : says(q[i], n) /\ q[i].msg = m /\ silent(q, i, n)
      BY <2>2 DEF willKnow
    <3>2. k + 1 \in Nat /\ i \in ((k + 1) + 1) .. Len(q) /\ i > 1 /\ k + 1 # 0 /\ (k + 1) - 1 = k
      BY <3>1
    <3> QED BY <1>3, <3>1, <3>2, Zenon
  <2> QED BY <2>1, <2>2
<1>5. silent(q, 0, n) => silent(r, 0, n)
  BY <1>1 DEF silent
<1>6. ASSUME willKnow(q, 0, n, m, knows), ~says(q[1], n) PROVE willKnow(r, 0, n, m, knows)
  <2>1. CASE silent(q, 0, n) /\ knows
    BY <1>5, <2>1 DEF willKnow
  <2>2. CASE ~(silent(q, 0, n) /\ knows)
    <3>1. PICK i \in 1 .. Len(q) : says(q[i], n) /\ q[i].msg = m /\ silent(q, i, n)
      BY <1>6, <2>2 DEF willKnow
    <3>2. i > 1 /\ 0 \in Nat /\ i \in (0 + 1) .. Len(q)
      BY <1>6, <3>1
    <3> QED BY <1>3, <3>1, <3>2
  <2> QED BY <2>1, <2>2
<1>7. ASSUME willKnow(q, 0, n, m, knows), says(q[1], n), NEW known2 \in BOOLEAN, q[1].msg = m => known2
      PROVE  willKnow(r, 0, n, m, known2)
  <2>1. ~silent(q, 0, n)
    BY <1>1, <1>7 DEF silent
  <2>2. PICK i \in 1 .. Len(q) : says(q[i], n) /\ q[i].msg = m /\ silent(q, i, n)
    BY <1>7, <2>1 DEF willKnow
  <2>3. CASE i > 1
    BY <1>3, <2>2, <2>3
  <2>4. CASE i = 1
    <3>1. silent(r, 0, n)
      BY <1>2, <2>2, <2>4
    <3> QED BY <1>7, <2>2, <2>4, <3>1 DEF willKnow
  <2> QED BY <2>2, <2>3, <2>4
<1> QED BY <1>1, <1>2, <1>4, <1>5, <1>6, <1>7 DEF r

\* The tasks for the connection, when one has been taken.
LEMMA TakenFrom ==
  ASSUME NEW q \in StationQueues, q # <<>>, NEW k \in 0 .. Len(Tail(q)), From(Tail(q), k)
  PROVE  /\ k + 1 \in 0 .. Len(q) /\ 0 \in 0 .. Len(q)
         /\ From(q, k + 1) \/ (k = 0 /\ Head(q).kind # "onConnect" /\ From(q, 0))
<1> DEFINE r == Tail(q)
<1>1. /\ Head(q) = q[1] /\ Len(r) = Len(q) - 1 /\ Len(q) \in Nat /\ Len(q) > 0
      /\ \A i \in 1 .. Len(r) : i + 1 \in 1 .. Len(q) /\ r[i] = q[i + 1]
      /\ \A i \in 2 .. Len(q) : i - 1 \in 1 .. Len(r) /\ q[i] = r[i - 1]
  BY TaskTakenFrom
<1> HIDE DEF r
<1>2. k \in 0 .. Len(r) /\ From(r, k)
  BY DEF r
<1>3. \A i \in (k + 2) .. Len(q) : q[i].kind # "onConnect"
  BY <1>1, <1>2 DEF From
<1>4. CASE k # 0
  BY <1>1, <1>2, <1>3, <1>4 DEF From
<1>5. CASE k = 0
  BY <1>1, <1>2, <1>3, <1>5 DEF From
<1> QED BY <1>1, <1>2, <1>4, <1>5

\* Queueing tasks: the old ones, then the new ones.
LEMMA TasksQueued ==
  ASSUME NEW q \in StationQueues, NEW s \in StationQueues
  PROVE  /\ q \o s \in StationQueues /\ Len(q \o s) = Len(q) + Len(s)
         /\ Len(q) \in Nat /\ Len(s) \in Nat
         /\ \A i \in 1 .. Len(q) : i \in 1 .. Len(q \o s) /\ (q \o s)[i] = q[i]
         /\ \A i \in 1 .. Len(s) : Len(q) + i \in 1 .. Len(q \o s) /\ (q \o s)[Len(q) + i] = s[i]
         /\ \A i \in 1 .. Len(q \o s) : i > Len(q) => i - Len(q) \in 1 .. Len(s) /\ (q \o s)[i] = s[i - Len(q)]
BY DEF StationQueues

\* The order of the tasks when some are queued.
LEMMA QueuedOrder ==
  ASSUME NEW q \in StationQueues, NEW s \in StationQueues, NEW k
  PROVE  /\ IsQueued(q \o s, k) <=> IsQueued(q, k) \/ IsQueued(s, k)
         /\ /\ NothingBehind(q, k) /\ NothingBehind(s, k)
            /\ IsQueued(q, k) => \A i \in 1 .. Len(s) : Harmless(s[i])
            => NothingBehind(q \o s, k)
         /\ /\ NothingBefore(q, k) /\ NothingBefore(s, k)
            /\ IsQueued(s, k) => \A i \in 1 .. Len(q) : Harmless(q[i])
            => NothingBefore(q \o s, k)
<1> DEFINE r == q \o s
<1>1. /\ Len(r) = Len(q) + Len(s) /\ Len(q) \in Nat /\ Len(s) \in Nat
      /\ \A i \in 1 .. Len(q) : i \in 1 .. Len(r) /\ r[i] = q[i]
      /\ \A i \in 1 .. Len(s) : Len(q) + i \in 1 .. Len(r) /\ r[Len(q) + i] = s[i]
      /\ \A i \in 1 .. Len(r) : i > Len(q) => i - Len(q) \in 1 .. Len(s) /\ r[i] = s[i - Len(q)]
  BY TasksQueued
<1> HIDE DEF r
<1>2. IsQueued(r, k) <=> IsQueued(q, k) \/ IsQueued(s, k)
  <2>1. IsQueued(q, k) => IsQueued(r, k)
    BY <1>1 DEF IsQueued
  <2>2. ASSUME NEW i \in 1 .. Len(s), s[i].kind = k PROVE IsQueued(r, k)
    <3>1. Len(q) + i \in 1 .. Len(r) /\ r[Len(q) + i].kind = k
      BY <1>1, <2>2
    <3> QED BY <3>1 DEF IsQueued
  <2>3. ASSUME NEW i \in 1 .. Len(r), r[i].kind = k PROVE IsQueued(q, k) \/ IsQueued(s, k)
    <3>1. CASE i <= Len(q)
      BY <1>1, <2>3, <3>1 DEF IsQueued
    <3>2. CASE i > Len(q)
      <4>1. i - Len(q) \in 1 .. Len(s) /\ s[i - Len(q)].kind = k
        BY <1>1, <2>3, <3>2
      <4> QED BY <4>1 DEF IsQueued
    <3> QED BY <1>1, <3>1, <3>2
  <2> QED BY <2>1, <2>2, <2>3 DEF IsQueued
<1>3. ASSUME NothingBehind(q, k), NothingBehind(s, k),
             IsQueued(q, k) => \A i \in 1 .. Len(s) : Harmless(s[i]),
             NEW i \in 1 .. Len(r), NEW j \in 1 .. Len(r), r[i].kind = k, i < j
      PROVE  Harmless(r[j])
  <2>1. CASE j <= Len(q)
    BY <1>1, <1>3, <2>1 DEF NothingBehind
  <2>2. CASE i > Len(q)
    <3>1. i - Len(q) \in 1 .. Len(s) /\ j - Len(q) \in 1 .. Len(s) /\ i - Len(q) < j - Len(q)
          /\ r[i] = s[i - Len(q)] /\ r[j] = s[j - Len(q)]
      BY <1>1, <1>3, <2>2
    <3> QED BY <1>3, <3>1 DEF NothingBehind
  <2>3. CASE i <= Len(q) /\ j > Len(q)
    <3>1. i \in 1 .. Len(q) /\ q[i].kind = k
      BY <1>1, <1>3, <2>3
    <3>2. IsQueued(q, k)
      BY <3>1 DEF IsQueued
    <3>3. j - Len(q) \in 1 .. Len(s) /\ r[j] = s[j - Len(q)]
      BY <1>1, <2>3
    <3> QED BY <1>3, <3>2, <3>3
  <2> QED BY <1>1, <1>3, <2>1, <2>2, <2>3
<1>4. ASSUME NothingBefore(q, k), NothingBefore(s, k),
             IsQueued(s, k) => \A i \in 1 .. Len(q) : Harmless(q[i]),
             NEW i \in 1 .. Len(r), NEW j \in 1 .. Len(r), r[j].kind = k, i < j
      PROVE  Harmless(r[i])
  <2>1. CASE j <= Len(q)
    BY <1>1, <1>4, <2>1 DEF NothingBefore
  <2>2. CASE i > Len(q)
    <3>1. i - Len(q) \in 1 .. Len(s) /\ j - Len(q) \in 1 .. Len(s) /\ i - Len(q) < j - Len(q)
          /\ r[i] = s[i - Len(q)] /\ r[j] = s[j - Len(q)]
      BY <1>1, <1>4, <2>2
    <3> QED BY <1>4, <3>1 DEF NothingBefore
  <2>3. CASE i <= Len(q) /\ j > Len(q)
    <3>1. j - Len(q) \in 1 .. Len(s) /\ s[j - Len(q)].kind = k
      BY <1>1, <1>4, <2>3
    <3>2. IsQueued(s, k)
      BY <3>1 DEF IsQueued
    <3>3. i \in 1 .. Len(q) /\ r[i] = q[i]
      BY <1>1, <2>3
    <3> QED BY <1>4, <3>2, <3>3
  <2> QED BY <1>1, <1>4, <2>1, <2>2, <2>3
<1>5. /\ NothingBehind(q, k) /\ NothingBehind(s, k)
      /\ IsQueued(q, k) => \A i \in 1 .. Len(s) : Harmless(s[i])
      => NothingBehind(r, k)
  BY <1>3 DEF NothingBehind
<1>6. /\ NothingBefore(q, k) /\ NothingBefore(s, k)
      /\ IsQueued(s, k) => \A i \in 1 .. Len(q) : Harmless(q[i])
      => NothingBefore(r, k)
  BY <1>4 DEF NothingBefore
<1> QED BY <1>2, <1>5, <1>6 DEF r

\* What the server will know by old and new tasks.
LEMMA QueuedTells ==
  ASSUME NEW q \in StationQueues, NEW s \in StationQueues, NEW n, NEW m, NEW knows \in BOOLEAN,
         NEW k \in 0 .. Len(q)
  PROVE  /\ silent(q, k, n) /\ silent(s, 0, n) => silent(q \o s, k, n)
         /\ willKnow(q, k, n, m, knows) /\ silent(s, 0, n) => willKnow(q \o s, k, n, m, knows)
         /\ willKnow(s, 0, n, m, FALSE) => willKnow(q \o s, k, n, m, knows)
<1> DEFINE r == q \o s
<1>1. /\ Len(r) = Len(q) + Len(s) /\ Len(q) \in Nat /\ Len(s) \in Nat
      /\ \A i \in 1 .. Len(q) : i \in 1 .. Len(r) /\ r[i] = q[i]
      /\ \A i \in 1 .. Len(s) : Len(q) + i \in 1 .. Len(r) /\ r[Len(q) + i] = s[i]
      /\ \A i \in 1 .. Len(r) : i > Len(q) => i - Len(q) \in 1 .. Len(s) /\ r[i] = s[i - Len(q)]
  BY TasksQueued, Zenon
<1> HIDE DEF r
<1>2. \A j \in 0 .. Len(q) : silent(q, j, n) /\ silent(s, 0, n) => silent(r, j, n)
  <2> SUFFICES ASSUME NEW j \in 0 .. Len(q), silent(q, j, n), silent(s, 0, n),
                      NEW i \in (j + 1) .. Len(r)
               PROVE  ~says(r[i], n)
    BY DEF silent
  <2>1. CASE i <= Len(q)
    BY <1>1, <2>1 DEF silent
  <2>2. CASE i > Len(q)
    <3>1. i - Len(q) \in 1 .. Len(s) /\ r[i] = s[i - Len(q)]
      BY <1>1, <2>2
    <3> QED BY <3>1 DEF silent
  <2> QED BY <1>1, <2>1, <2>2
<1>3. ASSUME willKnow(q, k, n, m, knows), silent(s, 0, n) PROVE willKnow(r, k, n, m, knows)
  <2>1. CASE silent(q, k, n) /\ knows
    BY <1>2, <1>3, <2>1 DEF willKnow
  <2>2. CASE ~(silent(q, k, n) /\ knows)
    <3>1. PICK i \in (k + 1) .. Len(q) : says(q[i], n) /\ q[i].msg = m /\ silent(q, i, n)
      BY <1>3, <2>2 DEF willKnow
    <3>2. i \in 0 .. Len(q) /\ i \in (k + 1) .. Len(r) /\ r[i] = q[i]
      BY <1>1, <3>1
    <3>3. silent(r, i, n)
      BY <1>2, <1>3, <3>1, <3>2
    <3> QED BY <3>1, <3>2, <3>3 DEF willKnow
  <2> QED BY <2>1, <2>2
<1>4. ASSUME willKnow(s, 0, n, m, FALSE) PROVE willKnow(r, k, n, m, knows)
  <2>1. PICK i \in 1 .. Len(s) : says(s[i], n) /\ s[i].msg = m /\ silent(s, i, n)
    BY <1>4 DEF willKnow
  <2>2. Len(q) + i \in (k + 1) .. Len(r) /\ r[Len(q) + i] = s[i]
    BY <1>1, <2>1
  <2>3. silent(r, Len(q) + i, n)
    BY <1>1, <2>1 DEF silent
  <2> QED BY <2>1, <2>2, <2>3 DEF willKnow
<1> QED BY <1>2, <1>3, <1>4, Zenon DEF r

\* The tasks for the connection, when some are queued.
LEMMA QueuedFrom ==
  ASSUME NEW q \in StationQueues, NEW s \in StationQueues, ~IsQueued(s, "onConnect"),
         NEW k \in 0 .. Len(q \o s), From(q \o s, k)
  PROVE  k \in 0 .. Len(q) /\ From(q, k)
<1> DEFINE r == q \o s
<1>1. /\ Len(r) = Len(q) + Len(s) /\ Len(q) \in Nat /\ Len(s) \in Nat
      /\ \A i \in 1 .. Len(q) : i \in 1 .. Len(r) /\ r[i] = q[i]
      /\ \A i \in 1 .. Len(r) : i > Len(q) => i - Len(q) \in 1 .. Len(s) /\ r[i] = s[i - Len(q)]
  BY TasksQueued, Zenon
<1> HIDE DEF r
<1>2. k \in 0 .. Len(r) /\ From(r, k)
  BY DEF r
<1>3. k <= Len(q)
  BY <1>1, <1>2 DEF From, IsQueued
<1> QED BY <1>1, <1>2, <1>3 DEF From

\* One task queued is a sequence of one queued.
LEMMA OneQueued ==
  ASSUME NEW q \in StationQueues, NEW t \in StationTasks
  PROVE  /\ <<t>> \in StationQueues /\ Append(q, t) = q \o <<t>>
         /\ \A k : IsQueued(<<t>>, k) <=> t.kind = k
         /\ \A k : NothingBehind(<<t>>, k) /\ NothingBefore(<<t>>, k)
         /\ (\A i \in 1 .. Len(<<t>>) : Harmless(<<t>>[i])) <=> Harmless(t)
         /\ \A n : silent(<<t>>, 0, n) <=> ~says(t, n)
         /\ \A i \in 1 .. Len(<<t>>) : <<t>>[i] = t
<1>1. <<t>> \in StationQueues /\ Append(q, t) = q \o <<t>>
  BY DEF StationQueues
<1>2. Len(<<t>>) = 1 /\ <<t>>[1] = t
  OBVIOUS
<1> DEFINE s == <<t>>
<1> HIDE DEF s
<1>3. Len(s) = 1 /\ s[1] = t
  BY <1>2 DEF s
<1>4. /\ \A k : IsQueued(s, k) <=> t.kind = k
      /\ \A k : NothingBehind(s, k) /\ NothingBefore(s, k)
      /\ (\A i \in 1 .. Len(s) : Harmless(s[i])) <=> Harmless(t)
      /\ \A n : silent(s, 0, n) <=> ~says(t, n)
      /\ \A i \in 1 .. Len(s) : s[i] = t
  <2>1. \A k : IsQueued(s, k) <=> t.kind = k
    BY <1>3 DEF IsQueued
  <2>2. \A k : NothingBehind(s, k) /\ NothingBefore(s, k)
    BY <1>3 DEF NothingBehind, NothingBefore
  <2>3. (\A i \in 1 .. Len(s) : Harmless(s[i])) <=> Harmless(t)
    BY <1>3
  <2>4. \A n : silent(s, 0, n) <=> ~says(t, n)
    BY <1>3 DEF silent
  <2>5. \A i \in 1 .. Len(s) : s[i] = t
    BY <1>3
  <2> QED BY <2>1, <2>2, <2>3, <2>4, <2>5
<1> QED BY <1>1, <1>4 DEF s

\* Emitting messages queues their tasks.
LEMMA EmittedTasks ==
  ASSUME NEW ms \in Seq(Emits)
  PROVE  /\ emitted(ms) \in StationQueues /\ Len(emitted(ms)) = Len(ms)
         /\ \A i \in 1 .. Len(ms) : emitted(ms)[i].kind = "emit" /\ emitted(ms)[i].msg = ms[i]
         /\ \A k : k # "emit" => ~IsQueued(emitted(ms), k)
         /\ \A k : k # "emit" => NothingBehind(emitted(ms), k) /\ NothingBefore(emitted(ms), k)
         /\ \A i \in 1 .. Len(emitted(ms)) : Harmless(emitted(ms)[i]) /\ emitted(ms)[i].msg # <<"success">>
<1> DEFINE s == emitted(ms)
<1>1. /\ s \in StationQueues /\ Len(s) = Len(ms)
      /\ \A i \in 1 .. Len(ms) : s[i] = queuedTask("emit", ms[i])
  <2>1. DOMAIN ms = 1 .. Len(ms) /\ Len(ms) \in Nat
    OBVIOUS
  <2>2. \A i \in 1 .. Len(ms) : queuedTask("emit", ms[i]) \in StationTasks
    BY DEF queuedTask, StationTasks
  <2>3. s \in [1 .. Len(ms) -> StationTasks]
    BY <2>1, <2>2 DEF emitted
  <2> QED BY <2>1, <2>3 DEF emitted, StationQueues
<1> HIDE DEF s
<1>2. \A i \in 1 .. Len(s) : s[i].kind = "emit" /\ s[i].msg = ms[i]
  <2>1. \A m : queuedTask("emit", m).kind = "emit" /\ queuedTask("emit", m).msg = m
    BY DEF queuedTask
  <2> QED BY <1>1, <2>1
<1>3. \A i \in 1 .. Len(s) : Harmless(s[i]) /\ s[i].msg # <<"success">>
  <2> SUFFICES ASSUME NEW i \in 1 .. Len(s) PROVE Harmless(s[i]) /\ s[i].msg # <<"success">>
    OBVIOUS
  <2>1. s[i] \in StationTasks
    BY <1>1 DEF StationQueues
  <2> QED BY <1>2, <2>1, TaskKinds DEF Harmless
<1>4. \A k : k # "emit" => ~IsQueued(s, k) /\ NothingBehind(s, k) /\ NothingBefore(s, k)
  BY <1>2 DEF IsQueued, NothingBehind, NothingBefore
<1> QED BY <1>1, <1>2, <1>3, <1>4 DEF s

\* The elements of two sequences, one behind the other.
LEMMA Joined ==
  ASSUME NEW S, NEW a \in Seq(S), NEW b \in Seq(S)
  PROVE  /\ a \o b \in Seq(S) /\ Len(a \o b) = Len(a) + Len(b)
         /\ \A i \in 1 .. Len(a) : (a \o b)[i] = a[i]
         /\ \A i \in 1 .. Len(b) : (a \o b)[i + Len(a)] = b[i]
OBVIOUS

\* A single message; the saved state; and the saved state after the message that shows the station.
LEMMA MessagesOfStation ==
  ASSUME TypeOK
  PROVE  /\ \A m \in Emits : <<m>> \in Seq(Emits) /\ Len(<<m>>) = 1 /\ <<m>>[1] = m
         /\ savedState \in Seq(Emits) /\ Len(savedState) = 3
         /\ savedState[1] = <<"freq", last["freq"]>> /\ savedState[2] = <<"tx", last["tx"]>>
         /\ savedState[3] = <<"message", last["message"]>>
         /\ << <<"show">> >> \o savedState \in Seq(Emits) /\ Len(<< <<"show">> >> \o savedState) = 4
         /\ (<< <<"show">> >> \o savedState)[1] = <<"show">>
         /\ \A i \in 1 .. 3 : (<< <<"show">> >> \o savedState)[i + 1] = savedState[i]
         /\ \A w \in {"hide", "show", "rx", "qsy"} : <<w>> \in Emits
         /\ \A f \in Fields, v \in Values : <<f, v>> \in Emits
<1>1. /\ \A w \in {"hide", "show", "rx", "qsy"} : <<w>> \in Emits
      /\ \A f \in Fields, v \in Values : <<f, v>> \in Emits
  BY DEF Emits
<1>2. \A m \in Emits : <<m>> \in Seq(Emits) /\ Len(<<m>>) = 1 /\ <<m>>[1] = m
  OBVIOUS
<1>3. \A f \in Fields : <<f, last[f]>> \in Emits
  BY <1>1 DEF TypeOK
<1>4. /\ savedState \in Seq(Emits) /\ Len(savedState) = 3
      /\ savedState[1] = <<"freq", last["freq"]>> /\ savedState[2] = <<"tx", last["tx"]>>
      /\ savedState[3] = <<"message", last["message"]>>
  <2> DEFINE a == <<"freq", last["freq"]>>  b == <<"tx", last["tx"]>>  c == <<"message", last["message"]>>
  <2>1. a \in Emits /\ b \in Emits /\ c \in Emits
    BY <1>3 DEF Fields
  <2>2. savedState = <<a, b, c>>
    BY DEF savedState
  <2> HIDE DEF a, b, c
  <2>3. savedState \in Seq(Emits) /\ Len(savedState) = 3
        /\ savedState[1] = a /\ savedState[2] = b /\ savedState[3] = c
    BY <2>1, <2>2
  <2> QED BY <2>3 DEF a, b, c
<1>5. <<"show">> \in Emits
  BY <1>1
<1>6. PICK a : a = << <<"show">> >>
  BY Zenon
<1>7. a \in Seq(Emits) /\ Len(a) = 1 /\ a[1] = <<"show">>
  BY <1>5, <1>6
<1>8. /\ a \o savedState \in Seq(Emits) /\ Len(a \o savedState) = 4 /\ (a \o savedState)[1] = a[1]
      /\ \A i \in 1 .. 3 : (a \o savedState)[i + 1] = savedState[i]
  <2> DEFINE r == a \o savedState
  <2>1. /\ r \in Seq(Emits) /\ Len(r) = Len(a) + Len(savedState)
        /\ \A i \in 1 .. Len(a) : r[i] = a[i]
        /\ \A i \in 1 .. Len(savedState) : r[i + Len(a)] = savedState[i]
    <3>1. a \in Seq(Emits) /\ savedState \in Seq(Emits)
      BY <1>4, <1>7
    <3> QED BY <3>1, Joined
  <2> HIDE DEF r
  <2>2. r \in Seq(Emits) /\ Len(r) = 4 /\ r[1] = a[1] /\ \A i \in 1 .. 3 : r[i + 1] = savedState[i]
    BY <1>4, <1>7, <2>1
  <2> QED BY <2>2 DEF r
<1> QED BY <1>1, <1>2, <1>4, <1>6, <1>7, <1>8, Zenon

\* Reports by name, by kind and by field.
LEMMA SaysLess ==
  ASSUME NEW t
  PROVE  /\ says(t, HideShow) => says(t, Reports)
         /\ \A f \in Fields : says(t, {f}) => says(t, Reports)
         /\ says(t, Reports) => t.kind = "emit"
BY DEF says, HideShow, Reports

\* Silence about everything is silence about each.
LEMMA SilentLess ==
  ASSUME NEW q, NEW k, silent(q, k, Reports)
  PROVE  silent(q, k, HideShow) /\ \A f \in Fields : silent(q, k, {f})
BY SaysLess DEF silent

\* A task that tells nothing of the station leaves the rest of the queue in order when it is taken.
LEMMA RestInOrder ==
  ASSUME NEW q, QueueOK(q), q # <<>>, Head(q).kind # "onConnect"
  PROVE  Tail(q) \in StationQueues /\ AttemptOK(Tail(q)) /\ NewConnectionOK(Tail(q))
<1>1. q \in StationQueues /\ AttemptOK(q) /\ NewConnectionOK(q)
  BY DEF QueueOK
<1>2. Tail(q) \in StationQueues
  BY <1>1, TaskTakenFrom
<1>3. /\ \A k : IsQueued(Tail(q), k) => IsQueued(q, k)
      /\ IsQueued(q, "onConnect") => IsQueued(Tail(q), "onConnect")
      /\ \A k : NothingBehind(q, k) => NothingBehind(Tail(q), k)
      /\ \A k : NothingBefore(q, k) => NothingBefore(Tail(q), k)
  BY <1>1, TakenOrder
<1>4. AttemptOK(Tail(q))
  BY <1>1, <1>3, Zenon DEF AttemptOK
<1>5. NewConnectionOK(Tail(q))
  BY <1>1, <1>3, Zenon DEF NewConnectionOK
<1> QED BY <1>2, <1>4, <1>5

\* What it leaves tells what it told before.
LEMMA RestTells ==
  ASSUME NEW q, QueueOK(q), q # <<>>, Head(q).kind # "onConnect", ~says(Head(q), Reports)
  PROVE  /\ HearsOK(Tail(q)) /\ (KnowsAll(q) => KnowsAll(Tail(q)))
         /\ Welcome(q) => Welcome(Tail(q)) \/ Head(q).msg = <<"success">>
<1> DEFINE r == Tail(q)
<1>1. q \in StationQueues /\ HearsOK(q) /\ ~says(Head(q), HideShow) /\ \A f \in Fields : ~says(Head(q), {f})
  BY SaysLess DEF QueueOK
<1>2. /\ Head(q) = q[1] /\ Len(r) = Len(q) - 1 /\ Len(q) \in Nat /\ Len(q) > 0
      /\ \A i \in 2 .. Len(q) : i - 1 \in 1 .. Len(r) /\ q[i] = r[i - 1]
  BY <1>1, TaskTakenFrom
<1>3. \A n, m : \A knows \in BOOLEAN :
        willKnow(q, 0, n, m, knows) /\ ~says(Head(q), n) => willKnow(r, 0, n, m, knows)
  BY <1>1, TakenTells
<1>4. \A n, m : \A knows \in BOOLEAN : \A k \in Nat :
        /\ willKnow(q, k + 1, n, m, knows) => willKnow(r, k, n, m, knows)
        /\ silent(q, k + 1, n) => silent(r, k, n)
  BY <1>1, TakenTells, Zenon
<1>5. \A n : silent(q, 0, n) => silent(r, 0, n)
  BY <1>1, TakenTells, Zenon
<1>6. HearsOK(r)
  <2> SUFFICES ASSUME NEW k \in 0 .. Len(r), socket, From(r, k)
               PROVE  /\ ~isFullyConnected => server.view = NewView /\ silent(r, k, Reports)
                      /\ isFullyConnected /\ ~hidden =>
                           willKnow(r, k, HideShow, <<"show">>, ~server.view.hidden)
    BY DEF HearsOK
  <2>1. k \in Nat /\ k + 1 \in 0 .. Len(q) /\ 0 \in 0 .. Len(q)
        /\ (From(q, k + 1) \/ (k = 0 /\ From(q, 0)))
    BY <1>1, <1>2, TakenFrom
  <2>2. (~server.view.hidden) \in BOOLEAN
    OBVIOUS
  <2>3. CASE From(q, k + 1)
    BY <1>1, <1>4, <2>1, <2>2, <2>3, Zenon DEF HearsOK
  <2>4. CASE k = 0 /\ From(q, 0)
    BY <1>1, <1>3, <1>5, <2>1, <2>2, <2>4, Zenon DEF HearsOK
  <2> QED BY <2>1, <2>3, <2>4
<1>7. KnowsAll(q) => KnowsAll(r)
  <2> SUFFICES ASSUME KnowsAll(q) PROVE KnowsAll(r)
    OBVIOUS
  <2>1. (server.view.hidden = hidden) \in BOOLEAN /\ \A f : (server.view.fields[f] = last[f]) \in BOOLEAN
    OBVIOUS
  <2> QED BY <1>1, <1>3, <2>1, Zenon DEF KnowsAll
<1>8. Welcome(q) => Welcome(r) \/ Head(q).msg = <<"success">>
  <2> SUFFICES ASSUME NEW i \in 1 .. Len(q), q[i].msg = <<"success">>, Head(q).msg # <<"success">>
               PROVE  Welcome(r)
    BY DEF Welcome
  <2>1. i - 1 \in 1 .. Len(r) /\ r[i - 1].msg = <<"success">>
    BY <1>2
  <2> QED BY <2>1 DEF Welcome
<1> QED BY <1>6, <1>7, <1>8

\* New tasks behind a queue in order: none that connects, and without a connection only harmless ones.
LEMMA MoreInOrder ==
  ASSUME NEW q \in StationQueues, AttemptOK(q), NewConnectionOK(q), NEW s \in StationQueues,
         ~IsQueued(s, "connect"), ~IsQueued(s, "onConnect"),
         ~socket => \A i \in 1 .. Len(s) : Harmless(s[i])
  PROVE  q \o s \in StationQueues /\ AttemptOK(q \o s) /\ NewConnectionOK(q \o s)
<1>1. q \o s \in StationQueues
  BY TasksQueued
<1>2. /\ IsQueued(q \o s, "connect") <=> IsQueued(q, "connect")
      /\ IsQueued(q \o s, "onConnect") <=> IsQueued(q, "onConnect")
  BY QueuedOrder, Zenon
<1>3. NothingBehind(s, "connect") /\ NothingBefore(s, "onConnect")
  BY DEF NothingBehind, NothingBefore, IsQueued
<1>4. IsQueued(q, "connect") => \A i \in 1 .. Len(s) : Harmless(s[i])
  BY Zenon DEF AttemptOK
<1>5. NothingBehind(q \o s, "connect")
  BY <1>3, <1>4, QueuedOrder, Zenon DEF AttemptOK
<1>6. NothingBefore(q \o s, "onConnect")
  BY <1>3, QueuedOrder, Zenon DEF NewConnectionOK
<1>7. AttemptOK(q \o s)
  BY <1>2, <1>5, Zenon DEF AttemptOK
<1>8. NewConnectionOK(q \o s)
  BY <1>2, <1>6, Zenon DEF NewConnectionOK
<1> QED BY <1>1, <1>7, <1>8

\* New tasks that tell nothing of the station change nothing of what the others tell.
LEMMA MoreTells ==
  ASSUME NEW q \in StationQueues, NEW s \in StationQueues,
         ~IsQueued(s, "onConnect"), silent(s, 0, Reports)
  PROVE  /\ HearsOK(q) => HearsOK(q \o s)
         /\ KnowsAll(q) => KnowsAll(q \o s)
         /\ Welcome(q) \/ (\E i \in 1 .. Len(s) : s[i].msg = <<"success">>) => Welcome(q \o s)
<1> DEFINE r == q \o s
<1>1. silent(s, 0, HideShow) /\ \A f \in Fields : silent(s, 0, {f})
  BY SilentLess
<1>2. \A n, m : \A knows \in BOOLEAN : \A k \in 0 .. Len(q) :
        /\ silent(q, k, n) /\ silent(s, 0, n) => silent(r, k, n)
        /\ willKnow(q, k, n, m, knows) /\ silent(s, 0, n) => willKnow(r, k, n, m, knows)
  BY QueuedTells, Zenon
<1>3. \A k \in 0 .. Len(r) : From(r, k) => k \in 0 .. Len(q) /\ From(q, k)
  BY QueuedFrom
<1>4. HearsOK(q) => HearsOK(r)
  <2> SUFFICES ASSUME HearsOK(q), NEW k \in 0 .. Len(r), socket, From(r, k)
               PROVE  /\ ~isFullyConnected => server.view = NewView /\ silent(r, k, Reports)
                      /\ isFullyConnected /\ ~hidden =>
                           willKnow(r, k, HideShow, <<"show">>, ~server.view.hidden)
    BY DEF HearsOK
  <2>1. k \in 0 .. Len(q) /\ From(q, k) /\ (~server.view.hidden) \in BOOLEAN
    BY <1>3
  <2> QED BY <1>1, <1>2, <2>1, Zenon DEF HearsOK
<1>5. 0 \in 0 .. Len(q) /\ Len(r) = Len(q) + Len(s) /\ Len(q) \in Nat /\ Len(s) \in Nat
      /\ (\A i \in 1 .. Len(q) : i \in 1 .. Len(r) /\ r[i] = q[i])
      /\ \A i \in 1 .. Len(s) : Len(q) + i \in 1 .. Len(r) /\ r[Len(q) + i] = s[i]
  BY TasksQueued
<1>6. KnowsAll(q) => KnowsAll(r)
  <2> SUFFICES ASSUME KnowsAll(q) PROVE KnowsAll(r)
    OBVIOUS
  <2>1. (server.view.hidden = hidden) \in BOOLEAN /\ \A f : (server.view.fields[f] = last[f]) \in BOOLEAN
    OBVIOUS
  <2> QED BY <1>1, <1>2, <1>5, <2>1, Zenon DEF KnowsAll
<1> HIDE DEF r
<1>7. Welcome(q) => Welcome(r)
  BY <1>5 DEF Welcome
<1>8. ASSUME NEW i \in 1 .. Len(s), s[i].msg = <<"success">> PROVE Welcome(r)
  <2>1. Len(q) + i \in 1 .. Len(r) /\ r[Len(q) + i].msg = <<"success">>
    BY <1>5, <1>8
  <2> QED BY <2>1 DEF Welcome
<1> QED BY <1>4, <1>6, <1>7, <1>8 DEF r

\* The same, of one task that neither connects nor tells anything.
LEMMA OneMore ==
  ASSUME NEW q \in StationQueues, AttemptOK(q), NewConnectionOK(q), NEW t \in StationTasks,
         t.kind \notin {"connect", "onConnect", "emit"}, socket \/ Harmless(t)
  PROVE  /\ Append(q, t) \in StationQueues /\ AttemptOK(Append(q, t)) /\ NewConnectionOK(Append(q, t))
         /\ HearsOK(q) => HearsOK(Append(q, t))
         /\ KnowsAll(q) => KnowsAll(Append(q, t))
         /\ Welcome(q) \/ t.msg = <<"success">> => Welcome(Append(q, t))
<1> DEFINE s == <<t>>
<1>1. /\ s \in StationQueues /\ Append(q, t) = q \o s
      /\ ~IsQueued(s, "connect") /\ ~IsQueued(s, "onConnect")
      /\ socket \/ \A i \in 1 .. Len(s) : Harmless(s[i])
      /\ \A i \in 1 .. Len(s) : s[i] = t
  BY OneQueued, Zenon
<1>2. silent(s, 0, Reports)
  BY OneQueued, TaskKinds, Zenon
<1>3. 1 \in 1 .. Len(s)
  OBVIOUS
<1> HIDE DEF s
<1>4. q \o s \in StationQueues /\ AttemptOK(q \o s) /\ NewConnectionOK(q \o s)
  BY <1>1, MoreInOrder
<1>5. /\ HearsOK(q) => HearsOK(q \o s)
      /\ KnowsAll(q) => KnowsAll(q \o s)
      /\ Welcome(q) \/ (\E i \in 1 .. Len(s) : s[i].msg = <<"success">>) => Welcome(q \o s)
  BY <1>1, <1>2, MoreTells
<1> QED BY <1>1, <1>3, <1>4, <1>5, Zenon

\* The parts of the inductive invariant.
LEMMA Parts ==
  ASSUME StationIInv
  PROVE  /\ TypeOK /\ QueueOK(eventQueue) /\ eventQueue \in StationQueues
         /\ AttemptOK(eventQueue) /\ NewConnectionOK(eventQueue) /\ HearsOK(eventQueue)
         /\ KnowsOK(eventQueue)
BY DEF StationIInv, QueueOK

\* The kinds of the tasks are those TypeOK allows.
LEMMA QueueTypes ==
  ASSUME NEW q \in StationQueues
  PROVE  \A i \in DOMAIN q : q[i].kind \in Kinds
BY TaskKinds DEF StationQueues

stationState == <<isFullyConnected, hidden, last, connection, pingTimer, socket, reconnectTimer, server>>

\* A step that changes the queue, and what the receive thread has to read, but nothing else that
\* matters, keeps the invariant if the queue is in order and a welcome does not get lost.
LEMMA QueueSteps ==
  ASSUME StationIInv, UNCHANGED stationState,
         cpc' = cpc \/ (cpc = "connecting" /\ cpc' = "done"),
         registered' \in BOOLEAN, registered => registered',
         wire' \in Seq({"open", "success", "report", "close"}),
         NEW q, eventQueue' = q, q \in StationQueues, AttemptOK(q), NewConnectionOK(q), HearsOK(q),
         KnowsAll(eventQueue) => KnowsAll(q),
         Welcome(eventQueue) => Welcome(eventQueue)' \/ ~socket
  PROVE  StationIInv'
<1>1. TypeOK'
  BY Parts, QueueTypes DEF TypeOK, stationState
<1>2. AttemptOK(eventQueue)'
  BY DEF AttemptOK, stationState
<1>3. NewConnectionOK(eventQueue)'
  BY DEF NewConnectionOK, stationState
<1>4. HearsOK(eventQueue)'
  BY DEF HearsOK, stationState
<1>5. KnowsOK(eventQueue)'
  <2> SUFFICES ASSUME (isFullyConnected /\ socket /\ server.phase = "welcomed")', ~Welcome(eventQueue)'
               PROVE  KnowsAll(eventQueue)'
    BY DEF KnowsOK
  <2>1. isFullyConnected /\ socket /\ server.phase = "welcomed"
    BY DEF stationState
  <2>2. KnowsAll(eventQueue)
    BY <2>1, Parts DEF KnowsOK
  <2>3. KnowsAll(q)
    BY <2>2
  <2> QED BY <2>3 DEF KnowsAll, stationState
<1> QED BY <1>1, <1>2, <1>3, <1>4, <1>5 DEF StationIInv, QueueOK

\* A queue in order, step by step: the first task taken, and another one queued instead.
LEMMA FirstTask ==
  ASSUME StationIInv, eventQueue # <<>>
  PROVE  /\ Head(eventQueue) \in StationTasks
         /\ take(Head(eventQueue).kind)
         /\ Head(eventQueue).kind \in {"dispatch", "event"} =>
              Head(eventQueue).msg = <<received>> /\ received \in {"open", "success", "report", "close"}
<1>1. Head(eventQueue) \in StationTasks
  BY Parts, TaskTakenFrom
<1>2. \A m \in Answers : m = <<m[1]>> /\ m[1] \in {"open", "success", "report", "close"}
  BY DEF Answers
<1> QED BY <1>1, <1>2, TaskKinds DEF take, received

\* Words on the wire are types of it, and a welcome is one of them or not.
LEMMA WireSteps ==
  ASSUME StationIInv
  PROVE  /\ \A w \in {"open", "success", "report", "close"} :
              /\ Append(wire, w) \in Seq({"open", "success", "report", "close"})
              /\ Range(wire) \subseteq Range(Append(wire, w)) /\ w \in Range(Append(wire, w))
         /\ wire # <<>> => /\ Tail(wire) \in Seq({"open", "success", "report", "close"})
                           /\ Head(wire) \in {"open", "success", "report", "close"}
                           /\ Range(wire) \subseteq Range(Tail(wire)) \cup {Head(wire)}
<1> DEFINE W == {"open", "success", "report", "close"}
<1>1. wire \in Seq(W)
  BY DEF StationIInv, TypeOK
<1> HIDE DEF W
<1>2. ASSUME NEW w \in W
      PROVE  Append(wire, w) \in Seq(W) /\ Range(wire) \subseteq Range(Append(wire, w)) /\ w \in Range(Append(wire, w))
  <2>1. /\ Append(wire, w) \in Seq(W) /\ Len(Append(wire, w)) = Len(wire) + 1 /\ Len(wire) \in Nat
        /\ Append(wire, w)[Len(wire) + 1] = w
        /\ \A i \in 1 .. Len(wire) : Append(wire, w)[i] = wire[i]
    BY <1>1, <1>2
  <2>2. DOMAIN wire = 1 .. Len(wire) /\ DOMAIN Append(wire, w) = 1 .. (Len(wire) + 1)
    BY <1>1, <1>2
  <2> QED BY <2>1, <2>2 DEF Range
<1>3. ASSUME wire # <<>>
      PROVE  Tail(wire) \in Seq(W) /\ Head(wire) \in W /\ Range(wire) \subseteq Range(Tail(wire)) \cup {Head(wire)}
  <2>1. /\ Tail(wire) \in Seq(W) /\ Head(wire) \in W /\ Head(wire) = wire[1] /\ Len(wire) \in Nat
        /\ DOMAIN wire = 1 .. Len(wire) /\ DOMAIN Tail(wire) = 1 .. (Len(wire) - 1)
        /\ \A i \in 1 .. (Len(wire) - 1) : Tail(wire)[i] = wire[i + 1]
    BY <1>1, <1>3
  <2>2. ASSUME NEW i \in DOMAIN wire, wire[i] # Head(wire) PROVE wire[i] \in Range(Tail(wire))
    <3>1. i - 1 \in DOMAIN Tail(wire) /\ Tail(wire)[i - 1] = wire[i]
      BY <2>1, <2>2
    <3> QED BY <3>1 DEF Range
  <2> QED BY <2>1, <2>2 DEF Range
<1> QED BY <1>2, <1>3 DEF W

\* What the receive thread and the timers queue, and what the server sends in between.
LEMMA ReceivingKeeps ==
  ASSUME StationIInv,
         Receive \/ ReceiveFails \/ PingTimerFires \/ ServerReports \/ ServerCloses
  PROVE  StationIInv'
<1>1. ASSUME NEW t \in StationTasks, t.kind \notin {"connect", "onConnect", "emit"}, socket
      PROVE  /\ Append(eventQueue, t) \in StationQueues /\ AttemptOK(Append(eventQueue, t))
             /\ NewConnectionOK(Append(eventQueue, t)) /\ HearsOK(Append(eventQueue, t))
             /\ KnowsAll(eventQueue) => KnowsAll(Append(eventQueue, t))
             /\ Welcome(eventQueue) \/ t.msg = <<"success">> => Welcome(Append(eventQueue, t))
  BY <1>1, OneMore, Parts
<1>2. CASE Receive
  <2> DEFINE t == queuedTask("dispatch", <<Head(wire)>>)
  <2>1. socket /\ wire # <<>> /\ eventQueue' = Append(eventQueue, t) /\ wire' = Tail(wire)
        /\ UNCHANGED stationState /\ UNCHANGED <<cpc, registered>>
    BY <1>2 DEF Receive, stationState, reporter, client, tcp
  <2>2. t \in StationTasks /\ t.kind = "dispatch" /\ t.msg = <<Head(wire)>>
    BY <2>1, WireSteps DEF queuedTask, StationTasks, Answers
  <2>3. wire' \in Seq({"open", "success", "report", "close"})
    BY <2>1, WireSteps
  <2>4. Welcome(eventQueue) => Welcome(eventQueue)'
    <3>1. "success" \in Range(wire) => "success" \in Range(wire') \/ t.msg = <<"success">>
      BY <2>1, <2>2, WireSteps
    <3>2. t.msg = <<"success">> => \E i \in 1 .. Len(eventQueue') : eventQueue'[i].msg = <<"success">>
      <4>1. Len(eventQueue) + 1 \in 1 .. Len(eventQueue') /\ eventQueue'[Len(eventQueue) + 1] = t
        BY <2>1, Parts DEF StationQueues
      <4> QED BY <4>1
    <3>3. ASSUME NEW i \in 1 .. Len(eventQueue)
          PROVE  i \in 1 .. Len(eventQueue') /\ eventQueue'[i] = eventQueue[i]
      BY <2>1, Parts DEF StationQueues
    <3> QED BY <3>1, <3>2, <3>3 DEF Welcome
  <2> HIDE DEF t
  <2> QED BY <1>1, <2>1, <2>2, <2>3, <2>4, QueueSteps, Parts, Zenon DEF TypeOK
<1>3. CASE ReceiveFails \/ PingTimerFires
  <2> DEFINE t == plain("disconnect")
  <2>1. (socket \/ pingTimer) /\ eventQueue' = Append(eventQueue, t) /\ wire' = wire
        /\ UNCHANGED stationState /\ UNCHANGED <<cpc, registered>>
    BY <1>3 DEF ReceiveFails, PingTimerFires, stationState, reporter, client, tcp
  <2>2. socket
    BY <2>1, Parts DEF AttemptOK
  <2>3. t \in StationTasks /\ t.kind = "disconnect"
    BY DEF plain, queuedTask, StationTasks
  <2> HIDE DEF t
  <2>4. wire' \in Seq({"open", "success", "report", "close"})
    BY <2>1, Parts DEF TypeOK
  <2>5. Welcome(eventQueue) => Welcome(eventQueue)'
    BY <1>1, <2>1, <2>2, <2>3 DEF Welcome
  <2> QED BY <1>1, <2>1, <2>2, <2>3, <2>4, <2>5, QueueSteps, Parts, Zenon DEF TypeOK
<1>4. CASE ServerReports \/ ServerCloses
  <2>1. PICK w \in {"report", "close"} : wire' = Append(wire, w) /\ eventQueue' = eventQueue
        /\ UNCHANGED stationState /\ UNCHANGED <<cpc, registered>>
    BY <1>4 DEF ServerReports, ServerCloses, stationState, reporter, client, tcp
  <2>2. wire' \in Seq({"open", "success", "report", "close"}) /\ Range(wire) \subseteq Range(wire')
    BY <2>1, WireSteps
  <2>3. Welcome(eventQueue) => Welcome(eventQueue)'
    BY <2>1, <2>2 DEF Welcome
  <2> QED BY <2>1, <2>2, <2>3, QueueSteps, Parts DEF TypeOK
<1> QED BY <1>2, <1>3, <1>4

\* Tasks that change nothing but the queue, and the registering of the handlers.
LEMMA DispatchKeeps ==
  ASSUME StationIInv,
         DispatchNothing \/ DispatchEvent \/ DispatchClose \/ StationEvent \/ RunNothing \/ RunOn
  PROVE  StationIInv'
<1> DEFINE h == Head(eventQueue)
           r == Tail(eventQueue)
<1>1. /\ eventQueue # <<>> /\ UNCHANGED stationState /\ wire' = wire /\ cpc' = cpc
      /\ registered' \in BOOLEAN /\ (registered => registered')
      /\ h.kind \in {"dispatch", "event", "disconnect", "connect", "on"}
      /\ \/ eventQueue' = r /\ (h.kind = "dispatch" => ~socket) /\ (h.kind = "event" => received = "report")
         \/ socket /\ h.kind = "dispatch" /\ eventQueue' = Append(r, queuedTask("event", <<received>>))
         \/ socket /\ h.kind = "dispatch" /\ received = "close" /\ eventQueue' = Append(r, plain("disconnect"))
  <2>1. registered \in BOOLEAN
    BY Parts DEF TypeOK
  <2>2. CASE DispatchNothing
    BY <2>1, <2>2 DEF DispatchNothing, take, takeOnly, stationState, reporter, client, tcp
  <2>3. CASE DispatchEvent
    BY <2>1, <2>3 DEF DispatchEvent, take, stationState, reporter, client, tcp
  <2>4. CASE DispatchClose
    BY <2>1, <2>4 DEF DispatchClose, take, stationState, reporter, client, tcp
  <2>5. CASE StationEvent
    BY <2>1, <2>5 DEF StationEvent, take, takeOnly, stationState, reporter, client, tcp
  <2>6. CASE RunNothing
    BY <2>1, <2>6 DEF RunNothing, take, takeOnly, stationState, reporter, client, tcp
  <2>7. CASE RunOn
    BY <2>1, <2>7 DEF RunOn, take, takeOnly, stationState, reporter, tcp
  <2> QED BY <2>2, <2>3, <2>4, <2>5, <2>6, <2>7, Zenon
<1>2. h \in StationTasks /\ ~says(h, Reports)
      /\ (h.kind \in {"dispatch", "event"} =>
            h.msg = <<received>> /\ received \in {"open", "success", "report", "close"})
      /\ (h.msg = <<"success">> => h.kind \in {"dispatch", "event"})
  BY <1>1, FirstTask, TaskKinds
<1>3. /\ r \in StationQueues /\ AttemptOK(r) /\ NewConnectionOK(r) /\ HearsOK(r)
      /\ KnowsAll(eventQueue) => KnowsAll(r)
      /\ Welcome(eventQueue) => Welcome(r) \/ h.msg = <<"success">>
  BY <1>1, <1>2, RestInOrder, RestTells, Parts, Zenon
<1>4. wire' \in Seq({"open", "success", "report", "close"})
  BY <1>1, Parts DEF TypeOK
<1>5. CASE eventQueue' = r
  <2>1. Welcome(eventQueue) => Welcome(r) \/ ~socket
    <3>1. <<received>>[1] = received /\ <<"success">>[1] = "success"
      OBVIOUS
    <3> QED BY <1>1, <1>2, <1>3, <1>5, <3>1
  <2>2. Welcome(eventQueue) => Welcome(eventQueue)' \/ ~socket
    BY <1>1, <1>5, <2>1 DEF Welcome
  <2> HIDE DEF r
  <2> QED BY <1>1, <1>3, <1>4, <1>5, <2>2, QueueSteps
<1>6. ASSUME NEW t \in StationTasks, t.kind \notin {"connect", "onConnect", "emit"}, socket,
             h.msg = <<"success">> => t.msg = <<"success">>, eventQueue' = Append(r, t)
      PROVE  StationIInv'
  <2>1. /\ Append(r, t) \in StationQueues /\ AttemptOK(Append(r, t)) /\ NewConnectionOK(Append(r, t))
        /\ HearsOK(Append(r, t)) /\ (KnowsAll(r) => KnowsAll(Append(r, t)))
        /\ Welcome(r) \/ t.msg = <<"success">> => Welcome(Append(r, t))
    BY <1>3, <1>6, OneMore
  <2>2. Welcome(eventQueue) => Welcome(Append(r, t))
    BY <1>3, <1>6, <2>1
  <2>3. Welcome(eventQueue) => Welcome(eventQueue)' \/ ~socket
    BY <1>1, <1>6, <2>2 DEF Welcome
  <2> HIDE DEF r
  <2> QED BY <1>1, <1>3, <1>4, <1>6, <2>1, <2>3, QueueSteps, Zenon
<1>7. CASE socket /\ h.kind = "dispatch" /\ eventQueue' = Append(r, queuedTask("event", <<received>>))
  <2>1. /\ queuedTask("event", <<received>>) \in StationTasks
        /\ queuedTask("event", <<received>>).kind = "event"
        /\ queuedTask("event", <<received>>).msg = <<received>>
    BY <1>2, <1>7 DEF queuedTask, StationTasks, Answers
  <2> QED BY <1>2, <1>6, <1>7, <2>1
<1>8. CASE socket /\ h.kind = "dispatch" /\ received = "close" /\ eventQueue' = Append(r, plain("disconnect"))
  <2>1. plain("disconnect") \in StationTasks /\ plain("disconnect").kind = "disconnect"
    BY DEF plain, queuedTask, StationTasks
  <2>2. h.msg # <<"success">>
    <3>1. <<"close">>[1] = "close" /\ <<"success">>[1] = "success"
      OBVIOUS
    <3> QED BY <1>2, <1>8, <3>1
  <2> QED BY <1>6, <1>8, <2>1, <2>2
<1> QED BY <1>1, <1>5, <1>7, <1>8

\* Calling connect(): the first attempt is queued, and then the handlers.
LEMMA CallerKeeps ==
  ASSUME StationIInv, Connect \/ RegisterHandlers \/ ReconnectTimerFires
  PROVE  StationIInv'
<1>1. CASE RegisterHandlers
  <2> DEFINE t == plain("on")
  <2>1. /\ eventQueue' = Append(eventQueue, t) /\ cpc = "connecting" /\ cpc' = "done"
        /\ UNCHANGED stationState /\ UNCHANGED <<wire, registered>>
    BY <1>1 DEF RegisterHandlers, stationState, reporter, client, tcp
  <2>2. t \in StationTasks /\ t.kind = "on" /\ Harmless(t)
    BY DEF plain, queuedTask, StationTasks, Harmless
  <2> HIDE DEF t
  <2>3. /\ Append(eventQueue, t) \in StationQueues /\ AttemptOK(Append(eventQueue, t))
        /\ NewConnectionOK(Append(eventQueue, t)) /\ HearsOK(Append(eventQueue, t))
        /\ KnowsAll(eventQueue) => KnowsAll(Append(eventQueue, t))
        /\ Welcome(eventQueue) => Welcome(Append(eventQueue, t))
    BY <2>2, OneMore, Parts
  <2>4. wire' \in Seq({"open", "success", "report", "close"}) /\ registered' \in BOOLEAN
    BY <2>1, Parts DEF TypeOK
  <2>5. Welcome(eventQueue) => Welcome(eventQueue)'
    BY <2>1, <2>3 DEF Welcome
  <2> QED BY <2>1, <2>3, <2>4, <2>5, QueueSteps, Zenon
<1>2. CASE Connect \/ ReconnectTimerFires
  <2> DEFINE t == plain("connect")
             s == <<t>>
             q == eventQueue \o s
  <2>1. /\ eventQueue' = Append(eventQueue, t) /\ cpc' \in {"connecting", "done"}
        /\ ~reconnectTimer' /\ reconnectTimer' \in BOOLEAN /\ isFullyConnected' \in BOOLEAN
        /\ (isFullyConnected' => isFullyConnected)
        /\ UNCHANGED <<hidden, last, connection, registered, pingTimer, socket, server, wire>>
    <3>1. CASE Connect
      BY <3>1, Parts, Zenon DEF Connect, client, tcp, TypeOK, AttemptOK
    <3>2. CASE ReconnectTimerFires
      BY <3>2, Parts, Zenon DEF ReconnectTimerFires, reporter, client, TypeOK, AttemptOK
    <3> QED BY <1>2, <3>1, <3>2
  <2>2. ~socket /\ ~IsQueued(eventQueue, "connect")
    BY <1>2, Parts DEF AttemptOK, Connect, ReconnectTimerFires
  <2>3. t \in StationTasks /\ t.kind = "connect"
    BY DEF plain, queuedTask, StationTasks
  <2>4. /\ s \in StationQueues /\ eventQueue' = q /\ ~IsQueued(s, "onConnect")
        /\ NothingBehind(s, "connect") /\ NothingBefore(s, "onConnect")
    BY <2>1, <2>3, OneQueued, Parts, Zenon
  <2> HIDE DEF s
  <2>5. q \in StationQueues /\ NothingBehind(q, "connect") /\ NothingBefore(q, "onConnect")
        /\ (IsQueued(q, "onConnect") <=> IsQueued(eventQueue, "onConnect"))
    <3>1. NothingBehind(eventQueue, "connect") /\ NothingBefore(eventQueue, "onConnect")
      BY Parts DEF AttemptOK, NewConnectionOK
    <3> QED BY <2>2, <2>4, <3>1, Parts, TasksQueued, QueuedOrder, Zenon
  <2> HIDE DEF q
  <2>6. TypeOK'
    BY <2>1, <2>4, <2>5, Parts, QueueTypes DEF TypeOK
  <2>7. AttemptOK(eventQueue)'
    BY <2>1, <2>2, <2>4, <2>5, Parts, Zenon DEF AttemptOK
  <2>8. NewConnectionOK(eventQueue)'
    BY <2>1, <2>2, <2>4, <2>5, Parts, Zenon DEF NewConnectionOK
  <2>9. HearsOK(eventQueue)' /\ KnowsOK(eventQueue)'
    BY <2>1, <2>2 DEF HearsOK, KnowsOK
  <2> QED BY <2>4, <2>5, <2>6, <2>7, <2>8, <2>9 DEF StationIInv, QueueOK
<1> QED BY <1>1, <1>2

\* An attempt to connect, with or without success.
LEMMA ConnectingKeeps ==
  ASSUME StationIInv, Connected \/ NotConnected
  PROVE  StationIInv'
<1> DEFINE r == Tail(eventQueue)
<1>1. eventQueue # <<>> /\ Head(eventQueue).kind = "connect" /\ ~socket
  BY DEF Connected, NotConnected, take, takeOnly
<1>2. r \in StationQueues /\ AttemptOK(r) /\ NewConnectionOK(r)
  BY <1>1, Parts, RestInOrder
<1>3. /\ \A i \in 1 .. Len(r) : Harmless(r[i])
      /\ IsQueued(eventQueue, "connect")
  <2>1. NothingBehind(eventQueue, "connect")
    BY Parts DEF AttemptOK
  <2>2. 1 \in 1 .. Len(eventQueue) /\ Head(eventQueue) = eventQueue[1]
    BY <1>1, Parts, TaskTakenFrom
  <2> QED BY <1>1, <2>1, <2>2, Parts, TakenOrder DEF IsQueued
<1>4. ~IsQueued(r, "connect") /\ ~IsQueued(r, "onConnect")
  BY <1>3 DEF IsQueued, Harmless
<1>5. cpc # "start" /\ ~reconnectTimer /\ ~pingTimer /\ server = Absent /\ connection \in {"none", "closed"}
  BY <1>1, <1>3, Parts DEF AttemptOK
<1>6. CASE NotConnected
  <2>1. /\ eventQueue' = r /\ reconnectTimer'
        /\ UNCHANGED <<isFullyConnected, hidden, last, cpc, connection, registered, pingTimer, socket, server, wire>>
    BY <1>6 DEF NotConnected, takeOnly, reporter, client
  <2> HIDE DEF r
  <2>2. TypeOK'
    <3>1. reconnectTimer' \in BOOLEAN
      BY <1>6 DEF NotConnected
    <3> QED BY <1>2, <2>1, <3>1, Parts, QueueTypes DEF TypeOK
  <2>3. AttemptOK(eventQueue)'
    BY <1>1, <1>2, <1>4, <1>5, <2>1 DEF AttemptOK
  <2>4. NewConnectionOK(eventQueue)'
    BY <1>2, <2>1 DEF NewConnectionOK
  <2>5. HearsOK(eventQueue)' /\ KnowsOK(eventQueue)'
    BY <1>1, <2>1 DEF HearsOK, KnowsOK
  <2> QED BY <1>2, <2>1, <2>2, <2>3, <2>4, <2>5 DEF StationIInv, QueueOK
<1>7. CASE Connected
  <2> DEFINE t == plain("onConnect")
             s == <<t>>
             q == r \o s
  <2>1. /\ eventQueue' = Append(r, t) /\ socket' /\ socket' \in BOOLEAN
        /\ UNCHANGED <<isFullyConnected, hidden, last, cpc, connection, registered, pingTimer, reconnectTimer, server, wire>>
    BY <1>7 DEF Connected, reporter, client
  <2>2. t \in StationTasks /\ t.kind = "onConnect"
    BY DEF plain, queuedTask, StationTasks
  <2>3. /\ s \in StationQueues /\ eventQueue' = q /\ ~IsQueued(s, "connect") /\ IsQueued(s, "onConnect")
        /\ NothingBehind(s, "connect") /\ NothingBefore(s, "onConnect") /\ Len(s) = 1 /\ s[1] = t
    BY <1>2, <2>1, <2>2, OneQueued, Zenon
  <2> HIDE DEF s, r, t
  <2>4. /\ q \in StationQueues /\ Len(q) = Len(r) + 1 /\ Len(r) \in Nat /\ q[Len(r) + 1] = t
        /\ \A i \in 1 .. Len(r) : q[i] = r[i]
    <3>1. r \in StationQueues /\ s \in StationQueues
      BY <1>2, <2>3
    <3>2. /\ q \in StationQueues /\ Len(q) = Len(r) + Len(s) /\ Len(r) \in Nat
          /\ \A i \in 1 .. Len(r) : q[i] = r[i]
          /\ \A i \in 1 .. Len(s) : q[Len(r) + i] = s[i]
      BY <3>1, TasksQueued
    <3>3. Len(s) = 1 /\ s[1] = t
      BY <2>3
    <3> HIDE DEF q
    <3> QED BY <3>2, <3>3
  <2>5. /\ NothingBehind(q, "connect") /\ NothingBefore(q, "onConnect")
        /\ IsQueued(q, "onConnect") /\ ~IsQueued(q, "connect")
    <3>1. NothingBehind(r, "connect") /\ NothingBefore(r, "onConnect")
      BY <1>2 DEF AttemptOK, NewConnectionOK
    <3> QED BY <1>2, <1>3, <1>4, <2>3, <3>1, QueuedOrder
  <2> HIDE DEF q
  <2>6. TypeOK'
    BY <2>1, <2>3, <2>4, Parts, QueueTypes DEF TypeOK
  <2>7. AttemptOK(eventQueue)'
    BY <1>5, <2>1, <2>3, <2>5 DEF AttemptOK
  <2>8. NewConnectionOK(eventQueue)'
    BY <1>2, <1>5, <2>1, <2>3, <2>5 DEF NewConnectionOK
  <2>9. HearsOK(eventQueue)'
    <3> SUFFICES ASSUME NEW k \in 0 .. Len(q), From(q, k)
                 PROVE  /\ server.view = NewView /\ silent(q, k, Reports)
                        /\ willKnow(q, k, HideShow, <<"show">>, ~server.view.hidden)
      BY <2>1, <2>3 DEF HearsOK
    <3>1. k = Len(r) + 1
      BY <2>2, <2>4 DEF From
    <3>2. silent(q, k, Reports) /\ silent(q, k, HideShow)
      BY <2>4, <3>1 DEF silent
    <3>3. server.view = NewView /\ ~server.view.hidden
      BY <1>5 DEF Absent, NewView
    <3> QED BY <3>2, <3>3 DEF willKnow
  <2>10. KnowsOK(eventQueue)'
    BY <1>5, <2>1 DEF KnowsOK, Absent
  <2> QED BY <2>3, <2>4, <2>6, <2>7, <2>8, <2>9, <2>10 DEF StationIInv, QueueOK
<1> QED BY <1>6, <1>7

\* onConnect_(): the connection of this socket begins, and the tasks left are its own.
LEMMA OnConnectKeeps ==
  ASSUME StationIInv, OnConnect
  PROVE  StationIInv'
<1> DEFINE q == eventQueue
           r == Tail(eventQueue)
<1>1. /\ q # <<>> /\ Head(q).kind = "onConnect" /\ eventQueue' = r /\ connection' = "connecting"
      /\ server' = IF socket THEN [server EXCEPT !.phase = "request"] ELSE server
      /\ UNCHANGED <<isFullyConnected, hidden, last, cpc, registered, pingTimer, socket, reconnectTimer, wire>>
  BY DEF OnConnect, takeOnly, take, reporter, tcp
<1>2. q \in StationQueues /\ AttemptOK(q) /\ NewConnectionOK(q) /\ HearsOK(q) /\ TypeOK
  BY Parts
<1>3. /\ r \in StationQueues /\ Head(q) = q[1] /\ Len(q) \in Nat /\ Len(q) > 0 /\ Len(r) = Len(q) - 1
      /\ \A i \in 1 .. Len(r) : i + 1 \in 1 .. Len(q) /\ r[i] = q[i + 1]
  BY <1>1, <1>2, TaskTakenFrom
<1>4. IsQueued(q, "onConnect") /\ socket /\ connection # "open" /\ server.view = NewView
  BY <1>1, <1>2, <1>3 DEF IsQueued, AttemptOK, NewConnectionOK
<1>5. ~IsQueued(r, "onConnect")
  <2> SUFFICES ASSUME NEW i \in 1 .. Len(r), r[i].kind = "onConnect" PROVE FALSE
    BY Zenon DEF IsQueued
  <2>1. 1 \in 1 .. Len(q) /\ i + 1 \in 1 .. Len(q) /\ q[i + 1].kind = "onConnect" /\ 1 < i + 1
        /\ q[1].kind = "onConnect"
    BY <1>1, <1>3
  <2>2. Harmless(q[1])
    BY <1>2, <2>1 DEF NewConnectionOK, NothingBefore
  <2> QED BY <2>1, <2>2 DEF Harmless
<1>6. server' = [server EXCEPT !.phase = "request"] /\ server'.view = server.view /\ server'.phase = "request"
      /\ server' \in [phase : {"none", "request", "opened", "joined", "welcomed"},
                      view : [hidden : BOOLEAN, fields : [Fields -> Values \cup {Unknown}]]]
  BY <1>1, <1>2, <1>4 DEF TypeOK
<1>7. TypeOK'
  BY <1>1, <1>2, <1>3, <1>6, QueueTypes DEF TypeOK
<1>8. /\ \A k : IsQueued(r, k) => IsQueued(q, k)
      /\ NothingBehind(r, "connect") /\ NothingBefore(r, "onConnect")
  BY <1>1, <1>2, TakenOrder DEF AttemptOK, NewConnectionOK
<1>9. AttemptOK(eventQueue)'
  BY <1>1, <1>2, <1>4, <1>8 DEF AttemptOK
<1>10. NewConnectionOK(eventQueue)'
  BY <1>1, <1>2, <1>4, <1>5, <1>6, <1>8 DEF NewConnectionOK
<1>11. HearsOK(eventQueue)'
  <2> SUFFICES ASSUME NEW k \in 0 .. Len(r), From(r, k)
               PROVE  /\ ~isFullyConnected => server.view = NewView /\ silent(r, k, Reports)
                      /\ isFullyConnected /\ ~hidden =>
                           willKnow(r, k, HideShow, <<"show">>, ~server.view.hidden)
    BY <1>1, <1>6 DEF HearsOK
  <2>1. k \in Nat /\ k + 1 \in 0 .. Len(q) /\ From(q, k + 1)
    BY <1>1, <1>2, <1>3, TakenFrom
  <2>2. /\ ~isFullyConnected => server.view = NewView /\ silent(q, k + 1, Reports)
        /\ isFullyConnected /\ ~hidden => willKnow(q, k + 1, HideShow, <<"show">>, ~server.view.hidden)
    BY <1>2, <1>4, <2>1 DEF HearsOK
  <2>3. (~server.view.hidden) \in BOOLEAN
    OBVIOUS
  <2> QED BY <1>1, <1>2, <2>1, <2>2, <2>3, TakenTells, Zenon
<1>12. KnowsOK(eventQueue)'
  BY <1>6 DEF KnowsOK
<1> QED BY <1>1, <1>3, <1>7, <1>9, <1>10, <1>11, <1>12 DEF StationIInv, QueueOK

\* A connection is lost.
LEMMA DisconnectKeeps ==
  ASSUME StationIInv, Disconnect
  PROVE  StationIInv'
<1> DEFINE r == Tail(eventQueue)
           t == plain("disconnect")
<1>1. /\ eventQueue # <<>> /\ Head(eventQueue).kind = "disconnect" /\ socket
      /\ socket' = FALSE /\ reconnectTimer' = TRUE /\ pingTimer' = FALSE /\ isFullyConnected' = FALSE
      /\ connection' \in {"none", "closed"}
      /\ eventQueue' \in {r, Append(r, t)}
      /\ server' = Absent /\ wire' = <<>>
      /\ UNCHANGED <<hidden, last, cpc, registered>>
  BY DEF Disconnect, take
<1>2. r \in StationQueues /\ AttemptOK(r) /\ NewConnectionOK(r)
  BY <1>1, Parts, RestInOrder
<1>3. ~IsQueued(r, "connect") /\ ~IsQueued(r, "onConnect") /\ cpc # "start"
  <2>1. ~IsQueued(r, "connect") /\ cpc # "start"
    BY <1>1, <1>2 DEF AttemptOK
  <2>2. ASSUME IsQueued(eventQueue, "onConnect") PROVE FALSE
    <3>1. NothingBefore(eventQueue, "onConnect")
      BY Parts DEF NewConnectionOK
    <3>2. Harmless(Head(eventQueue)) \/ Head(eventQueue).kind = "onConnect"
      BY <1>1, <2>2, <3>1, Parts, TakenOrder
    <3> QED BY <1>1, <3>2 DEF Harmless
  <2>3. IsQueued(r, "onConnect") => IsQueued(eventQueue, "onConnect")
    BY <1>1, Parts, TakenOrder
  <2> QED BY <2>1, <2>2, <2>3
<1>4. /\ eventQueue' \in StationQueues /\ ~IsQueued(eventQueue', "connect")
      /\ ~IsQueued(eventQueue', "onConnect")
  <2>1. t \in StationTasks /\ t.kind = "disconnect"
    BY DEF plain, queuedTask, StationTasks
  <2>2. /\ Append(r, t) \in StationQueues /\ ~IsQueued(Append(r, t), "connect")
        /\ ~IsQueued(Append(r, t), "onConnect")
    <3>1. <<t>> \in StationQueues /\ Append(r, t) = r \o <<t>>
          /\ ~IsQueued(<<t>>, "connect") /\ ~IsQueued(<<t>>, "onConnect")
      BY <1>2, <2>1, OneQueued
    <3> DEFINE s == <<t>>
    <3> HIDE DEF s
    <3>2. s \in StationQueues /\ Append(r, t) = r \o s /\ ~IsQueued(s, "connect") /\ ~IsQueued(s, "onConnect")
      BY <3>1 DEF s
    <3>3. r \o s \in StationQueues /\ ~IsQueued(r \o s, "connect") /\ ~IsQueued(r \o s, "onConnect")
      BY <1>2, <1>3, <3>2, TasksQueued, QueuedOrder
    <3> QED BY <3>2, <3>3, Zenon
  <2> QED BY <1>1, <1>2, <1>3, <2>2, Zenon
<1>5. NothingBehind(eventQueue', "connect") /\ NothingBefore(eventQueue', "onConnect")
  BY <1>4 DEF NothingBehind, NothingBefore, IsQueued
<1>6. TypeOK'
  <2>1. <<>> \in Seq({"open", "success", "report", "close"})
    OBVIOUS
  <2>2. Absent \in [phase : {"none", "request", "opened", "joined", "welcomed"},
                    view : [hidden : BOOLEAN, fields : [Fields -> Values \cup {Unknown}]]]
    BY DEF Absent, NewView
  <2> QED BY <1>1, <1>4, <2>1, <2>2, Parts, QueueTypes, Zenon DEF TypeOK
<1>7. AttemptOK(eventQueue)'
  BY <1>1, <1>3, <1>4, <1>5 DEF AttemptOK
<1>8. NewConnectionOK(eventQueue)'
  BY <1>1, <1>4, <1>5 DEF NewConnectionOK, Absent
<1>9. HearsOK(eventQueue)' /\ KnowsOK(eventQueue)'
  BY <1>1 DEF HearsOK, KnowsOK
<1> QED BY <1>4, <1>6, <1>7, <1>8, <1>9 DEF StationIInv, QueueOK

\* The server accepts the request, and later the station.
LEMMA ServerKeeps ==
  ASSUME StationIInv, ServerOpens \/ ServerWelcomes
  PROVE  StationIInv'
<1>1. /\ \/ server.phase = "request" /\ server' = [server EXCEPT !.phase = "opened"] /\ wire' = Append(wire, "open")
         \/ server.phase = "joined" /\ server' = [server EXCEPT !.phase = "welcomed"] /\ wire' = Append(wire, "success")
      /\ UNCHANGED <<isFullyConnected, hidden, last, cpc, eventQueue, connection, registered, pingTimer, socket,
                     reconnectTimer>>
  BY DEF ServerOpens, ServerWelcomes, reporter, client, tcp
<1>2. /\ server' \in [phase : {"none", "request", "opened", "joined", "welcomed"},
                      view : [hidden : BOOLEAN, fields : [Fields -> Values \cup {Unknown}]]]
      /\ server'.view = server.view
      /\ \/ server.phase = "request" /\ server'.phase = "opened"
         \/ server.phase = "joined" /\ server'.phase = "welcomed" /\ wire' = Append(wire, "success")
  BY <1>1, Parts DEF TypeOK
<1>3. wire' \in Seq({"open", "success", "report", "close"})
  BY <1>1, WireSteps
<1>4. TypeOK'
  BY <1>1, <1>2, <1>3, Parts DEF TypeOK
<1>5. socket
  BY <1>2, Parts DEF AttemptOK, Absent
<1>6. AttemptOK(eventQueue)'
  BY <1>1, <1>5, Parts DEF AttemptOK
<1>7. NewConnectionOK(eventQueue)'
  BY <1>1, <1>2, Parts DEF NewConnectionOK
<1>8. HearsOK(eventQueue)'
  BY <1>1, <1>2, Parts DEF HearsOK
<1>9. KnowsOK(eventQueue)'
  <2>1. wire' = Append(wire, "success") => Welcome(eventQueue)'
    BY WireSteps DEF Welcome
  <2> QED BY <1>2, <2>1 DEF KnowsOK
<1> QED BY <1>1, <1>4, <1>6, <1>7, <1>8, <1>9, Parts DEF StationIInv, QueueOK

\* The server's acceptance is read: the connection is open.
LEMMA OpenKeeps ==
  ASSUME StationIInv, DispatchOpen
  PROVE  StationIInv'
<1> DEFINE r == Tail(eventQueue)
<1>1. /\ eventQueue # <<>> /\ Head(eventQueue).kind = "dispatch" /\ eventQueue' = r /\ socket
      /\ connection' = "open" /\ pingTimer' = TRUE /\ server' = [server EXCEPT !.phase = "joined"]
      /\ UNCHANGED <<isFullyConnected, hidden, last, cpc, registered, socket, reconnectTimer, wire>>
  BY DEF DispatchOpen, takeOnly, take, reporter, tcp
<1>2. ~says(Head(eventQueue), Reports)
  BY <1>1, SaysLess
<1>3. r \in StationQueues /\ AttemptOK(r) /\ NewConnectionOK(r) /\ HearsOK(r)
  BY <1>1, <1>2, Parts, RestInOrder, RestTells
<1>4. ~IsQueued(r, "onConnect")
  <2>1. NothingBefore(eventQueue, "onConnect")
    BY Parts DEF NewConnectionOK
  <2> QED BY <1>1, <2>1, Parts, TakenOrder DEF Harmless
<1>5. /\ server' \in [phase : {"none", "request", "opened", "joined", "welcomed"},
                      view : [hidden : BOOLEAN, fields : [Fields -> Values \cup {Unknown}]]]
      /\ server'.view = server.view /\ server'.phase = "joined"
  BY <1>1, Parts, Zenon DEF TypeOK
<1> HIDE DEF r
<1>6. TypeOK'
  BY <1>1, <1>3, <1>5, Parts, QueueTypes DEF TypeOK
<1>7. AttemptOK(eventQueue)'
  BY <1>1, <1>3 DEF AttemptOK
<1>8. NewConnectionOK(eventQueue)'
  BY <1>1, <1>3, <1>4 DEF NewConnectionOK
<1>9. HearsOK(eventQueue)'
  BY <1>1, <1>3, <1>5 DEF HearsOK
<1>10. KnowsOK(eventQueue)'
  BY <1>5 DEF KnowsOK
<1> QED BY <1>1, <1>3, <1>6, <1>7, <1>8, <1>9, <1>10 DEF StationIInv, QueueOK

\* To know more is to know.
LEMMA KnowsMore ==
  ASSUME NEW q, NEW k, NEW n, NEW m, NEW a \in BOOLEAN, NEW b \in BOOLEAN, a => b, willKnow(q, k, n, m, a)
  PROVE  willKnow(q, k, n, m, b)
BY DEF willKnow

\* What a station says by the messages it emits.
LEMMA EmittedTell ==
  ASSUME NEW ms \in Seq(Emits), NEW n
  PROVE  /\ (\A j \in 1 .. Len(ms) : ms[j][1] \notin n) => silent(emitted(ms), 0, n)
         /\ \A i \in 1 .. Len(ms) :
              ms[i][1] \in n /\ (\A j \in (i + 1) .. Len(ms) : ms[j][1] \notin n)
              => willKnow(emitted(ms), 0, n, ms[i], FALSE)
<1> DEFINE s == emitted(ms)
<1>1. /\ Len(s) = Len(ms) /\ Len(ms) \in Nat
      /\ \A i \in 1 .. Len(ms) : s[i].kind = "emit" /\ s[i].msg = ms[i]
  BY EmittedTasks
<1> HIDE DEF s
<1>2. \A i \in 1 .. Len(s) : says(s[i], n) <=> ms[i][1] \in n
  BY <1>1 DEF says
<1>3. (\A j \in 1 .. Len(ms) : ms[j][1] \notin n) => silent(s, 0, n)
  BY <1>1, <1>2 DEF silent
<1>4. ASSUME NEW i \in 1 .. Len(ms), ms[i][1] \in n, \A j \in (i + 1) .. Len(ms) : ms[j][1] \notin n
      PROVE  willKnow(s, 0, n, ms[i], FALSE)
  <2>1. silent(s, i, n)
    BY <1>1, <1>2, <1>4 DEF silent
  <2> QED BY <1>1, <1>2, <1>4, <2>1 DEF willKnow
<1> QED BY <1>3, <1>4, Zenon DEF s

\* The messages of each call.
LEMMA StationSays ==
  ASSUME TypeOK
  PROVE  /\ << <<"hide">> >> \in Seq(Emits) /\ willKnow(emitted(<< <<"hide">> >>), 0, HideShow, <<"hide">>, FALSE)
         /\ \A w \in {"rx", "qsy"} : << <<w>> >> \in Seq(Emits) /\ silent(emitted(<< <<w>> >>), 0, Reports)
         /\ \A f \in Fields, v \in Values :
              /\ << <<f, v>> >> \in Seq(Emits) /\ silent(emitted(<< <<f, v>> >>), 0, HideShow)
              /\ willKnow(emitted(<< <<f, v>> >>), 0, {f}, <<f, v>>, FALSE)
              /\ \A g \in Fields : g # f => silent(emitted(<< <<f, v>> >>), 0, {g})
<1>1. ASSUME NEW m \in Emits, NEW n
      PROVE  /\ <<m>> \in Seq(Emits)
             /\ m[1] \in n => willKnow(emitted(<<m>>), 0, n, m, FALSE)
             /\ m[1] \notin n => silent(emitted(<<m>>), 0, n)
  <2> DEFINE ms == <<m>>
  <2>1. ms \in Seq(Emits) /\ Len(ms) = 1 /\ ms[1] = m
    BY <1>1
  <2> HIDE DEF ms
  <2>2. /\ 1 \in 1 .. Len(ms) /\ (\A j \in 1 .. Len(ms) : ms[j] = m)
        /\ \A j \in (1 + 1) .. Len(ms) : ms[j][1] \notin n
    BY <2>1
  <2>3. (m[1] \in n => willKnow(emitted(ms), 0, n, m, FALSE)) /\ (m[1] \notin n => silent(emitted(ms), 0, n))
    <3>1. ms \in Seq(Emits)
      BY <2>1
    <3>2. m[1] \notin n => silent(emitted(ms), 0, n)
      BY <2>2, <3>1, EmittedTell, Zenon
    <3>3. m[1] \in n => willKnow(emitted(ms), 0, n, ms[1], FALSE)
      BY <2>2, <3>1, EmittedTell, Zenon
    <3> QED BY <2>2, <3>2, <3>3, Zenon
  <2> QED BY <2>1, <2>3, Zenon DEF ms
<1>2. \A w \in {"hide", "rx", "qsy"} : <<w>> \in Emits /\ <<w>>[1] = w
  BY MessagesOfStation
<1>3. \A f \in Fields, v \in Values : <<f, v>> \in Emits /\ <<f, v>>[1] = f
  BY MessagesOfStation, Zenon
<1>4. "hide" \in HideShow /\ "rx" \notin Reports /\ "qsy" \notin Reports /\ \A f \in Fields : f \notin HideShow
  BY DEF HideShow, Reports, Fields
<1>5. << <<"hide">> >> \in Seq(Emits) /\ willKnow(emitted(<< <<"hide">> >>), 0, HideShow, <<"hide">>, FALSE)
  BY <1>1, <1>2, <1>4, Zenon
<1>6. ASSUME NEW w \in {"rx", "qsy"}
      PROVE  << <<w>> >> \in Seq(Emits) /\ silent(emitted(<< <<w>> >>), 0, Reports)
  <2>1. w \notin Reports /\ <<w>> \in Emits /\ <<w>>[1] = w
    BY <1>2, <1>4
  <2> QED BY <1>1, <2>1, Zenon
<1>7. ASSUME NEW f \in Fields, NEW v \in Values
      PROVE  /\ << <<f, v>> >> \in Seq(Emits) /\ silent(emitted(<< <<f, v>> >>), 0, HideShow)
             /\ willKnow(emitted(<< <<f, v>> >>), 0, {f}, <<f, v>>, FALSE)
             /\ \A g \in Fields : g # f => silent(emitted(<< <<f, v>> >>), 0, {g})
  <2>1. <<f, v>> \in Emits /\ <<f, v>>[1] = f /\ f \notin HideShow /\ f \in {f} /\ \A g : g # f => f \notin {g}
    BY <1>3, <1>4
  <2> DEFINE m == <<f, v>>
  <2> HIDE DEF m
  <2>2. m \in Emits /\ m[1] \notin HideShow /\ m[1] \in {f} /\ \A g : g # f => m[1] \notin {g}
    BY <2>1 DEF m
  <2>3. /\ <<m>> \in Seq(Emits) /\ silent(emitted(<<m>>), 0, HideShow)
        /\ willKnow(emitted(<<m>>), 0, {f}, m, FALSE)
        /\ \A g \in Fields : g # f => silent(emitted(<<m>>), 0, {g})
    BY <1>1, <2>2, Zenon
  <2> QED BY <2>3, Zenon DEF m
<1> QED BY <1>5, <1>6, <1>7, Zenon

\* The saved state, alone and after the message that shows the station.
LEMMA SavedSays ==
  ASSUME TypeOK
  PROVE  /\ savedState \in Seq(Emits) /\ silent(emitted(savedState), 0, HideShow)
         /\ \A f \in Fields : willKnow(emitted(savedState), 0, {f}, <<f, last[f]>>, FALSE)
         /\ << <<"show">> >> \o savedState \in Seq(Emits)
         /\ willKnow(emitted(<< <<"show">> >> \o savedState), 0, HideShow, <<"show">>, FALSE)
         /\ \A f \in Fields : willKnow(emitted(<< <<"show">> >> \o savedState), 0, {f}, <<f, last[f]>>, FALSE)
<1> DEFINE a == savedState
           b == << <<"show">> >> \o savedState
           ff == <<"freq", last["freq"]>>
           ft == <<"tx", last["tx"]>>
           fm == <<"message", last["message"]>>
           sh == <<"show">>
<1>1. /\ a \in Seq(Emits) /\ Len(a) = 3 /\ a[1] = ff /\ a[2] = ft /\ a[3] = fm
      /\ b \in Seq(Emits) /\ Len(b) = 4 /\ b[1] = sh /\ \A i \in 1 .. 3 : b[i + 1] = a[i]
  BY MessagesOfStation, Zenon
<1>2. ff[1] = "freq" /\ ft[1] = "tx" /\ fm[1] = "message" /\ sh[1] = "show"
  OBVIOUS
<1>3. /\ \A f \in Fields : (f = "freq" /\ <<f, last[f]>> = ff) \/ (f = "tx" /\ <<f, last[f]>> = ft)
                            \/ (f = "message" /\ <<f, last[f]>> = fm)
      /\ \A f \in Fields : f \notin HideShow /\ f # "show"
      /\ "freq" \in Fields /\ "tx" \in Fields /\ "message" \in Fields /\ "show" \in HideShow
  BY DEF Fields, HideShow
<1> HIDE DEF a, b, ff, ft, fm, sh
<1>4. b[1] = sh /\ b[2] = ff /\ b[3] = ft /\ b[4] = fm
  <2>1. b[1 + 1] = a[1] /\ b[2 + 1] = a[2] /\ b[3 + 1] = a[3]
    BY <1>1
  <2> QED BY <1>1, <2>1
<1>5. silent(emitted(a), 0, HideShow)
  <2>1. \A j \in 1 .. Len(a) : a[j][1] \notin HideShow
    BY <1>1, <1>2, <1>3
  <2> QED BY <1>1, <2>1, EmittedTell, Zenon
<1>6. willKnow(emitted(b), 0, HideShow, sh, FALSE)
  <2>1. 1 \in 1 .. Len(b) /\ b[1][1] \in HideShow /\ \A j \in (1 + 1) .. Len(b) : b[j][1] \notin HideShow
    BY <1>1, <1>2, <1>3, <1>4
  <2> QED BY <1>1, <2>1, EmittedTell, Zenon
<1>7. ASSUME NEW f \in Fields
      PROVE  willKnow(emitted(a), 0, {f}, <<f, last[f]>>, FALSE) /\ willKnow(emitted(b), 0, {f}, <<f, last[f]>>, FALSE)
  <2>1. PICK i \in 1 .. 3 : /\ a[i] = <<f, last[f]>> /\ a[i][1] = f
                            /\ \A j \in 1 .. 3 : j # i => a[j][1] # f
    <3>1. 1 \in 1 .. 3 /\ 2 \in 1 .. 3 /\ 3 \in 1 .. 3 /\ \A j \in 1 .. 3 : j = 1 \/ j = 2 \/ j = 3
      OBVIOUS
    <3>2. a[1][1] = "freq" /\ a[2][1] = "tx" /\ a[3][1] = "message" /\ a[1] = ff /\ a[2] = ft /\ a[3] = fm
      BY <1>1, <1>2
    <3>3. CASE f = "freq" /\ <<f, last[f]>> = ff
      BY <3>1, <3>2, <3>3
    <3>4. CASE f = "tx" /\ <<f, last[f]>> = ft
      BY <3>1, <3>2, <3>4
    <3>5. CASE f = "message" /\ <<f, last[f]>> = fm
      BY <3>1, <3>2, <3>5
    <3> QED BY <1>3, <3>3, <3>4, <3>5
  <2> DEFINE m == <<f, last[f]>>
  <2> HIDE DEF m
  <2>2. i \in 1 .. Len(a) /\ a[i] = m /\ a[i][1] \in {f} /\ \A j \in (i + 1) .. Len(a) : a[j][1] \notin {f}
    BY <1>1, <2>1 DEF m
  <2>3. willKnow(emitted(a), 0, {f}, m, FALSE)
    BY <1>1, <2>2, EmittedTell, Zenon
  <2>4. i + 1 \in 1 .. Len(b) /\ b[i + 1] = m /\ b[i + 1][1] \in {f}
        /\ \A j \in ((i + 1) + 1) .. Len(b) : b[j][1] \notin {f}
    <3>1. \A j \in 2 .. 4 : b[j] = a[j - 1]
      BY <1>1, <1>4
    <3> QED BY <1>1, <2>1, <2>2, <3>1
  <2>5. willKnow(emitted(b), 0, {f}, m, FALSE)
    BY <1>1, <2>4, EmittedTell, Zenon
  <2> QED BY <2>3, <2>5, Zenon DEF m
<1> QED BY <1>1, <1>5, <1>6, <1>7, Zenon DEF a, b, sh

\* The view w is the view v with the event m applied.
AppliedOK(v, m, w) ==
    /\ w \in [hidden : BOOLEAN, fields : [Fields -> Values \cup {Unknown}]]
    /\ m[1] \notin HideShow => w.hidden = v.hidden
    /\ m = <<"hide">> => w.hidden = TRUE
    /\ m = <<"show">> => w.hidden = FALSE
    /\ \A f \in Fields : m[1] # f => w.fields[f] = v.fields[f]
    /\ \A f \in Fields : \A x : m = <<f, x>> => w.fields[f] = x
    /\ m[1] \notin Reports => w = v

\* What the server makes of an event.
LEMMA Applied ==
  ASSUME NEW m \in Emits, NEW v \in [hidden : BOOLEAN, fields : [Fields -> Values \cup {Unknown}]]
  PROVE  AppliedOK(v, m, applied(v, m))
<1>1. CASE m \in {<<"hide">>, <<"show">>, <<"rx">>, <<"qsy">>}
  <2>1. m[1] \in {"hide", "show", "rx", "qsy"} /\ (m = <<"hide">> <=> m[1] = "hide") /\ (m = <<"show">> <=> m[1] = "show")
    BY <1>1
  <2>2. \A f \in Fields : m[1] # f /\ \A x : m # <<f, x>>
    BY <2>1 DEF Fields
  <2> QED BY <2>1, <2>2, Zenon DEF applied, AppliedOK, HideShow, Reports, Fields
<1>2. ASSUME NEW f \in Fields, NEW x \in Values, m = <<f, x>>
      PROVE  /\ applied(v, m) \in [hidden : BOOLEAN, fields : [Fields -> Values \cup {Unknown}]]
             /\ applied(v, m).hidden = v.hidden
             /\ applied(v, m).fields[f] = x
             /\ \A g \in Fields : g # f => applied(v, m).fields[g] = v.fields[g]
             /\ m[1] = f /\ m[2] = x /\ m # <<"hide">> /\ m # <<"show">> /\ m[1] \in Reports
  <2>1. m[1] = f /\ m[2] = x
    BY <1>2
  <2>2. m[1] # "hide" /\ m[1] # "show" /\ m[1] \in Reports
    BY <2>1 DEF Fields, Reports
  <2>3. applied(v, m) = [v EXCEPT !.fields[f] = x]
    BY <2>1, <2>2 DEF applied
  <2>4. m # <<"hide">> /\ m # <<"show">>
    BY <2>2
  <2> QED BY <2>1, <2>2, <2>3, <2>4
<1>3. ASSUME NEW f \in Fields, NEW x \in Values, m = <<f, x>>, NEW g \in Fields, NEW y, m = <<g, y>>
      PROVE  applied(v, m).fields[g] = y
  <2>1. m[1] = f /\ m[2] = x /\ applied(v, m).fields[f] = x
    BY <1>2, <1>3
  <2>2. m[1] = g /\ m[2] = y
    BY <1>3
  <2> QED BY <2>1, <2>2
<1>4. (m \in {<<"hide">>, <<"show">>, <<"rx">>, <<"qsy">>}) \/ \E f \in Fields, x \in Values : m = <<f, x>>
  BY DEF Emits
<1>5. CASE \E f \in Fields, x \in Values : m = <<f, x>>
  <2>1. PICK f \in Fields, x \in Values : m = <<f, x>>
    BY <1>5
  <2> QED BY <1>2, <1>3, <2>1 DEF AppliedOK, Reports
<1> QED BY <1>1, <1>4, <1>5

\* An event of the station is sent, or refused by a connection that is not open.
LEMMA EmitKeeps ==
  ASSUME StationIInv, RunEmit
  PROVE  StationIInv'
<1> DEFINE q == eventQueue
           r == Tail(eventQueue)
           h == Head(eventQueue)
           sent == socket /\ connection = "open"
<1>1. /\ q # <<>> /\ h.kind = "emit" /\ eventQueue' = r
      /\ server' = IF sent THEN [server EXCEPT !.view = applied(@, h.msg)] ELSE server
      /\ UNCHANGED <<isFullyConnected, hidden, last, cpc, connection, registered, pingTimer, socket, reconnectTimer, wire>>
  BY DEF RunEmit, takeOnly, take, reporter, client, tcp
<1>2. /\ q \in StationQueues /\ TypeOK /\ AttemptOK(q) /\ NewConnectionOK(q) /\ HearsOK(q) /\ KnowsOK(q)
      /\ r \in StationQueues /\ AttemptOK(r) /\ NewConnectionOK(r)
  BY <1>1, Parts, RestInOrder
<1>3. h \in StationTasks /\ h.msg \in Emits /\ h.msg # <<"success">>
  BY <1>1, FirstTask, TaskKinds
<1> DEFINE Servers == [phase : {"none", "request", "opened", "joined", "welcomed"},
                       view : [hidden : BOOLEAN, fields : [Fields -> Values \cup {Unknown}]]]
<1>4. server \in Servers /\ server.view \in [hidden : BOOLEAN, fields : [Fields -> Values \cup {Unknown}]]
  BY <1>2 DEF TypeOK
<1> DEFINE w == applied(server.view, h.msg)
<1> HIDE DEF h
<1>15. AppliedOK(server.view, h.msg, w)
  BY <1>3, <1>4, Applied
<1>5. server' \in Servers /\ server'.phase = server.phase
      /\ server'.view = IF sent THEN applied(server.view, h.msg) ELSE server.view
  <2>1. applied(server.view, h.msg) \in [hidden : BOOLEAN, fields : [Fields -> Values \cup {Unknown}]]
    BY <1>15 DEF AppliedOK
  <2> QED BY <1>1, <1>4, <2>1
<1> HIDE DEF r, sent, q, w
<1>6. TypeOK'
  BY <1>1, <1>2, <1>5, QueueTypes DEF TypeOK
<1>7. sent => socket /\ connection = "open" /\ ~IsQueued(q, "onConnect")
  BY <1>2 DEF sent, NewConnectionOK
<1>8. ~sent /\ socket => server.view = NewView /\ server.phase # "welcomed"
  BY <1>2 DEF sent, NewConnectionOK
<1>9. AttemptOK(eventQueue)'
  BY <1>1, <1>2, <1>7 DEF AttemptOK, sent
<1>10. NewConnectionOK(eventQueue)'
  BY <1>1, <1>2, <1>5, <1>7 DEF NewConnectionOK, sent
<1>11. ASSUME NEW n, NEW m, NEW a \in BOOLEAN, NEW b \in BOOLEAN, willKnow(q, 0, n, m, a),
              says(h, n) /\ h.msg = m => b, ~says(h, n) /\ a => b
       PROVE  willKnow(r, 0, n, m, b)
  <2>1. /\ willKnow(q, 0, n, m, a) /\ ~says(h, n) => willKnow(r, 0, n, m, a)
        /\ willKnow(q, 0, n, m, a) /\ says(h, n)
              => \A known2 \in BOOLEAN : (h.msg = m => known2) => willKnow(r, 0, n, m, known2)
    BY <1>1, <1>2, <1>11, TakenTells DEF q, r, h
  <2>2. CASE says(h, n)
    BY <1>11, <2>1, <2>2
  <2>3. CASE ~says(h, n)
    <3>1. willKnow(r, 0, n, m, a)
      BY <1>11, <2>1, <2>3
    <3> QED BY <1>11, <2>3, <3>1, KnowsMore
  <2> QED BY <2>2, <2>3
<1>12. \A n : says(h, n) <=> h.msg[1] \in n
  BY <1>1 DEF says, h
<1>13. HearsOK(eventQueue)'
  <2> SUFFICES ASSUME NEW k \in 0 .. Len(r), socket, From(r, k)
               PROVE  /\ ~isFullyConnected => server'.view = NewView /\ silent(r, k, Reports)
                      /\ isFullyConnected /\ ~hidden =>
                           willKnow(r, k, HideShow, <<"show">>, ~server'.view.hidden)
    BY <1>1 DEF HearsOK
  <2>1. k \in Nat /\ k + 1 \in 0 .. Len(q) /\ 0 \in 0 .. Len(q) /\ (From(q, k + 1) \/ (k = 0 /\ From(q, 0)))
    BY <1>1, <1>2, TakenFrom DEF q, r
  <2>2. CASE From(q, k + 1)
    <3>1. IsQueued(q, "onConnect")
      BY <2>1, <2>2 DEF From, IsQueued
    <3>2. server'.view = server.view
      BY <1>5, <1>7, <3>1
    <3>3. /\ ~isFullyConnected => server.view = NewView /\ silent(q, k + 1, Reports)
          /\ isFullyConnected /\ ~hidden => willKnow(q, k + 1, HideShow, <<"show">>, ~server.view.hidden)
      BY <1>2, <2>1, <2>2 DEF HearsOK
    <3>4. (~server.view.hidden) \in BOOLEAN
      OBVIOUS
    <3> QED BY <1>1, <1>2, <2>1, <3>2, <3>3, <3>4, TakenTells, Zenon DEF q, r
  <2>3. CASE k = 0 /\ From(q, 0)
    <3>1. /\ ~isFullyConnected => server.view = NewView /\ silent(q, 0, Reports)
          /\ isFullyConnected /\ ~hidden => willKnow(q, 0, HideShow, <<"show">>, ~server.view.hidden)
      BY <1>2, <2>1, <2>3 DEF HearsOK
    <3>2. ASSUME ~isFullyConnected PROVE server'.view = NewView /\ silent(r, 0, Reports)
      <4>1. silent(r, 0, Reports)
        BY <1>1, <1>2, <3>1, <3>2, TakenTells, Zenon DEF q, r
      <4>2. h.msg[1] \notin Reports
        <5>1. 1 \in (0 + 1) .. Len(q) /\ h = q[1]
          BY <1>1, <1>2, TaskTakenFrom DEF q, h
        <5>2. ~says(h, Reports)
          BY <3>1, <3>2, <5>1 DEF silent
        <5> QED BY <1>12, <5>2
      <4>3. applied(server.view, h.msg) = server.view
        BY <1>15, <4>2 DEF w, AppliedOK
      <4> QED BY <1>5, <3>1, <3>2, <4>1, <4>3
    <3>3. ASSUME isFullyConnected, ~hidden PROVE willKnow(r, 0, HideShow, <<"show">>, ~server'.view.hidden)
      <4>1. (~server.view.hidden) \in BOOLEAN /\ (~server'.view.hidden) \in BOOLEAN
        OBVIOUS
      <4>2. h.msg = <<"show">> => ~server'.view.hidden
        <5>1. ~sent => ~server'.view.hidden
          BY <1>5, <1>8 DEF NewView
        <5>2. h.msg = <<"show">> => applied(server.view, h.msg).hidden = FALSE
          BY <1>15 DEF w, AppliedOK
        <5> QED BY <1>5, <5>1, <5>2
      <4>3. ~says(h, HideShow) => server'.view.hidden = server.view.hidden
        BY <1>5, <1>12, <1>15 DEF w, AppliedOK
      <4> QED BY <1>11, <3>1, <3>3, <4>1, <4>2, <4>3, Zenon
    <3> QED BY <2>3, <3>2, <3>3
  <2> QED BY <2>1, <2>2, <2>3
<1>14. KnowsOK(eventQueue)'
  <2> SUFFICES ASSUME isFullyConnected, socket, server.phase = "welcomed", ~Welcome(eventQueue)'
               PROVE  KnowsAll(eventQueue)'
    BY <1>1, <1>5 DEF KnowsOK
  <2>1. sent
    BY <1>8
  <2>2. ~Welcome(q)
    <3> SUFFICES ASSUME NEW i \in 1 .. Len(q), q[i].msg = <<"success">> PROVE Welcome(eventQueue)'
      BY <1>1 DEF Welcome
    <3>1. i # 1 /\ (i \in 2 .. Len(q) => i - 1 \in 1 .. Len(r) /\ q[i] = r[i - 1])
      BY <1>1, <1>2, <1>3, TaskTakenFrom DEF q, r, h
    <3>2. i - 1 \in 1 .. Len(r) /\ r[i - 1].msg = <<"success">>
      BY <3>1
    <3> QED BY <1>1, <3>2 DEF Welcome
  <2>3. KnowsAll(q)
    BY <1>2, <2>2 DEF KnowsOK
  <2>4. server'.view = applied(server.view, h.msg)
    BY <1>5, <2>1
  <2>5. (server.view.hidden = hidden) \in BOOLEAN /\ (server'.view.hidden = hidden) \in BOOLEAN
        /\ \A f : (server.view.fields[f] = last[f]) \in BOOLEAN /\ (server'.view.fields[f] = last[f]) \in BOOLEAN
    OBVIOUS
  <2>6. willKnow(r, 0, HideShow, IF hidden THEN <<"hide">> ELSE <<"show">>, server'.view.hidden = hidden)
    <3> DEFINE m == IF hidden THEN <<"hide">> ELSE <<"show">>
    <3>1. willKnow(q, 0, HideShow, m, server.view.hidden = hidden)
      BY <2>3 DEF KnowsAll
    <3>2. h.msg = m => server'.view.hidden = hidden
      BY <1>2, <1>15, <2>4 DEF TypeOK, w, AppliedOK
    <3>3. ~says(h, HideShow) => server'.view.hidden = server.view.hidden
      BY <1>12, <1>15, <2>4 DEF w, AppliedOK
    <3> HIDE DEF m
    <3>4. willKnow(r, 0, HideShow, m, server'.view.hidden = hidden)
      BY <1>11, <2>5, <3>1, <3>2, <3>3, Zenon
    <3> QED BY <3>4 DEF m
  <2>7. ASSUME ~hidden, NEW f \in Fields
        PROVE  willKnow(r, 0, {f}, <<f, last[f]>>, server'.view.fields[f] = last[f])
    <3> DEFINE m == <<f, last[f]>>
    <3>1. willKnow(q, 0, {f}, m, server.view.fields[f] = last[f])
      BY <2>3, <2>7 DEF KnowsAll
    <3>2. h.msg = m => server'.view.fields[f] = last[f]
      BY <1>15, <2>4 DEF w, AppliedOK
    <3>3. ~says(h, {f}) => server'.view.fields[f] = server.view.fields[f]
      BY <1>12, <1>15, <2>4 DEF w, AppliedOK
    <3> HIDE DEF m
    <3>4. willKnow(r, 0, {f}, m, server'.view.fields[f] = last[f])
      BY <1>11, <2>5, <3>1, <3>2, <3>3, Zenon
    <3> QED BY <3>4 DEF m
  <2> QED BY <1>1, <2>6, <2>7 DEF KnowsAll
<1> QED BY <1>1, <1>2, <1>6, <1>9, <1>10, <1>13, <1>14 DEF StationIInv, QueueOK

\* Events queued behind others keep the queue in order, and do not undo a welcome.
LEMMA MoreEvents ==
  ASSUME NEW q \in StationQueues, AttemptOK(q), NewConnectionOK(q), NEW ms \in Seq(Emits)
  PROVE  /\ emitted(ms) \in StationQueues /\ ~IsQueued(emitted(ms), "onConnect")
         /\ q \o emitted(ms) \in StationQueues
         /\ AttemptOK(q \o emitted(ms)) /\ NewConnectionOK(q \o emitted(ms))
         /\ Welcome(q) => Welcome(q \o emitted(ms))
<1> DEFINE s == emitted(ms)
<1>1. /\ s \in StationQueues /\ \A i \in 1 .. Len(s) : Harmless(s[i])
      /\ ~IsQueued(s, "connect") /\ ~IsQueued(s, "onConnect")
  <2>1. "connect" # "emit" /\ "onConnect" # "emit"
    OBVIOUS
  <2> QED BY <2>1, EmittedTasks, Zenon
<1> HIDE DEF s
<1>2. q \o s \in StationQueues /\ AttemptOK(q \o s) /\ NewConnectionOK(q \o s)
  BY <1>1, MoreInOrder
<1>3. \A i \in 1 .. Len(q) : i \in 1 .. Len(q \o s) /\ (q \o s)[i] = q[i]
  BY <1>1, TasksQueued
<1>4. Welcome(q) => Welcome(q \o s)
  BY <1>3 DEF Welcome
<1> QED BY <1>1, <1>2, <1>4 DEF s

\* A call of the user that queues events if the station is connected: what is new with the station
\* is among them.
LEMMA CallKeeps ==
  ASSUME StationIInv, NEW ms \in Seq(Emits), eventQueue' = eventQueue \o emittedIfConnected(ms),
         UNCHANGED <<isFullyConnected, cpc, connection, registered, pingTimer, socket, reconnectTimer,
                     server, wire>>,
         hidden' \in BOOLEAN, last' \in [Fields -> Values],
         \/ willKnow(emitted(ms), 0, HideShow, IF hidden' THEN <<"hide">> ELSE <<"show">>, FALSE)
         \/ hidden' = hidden /\ silent(emitted(ms), 0, HideShow),
         ~hidden' => \A f \in Fields :
           \/ willKnow(emitted(ms), 0, {f}, <<f, last'[f]>>, FALSE)
           \/ ~hidden /\ last'[f] = last[f] /\ silent(emitted(ms), 0, {f})
  PROVE  StationIInv'
<1> DEFINE q == eventQueue
           s == emitted(ms)
<1>1. /\ TypeOK /\ q \in StationQueues /\ AttemptOK(q) /\ NewConnectionOK(q) /\ HearsOK(q) /\ KnowsOK(q)
  BY Parts
<1>2. /\ s \in StationQueues /\ ~IsQueued(s, "onConnect")
      /\ q \o s \in StationQueues /\ AttemptOK(q \o s) /\ NewConnectionOK(q \o s)
      /\ Welcome(q) => Welcome(q \o s)
  BY <1>1, MoreEvents, Zenon
<1>3. CASE ~isFullyConnected
  <2>1. eventQueue' = q
    <3>1. q \o <<>> = q
      BY <1>1 DEF StationQueues
    <3> QED BY <1>3, <3>1 DEF emittedIfConnected
  <2>2. TypeOK'
    BY <1>1, <2>1 DEF TypeOK
  <2>3. AttemptOK(eventQueue)' /\ NewConnectionOK(eventQueue)'
    BY <1>1, <2>1, Zenon DEF AttemptOK, NewConnectionOK
  <2>4. HearsOK(eventQueue)' /\ KnowsOK(eventQueue)'
    BY <1>1, <1>3, <2>1, Zenon DEF HearsOK, KnowsOK
  <2> QED BY <1>1, <2>1, <2>2, <2>3, <2>4 DEF StationIInv, QueueOK
<1>4. CASE isFullyConnected
  <2>1. eventQueue' = q \o s
    BY <1>4, Zenon DEF emittedIfConnected
  <2> DEFINE r == q \o s
  <2>2. \A n, m : \A knows \in BOOLEAN : \A k \in 0 .. Len(q) :
          /\ willKnow(q, k, n, m, knows) /\ silent(s, 0, n) => willKnow(r, k, n, m, knows)
          /\ willKnow(s, 0, n, m, FALSE) => willKnow(r, k, n, m, knows)
    BY <1>1, <1>2, QueuedTells, Zenon
  <2>3. \A k \in 0 .. Len(r) : From(r, k) => k \in 0 .. Len(q) /\ From(q, k)
    BY <1>1, <1>2, QueuedFrom, Zenon
  <2> HIDE DEF q, s, r
  <2>4. eventQueue' = r /\ r \in StationQueues
    BY <1>2, <2>1 DEF r
  <2>5. TypeOK'
    BY <1>1, <2>4, QueueTypes DEF TypeOK
  <2>6. AttemptOK(eventQueue)' /\ NewConnectionOK(eventQueue)'
    BY <1>2, <2>4 DEF AttemptOK, NewConnectionOK, r
  <2>7. HearsOK(eventQueue)'
    <3> SUFFICES ASSUME NEW k \in 0 .. Len(r), socket, From(r, k), ~hidden'
                 PROVE  willKnow(r, k, HideShow, <<"show">>, ~server.view.hidden)
      BY <1>4, <2>4 DEF HearsOK
    <3>1. k \in 0 .. Len(q) /\ From(q, k) /\ (~server.view.hidden) \in BOOLEAN
      BY <2>3
    <3>2. CASE willKnow(s, 0, HideShow, <<"show">>, FALSE)
      BY <2>2, <3>1, <3>2, Zenon
    <3>3. CASE ~hidden /\ silent(s, 0, HideShow)
      <4>1. willKnow(q, k, HideShow, <<"show">>, ~server.view.hidden)
        BY <1>1, <1>4, <3>1, <3>3, Zenon DEF HearsOK
      <4> QED BY <2>2, <3>1, <3>3, <4>1, Zenon
    <3>4. (IF hidden' THEN <<"hide">> ELSE <<"show">>) = <<"show">>
      BY Zenon
    <3>5. willKnow(s, 0, HideShow, <<"show">>, FALSE) \/ (hidden' = hidden /\ silent(s, 0, HideShow))
      BY <3>4, Zenon DEF s
    <3>6. hidden' = hidden => ~hidden
      OBVIOUS
    <3> QED BY <3>2, <3>3, <3>5, <3>6, Zenon
  <2>8. KnowsOK(eventQueue)'
    <3> SUFFICES ASSUME socket, server.phase = "welcomed", ~Welcome(eventQueue)'
                 PROVE  KnowsAll(eventQueue)'
      BY <1>4 DEF KnowsOK
    <3>1. ~Welcome(q)
      <4>1. Welcome(q) => Welcome(r)
        BY <1>2 DEF r
      <4>2. Welcome(r) => Welcome(eventQueue)'
        BY <2>4 DEF Welcome
      <4> QED BY <4>1, <4>2
    <3>2. KnowsAll(q)
      BY <1>1, <1>4, <3>1, Zenon DEF KnowsOK
    <3>3. 0 \in 0 .. Len(q) /\ (server.view.hidden = hidden) \in BOOLEAN
          /\ (server.view.hidden = hidden') \in BOOLEAN
          /\ \A f : (server.view.fields[f] = last[f]) \in BOOLEAN /\ (server.view.fields[f] = last'[f]) \in BOOLEAN
      BY <1>1 DEF StationQueues
    <3>4. willKnow(r, 0, HideShow, IF hidden' THEN <<"hide">> ELSE <<"show">>, server.view.hidden = hidden')
      <4> DEFINE m == IF hidden' THEN <<"hide">> ELSE <<"show">>
      <4>1. CASE willKnow(s, 0, HideShow, m, FALSE)
        BY <2>2, <3>3, <4>1, Zenon
      <4>2. CASE hidden' = hidden /\ silent(s, 0, HideShow)
        <5>1. willKnow(q, 0, HideShow, m, server.view.hidden = hidden')
          BY <3>2, <4>2, Zenon DEF KnowsAll
        <5> QED BY <2>2, <3>3, <4>2, <5>1, Zenon
      <4> QED BY <4>1, <4>2, Zenon DEF s
    <3>5. ASSUME ~hidden', NEW f \in Fields
          PROVE  willKnow(r, 0, {f}, <<f, last'[f]>>, server.view.fields[f] = last'[f])
      <4>1. CASE willKnow(s, 0, {f}, <<f, last'[f]>>, FALSE)
        BY <2>2, <3>3, <4>1, Zenon
      <4>2. CASE ~hidden /\ last'[f] = last[f] /\ silent(s, 0, {f})
        <5>1. willKnow(q, 0, {f}, <<f, last[f]>>, server.view.fields[f] = last[f])
          BY <3>2, <4>2, Zenon DEF KnowsAll
        <5>2. willKnow(r, 0, {f}, <<f, last[f]>>, server.view.fields[f] = last[f])
          BY <2>2, <3>3, <4>2, <5>1, Zenon
        <5> QED BY <4>2, <5>2, Zenon
      <4> QED BY <3>5, <4>1, <4>2, Zenon DEF s
    <3> QED BY <2>4, <3>4, <3>5, Zenon DEF KnowsAll
  <2> QED BY <2>4, <2>5, <2>6, <2>7, <2>8, Zenon DEF StationIInv, QueueOK
<1> QED BY <1>3, <1>4

\* The calls of the user.
LEMMA UserKeeps ==
  ASSUME StationIInv, User
  PROVE  StationIInv'
<1>1. /\ TypeOK /\ eventQueue \in StationQueues /\ AttemptOK(eventQueue) /\ NewConnectionOK(eventQueue)
      /\ HearsOK(eventQueue)
  BY Parts
<1>2. hidden \in BOOLEAN /\ last \in [Fields -> Values] /\ (FALSE \in BOOLEAN) /\ (TRUE \in BOOLEAN)
  BY <1>1 DEF TypeOK
<1>3. ASSUME NEW f \in Fields, NEW v \in Values, Change(f, v)
      PROVE  StationIInv'
  <2> DEFINE ms == << <<f, v>> >>
  <2>1. /\ eventQueue' = eventQueue \o emittedIfConnected(ms)
        /\ UNCHANGED <<isFullyConnected, cpc, connection, registered, pingTimer, socket, reconnectTimer,
                       server, wire>>
        /\ hidden' = hidden /\ last' = [last EXCEPT ![f] = v]
    BY <1>3 DEF Change, client, tcp
  <2>2. last' \in [Fields -> Values] /\ last'[f] = v /\ \A g \in Fields : g # f => last'[g] = last[g]
    BY <1>2, <2>1
  <2>3. /\ ms \in Seq(Emits) /\ silent(emitted(ms), 0, HideShow)
        /\ willKnow(emitted(ms), 0, {f}, <<f, v>>, FALSE)
        /\ \A g \in Fields : g # f => silent(emitted(ms), 0, {g})
    BY <1>1, StationSays, Zenon
  <2> HIDE DEF ms
  <2>4. ~hidden' => \A g \in Fields :
          \/ willKnow(emitted(ms), 0, {g}, <<g, last'[g]>>, FALSE)
          \/ ~hidden /\ last'[g] = last[g] /\ silent(emitted(ms), 0, {g})
    BY <2>1, <2>2, <2>3, Zenon
  <2> QED BY <1>2, <2>1, <2>2, <2>3, <2>4, CallKeeps, Zenon
<1>4. CASE HideFromView
  <2> DEFINE ms == << <<"hide">> >>
  <2>1. /\ eventQueue' = eventQueue \o emittedIfConnected(ms)
        /\ UNCHANGED <<isFullyConnected, cpc, connection, registered, pingTimer, socket, reconnectTimer,
                       server, wire>>
        /\ hidden' = TRUE /\ last' = last
    BY <1>4 DEF HideFromView, client, tcp
  <2>2. ms \in Seq(Emits) /\ willKnow(emitted(ms), 0, HideShow, <<"hide">>, FALSE)
    BY <1>1, StationSays, Zenon
  <2> HIDE DEF ms
  <2>3. willKnow(emitted(ms), 0, HideShow, IF hidden' THEN <<"hide">> ELSE <<"show">>, FALSE)
    BY <2>1, <2>2, Zenon
  <2> QED BY <1>2, <2>1, <2>2, <2>3, CallKeeps, Zenon
<1>5. CASE ShowOurselves
  <2> DEFINE ms == << <<"show">> >> \o savedState
  <2>1. /\ eventQueue' = eventQueue \o emittedIfConnected(ms)
        /\ UNCHANGED <<isFullyConnected, cpc, connection, registered, pingTimer, socket, reconnectTimer,
                       server, wire>>
        /\ hidden' = FALSE /\ last' = last
    BY <1>5 DEF ShowOurselves, client, tcp
  <2>2. /\ ms \in Seq(Emits) /\ willKnow(emitted(ms), 0, HideShow, <<"show">>, FALSE)
        /\ \A f \in Fields : willKnow(emitted(ms), 0, {f}, <<f, last[f]>>, FALSE)
    BY <1>1, SavedSays, Zenon
  <2> HIDE DEF ms
  <2>3. /\ willKnow(emitted(ms), 0, HideShow, IF hidden' THEN <<"hide">> ELSE <<"show">>, FALSE)
        /\ \A f \in Fields : willKnow(emitted(ms), 0, {f}, <<f, last'[f]>>, FALSE)
    BY <2>1, <2>2, Zenon
  <2> QED BY <1>2, <2>1, <2>2, <2>3, CallKeeps, Zenon
<1>6. ASSUME NEW w \in {"rx", "qsy"}, eventQueue' = eventQueue \o emitted(<< <<w>> >>),
             UNCHANGED stationState, UNCHANGED <<cpc, registered, wire>>
      PROVE  StationIInv'
  <2> DEFINE ms == << <<w>> >>
  <2>1. ms \in Seq(Emits) /\ silent(emitted(ms), 0, Reports)
    BY <1>1, StationSays
  <2> DEFINE q == eventQueue \o emitted(ms)
  <2>2. eventQueue' = q
    BY <1>6
  <2> HIDE DEF ms
  <2>3. /\ emitted(ms) \in StationQueues /\ ~IsQueued(emitted(ms), "onConnect")
        /\ q \in StationQueues /\ AttemptOK(q) /\ NewConnectionOK(q) /\ (Welcome(eventQueue) => Welcome(q))
    BY <1>1, <2>1, MoreEvents
  <2>4. HearsOK(q) /\ (KnowsAll(eventQueue) => KnowsAll(q))
    BY <1>1, <2>1, <2>3, MoreTells
  <2> HIDE DEF q
  <2>5. Welcome(q) => Welcome(eventQueue)'
    BY <1>6, <2>2 DEF Welcome
  <2>6. registered \in BOOLEAN /\ wire \in Seq({"open", "success", "report", "close"})
    BY <1>1 DEF TypeOK
  <2>7. /\ registered' = registered /\ wire' = wire /\ cpc' = cpc
        /\ registered' \in BOOLEAN /\ wire' \in Seq({"open", "success", "report", "close"})
    BY <1>6, <2>6
  <2>8. Welcome(eventQueue) => Welcome(eventQueue)'
    BY <2>3, <2>5
  <2>9. UNCHANGED stationState
    BY <1>6
  <2> QED BY <2>2, <2>3, <2>4, <2>7, <2>8, <2>9, QueueSteps
<1>7. CASE AddReceiveRecord
  <2>1. eventQueue' = eventQueue \o emitted(<< <<"rx">> >>) /\ UNCHANGED stationState
        /\ UNCHANGED <<cpc, registered, wire>>
    BY <1>7 DEF AddReceiveRecord, stationState, reporter, client, tcp
  <2> QED BY <1>6, <2>1
<1>8. CASE RequestQSY
  <2>1. eventQueue' = eventQueue \o emitted(<< <<"qsy">> >>) /\ UNCHANGED stationState
        /\ UNCHANGED <<cpc, registered, wire>>
    BY <1>8 DEF RequestQSY, stationState, reporter, client, tcp
  <2> QED BY <1>6, <2>1
<1> QED BY <1>3, <1>4, <1>5, <1>7, <1>8 DEF User

\* The welcome of the server is handled: what is saved is sent, on top of what was queued before.
LEMMA WelcomeKeeps ==
  ASSUME StationIInv, ConnectionSuccessful
  PROVE  StationIInv'
<1> DEFINE q == eventQueue
           r == Tail(eventQueue)
           ms == IF hidden THEN << <<"hide">> >> ELSE savedState
           s == emitted(ms)
<1>1. /\ q # <<>> /\ Head(q).kind = "event" /\ isFullyConnected' = (registered \/ isFullyConnected)
      /\ eventQueue' = r \o (IF ~registered THEN <<>> ELSE s)
      /\ UNCHANGED <<hidden, last, cpc, connection, registered, pingTimer, socket, reconnectTimer, server, wire>>
  BY DEF ConnectionSuccessful, take, client, tcp
<1>2. /\ TypeOK /\ QueueOK(q) /\ q \in StationQueues /\ NewConnectionOK(q)
  BY Parts
<1>3. r \in StationQueues /\ AttemptOK(r) /\ NewConnectionOK(r)
  BY <1>1, <1>2, RestInOrder
<1>4. HearsOK(r)
  <2>1. ~says(Head(q), Reports)
    BY <1>1 DEF says
  <2> QED BY <1>1, <1>2, <2>1, RestTells
<1>5. /\ isFullyConnected \in BOOLEAN /\ registered \in BOOLEAN /\ hidden \in BOOLEAN
      /\ isFullyConnected => registered
  BY <1>2 DEF TypeOK, NewConnectionOK
<1> HIDE DEF r
<1>6. CASE ~registered
  <2>1. ~isFullyConnected /\ ~isFullyConnected'
    BY <1>1, <1>5, <1>6
  <2>2. eventQueue' = r
    <3>1. r \o <<>> = r
      BY <1>3 DEF StationQueues
    <3> QED BY <1>1, <1>6, <3>1
  <2>3. TypeOK'
    BY <1>1, <1>2, <1>3, <1>5, <2>1, <2>2, QueueTypes DEF TypeOK
  <2>4. AttemptOK(eventQueue)' /\ NewConnectionOK(eventQueue)'
    BY <1>1, <1>3, <2>1, <2>2, Zenon DEF AttemptOK, NewConnectionOK
  <2>5. HearsOK(eventQueue)' /\ KnowsOK(eventQueue)'
    BY <1>1, <1>4, <2>1, <2>2, Zenon DEF HearsOK, KnowsOK
  <2> QED BY <1>3, <2>2, <2>3, <2>4, <2>5 DEF StationIInv, QueueOK
<1>7. CASE registered
  <2>1. isFullyConnected' /\ eventQueue' = r \o s
    BY <1>1, <1>7, Zenon
  <2>2. /\ ms \in Seq(Emits)
        /\ hidden => willKnow(s, 0, HideShow, <<"hide">>, FALSE)
        /\ ~hidden => silent(s, 0, HideShow) /\ \A f \in Fields : willKnow(s, 0, {f}, <<f, last[f]>>, FALSE)
    <3>1. CASE hidden
      BY <1>2, <3>1, StationSays, Zenon
    <3>2. CASE ~hidden
      BY <1>2, <3>2, SavedSays, Zenon
    <3> QED BY <3>1, <3>2, Zenon
  <2> HIDE DEF ms
  <2>3. /\ s \in StationQueues /\ ~IsQueued(s, "onConnect")
        /\ r \o s \in StationQueues /\ AttemptOK(r \o s) /\ NewConnectionOK(r \o s)
    BY <1>3, <2>2, MoreEvents
  <2> DEFINE t == r \o s
  <2>4. \A n, m : \A knows \in BOOLEAN : \A k \in 0 .. Len(r) :
          /\ willKnow(r, k, n, m, knows) /\ silent(s, 0, n) => willKnow(t, k, n, m, knows)
          /\ willKnow(s, 0, n, m, FALSE) => willKnow(t, k, n, m, knows)
    BY <1>3, <2>3, QueuedTells, Zenon
  <2>5. \A k \in 0 .. Len(t) : From(t, k) => k \in 0 .. Len(r) /\ From(r, k)
    BY <1>3, <2>3, QueuedFrom
  <2>6. t \in StationQueues /\ AttemptOK(t) /\ NewConnectionOK(t) /\ eventQueue' = t
    BY <2>1, <2>3
  <2> HIDE DEF s, t
  <2>7. TypeOK'
    BY <1>1, <1>2, <2>1, <2>6, QueueTypes DEF TypeOK
  <2>8. AttemptOK(eventQueue)' /\ NewConnectionOK(eventQueue)'
    BY <1>1, <1>7, <2>6, Zenon DEF AttemptOK, NewConnectionOK
  <2>9. ASSUME NEW k \in 0 .. Len(r), socket, From(r, k), ~hidden
        PROVE  willKnow(t, k, HideShow, <<"show">>, ~server.view.hidden)
    <3>1. (~server.view.hidden) \in BOOLEAN
      OBVIOUS
    <3>2. willKnow(r, k, HideShow, <<"show">>, ~server.view.hidden)
      <4>1. CASE isFullyConnected
        BY <1>4, <2>9, <4>1 DEF HearsOK
      <4>2. CASE ~isFullyConnected
        <5>1. server.view = NewView /\ silent(r, k, Reports)
          BY <1>4, <2>9, <4>2 DEF HearsOK
        <5>2. silent(r, k, HideShow)
          BY <5>1, SilentLess
        <5>3. ~server.view.hidden
          BY <5>1 DEF NewView
        <5> QED BY <5>2, <5>3 DEF willKnow
      <4> QED BY <4>1, <4>2
    <3> QED BY <2>2, <2>4, <2>9, <3>1, <3>2, Zenon
  <2>10. HearsOK(eventQueue)'
    BY <1>1, <2>1, <2>5, <2>6, <2>9, Zenon DEF HearsOK
  <2>11. KnowsOK(eventQueue)'
    <3> SUFFICES ASSUME socket, server.phase = "welcomed" PROVE KnowsAll(eventQueue)'
      BY <1>1 DEF KnowsOK
    <3>1. From(r, 0) /\ 0 \in 0 .. Len(r)
      <4>1. ~IsQueued(r, "onConnect")
        BY <1>3 DEF NewConnectionOK
      <4>2. Len(r) \in Nat
        BY <1>3 DEF StationQueues
      <4> QED BY <4>1, <4>2 DEF From, IsQueued
    <3>2. willKnow(t, 0, HideShow, IF hidden THEN <<"hide">> ELSE <<"show">>, server.view.hidden = hidden)
      <4>1. (server.view.hidden = hidden) \in BOOLEAN
        OBVIOUS
      <4>2. CASE hidden
        <5>1. willKnow(t, 0, HideShow, <<"hide">>, server.view.hidden = hidden)
          BY <2>2, <2>4, <3>1, <4>1, <4>2, Zenon
        <5> QED BY <4>2, <5>1, Zenon
      <4>3. CASE ~hidden
        <5>1. willKnow(t, 0, HideShow, <<"show">>, ~server.view.hidden)
          BY <2>9, <3>1, <4>3
        <5>2. ~server.view.hidden => server.view.hidden = hidden
          BY <1>2, <4>3 DEF TypeOK
        <5>3. (~server.view.hidden) \in BOOLEAN
          OBVIOUS
        <5>4. willKnow(t, 0, HideShow, <<"show">>, server.view.hidden = hidden)
          BY <4>1, <5>1, <5>2, <5>3, KnowsMore, Zenon
        <5> QED BY <4>3, <5>4, Zenon
      <4> QED BY <4>2, <4>3
    <3>3. ASSUME ~hidden, NEW f \in Fields
          PROVE  willKnow(t, 0, {f}, <<f, last[f]>>, server.view.fields[f] = last[f])
      <4>1. (server.view.fields[f] = last[f]) \in BOOLEAN
        OBVIOUS
      <4> QED BY <2>2, <2>4, <3>1, <3>3, <4>1, Zenon
    <3> QED BY <1>1, <2>6, <3>2, <3>3, Zenon DEF KnowsAll
  <2> QED BY <2>6, <2>7, <2>8, <2>10, <2>11 DEF StationIInv, QueueOK
<1> QED BY <1>6, <1>7

\* The invariant holds before connect() is called.
LEMMA StationStarts == Init => StationIInv
<1> SUFFICES ASSUME Init PROVE StationIInv
  OBVIOUS
<1>1. eventQueue = <<>> /\ eventQueue \in StationQueues /\ Len(eventQueue) = 0
  BY DEF Init, StationQueues
<1>2. TypeOK
  <2>1. last \in [Fields -> Values] /\ wire \in Seq({"open", "success", "report", "close"})
    BY ReporterAssumption DEF Init
  <2>2. server \in [phase : {"none", "request", "opened", "joined", "welcomed"},
                    view : [hidden : BOOLEAN, fields : [Fields -> Values \cup {Unknown}]]]
    BY DEF Init, Absent, NewView
  <2>3. \A i \in DOMAIN eventQueue : eventQueue[i].kind \in Kinds
    BY <1>1, QueueTypes
  <2> QED BY <2>1, <2>2, <2>3, Zenon DEF Init, TypeOK
<1>3. AttemptOK(eventQueue)
  BY <1>1 DEF Init, AttemptOK, IsQueued, NothingBehind
<1>4. NewConnectionOK(eventQueue)
  BY <1>1 DEF Init, NewConnectionOK, IsQueued, NothingBefore, Absent
<1>5. HearsOK(eventQueue) /\ KnowsOK(eventQueue)
  BY DEF Init, HearsOK, KnowsOK
<1> QED BY <1>1, <1>2, <1>3, <1>4, <1>5 DEF StationIInv, QueueOK

\* Every step keeps it.
LEMMA StationSteps == StationIInv /\ [Next]_vars => StationIInv'
<1> SUFFICES ASSUME StationIInv, [Next]_vars PROVE StationIInv'
  OBVIOUS
<1>1. CASE User
  BY <1>1, UserKeeps
<1>2. CASE Caller \/ ReconnectTimerFires
  BY <1>2, CallerKeeps DEF Caller
<1>3. CASE Connected \/ NotConnected
  BY <1>3, ConnectingKeeps
<1>4. CASE OnConnect
  BY <1>4, OnConnectKeeps
<1>5. CASE DispatchNothing \/ DispatchEvent \/ DispatchClose \/ StationEvent \/ RunNothing \/ RunOn
  BY <1>5, DispatchKeeps
<1>6. CASE DispatchOpen
  BY <1>6, OpenKeeps
<1>7. CASE RunEmit
  BY <1>7, EmitKeeps
<1>8. CASE ConnectionSuccessful
  BY <1>8, WelcomeKeeps
<1>9. CASE Disconnect
  BY <1>9, DisconnectKeeps
<1>10. CASE Receive \/ ReceiveFails \/ PingTimerFires \/ ServerReports \/ ServerCloses
  BY <1>10, ReceivingKeeps
<1>11. CASE ServerOpens \/ ServerWelcomes
  BY <1>11, ServerKeeps
<1>12. CASE Quiet \/ UNCHANGED vars
  <2>1. UNCHANGED <<isFullyConnected, hidden, last, cpc, eventQueue, connection, registered, pingTimer,
                    socket, reconnectTimer, server, wire>>
    BY <1>12 DEF Quiet, vars, reporter, client, tcp
  <2>2. TypeOK'
    BY <2>1, Parts DEF TypeOK
  <2>3. QueueOK(eventQueue)'
    BY <2>1, Parts, Zenon DEF QueueOK, AttemptOK, NewConnectionOK, HearsOK, KnowsOK, KnowsAll, Welcome
  <2> QED BY <2>2, <2>3 DEF StationIInv
<1> QED BY <1>1, <1>2, <1>3, <1>4, <1>5, <1>6, <1>7, <1>8, <1>9, <1>10, <1>11, <1>12
        DEF Next, Worker, Dispatch, Server

\* It gives what the callbacks rely on, and that the server will know the station as it is.
LEMMA StationInvFollows == StationIInv => StationInv
<1> SUFFICES ASSUME StationIInv PROVE StationInv
  OBVIOUS
<1> DEFINE q == eventQueue
<1>1. TypeOK /\ q \in StationQueues /\ NewConnectionOK(q) /\ KnowsOK(q)
  BY Parts
<1>2. DOMAIN q = 1 .. Len(q) /\ Len(q) \in Nat
  BY <1>1 DEF StationQueues
<1>3. ReceiveHasConnection
  <2> SUFFICES ASSUME q # <<>>, Head(q).kind = "dispatch", socket PROVE connection \in {"connecting", "open"}
    BY DEF ReceiveHasConnection, take
  <2>1. Head(q) = q[1] /\ 1 \in 1 .. Len(q)
    BY <1>1, <1>2, TaskTakenFrom
  <2>2. ~IsQueued(q, "onConnect")
    <3> SUFFICES ASSUME NEW j \in 1 .. Len(q), q[j].kind = "onConnect" PROVE FALSE
      BY DEF IsQueued
    <3>1. 1 < j
      BY <2>1
    <3>2. Harmless(q[1])
      BY <1>1, <2>1, <3>1 DEF NewConnectionOK, NothingBefore
    <3> QED BY <2>1, <3>2 DEF Harmless
  <2> QED BY <1>1, <2>2 DEF NewConnectionOK
<1>4. ServerKnowsStation
  <2>1. pending("success") <=> Welcome(q)
    BY <1>2 DEF pending, Welcome
  <2> QED BY <1>1, <2>1, Zenon DEF ServerKnowsStation, KnowsOK, KnowsAll, HideShow
<1> QED BY <1>1, <1>3, <1>4 DEF StationInv, ReporterInv

\* For any values, connections, calls of the user, events and failures: data is read only on a
\* connection that onConnect_() has made for the socket; and once the server's welcome has been
\* handled, what the server knows, with the reports still queued, is the station as it is, whatever
\* was changed offline, hidden or while reconnecting.
THEOREM StationIsKnown == Spec => []StationInv
<1>1. Init => StationIInv
  BY StationStarts
<1>2. StationIInv /\ [Next]_vars => StationIInv'
  BY StationSteps
<1>3. StationIInv => StationInv
  BY StationInvFollows
<1> QED BY <1>1, <1>2, <1>3, PTL DEF Spec

================================================================================

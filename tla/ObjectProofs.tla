----------------------------- MODULE ObjectProofs -----------------------------
(*****************************************************************************)
(* The spin mutex, the race of connectImpl_() for a connection,              *)
(* ThreadedObject, and the output half of ulog.c, for any threads, spins,    *)
(* addresses, cancellations, tasks and lines. That ThreadedObject implements *)
(* SerialQueue is shown step by step. For the lines of the log, LineIInv     *)
(* adds whose the time of each line is.                                      *)
(*****************************************************************************)
EXTENDS SpinMutex, HappyEyeballs, ThreadedObject, Ulog, FiniteSetTheorems, TLAPS

-------------------------------------------------------------------------------
(* SpinMutex: mutual exclusion, for any threads and iterations *)

\* What Failed does to the thread whose try failed.
LEMMA FailedType ==
    ASSUME SpinTypeOK, NEW t \in Lockers, Failed(t)
    PROVE  /\ pc' \in [Lockers -> {"idle", "load", "exchange", "held"}]
           /\ phase' \in [Lockers -> 0..3] /\ left' \in [Lockers -> Nat]
           /\ pc'[t] \in {"idle", "load"} /\ \A u \in Lockers \ {t} : pc'[u] = pc[u]
<1>1. CASE phase[t] = 0
  BY <1>1 DEF SpinTypeOK, Failed
<1>2. CASE phase[t] # 0 /\ left[t] > 1
  BY <1>2 DEF SpinTypeOK, Failed
<1>3. CASE phase[t] # 0 /\ ~(left[t] > 1)
  <2>1. (IF phase[t] < 3 THEN phase[t] + 1 ELSE 3) \in 1..3
    BY <1>3 DEF SpinTypeOK
  <2>2. \A p \in 1..3 : Spins[p] \in Nat
    BY SpinsAssumption
  <2> QED
    BY <1>3, <2>1, <2>2 DEF SpinTypeOK, Failed
<1> QED
  BY <1>1, <1>2, <1>3

\* The invariant is inductive as it stands: audio_spin_mutex sets its flag in
\* the step that takes the lock and clears it in the step that gives it back.
LEMMA SpinInductive ==
    SpinInv /\ [SpinNext]_spinVars => SpinInv'
<1> SUFFICES ASSUME SpinInv, [SpinNext]_spinVars PROVE SpinInv'
  OBVIOUS
<1> USE DEF SpinInv, SpinTypeOK, MutualExclusion
<1>1. CASE UNCHANGED spinVars
  BY <1>1 DEF spinVars
<1>2. ASSUME NEW t \in Lockers, Lock(t) PROVE SpinInv'
  <2>1. Spins[1] \in Nat
    BY SpinsAssumption
  <2> QED
    BY <1>2, <2>1 DEF Lock
<1>3. ASSUME NEW t \in Lockers, TryLock(t) PROVE SpinInv'
  BY <1>3 DEF TryLock
<1>4. ASSUME NEW t \in Lockers, Load(t) PROVE SpinInv'
  <2>1. CASE flag
    BY <1>4, <2>1, FailedType DEF Load
  <2>2. CASE ~flag
    BY <1>4, <2>2 DEF Load
  <2> QED BY <2>1, <2>2
<1>5. ASSUME NEW t \in Lockers, Exchange(t) PROVE SpinInv'
  <2>1. CASE flag
    BY <1>5, <2>1, FailedType DEF Exchange
  <2>2. CASE ~flag
    BY <1>5, <2>2 DEF Exchange
  <2> QED BY <2>1, <2>2
<1>6. ASSUME NEW t \in Lockers, Unlock(t) PROVE SpinInv'
  BY <1>6, Zenon DEF Unlock
<1> QED
  BY <1>1, <1>2, <1>3, <1>4, <1>5, <1>6 DEF SpinNext, Spinning

\* Between lock() and unlock() of audio_spin_mutex there is at most one thread.
THEOREM SpinCorrect == SpinSpec => []SpinInv
<1>1. SpinInit => SpinInv
  <2> SUFFICES ASSUME SpinInit PROVE SpinInv
    OBVIOUS
  <2>1. \A t \in Lockers : pc[t] = "idle"
    BY Zenon DEF SpinInit
  <2>2. SpinTypeOK
    <3>1. flag \in BOOLEAN
      BY Zenon DEF SpinInit
    <3>2. pc \in [Lockers -> {"idle", "load", "exchange", "held"}]
      BY DEF SpinInit
    <3>3. phase \in [Lockers -> 0..3] /\ left \in [Lockers -> Nat]
      BY DEF SpinInit
    <3> QED
      BY <3>1, <3>2, <3>3, Zenon DEF SpinTypeOK
  <2>3. ~flag
    BY Zenon DEF SpinInit
  <2>4. \A t \in Lockers : pc[t] # "held"
    BY <2>1, Zenon
  <2> QED
    BY <2>2, <2>3, <2>4, Zenon DEF SpinInv, MutualExclusion
<1> QED
  BY <1>1, SpinInductive, PTL DEF SpinSpec

-------------------------------------------------------------------------------
(* HappyEyeballs: answers of any length, any number of sockets, and other threads that
   cancel at any moment *)

\* What the worker knows at each point of connectImpl_(): which futures it has not taken yet,
\* that the list it is about to advance is not empty, that it looks at the resolvers' flags only
\* when both lists are, and that it goes on looking for a socket only while it has none.
WorkerInv ==
  /\ hpc \in {"dns", "collect6", "collect4", "test6", "sleep", "need4", "block4", "choose", "attempt",
              "check", "next", "flags", "slow", "slowEnd", "drain", "tail", "done"}
  /\ hpc \in {"dns", "collect6", "sleep"} => gets[0] = 0
  /\ hpc \in {"collect4", "test6"} /\ gets[0] = 1 => complete[0]
  /\ hpc \in {"dns", "collect6", "collect4", "block4"} => gets[1] = 0
  /\ hpc \in {"check", "next"} => results[whichIndex] > 0
  /\ hpc \in {"flags", "slow", "slowEnd"} => Exhausted
  /\ hpc \notin {"slow", "slowEnd", "drain", "tail", "done"} => socket = 0
  /\ cancelConnect => cancels > 0
  /\ hpc = "drain" /\ socket = 0 /\ cancels = 0 => Exhausted

RaceIInv == RaceInv /\ WorkerInv

\* The invariants about the sockets only see the sockets and whether the race is over.
LEMMA SocketsKept ==
    ASSUME SocketInv, UNCHANGED fds, RaceTypeOK',
           hpc \notin {"drain", "tail", "done"}, hpc' \notin {"tail", "done"}
    PROVE  SocketInv'
  BY DEF SocketInv, fds

\* collect() takes futures of S that were not taken and are ready.
LEMMA CollectTypes ==
    ASSUME NEW S \in SUBSET Index, RaceTypeOK, GetOnce, collect(S),
           \A i \in S : gets[i] = 0 /\ ready(i)
    PROVE  /\ gets' \in [Index -> Nat] /\ results' \in [Index -> Nat]
           /\ \A i \in Index : /\ gets'[i] \in {0, 1} /\ (gets'[i] = 1 => ready(i))
                               /\ gets'[i] = (IF i \in S THEN 1 ELSE gets[i])
                               /\ results'[i] = (IF i \in S THEN answer[i] ELSE results[i])
<1>1. \A i \in S : answer[i] \in Nat
  BY DEF RaceTypeOK, ready
<1> QED
  BY <1>1 DEF RaceTypeOK, GetOnce, collect, ready

\* checkConnections_() closes the attempts that it takes off the list, and the socket it returns
\* is one of the others, which has connected.
LEMMA CheckKeepsSockets ==
    ASSUME RaceTypeOK, DOMAIN net = pendingSockets, socket = 0, checkConnections
    PROVE  /\ DOMAIN net' = pendingSockets' /\ pendingSockets' \subseteq 1..sockets'
           /\ sockets' = sockets /\ socket' \in 0..sockets'
           /\ \A n \in DOMAIN net' : net'[n] \in {"connecting", "connected", "failed"}
           /\ socket' # 0 => socket' \in DOMAIN net' /\ net'[socket'] = "connected"
<1>1. PICK first \in connected \union {0} :
        /\ pendingSockets' = pendingSockets \ {n \in pendingSockets : net[n] = "failed" /\ (first = 0 \/ n < first)}
        /\ net' = [n \in DOMAIN net \ {m \in pendingSockets : net[m] = "failed" /\ (first = 0 \/ m < first)} |-> net[n]]
        /\ socket' = (IF first = 0 THEN socket ELSE first)
        /\ UNCHANGED sockets
  BY DEF checkConnections, closed
<1>2. DOMAIN net' = pendingSockets' /\ pendingSockets' \subseteq 1..sockets
  BY <1>1, Zenon DEF RaceTypeOK
<1>3. \A n \in DOMAIN net' : net'[n] = net[n] /\ n \in DOMAIN net
  BY <1>1
<1>4. first # 0 => first \in pendingSockets /\ net[first] = "connected" /\ first \in 1..sockets
  BY DEF connected, RaceTypeOK
<1>5. first # 0 => first \in DOMAIN net'
  BY <1>1, <1>4
<1> QED
  BY <1>1, <1>2, <1>3, <1>4, <1>5 DEF RaceTypeOK

-------------------------------------------------------------------------------
\* The steps that only test and go on keep everything.
LEMMA TestingSteps ==
    ASSUME RaceIInv,
           \/ WaitDns \/ Test6 \/ Need4 \/ Choose \/ LeaveLoop \/ TestFlags \/ SlowDnsEnds \/ SlowGiveUp
    PROVE  RaceIInv'
<1> USE DEF RaceIInv, RaceInv, Exhausted, valid, ready, Index
<1>1. RaceTypeOK' /\ GetOnce' /\ SocketInv'
  BY DEF RaceTypeOK, GetOnce, SocketInv, dns, lists, fds, cancelling,
         WaitDns, Test6, Need4, Choose, LeaveLoop, TestFlags, SlowDnsEnds, SlowGiveUp
<1>2. CASE WaitDns
  BY <1>1, <1>2 DEF RaceTypeOK, SocketInv, GetOnce, CollectedAddressesTried, WorkerInv, WaitDns, dns, lists, fds, cancelling, AllComplete
<1>3. CASE Test6
  BY <1>1, <1>3 DEF RaceTypeOK, SocketInv, GetOnce, CollectedAddressesTried, WorkerInv, Test6, dns, lists, fds, cancelling, AllComplete
<1>4. CASE Need4
  BY <1>1, <1>4 DEF RaceTypeOK, SocketInv, GetOnce, CollectedAddressesTried, WorkerInv, Need4, dns, lists, fds, cancelling, AllComplete
<1>5. CASE Choose
  BY <1>1, <1>5 DEF RaceTypeOK, SocketInv, GetOnce, CollectedAddressesTried, WorkerInv, Choose, dns, lists, fds, cancelling, AllComplete
<1>6. CASE LeaveLoop
  BY <1>1, <1>6 DEF RaceTypeOK, SocketInv, GetOnce, CollectedAddressesTried, WorkerInv, LeaveLoop, dns, lists, fds, cancelling, AllComplete
<1>7. CASE TestFlags
  BY <1>1, <1>7 DEF RaceTypeOK, SocketInv, GetOnce, CollectedAddressesTried, WorkerInv, TestFlags, dns, lists, fds, cancelling, AllComplete
<1>8. CASE SlowDnsEnds
  BY <1>1, <1>8 DEF RaceTypeOK, SocketInv, GetOnce, CollectedAddressesTried, WorkerInv, SlowDnsEnds, dns, lists, fds, cancelling, AllComplete
<1>9. CASE SlowGiveUp
  BY <1>1, <1>9 DEF RaceTypeOK, SocketInv, GetOnce, CollectedAddressesTried, WorkerInv, SlowGiveUp, dns, lists, fds, cancelling, AllComplete
<1> QED
  BY <1>2, <1>3, <1>4, <1>5, <1>6, <1>7, <1>8, <1>9

\* The steps that take answers take each once, when it is ready.
LEMMA CollectingSteps ==
    ASSUME RaceIInv, Collect6 \/ Collect4 \/ Sleep \/ Block4 \/ SlowCollect
    PROVE  RaceIInv'
<1> USE DEF RaceIInv, RaceInv, Exhausted, valid, ready
<1>1. Index = {0, 1} /\ RaceTypeOK /\ GetOnce /\ WorkerInv /\ SocketInv /\ CollectedAddressesTried
  BY DEF Index, SocketInv
<1>2. PICK S \in SUBSET Index : collect(S) /\ \A i \in S : gets[i] = 0 /\ ready(i)
  <2>1. CASE Collect6
    BY <1>1, <2>1 DEF Collect6, GetOnce, WorkerInv
  <2>2. CASE Collect4
    BY <1>1, <2>2 DEF Collect4, GetOnce, WorkerInv
  <2>3. CASE Sleep
    BY <1>1, <2>3 DEF Sleep, GetOnce, WorkerInv
  <2>4. CASE Block4
    BY <1>1, <2>4 DEF Block4, GetOnce, WorkerInv
  <2>5. CASE SlowCollect
    BY <2>5 DEF SlowCollect
  <2> QED
    BY <2>1, <2>2, <2>3, <2>4, <2>5
<1>3. /\ gets' \in [Index -> Nat] /\ results' \in [Index -> Nat]
      /\ \A i \in Index : gets'[i] \in {0, 1} /\ (gets'[i] = 1 => ready(i))
  BY <1>1, <1>2, CollectTypes
<1>4. /\ UNCHANGED <<dns, tried, fds, cancelling>> /\ whichIndex' \in Index
      /\ hpc \notin {"drain", "tail", "done"} /\ hpc' \notin {"tail", "done"}
  BY <1>1 DEF Collect6, Collect4, Sleep, Block4, SlowCollect, RaceTypeOK
<1>5. RaceTypeOK'
  BY <1>1, <1>3, <1>4 DEF RaceTypeOK, dns, lists, fds, cancelling
<1>6. SocketInv' /\ GetOnce' /\ CollectedAddressesTried'
  BY <1>1, <1>3, <1>4, <1>5, SocketsKept DEF GetOnce, CollectedAddressesTried, dns
<1>7. WorkerInv'
  <2>1. CASE Collect6
    BY <1>1, <1>3, <1>4, <2>1 DEF WorkerInv, Collect6, collect, dns, lists, fds, cancelling, RaceTypeOK
  <2>2. CASE Collect4
    BY <1>1, <1>3, <1>4, <2>2 DEF WorkerInv, Collect4, collect, dns, lists, fds, cancelling, RaceTypeOK
  <2>3. CASE Sleep
    BY <1>1, <1>3, <1>4, <2>3 DEF WorkerInv, Sleep, collect, dns, lists, fds, cancelling, RaceTypeOK
  <2>4. CASE Block4
    BY <1>1, <1>3, <1>4, <2>4 DEF WorkerInv, Block4, collect, dns, lists, fds, cancelling, RaceTypeOK
  <2>5. CASE SlowCollect
    BY <1>1, <1>3, <1>4, <2>5 DEF WorkerInv, SlowCollect, collect, dns, lists, fds, cancelling, RaceTypeOK
  <2> QED
    BY <2>1, <2>2, <2>3, <2>4, <2>5
<1> QED
  BY <1>5, <1>6, <1>7

\* The resolvers, the network and the threads that cancel.
LEMMA EnvironmentSteps ==
    ASSUME RaceIInv, Resolvers \/ Network \/ ChangeCancel
    PROVE  RaceIInv'
<1> USE DEF RaceIInv, RaceInv, Exhausted, valid, ready
<1>1. ASSUME NEW i \in Index, Resolve(i) PROVE RaceIInv'
  BY <1>1, AddressesAssumption DEF RaceTypeOK, SocketInv, GetOnce, CollectedAddressesTried, WorkerInv, Resolve, dns, lists, fds, cancelling
<1>2. ASSUME NEW i \in Index, SetComplete(i) PROVE RaceIInv'
  BY <1>2 DEF RaceTypeOK, SocketInv, GetOnce, CollectedAddressesTried, WorkerInv, SetComplete, dns, lists, fds, cancelling
<1>3. ASSUME NEW n \in DOMAIN net, AttemptEnds(n) PROVE RaceIInv'
  BY <1>3 DEF RaceTypeOK, SocketInv, GetOnce, CollectedAddressesTried, WorkerInv, AttemptEnds, dns, lists, fds, cancelling
<1>4. CASE ChangeCancel
  BY <1>4 DEF RaceTypeOK, SocketInv, GetOnce, CollectedAddressesTried, WorkerInv, ChangeCancel, dns, lists, fds, cancelling
<1> QED
  BY <1>1, <1>2, <1>3, <1>4 DEF Resolvers, Network

\* The attempts to the next address.
LEMMA AttemptSteps ==
    ASSUME RaceIInv, AttemptFails \/ AttemptConnects \/ AttemptStarts \/ NextAddress
    PROVE  RaceIInv'
<1> USE DEF RaceIInv, RaceInv, Exhausted, valid, ready
<1>1. Index = {0, 1} /\ RaceTypeOK /\ GetOnce /\ WorkerInv /\ SocketInv /\ CollectedAddressesTried
  BY DEF Index, SocketInv
<1>2. attempting => /\ hpc = "attempt" /\ socket = 0 /\ tried' \in [Index -> Nat] /\ whichIndex' \in Index
                    /\ results[whichIndex'] > 0
  BY <1>1 DEF attempting, RaceTypeOK, WorkerInv
<1>3. ASSUME NEW status \in {"connecting", "connected"}, opened(status), hpc = "attempt"
      PROVE  /\ sockets' \in Nat /\ sockets + 1 \in 1..sockets' /\ DOMAIN net' = pendingSockets'
             /\ pendingSockets' \subseteq 1..sockets' /\ sockets + 1 \in DOMAIN net'
             /\ net'[sockets + 1] = status
             /\ \A n \in DOMAIN net' : net'[n] \in {"connecting", "connected", "failed"}
  BY <1>1, <1>3 DEF opened, RaceTypeOK, SocketInv
<1>4. CASE AttemptFails
  BY <1>1, <1>2, <1>4 DEF RaceTypeOK, SocketInv, GetOnce, CollectedAddressesTried, WorkerInv, AttemptFails, dns, lists, fds, cancelling
<1>5. CASE AttemptConnects
  <2>1. RaceTypeOK'
    BY <1>1, <1>2, <1>3, <1>5 DEF RaceTypeOK, AttemptConnects, dns, lists, fds, cancelling
  <2>2. SocketInv'
    BY <1>1, <1>2, <1>3, <1>5, <2>1 DEF SocketInv, AttemptConnects
  <2>3. GetOnce' /\ CollectedAddressesTried' /\ WorkerInv'
    BY <1>1, <1>2, <1>5, <2>1 DEF GetOnce, CollectedAddressesTried, WorkerInv, AttemptConnects, dns, lists, fds, cancelling, RaceTypeOK
  <2> QED
    BY <2>1, <2>2, <2>3
<1>6. CASE AttemptStarts
  <2>1. RaceTypeOK'
    BY <1>1, <1>2, <1>3, <1>6 DEF RaceTypeOK, AttemptStarts, dns, lists, fds, cancelling
  <2>2. SocketInv'
    BY <1>1, <1>2, <1>3, <1>6, <2>1 DEF SocketInv, AttemptStarts
  <2>3. GetOnce' /\ CollectedAddressesTried' /\ WorkerInv'
    BY <1>1, <1>2, <1>6, <2>1 DEF GetOnce, CollectedAddressesTried, WorkerInv, AttemptStarts, dns, lists, fds, cancelling, RaceTypeOK
  <2> QED
    BY <2>1, <2>2, <2>3
<1>7. CASE NextAddress
  <2>1. results[whichIndex] > 0 /\ \A i \in Index : ready(i) => answer[i] \in Nat
    BY <1>1, <1>7 DEF NextAddress, WorkerInv, RaceTypeOK
  <2>2. RaceTypeOK'
    BY <1>1, <1>7, <2>1, SMTT(20) DEF RaceTypeOK, NextAddress, dns, lists, fds, cancelling
  <2>3. SocketInv'
    BY <1>1, <1>7, <2>2, SocketsKept DEF NextAddress
  <2>4. GetOnce'
    <3>1. /\ gets' = [gets EXCEPT ![1 - whichIndex] =
                          IF gets[1 - whichIndex] = 0 /\ ready(1 - whichIndex) THEN @ + 1 ELSE @]
          /\ hpc' # "done" /\ UNCHANGED <<answer, complete>>
      BY ONLY <1>7 DEF NextAddress, valid, ready, dns
    <3>2. 1 - whichIndex \in Index
      BY ONLY <1>1 DEF RaceTypeOK
    <3> QED
      BY ONLY <1>1, <3>1, <3>2 DEF GetOnce, RaceTypeOK, ready
  <2>5. CollectedAddressesTried' /\ WorkerInv'
    BY <1>1, <1>7, <2>2 DEF CollectedAddressesTried, WorkerInv, NextAddress, dns, lists, fds, cancelling, RaceTypeOK
  <2> QED
    BY <2>3, <2>4, <2>5
<1> QED
  BY <1>4, <1>5, <1>6, <1>7

\* Watching the attempts, and the end.
LEMMA WatchingSteps ==
    ASSUME RaceIInv, Check \/ SlowDns \/ DrainAttempts \/ CloseOthers \/ FreeAddresses
    PROVE  RaceIInv'
<1> USE DEF RaceIInv, RaceInv, Exhausted, valid, ready
<1>1. Index = {0, 1} /\ RaceTypeOK /\ GetOnce /\ WorkerInv /\ SocketInv /\ CollectedAddressesTried
  BY DEF Index, SocketInv
<1>2. ASSUME checkConnections, hpc \notin {"tail", "done"}, socket = 0
      PROVE  /\ DOMAIN net' = pendingSockets' /\ pendingSockets' \subseteq 1..sockets'
             /\ sockets' = sockets /\ socket' \in 0..sockets'
             /\ \A n \in DOMAIN net' : net'[n] \in {"connecting", "connected", "failed"}
             /\ socket' # 0 => socket' \in DOMAIN net' /\ net'[socket'] = "connected"
  BY <1>1, <1>2, CheckKeepsSockets DEF SocketInv
<1>3. CASE Check
  BY <1>1, <1>2, <1>3 DEF RaceTypeOK, SocketInv, GetOnce, CollectedAddressesTried, WorkerInv, Check, dns, lists, fds, cancelling
<1>4. CASE SlowDns
  BY <1>1, <1>2, <1>4 DEF RaceTypeOK, SocketInv, GetOnce, CollectedAddressesTried, WorkerInv, SlowDns, dns, lists, fds, cancelling
<1>5. CASE DrainAttempts
  BY <1>1, <1>2, <1>5 DEF RaceTypeOK, SocketInv, GetOnce, CollectedAddressesTried, WorkerInv, DrainAttempts, dns, lists, fds, cancelling
<1>6. CASE CloseOthers
  <2>1. DOMAIN net = pendingSockets /\ pendingSockets \subseteq 1..sockets /\ 0 \notin pendingSockets
    BY <1>1, <1>6 DEF CloseOthers, SocketInv, RaceTypeOK
  <2>2. DOMAIN net' = {socket} \ {0}
    BY <1>1, <1>6, <2>1 DEF CloseOthers, closed, SocketInv
  <2>3. \A n \in DOMAIN net' : n \in DOMAIN net /\ net'[n] = net[n]
    BY <1>6 DEF CloseOthers, closed
  <2>4. RaceTypeOK'
    BY <1>1, <1>6, <2>1, <2>3, Zenon DEF RaceTypeOK, CloseOthers, dns, lists, fds, cancelling
  <2>5. SocketInv'
    BY <1>1, <1>6, <2>2, <2>3, <2>4 DEF SocketInv, CloseOthers
  <2>6. GetOnce' /\ CollectedAddressesTried' /\ WorkerInv'
    BY <1>1, <1>6 DEF GetOnce, CollectedAddressesTried, WorkerInv, CloseOthers, dns, lists, fds, cancelling
  <2> QED
    BY <2>5, <2>6
<1>7. CASE FreeAddresses
  BY <1>1, <1>7 DEF RaceTypeOK, SocketInv, GetOnce, CollectedAddressesTried, WorkerInv, FreeAddresses, AllComplete, dns, lists, fds, cancelling
<1> QED
  BY <1>3, <1>4, <1>5, <1>6, <1>7

\* The invariant of the race, with what the worker knows, is inductive.
LEMMA RaceInductive == RaceIInv /\ [RaceNext]_raceVars => RaceIInv'
<1> SUFFICES ASSUME RaceIInv, [RaceNext]_raceVars PROVE RaceIInv'
  OBVIOUS
<1>1. CASE UNCHANGED raceVars
  BY <1>1 DEF RaceIInv, RaceInv, Exhausted, ready, RaceTypeOK, SocketInv, GetOnce, CollectedAddressesTried, WorkerInv, raceVars, dns, lists, fds, cancelling
<1> QED
  BY <1>1, TestingSteps, CollectingSteps, EnvironmentSteps, AttemptSteps, WatchingSteps
     DEF RaceNext, Lookup, Attempts, Returned

\* connectImpl_(), for every answer of the resolvers, every outcome of the attempts and every
\* moment of a cancellation: no socket leaks and none is closed twice, the one that is returned has
\* connected, get() is called once on each future and both lists are freed, and an attempt
\* that nobody cancelled fails only when every address it was given was tried.
THEOREM RaceIsSafe == RaceSpec => []RaceInv
<1>1. RaceInit => RaceIInv
  <2> SUFFICES ASSUME RaceInit PROVE RaceIInv
    OBVIOUS
  <2>1. DOMAIN net = {}
    BY DEF RaceInit
  <2>2. RaceTypeOK
    BY <2>1 DEF RaceInit, RaceTypeOK, Index
  <2>3. SocketInv
    BY <2>1, <2>2 DEF RaceInit, SocketInv
  <2>4. GetOnce
    BY DEF RaceInit, GetOnce, Index, ready
  <2>5. WorkerInv /\ CollectedAddressesTried
    BY DEF RaceInit, WorkerInv, CollectedAddressesTried, Index
  <2> QED
    BY <2>3, <2>4, <2>5 DEF RaceIInv, RaceInv
<1>2. RaceIInv => RaceInv
  BY DEF RaceIInv
<1> QED
  BY <1>1, <1>2, RaceInductive, PTL DEF RaceSpec

-------------------------------------------------------------------------------
(* ThreadedObject: any callers and tasks and any bound on the queue *)

\* The head of a non-empty queue is a task, and the rest is a queue.
LEMMA HeadTailType ==
  ASSUME NEW S, NEW q \in Seq(S), q # <<>>
  PROVE  Head(q) \in S /\ Tail(q) \in Seq(S) /\ <<Head(q)>> \in Seq(S) /\ <<Head(q)>> # <<>>
         /\ Len(<<Head(q)>>) <= 1
OBVIOUS

\* The empty queue is a queue.
LEMMA EmptyQueue == ASSUME NEW S PROVE <<>> \in Seq(S) /\ Len(<<>>) = 0
OBVIOUS

\* The argument of an enqueue_() in flight is a task.
LEMMA ArgumentType ==
  ASSUME NEW S, NEW r \in Seq(S), Len(r) = 1
  PROVE  Head(r) \in S
<1>1. r # <<>>
  OBVIOUS
<1> QED BY <1>1, HeadTailType

\* The constructor establishes the invariant.
LEMMA InitInv == Init => ObjectInv
<1> SUFFICES ASSUME Init PROVE ObjectInv
  OBVIOUS
<1>1. TypeOK
  BY EmptyQueue, Zenon DEF Init, TypeOK
<1>2. ExecutingInv /\ OwnerInv /\ NoTaskOutlivesWait
  BY EmptyQueue DEF Init, ExecutingInv, OwnerInv, NoTaskOutlivesWait
<1>3. EnqueueInv
  BY DEF Init, EnqueueInv, Threads
<1> QED BY <1>1, <1>2, <1>3 DEF ObjectInv

USE DEF Threads, object, worker, callers, owner, vars, unlocked

\* A step of enqueue_() keeps the invariant.
LEMMA EnqueueKeepsInv ==
  ASSUME ObjectInv, NEW t \in Threads, Enqueue(t)
  PROVE  ObjectInv'
<1> USE WorkerAssumption
<1>1. ASSUME NEW x \in Tasks, EnqueueBegin(t, x) PROVE ObjectInv'
  <2>0. <<x>> \in Seq(Tasks)
    OBVIOUS
  <2>1. TypeOK'
    <3>1. etask' \in [Threads -> Seq(Tasks)] /\ epc' \in [Threads -> {"idle", "lock", "notify"}]
      BY <1>1, <2>0 DEF ObjectInv, TypeOK, EnqueueBegin
    <3>2. mayPost' \in BOOLEAN
      BY <1>1, Zenon DEF ObjectInv, TypeOK, EnqueueBegin
    <3> QED BY <1>1, <3>1, <3>2, Zenon DEF ObjectInv, TypeOK, EnqueueBegin
  <2>2. ExecutingInv' /\ OwnerInv' /\ NoTaskOutlivesWait'
    BY <1>1 DEF ObjectInv, ExecutingInv, OwnerInv, NoTaskOutlivesWait, EnqueueBegin
  <2>3. EnqueueInv'
    BY <1>1 DEF ObjectInv, TypeOK, EnqueueInv, EnqueueBegin, mayCall
  <2> QED BY <2>1, <2>2, <2>3 DEF ObjectInv
<1>2. CASE EnqueuePush(t)
  <2>0. Head(etask[t]) \in Tasks
    BY <1>2, ArgumentType DEF ObjectInv, TypeOK, EnqueueInv, EnqueuePush
  <2>1. TypeOK'
    BY <1>2, <2>0, EmptyQueue DEF ObjectInv, TypeOK, EnqueuePush
  <2>2. ExecutingInv' /\ OwnerInv'
    BY <1>2 DEF ObjectInv, ExecutingInv, OwnerInv, EnqueuePush
  <2>3. EnqueueInv'
    BY <1>2 DEF ObjectInv, TypeOK, EnqueueInv, EnqueuePush
  <2>4. stage # 2
    BY <1>2 DEF ObjectInv, EnqueueInv, NoTaskOutlivesWait, ExecutingInv, OwnerInv, EnqueuePush
  <2>5. NoTaskOutlivesWait'
    BY <1>2, <2>4 DEF NoTaskOutlivesWait, EnqueuePush
  <2> QED BY <2>1, <2>2, <2>3, <2>5 DEF ObjectInv
<1>3. CASE EnqueueGiveUp(t)
  <2>1. TypeOK' /\ EnqueueInv'
    BY <1>3 DEF ObjectInv, TypeOK, EnqueueInv, EnqueueGiveUp
  <2>2. ExecutingInv' /\ OwnerInv' /\ NoTaskOutlivesWait'
    BY <1>3 DEF ObjectInv, ExecutingInv, OwnerInv, NoTaskOutlivesWait, EnqueueGiveUp
  <2> QED BY <2>1, <2>2 DEF ObjectInv
<1>4. CASE EnqueueNotify(t)
  <2>1. TypeOK' /\ EnqueueInv'
    BY <1>4 DEF ObjectInv, TypeOK, EnqueueInv, EnqueueNotify, notified
  <2>2. ExecutingInv' /\ OwnerInv' /\ NoTaskOutlivesWait'
    BY <1>4 DEF ObjectInv, ExecutingInv, OwnerInv, NoTaskOutlivesWait, EnqueueNotify, notified
  <2> QED BY <2>1, <2>2 DEF ObjectInv
<1> QED BY <1>1, <1>2, <1>3, <1>4 DEF Enqueue

\* A step of the worker's event loop keeps the invariant.
LEMMA EventLoopKeepsInv ==
  ASSUME ObjectInv, EventLoop
  PROVE  ObjectInv'
<1>1. CASE LoopTest
  BY <1>1 DEF ObjectInv, TypeOK, ExecutingInv, EnqueueInv, OwnerInv, NoTaskOutlivesWait, LoopTest
<1>2. CASE Dequeue
  <2>1. TypeOK'
    BY <1>2, HeadTailType, Zenon DEF ObjectInv, TypeOK, Dequeue
  <2>2. ExecutingInv'
    <3>1. CASE eventQueue # <<>> /\ ~isDestroying
      <4>1. wpc' = "popped" /\ taskCurrentlyExecuting' = TRUE /\ fn' = <<Head(eventQueue)>>
        BY <1>2, <3>1 DEF Dequeue
      <4>2. fn' # <<>> /\ Len(fn') <= 1
        BY <4>1, HeadTailType, <3>1 DEF ObjectInv, TypeOK
      <4> QED BY <4>1, <4>2 DEF ExecutingInv
    <3>2. CASE ~(eventQueue # <<>> /\ ~isDestroying)
      BY <1>2, <3>2 DEF ObjectInv, ExecutingInv, Dequeue
    <3> QED BY <3>1, <3>2
  <2>3. EnqueueInv' /\ OwnerInv' /\ NoTaskOutlivesWait'
    BY <1>2 DEF ObjectInv, TypeOK, EnqueueInv, OwnerInv, NoTaskOutlivesWait, Dequeue
  <2> QED BY <2>1, <2>2, <2>3 DEF ObjectInv
<1>3. CASE StartTask
  BY <1>3 DEF ObjectInv, TypeOK, ExecutingInv, EnqueueInv, OwnerInv, NoTaskOutlivesWait, StartTask
<1>4. CASE EndTask
  BY <1>4, Zenon DEF ObjectInv, TypeOK, ExecutingInv, EnqueueInv, OwnerInv, NoTaskOutlivesWait, EndTask
<1>5. CASE MarkFinished
  <2>0. fn' = <<>> /\ fn' \in Seq(Tasks) /\ Len(fn') <= 1
    BY <1>5, EmptyQueue DEF MarkFinished
  <2>1. TypeOK' /\ ExecutingInv'
    BY <1>5, <2>0, Zenon DEF ObjectInv, TypeOK, ExecutingInv, MarkFinished
  <2>2. EnqueueInv' /\ OwnerInv' /\ NoTaskOutlivesWait'
    BY <1>5 DEF ObjectInv, EnqueueInv, OwnerInv, NoTaskOutlivesWait, MarkFinished
  <2> QED BY <2>1, <2>2 DEF ObjectInv
<1> QED BY <1>1, <1>2, <1>3, <1>4, <1>5 DEF EventLoop

\* A step of the destructors keeps the invariant.
LEMMA DestructorKeepsInv ==
  ASSUME ObjectInv, Destructor
  PROVE  ObjectInv'
<1> USE DEF ObjectInv, TypeOK, ExecutingInv, EnqueueInv, OwnerInv, NoTaskOutlivesWait
<1>1. CASE StopCallers
  BY <1>1 DEF StopCallers
<1>2. CASE WaitEnter
  BY <1>2 DEF WaitEnter
<1>3. CASE WaitSleep
  BY <1>3 DEF WaitSleep
<1>4. CASE WaitReturn
  BY <1>4, Zenon DEF WaitReturn, tasksLeft
<1>5. CASE ClearQueue
  BY <1>5 DEF ClearQueue, notified
<1>6. CASE Join
  BY <1>6 DEF Join
<1> QED BY <1>1, <1>2, <1>3, <1>4, <1>5, <1>6, Zenon DEF Destructor

\* Every step, and a stuttering one, keeps the invariant.
LEMMA NextKeepsInv == ObjectInv /\ [Next]_vars => ObjectInv'
<1> SUFFICES ASSUME ObjectInv, [Next]_vars PROVE ObjectInv'
  OBVIOUS
<1>1. CASE UNCHANGED vars
  BY <1>1 DEF ObjectInv, TypeOK, ExecutingInv, EnqueueInv, OwnerInv, NoTaskOutlivesWait
<1> QED BY <1>1, EnqueueKeepsInv, EventLoopKeepsInv, DestructorKeepsInv DEF Next, Gone

\* The invariant of the object holds in every state, in particular NoTaskOutlivesWait:
\* after waitForAllTasksComplete_() in the derived destructor no task is left.
THEOREM ObjectInvariant == Spec => []ObjectInv
<1>1. Init => ObjectInv
  BY InitInv
<1>2. ObjectInv /\ [Next]_vars => ObjectInv'
  BY NextKeepsInv
<1> QED BY <1>1, <1>2, PTL DEF Spec
--------------------------------------------------------------------------
\* Every step of the object is a step of the serial queue or changes nothing in it.
LEMMA StepRefines == ObjectInv /\ [Next]_vars => [Serial!Next]_(Serial!vars)
<1> SUFFICES ASSUME ObjectInv, [Next]_vars PROVE [Serial!Next]_(Serial!vars)
  OBVIOUS
<1> DEFINE Same == UNCHANGED <<eventQueue, fn, stage>>
<1>0. Same => [Serial!Next]_(Serial!vars)
  BY DEF Serial!vars
<1>1. ASSUME NEW t \in Threads, EnqueuePush(t) PROVE Serial!Next
  <2>1. stage # 2
    BY <1>1, WorkerAssumption
    DEF ObjectInv, EnqueueInv, NoTaskOutlivesWait, ExecutingInv, OwnerInv, EnqueuePush
  <2>2. PICK x \in Tasks : eventQueue' = Append(eventQueue, x)
    BY <1>1, ArgumentType DEF ObjectInv, TypeOK, EnqueueInv, EnqueuePush
  <2>3. Serial!Accept(x)
    BY <1>1, <2>1, <2>2 DEF Serial!Accept, EnqueuePush
  <2> QED BY <2>3 DEF Serial!Next
<1>2. CASE Dequeue
  <2>1. CASE Same
    BY <1>0, <2>1
  <2>2. CASE ~Same
    <3>1. /\ eventQueue # <<>> /\ fn' = <<Head(eventQueue)>>
          /\ eventQueue' = Tail(eventQueue) /\ stage' = stage
      BY <1>2, <2>2 DEF Dequeue
    <3>2. fn = <<>> /\ stage # 2
      BY <1>2, <3>1 DEF ObjectInv, ExecutingInv, NoTaskOutlivesWait, Dequeue
    <3>3. Serial!Start
      BY <3>1, <3>2 DEF Serial!Start
    <3> QED BY <3>3 DEF Serial!Next
  <2> QED BY <2>1, <2>2
<1>3. CASE MarkFinished
  <2>1. stage # 2
    BY <1>3 DEF ObjectInv, ExecutingInv, NoTaskOutlivesWait, MarkFinished
  <2>2. Serial!Finish
    BY <1>3, <2>1 DEF Serial!Finish, MarkFinished
  <2> QED BY <2>2 DEF Serial!Next
<1>4. CASE WaitReturn
  <2>1. eventQueue = <<>> /\ fn = <<>> /\ stage' = 2 /\ UNCHANGED <<eventQueue, fn>>
    BY <1>4 DEF ObjectInv, ExecutingInv, WaitReturn, tasksLeft
  <2>2. Serial!Close
    BY <2>1 DEF Serial!Close
  <2> QED BY <2>2 DEF Serial!Next
<1>5. CASE ClearQueue
  <2>1. Same
    BY <1>5 DEF ObjectInv, OwnerInv, NoTaskOutlivesWait, ClearQueue
  <2> QED BY <1>0, <2>1
<1>6. CASE StopCallers
  <2>1. Same
    BY <1>6 DEF ObjectInv, OwnerInv, StopCallers
  <2> QED BY <1>0, <2>1
<1>7. ASSUME NEW t \in Threads, Enqueue(t), ~EnqueuePush(t) PROVE Same
  BY <1>7, Zenon DEF Enqueue, EnqueueBegin, EnqueueGiveUp, EnqueueNotify
<1>8. CASE LoopTest \/ StartTask \/ EndTask \/ WaitEnter \/ WaitSleep \/ Join \/ UNCHANGED vars
  <2>1. Same
    BY <1>8 DEF LoopTest, StartTask, EndTask, WaitEnter, WaitSleep, Join
  <2> QED BY <1>0, <2>1
<1> QED BY <1>0, <1>1, <1>2, <1>3, <1>4, <1>5, <1>6, <1>7, <1>8 DEF Next, EventLoop, Destructor, Gone

\* A ThreadedObject runs its tasks one at a time in the order enqueue_() accepted them,
\* and none once the derived class's destructor has waited for them.
THEOREM ObjectImplementsSerialQueue == Spec => ImplementsSerialQueue
<1>1. Init => Serial!Init
  BY DEF Init, Serial!Init
<1>2. ObjectInv /\ [Next]_vars => [Serial!Next]_(Serial!vars)
  BY StepRefines
<1> QED BY <1>1, <1>2, ObjectInvariant, PTL DEF Spec, ImplementsSerialQueue, Serial!Spec
-------------------------------------------------------------------------------
(* Ulog: the output half of ulog.c, for any number of threads and lines *)

\* The threads between lock() and unlock()
Within == {t \in LogThreads : Inside(t)}

Events == [level : Levels, sec : Seconds \cup {NULL}, time : Blocks \cup {NULL, tm_buf},
           time_is_borrowed : BOOLEAN]
Places == {"idle", "lock", "stdout", "write", "unlock"}

\* The types of the output half's state.
UlogTypeOK ==
    /\ lock_function \in BOOLEAN /\ held \in Nat
    /\ lpc \in [LogThreads -> Places] /\ ev \in [LogThreads -> Events]

\* Whose the time of each line is: the consumer's is the static one and borrowed, from the start;
\* another thread's is a block that it allocates, with the time of its line, before it writes.
TimesHeld ==
    /\ lpc[consumer] \in {"lock", "stdout", "write"} =>
           ev[consumer].time = tm_buf /\ ev[consumer].time_is_borrowed /\ static_tm = ev[consumer].sec
    /\ \A t \in Loggers :
           /\ lpc[t] \in {"lock", "stdout"} => ev[t].time = NULL /\ ~ev[t].time_is_borrowed
           /\ lpc[t] = "write" => /\ ev[t].time \in Blocks /\ ~ev[t].time_is_borrowed
                                  /\ heap[ev[t].time] = ev[t].sec

LineIInv == UlogTypeOK /\ TimesHeld /\ LineInv

\* The threads are finitely many, and the blocks are neither NULL nor the static one.
LEMMA LogThreadsFinite ==
    /\ IsFiniteSet(LogThreads) /\ IsFiniteSet(Within) /\ Cardinality(Within) \in Nat
    /\ consumer \in LogThreads /\ Loggers \subseteq LogThreads
    /\ \A b \in Blocks : b # NULL /\ b # tm_buf
<1>1. IsFiniteSet(LogThreads)
  BY UlogAssumption, FS_AddElement DEF LogThreads
<1>2. Within \in SUBSET LogThreads
  BY DEF Within
<1>3. IsFiniteSet(Within)
  BY <1>1, <1>2, FS_Subset
<1>4. Cardinality(Loggers) \in Nat /\ Cardinality(Within) \in Nat
  BY <1>3, UlogAssumption, FS_CardinalityType
<1>5. \A b \in Blocks : b # NULL /\ b # tm_buf
  BY <1>4 DEF Blocks, NULL, tm_buf
<1> QED
  BY <1>1, <1>3, <1>4, <1>5 DEF LogThreads

\* A step of one thread.
LEMMA ThreadMoves ==
    ASSUME UlogTypeOK, NEW t \in LogThreads, NEW from, NEW to \in Places, Goto(t, from, to)
    PROVE  /\ lpc[t] = from /\ lpc' \in [LogThreads -> Places] /\ lpc'[t] = to
           /\ \A u \in LogThreads : u # t => lpc'[u] = lpc[u]
BY DEF UlogTypeOK, Goto

\* The hook as a count of Within.
LEMMA BracketsAre ==
    /\ HookBrackets <=> held = (IF lock_function THEN Cardinality(Within) ELSE 0) /\ held <= 1
    /\ HookBrackets' <=> held' = (IF lock_function' THEN Cardinality(Within') ELSE 0) /\ held' <= 1
BY DEF HookBrackets, Within

\* A step within or outside the brackets keeps them.
LEMMA BracketsKept ==
    ASSUME HookBrackets, UNCHANGED <<held, lock_function>>,
           \A u \in LogThreads : Inside(u)' <=> Inside(u)
    PROVE  HookBrackets'
<1>1. Within' = Within
  BY DEF Within
<1>2. held' = held /\ lock_function' = lock_function
  OBVIOUS
<1> QED
  BY ONLY <1>1, <1>2, HookBrackets, BracketsAre, Zenon

\* A step that is no logger's writing keeps the blocks.
LEMMA TimesKept ==
    ASSUME TimesOwned, heap' = heap, line' = line,
           \A t \in Loggers : /\ lpc'[t] = "write" <=> lpc[t] = "write"
                              /\ lpc[t] = "write" => ev'[t].time = ev[t].time
    PROVE  TimesOwned'
<1>1. {ev'[t].time : t \in {u \in Loggers : lpc'[u] = "write"}}
          = {ev[t].time : t \in {u \in Loggers : lpc[u] = "write"}}
  <2> DEFINE before == {u \in Loggers : lpc[u] = "write"}
             after == {u \in Loggers : lpc'[u] = "write"}
  <2>1. after = before
    OBVIOUS
  <2>2. \A t \in before : ev'[t].time = ev[t].time
    OBVIOUS
  <2> HIDE DEF before, after
  <2>3. {ev'[t].time : t \in before} = {ev[t].time : t \in before}
    BY ONLY <2>2
  <2>4. {ev'[t].time : t \in after} = {ev[t].time : t \in before}
    BY ONLY <2>1, <2>3, Zenon
  <2> QED
    BY ONLY <2>4, Zenon DEF before, after
<1>2. DOMAIN heap' = {ev'[t].time : t \in {u \in Loggers : lpc'[u] = "write"}}
  BY <1>1, Zenon DEF TimesOwned
<1>3. \A t, u \in Loggers : t # u /\ lpc'[t] = "write" /\ lpc'[u] = "write" => ev'[t].time # ev'[u].time
  <2> SUFFICES ASSUME NEW t \in Loggers, NEW u \in Loggers, t # u, lpc'[t] = "write", lpc'[u] = "write"
               PROVE  ev'[t].time # ev'[u].time
    OBVIOUS
  <2>1. lpc[t] = "write" /\ lpc[u] = "write" /\ ev'[t].time = ev[t].time /\ ev'[u].time = ev[u].time
    BY Zenon
  <2>2. ev[t].time # ev[u].time
    BY ONLY <2>1, t \in Loggers, u \in Loggers, t # u, TimesOwned, Zenon DEF TimesOwned
  <2> QED
    BY ONLY <2>1, <2>2, Zenon
<1>4. line'[1] = line'[2]
  BY Zenon DEF TimesOwned
<1> QED
  BY ONLY <1>2, <1>3, <1>4 DEF TimesOwned

\* The initial state.
LEMMA UlogStarts == UlogInit => LineIInv
<1> SUFFICES ASSUME UlogInit PROVE LineIInv
  OBVIOUS
<1>1. UlogTypeOK
  <2>1. NoEvent \in Events
    BY DEF NoEvent, Events, Levels, LOG_TRACE, LOG_FATAL
  <2> QED
    BY <2>1, Zenon DEF UlogInit, UlogTypeOK, Places
<1>2. \A t \in LogThreads : lpc[t] = "idle"
  BY DEF UlogInit
<1>3. TimesHeld
  BY <1>2, LogThreadsFinite DEF TimesHeld
<1>4. HookBrackets
  BY DEF UlogInit, HookBrackets
<1>5. TimesOwned
  <2>1. \A t \in Loggers : lpc[t] # "write"
    BY <1>2, LogThreadsFinite
  <2>2. {u \in Loggers : lpc[u] = "write"} = {}
    BY <2>1
  <2>3. DOMAIN heap = {} /\ line[1] = line[2]
    BY DEF UlogInit
  <2> QED
    BY <2>1, <2>2, <2>3 DEF TimesOwned
<1> QED
  BY <1>1, <1>3, <1>4, <1>5 DEF LineIInv, LineInv

\* The settings, and lines below the level.
LEMMA SettingsKeep ==
    ASSUME LineIInv, UNCHANGED <<held, lpc, ev, heap, static_tm, line>>, lock_function' \in BOOLEAN,
           lock_function' = lock_function \/ \A t \in LogThreads : lpc[t] = "idle"
    PROVE  LineIInv'
<1>1. UlogTypeOK' /\ TimesHeld'
  BY Zenon DEF LineIInv, UlogTypeOK, TimesHeld
<1>2. TimesOwned'
  BY TimesKept, Zenon DEF LineIInv, LineInv
<1>3. HookBrackets'
  <2>1. \A u \in LogThreads : Inside(u)' <=> Inside(u)
    BY Zenon DEF Inside
  <2>2. CASE lock_function' = lock_function
    BY <2>1, <2>2, BracketsKept DEF LineIInv, LineInv
  <2>3. CASE \A t \in LogThreads : lpc[t] = "idle"
    <3>1. Within = {} /\ Within' = {}
      BY <2>3 DEF Within, Inside
    <3>2. Cardinality({}) = 0
      BY FS_EmptySet
    <3>3. held = 0
      BY <3>1, <3>2, BracketsAre DEF LineIInv, LineInv
    <3>4. held' = 0
      BY <3>3
    <3> QED
      BY ONLY <3>1, <3>2, <3>4, BracketsAre
  <2> QED
    BY <2>2, <2>3
<1> QED
  BY <1>1, <1>2, <1>3 DEF LineIInv, LineInv

\* A line is begun, by a logger or by the consumer.
LEMMA LineBegins ==
    ASSUME LineIInv, NEW t \in LogThreads, Goto(t, "idle", "lock"), NEW e \in Events,
           ev' = [ev EXCEPT ![t] = e], UNCHANGED <<lock_function, held, heap, line>>,
           \/ t \in Loggers /\ e.time = NULL /\ ~e.time_is_borrowed /\ static_tm' = static_tm
           \/ t = consumer /\ e.time = tm_buf /\ e.time_is_borrowed /\ static_tm' = e.sec
    PROVE  LineIInv'
<1>1. /\ lpc[t] = "idle" /\ lpc' \in [LogThreads -> Places] /\ lpc'[t] = "lock"
      /\ \A u \in LogThreads : u # t => lpc'[u] = lpc[u]
  BY ThreadMoves DEF LineIInv, Places
<1>2. ev' \in [LogThreads -> Events] /\ ev'[t] = e /\ \A u \in LogThreads : u # t => ev'[u] = ev[u]
  BY DEF LineIInv, UlogTypeOK
<1>3. UlogTypeOK'
  BY <1>1, <1>2, Zenon DEF LineIInv, UlogTypeOK
<1>4. consumer \in LogThreads /\ consumer \notin Loggers /\ \A u \in Loggers : u \in LogThreads
  BY LogThreadsFinite, UlogAssumption
<1>5. TimesHeld'
  <2>1. lpc'[consumer] \in {"lock", "stdout", "write"} =>
           /\ ev'[consumer].time = tm_buf /\ ev'[consumer].time_is_borrowed
           /\ static_tm' = ev'[consumer].sec
    <3>1. CASE t = consumer
      BY <1>2, <1>4, <3>1
    <3>2. CASE t # consumer
      <4>1. static_tm' = static_tm /\ lpc'[consumer] = lpc[consumer] /\ ev'[consumer] = ev[consumer]
        BY <1>1, <1>2, <1>4, <3>2
      <4> QED
        BY ONLY <4>1, LineIInv, Zenon DEF LineIInv, TimesHeld
    <3> QED
      BY <3>1, <3>2
  <2>2. ASSUME NEW u \in Loggers
        PROVE  /\ lpc'[u] \in {"lock", "stdout"} => ev'[u].time = NULL /\ ~ev'[u].time_is_borrowed
               /\ lpc'[u] = "write" => /\ ev'[u].time \in Blocks /\ ~ev'[u].time_is_borrowed
                                       /\ heap'[ev'[u].time] = ev'[u].sec
    <3>1. CASE u = t
      <4>1. e.time = NULL /\ ~e.time_is_borrowed
        BY <1>4, <3>1
      <4> QED
        BY <1>1, <1>2, <3>1, <4>1
    <3>2. CASE u # t
      <4>1. lpc'[u] = lpc[u] /\ ev'[u] = ev[u] /\ heap' = heap
        BY <1>1, <1>2, <1>4, <3>2
      <4> QED
        BY ONLY <4>1, LineIInv, u \in Loggers, Zenon DEF LineIInv, TimesHeld
    <3> QED
      BY <3>1, <3>2
  <2> QED
    BY ONLY <2>1, <2>2 DEF TimesHeld
<1>6. HookBrackets'
  <2>1. \A u \in LogThreads : Inside(u)' <=> Inside(u)
    BY ONLY <1>1 DEF Inside
  <2> QED
    BY <2>1, BracketsKept DEF LineIInv, LineInv
<1>7. TimesOwned'
  <2>1. \A u \in Loggers : /\ lpc'[u] = "write" <=> lpc[u] = "write"
                           /\ lpc[u] = "write" => ev'[u].time = ev[u].time
    BY ONLY <1>1, <1>2, <1>4
  <2> QED
    BY <2>1, TimesKept DEF LineIInv, LineInv
<1> QED
  BY <1>3, <1>5, <1>6, <1>7 DEF LineIInv, LineInv

\* A thread goes on, and nothing else happens to its line or to a block: to the next place it is
\* given, or from writing on without a block of its own.
LEMMA LineGoesOn ==
    ASSUME LineIInv, NEW t \in LogThreads, NEW from, NEW to \in Places, Goto(t, from, to),
           UNCHANGED <<heap, static_tm>>, line'[1] = line'[2], lock_function' = lock_function,
           held' \in Nat, ev' \in [LogThreads -> Events],
           \A u \in LogThreads : (u = t /\ to \in {"idle", "unlock"}) \/ ev'[u] = ev[u],
           \/ from = "lock" /\ to = "stdout"
           \/ from \in {"stdout", "unlock"} /\ to \in {"unlock", "idle"}
           \/ t = consumer /\ from \in {"stdout", "write"} /\ to \in {"write", "unlock"}
    PROVE  UlogTypeOK' /\ TimesHeld' /\ TimesOwned'
<1>1. /\ lpc[t] = from /\ lpc' \in [LogThreads -> Places] /\ lpc'[t] = to
      /\ \A u \in LogThreads : u # t => lpc'[u] = lpc[u]
  BY ThreadMoves DEF LineIInv
<1>2. UlogTypeOK'
  BY <1>1, Zenon DEF LineIInv, UlogTypeOK
<1>3. consumer \in LogThreads /\ consumer \notin Loggers /\ \A u \in Loggers : u \in LogThreads
  BY LogThreadsFinite, UlogAssumption
<1>4. TimesHeld'
  <2>1. ASSUME lpc'[consumer] \in {"lock", "stdout", "write"}
        PROVE  /\ ev'[consumer].time = tm_buf /\ ev'[consumer].time_is_borrowed
               /\ static_tm' = ev'[consumer].sec
    <3>1. lpc[consumer] \in {"lock", "stdout", "write"} /\ ev'[consumer] = ev[consumer]
      BY <1>1, <1>3, <2>1
    <3>2. static_tm' = static_tm
      OBVIOUS
    <3> QED
      BY ONLY <3>1, <3>2, LineIInv, Zenon DEF LineIInv, TimesHeld
  <2>2. ASSUME NEW u \in Loggers
        PROVE  /\ lpc'[u] \in {"lock", "stdout"} => ev'[u].time = NULL /\ ~ev'[u].time_is_borrowed
               /\ lpc'[u] = "write" => /\ ev'[u].time \in Blocks /\ ~ev'[u].time_is_borrowed
                                       /\ heap'[ev'[u].time] = ev'[u].sec
    <3>1. /\ lpc'[u] \in {"lock", "stdout"} => lpc[u] \in {"lock", "stdout"} /\ ev'[u] = ev[u]
          /\ lpc'[u] = "write" => lpc[u] = "write" /\ ev'[u] = ev[u]
      BY <1>1, <1>3
    <3>2. heap' = heap
      OBVIOUS
    <3> QED
      BY ONLY <3>1, <3>2, LineIInv, u \in Loggers, Zenon DEF LineIInv, TimesHeld
  <2> QED
    BY ONLY <2>1, <2>2, Zenon DEF TimesHeld
<1>5. TimesOwned'
  <2>1. \A u \in Loggers : /\ lpc'[u] = "write" <=> lpc[u] = "write"
                           /\ lpc[u] = "write" => ev'[u].time = ev[u].time
    BY <1>1, <1>3
  <2>2. {ev'[u].time : u \in {w \in Loggers : lpc'[w] = "write"}}
          = {ev[u].time : u \in {w \in Loggers : lpc[w] = "write"}}
    BY ONLY <2>1
  <2>3. DOMAIN heap' = {ev'[u].time : u \in {w \in Loggers : lpc'[w] = "write"}}
    BY <2>2, Zenon DEF LineIInv, LineInv, TimesOwned
  <2>4. \A u, w \in Loggers : u # w /\ lpc'[u] = "write" /\ lpc'[w] = "write" => ev'[u].time # ev'[w].time
    BY ONLY <2>1, LineIInv, Zenon DEF LineIInv, LineInv, TimesOwned
  <2> QED
    BY <2>3, <2>4 DEF TimesOwned
<1> QED
  BY <1>2, <1>4, <1>5

\* lock(): with a hook, the thread is the only one within.
LEMMA HookLockKeeps ==
    ASSUME LineIInv, NEW t \in LogThreads, HookLock(t)
    PROVE  LineIInv'
<1>1. /\ Goto(t, "lock", "stdout") /\ (lock_function => held = 0)
      /\ held' = (IF lock_function THEN held + 1 ELSE held)
      /\ UNCHANGED <<lock_function, ev, heap, static_tm, line>>
  BY Zenon DEF HookLock, settings
<1>2. /\ lpc[t] = "lock" /\ lpc'[t] = "stdout" /\ \A u \in LogThreads : u # t => lpc'[u] = lpc[u]
  BY <1>1, ThreadMoves DEF LineIInv, Places
<1>3. held \in Nat /\ held' \in Nat /\ ev' \in [LogThreads -> Events] /\ line'[1] = line'[2]
  BY <1>1, SMTT(20) DEF LineIInv, UlogTypeOK, LineInv, TimesOwned
<1>4. UlogTypeOK' /\ TimesHeld' /\ TimesOwned'
  BY <1>1, <1>3, LineGoesOn DEF Places
<1>5. HookBrackets'
  <2>1. Within' = Within \cup {t} /\ t \notin Within
    BY <1>2 DEF Within, Inside
  <2>2. Cardinality(Within') = Cardinality(Within) + 1
    BY <2>1, LogThreadsFinite, FS_AddElement, Zenon
  <2>3. held = (IF lock_function THEN Cardinality(Within) ELSE 0) /\ held <= 1
    BY BracketsAre DEF LineIInv, LineInv
  <2>4. held' = (IF lock_function' THEN Cardinality(Within') ELSE 0) /\ held' <= 1
    BY ONLY <1>1, <1>3, <2>2, <2>3
  <2> QED
    BY <2>4, BracketsAre
<1> QED
  BY <1>4, <1>5 DEF LineIInv, LineInv

\* unlock(): the thread is no longer within.
LEMMA HookUnlockKeeps ==
    ASSUME LineIInv, NEW t \in LogThreads, HookUnlock(t)
    PROVE  LineIInv'
<1>1. /\ Goto(t, "unlock", "idle") /\ held' = (IF lock_function THEN held - 1 ELSE held)
      /\ ev' = [ev EXCEPT ![t] = NoEvent]
      /\ UNCHANGED <<lock_function, heap, static_tm, line>>
  BY Zenon DEF HookUnlock, settings
<1>2. /\ lpc[t] = "unlock" /\ lpc'[t] = "idle" /\ \A u \in LogThreads : u # t => lpc'[u] = lpc[u]
  BY <1>1, ThreadMoves DEF LineIInv, Places
<1>3. /\ ev' \in [LogThreads -> Events] /\ \A u \in LogThreads : u # t => ev'[u] = ev[u]
      /\ line'[1] = line'[2]
  <2>1. NoEvent \in Events
    BY DEF NoEvent, Events, Levels, LOG_TRACE, LOG_FATAL
  <2> QED
    BY <1>1, <2>1 DEF LineIInv, UlogTypeOK, LineInv, TimesOwned
<1>4. held' \in Nat /\ HookBrackets'
  <2>1. Within' = Within \ {t} /\ t \in Within
    BY <1>2 DEF Within, Inside
  <2>2. Cardinality(Within') = Cardinality(Within) - 1 /\ Cardinality(Within') \in Nat
    BY <2>1, LogThreadsFinite, FS_RemoveElement, FS_CardinalityType
  <2>3. held = (IF lock_function THEN Cardinality(Within) ELSE 0) /\ held <= 1 /\ held \in Nat
    BY BracketsAre DEF LineIInv, LineInv, UlogTypeOK
  <2>4. held' = (IF lock_function' THEN Cardinality(Within') ELSE 0) /\ held' <= 1 /\ held' \in Nat
    BY ONLY <1>1, <2>2, <2>3, LogThreadsFinite
  <2> QED
    BY <2>4, BracketsAre
<1>5. UlogTypeOK' /\ TimesHeld' /\ TimesOwned'
  BY <1>1, <1>3, <1>4, LineGoesOn DEF Places
<1> QED
  BY <1>4, <1>5 DEF LineIInv, LineInv

\* Nothing of the hook changes between lock() and unlock().
LEMMA WithinKept ==
    ASSUME LineIInv, NEW t \in LogThreads, NEW from \in {"stdout", "write"}, NEW to \in {"write", "unlock"},
           Goto(t, from, to), UNCHANGED <<held, lock_function>>
    PROVE  HookBrackets' /\ held' \in Nat
<1>1. /\ lpc[t] = from /\ lpc'[t] = to /\ \A u \in LogThreads : u # t => lpc'[u] = lpc[u]
  BY ThreadMoves DEF LineIInv, Places
<1>2. \A u \in LogThreads : Inside(u)' <=> Inside(u)
  BY <1>1 DEF Inside
<1> QED
  BY <1>2, BracketsKept DEF LineIInv, LineInv, UlogTypeOK

\* log_to_stdout: a logger's line gets a block that nobody has.
LEMMA LogToStdoutKeeps ==
    ASSUME LineIInv, NEW t \in LogThreads, LogToStdout(t)
    PROVE  LineIInv'
<1>1. /\ UNCHANGED <<lock_function, held, static_tm, line>>
      /\ \/ Goto(t, "stdout", "unlock") /\ UNCHANGED <<ev, heap>>
         \/ Goto(t, "stdout", "write") /\ ProcessCallback(t)
  BY Zenon DEF LogToStdout, settings
<1>2. line'[1] = line'[2]
  BY <1>1, Zenon DEF LineIInv, LineInv, TimesOwned
<1>3. consumer \in LogThreads /\ consumer \notin Loggers /\ \A u \in Loggers : u \in LogThreads
  BY LogThreadsFinite, UlogAssumption
<1>4. \A b \in Blocks : b # NULL /\ b # tm_buf
  BY LogThreadsFinite
<1>5. CASE Goto(t, "stdout", "unlock") /\ UNCHANGED <<ev, heap>>
  <2>1. HookBrackets' /\ held' \in Nat
    BY <1>1, <1>5, WithinKept
  <2>2. ev' \in [LogThreads -> Events]
    BY <1>5 DEF LineIInv, UlogTypeOK
  <2>3. UlogTypeOK' /\ TimesHeld' /\ TimesOwned'
    BY <1>1, <1>2, <1>5, <2>1, <2>2, LineGoesOn DEF Places
  <2> QED
    BY <2>1, <2>3 DEF LineIInv, LineInv
<1>6. CASE Goto(t, "stdout", "write") /\ ProcessCallback(t)
  <2>0. HookBrackets' /\ held' \in Nat
    BY <1>1, <1>6, WithinKept
  <2>1. /\ lpc[t] = "stdout" /\ lpc' \in [LogThreads -> Places] /\ lpc'[t] = "write"
        /\ \A u \in LogThreads : u # t => lpc'[u] = lpc[u]
    BY <1>6, ThreadMoves DEF LineIInv, Places
  <2>2. CASE t = consumer
    <3>1. ev[t].time # NULL
      <4>1. lpc[consumer] \in {"lock", "stdout", "write"}
        BY ONLY <2>1, <2>2
      <4>2. ev[t].time = tm_buf
        BY ONLY <2>2, <4>1, LineIInv, Zenon DEF LineIInv, TimesHeld
      <4> QED
        BY ONLY <4>2 DEF tm_buf, NULL
    <3>2. UNCHANGED <<ev, heap>>
      BY <1>6, <3>1, Zenon DEF ProcessCallback
    <3>3. ev' \in [LogThreads -> Events]
      BY <3>2 DEF LineIInv, UlogTypeOK
    <3>4. UlogTypeOK' /\ TimesHeld' /\ TimesOwned'
      BY <1>1, <1>2, <1>6, <2>0, <2>2, <3>2, <3>3, LineGoesOn DEF Places
    <3> QED
      BY <2>0, <3>4 DEF LineIInv, LineInv
  <2>3. CASE t # consumer
    <3>1. t \in Loggers
      BY <2>3 DEF LogThreads
    <3>2. ev[t].time = NULL /\ ~ev[t].time_is_borrowed
      BY ONLY <2>1, <3>1, LineIInv, Zenon DEF LineIInv, TimesHeld
    <3>3. PICK b \in Blocks \ DOMAIN heap, now \in Seconds :
             /\ heap' = [x \in DOMAIN heap \cup {b} |-> IF x = b THEN now ELSE heap[x]]
             /\ ev' = [ev EXCEPT ![t].time = b, ![t].sec = now]
      BY ONLY <1>6, <3>2, Zenon DEF ProcessCallback
    <3>4. /\ ev' \in [LogThreads -> Events] /\ ev'[t].time = b /\ ev'[t].sec = now
          /\ ~ev'[t].time_is_borrowed /\ \A u \in LogThreads : u # t => ev'[u] = ev[u]
      <4> DEFINE e == [ev[t] EXCEPT !.time = b, !.sec = now]
      <4>1. ev \in [LogThreads -> Events]
        BY DEF LineIInv, UlogTypeOK
      <4>2. ev[t] \in Events
        BY <4>1
      <4>3. e \in Events /\ e.time = b /\ e.sec = now /\ e.time_is_borrowed = ev[t].time_is_borrowed
        BY ONLY <4>2, b \in Blocks, now \in Seconds, Zenon DEF Events
      <4>4. ev' = [ev EXCEPT ![t] = e]
        BY ONLY <3>3, Zenon
      <4> HIDE DEF e
      <4>5. ev' \in [LogThreads -> Events] /\ ev'[t] = e /\ \A u \in LogThreads : u # t => ev'[u] = ev[u]
        BY ONLY <4>1, <4>3, <4>4, t \in LogThreads
      <4> QED
        BY ONLY <3>2, <4>3, <4>5, Zenon
    <3>5. /\ DOMAIN heap' = DOMAIN heap \cup {b} /\ heap'[b] = now
          /\ \A x \in DOMAIN heap : heap'[x] = heap[x]
      BY ONLY <3>3
    <3>6. DOMAIN heap = {ev[u].time : u \in {w \in Loggers : lpc[w] = "write"}}
      BY ONLY LineIInv, Zenon DEF LineIInv, LineInv, TimesOwned
    <3>7. \A u \in Loggers : lpc[u] = "write" => ev[u].time \in DOMAIN heap /\ ev[u].time # b
      BY ONLY <3>3, <3>6
    <3>8. UlogTypeOK'
      BY <1>1, <2>0, <2>1, <3>4, Zenon DEF LineIInv, UlogTypeOK
    <3>9. TimesHeld'
      <4>1. /\ lpc'[consumer] = lpc[consumer] /\ ev'[consumer] = ev[consumer] /\ static_tm' = static_tm
        BY <1>1, <1>3, <2>1, <2>3, <3>4
      <4>2. lpc'[consumer] \in {"lock", "stdout", "write"} =>
               /\ ev'[consumer].time = tm_buf /\ ev'[consumer].time_is_borrowed
               /\ static_tm' = ev'[consumer].sec
        BY ONLY <4>1, LineIInv, Zenon DEF LineIInv, TimesHeld
      <4>3. ASSUME NEW u \in Loggers
            PROVE  /\ lpc'[u] \in {"lock", "stdout"} => ev'[u].time = NULL /\ ~ev'[u].time_is_borrowed
                   /\ lpc'[u] = "write" => /\ ev'[u].time \in Blocks /\ ~ev'[u].time_is_borrowed
                                           /\ heap'[ev'[u].time] = ev'[u].sec
        <5>1. CASE u = t
          BY ONLY <2>1, <3>3, <3>4, <3>5, <5>1
        <5>2. CASE u # t
          <6>1. lpc'[u] = lpc[u] /\ ev'[u] = ev[u]
            BY ONLY <1>3, <2>1, <3>4, <5>2, u \in Loggers, Zenon
          <6>2. lpc[u] = "write" => heap'[ev[u].time] = heap[ev[u].time]
            BY ONLY <3>5, <3>7, u \in Loggers, Zenon
          <6> QED
            BY ONLY <6>1, <6>2, LineIInv, u \in Loggers, Zenon DEF LineIInv, TimesHeld
        <5> QED
          BY <5>1, <5>2, Zenon
      <4> QED
        BY ONLY <4>2, <4>3, Zenon DEF TimesHeld
    <3>10. TimesOwned'
      <4>1. \A u \in Loggers : u # t => /\ lpc'[u] = "write" <=> lpc[u] = "write"
                                        /\ ev'[u].time = ev[u].time
        BY ONLY <1>3, <2>1, <3>4, Zenon
      <4>2. DOMAIN heap' = {ev'[u].time : u \in {w \in Loggers : lpc'[w] = "write"}}
        <5>1. ASSUME NEW x \in DOMAIN heap' PROVE \E u \in Loggers : lpc'[u] = "write" /\ x = ev'[u].time
          <6>1. CASE x = b
            BY ONLY <2>1, <3>1, <3>4, <6>1
          <6>2. CASE x # b
            <7>1. PICK u \in Loggers : lpc[u] = "write" /\ x = ev[u].time
              BY ONLY <3>5, <3>6, <5>1, <6>2, Zenon
            <7>2. u # t
              BY ONLY <2>1, <7>1
            <7> QED
              BY ONLY <4>1, <7>1, <7>2, Zenon
          <6> QED
            BY ONLY <6>1, <6>2
        <5>2. ASSUME NEW u \in Loggers, lpc'[u] = "write" PROVE ev'[u].time \in DOMAIN heap'
          <6>1. CASE u = t
            BY ONLY <3>4, <3>5, <6>1
          <6>2. CASE u # t
            BY ONLY <3>5, <3>7, <4>1, <5>2, <6>2, u \in Loggers, Zenon
          <6> QED
            BY ONLY <6>1, <6>2
        <5> QED
          BY ONLY <5>1, <5>2
      <4>3. \A u, w \in Loggers : u # w /\ lpc'[u] = "write" /\ lpc'[w] = "write"
                                     => ev'[u].time # ev'[w].time
        <5>1. \A u, w \in Loggers : u # w /\ lpc[u] = "write" /\ lpc[w] = "write"
                                     => ev[u].time # ev[w].time
          BY ONLY LineIInv, Zenon DEF LineIInv, LineInv, TimesOwned
        <5> SUFFICES ASSUME NEW u \in Loggers, NEW w \in Loggers, u # w, lpc'[u] = "write", lpc'[w] = "write"
                     PROVE  ev'[u].time # ev'[w].time
          BY Zenon
        <5> QED
          BY ONLY <3>4, <3>7, <4>1, <5>1, u \in Loggers, w \in Loggers, u # w, lpc'[u] = "write", lpc'[w] = "write"
      <4> QED
        BY <1>2, <4>2, <4>3 DEF TimesOwned
    <3> QED
      BY <2>0, <3>8, <3>9, <3>10 DEF LineIInv, LineInv
  <2> QED
    BY <2>2, <2>3
<1> QED
  BY <1>1, <1>5, <1>6

\* write_formatted_message: the line shows the time its thread has, and a logger frees its block.
LEMMA WriteKeeps ==
    ASSUME LineIInv, NEW t \in LogThreads, WriteFormattedMessage(t)
    PROVE  LineIInv'
<1>1. /\ Goto(t, "write", "unlock") /\ line' = <<ev[t].sec, TimeOf(ev[t])>>
      /\ heap' = (IF ev[t].time_is_borrowed THEN heap ELSE Without(heap, ev[t].time))
      /\ UNCHANGED <<lock_function, held, ev, static_tm>>
  BY Zenon DEF WriteFormattedMessage, settings
<1>2. /\ lpc[t] = "write" /\ lpc' \in [LogThreads -> Places] /\ lpc'[t] = "unlock"
      /\ \A u \in LogThreads : u # t => lpc'[u] = lpc[u]
  BY <1>1, ThreadMoves DEF LineIInv, Places
<1>3. HookBrackets' /\ held' \in Nat
  BY <1>1, WithinKept
<1>4. ev' \in [LogThreads -> Events] /\ ev' = ev
  BY <1>1 DEF LineIInv, UlogTypeOK
<1>5. consumer \in LogThreads /\ consumer \notin Loggers /\ \A u \in Loggers : u \in LogThreads
  BY LogThreadsFinite, UlogAssumption
<1>6. CASE t = consumer
  <2>1. ev[t].time = tm_buf /\ ev[t].time_is_borrowed /\ static_tm = ev[t].sec
    BY ONLY <1>2, <1>6, LineIInv, Zenon DEF LineIInv, TimesHeld
  <2>2. heap' = heap /\ line'[1] = line'[2]
    BY ONLY <1>1, <2>1, Zenon DEF TimeOf
  <2>3. UlogTypeOK' /\ TimesHeld' /\ TimesOwned'
    BY <1>1, <1>3, <1>4, <1>6, <2>2, LineGoesOn DEF Places
  <2> QED
    BY <1>3, <2>3 DEF LineIInv, LineInv
<1>7. CASE t # consumer
  <2>1. t \in Loggers
    BY <1>7 DEF LogThreads
  <2>2. ev[t].time \in Blocks /\ ~ev[t].time_is_borrowed /\ heap[ev[t].time] = ev[t].sec
    BY ONLY <1>2, <2>1, LineIInv, Zenon DEF LineIInv, TimesHeld
  <2>3. ev[t].time # tm_buf
    BY <2>2, LogThreadsFinite
  <2>4. line'[1] = line'[2]
    BY ONLY <1>1, <2>2, <2>3, Zenon DEF TimeOf
  <2>5. DOMAIN heap' = DOMAIN heap \ {ev[t].time} /\ \A x \in DOMAIN heap' : heap'[x] = heap[x]
    BY ONLY <1>1, <2>2 DEF Without
  <2>6. /\ DOMAIN heap = {ev[u].time : u \in {w \in Loggers : lpc[w] = "write"}}
        /\ \A u, w \in Loggers : u # w /\ lpc[u] = "write" /\ lpc[w] = "write" => ev[u].time # ev[w].time
    BY ONLY LineIInv, Zenon DEF LineIInv, LineInv, TimesOwned
  <2>7. \A u \in Loggers : u # t => (lpc'[u] = lpc[u])
    BY ONLY <1>2, <1>5, Zenon
  <2>8. \A u \in Loggers : u # t /\ lpc[u] = "write" => ev[u].time \in DOMAIN heap'
    BY ONLY <1>2, <2>1, <2>5, <2>6, Zenon
  <2>9. UlogTypeOK'
    BY <1>1, <1>2, <1>3, <1>4, Zenon DEF LineIInv, UlogTypeOK
  <2>10. TimesHeld'
    <3>1. lpc'[consumer] = lpc[consumer] /\ static_tm' = static_tm
      BY ONLY <1>1, <1>2, <1>5, <1>7, Zenon
    <3>2. lpc'[consumer] \in {"lock", "stdout", "write"} =>
             ev[consumer].time = tm_buf /\ ev[consumer].time_is_borrowed /\ static_tm' = ev[consumer].sec
      BY ONLY <3>1, LineIInv, Zenon DEF LineIInv, TimesHeld
    <3>3. ASSUME NEW u \in Loggers
          PROVE  /\ lpc'[u] \in {"lock", "stdout"} => ev[u].time = NULL /\ ~ev[u].time_is_borrowed
                 /\ lpc'[u] = "write" => /\ ev[u].time \in Blocks /\ ~ev[u].time_is_borrowed
                                         /\ heap'[ev[u].time] = ev[u].sec
      <4>1. CASE u = t
        BY ONLY <1>2, <4>1
      <4>2. CASE u # t
        <5>1. lpc'[u] = lpc[u]
          BY ONLY <2>7, <4>2, u \in Loggers, Zenon
        <5>2. lpc[u] = "write" => heap'[ev[u].time] = heap[ev[u].time]
          BY ONLY <2>5, <2>8, <4>2, u \in Loggers, Zenon
        <5> QED
          BY ONLY <5>1, <5>2, LineIInv, u \in Loggers, Zenon DEF LineIInv, TimesHeld
      <4> QED
        BY <4>1, <4>2
    <3> QED
      BY ONLY <1>4, <3>2, <3>3 DEF TimesHeld
  <2>11. TimesOwned'
    <3>1. DOMAIN heap' = {ev[u].time : u \in {w \in Loggers : lpc'[w] = "write"}}
      <4>1. ASSUME NEW x \in DOMAIN heap' PROVE \E u \in Loggers : lpc'[u] = "write" /\ x = ev[u].time
        <5>1. x \in DOMAIN heap /\ x # ev[t].time
          BY ONLY <2>5, <4>1
        <5>2. PICK u \in {w \in Loggers : lpc[w] = "write"} : x = ev[u].time
          BY ONLY <2>6, <5>1, Zenon
        <5>3. u \in Loggers /\ lpc[u] = "write" /\ u # t
          BY ONLY <5>1, <5>2, Zenon
        <5> QED
          BY ONLY <2>7, <5>2, <5>3, Zenon
      <4>2. ASSUME NEW u \in Loggers, lpc'[u] = "write" PROVE ev[u].time \in DOMAIN heap'
        <5>1. u # t
          BY ONLY <1>2, <4>2
        <5> QED
          BY ONLY <2>7, <2>8, <4>2, <5>1, Zenon
      <4> QED
        BY ONLY <4>1, <4>2, Zenon
    <3>2. \A u, w \in Loggers : u # w /\ lpc'[u] = "write" /\ lpc'[w] = "write" => ev[u].time # ev[w].time
      BY ONLY <1>2, <2>6, <2>7
    <3> QED
      BY ONLY <1>4, <2>4, <3>1, <3>2 DEF TimesOwned
  <2> QED
    BY <1>3, <2>9, <2>10, <2>11 DEF LineIInv, LineInv
<1> QED
  BY <1>6, <1>7

\* The output half of ulog.c, for any number of threads and lines, and settings that change at any
\* moment: the lock hook brackets what is written, and is never held twice; every block with the
\* time of a line is freed once, by that line; and every line shows the time taken for it.
THEOREM LinesAreSafe == UlogSpec => []LineInv
<1>1. LineIInv /\ [UlogNext]_lineVars => LineIInv'
  <2> SUFFICES ASSUME LineIInv, [UlogNext]_lineVars PROVE LineIInv'
    OBVIOUS
  <2>0. lock_function \in BOOLEAN
    BY DEF LineIInv, UlogTypeOK
  <2>1. ASSUME NEW l \in Levels, Filtered(l) \/ UlogSetLevel(l) PROVE LineIInv'
    <3>1. UNCHANGED <<held, lpc, ev, heap, static_tm, line, lock_function>>
      BY <2>1, Zenon DEF Filtered, UlogSetLevel, settings
    <3> QED
      BY <2>0, <3>1, SettingsKeep
  <2>2. ASSUME NEW l \in Levels, NEW t \in Loggers, UlogLog(t, l) PROVE LineIInv'
    <3> DEFINE e == [NoEvent EXCEPT !.level = l]
    <3>1. e \in Events /\ e.time = NULL /\ ~e.time_is_borrowed
      BY Zenon DEF NoEvent, Events, LOG_TRACE, LOG_FATAL
    <3>2. /\ Goto(t, "idle", "lock") /\ ev' = [ev EXCEPT ![t] = e]
          /\ UNCHANGED <<lock_function, held, heap, line, static_tm>>
      BY <2>2, Zenon DEF UlogLog, settings
    <3>3. t \in LogThreads
      BY LogThreadsFinite
    <3> HIDE DEF e
    <3> QED
      BY <3>1, <3>2, <3>3, LineBegins, Zenon
  <2>3. ASSUME NEW l \in Levels, NEW s \in Seconds, UlogLogPrerendered(l, s) PROVE LineIInv'
    <3> DEFINE e == [level |-> l, sec |-> s, time |-> tm_buf, time_is_borrowed |-> TRUE]
    <3>1. e \in Events /\ e.time = tm_buf /\ e.time_is_borrowed /\ e.sec = s
      BY DEF Events
    <3>2. /\ Goto(consumer, "idle", "lock") /\ ev' = [ev EXCEPT ![consumer] = e] /\ static_tm' = s
          /\ UNCHANGED <<lock_function, held, heap, line>>
      BY <2>3, Zenon DEF UlogLogPrerendered, settings
    <3>3. consumer \in LogThreads
      BY LogThreadsFinite
    <3> HIDE DEF e
    <3> QED
      BY <3>1, <3>2, <3>3, LineBegins, Zenon
  <2>4. ASSUME NEW t \in LogThreads,
               HookLock(t) \/ LogToStdout(t) \/ WriteFormattedMessage(t) \/ HookUnlock(t)
        PROVE  LineIInv'
    BY <2>4, HookLockKeeps, LogToStdoutKeeps, WriteKeeps, HookUnlockKeeps
  <2>5. ASSUME NEW b \in BOOLEAN, UlogSetQuiet(b) PROVE LineIInv'
    <3>1. UNCHANGED <<held, lpc, ev, heap, static_tm, line, lock_function>>
      BY <2>5, Zenon DEF UlogSetQuiet
    <3> QED
      BY <2>0, <3>1, SettingsKeep
  <2>6. ASSUME NEW b \in BOOLEAN, UlogSetLock(b) PROVE LineIInv'
    <3>1. /\ UNCHANGED <<held, lpc, ev, heap, static_tm, line>> /\ lock_function' = b
          /\ \A t \in LogThreads : lpc[t] = "idle"
      BY <2>6, Zenon DEF UlogSetLock
    <3> QED
      BY <3>1, SettingsKeep
  <2>7. CASE UNCHANGED lineVars
    <3>1. UNCHANGED <<held, lpc, ev, heap, static_tm, line, lock_function>>
      BY <2>7, Zenon DEF lineVars
    <3> QED
      BY <2>0, <3>1, SettingsKeep
  <2> QED
    BY <2>1, <2>2, <2>3, <2>4, <2>5, <2>6, <2>7, Zenon DEF UlogNext
<1>2. LineIInv => LineInv
  BY DEF LineIInv
<1> QED
  BY <1>1, <1>2, UlogStarts, PTL DEF UlogSpec
===============================================================================

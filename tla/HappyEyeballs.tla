--------------------------- MODULE HappyEyeballs --------------------------
(***************************************************************************)
(* src/src/util/TcpConnectionHandler.cpp: how connectImpl_() looks up a     *)
(* host and races connection attempts to its addresses.  Two resolver       *)
(* threads answer and then set their flag; the worker takes each answer     *)
(* out of a future, once, and walks through both lists in turn, watching    *)
(* the attempts in flight.                                                  *)
(*                                                                         *)
(* Index 0 is IPv6 and 1 is IPv4, as in results[] and heads[].  A list is   *)
(* the number of its remaining addresses, 0 being nullptr; sockets are      *)
(* numbered in the order they are opened, 0 being INVALID_SOCKET.           *)
(***************************************************************************)
EXTENDS Integers, FiniteSets

CONSTANTS MaxAddresses,  \* bound: addresses in an answer
          MaxCancels     \* bound: changes of cancelConnect_ by other threads

ASSUME AddressesAssumption == MaxAddresses \in Nat

VARIABLES answer, complete,   \* what a resolver published (-1: nothing yet), and its flag
          gets,               \* how often each future was taken
          results, whichIndex,
          tried,              \* addresses attempted
          sockets, net,       \* sockets opened so far, and how the attempts of open ones stand
          pendingSockets, socket,
          cancelConnect, cancels,
          hpc

dns == <<answer, complete>>
lists == <<gets, results>>
fds == <<sockets, net, pendingSockets, socket>>
cancelling == <<cancelConnect, cancels>>
raceVars == <<dns, lists, whichIndex, tried, fds, cancelling, hpc>>

Index == {0, 1}

RaceInit ==
  /\ answer = [i \in Index |-> -1] /\ complete = [i \in Index |-> FALSE]
  /\ gets = [i \in Index |-> 0] /\ results = [i \in Index |-> 0]
  /\ whichIndex = 0 /\ tried = [i \in Index |-> 0]
  /\ sockets = 0 /\ net = [n \in {} |-> "connecting"] /\ pendingSockets = {} /\ socket = 0
  /\ cancelConnect = FALSE /\ cancels = 0
  /\ hpc = "dns"
--------------------------------------------------------------------------
(* the environment *)

\* A resolver sets its promise, and then its flag.
Resolve(i) ==
  /\ answer[i] = -1
  /\ \E n \in 0..MaxAddresses : answer' = [answer EXCEPT ![i] = n]
  /\ UNCHANGED <<complete, lists, whichIndex, tried, fds, cancelling, hpc>>

SetComplete(i) ==
  /\ answer[i] # -1 /\ ~complete[i]
  /\ complete' = [complete EXCEPT ![i] = TRUE]
  /\ UNCHANGED <<answer, lists, whichIndex, tried, fds, cancelling, hpc>>

\* An attempt in flight connects, is refused or times out.
AttemptEnds(n) ==
  /\ n \in DOMAIN net /\ net[n] = "connecting"
  /\ \E outcome \in {"connected", "failed"} : net' = [net EXCEPT ![n] = outcome]
  /\ UNCHANGED <<dns, lists, whichIndex, tried, sockets, pendingSockets, socket, cancelling, hpc>>

\* disconnect() and connect() of other threads set and clear the flag.
ChangeCancel ==
  /\ cancels < MaxCancels /\ hpc # "done"
  /\ cancelConnect' = ~cancelConnect /\ cancels' = cancels + 1
  /\ UNCHANGED <<dns, lists, whichIndex, tried, fds, hpc>>
--------------------------------------------------------------------------
(* waiting for DNS *)

valid(i) == gets[i] = 0
ready(i) == answer[i] # -1

\* heads[i] = future.get(); results[i] = heads[i], for every i in S
collect(S) ==
  /\ gets' = [i \in Index |-> IF i \in S THEN gets[i] + 1 ELSE gets[i]]
  /\ results' = [i \in Index |-> IF i \in S THEN answer[i] ELSE results[i]]

WaitDns ==
  /\ hpc = "dns" /\ (cancelConnect \/ complete[0] \/ complete[1])
  /\ hpc' = "collect6"
  /\ UNCHANGED <<dns, lists, whichIndex, tried, fds, cancelling>>

Collect6 ==
  /\ hpc = "collect6" /\ hpc' = "collect4"
  /\ collect(IF complete[0] THEN {0} ELSE {})
  /\ UNCHANGED <<dns, whichIndex, tried, fds, cancelling>>

Collect4 ==
  /\ hpc = "collect4" /\ hpc' = "test6"
  /\ collect(IF complete[1] THEN {1} ELSE {})
  /\ UNCHANGED <<dns, whichIndex, tried, fds, cancelling>>

Test6 ==
  /\ hpc = "test6" /\ hpc' = IF complete[0] THEN "need4" ELSE "sleep"
  /\ UNCHANGED <<dns, lists, whichIndex, tried, fds, cancelling>>

\* after the additional 50 ms for IPv6
Sleep ==
  /\ hpc = "sleep" /\ hpc' = "need4"
  /\ collect(IF complete[0] THEN {0} ELSE {})
  /\ UNCHANGED <<dns, whichIndex, tried, fds, cancelling>>

Need4 ==
  /\ hpc = "need4" /\ hpc' = IF valid(1) /\ complete[0] /\ results[0] = 0 THEN "block4" ELSE "choose"
  /\ UNCHANGED <<dns, lists, whichIndex, tried, fds, cancelling>>

Block4 ==
  /\ hpc = "block4" /\ ready(1) /\ hpc' = "choose"
  /\ collect({1})
  /\ UNCHANGED <<dns, whichIndex, tried, fds, cancelling>>

Choose ==
  /\ hpc = "choose" /\ hpc' = "attempt"
  /\ whichIndex' = IF results[0] = 0 /\ results[1] # 0 THEN 1 ELSE 0
  /\ UNCHANGED <<dns, lists, tried, fds, cancelling>>
--------------------------------------------------------------------------
(* the attempts *)

Exhausted == results[0] = 0 /\ results[1] = 0

LeaveLoop ==
  /\ hpc = "attempt" /\ (cancelConnect \/ Exhausted) /\ hpc' = "drain"
  /\ UNCHANGED <<dns, lists, whichIndex, tried, fds, cancelling>>

\* whichIndex moves to a list that is not empty, and its first address is attempted.
attempting ==
  LET i == IF results[whichIndex] = 0 THEN 1 - whichIndex ELSE whichIndex
  IN  /\ hpc = "attempt" /\ ~cancelConnect /\ ~Exhausted
      /\ whichIndex' = i /\ tried' = [tried EXCEPT ![i] = @ + 1]

\* a new socket, pending, whose attempt stands as given
opened(status) ==
  /\ sockets' = sockets + 1
  /\ pendingSockets' = pendingSockets \union {sockets + 1}
  /\ net' = [n \in DOMAIN net \union {sockets + 1} |-> IF n = sockets + 1 THEN status ELSE net[n]]

\* socket(), fcntl() or connect() fails: the socket is closed again.
AttemptFails ==
  /\ attempting /\ hpc' = "next"
  /\ UNCHANGED <<dns, lists, fds, cancelling>>

\* connect() succeeds at once.
AttemptConnects ==
  /\ attempting /\ opened("connected") /\ socket' = sockets + 1 /\ hpc' = "drain"
  /\ UNCHANGED <<dns, lists, cancelling>>

AttemptStarts ==
  /\ attempting /\ opened("connecting") /\ hpc' = "check"
  /\ UNCHANGED <<dns, lists, socket, cancelling>>

connected == {n \in pendingSockets : net[n] = "connected"}
closed(S) == net' = [n \in DOMAIN net \ S |-> net[n]]

\* checkConnections_(): the first socket in the list that has connected is the one (0: none has);
\* failed ones in front of it are closed and removed.  Nothing may have happened in time.
checkConnections ==
  \E first \in connected \union {0} :
    LET failed == {n \in pendingSockets : net[n] = "failed" /\ (first = 0 \/ n < first)}
    IN  /\ (first = 0) = (connected = {}) /\ \A n \in connected : first <= n
        /\ pendingSockets' = pendingSockets \ failed /\ closed(failed)
        /\ socket' = IF first = 0 THEN socket ELSE first
        /\ UNCHANGED sockets

Check ==
  /\ hpc = "check" /\ checkConnections
  /\ hpc' = IF socket' # 0 THEN "drain" ELSE "next"
  /\ UNCHANGED <<dns, lists, whichIndex, tried, cancelling>>

\* The next address, of the other family if it has one; its answer is taken if it is in.
NextAddress ==
  LET other == 1 - whichIndex
      take == valid(other) /\ ready(other)
      left == [results EXCEPT ![whichIndex] = @ - 1, ![other] = IF take THEN answer[other] ELSE @]
  IN  /\ hpc = "next"
      /\ results' = left
      /\ gets' = [gets EXCEPT ![other] = IF take THEN @ + 1 ELSE @]
      /\ whichIndex' = IF left[other] = 0 THEN whichIndex ELSE other
      /\ hpc' = IF left[0] = 0 /\ left[1] = 0 THEN "flags" ELSE "attempt"
      /\ UNCHANGED <<dns, tried, fds, cancelling>>

AllComplete == complete[0] /\ complete[1]

\* No addresses are left: is DNS done?
TestFlags ==
  /\ hpc = "flags" /\ hpc' = IF AllComplete THEN "attempt" ELSE "slow"
  /\ UNCHANGED <<dns, lists, whichIndex, tried, fds, cancelling>>

\* It is not: watch the attempts meanwhile.
SlowDns ==
  /\ hpc = "slow" /\ ~AllComplete /\ ~cancelConnect /\ socket = 0
  /\ IF pendingSockets = {} THEN UNCHANGED fds ELSE checkConnections
  /\ UNCHANGED <<dns, lists, whichIndex, tried, cancelling, hpc>>

SlowDnsEnds ==
  /\ hpc = "slow" /\ (AllComplete \/ cancelConnect \/ socket # 0) /\ hpc' = "slowEnd"
  /\ UNCHANGED <<dns, lists, whichIndex, tried, fds, cancelling>>

\* The answers not taken yet are, IPv6 in front; get() blocks until they are in.
SlowCollect ==
  LET missing == {i \in Index : valid(i)}
  IN  /\ hpc = "slowEnd" /\ socket = 0 /\ ~cancelConnect
      /\ \A i \in missing : ready(i)
      /\ collect(missing) /\ hpc' = "attempt"
      /\ whichIndex' = IF 0 \in missing /\ answer[0] # 0 THEN 0
                       ELSE IF 1 \in missing THEN 1 ELSE whichIndex
      /\ UNCHANGED <<dns, tried, fds, cancelling>>

SlowGiveUp ==
  /\ hpc = "slowEnd" /\ (socket # 0 \/ cancelConnect) /\ hpc' = "drain"
  /\ UNCHANGED <<dns, lists, whichIndex, tried, fds, cancelling>>

\* Keep checking until one connects or all have failed.
DrainAttempts ==
  /\ hpc = "drain" /\ ~cancelConnect /\ pendingSockets # {} /\ socket = 0
  /\ checkConnections
  /\ UNCHANGED <<dns, lists, whichIndex, tried, cancelling, hpc>>

\* Mutant: every pending socket is closed.
CloseAll ==
  /\ hpc = "drain" /\ (cancelConnect \/ pendingSockets = {} \/ socket # 0) /\ hpc' = "tail"
  /\ closed(pendingSockets)
  /\ UNCHANGED <<dns, lists, whichIndex, tried, sockets, pendingSockets, socket, cancelling>>

\* Close every connection still pending but the one that is kept.
CloseOthers ==
  /\ hpc = "drain" /\ (cancelConnect \/ pendingSockets = {} \/ socket # 0) /\ hpc' = "tail"
  /\ closed(pendingSockets \ {socket})
  /\ UNCHANGED <<dns, lists, whichIndex, tried, sockets, pendingSockets, socket, cancelling>>

\* Wait for both resolvers, take what they left and free both lists.
FreeAddresses ==
  /\ hpc = "tail" /\ AllComplete /\ hpc' = "done"
  /\ gets' = [i \in Index |-> IF valid(i) THEN 1 ELSE gets[i]]
  /\ UNCHANGED <<dns, results, whichIndex, tried, fds, cancelling>>
--------------------------------------------------------------------------
Lookup == WaitDns \/ Collect6 \/ Collect4 \/ Test6 \/ Sleep \/ Need4 \/ Block4 \/ Choose

Attempts == \/ LeaveLoop \/ AttemptFails \/ AttemptConnects \/ AttemptStarts \/ Check \/ NextAddress
            \/ TestFlags \/ SlowDns \/ SlowDnsEnds \/ SlowCollect \/ SlowGiveUp
            \/ DrainAttempts \/ CloseOthers \/ FreeAddresses

Resolvers == \E i \in Index : Resolve(i) \/ SetComplete(i)
Network == \E n \in DOMAIN net : AttemptEnds(n)

\* connectImpl_() has returned.
Returned == hpc = "done" /\ UNCHANGED raceVars

RaceNext == Lookup \/ Attempts \/ Resolvers \/ Network \/ ChangeCancel \/ Returned

RaceSpec == RaceInit /\ [][RaceNext]_raceVars

\* The worker runs, getaddrinfo() returns, and the kernel lets no attempt hang for ever.
RaceFairSpec ==
  /\ RaceSpec
  /\ WF_raceVars(Lookup \/ Attempts)
  /\ \A i \in Index : WF_raceVars(Resolve(i) \/ SetComplete(i))
  /\ WF_raceVars(Network)
--------------------------------------------------------------------------
\* Every variable has its type.
RaceTypeOK ==
  /\ answer \in [Index -> Nat \union {-1}] /\ complete \in [Index -> BOOLEAN]
  /\ gets \in [Index -> Nat] /\ results \in [Index -> Nat] /\ tried \in [Index -> Nat]
  /\ whichIndex \in Index /\ sockets \in Nat /\ socket \in 0..sockets
  /\ pendingSockets \subseteq 1..sockets /\ DOMAIN net \subseteq 1..sockets
  /\ \A n \in DOMAIN net : net[n] \in {"connecting", "connected", "failed"}
  /\ cancelConnect \in BOOLEAN /\ cancels \in Nat

\* No socket leaks and none is closed twice or used closed: what is open is what is pending
\* until the losers are closed, and then only the socket that is kept; that one has connected.
SocketInv ==
  /\ RaceTypeOK
  /\ hpc \notin {"tail", "done"} => DOMAIN net = pendingSockets
  /\ hpc \in {"tail", "done"} => DOMAIN net = {socket} \ {0}
  /\ socket # 0 => socket \in DOMAIN net /\ net[socket] = "connected"

\* get() is called once on each future, when it is ready if the worker is not to block, so
\* that it never throws, and both address lists are freed in the end.
GetOnce ==
  /\ \A i \in Index : gets[i] \in {0, 1} /\ (gets[i] = 1 => ready(i)) /\ (complete[i] => ready(i))
  /\ hpc = "done" => gets[0] = 1 /\ gets[1] = 1

\* A failure that nobody asked for comes after every address of the lists taken was tried.
CollectedAddressesTried ==
  hpc \in {"tail", "done"} /\ socket = 0 /\ cancels = 0 => Exhausted

\* connectImpl_(): no socket leaks and none is closed twice or used closed: what is open is what is
\* pending until the losers are closed, and then only the socket that is kept, which has connected.
\* get() is called once on each future, when it is ready if the worker is not to block, and both
\* address lists are freed in the end.  The attempt fails of itself only after every address of
\* the lists it took was tried.
RaceInv == SocketInv /\ GetOnce /\ CollectedAddressesTried

\* A failure that nobody asked for comes after every address of the host was tried.
AllAddressesTried ==
  hpc = "done" /\ socket = 0 /\ cancels = 0 => tried = answer
==========================================================================

------------------------------ MODULE PskReporter ------------------------------
(***************************************************************************)
(* PskReporter: received callsigns are collected in recordList_ and sent as *)
(* one datagram, by a background thread that send() starts (a full list     *)
(* calls it too) and the destructor joins.  reportCommon_ holds             *)
(* recordListMutex_ from building the datagram until the network calls      *)
(* returned; each of these may fail.  A record is its number.               *)
(***************************************************************************)
EXTENDS Integers, Sequences, FiniteSets

CONSTANTS Callers,         \* threads that call addReceiveRecord and send
          Full,            \* records that make a list be sent early (50)
          MaxRecords, MaxPskSends

ASSUME PskAssumption == IsFiniteSet(Callers) /\ Full \in Nat \ {0}

VARIABLES recordList,      \* recordList_
          listOwner,       \* who holds recordListMutex_, or "none"
          sendOwner,       \* who holds sendThreadMutex_, or "none"
          sendThread,      \* "none", "running", "finished" (joinable unless none)
          pc,              \* what each caller is doing
          report,          \* where each of "thread" and "dtor" is in reportCommon_
          dtor,            \* the destructor: "alive", "join", "check", "report", "gone"
          datagrams,       \* the datagrams built: sequence number, records, outcome
          added, sends,    \* calls of addReceiveRecord and send so far
          accepted         \* history: records that entered the list, which are numbered
pskVars == <<recordList, listOwner, sendOwner, sendThread, pc, report, dtor,
             datagrams, added, sends, accepted>>

Runners == {"thread", "dtor"}

PskInit ==
    /\ recordList = <<>> /\ listOwner = "none" /\ sendOwner = "none"
    /\ sendThread = "none" /\ pc = [c \in Callers |-> "idle"]
    /\ report = [r \in Runners |-> "off"] /\ dtor = "alive"
    /\ datagrams = <<>> /\ added = 0 /\ sends = 0 /\ accepted = 0

-------------------------------------------------------------------------------
\* addReceiveRecord: the call, then its locked part.
CallAdd(c) ==
    /\ pc[c] = "idle" /\ dtor = "alive" /\ added < MaxRecords
    /\ pc' = [pc EXCEPT ![c] = "adding"] /\ added' = added + 1
    /\ UNCHANGED <<recordList, listOwner, sendOwner, sendThread, report, dtor,
                   datagrams, sends, accepted>>

PushRecord(c) ==
    /\ pc[c] = "adding" /\ listOwner = "none"
    /\ recordList' = Append(recordList, accepted + 1) /\ accepted' = accepted + 1
    /\ pc' = [pc EXCEPT ![c] = IF Len(recordList') >= Full THEN "send" ELSE "idle"]
    /\ UNCHANGED <<listOwner, sendOwner, sendThread, report, dtor, datagrams, added, sends>>

\* send: lock sendThreadMutex_, join the thread before, start the next.
CallSend(c) ==
    /\ pc[c] = "idle" /\ dtor = "alive" /\ sends < MaxPskSends
    /\ pc' = [pc EXCEPT ![c] = "send"] /\ sends' = sends + 1
    /\ UNCHANGED <<recordList, listOwner, sendOwner, sendThread, report, dtor,
                   datagrams, added, accepted>>
LockSend(c) ==
    /\ pc[c] = "send" /\ sendOwner = "none"
    /\ sendOwner' = c /\ pc' = [pc EXCEPT ![c] = "join"]
    /\ UNCHANGED <<recordList, listOwner, sendThread, report, dtor, datagrams, added, sends, accepted>>

StartThread(c) ==
    /\ pc[c] = "join" /\ sendThread # "running"
    /\ sendThread' = "running" /\ report' = [report EXCEPT !["thread"] = "lock"]
    /\ sendOwner' = "none" /\ pc' = [pc EXCEPT ![c] = "idle"]
    /\ UNCHANGED <<recordList, listOwner, dtor, datagrams, added, sends, accepted>>

-------------------------------------------------------------------------------
\* Mutant: the list is not cleared.
BuildDatagramKeeping(r) ==
    /\ report[r] = "lock" /\ listOwner = "none"
    /\ listOwner' = r /\ report' = [report EXCEPT ![r] = "getaddrinfo"]
    /\ datagrams' = Append(datagrams, [seq |-> Len(datagrams), recs |-> recordList,
                                       outcome |-> "pending"])
    /\ UNCHANGED <<recordList, sendOwner, sendThread, pc, dtor, added, sends, accepted>>

\* reportCommon_: under the list's lock the datagram is built, the sequence
\* number taken and the list cleared; then the network calls.
BuildDatagram(r) ==
    /\ report[r] = "lock" /\ listOwner = "none"
    /\ listOwner' = r /\ report' = [report EXCEPT ![r] = "getaddrinfo"]
    /\ datagrams' = Append(datagrams, [seq |-> Len(datagrams), recs |-> recordList,
                                       outcome |-> "pending"])
    /\ recordList' = <<>>
    /\ UNCHANGED <<sendOwner, sendThread, pc, dtor, added, sends, accepted>>

Finish(r, outcome) ==
    /\ datagrams' = [datagrams EXCEPT ![Len(datagrams)].outcome = outcome]
    /\ listOwner' = "none" /\ report' = [report EXCEPT ![r] = "off"]
    /\ sendThread' = IF r = "thread" THEN "finished" ELSE sendThread
    /\ dtor' = IF r = "dtor" THEN "gone" ELSE dtor
NetworkStep(r) ==
    /\ report[r] \in {"getaddrinfo", "socket", "sendto"}
    /\ \/ Finish(r, "failed")
       \/ /\ report[r] = "sendto" /\ Finish(r, "sent")
       \/ /\ report[r] # "sendto"
          /\ report' = [report EXCEPT ![r] =
                            IF report[r] = "getaddrinfo" THEN "socket" ELSE "sendto"]
          /\ UNCHANGED <<listOwner, sendThread, dtor, datagrams>>
    /\ UNCHANGED <<recordList, sendOwner, pc, added, sends, accepted>>

-------------------------------------------------------------------------------
\* The destructor; the owner has stopped calling by then.  It looks at the list
\* without the lock.
DestroyPsk ==
    /\ dtor = "alive" /\ \A c \in Callers : pc[c] = "idle"
    /\ sendOwner = "none" /\ sendOwner' = "dtor" /\ dtor' = "join"
    /\ UNCHANGED <<recordList, listOwner, sendThread, pc, report, datagrams, added, sends, accepted>>
JoinThread ==
    /\ dtor = "join" /\ sendThread # "running"
    /\ sendThread' = "none" /\ sendOwner' = "none" /\ dtor' = "check"
    /\ UNCHANGED <<recordList, listOwner, pc, report, datagrams, added, sends, accepted>>
CheckList ==
    /\ dtor = "check"
    /\ IF recordList = <<>> THEN dtor' = "gone" /\ UNCHANGED report
       ELSE dtor' = "report" /\ report' = [report EXCEPT !["dtor"] = "lock"]
    /\ UNCHANGED <<recordList, listOwner, sendOwner, sendThread, pc, datagrams, added, sends, accepted>>

Reporting(r) == BuildDatagram(r) \/ NetworkStep(r)
CallSteps(c) == PushRecord(c) \/ LockSend(c) \/ StartThread(c)
Destructor == JoinThread \/ CheckList
PskNext ==
    \/ \E c \in Callers : CallAdd(c) \/ CallSend(c) \/ CallSteps(c)
    \/ \E r \in Runners : Reporting(r)
    \/ DestroyPsk \/ Destructor

PskSpec == PskInit /\ [][PskNext]_pskVars

\* Some thread that can go on does, and the network calls return.  That is enough, without
\* fair mutexes, as every call has finitely many steps and nobody has to call again.
PskThread == \/ \E r \in Runners : Reporting(r)
             \/ \E c \in Callers : CallSteps(c)
             \/ Destructor
PskFairness == WF_pskVars(PskThread)

-------------------------------------------------------------------------------
\* The records of the datagrams in turn, and then the list.
Batches ==
    [i \in 1..(Len(datagrams) + 1) |-> IF i \in DOMAIN datagrams THEN datagrams[i].recs ELSE recordList]

\* recordList_ and reportCommon_: every record is in a datagram or still in the list,
NoneLost == \A n \in 1..accepted : \E i \in DOMAIN Batches : \E k \in DOMAIN Batches[i] : Batches[i][k] = n

\* none is in two of them or twice in one, and they are in the order in which they came;
InOrder ==
    \A i, j \in DOMAIN Batches : \A k \in DOMAIN Batches[i], l \in DOMAIN Batches[j] :
        /\ Batches[i][k] \in 1..accepted
        /\ i < j \/ (i = j /\ k < l) => Batches[i][k] < Batches[j][l]

\* the datagrams are numbered without gaps, and only one is on its way at a time.
OneAtATime ==
    \A i \in DOMAIN datagrams :
        /\ datagrams[i].seq = i - 1
        /\ datagrams[i].outcome = "pending" => i = Len(datagrams) /\ listOwner # "none"

\* A destroyed reporter has no thread and has left no record behind, so that the
\* records that were lost are those of a datagram whose sending failed.
GoneEmpty ==
    dtor = "gone" => /\ recordList = <<>> /\ sendThread = "none"
                     /\ \A r \in Runners : report[r] = "off"

\* addReceiveRecord checks the size after its own record only, but a datagram
\* never has more than one record per caller over the limit: whoever finds the
\* list full next waits for the thread that empties it.
DatagramFits ==
    \A i \in DOMAIN datagrams : Len(datagrams[i].recs) <= Full + Cardinality(Callers)

\* PskReporter: every record is in exactly one datagram or still in the list, in order; the
\* datagrams are numbered without gaps and sent one at a time; a destroyed reporter has no thread
\* and has left no record behind; and a datagram never has more than one record per caller
\* over the limit.
EveryRecordOnce == NoneLost /\ InOrder /\ OneAtATime /\ GoneEmpty /\ DatagramFits

\* Neither of the two mutexes blocks a caller for ever: a call returns.
CallsReturn == \A c \in Callers : (pc[c] # "idle") ~> (pc[c] = "idle")

\* Nor do the joins: the destructor returns.
ReporterIsDestroyed == (dtor # "alive") ~> (dtor = "gone")
===============================================================================

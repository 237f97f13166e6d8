------------------------------ MODULE UdpReporter ------------------------------
(***************************************************************************)
(* UdpHandler and UdpReporter: open, send and close are tasks of the        *)
(* handler's worker (a ThreadedObject, here its FIFO queue), and a caller   *)
(* waits for the promise of its task.  The tasks hold plain pointers: to    *)
(* the destination, and to the buffer a caller frees when its call returns. *)
(* An address is a record of what getaddrinfo and the sockets make of it.   *)
(***************************************************************************)
EXTENDS Integers, Sequences, FiniteSets

CONSTANTS UdpThreads,      \* threads that add receive records
          Addresses,       \* [ok, family, multicast]: resolves, v4 or v6, multicast
          MaxReports

VARIABLES destination,     \* where the reports go
          host,            \* host_: the address to bind to, or NoHost
          udpTasks,        \* queue of the worker: [op, thread, buf]
          udpSocket,       \* socket_: [fd, family], fd = 0 when invalid
          groups,          \* multicast groups joined: the fds that did
          openFds, lastFd, \* file descriptors of this process
          receiveThread,   \* joinable: TRUE or FALSE
          live,            \* the buffer each thread has allocated, or 0
          udpPc,           \* per thread: "idle", "waiting", "done"
          given, refused,  \* buffers sendto was called with, in order, and
                           \* those for which it failed
          lastBuf,
          life             \* "new", "opening", "open", "closing", "closed",
                           \* "closingAgain", "gone"
udpVars == <<destination, host, udpTasks, udpSocket, groups, openFds, lastFd, receiveThread,
             live, udpPc, given, refused, lastBuf, life>>

Invalid == [fd |-> 0, family |-> "none"]
NoHost == [ok |-> FALSE, family |-> "none", multicast |-> FALSE]
UdpTask(op, thread, buf) == [op |-> op, thread |-> thread, buf |-> buf]
Nobody == "nobody"

UdpInit ==
    /\ destination \in Addresses /\ host = NoHost /\ udpTasks = <<>> /\ udpSocket = Invalid /\ groups = {}
    /\ openFds = {} /\ lastFd = 0 /\ receiveThread = FALSE /\ live = [t \in UdpThreads |-> 0]
    /\ udpPc = [t \in UdpThreads |-> "idle"] /\ given = <<>> /\ refused = {} /\ lastBuf = 0 /\ life = "new"

-------------------------------------------------------------------------------
\* open: the reporter binds to no host; other users of the handler may bind.
Open ==
    /\ life = "new" /\ life' = "opening"
    /\ host' \in Addresses \cup {NoHost}
    /\ udpTasks' = Append(udpTasks, UdpTask("open", Nobody, 0))
    /\ UNCHANGED <<destination, udpSocket, groups, openFds, lastFd, receiveThread, live,
                   udpPc, given, refused, lastBuf>>

\* socket(): a new descriptor or an error.
NewSocket(family) ==
    \/ /\ udpSocket' = [fd |-> lastFd + 1, family |-> family]
       /\ lastFd' = lastFd + 1 /\ openFds' = openFds \cup {lastFd + 1}
    \/ udpSocket' = Invalid /\ UNCHANGED <<lastFd, openFds>>
\* setsockopt may fail; then the group is not joined.
JoinMulticastGroup(address) ==
    IF address.multicast /\ udpSocket'.fd # 0 /\ address.family = udpSocket'.family
    THEN groups' \in {groups, groups \cup {udpSocket'.fd}} ELSE UNCHANGED groups

\* openImpl_, for an empty host and for a host to bind to.
OpenUnbound ==
    /\ NewSocket(IF destination.ok THEN destination.family ELSE "v4")
    /\ IF destination.ok THEN JoinMulticastGroup(destination) ELSE UNCHANGED groups
    /\ UNCHANGED receiveThread
OpenBound ==
    IF host.ok
    THEN /\ NewSocket(host.family)
         /\ receiveThread' \in IF udpSocket'.fd = 0 THEN {FALSE} ELSE BOOLEAN
         /\ JoinMulticastGroup(host)
    ELSE UNCHANGED <<udpSocket, lastFd, openFds, receiveThread, groups>>
RunOpen ==
    /\ udpTasks # <<>> /\ Head(udpTasks).op = "open"
    /\ IF host = NoHost THEN OpenUnbound ELSE OpenBound
    /\ udpTasks' = Tail(udpTasks) /\ life' = "open"
    /\ UNCHANGED <<destination, host, live, udpPc, given, refused, lastBuf>>

-------------------------------------------------------------------------------
\* addReceiveRecord: the JSON text is allocated, sent by the worker, and freed
\* when the promise is set.  A record that cannot be written as JSON sends nothing.
AddReceiveRecord(t) ==
    /\ life = "open" /\ udpPc[t] = "idle" /\ lastBuf < MaxReports
    /\ lastBuf' = lastBuf + 1 /\ live' = [live EXCEPT ![t] = lastBuf']
    /\ udpTasks' = Append(udpTasks, UdpTask("send", t, lastBuf'))
    /\ udpPc' = [udpPc EXCEPT ![t] = "waiting"]
    /\ UNCHANGED <<destination, host, udpSocket, groups, openFds, lastFd, receiveThread, given, refused, life>>

\* sendImpl_: without an address nothing is sent.  A socket that could not be
\* opened, or of another family, makes sendto fail, and it may fail anyway; the
\* failure is logged, and the report is not tried again.
RunUdpSend ==
    /\ udpTasks # <<>> /\ Head(udpTasks).op = "send"
    /\ IF destination.ok
       THEN /\ given' = Append(given, Head(udpTasks).buf)
            /\ \/ refused' = refused \cup {Head(udpTasks).buf}
               \/ /\ udpSocket.fd # 0 /\ udpSocket.family = destination.family
                  /\ UNCHANGED refused
       ELSE UNCHANGED <<given, refused>>
    /\ udpPc' = [udpPc EXCEPT ![Head(udpTasks).thread] = "done"]
    /\ udpTasks' = Tail(udpTasks)
    /\ UNCHANGED <<destination, host, udpSocket, groups, openFds, lastFd, receiveThread, live,
                   lastBuf, life>>

\* Mutant: the buffer is freed without waiting for the promise.
FreeBufferAtOnce(t) ==
    /\ udpPc[t] # "idle" /\ udpPc' = [udpPc EXCEPT ![t] = "idle"]
    /\ live' = [live EXCEPT ![t] = 0]
    /\ UNCHANGED <<destination, host, udpTasks, udpSocket, groups, openFds, lastFd,
                   receiveThread, given, refused, lastBuf, life>>

FreeBuffer(t) ==
    /\ udpPc[t] = "done" /\ udpPc' = [udpPc EXCEPT ![t] = "idle"]
    /\ live' = [live EXCEPT ![t] = 0]
    /\ UNCHANGED <<destination, host, udpTasks, udpSocket, groups, openFds, lastFd,
                   receiveThread, given, refused, lastBuf, life>>

-------------------------------------------------------------------------------
\* Both destructors close the handler and wait.
Close ==
    /\ \/ life = "open" /\ life' = "closing" /\ \A t \in UdpThreads : udpPc[t] = "idle"
       \/ life = "closed" /\ life' = "closingAgain"
    /\ udpTasks' = Append(udpTasks, UdpTask("close", Nobody, 0))
    /\ UNCHANGED <<destination, host, udpSocket, groups, openFds, lastFd, receiveThread, live,
                   udpPc, given, refused, lastBuf>>
\* closeImpl_.  The receive thread has nothing to do and has ended by itself.
RunClose ==
    /\ udpTasks # <<>> /\ Head(udpTasks).op = "close"
    /\ IF udpSocket.fd # 0
       THEN /\ udpSocket' = Invalid /\ openFds' = openFds \ {udpSocket.fd}
            /\ groups' = groups \ {udpSocket.fd} /\ receiveThread' = FALSE
       ELSE UNCHANGED <<udpSocket, openFds, groups, receiveThread>>
    /\ udpTasks' = Tail(udpTasks)
    /\ life' = IF life = "closing" THEN "closed" ELSE "gone"
    /\ UNCHANGED <<destination, host, lastFd, live, udpPc, given, refused, lastBuf>>

UdpWorker == RunOpen \/ RunUdpSend \/ RunClose
UdpNext ==
    \/ UdpWorker \/ Open \/ Close
    \/ \E t \in UdpThreads : AddReceiveRecord(t) \/ FreeBuffer(t)

UdpSpec == UdpInit /\ [][UdpNext]_udpVars

\* Some thread that can go on does.
UdpThread == UdpWorker \/ \E t \in UdpThreads : FreeBuffer(t)
UdpFairness == WF_udpVars(UdpThread)

-------------------------------------------------------------------------------
\* UdpHandler: what a queued task points to is still allocated when it runs; the
\* only descriptor open is the handler's, and after the destructors there is
\* none, no group and no thread to join (a joinable std::thread would end the
\* program).
UdpHandlerInv ==
    /\ \A i \in DOMAIN udpTasks : 
          udpTasks[i].op = "send" => live[udpTasks[i].thread] = udpTasks[i].buf
    /\ openFds = {udpSocket.fd} \ {0} /\ groups \subseteq openFds
    /\ life = "gone" => openFds = {} /\ ~receiveThread /\ \A t \in UdpThreads : live[t] = 0

\* UdpReporter: if the address resolves, sendto was called for the reports that
\* are no longer queued, once for each and in the order of the calls: what it did
\* not refuse left once and in that order, what it refused is lost and was not
\* tried again, and nothing left that is still queued.  A socket the reporter
\* opened has the family of the address.
ReportsAreSent ==
    destination.ok =>
        /\ \A b \in DOMAIN given : given[b] = b
        /\ \A b \in 1..lastBuf : b > Len(given) <=> \E i \in DOMAIN udpTasks : udpTasks[i].buf = b
        /\ Len(given) <= lastBuf /\ refused \subseteq 1..Len(given)
        /\ host = NoHost /\ udpSocket.fd # 0 => udpSocket.family = destination.family

\* UdpHandler and UdpReporter: what a queued task points to is still allocated when it runs; the
\* only descriptor open is the handler's, and after the destructors there is none, no group and no
\* thread to join; and if the address resolves, sendto was called once for each report that is no
\* longer queued, in the order of the calls, whether or not it refused some of them.
UdpInv == UdpHandlerInv /\ ReportsAreSent

\* Every call and the destructors return.
UdpCallsReturn ==
    /\ \A t \in UdpThreads : (udpPc[t] = "waiting") ~> (udpPc[t] = "idle")
    /\ (life = "closing") ~> (life \in {"closed", "closingAgain", "gone"})
===============================================================================

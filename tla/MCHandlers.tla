---------------------------- MODULE MCHandlers ---------------------------
(***************************************************************************)
(* The objects that act on their own between the calls of the program.  A   *)
(* behaviour is one of the timer server ("timer"), of a TCP connection      *)
(* handler ("tcp"), of the destruction of a client that has one             *)
(* ("teardown"), of the PSK reporter ("psk"), of the UDP reporter ("udp"),  *)
(* of what the FreeDV reporter tells of other stations ("stations"), or of  *)
(* pointers to COM objects ("com").                                         *)
(***************************************************************************)
EXTENDS ThreadedTimer, ComPtr, ClientTeardown, PskReporter, UdpReporter, TLC

CONSTANTS oneShot, repeating

VARIABLES which,
          fns, inbox, destroyed, told, due

stationVars == <<fns, inbox, destroyed, told, due>>
MCVars == <<which, vars, comVars, tvars, pskVars, udpVars, stationVars>>

\* A one-shot and a repeating timer of different intervals
MCInterval == oneShot :> 1 @@ repeating :> 2

\* A client that is destroyed while the peer may have stopped reading.  It may be one that
\* reconnects, but is not about to when the destructor forbids it.
D == INSTANCE ClientTeardown WITH BufferSize <- 1, MaxDisconnects <- 0

\* An address that does not resolve, and one of either family, multicast or not
MCAddresses == [ok : {TRUE}, family : {"v4", "v6"}, multicast : BOOLEAN]
                   \cup {[ok |-> FALSE, family |-> "v4", multicast |-> FALSE]}
---------------------------------------------------------------------------
(* Messages of the server: as the protocol has them, with one field of      *)
(* another type, and bulks, nested and with an event nobody knows.          *)

E == INSTANCE StationEvents WITH ServerMessages <- {}
ServerMessages ==
  LET Names(e) == {E!Parameters(e)[i] : i \in DOMAIN E!Parameters(e)} \ {""}
      Right(e) == [event |-> e, right |-> TRUE,
                   fields |-> [f \in Names(e) |-> IF f = E!Other(e) THEN CHOOSE t \in E!OtherTypes(e) : TRUE
                                                  ELSE "str"]]
      Wrong(e) == {[Right(e) EXCEPT !.fields[f] = t, !.right = f \in {"last_tx", "snr"} /\ (f = "snr" => t # "null")] :
                      f \in Names(e), t \in {"null", "sint", "real"}}
      Bulk(s) == [event |-> "bulk_update", items |-> s]
      Odd == [event |-> "unknown", right |-> FALSE]
      some == {"new_connection", "freq_change", "qsy_request"}
  IN {<<>>} \cup {<<m>> : m \in UNION {{Right(e)} \cup Wrong(e) : e \in E!Events}}
       \cup {<<Right(e), Bulk(<<Right(f), Odd, Bulk(<<Right(g)>>)>>)>> : e, f, g \in some}
S == INSTANCE StationEvents
---------------------------------------------------------------------------
Timer == which = "timer" /\ UNCHANGED <<which, comVars, tvars, pskVars, udpVars, stationVars>>
Com == which = "com" /\ UNCHANGED <<which, vars, tvars, pskVars, udpVars, stationVars>>
Handler(w) == which = w /\ UNCHANGED <<which, vars, comVars, pskVars, udpVars, stationVars>>
Psk == which = "psk" /\ UNCHANGED <<which, vars, comVars, tvars, udpVars, stationVars>>
Udp == which = "udp" /\ UNCHANGED <<which, vars, comVars, tvars, pskVars, stationVars>>
Stations == which = "stations" /\ UNCHANGED <<which, vars, comVars, tvars, pskVars, udpVars>>

MCInit ==
  /\ which \in {"timer", "tcp", "teardown", "psk", "udp", "stations", "com"}
  /\ Init /\ ComInit /\ TeardownInit /\ PskInit
  /\ UdpInit /\ (which # "udp" => ~destination.ok)
  /\ S!StationInit /\ (which # "stations" => inbox = <<>>)

MCNext ==
  \/ Timer /\ Next
  \/ Com /\ ComNext
  \/ Handler("tcp") /\ TcpNext /\ UNCHANGED destroying
  \/ Handler("teardown") /\ D!TeardownNext /\ (D!StopReconnecting => settled')
  \/ Psk /\ PskNext
  \/ Udp /\ UdpNext
  \/ Stations /\ S!StationNext

\* The fairness of each module
Connected(A) == which \in {"tcp", "teardown"} /\ A
MCFairness ==
  /\ WF_vars(which = "timer" /\ Loop) /\ WF_vars(which = "timer" /\ Tick)
  /\ WF_vars(which = "timer" /\ alarm = 0 /\ spc = "waitUntil" /\ WakeUp)
  /\ \A c \in Clients : WF_vars(which = "timer" /\ (Notify(c) \/ StopWait(c) \/ StopReturn(c)))
  /\ WF_handler(Connected(TakeTask)) /\ WF_handler(Connected(Attempt))
  /\ WF_handler(Connected(Joined)) /\ WF_handler(Connected(Deliver \/ DispatchEnds))
  /\ WF_handler(Connected(SendAbandoned)) /\ WF_handler(Connected(TimerFires))
  /\ WF_handler(Connected(ReceiveTop \/ ReceiveNothing \/ ReceiveCheck \/ ReceiveQueue))
  /\ \A u \in Users : WF_handler(Connected(QueueCall(u)))
  /\ WF_handler(which = "teardown" /\ D!RunClear /\ UNCHANGED destroying)
  /\ WF_tvars(which = "teardown" /\ D!Destroy)
  /\ WF_pskVars(which = "psk" /\ PskThread)
  /\ WF_udpVars(which = "udp" /\ UdpThread)

MCSpec == MCInit /\ [][MCNext]_MCVars /\ MCFairness
---------------------------------------------------------------------------
\* The callbacks of FreeDVReporter are told of exactly the messages whose fields have their types,
\* in the order of the server, those of a bulk in the order of the bulk; no callback is given a
\* string that is not there; and once ~FreeDVReporter() has cleared them, none runs any more, not
\* for the rest of a bulk that is being told either.
ToldAsSent == []S!ToldAsSent /\ S!NothingToldAfterDestructor

\* Nobody waits for ever.  A registered timer fires and stop() returns, whatever the callbacks do;
\* a handler that is to reconnect and has no connection makes another attempt; disconnect() and the
\* destructors of a client return although the peer may have stopped reading; the calls of
\* PskReporter and UdpReporter and their destructors return, past mutexes, joins and promises.
HandlersMoveOn ==
  /\ RegisteredTimerFires /\ StopReturns
  /\ AttemptsToReconnect /\ DisconnectReturns /\ D!TeardownReturns
  /\ CallsReturn /\ ReporterIsDestroyed /\ UdpCallsReturn
==========================================================================

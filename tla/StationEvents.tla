----------------------------- MODULE StationEvents ----------------------------
(***************************************************************************)
(* What FreeDVReporter tells its user of other stations: the events of the  *)
(* server, one by one or in bulk, each told to the callback that is set for *)
(* it if the fields of the message have their types.                        *)
(*                                                                         *)
(* A message is a function from its fields to their JSON types; a field it  *)
(* does not have is "null".  A callback gets, for each parameter, the field *)
(* it was read from, or "NULL" where the value read was no string.          *)
(***************************************************************************)
EXTENDS Sequences

CONSTANT ServerMessages     \* the sequences of messages the server may send

VARIABLES fns,              \* the events whose callback is set
          inbox,            \* what is to be fired, the rest of a bulk first
          destroyed,
          told,             \* history: the callbacks that ran
          due               \* history: the ones that had to

stationVars == <<fns, inbox, destroyed, told, due>>

Who == {"sid", "last_update", "callsign", "grid_square"}

Strings(event) ==
    CASE event = "new_connection" -> Who \cup {"version", "connect_time"}
      [] event = "remove_connection" -> Who \cup {"version"}
      [] event = "tx_report" -> Who \cup {"mode"}
      [] event = "rx_report" -> {"sid", "last_update", "callsign", "receiver_callsign",
                                 "receiver_grid_square", "mode"}
      [] event = "freq_change" -> Who
      [] event = "message_update" -> {"sid", "last_update", "message"}
      [] event = "qsy_request" -> {"callsign", "message"}

Events == {"new_connection", "remove_connection", "tx_report", "rx_report", "freq_change",
           "message_update", "qsy_request"}

\* The field of an event that is no string, and the types it may have.
Other(event) ==
    CASE event \in {"new_connection", "remove_connection"} -> "rx_only"
      [] event = "tx_report" -> "transmitting"
      [] event = "rx_report" -> "snr"
      [] event = "freq_change" -> "freq"
      [] event = "qsy_request" -> "frequency"
      [] OTHER -> "none"
OtherTypes(event) ==
    CASE event = "rx_report" -> {"uint", "sint", "real"}
      [] event \in {"freq_change", "qsy_request"} -> {"uint"}
      [] OTHER -> {"bool"}

TypeOf(msg, field) == IF field \in DOMAIN msg.fields THEN msg.fields[field] ELSE "null"

\* The test before the callback.
Tested(msg) ==
    /\ \A f \in Strings(msg.event) : TypeOf(msg, f) = "str"
    /\ Other(msg.event) # "none" => TypeOf(msg, Other(msg.event)) \in OtherTypes(msg.event)

\* The parameters, in the order of the call; "" is an empty string.
Parameters(event) ==
    CASE event = "new_connection" -> <<"sid", "last_update", "callsign", "grid_square",
                                       "version", "rx_only", "connect_time">>
      [] event = "remove_connection" -> <<"sid", "last_update", "callsign", "grid_square",
                                          "version", "rx_only", "">>
      [] event = "tx_report" -> <<"sid", "last_update", "callsign", "grid_square", "mode",
                                  "transmitting", "last_tx">>
      [] event = "rx_report" -> <<"sid", "last_update", "receiver_callsign",
                                  "receiver_grid_square", "callsign", "snr", "mode">>
      [] event = "freq_change" -> <<"sid", "last_update", "callsign", "grid_square", "freq">>
      [] event = "message_update" -> <<"sid", "last_update", "message">>
      [] event = "qsy_request" -> <<"callsign", "frequency", "message">>

\* yyjson_get_str and its like on the field; last_tx is tested on its own.
Read(msg, field) ==
    CASE field = "" -> ""
      [] field = "last_tx" -> IF TypeOf(msg, field) = "str" THEN field ELSE ""
      [] field = Other(msg.event) -> field
      [] OTHER -> IF TypeOf(msg, field) = "str" THEN field ELSE "NULL"

Call(msg) == [event |-> msg.event,
              args |-> [i \in DOMAIN Parameters(msg.event) |->
                            Read(msg, Parameters(msg.event)[i])]]

\* onFreeDVReporter<Event>_, each with objMutex_ held.
Handle(set, msg) == IF msg.event \in set /\ Tested(msg) THEN <<Call(msg)>> ELSE <<>>

\* What is still to be fired once msg was: onFreeDVReporterBulkUpdate_ holds no
\* mutex and fires each of its events in turn, a bulk in a bulk likewise.
LeftAfter(msg, rest) == IF msg.event = "bulk_update" THEN msg.items \o rest ELSE rest

-------------------------------------------------------------------------------
StationInit ==
    /\ fns = {} /\ inbox \in ServerMessages /\ destroyed = FALSE
    /\ told = <<>> /\ due = <<>>

\* setOn...Fn()
SetFn(event) ==
    /\ ~destroyed /\ event \notin fns /\ fns' = fns \cup {event}
    /\ UNCHANGED <<inbox, destroyed, told, due>>

\* Reference: a message has to be told when a callback is set for it and every
\* field the callback gets is of the type it is given as.
Due(msg) == IF msg.event \in fns /\ msg.right THEN <<Call(msg)>> ELSE <<>>

\* fireEvent(): one event of the server, or of a bulk of its.  objMutex_ is given
\* back after each, so that the callbacks may be set or cleared within a bulk.
FireEvent ==
    /\ inbox # <<>> /\ inbox' = LeftAfter(Head(inbox), Tail(inbox))
    /\ told' = told \o Handle(fns, Head(inbox))
    /\ due' = due \o Due(Head(inbox))
    /\ UNCHANGED <<fns, destroyed>>

\* Mutant: one callback is not cleared.
DestroyReporterBut ==
    /\ ~destroyed /\ destroyed' = TRUE /\ fns' = fns \cap {"qsy_request"}
    /\ UNCHANGED <<inbox, told, due>>

\* The destructor clears the callbacks, perhaps between two events of a bulk;
\* events may still be fired until the client is deleted.
DestroyReporter ==
    /\ ~destroyed /\ destroyed' = TRUE /\ fns' = {}
    /\ UNCHANGED <<inbox, told, due>>

StationNext == FireEvent \/ DestroyReporter \/ \E e \in Events : SetFn(e)

-------------------------------------------------------------------------------
\* The callbacks are told of exactly the messages whose fields have their types,
\* in the order of the server, those of a bulk in the order of the bulk; and no
\* callback is given a string that is not there.
ToldAsSent ==
    /\ told = due
    /\ \A i \in DOMAIN told : \A k \in DOMAIN told[i].args : told[i].args[k] # "NULL"

\* Once the destructor has cleared the callbacks, none runs any more, not for the
\* rest of a bulk either.
NothingToldAfterDestructor == [][destroyed => told' = told]_stationVars

===============================================================================

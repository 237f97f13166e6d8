--------------------------------- MODULE Ulog ---------------------------------
(***************************************************************************)
(* The output half of util/logging/ulog.c, as this build configures it      *)
(* (ULOG_HAVE_TIME, ULOG_ASYNC; no colours, topics or extra outputs).  A    *)
(* thread that finds the asynchronous log closed writes its line itself     *)
(* (ulog_log); the consumer writes the ones it renders                      *)
(* (ulog_log_prerendered).  Both share the level, the quiet flag, the lock  *)
(* hook and the stdout callback; the first keeps the broken-down time of    *)
(* its line in a block of its own, the second in a static variable.         *)
(***************************************************************************)
EXTENDS Integers, Sequences, FiniteSets

CONSTANTS Loggers,      \* threads in the synchronous path
          consumer,     \* the thread that calls ulog_log_prerendered
          Seconds,      \* times of day, numbers
          MaxLines      \* bound: calls

ASSUME UlogAssumption == IsFiniteSet(Loggers) /\ consumer \notin Loggers

LOG_TRACE == 0
LOG_FATAL == 1
Levels == LOG_TRACE..LOG_FATAL
LogThreads == Loggers \cup {consumer}

NULL == -1
tm_buf == 0
Blocks == 1..Cardinality(Loggers)          \* what malloc() may return

VARIABLES level, quiet,        \* ulog.level, ulog.quiet
          lock_function,       \* whether a hook is set
          callback_stdout,     \* the level of ulog.callback_stdout, NULL before its first use
          held,                \* how often the hook was called to lock and not to unlock
          lpc, ev,              \* each thread: where it is, and its ulog_Event
          heap,                \* blocks of malloc() in use, and what is in them
          static_tm,           \* the tm_buf of ulog_log_prerendered
          calls, line          \* history: calls so far, the time taken for the last line and the one it shows

settings == <<level, quiet, lock_function>>
NoEvent == [level |-> LOG_TRACE, sec |-> NULL, time |-> NULL, time_is_borrowed |-> FALSE]

lineVars == <<level, quiet, lock_function, callback_stdout, held, lpc, ev, heap, static_tm, calls, line>>

UlogInit ==
    /\ level = LOG_TRACE /\ quiet = FALSE /\ lock_function = FALSE /\ callback_stdout = NULL
    /\ held = 0
    /\ lpc = [t \in LogThreads |-> "idle"] /\ ev = [t \in LogThreads |-> NoEvent]
    /\ heap = <<>> /\ static_tm = NULL
    /\ calls = 0 /\ line = <<NULL, NULL>>

-------------------------------------------------------------------------------
Goto(t, from, to) == lpc[t] = from /\ lpc' = [lpc EXCEPT ![t] = to]
Called == calls < MaxLines /\ calls' = calls + 1

\* A line below the level: both functions return at once.
Filtered(l) ==
    /\ Called /\ l < level
    /\ UNCHANGED <<settings, callback_stdout, held, lpc, ev, heap, static_tm, line>>

\* ulog_log, on a thread for which ulog_async_is_active() is false.
UlogLog(t, l) ==
    /\ Called /\ ~(l < level) /\ Goto(t, "idle", "lock")
    /\ ev' = [ev EXCEPT ![t] = [NoEvent EXCEPT !.level = l]]
    /\ UNCHANGED <<settings, callback_stdout, held, heap, static_tm, line>>

\* ulog_log_prerendered and the head of emit_prerendered_.
UlogLogPrerendered(l, tv_sec) ==
    /\ Called /\ ~(l < level) /\ Goto(consumer, "idle", "lock")
    /\ static_tm' = tv_sec
    /\ ev' = [ev EXCEPT ![consumer] =
                 [level |-> l, sec |-> tv_sec, time |-> tm_buf, time_is_borrowed |-> TRUE]]
    /\ UNCHANGED <<settings, callback_stdout, held, heap, line>>

\* lock(): the hook waits for a mutex.
HookLock(t) ==
    /\ Goto(t, "lock", "stdout")
    /\ lock_function => held = 0
    /\ held' = IF lock_function THEN held + 1 ELSE held
    /\ UNCHANGED <<settings, callback_stdout, ev, heap, static_tm, calls, line>>

\* process_callback up to the call: the event gets a time if it has none.
ProcessCallback(t) ==
    IF ev[t].time # NULL THEN UNCHANGED <<ev, heap>>
    ELSE \E b \in Blocks \ DOMAIN heap, now \in Seconds :
             /\ heap' = [x \in DOMAIN heap \cup {b} |-> IF x = b THEN now ELSE heap[x]]
             /\ ev' = [ev EXCEPT ![t].time = b, ![t].sec = now]

\* log_to_stdout.
LogToStdout(t) ==
    /\ IF quiet THEN Goto(t, "stdout", "unlock") /\ UNCHANGED <<callback_stdout, ev, heap>>
       ELSE /\ callback_stdout' = IF callback_stdout = NULL THEN LOG_TRACE ELSE callback_stdout
            /\ IF ev[t].level >= callback_stdout'
               THEN Goto(t, "stdout", "write") /\ ProcessCallback(t)
               ELSE Goto(t, "stdout", "unlock") /\ UNCHANGED <<ev, heap>>
    /\ UNCHANGED <<settings, held, static_tm, calls, line>>

\* The time a line shows.
TimeOf(e) == IF e.time = tm_buf THEN static_tm ELSE heap[e.time]
Without(h, b) == [x \in DOMAIN h \ {b} |-> h[x]]

\* Mutant: a block is freed only when it is borrowed.
WriteFormattedMessageSwapped(t) ==
    /\ Goto(t, "write", "unlock")
    /\ line' = <<ev[t].sec, TimeOf(ev[t])>>
    /\ heap' = IF ev[t].time_is_borrowed THEN Without(heap, ev[t].time) ELSE heap
    /\ UNCHANGED <<settings, callback_stdout, held, ev, static_tm, calls>>

\* callback_stdout and write_formatted_message.
WriteFormattedMessage(t) ==
    /\ Goto(t, "write", "unlock")
    /\ line' = <<ev[t].sec, TimeOf(ev[t])>>
    /\ heap' = IF ev[t].time_is_borrowed THEN heap ELSE Without(heap, ev[t].time)
    /\ UNCHANGED <<settings, callback_stdout, held, ev, static_tm, calls>>

\* unlock().
HookUnlock(t) ==
    /\ Goto(t, "unlock", "idle")
    /\ held' = IF lock_function THEN held - 1 ELSE held
    /\ ev' = [ev EXCEPT ![t] = NoEvent]
    /\ UNCHANGED <<settings, callback_stdout, heap, static_tm, calls, line>>

-------------------------------------------------------------------------------
(* The settings, from any thread at any moment; but the hook only while no  *)
(* line is being written, as the tests do, which flush the log first.       *)

UlogSetLevel(l) ==
    /\ level' = l
    /\ UNCHANGED <<quiet, lock_function, callback_stdout, held, lpc, ev, heap, static_tm, calls, line>>

UlogSetQuiet(enable) ==
    /\ quiet' = enable
    /\ UNCHANGED <<level, lock_function, callback_stdout, held, lpc, ev, heap, static_tm, calls, line>>

UlogSetLock(function) ==
    /\ \A t \in LogThreads : lpc[t] = "idle"
    /\ lock_function' = function
    /\ UNCHANGED <<level, quiet, callback_stdout, held, lpc, ev, heap, static_tm, calls, line>>

UlogNext ==
    \/ \E l \in Levels :
           \/ Filtered(l)
           \/ \E t \in Loggers : UlogLog(t, l)
           \/ \E s \in Seconds : UlogLogPrerendered(l, s)
           \/ UlogSetLevel(l)
    \/ \E t \in LogThreads : HookLock(t) \/ LogToStdout(t) \/ WriteFormattedMessage(t) \/ HookUnlock(t)
    \/ \E b \in BOOLEAN : UlogSetQuiet(b) \/ UlogSetLock(b)

UlogSpec == UlogInit /\ [][UlogNext]_lineVars

-------------------------------------------------------------------------------
Inside(t) == lpc[t] \in {"stdout", "write", "unlock"}

\* The hook brackets what is written, whatever quiet and the level become meanwhile: with
\* one set, it was locked once for each thread between lock() and unlock(), of which there
\* is at most one; without, it is not held.
HookBrackets ==
    /\ held = IF lock_function THEN Cardinality({t \in LogThreads : Inside(t)}) ELSE 0
    /\ held <= 1

\* A block of the heap is in use exactly while one thread is about to write the line whose
\* time it holds: none leaks, none is freed by another line, the static one never; and every
\* line shows the time that was taken for it, although the consumer reuses its buffer.
TimesOwned ==
    /\ DOMAIN heap = {ev[t].time : t \in {u \in Loggers : lpc[u] = "write"}}
    /\ \A t, u \in Loggers :
           t # u /\ lpc[t] = "write" /\ lpc[u] = "write" => ev[t].time # ev[u].time
    /\ line[1] = line[2]

\* ulog.c: the lock hook brackets what is written, whatever quiet and the level become meanwhile;
\* every block that holds the time of a line is freed once, by that line, the static one of
\* ulog_log_prerendered() never; and every line shows the time that was taken for it.
LineInv == HookBrackets /\ TimesOwned
===============================================================================

--------------------------- MODULE ThreadedTimer -------------------------
(***************************************************************************)
(* src/src/util/ThreadedTimer.cpp: one server thread fires every timer of   *)
(* the process.  Client threads start() and stop() timers, and so do the    *)
(* callbacks, which run on the server thread.                               *)
(*                                                                         *)
(* A critical section of the server's mutex_ is one step.  Times are kept   *)
(* relative to the present: left[t] is nextFireTime_ - now(), and Tick lets *)
(* time pass, also while the server is late.  A timer keeps one interval    *)
(* and one callback: setTimeout(), which SocketIoClient calls on its ping   *)
(* timer before start(), is not an action.                                  *)
(***************************************************************************)
EXTENDS Integers

CONSTANTS Clients,       \* threads other than the server's
          Timers,
          NoTimer,       \* nullptr
          Interval,      \* timeoutMilliseconds_, in ticks
          Repeating,     \* the timers with repeat_
          SelfStarting,  \* the timers whose own callback may start() them
          MaxCalls,      \* bound: calls of start() and stop()
          MaxLate        \* bound: ticks by which the server may be late

ASSUME TimerAssumption == /\ NoTimer \notin Timers /\ NoTimer \notin Clients
                          /\ Repeating \subseteq Timers /\ SelfStarting \subseteq Timers
ASSUME IntervalAssumption == Interval \in [Timers -> Nat \ {0}]
ASSUME BoundAssumption == MaxCalls \in Nat /\ MaxLate \in Nat

VARIABLES timerQueue,    \* the timers registered
          left,          \* ticks until each of them is due, negative if late
          isRunning,
          firingTimer,
          isDestroying,
          spc,           \* where eventLoop_() is
          alarm,         \* ticks until the server's wait_until() returns
          mayCall,       \* the running callback has not called start() or stop() yet
          cpc,           \* where each client is inside start() or stop()
          ctimer,        \* the timer it is stopping
          undisturbed,   \* no other thread has started that timer since
          stopped,       \* history: stop() has returned, and no start() came after it
          calls

server == <<timerQueue, left, isRunning, firingTimer, isDestroying>>
loop == <<spc, alarm, mayCall>>
clients == <<cpc, ctimer, undisturbed>>
vars == <<server, loop, clients, stopped, calls>>

Init ==
  /\ timerQueue = {} /\ left = [t \in Timers |-> 0]
  /\ isRunning = [t \in Timers |-> FALSE]
  /\ firingTimer = NoTimer /\ isDestroying = FALSE
  /\ spc = "loop" /\ alarm = 0 /\ mayCall = FALSE
  /\ cpc = [c \in Clients |-> "idle"] /\ ctimer = [c \in Clients |-> NoTimer]
  /\ undisturbed = [c \in Clients |-> FALSE]
  /\ stopped = [t \in Timers |-> FALSE] /\ calls = 0
--------------------------------------------------------------------------
(* registerTimer() and unregisterTimer(): the parts under mutex_ *)

\* removeLocked_()
removed(t) == timerQueue \ {t}

register(t) ==
  /\ timerQueue' = removed(t) \cup {t}
  /\ left' = [left EXCEPT ![t] = Interval[t]]
  /\ isRunning' = [isRunning EXCEPT ![t] = TRUE]

unregister(t) ==
  /\ timerQueue' = removed(t)
  /\ left' = [left EXCEPT ![t] = 0]
  /\ isRunning' = [isRunning EXCEPT ![t] = FALSE]

\* The effect of a start() from elsewhere on those who rely on a stop().
startSeen(t) ==
  /\ stopped' = [stopped EXCEPT ![t] = FALSE]
  /\ undisturbed' = [c \in Clients |-> undisturbed[c] /\ ctimer[c] # t]

mayBegin == calls < MaxCalls /\ ~isDestroying /\ calls' = calls + 1

\* timerCV_.notify_one()
notified == IF spc \in {"wait", "waitUntil"} THEN "loop" ELSE spc
--------------------------------------------------------------------------
(* clients *)

Start(c, t) ==
  /\ cpc[c] = "idle" /\ mayBegin
  /\ register(t) /\ startSeen(t)
  /\ cpc' = [cpc EXCEPT ![c] = "notify"]
  /\ UNCHANGED <<firingTimer, isDestroying, loop, ctimer>>

\* The end of registerTimer() and of unregisterTimer(), outside the mutex.
Notify(c) ==
  /\ cpc[c] = "notify"
  /\ spc' = notified /\ alarm' = 0
  /\ cpc' = [cpc EXCEPT ![c] = "idle"]
  /\ UNCHANGED <<server, mayCall, ctimer, undisturbed, stopped, calls>>

\* Mutant: stop() does not wait for a running callback.
StopAtOnce(c, t) ==
  /\ cpc[c] = "idle" /\ mayBegin
  /\ unregister(t)
  /\ cpc' = [cpc EXCEPT ![c] = "notify"]
  /\ stopped' = [stopped EXCEPT ![t] = TRUE]
  /\ UNCHANGED <<firingTimer, isDestroying, loop, ctimer, undisturbed>>

\* A running callback of the timer is waited for; otherwise stop() has done its work.
Stop(c, t) ==
  /\ cpc[c] = "idle" /\ mayBegin
  /\ unregister(t)
  /\ \/ /\ firingTimer = t
        /\ cpc' = [cpc EXCEPT ![c] = "stopWait"]
        /\ ctimer' = [ctimer EXCEPT ![c] = t]
        /\ undisturbed' = [undisturbed EXCEPT ![c] = TRUE]
        /\ UNCHANGED stopped
     \/ /\ firingTimer # t
        /\ cpc' = [cpc EXCEPT ![c] = "notify"]
        /\ stopped' = [stopped EXCEPT ![t] = TRUE]
        /\ UNCHANGED <<ctimer, undisturbed>>
  /\ UNCHANGED <<firingTimer, isDestroying, loop>>

\* The predicate of firingDoneCV_ is false again: go back to sleep.
StopWait(c) ==
  /\ cpc[c] = "stopCheck" /\ firingTimer = ctimer[c]
  /\ cpc' = [cpc EXCEPT ![c] = "stopWait"]
  /\ UNCHANGED <<server, loop, ctimer, undisturbed, stopped, calls>>

\* It is true.
StopReturn(c) ==
  /\ cpc[c] = "stopCheck" /\ firingTimer # ctimer[c]
  /\ stopped' = [stopped EXCEPT ![ctimer[c]] = @ \/ undisturbed[c]]
  /\ cpc' = [cpc EXCEPT ![c] = "notify"]
  /\ ctimer' = [ctimer EXCEPT ![c] = NoTimer]
  /\ undisturbed' = [undisturbed EXCEPT ![c] = FALSE]
  /\ UNCHANGED <<server, loop, calls>>
--------------------------------------------------------------------------
(* eventLoop_() *)

earliest == {t \in timerQueue : \A u \in timerQueue : left[t] <= left[u]}

LoopExit ==
  /\ spc = "loop" /\ isDestroying /\ spc' = "exit"
  /\ UNCHANGED <<server, alarm, mayCall, clients, stopped, calls>>

LoopWait ==
  /\ spc = "loop" /\ ~isDestroying /\ timerQueue = {}
  /\ spc' = "wait"
  /\ UNCHANGED <<server, alarm, mayCall, clients, stopped, calls>>

LoopWaitUntil(t) ==
  /\ spc = "loop" /\ ~isDestroying /\ t \in earliest /\ left[t] > 0
  /\ spc' = "waitUntil" /\ alarm' = left[t]
  /\ UNCHANGED <<server, mayCall, clients, stopped, calls>>

\* wait_until() returns in time, or either wait for no reason.
WakeUp ==
  /\ spc \in {"wait", "waitUntil"}
  /\ spc' = "loop" /\ alarm' = 0
  /\ UNCHANGED <<server, mayCall, clients, stopped, calls>>

\* The earliest timer is due: reschedule or retire it, then run its callback.
Fire(t) ==
  /\ spc = "loop" /\ ~isDestroying /\ t \in earliest /\ left[t] <= 0
  /\ IF t \in Repeating
       THEN /\ left' = [left EXCEPT ![t] = @ + Interval[t]]
            /\ UNCHANGED <<timerQueue, isRunning>>
       ELSE unregister(t)
  /\ firingTimer' = t
  /\ spc' = "call" /\ mayCall' = TRUE
  /\ UNCHANGED <<isDestroying, alarm, clients, stopped, calls>>

\* start() called by the running callback; the notify finds the server awake.
CallbackStart(t) ==
  /\ spc = "call" /\ mayCall /\ mayBegin
  /\ t = firingTimer => t \in SelfStarting
  /\ register(t)
  /\ IF t = firingTimer THEN UNCHANGED <<stopped, undisturbed>> ELSE startSeen(t)
  /\ mayCall' = FALSE
  /\ UNCHANGED <<firingTimer, isDestroying, spc, alarm, cpc, ctimer>>

\* stop() called by the running callback: on this thread there is no wait.
CallbackStop(t) ==
  /\ spc = "call" /\ mayCall /\ mayBegin
  /\ unregister(t)
  /\ mayCall' = FALSE
  /\ UNCHANGED <<firingTimer, isDestroying, spc, alarm, clients, stopped>>

\* The callback has returned; firingDoneCV_.notify_all().
CallbackDone ==
  /\ spc = "call"
  /\ firingTimer' = NoTimer
  /\ cpc' = [c \in Clients |-> IF cpc[c] = "stopWait" THEN "stopCheck" ELSE cpc[c]]
  /\ spc' = "loop" /\ mayCall' = FALSE
  /\ UNCHANGED <<timerQueue, left, isRunning, isDestroying, alarm, ctimer, undisturbed, stopped, calls>>
--------------------------------------------------------------------------
\* ~TimerServer: at the end of the process, when no client calls any more.
Shutdown ==
  /\ ~isDestroying /\ \A c \in Clients : cpc[c] = "idle"
  /\ isDestroying' = TRUE
  /\ spc' = notified /\ alarm' = 0
  /\ UNCHANGED <<timerQueue, left, isRunning, firingTimer, mayCall, clients, stopped, calls>>

Gone == spc = "exit" /\ UNCHANGED vars

Tick ==
  /\ \A t \in timerQueue : left[t] > -MaxLate
  /\ left' = [t \in Timers |-> IF t \in timerQueue THEN left[t] - 1 ELSE left[t]]
  /\ alarm' = IF alarm > 0 THEN alarm - 1 ELSE 0
  /\ UNCHANGED <<timerQueue, isRunning, firingTimer, isDestroying, spc, mayCall, clients, stopped, calls>>

Client(c) == (\E t \in Timers : Start(c, t) \/ Stop(c, t)) \/ Notify(c) \/ StopWait(c) \/ StopReturn(c)

Loop == \/ LoopExit \/ LoopWait \/ CallbackDone
        \/ \E t \in Timers : LoopWaitUntil(t) \/ Fire(t)

Callback == \E t \in Timers : CallbackStart(t) \/ CallbackStop(t)

Next == (\E c \in Clients : Client(c)) \/ Loop \/ Callback \/ WakeUp \/ Tick \/ Shutdown \/ Gone

Spec == Init /\ [][Next]_vars

\* The threads run and time passes; callbacks return; wait_until() returns when its time
\* has come.  Nobody has to call start() or stop(), and no wakeup is spurious for ever.
Fairness ==
  /\ WF_vars(Loop) /\ WF_vars(alarm = 0 /\ spc = "waitUntil" /\ WakeUp) /\ WF_vars(Tick)
  /\ \A c \in Clients : WF_vars(Notify(c) \/ StopWait(c) \/ StopReturn(c))

FairSpec == Spec /\ Fairness
--------------------------------------------------------------------------
\* Every variable has its type.
TypeOK ==
  /\ timerQueue \subseteq Timers /\ left \in [Timers -> Int] /\ isRunning \in [Timers -> BOOLEAN]
  /\ firingTimer \in Timers \cup {NoTimer} /\ isDestroying \in BOOLEAN
  /\ spc \in {"loop", "wait", "waitUntil", "call", "exit"} /\ alarm \in Nat /\ mayCall \in BOOLEAN
  /\ cpc \in [Clients -> {"idle", "notify", "stopCheck", "stopWait"}]
  /\ ctimer \in [Clients -> Timers \cup {NoTimer}] /\ undisturbed \in [Clients -> BOOLEAN]
  /\ stopped \in [Timers -> BOOLEAN] /\ calls \in Nat

\* isRunning() answers whether the timer is registered.
RunningInv == \A t \in Timers : isRunning[t] <=> t \in timerQueue

\* firingTimer_ is set exactly while a callback runs, and a client waits only for one that runs.
FiringInv ==
  /\ spc = "call" <=> firingTimer # NoTimer
  /\ \A c \in Clients : /\ cpc[c] \in {"stopCheck", "stopWait"} <=> ctimer[c] # NoTimer
                        /\ cpc[c] = "stopWait" => firingTimer = ctimer[c]
                        /\ undisturbed[c] => ctimer[c] # NoTimer

\* Once stop() has returned, and until the next start(), the timer is not in the queue and
\* its callback does not run: the timer can be destroyed.
safelyStopped(t) ==
  /\ stopped[t] => t \notin timerQueue /\ firingTimer # t
  /\ \A c \in Clients : ctimer[c] = t /\ undisturbed[c] => t \notin timerQueue

StoppedInv == \A t \in Timers \ SelfStarting : safelyStopped(t)

\* A sleeping server is woken no later than the earliest timer is due, and sleeps without
\* a limit only when no timer is registered, unless a client is about to notify it.
AwakeInTime ==
  \/ \E c \in Clients : cpc[c] = "notify"
  \/ /\ spc = "wait" => timerQueue = {}
     /\ spc = "waitUntil" => \A t \in timerQueue : alarm <= left[t] \/ alarm = 0

\* The inductive invariant of the timer server.
TimerInv == TypeOK /\ RunningInv /\ FiringInv /\ StoppedInv /\ AwakeInTime

\* The header's promise of unregisterTimer() for all timers.
StoppedTimerCanBeDestroyed == \A t \in Timers : stopped[t] => t \notin timerQueue /\ firingTimer # t

\* A timer that is registered fires, unless it is stopped: wakeups are not lost.
RegisteredTimerFires == \A t \in Timers : t \in timerQueue ~> firingTimer = t \/ t \notin timerQueue \/ isDestroying

\* stop() returns, unless another thread starts the same timer again meanwhile: the server
\* wakes those who wait for a callback.
StopReturns == \A c \in Clients : cpc[c] = "stopWait" ~> cpc[c] = "idle" \/ ~undisturbed[c]
==========================================================================

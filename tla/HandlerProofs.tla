---------------------------- MODULE HandlerProofs -----------------------------
(*****************************************************************************)
(* ComPtr and ThreadedTimer. That a COM object counts its owners rests on    *)
(* one lemma, which says how the number of holders changes when one variable *)
(* is given another value; an operation writes one variable, or two, one     *)
(* after the other, and the counts follow. The timer server keeps its        *)
(* invariant for every set of clients and timers, every interval and every   *)
(* bound.                                                                    *)
(*****************************************************************************)
EXTENDS ThreadedTimer, ComPtr, FiniteSetTheorems, TLAPS

-------------------------------------------------------------------------------
(* ThreadedTimer *)

USE TimerAssumption, IntervalAssumption DEF server, loop, clients, vars

\* The constructor establishes the invariant.
LEMMA InitInv == Init => TimerInv
<1> SUFFICES ASSUME Init PROVE TimerInv
  OBVIOUS
<1>1. TypeOK
  <2>1. left \in [Timers -> Int] /\ isRunning \in [Timers -> BOOLEAN] /\ stopped \in [Timers -> BOOLEAN]
    BY DEF Init
  <2>2. /\ cpc \in [Clients -> {"idle", "notify", "stopCheck", "stopWait"}]
        /\ ctimer \in [Clients -> Timers \cup {NoTimer}] /\ undisturbed \in [Clients -> BOOLEAN]
    BY DEF Init
  <2> QED BY <2>1, <2>2, Zenon DEF Init, TypeOK
<1>2. RunningInv /\ FiringInv
  BY DEF Init, RunningInv, FiringInv
<1>3. StoppedInv /\ AwakeInTime
  BY DEF Init, StoppedInv, safelyStopped, AwakeInTime
<1> QED BY <1>1, <1>2, <1>3 DEF TimerInv

\* The queue, deadlines and flags keep their types when a timer is registered.
LEMMA RegisterType ==
  ASSUME TypeOK, NEW t \in Timers, register(t)
  PROVE  timerQueue' \subseteq Timers /\ left' \in [Timers -> Int] /\ isRunning' \in [Timers -> BOOLEAN]
BY DEF TypeOK, register, removed

\* And when it is removed.
LEMMA UnregisterType ==
  ASSUME TypeOK, NEW t \in Timers, unregister(t)
  PROVE  timerQueue' \subseteq Timers /\ left' \in [Timers -> Int] /\ isRunning' \in [Timers -> BOOLEAN]
BY DEF TypeOK, unregister, removed

\* The bookkeeping of start() keeps its types.
LEMMA StartSeenType ==
  ASSUME TypeOK, NEW t \in Timers, startSeen(t)
  PROVE  stopped' \in [Timers -> BOOLEAN] /\ undisturbed' \in [Clients -> BOOLEAN]
BY DEF TypeOK, startSeen

\* start() and stop() keep the types.
LEMMA ClientType ==
  ASSUME TypeOK, NEW c \in Clients, Client(c)
  PROVE  TypeOK'
<1>1. ASSUME NEW t \in Timers, Start(c, t) PROVE TypeOK'
  BY <1>1 DEF TypeOK, Start, register, removed, startSeen, mayBegin
<1>2. ASSUME NEW t \in Timers, Stop(c, t) PROVE TypeOK'
  <2>1. calls' \in Nat
    BY <1>2 DEF TypeOK, Stop, mayBegin
  <2>2. unregister(t)
    BY <1>2 DEF Stop
  <2>3. /\ cpc' \in [Clients -> {"idle", "notify", "stopCheck", "stopWait"}]
        /\ ctimer' \in [Clients -> Timers \cup {NoTimer}] /\ undisturbed' \in [Clients -> BOOLEAN]
        /\ stopped' \in [Timers -> BOOLEAN]
    <3>1. CASE firingTimer = t
      BY <1>2, <3>1, Zenon DEF TypeOK, Stop
    <3>2. CASE firingTimer # t
      BY <1>2, <3>2, Zenon DEF TypeOK, Stop
    <3> QED BY <3>1, <3>2
  <2> QED BY <1>2, <2>1, <2>2, <2>3, UnregisterType DEF TypeOK, Stop
<1>3. CASE Notify(c)
  BY <1>3 DEF TypeOK, Notify, notified
<1>4. CASE StopWait(c)
  BY <1>4 DEF TypeOK, StopWait
<1>5. CASE StopReturn(c)
  BY <1>5, Zenon DEF TypeOK, StopReturn
<1> QED BY <1>1, <1>2, <1>3, <1>4, <1>5 DEF Client

\* The server thread, its callbacks and time keep the types.
LEMMA ServerType ==
  ASSUME TypeOK, Loop \/ Callback \/ WakeUp \/ Tick \/ Shutdown
  PROVE  TypeOK'
<1>1. CASE LoopExit \/ LoopWait
  BY <1>1 DEF TypeOK, LoopExit, LoopWait
<1>2. ASSUME NEW t \in Timers, LoopWaitUntil(t) PROVE TypeOK'
  BY <1>2 DEF TypeOK, LoopWaitUntil
<1>3. ASSUME NEW t \in Timers, Fire(t) PROVE TypeOK'
  <2>1. timerQueue' \subseteq Timers /\ left' \in [Timers -> Int] /\ isRunning' \in [Timers -> BOOLEAN]
    <3>1. CASE t \in Repeating
      BY <1>3, <3>1 DEF TypeOK, Fire
    <3>2. CASE t \notin Repeating
      BY <1>3, <3>2, UnregisterType DEF Fire
    <3> QED BY <3>1, <3>2
  <2> QED BY <1>3, <2>1 DEF TypeOK, Fire
<1>4. ASSUME NEW t \in Timers, CallbackStart(t) PROVE TypeOK'
  <2>1. calls' \in Nat
    BY <1>4 DEF TypeOK, CallbackStart, mayBegin
  <2>2. register(t)
    BY <1>4 DEF CallbackStart
  <2>3. stopped' \in [Timers -> BOOLEAN] /\ undisturbed' \in [Clients -> BOOLEAN]
    BY <1>4, StartSeenType DEF TypeOK, CallbackStart
  <2> QED BY <1>4, <2>1, <2>2, <2>3, RegisterType, Zenon DEF TypeOK, CallbackStart
<1>5. ASSUME NEW t \in Timers, CallbackStop(t) PROVE TypeOK'
  <2>1. calls' \in Nat
    BY <1>5 DEF TypeOK, CallbackStop, mayBegin
  <2>2. unregister(t)
    BY <1>5 DEF CallbackStop
  <2> QED BY <1>5, <2>1, <2>2, UnregisterType, Zenon DEF TypeOK, CallbackStop
<1>6. CASE CallbackDone
  BY <1>6, Zenon DEF TypeOK, CallbackDone
<1>7. CASE WakeUp
  BY <1>7 DEF TypeOK, WakeUp
<1>8. CASE Tick
  BY <1>8 DEF TypeOK, Tick
<1>9. CASE Shutdown
  BY <1>9 DEF TypeOK, Shutdown, notified
<1> QED BY <1>1, <1>2, <1>3, <1>4, <1>5, <1>6, <1>7, <1>8, <1>9 DEF Loop, Callback

\* start() and stop() keep the invariant.
LEMMA ClientKeepsInv ==
  ASSUME TimerInv, NEW c \in Clients, Client(c)
  PROVE  TimerInv'
<1>0. TypeOK /\ TypeOK'
  BY ClientType DEF TimerInv
<1>1. ASSUME NEW t \in Timers, Start(c, t) PROVE TimerInv'
  <2>1. RunningInv'
    BY <1>0, <1>1 DEF TimerInv, TypeOK, RunningInv, Start, register, removed
  <2>2. FiringInv'
    BY <1>0, <1>1 DEF TimerInv, TypeOK, FiringInv, Start, startSeen
  <2>3. StoppedInv'
    BY <1>0, <1>1, Zenon DEF TimerInv, TypeOK, StoppedInv, safelyStopped, Start, register, removed, startSeen
  <2>4. AwakeInTime'
    BY <1>0, <1>1 DEF TypeOK, AwakeInTime, Start
  <2> QED BY <1>0, <2>1, <2>2, <2>3, <2>4 DEF TimerInv
<1>2. ASSUME NEW t \in Timers, Stop(c, t) PROVE TimerInv'
  <2>1. RunningInv'
    BY <1>0, <1>2 DEF TimerInv, TypeOK, RunningInv, Stop, unregister, removed
  <2>2. FiringInv'
    BY <1>0, <1>2 DEF TimerInv, TypeOK, FiringInv, Stop
  <2>3. StoppedInv'
    BY <1>0, <1>2 DEF TimerInv, TypeOK, StoppedInv, safelyStopped, Stop, unregister, removed
  <2>4. AwakeInTime'
    BY <1>0, <1>2 DEF TimerInv, TypeOK, AwakeInTime, Stop, unregister, removed
  <2> QED BY <1>0, <2>1, <2>2, <2>3, <2>4 DEF TimerInv
<1>3. CASE Notify(c)
  <2>1. RunningInv' /\ StoppedInv'
    BY <1>3 DEF TimerInv, RunningInv, StoppedInv, safelyStopped, Notify
  <2>2. FiringInv'
    BY <1>0, <1>3 DEF TimerInv, TypeOK, FiringInv, Notify, notified
  <2>3. AwakeInTime'
    BY <1>0, <1>3 DEF TypeOK, AwakeInTime, Notify, notified
  <2> QED BY <1>0, <2>1, <2>2, <2>3 DEF TimerInv
<1>4. CASE StopWait(c)
  BY <1>0, <1>4 DEF TimerInv, TypeOK, RunningInv, FiringInv, StoppedInv, safelyStopped, AwakeInTime, StopWait
<1>5. CASE StopReturn(c)
  <2>0. ctimer[c] \in Timers
    BY <1>0, <1>5 DEF TimerInv, TypeOK, FiringInv, StopReturn
  <2>1. RunningInv' /\ FiringInv'
    BY <1>0, <1>5 DEF TimerInv, TypeOK, RunningInv, FiringInv, StopReturn
  <2>2. StoppedInv'
    BY <1>0, <1>5, <2>0 DEF TimerInv, TypeOK, StoppedInv, safelyStopped, StopReturn
  <2>3. AwakeInTime'
    BY <1>0, <1>5 DEF TypeOK, AwakeInTime, StopReturn
  <2> QED BY <1>0, <2>1, <2>2, <2>3 DEF TimerInv
<1> QED BY <1>1, <1>2, <1>3, <1>4, <1>5 DEF Client

\* The server thread, its callbacks and time keep the invariant.
LEMMA ServerKeepsInv ==
  ASSUME TimerInv, Loop \/ Callback \/ WakeUp \/ Tick \/ Shutdown
  PROVE  TimerInv'
<1>0. TypeOK /\ TypeOK'
  BY ServerType DEF TimerInv
<1>1. CASE LoopExit \/ LoopWait
  BY <1>0, <1>1
  DEF TimerInv, TypeOK, RunningInv, FiringInv, StoppedInv, safelyStopped, AwakeInTime, LoopExit, LoopWait
<1>2. ASSUME NEW t \in Timers, LoopWaitUntil(t) PROVE TimerInv'
  <2>1. RunningInv' /\ FiringInv' /\ StoppedInv'
    BY <1>0, <1>2 DEF TimerInv, TypeOK, RunningInv, FiringInv, StoppedInv, safelyStopped, LoopWaitUntil
  <2>2. AwakeInTime'
    BY <1>0, <1>2 DEF TypeOK, AwakeInTime, LoopWaitUntil, earliest
  <2> QED BY <1>0, <2>1, <2>2 DEF TimerInv
<1>3. ASSUME NEW t \in Timers, Fire(t) PROVE TimerInv'
  <2>0. t \in timerQueue
    BY <1>3 DEF Fire, earliest
  <2>1. RunningInv'
    BY <1>0, <1>3 DEF TimerInv, TypeOK, RunningInv, Fire, unregister, removed
  <2>2. FiringInv'
    BY <1>0, <1>3 DEF TimerInv, TypeOK, FiringInv, Fire
  <2>3. StoppedInv'
    BY <1>0, <1>3, <2>0 DEF TimerInv, TypeOK, StoppedInv, safelyStopped, Fire, unregister, removed
  <2>4. AwakeInTime'
    BY <1>0, <1>3 DEF TimerInv, TypeOK, AwakeInTime, Fire
  <2> QED BY <1>0, <2>1, <2>2, <2>3, <2>4 DEF TimerInv
<1>4. ASSUME NEW t \in Timers, CallbackStart(t) PROVE TimerInv'
  <2>1. RunningInv'
    BY <1>0, <1>4 DEF TimerInv, TypeOK, RunningInv, CallbackStart, register, removed
  <2>2. FiringInv'
    BY <1>0, <1>4 DEF TimerInv, TypeOK, FiringInv, CallbackStart, startSeen
  <2>3. StoppedInv'
    BY <1>0, <1>4
    DEF TimerInv, TypeOK, StoppedInv, safelyStopped, CallbackStart, register, removed, startSeen
  <2>4. AwakeInTime'
    BY <1>0, <1>4 DEF TimerInv, TypeOK, AwakeInTime, CallbackStart
  <2> QED BY <1>0, <2>1, <2>2, <2>3, <2>4 DEF TimerInv
<1>5. ASSUME NEW t \in Timers, CallbackStop(t) PROVE TimerInv'
  <2>1. RunningInv' /\ FiringInv'
    BY <1>0, <1>5 DEF TimerInv, TypeOK, RunningInv, FiringInv, CallbackStop, unregister, removed
  <2>2. StoppedInv' /\ AwakeInTime'
    BY <1>0, <1>5
    DEF TimerInv, TypeOK, StoppedInv, safelyStopped, AwakeInTime, CallbackStop, unregister, removed
  <2> QED BY <1>0, <2>1, <2>2 DEF TimerInv
<1>6. CASE CallbackDone
  <2>1. RunningInv' /\ StoppedInv'
    BY <1>0, <1>6 DEF TimerInv, TypeOK, RunningInv, StoppedInv, safelyStopped, CallbackDone
  <2>2. FiringInv' /\ AwakeInTime'
    BY <1>0, <1>6 DEF TimerInv, TypeOK, FiringInv, AwakeInTime, CallbackDone
  <2> QED BY <1>0, <2>1, <2>2 DEF TimerInv
<1>7. CASE WakeUp
  BY <1>0, <1>7
  DEF TimerInv, TypeOK, RunningInv, FiringInv, StoppedInv, safelyStopped, AwakeInTime, WakeUp
<1>8. CASE Tick
  <2>1. RunningInv' /\ FiringInv' /\ StoppedInv'
    BY <1>8 DEF TimerInv, RunningInv, FiringInv, StoppedInv, safelyStopped, Tick
  <2>2. AwakeInTime'
    BY <1>0, <1>8 DEF TimerInv, TypeOK, AwakeInTime, Tick
  <2> QED BY <1>0, <2>1, <2>2 DEF TimerInv
<1>9. CASE Shutdown
  BY <1>0, <1>9
  DEF TimerInv, TypeOK, RunningInv, FiringInv, StoppedInv, safelyStopped, AwakeInTime, Shutdown, notified
<1> QED BY <1>1, <1>2, <1>3, <1>4, <1>5, <1>6, <1>7, <1>8, <1>9 DEF Loop, Callback

\* Every step, and a stuttering one, keeps the invariant.
LEMMA NextKeepsInv == TimerInv /\ [Next]_vars => TimerInv'
<1> SUFFICES ASSUME TimerInv, [Next]_vars PROVE TimerInv'
  OBVIOUS
<1>1. CASE UNCHANGED vars
  BY <1>1 DEF TimerInv, TypeOK, RunningInv, FiringInv, StoppedInv, safelyStopped, AwakeInTime
<1> QED BY <1>1, ClientKeepsInv, ServerKeepsInv DEF Next, Gone

\* In every state a timer whose stop() has returned is neither in the queue nor firing
\* (unless its own callback may restart it), and the server oversleeps no deadline.
THEOREM TimerInvariant == Spec => []TimerInv
<1>1. Init => TimerInv
  BY InitInv
<1>2. TimerInv /\ [Next]_vars => TimerInv'
  BY NextKeepsInv
<1> QED BY <1>1, <1>2, PTL DEF Spec

\* Where no callback restarts its own timer, as in src/, every timer can be destroyed once
\* stop() has returned.
THEOREM StopMakesDestructionSafe ==
  ASSUME SelfStarting = {}
  PROVE  Spec => []StoppedTimerCanBeDestroyed
<1>1. TimerInv => StoppedTimerCanBeDestroyed
  BY DEF TimerInv, StoppedInv, safelyStopped, StoppedTimerCanBeDestroyed
<1> QED BY <1>1, TimerInvariant, PTL

HIDE DEF server, loop, clients, vars

-------------------------------------------------------------------------------
(* ComPtr: any number of variables, objects and raw references *)

Values == Objects \cup {null}
Count(m, o) == Cardinality(Holders(m, o))
One(x, o) == IF x = o THEN 1 ELSE 0

ComInv == ComTypeOK /\ CountsOwners

\* The holders of an object are a finite set, with as many members as there are.
LEMMA HoldersFinite ==
  ASSUME NEW m \in [Ptrs -> Values], NEW o \in Objects
  PROVE  /\ IsFiniteSet(Holders(m, o)) /\ Count(m, o) \in Nat
         /\ \A p \in Ptrs : m[p] = o => Count(m, o) > 0
  <1>1. IsFiniteSet(Holders(m, o)) /\ Holders(m, o) \subseteq Ptrs
    BY FS_Subset, ComAssumption DEF Holders
  <1>2. Count(m, o) \in Nat
    BY <1>1, FS_CardinalityType DEF Count
  <1>3. ASSUME NEW p \in Ptrs, m[p] = o PROVE Count(m, o) > 0
    <2>1. Holders(m, o) # {}
      BY <1>3 DEF Holders
    <2>2. Count(m, o) # 0
      BY <1>1, <2>1, FS_EmptySet DEF Count
    <2> QED BY <1>2, <2>2
  <1> QED BY <1>1, <1>2, <1>3

\* Giving one variable another value adds it to the holders of the new object and takes it
\* from those of the old one.
LEMMA CountAfter ==
  ASSUME NEW m \in [Ptrs -> Values], NEW f \in [Ptrs -> Values], NEW p \in Ptrs,
         \A x \in Ptrs \ {p} : f[x] = m[x], NEW o \in Objects
  PROVE  Count(f, o) = Count(m, o) + One(f[p], o) - One(m[p], o)
  <1>1. IsFiniteSet(Holders(m, o)) /\ Count(m, o) \in Nat /\ Count(f, o) \in Nat
    BY HoldersFinite
  <1>2. CASE f[p] = o /\ m[p] # o
    <2>1. Holders(f, o) = Holders(m, o) \cup {p} /\ p \notin Holders(m, o)
      BY <1>2 DEF Holders
    <2>2. Count(f, o) = Count(m, o) + 1
      <3>1. Cardinality(Holders(m, o) \cup {p}) = Cardinality(Holders(m, o)) + 1
        BY ONLY <1>1, <2>1, FS_AddElement, Zenon
      <3> QED BY ONLY <2>1, <3>1 DEF Count
    <2> QED BY <1>1, <1>2, <2>2 DEF One
  <1>3. CASE f[p] # o /\ m[p] = o
    <2>1. Holders(f, o) = Holders(m, o) \ {p} /\ p \in Holders(m, o)
      BY <1>3 DEF Holders
    <2>2. Count(f, o) = Count(m, o) - 1
      <3>1. Cardinality(Holders(m, o) \ {p}) = Cardinality(Holders(m, o)) - 1
        BY ONLY <1>1, <2>1, FS_RemoveElement, Zenon
      <3> QED BY ONLY <2>1, <3>1 DEF Count
    <2> QED BY <1>1, <1>3, <2>2 DEF One
  <1>4. CASE (f[p] = o) <=> (m[p] = o)
    <2>1. Holders(f, o) = Holders(m, o)
      BY <1>4 DEF Holders
    <2> QED BY <1>1, <1>4, <2>1 DEF Count, One
  <1> QED BY <1>2, <1>3, <1>4

\* Two variables that exchange their values leave the counts alone.
LEMMA CountExchanged ==
  ASSUME NEW m \in [Ptrs -> Values], NEW f \in [Ptrs -> Values], NEW p \in Ptrs, NEW q \in Ptrs,
         f[p] = m[q], f[q] = m[p], \A x \in Ptrs \ {p, q} : f[x] = m[x],
         NEW o \in Objects
  PROVE  Count(f, o) = Count(m, o)
  <1>2. PICK h \in [Ptrs -> Values] : h = [m EXCEPT ![p] = m[q]]
    BY Zenon
  <1>3. CASE p = q
    <2>1. f = m
      BY <1>3
    <2> QED BY <2>1
  <1>4. CASE p # q
    <2>1. /\ h[p] = m[q] /\ h[q] = m[q] /\ f[q] = m[p]
          /\ \A x \in Ptrs \ {p} : h[x] = m[x]
          /\ \A x \in Ptrs \ {q} : f[x] = h[x]
      BY <1>2, <1>4
    <2>2. Count(h, o) = Count(m, o) + One(h[p], o) - One(m[p], o)
      BY <2>1, CountAfter
    <2>3. Count(f, o) = Count(h, o) + One(f[q], o) - One(h[q], o)
      BY <2>1, CountAfter
    <2>4. Count(m, o) \in Nat
      BY HoldersFinite
    <2> QED BY <2>1, <2>2, <2>3, <2>4 DEF One
  <1> QED BY <1>3, <1>4

-------------------------------------------------------------------------------
\* InternalAddRef and InternalRelease change the count of one object by one; null changes
\* nothing; and the object that is released is gone if its count was one.
LEMMA Counting ==
  ASSUME NEW r \in [Objects -> Int], NEW x \in Values
  PROVE  /\ Plus(r, x) \in [Objects -> Int] /\ Minus(r, x) \in [Objects -> Int]
         /\ Released(r, x) \subseteq Objects
         /\ \A o \in Objects : /\ Plus(r, x)[o] = r[o] + One(x, o)
                               /\ Minus(r, x)[o] = r[o] - One(x, o)
                               /\ o \in Released(r, x) <=> x = o /\ r[o] = 1
  <1>1. Plus(r, x) \in [Objects -> Int] /\ Minus(r, x) \in [Objects -> Int]
    BY DEF Plus, Minus
  <1>2. Released(r, x) \subseteq Objects
    BY DEF Released
  <1>3. ASSUME NEW o \in Objects
        PROVE  /\ Plus(r, x)[o] = r[o] + One(x, o)
               /\ Minus(r, x)[o] = r[o] - One(x, o)
               /\ o \in Released(r, x) <=> x = o /\ r[o] = 1
    BY ComAssumption DEF Plus, Minus, Released, One, Values
  <1> QED BY <1>1, <1>2, <1>3

\* What the three counts of one object have to do with each other.
Balanced(m, r, w, g, o) ==
    /\ r[o] = Count(m, o) + w[o]
    /\ o \in g <=> r[o] = 0

\* A variable is given up: InternalRelease.
LEMMA GivingUp ==
  ASSUME NEW m \in [Ptrs -> Values], NEW r \in [Objects -> Int], NEW w \in [Objects -> Nat],
         NEW g \in SUBSET Objects, NEW p \in Ptrs, NEW o \in Objects, Balanced(m, r, w, g, o)
  PROVE  Balanced([m EXCEPT ![p] = null], Minus(r, m[p]), w, g \cup Released(r, m[p]), o)
  <1>1. m[p] \in Values /\ null \in Values /\ null # o
    BY ComAssumption DEF Values
  <1>2. Count([m EXCEPT ![p] = null], o) = Count(m, o) - One(m[p], o)
    <2>1. PICK f \in [Ptrs -> Values] : f = [m EXCEPT ![p] = null]
      BY <1>1, Zenon
    <2>2. f[p] = null /\ \A x \in Ptrs \ {p} : f[x] = m[x]
      BY <2>1
    <2>3. Count(f, o) = Count(m, o) + One(f[p], o) - One(m[p], o)
      BY <2>2, CountAfter
    <2>4. Count(f, o) = Count(m, o) - One(m[p], o)
      BY <1>1, <2>2, <2>3, HoldersFinite DEF One
    <2> QED BY <2>1, <2>4
  <1>3. Minus(r, m[p])[o] = r[o] - One(m[p], o) /\ (o \in Released(r, m[p]) <=> m[p] = o /\ r[o] = 1)
    BY <1>1, Counting
  <1>4. Count(m, o) \in Nat /\ (m[p] = o => Count(m, o) > 0)
    BY HoldersFinite
  <1> QED BY <1>2, <1>3, <1>4 DEF Balanced, One

\* A variable that holds null is given an object and a reference to it.
LEMMA Getting ==
  ASSUME NEW m \in [Ptrs -> Values], NEW r \in [Objects -> Int], NEW w \in [Objects -> Nat],
         NEW g \in SUBSET Objects, NEW p \in Ptrs, NEW v \in Values, NEW o \in Objects,
         m[p] = null, v \notin g, Balanced(m, r, w, g, o)
  PROVE  Balanced([m EXCEPT ![p] = v], Plus(r, v), w, g, o)
  <1>1. Count([m EXCEPT ![p] = v], o) = Count(m, o) + One(v, o)
    <2>1. PICK f \in [Ptrs -> Values] : f = [m EXCEPT ![p] = v]
      BY Zenon
    <2>2. f[p] = v /\ \A x \in Ptrs \ {p} : f[x] = m[x]
      BY <2>1
    <2>3. Count(f, o) = Count(m, o) + One(f[p], o) - One(m[p], o)
      BY <2>2, CountAfter
    <2>4. Count(f, o) = Count(m, o) + One(v, o)
      BY <2>2, <2>3, HoldersFinite, ComAssumption DEF One
    <2> QED BY <2>1, <2>4
  <1>2. Plus(r, v)[o] = r[o] + One(v, o)
    BY Counting
  <1>3. Count(m, o) \in Nat
    BY HoldersFinite
  <1> QED BY <1>1, <1>2, <1>3 DEF Balanced, One

\* An object somebody holds is not gone.
LEMMA HeldIsThere ==
  ASSUME ComInv, NEW p \in Ptrs
  PROVE  m_ptr[p] \in Values /\ m_ptr[p] \notin gone
  <1>1. m_ptr \in [Ptrs -> Values]
    BY DEF ComInv, ComTypeOK, Values
  <1>2. CASE m_ptr[p] \in Objects
    <2>1. Count(m_ptr, m_ptr[p]) > 0 /\ Count(m_ptr, m_ptr[p]) \in Nat
      BY <1>1, <1>2, HoldersFinite
    <2>2. refs[m_ptr[p]] # 0
      BY <1>2, <2>1 DEF ComInv, CountsOwners, ComTypeOK, Count
    <2> QED BY <1>1, <1>2, <2>2 DEF ComInv, CountsOwners
  <1>3. CASE m_ptr[p] = null
    BY <1>1, <1>3, ComAssumption DEF ComInv, ComTypeOK, Values
  <1> QED BY <1>1, <1>2, <1>3 DEF Values

-------------------------------------------------------------------------------
\* Every operation keeps the counts.
LEMMA ComInductive ==
  ASSUME ComInv, ComNext
  PROVE  ComInv'
  <1> DEFINE Typed(m, r, w, g) == /\ m \in [Ptrs -> Values] /\ r \in [Objects -> Int]
                                  /\ w \in [Objects -> Nat] /\ g \in SUBSET Objects
  <1>1. /\ Typed(m_ptr, refs, raw, gone)
        /\ \A o \in Objects : Balanced(m_ptr, refs, raw, gone, o)
    BY DEF ComInv, ComTypeOK, CountsOwners, Values, Balanced, Count
  <1>2. SUFFICES /\ Typed(m_ptr', refs', raw', gone')
                 /\ \A o \in Objects : Balanced(m_ptr', refs', raw', gone', o)
    BY DEF ComInv, ComTypeOK, CountsOwners, Values, Balanced, Count
  <1>3. null \in Values /\ (\A p \in Ptrs : m_ptr[p] \in Values /\ m_ptr[p] \notin gone)
    BY HeldIsThere DEF Values
  <1>4. ASSUME NEW p \in Ptrs, InternalRelease(p), UNCHANGED raw
        PROVE  /\ Typed(m_ptr', refs', raw', gone')
               /\ \A o \in Objects : Balanced(m_ptr', refs', raw', gone', o)
    <2>1. Typed(m_ptr', refs', raw', gone')
      BY <1>1, <1>3, <1>4, Counting DEF InternalRelease
    <2>2. \A o \in Objects : Balanced(m_ptr', refs', raw', gone', o)
      BY <1>1, <1>4, GivingUp, Zenon DEF InternalRelease
    <2> QED BY <2>1, <2>2
  <1>5. ASSUME NEW p \in Ptrs, NEW v \in Values, v \notin gone, InternalCopy(p, v), UNCHANGED raw
        PROVE  /\ Typed(m_ptr', refs', raw', gone')
               /\ \A o \in Objects : Balanced(m_ptr', refs', raw', gone', o)
    <2>1. CASE m_ptr[p] = v
      BY <1>1, <1>5, <2>1 DEF InternalCopy
    <2>2. CASE m_ptr[p] # v
      <3> DEFINE m == [m_ptr EXCEPT ![p] = null]
                 r == Minus(refs, m_ptr[p])
                 g == gone \cup Released(refs, m_ptr[p])
      <3>1. Typed(m, r, raw, g) /\ m[p] = null /\ v \notin g
        BY <1>1, <1>3, <1>5, <2>2, Counting DEF Released
      <3>2. \A o \in Objects : Balanced(m, r, raw, g, o)
        BY <1>1, GivingUp, Zenon
      <3>3. \A o \in Objects : Balanced([m EXCEPT ![p] = v], Plus(r, v), raw, g, o)
        BY <3>1, <3>2, Getting, Zenon
      <3>4. m_ptr' = [m EXCEPT ![p] = v] /\ refs' = Plus(r, v) /\ gone' = g
        BY <1>1, <1>5, <2>2, Zenon DEF InternalCopy
      <3>5. Typed(m_ptr', refs', raw', gone')
        BY <1>5, <3>1, <3>4, Counting
      <3> HIDE DEF m, r, g
      <3> QED BY <1>5, <3>3, <3>4, <3>5, Zenon
    <2> QED BY <2>1, <2>2
  <1>6. ASSUME NEW p \in Ptrs, NEW q \in Ptrs, UNCHANGED <<refs, raw, gone>>,
               m_ptr' = [m_ptr EXCEPT ![p] = m_ptr[q], ![q] = m_ptr[p]]
        PROVE  /\ Typed(m_ptr', refs', raw', gone')
               /\ \A o \in Objects : Balanced(m_ptr', refs', raw', gone', o)
    <2>1. Typed(m_ptr', refs', raw', gone')
      BY <1>1, <1>3, <1>6
    <2>2. \A o \in Objects : Count(m_ptr', o) = Count(m_ptr, o)
      <3>1. m_ptr \in [Ptrs -> Values]
        BY <1>1
      <3>2. /\ m_ptr' \in [Ptrs -> Values] /\ m_ptr'[p] = m_ptr[q] /\ m_ptr'[q] = m_ptr[p]
            /\ \A x \in Ptrs \ {p, q} : m_ptr'[x] = m_ptr[x]
        BY ONLY <1>6, <3>1
      <3> QED BY ONLY <3>1, <3>2, CountExchanged
    <2> QED BY <1>1, <1>6, <2>1, <2>2, Zenon DEF Balanced
  <1>7. ASSUME NEW p \in Ptrs, NEW q \in Ptrs, MoveAssign(p, q)
        PROVE  /\ Typed(m_ptr', refs', raw', gone')
               /\ \A o \in Objects : Balanced(m_ptr', refs', raw', gone', o)
    <2>1. CASE m_ptr[p] = m_ptr[q]
      BY <1>1, <1>7, <2>1 DEF MoveAssign, InternalMove
    <2>2. CASE m_ptr[p] # m_ptr[q]
      <3>1. PICK m \in [Ptrs -> Values] : m = [m_ptr EXCEPT ![p] = null]
        BY <1>1, <1>3, Zenon
      <3>2. PICK r \in [Objects -> Int] : r = Minus(refs, m_ptr[p])
        BY <1>1, <1>3, Counting
      <3>3. PICK g \in SUBSET Objects : g = gone \cup Released(refs, m_ptr[p])
        BY <1>1, <1>3, Counting, Zenon
      <3>4. \A o \in Objects : Balanced(m, r, raw, g, o)
        BY <1>1, <3>1, <3>2, <3>3, GivingUp, Zenon
      <3>5. /\ m_ptr' = [m EXCEPT ![p] = m[q], ![q] = m[p]]
            /\ refs' = r /\ raw' = raw /\ gone' = g
        BY <1>1, <1>7, <2>2, <3>1, <3>2, <3>3, Zenon DEF MoveAssign, InternalMove
      <3>6. \A o \in Objects : Count(m_ptr', o) = Count(m, o)
        <4>1. /\ m_ptr' \in [Ptrs -> Values] /\ m_ptr'[p] = m[q] /\ m_ptr'[q] = m[p]
              /\ \A x \in Ptrs \ {p, q} : m_ptr'[x] = m[x]
          BY ONLY m \in [Ptrs -> Values], <3>5
        <4> QED BY ONLY m \in [Ptrs -> Values], <4>1, CountExchanged
      <3>7. Typed(m_ptr', refs', raw', gone')
        BY <1>1, <3>5
      <3> QED BY <3>4, <3>5, <3>6, <3>7, Zenon DEF Balanced
    <2> QED BY <2>1, <2>2
  <1>8. ASSUME NEW p \in Ptrs, NEW v \in Values, v \notin gone, m_ptr[p] = null,
               m_ptr' = [m_ptr EXCEPT ![p] = v], refs' = Plus(refs, v), UNCHANGED <<raw, gone>>
        PROVE  /\ Typed(m_ptr', refs', raw', gone')
               /\ \A o \in Objects : Balanced(m_ptr', refs', raw', gone', o)
    <2>1. Typed(m_ptr', refs', raw', gone')
      BY <1>1, <1>8, Counting
    <2>2. \A o \in Objects : Balanced(m_ptr', refs', raw', gone', o)
      BY <1>1, <1>8, Getting, Zenon
    <2> QED BY <2>1, <2>2
  <1>9. ASSUME NEW p \in Ptrs, Detach(p)
        PROVE  /\ Typed(m_ptr', refs', raw', gone')
               /\ \A o \in Objects : Balanced(m_ptr', refs', raw', gone', o)
    <2>1. m_ptr[p] \in Objects /\ raw' = [raw EXCEPT ![m_ptr[p]] = @ + 1]
      BY <1>9 DEF Detach, Plus
    <2>2. Typed(m_ptr', refs', raw', gone')
      BY <1>1, <1>3, <1>9, <2>1 DEF Detach
    <2>3. ASSUME NEW o \in Objects
          PROVE  Balanced(m_ptr', refs', raw', gone', o)
      <3>1. Count(m_ptr', o) = Count(m_ptr, o) - One(m_ptr[p], o)
        <4>1. m_ptr'[p] = null /\ \A x \in Ptrs \ {p} : m_ptr'[x] = m_ptr[x]
          BY <1>1, <1>9 DEF Detach
        <4>2. Count(m_ptr', o) = Count(m_ptr, o) + One(m_ptr'[p], o) - One(m_ptr[p], o)
          BY <1>1, <2>2, <4>1, CountAfter
        <4> QED BY <1>1, <4>1, <4>2, HoldersFinite, ComAssumption DEF One
      <3>2. raw'[o] = raw[o] + One(m_ptr[p], o) /\ refs' = refs /\ gone' = gone
        BY <1>1, <1>9, <2>1 DEF Detach, One
      <3>3. Count(m_ptr, o) \in Nat
        BY <1>1, HoldersFinite
      <3> QED BY <1>1, <3>1, <3>2, <3>3 DEF Balanced, One
    <2> QED BY <2>2, <2>3
  <1>10. ASSUME NEW p \in Ptrs, NEW other \in Objects, Attach(p, other)
         PROVE  /\ Typed(m_ptr', refs', raw', gone')
                /\ \A o \in Objects : Balanced(m_ptr', refs', raw', gone', o)
    <2>1. raw' = [raw EXCEPT ![other] = @ - 1] /\ raw[other] > 0
      BY <1>10 DEF Attach, Minus
    <2>2. Typed(m_ptr', refs', raw', gone')
      BY <1>1, <1>3, <1>10, <2>1, Counting, SMTT(20) DEF Attach, Values
    <2>3. ASSUME NEW o \in Objects
          PROVE  Balanced(m_ptr', refs', raw', gone', o)
      <3>1. m_ptr'[p] = other /\ \A x \in Ptrs \ {p} : m_ptr'[x] = m_ptr[x]
        BY <1>1, <1>10 DEF Attach
      <3>2. Count(m_ptr', o) = Count(m_ptr, o) + One(m_ptr'[p], o) - One(m_ptr[p], o)
        BY <1>1, <2>2, <3>1, CountAfter
      <3>3. raw'[o] = raw[o] - One(other, o)
        BY <1>1, <2>1 DEF One
      <3>4. /\ refs'[o] = refs[o] - One(m_ptr[p], o)
            /\ o \in gone' <=> o \in gone \/ (m_ptr[p] = o /\ refs[o] = 1)
        BY <1>1, <1>3, <1>10, Counting DEF Attach
      <3>5. Count(m_ptr, o) \in Nat /\ m_ptr[p] \notin gone
        BY <1>1, <1>3, HoldersFinite
      <3> QED BY <1>1, <3>1, <3>2, <3>3, <3>4, <3>5 DEF Balanced, One
    <2> QED BY <2>2, <2>3
  <1>11. ASSUME NEW p \in Ptrs, CopyTo(p)
         PROVE  /\ Typed(m_ptr', refs', raw', gone')
                /\ \A o \in Objects : Balanced(m_ptr', refs', raw', gone', o)
    <2>1. /\ m_ptr[p] \in Objects /\ raw' = [raw EXCEPT ![m_ptr[p]] = @ + 1]
          /\ refs' = [refs EXCEPT ![m_ptr[p]] = @ + 1] /\ m_ptr' = m_ptr /\ gone' = gone
      BY <1>11 DEF CopyTo, Plus
    <2>2. Typed(m_ptr', refs', raw', gone')
      BY <1>1, <2>1
    <2>3. ASSUME NEW o \in Objects
          PROVE  Balanced(m_ptr', refs', raw', gone', o)
      <3>1. Count(m_ptr, o) \in Nat /\ Count(m_ptr', o) = Count(m_ptr, o) /\ m_ptr[p] \notin gone
        BY <1>1, <1>3, <2>1, HoldersFinite
      <3> QED BY <1>1, <2>1, <3>1 DEF Balanced
    <2> QED BY <2>2, <2>3
  <1>12. ASSUME NEW x \in Objects, RawRelease(x)
         PROVE  /\ Typed(m_ptr', refs', raw', gone')
                /\ \A o \in Objects : Balanced(m_ptr', refs', raw', gone', o)
    <2>1. /\ raw[x] > 0 /\ raw' = [raw EXCEPT ![x] = @ - 1] /\ m_ptr' = m_ptr
          /\ refs' = Minus(refs, x) /\ gone' = gone \cup Released(refs, x)
      BY <1>12 DEF RawRelease, Minus
    <2>2. Typed(m_ptr', refs', raw', gone')
      BY <1>1, <2>1, Counting DEF Values
    <2>3. ASSUME NEW o \in Objects
          PROVE  Balanced(m_ptr', refs', raw', gone', o)
      <3>1. Count(m_ptr, o) \in Nat /\ Count(m_ptr', o) = Count(m_ptr, o)
        BY <1>1, <2>1, HoldersFinite
      <3>2. /\ refs'[o] = refs[o] - One(x, o)
            /\ o \in gone' <=> o \in gone \/ (x = o /\ refs[o] = 1)
        BY <1>1, <2>1, Counting DEF Values
      <3> QED BY <1>1, <2>1, <3>1, <3>2 DEF Balanced, One
    <2> QED BY <2>2, <2>3
  <1>13. ASSUME NEW p \in Ptrs, NEW q \in Ptrs,
                \/ CopyConstruct(p, q) \/ MoveConstruct(p, q)
                \/ CopyAssign(p, q) \/ MoveAssign(p, q) \/ Swap(p, q)
         PROVE  /\ Typed(m_ptr', refs', raw', gone')
                /\ \A o \in Objects : Balanced(m_ptr', refs', raw', gone', o)
    <2>1. CASE CopyConstruct(p, q)
      BY <1>3, <1>8, <2>1, Zenon DEF CopyConstruct
    <2>2. CASE MoveConstruct(p, q)
      BY <1>6, <2>2, Zenon DEF MoveConstruct
    <2>3. CASE CopyAssign(p, q)
      BY <1>3, <1>5, <2>3 DEF CopyAssign
    <2>4. CASE Swap(p, q)
      BY <1>6, <2>4, Zenon DEF Swap
    <2> QED BY <1>7, <1>13, <2>1, <2>2, <2>3, <2>4
  <1>14. ASSUME NEW p \in Ptrs, NEW x \in Objects, Copy(p, x) \/ GetAddressOf(p, x)
         PROVE  /\ Typed(m_ptr', refs', raw', gone')
                /\ \A o \in Objects : Balanced(m_ptr', refs', raw', gone', o)
    BY <1>5, <1>8, <1>14 DEF Copy, GetAddressOf, Values
  <1>15. ASSUME NEW p \in Ptrs, Reset(p)
         PROVE  /\ Typed(m_ptr', refs', raw', gone')
                /\ \A o \in Objects : Balanced(m_ptr', refs', raw', gone', o)
    BY <1>4, <1>15 DEF Reset
  <1> QED
    BY <1>9, <1>10, <1>11, <1>12, <1>13, <1>14, <1>15 DEF ComNext

\* ComPtr's constructors, assignments, Attach, Detach, Copy, CopyTo, Swap and Reset: an
\* object counts exactly its owners and is gone exactly when it has none.
THEOREM ComCorrect == ComSpec => []CountsOwners
  <1>1. ComInit => ComInv
    <2>1. ASSUME ComInit PROVE ComTypeOK
      BY <2>1 DEF ComInit, ComTypeOK
    <2>2. ASSUME ComInit, NEW o \in Objects
          PROVE  refs[o] = Cardinality(Holders(m_ptr, o)) + raw[o] /\ (o \in gone <=> refs[o] = 0)
      <3>1. Holders(m_ptr, o) = {}
        BY <2>2, ComAssumption DEF ComInit, Holders
      <3>2. Cardinality(Holders(m_ptr, o)) = 0
        BY <3>1, FS_EmptySet
      <3> QED BY <2>2, <3>2 DEF ComInit
    <2> QED BY <2>1, <2>2 DEF ComInv, CountsOwners
  <1>2. ComInv /\ UNCHANGED comVars => ComInv'
    BY DEF ComInv, ComTypeOK, CountsOwners, Holders, comVars
  <1>3. ComInv => CountsOwners
    BY DEF ComInv
  <1> QED BY <1>1, <1>2, <1>3, ComInductive, PTL DEF ComSpec
===============================================================================

-------------------------- MODULE ThreadedObject -------------------------
(***************************************************************************)
(* src/src/util/ThreadedObject.cpp: an object with a worker thread and a    *)
(* queue of tasks.  Other threads (Callers) and the tasks themselves call   *)
(* enqueue_(); the thread that owns the object destroys it: the derived     *)
(* class's destructor calls waitForAllTasksComplete_() (stage 1), then      *)
(* ~ThreadedObject waits again, clears the queue and joins the worker       *)
(* (stage 2).                                                               *)
(*                                                                         *)
(* A critical section of eventQueueMutex_ is one step, except the entry of  *)
(* waitForAllTasksComplete_(), whose store to suppressEnqueue_ is read      *)
(* without the mutex.  The callers have been stopped by the derived class   *)
(* before its destructor waits.                                             *)
(***************************************************************************)
EXTENDS Naturals, Sequences, FiniteSets

CONSTANTS Callers,   \* threads that call enqueue_()
          Worker,    \* objectThread_
          Tasks,     \* the tasks, told apart to observe their order
          MaxQueue   \* bound: tasks queued or about to be

ASSUME WorkerAssumption == Worker \notin Callers
ASSUME QueueAssumption == MaxQueue \in Nat

Threads == Callers \cup {Worker}

VARIABLES eventQueue, suppressEnqueue, isDestroying, taskCurrentlyExecuting,
          wpc,       \* where eventLoop_() is
          fn,        \* the task eventLoop_() took from the queue, if any
          mayPost,   \* the running task has not called enqueue_() yet
          epc,       \* where each thread is inside enqueue_()
          etask,     \* its argument
          opc,       \* where the owner is
          stage      \* which destructor's wait the owner is in

object == <<eventQueue, suppressEnqueue, isDestroying, taskCurrentlyExecuting>>
worker == <<wpc, fn, mayPost>>
callers == <<epc, etask>>
owner == <<opc, stage>>
vars == <<object, worker, callers, owner>>

Init ==
  /\ eventQueue = <<>> /\ suppressEnqueue = FALSE /\ isDestroying = FALSE
  /\ taskCurrentlyExecuting = FALSE
  /\ wpc = "test" /\ fn = <<>> /\ mayPost = FALSE
  /\ epc = [t \in Threads |-> "idle"] /\ etask = [t \in Threads |-> <<>>]
  /\ opc = "alive" /\ stage = 1

\* eventQueueMutex_ is free: the owner is not between its two steps under it.
unlocked == opc # "check"

\* eventQueueCV_.notify_one(): a waiting worker goes back to its predicate.
notified == IF wpc = "waiting" THEN "lock" ELSE wpc
--------------------------------------------------------------------------
(* enqueue_() *)

\* Callers call while the object is alive, the worker from inside a task.
mayCall(t) == IF t = Worker THEN wpc = "running" /\ mayPost ELSE opc = "alive"

inFlight == {t \in Threads : epc[t] = "lock"}

\* The load of suppressEnqueue_; a suppressed call returns at once.
EnqueueBegin(t, x) ==
  /\ mayCall(t) /\ epc[t] = "idle"
  /\ ~suppressEnqueue
  /\ Len(eventQueue) + Cardinality(inFlight) < MaxQueue
  /\ epc' = [epc EXCEPT ![t] = "lock"] /\ etask' = [etask EXCEPT ![t] = <<x>>]
  /\ mayPost' = IF t = Worker THEN FALSE ELSE mayPost
  /\ UNCHANGED <<object, wpc, fn, owner>>

EnqueuePush(t) ==
  /\ epc[t] = "lock" /\ unlocked
  /\ eventQueue' = Append(eventQueue, Head(etask[t]))
  /\ epc' = [epc EXCEPT ![t] = "notify"] /\ etask' = [etask EXCEPT ![t] = <<>>]
  /\ UNCHANGED <<suppressEnqueue, isDestroying, taskCurrentlyExecuting, worker, owner>>

\* A call with a timeout found the mutex taken for that long: the task is dropped.
EnqueueGiveUp(t) ==
  /\ epc[t] = "lock"
  /\ epc' = [epc EXCEPT ![t] = "idle"] /\ etask' = [etask EXCEPT ![t] = <<>>]
  /\ UNCHANGED <<object, worker, owner>>

\* Mutant: notify_one() is missing.
EnqueueWithoutNotify(t) ==
  /\ epc[t] = "notify"
  /\ epc' = [epc EXCEPT ![t] = "idle"]
  /\ UNCHANGED <<object, worker, etask, owner>>

EnqueueNotify(t) ==
  /\ epc[t] = "notify"
  /\ epc' = [epc EXCEPT ![t] = "idle"]
  /\ wpc' = notified
  /\ UNCHANGED <<object, fn, mayPost, etask, owner>>
--------------------------------------------------------------------------
(* eventLoop_() *)

\* The conditions of the two loops.
LoopTest ==
  /\ wpc = "test"
  /\ wpc' = IF isDestroying THEN "exit" ELSE "lock"
  /\ UNCHANGED <<object, fn, mayPost, callers, owner>>

\* Mutant: the most recent task is taken first.
DequeueNewest ==
  /\ wpc = "lock" /\ unlocked
  /\ IF isDestroying \/ eventQueue = <<>>
       THEN /\ wpc' = IF isDestroying THEN "test" ELSE "waiting"
            /\ UNCHANGED <<eventQueue, taskCurrentlyExecuting, fn>>
       ELSE /\ wpc' = "popped" /\ taskCurrentlyExecuting' = TRUE
            /\ fn' = <<eventQueue[Len(eventQueue)]>>
            /\ eventQueue' = SubSeq(eventQueue, 1, Len(eventQueue) - 1)
  /\ UNCHANGED <<suppressEnqueue, isDestroying, mayPost, callers, owner>>

\* The critical section that waits for a task, or takes one and marks it as running.
Dequeue ==
  /\ wpc = "lock" /\ unlocked
  /\ \/ /\ isDestroying
        /\ wpc' = "test"
        /\ UNCHANGED <<eventQueue, taskCurrentlyExecuting, fn>>
     \/ /\ ~isDestroying /\ eventQueue = <<>>
        /\ wpc' = "waiting"
        /\ UNCHANGED <<eventQueue, taskCurrentlyExecuting, fn>>
     \/ /\ ~isDestroying /\ eventQueue # <<>>
        /\ wpc' = "popped"
        /\ fn' = <<Head(eventQueue)>> /\ eventQueue' = Tail(eventQueue)
        /\ taskCurrentlyExecuting' = TRUE
  /\ UNCHANGED <<suppressEnqueue, isDestroying, mayPost, callers, owner>>

StartTask ==
  /\ wpc = "popped"
  /\ wpc' = IF isDestroying THEN "finish" ELSE "running"
  /\ mayPost' = ~isDestroying
  /\ UNCHANGED <<object, fn, callers, owner>>

EndTask ==
  /\ wpc = "running" /\ epc[Worker] = "idle"
  /\ wpc' = "finish" /\ mayPost' = FALSE
  /\ UNCHANGED <<object, fn, callers, owner>>

MarkFinished ==
  /\ wpc = "finish" /\ unlocked
  /\ taskCurrentlyExecuting' = FALSE /\ fn' = <<>>
  /\ wpc' = "test"
  /\ UNCHANGED <<eventQueue, suppressEnqueue, isDestroying, mayPost, callers, owner>>
--------------------------------------------------------------------------
(* the destructors *)

\* The derived class stops the threads that call it before its destructor waits.
StopCallers ==
  /\ opc = "alive" /\ \A t \in Callers : epc[t] = "idle"
  /\ opc' = "enter" /\ stage' = 1
  /\ UNCHANGED <<object, worker, callers>>

\* waitForAllTasksComplete_(): lock the mutex and suppress further tasks.
WaitEnter ==
  /\ opc = "enter"
  /\ suppressEnqueue' = TRUE /\ opc' = "check"
  /\ UNCHANGED <<eventQueue, isDestroying, taskCurrentlyExecuting, worker, callers, stage>>

\* Mutant: the wait looks at the queue alone.
queuedTasks == eventQueue # <<>>

tasksLeft == eventQueue # <<>> \/ taskCurrentlyExecuting

\* Something is queued or running: release the mutex, sleep and look again.
WaitSleep ==
  /\ opc \in {"check", "poll"} /\ tasksLeft
  /\ opc' = "poll"
  /\ UNCHANGED <<object, worker, callers, stage>>

\* Nothing is queued and nothing runs.
WaitReturn ==
  /\ opc \in {"check", "poll"} /\ ~tasksLeft
  /\ suppressEnqueue' = FALSE
  /\ opc' = IF stage = 1 THEN "enter" ELSE "clear"
  /\ stage' = 2
  /\ UNCHANGED <<eventQueue, isDestroying, taskCurrentlyExecuting, worker, callers>>

\* ~ThreadedObject: clear the queue and wake the worker for the last time.
ClearQueue ==
  /\ opc = "clear"
  /\ eventQueue' = <<>> /\ isDestroying' = TRUE
  /\ wpc' = notified /\ opc' = "join"
  /\ UNCHANGED <<suppressEnqueue, taskCurrentlyExecuting, fn, mayPost, callers, stage>>

Join ==
  /\ opc = "join" /\ wpc = "exit"
  /\ opc' = "gone"
  /\ UNCHANGED <<object, worker, callers, stage>>

Gone == opc = "gone" /\ UNCHANGED vars
--------------------------------------------------------------------------
Enqueue(t) == \/ \E x \in Tasks : EnqueueBegin(t, x)
              \/ EnqueuePush(t) \/ EnqueueGiveUp(t) \/ EnqueueNotify(t)

EventLoop == LoopTest \/ Dequeue \/ StartTask \/ EndTask \/ MarkFinished

Destructor == StopCallers \/ WaitEnter \/ WaitSleep \/ WaitReturn \/ ClearQueue \/ Join

Next == (\E t \in Threads : Enqueue(t)) \/ EventLoop \/ Destructor \/ Gone

Spec == Init /\ [][Next]_vars

\* The operating system runs every thread; tasks return; the owner, once it started to
\* destroy the object, goes on.  Nobody is obliged to call enqueue_().
Fairness ==
  /\ WF_vars(EventLoop)
  /\ WF_vars(WaitEnter \/ WaitSleep \/ WaitReturn \/ ClearQueue \/ Join)
  /\ \A t \in Threads : WF_vars(EnqueuePush(t) \/ EnqueueNotify(t))

FairSpec == Spec /\ Fairness
--------------------------------------------------------------------------
\* Every variable has its type.
TypeOK ==
  /\ eventQueue \in Seq(Tasks) /\ suppressEnqueue \in BOOLEAN /\ isDestroying \in BOOLEAN
  /\ taskCurrentlyExecuting \in BOOLEAN
  /\ wpc \in {"test", "lock", "waiting", "popped", "running", "finish", "exit"}
  /\ fn \in Seq(Tasks) /\ mayPost \in BOOLEAN
  /\ epc \in [Threads -> {"idle", "lock", "notify"}] /\ etask \in [Threads -> Seq(Tasks)]
  /\ opc \in {"alive", "enter", "check", "poll", "clear", "join", "gone"}
  /\ stage \in {1, 2}

\* taskCurrentlyExecuting_ is set exactly while eventLoop_() holds a task.
ExecutingInv == /\ taskCurrentlyExecuting <=> wpc \in {"popped", "running", "finish"}
                /\ taskCurrentlyExecuting <=> fn # <<>>
                /\ Len(fn) <= 1

\* Who can be inside enqueue_(), with what.
EnqueueInv ==
  /\ \A t \in Callers : epc[t] # "idle" => opc = "alive"
  /\ epc[Worker] # "idle" => wpc = "running"
  /\ \A t \in Threads : epc[t] = "lock" => Len(etask[t]) = 1

\* What the owner has got done.
OwnerInv ==
  /\ isDestroying <=> opc \in {"join", "gone"}
  /\ opc \in {"clear", "join", "gone"} => stage = 2
  /\ opc = "alive" => stage = 1
  /\ wpc = "exit" => isDestroying
  /\ opc = "gone" => wpc = "exit"

\* Once the derived class's destructor has waited for its tasks, no task is queued or
\* runs, so none can touch the members that are about to go away, and the clear in
\* ~ThreadedObject discards nothing.
NoTaskOutlivesWait == stage = 2 => eventQueue = <<>> /\ ~taskCurrentlyExecuting

\* The inductive invariant of the object.
ObjectInv == TypeOK /\ ExecutingInv /\ EnqueueInv /\ OwnerInv /\ NoTaskOutlivesWait

Serial == INSTANCE SerialQueue WITH todo <- eventQueue, running <- fn, closed <- stage = 2

\* Tasks run one at a time in the order enqueue_() accepted them, each exactly once, and
\* none after the derived class's destructor has waited.
ImplementsSerialQueue == Serial!Spec

\* No wakeup is lost: with a task queued the worker takes one.
QueuedTaskStarts == eventQueue # <<>> ~> taskCurrentlyExecuting

\* The destructors return, although tasks that re-post themselves for ever are queued.
DestructorReturns == opc = "enter" ~> opc = "gone"
==========================================================================

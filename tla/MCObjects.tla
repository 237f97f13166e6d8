----------------------------- MODULE MCObjects ---------------------------
(***************************************************************************)
(* What the rest of the program is built on.  A behaviour is one of an      *)
(* object with a worker thread ("object"), of the audio spin lock ("spin"), *)
(* of the race for a connection ("race"), of the asynchronous log ("ring",  *)
(* and with a thread that flushes it "flush") or of the output half of the  *)
(* log ("lines").                                                           *)
(***************************************************************************)
EXTENDS ThreadedObject, SpinMutex, HappyEyeballs, UlogAsync, Ulog

VARIABLE which

MCVars == <<which, vars, spinVars, raceVars, asyncVars, lineVars>>

\* Iterations of the three phases of lock()
MCSpins == <<1, 1, 2>>

\* The ring with a thread that flushes it, and a record less
B == INSTANCE UlogAsync WITH MaxRecords <- 2, MaxFlushes <- 1
---------------------------------------------------------------------------
Object == which = "object" /\ UNCHANGED <<which, spinVars, raceVars, asyncVars, lineVars>>
Spin == which = "spin" /\ UNCHANGED <<which, vars, raceVars, asyncVars, lineVars>>
Race == which = "race" /\ UNCHANGED <<which, vars, spinVars, asyncVars, lineVars>>
Ring(w) == which = w /\ UNCHANGED <<which, vars, spinVars, raceVars, lineVars>>
Lines == which = "lines" /\ UNCHANGED <<which, vars, spinVars, raceVars, asyncVars>>

MCInit ==
  /\ which \in {"object", "spin", "race", "ring", "flush", "lines"}
  /\ Init /\ SpinInit /\ RaceInit /\ AsyncInit /\ UlogInit

MCNext ==
  \/ Object /\ Next
  \/ Spin /\ SpinNext
  \/ Race /\ RaceNext
  \/ Ring("ring") /\ AsyncNext
  \/ Ring("flush") /\ B!AsyncNext
  \/ Lines /\ UlogNext

\* The fairness of each module
Logging(action) == which \in {"ring", "flush"} /\ action
MCFairness ==
  /\ WF_vars(which = "object" /\ EventLoop)
  /\ WF_vars(which = "object" /\ (WaitEnter \/ WaitSleep \/ WaitReturn \/ ClearQueue \/ Join))
  /\ \A t \in Threads : WF_vars(which = "object" /\ (EnqueuePush(t) \/ EnqueueNotify(t)))
  /\ \A t \in Lockers : WF_spinVars(which = "spin" /\ Spinning(t)) /\ WF_spinVars(which = "spin" /\ Unlock(t))
  /\ WF_raceVars(which = "race" /\ (Lookup \/ Attempts)) /\ WF_raceVars(which = "race" /\ Network)
  /\ \A i \in Index : WF_raceVars(which = "race" /\ (Resolve(i) \/ SetComplete(i)))
  /\ \A p \in Producers : WF_asyncVars(Logging(AsyncEnqueue(p)))
  /\ WF_asyncVars(Logging(Drain)) /\ WF_asyncVars(Logging(Consumer))
  /\ WF_asyncVars(Logging(Start)) /\ WF_asyncVars(Logging(Stop))

MCSpec == MCInit /\ [][MCNext]_MCVars /\ MCFairness
---------------------------------------------------------------------------
\* Nobody waits for ever.  A queued task starts (no wakeup is lost), and ~ThreadedObject() returns
\* although tasks post tasks; while threads are in lock() of the spin lock, one gets it;
\* connectImpl_() returns; records in the ring are written, whatever the producers do, unless the
\* log is stopped, and ulog_async_stop() returns.
ObjectsMoveOn ==
  /\ QueuedTaskStarts /\ DestructorReturns
  /\ SomebodyGetsIn
  /\ which = "race" ~> hpc = "done"
  /\ AcceptedIsWritten /\ StopReturns
==========================================================================

------------------------------- MODULE SpinMutex ------------------------------
(***************************************************************************)
(* util/audio_spin_mutex.h: a test-and-test-and-set lock.  lock() tries in  *)
(* three phases, which differ in how long they pause; the last repeats      *)
(* after yielding.  try_lock() is two atomic steps, a load and an exchange. *)
(***************************************************************************)
EXTENDS Integers

CONSTANTS Lockers, Spins       \* Spins[p]: iterations of phase p of lock()

ASSUME SpinsAssumption == Spins \in [1..3 -> Nat]

VARIABLES flag,
          pc,        \* where a thread is
          phase,     \* the loop of lock() it is in, 0 in a bare try_lock()
          left       \* iterations left in that loop

spinVars == <<flag, pc, phase, left>>

SpinInit ==
    /\ flag = FALSE
    /\ pc = [t \in Lockers |-> "idle"]
    /\ phase = [t \in Lockers |-> 0] /\ left = [t \in Lockers |-> 0]

\* lock() and try_lock() are called.
Lock(t) ==
    /\ pc[t] = "idle" /\ pc' = [pc EXCEPT ![t] = "load"]
    /\ phase' = [phase EXCEPT ![t] = 1] /\ left' = [left EXCEPT ![t] = Spins[1]]
    /\ UNCHANGED flag
TryLock(t) ==
    /\ pc[t] = "idle" /\ pc' = [pc EXCEPT ![t] = "load"]
    /\ phase' = [phase EXCEPT ![t] = 0] /\ UNCHANGED <<flag, left>>

\* A try that failed: a bare try_lock() returns false, lock() goes on, in the
\* next phase when the iterations are used up, and in the last one forever.
Failed(t) ==
    IF phase[t] = 0
    THEN pc' = [pc EXCEPT ![t] = "idle"] /\ UNCHANGED <<phase, left>>
    ELSE /\ pc' = [pc EXCEPT ![t] = "load"]
         /\ IF left[t] > 1
            THEN left' = [left EXCEPT ![t] = @ - 1] /\ UNCHANGED phase
            ELSE LET next == IF phase[t] < 3 THEN phase[t] + 1 ELSE 3
                 IN /\ phase' = [phase EXCEPT ![t] = next]
                    /\ left' = [left EXCEPT ![t] = Spins[next]]

\* !flag.load()
Load(t) ==
    /\ pc[t] = "load" /\ UNCHANGED flag
    /\ IF flag THEN Failed(t)
       ELSE pc' = [pc EXCEPT ![t] = "exchange"] /\ UNCHANGED <<phase, left>>

\* Mutant: the flag is stored, without looking at what it was.
ExchangeBlindly(t) ==
    /\ pc[t] = "exchange" /\ flag' = TRUE
    /\ pc' = [pc EXCEPT ![t] = "held"] /\ UNCHANGED <<phase, left>>

\* !flag.exchange(true)
Exchange(t) ==
    /\ pc[t] = "exchange" /\ flag' = TRUE
    /\ IF flag THEN Failed(t)
       ELSE pc' = [pc EXCEPT ![t] = "held"] /\ UNCHANGED <<phase, left>>

Unlock(t) ==
    /\ pc[t] = "held" /\ flag' = FALSE
    /\ pc' = [pc EXCEPT ![t] = "idle"] /\ UNCHANGED <<phase, left>>

Spinning(t) == Load(t) \/ Exchange(t)
SpinNext == \E t \in Lockers : Lock(t) \/ TryLock(t) \/ Spinning(t) \/ Unlock(t)
SpinSpec == SpinInit /\ [][SpinNext]_spinVars

\* A thread that runs goes on, and one that holds the lock gives it back.
SpinFairness == \A t \in Lockers : WF_spinVars(Spinning(t)) /\ WF_spinVars(Unlock(t))

-------------------------------------------------------------------------------
SpinTypeOK ==
    /\ flag \in BOOLEAN /\ pc \in [Lockers -> {"idle", "load", "exchange", "held"}]
    /\ phase \in [Lockers -> 0..3] /\ left \in [Lockers -> Nat]

\* At most one thread is between lock() and unlock().
MutualExclusion == \A t, u \in Lockers : pc[t] = "held" /\ pc[u] = "held" => t = u

\* The flag is set exactly while a thread holds the lock, and one at most does.
SpinInv == SpinTypeOK /\ MutualExclusion /\ (flag <=> \E t \in Lockers : pc[t] = "held")

\* While threads are in lock(), the lock keeps being taken: not each of them
\* need get it (the lock is not fair), but some thread does.
SomebodyGetsIn ==
    (\E t \in Lockers : pc[t] # "idle" /\ phase[t] > 0) ~> (\E t \in Lockers : pc[t] = "held")

===============================================================================

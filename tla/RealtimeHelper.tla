-------------------------- MODULE RealtimeHelper --------------------------
(***************************************************************************)
(* MinimalRealtimeHelper: how long an audio thread sleeps between passes.   *)
(* What a pass took beyond its due time is taken off the next sleep.  Times *)
(* are in units that keep the order of the code's values; extraTimeNs_ is   *)
(* an int and holds at most IntMax of them, while durations are longs.      *)
(***************************************************************************)
EXTENDS Integers

CONSTANTS Slow, Fast,  \* 20 ms and 10 ms
          IntMax,      \* the largest int
          MaxLate,     \* how much later than asked a pass ends at most
          MaxPasses    \* passes in a behaviour

ASSUME HelperAssumption == {Slow, Fast, IntMax, MaxLate, MaxPasses} \subseteq Nat

VARIABLES extra,       \* extraTimeNs_
          due,         \* the nominal times of the passes so far, together
          spent,       \* what the passes took, together
          worst,       \* the latest a pass was so far
          passes

helperVars == <<extra, due, spent, worst, passes>>

HelperInit == extra = 0 /\ due = 0 /\ spent = 0 /\ worst = 0 /\ passes = 0

Larger(x, y) == IF x < y THEN y ELSE x

\* The conversion of a long to int keeps the low bits
Narrow(x) == ((x + IntMax + 1) % (2 * (IntMax + 1))) - IntMax - 1

\* Mutant: what the passes are behind is not taken off the sleep
StopRealTimeWorkForgets(fastMode, late) ==
    LET nominal == IF fastMode THEN Fast ELSE Slow
    IN /\ passes < MaxPasses /\ passes' = passes + 1
       /\ due' = due + nominal /\ spent' = spent + nominal + late
       /\ worst' = Larger(worst, late)
       /\ extra' = Narrow(late)

\* stopRealTimeWork(): sleep_until() returns at once if the time has passed, and
\* at any time after it; late is by how much the pass ends after that, be it that
\* its work took longer or that the thread was woken late
StopRealTimeWork(fastMode, late) ==
    LET nominal == IF fastMode THEN Fast ELSE Slow
        sleep == nominal - extra
        elapsed == Larger(0, sleep) + late
        duration == elapsed - sleep
    IN /\ passes < MaxPasses /\ passes' = passes + 1
       /\ due' = due + nominal /\ spent' = spent + elapsed
       /\ worst' = Larger(worst, duration)
       /\ extra' = Narrow(Larger(0, duration))

HelperNext == \E fastMode \in BOOLEAN, late \in 0 .. MaxLate : StopRealTimeWork(fastMode, late)
HelperSpec == HelperInit /\ [][HelperNext]_helperVars

\* The passes keep to the sum of their nominal times: together they never took
\* less, and what they took more is what extraTimeNs_ takes off the next sleep, so
\* that lateness is made up and does not add up (MinimalRealTimeHelper.cpp:86-91).
\* It is claimed as long as no pass was later than an int of nanoseconds holds,
\* 2.1 s: beyond that the conversion makes extraTimeNs_ wrong, even negative.
KeepsSchedule == worst <= IntMax => extra >= 0 /\ spent = due + extra
===========================================================================

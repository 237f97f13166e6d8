--------------------------- MODULE SerialQueue ---------------------------
(***************************************************************************)
(* What a ThreadedObject promises the classes derived from it: the tasks    *)
(* handed to enqueue_() run one at a time and in that order, and once the   *)
(* derived class has waited for them in its destructor none is left and     *)
(* none ever starts again.                                                  *)
(***************************************************************************)
EXTENDS Sequences

CONSTANT Tasks

VARIABLES todo,      \* tasks accepted and not started
          running,   \* the task that runs, as a sequence of at most one
          closed     \* the derived class's destructor has waited for its tasks

vars == <<todo, running, closed>>

Init == todo = <<>> /\ running = <<>> /\ closed = FALSE

Accept(x) == ~closed /\ todo' = Append(todo, x) /\ UNCHANGED <<running, closed>>

Start == /\ ~closed /\ running = <<>> /\ todo # <<>>
         /\ running' = <<Head(todo)>> /\ todo' = Tail(todo)
         /\ UNCHANGED closed

Finish == ~closed /\ running' = <<>> /\ UNCHANGED <<todo, closed>>

Close == todo = <<>> /\ running = <<>> /\ closed' = TRUE /\ UNCHANGED <<todo, running>>

Next == (\E x \in Tasks : Accept(x)) \/ Start \/ Finish \/ Close

Spec == Init /\ [][Next]_vars
==========================================================================

---------------------------- MODULE FifoQueue ----------------------------
(***************************************************************************)
(* What GenericFIFO<T> promises its single producer, its single consumer   *)
(* and whoever calls reset(): a bounded first-in first-out queue whose      *)
(* operations take effect at one instant.  A failing write() or read()      *)
(* changes nothing, so it is a stuttering step here.                       *)
(***************************************************************************)
EXTENDS Naturals, Sequences

CONSTANTS Values,   \* the element type T
          Capacity  \* capacity(): how many elements fit

VARIABLES q,        \* the elements written and not yet read
          got       \* what a successful read() handed over, until the consumer's next call

vars == <<q, got>>

Init == q = <<>> /\ got = <<>>

Put(d) == /\ Len(q) + Len(d) <= Capacity
          /\ q' = q \o d
          /\ got' = got

Get(n) == /\ n <= Len(q)
          /\ got' = SubSeq(q, 1, n)
          /\ q' = SubSeq(q, n + 1, Len(q))

Clear == q' = <<>> /\ got' = got

Consumed == q' = q /\ got' = <<>>

Next == \/ \E n \in 0 .. Capacity : Get(n) \/ \E d \in [1 .. n -> Values] : Put(d)
        \/ Clear \/ Consumed

Spec == Init /\ [][Next]_vars
==========================================================================

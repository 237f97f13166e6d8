-------------------------- MODULE MCGenericFIFO --------------------------
(***************************************************************************)
(* GenericFIFO on a ring of N slots, with two threads calling reset().      *)
(* The resetters are interchangeable, and so are the element values.        *)
(***************************************************************************)
EXTENDS GenericFIFO, TLC

Symmetry == Permutations(Resetters) \cup Permutations(Values)
==========================================================================

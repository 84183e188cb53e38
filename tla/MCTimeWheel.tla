---------------------------- MODULE MCTimeWheel ----------------------------
(***************************************************************************)
(* TimeWheel for TLC, with a wheel of base 4.                              *)
(***************************************************************************)
EXTENDS TimeWheel, TLC

\* Timers are interchangeable.
Symmetry == Permutations(Timers)
=============================================================================

----------------------------- MODULE MCRuntime -----------------------------
(***************************************************************************)
(* Runtime for TLC.                                                        *)
(***************************************************************************)
EXTENDS Runtime, TLC

\* Tasks are interchangeable where no temporal property is checked.
Symmetry == Permutations(Tasks)
=============================================================================

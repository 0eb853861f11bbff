-------------------------- MODULE MCExceptionHandling --------------------------
(***************************************************************************)
(* Instances of ExceptionHandling for TLC.                                  *)
(***************************************************************************)
EXTENDS ExceptionHandling, TLC

Symmetry == Permutations(Sites) \cup Permutations(Lines)
===============================================================================

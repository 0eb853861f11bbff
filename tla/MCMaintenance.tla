----------------------------- MODULE MCMaintenance -----------------------------
(* Maintenance with workers that are interchangeable. *)
EXTENDS Maintenance, TLC

Symmetry == Permutations(Workers)
===============================================================================

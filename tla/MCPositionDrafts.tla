--------------------------- MODULE MCPositionDrafts ---------------------------
(***************************************************************************)
(* Instances of PositionDrafts for TLC.                                     *)
(***************************************************************************)
EXTENDS PositionDrafts, TLC

Symmetry == Permutations(Admins) \cup Permutations(Drafts)
                \cup Permutations(Versions \ {FirstVersion})
===============================================================================

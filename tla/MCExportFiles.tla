---------------------------- MODULE MCExportFiles ----------------------------
(***************************************************************************)
(* Instances of ExportFiles, with the quarantine of its directories, for    *)
(* TLC.                                                                     *)
(***************************************************************************)
EXTENDS StorageQuarantine, TLC

Symmetry == Permutations(Sources) \cup Permutations(Workers)
===============================================================================

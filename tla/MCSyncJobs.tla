------------------------------ MODULE MCSyncJobs ------------------------------
(***************************************************************************)
(* Instances of SyncJobs for TLC.                                           *)
(***************************************************************************)
EXTENDS SyncJobs, TLC

Symmetry == Permutations(Syncs) \cup Permutations(Uploads)
                \cup Permutations(Workers) \cup Permutations(Admins)
===============================================================================

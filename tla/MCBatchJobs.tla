----------------------------- MODULE MCBatchJobs -----------------------------
(***************************************************************************)
(* Instances of BatchJobs for TLC.  The first worker serves every queue, as *)
(* --queue all; the others serve one queue, as the containers of            *)
(* compose.yaml do.                                                         *)
(***************************************************************************)
EXTENDS BatchJobs, TLC

CONSTANTS w1, w2, b1, b2

AllAndBatch == w1 :> "all" @@ w2 :> "batch"
OnlyAll == w1 :> "all"

\* A delivery batch needs more requests than a self-operated one.
TwoAndFive == b1 :> 2 @@ b2 :> 5
Three == b1 :> 3

\* One batch of either kind.
OneBatch == \E b \in Batches : batch[b] = "draft" /\ \A c \in Batches \ {b} : batch[c] = "gone"
OneBatchInit == Init /\ OneBatch
OneBatchSpec == OneBatchInit /\ [][Next]_vars
===============================================================================

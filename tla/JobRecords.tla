------------------------------ MODULE JobRecords ------------------------------
(***************************************************************************)
(* The row of a background job and what each transaction makes of it:      *)
(* queueing (web/job_queue.py), claiming (workers/leases.py), recovery of   *)
(* a job whose worker fell silent (workers/recovery.py) and the two ways a  *)
(* worker ends its own claim (workers/scheduler.py, compute_records.py).    *)
(*                                                                         *)
(* A row is a record                                                       *)
(*   status    "none" when the batch has no row of that kind;               *)
(*   attempts  the number of claims the row has counted;                    *)
(*   token     claim_token, the name of the current claim, or NoToken;      *)
(*   marker    heartbeat_at (claimed_at before the first heartbeat) against *)
(*             the recovery cutoff: "fresh", "old", or "unset" when the job *)
(*             is not running and nobody reads it;                          *)
(*   runs      history, not a column: the claims since the row was queued   *)
(*             by a request or by another job.                              *)
(* claim_token is a uuid4; two claims never draw the same one, so the       *)
(* tokens are the numbers 1, 2, ... in the order of the claims.             *)
(***************************************************************************)
EXTENDS Naturals

BatchKinds == {"prepare", "compute", "export"}
Snapshot == "purchase_snapshot"
Kinds == BatchKinds \cup {Snapshot}

\* The kinds whose job drives batch.status.
StatusKinds == {"prepare", "compute"}

Queues == {"all", "batch", "purchase-sync", "inbound-sync"}

\* Mutant of QueueKinds: nobody serves the snapshots.
QueueKindsWithoutSnapshot(q) == IF q \in {"all", "batch"} THEN BatchKinds ELSE {}

\* The kinds of job a worker of queue q claims and recovers.
QueueKinds(q) ==
    CASE q = "all"           -> Kinds
      [] q = "batch"         -> BatchKinds
      [] q = "purchase-sync" -> {Snapshot}
      [] q = "inbound-sync"  -> {}

JobStatus == {"none", "queued", "running", "succeeded", "failed", "stale"}
ActiveStatus == {"queued", "running"}
NoToken == 0

JobRecord == [status   : JobStatus,
              attempts : Nat,
              token    : Nat,
              marker   : {"unset", "fresh", "old"},
              runs     : Nat]

NoJob == [status |-> "none", attempts |-> 0, token |-> NoToken,
          marker |-> "unset", runs |-> 0]

IsActive(r) == r.status \in ActiveStatus

\* reset_batch_job leaves the row as it is in these cases.
KeptByReset(r, kind, refresh) ==
    \/ IsActive(r)
    \/ r.status # "none" /\ kind = Snapshot /\ ~refresh
    \/ r.status = "succeeded" /\ ~refresh

\* What reset_batch_job writes: attempts survive, except for a snapshot.
Queued(r, kind) ==
    [status   |-> "queued",
     attempts |-> IF kind = Snapshot THEN 0 ELSE r.attempts,
     token    |-> NoToken,
     marker   |-> "unset",
     runs     |-> 0]

ResetJob(r, kind, refresh) ==
    IF KeptByReset(r, kind, refresh) THEN r ELSE Queued(r, kind)

Claimed(r, tok) ==
    [status   |-> "running",
     attempts |-> r.attempts + 1,
     token    |-> tok,
     marker   |-> "fresh",
     runs     |-> r.runs + 1]

\* Mutant of Recovered: one claim too many.
RecoveredOnceMore(r, maxAttempts) ==
    [r EXCEPT !.status = IF r.attempts > maxAttempts THEN "failed" ELSE "queued",
              !.token  = NoToken,
              !.marker = "unset"]

\* A running job whose marker is behind the cutoff is recovered: queued again
\* while it has attempts left, failed otherwise.  The token goes either way.
IsAbandoned(r) == r.status = "running" /\ r.marker = "old"

Recovered(r, maxAttempts) ==
    [r EXCEPT !.status = IF r.attempts >= maxAttempts THEN "failed" ELSE "queued",
              !.token  = NoToken,
              !.marker = "unset"]

\* The owner of the claim ends it.
Ended(r, outcome) ==
    [r EXCEPT !.status = outcome, !.token = NoToken, !.marker = "unset"]

\* Mutant of MarkedStale: nothing is marked.
NeverStale(r) == r

\* A request marks a row stale; no row, nothing to mark.
MarkedStale(r) ==
    IF r.status = "none" THEN r ELSE [r EXCEPT !.status = "stale"]

\* A recompute also gives the row its attempts back.
Cleared(r) == [MarkedStale(r) EXCEPT !.attempts = 0]
===============================================================================

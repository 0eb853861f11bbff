------------------------------- MODULE BatchJobs -------------------------------
(***************************************************************************)
(* Batches, their background jobs, the worker processes that run them and   *)
(* the API requests that queue, refuse or invalidate them.                  *)
(*                                                                         *)
(* An API request locks its batch row first and commits once, so each       *)
(* request is one action.  A worker is a sequence of transactions -- claim, *)
(* read the inputs, heartbeats, finalize or fail -- with everything else    *)
(* interleaved between them; it may crash at any point and a worker that    *)
(* has been given up on may wake up and try to finish.                      *)
(*                                                                         *)
(* Data is reduced to versions.  inputs[b] counts the changes of the files  *)
(* and of the settings of a batch, content[b] the changes of what an export *)
(* of the batch shows (allocation rows, offline handling, transfers,        *)
(* splits).  Results carry the version they were made from.                 *)
(***************************************************************************)
EXTENDS JobRecords, FiniteSets

CONSTANTS
    Batches,        \* the batches
    SelfOperated,   \* those with a SelfOperatedBatch profile; the others are delivery batches
    Workers,        \* worker processes
    Queue,          \* the --queue option of each worker
    MaxAttempts,    \* --max-attempts
    MaxRequests,    \* bound: requests so far when one changes the batch or queues its job
    MaxCrashes      \* bound: worker crashes

ASSUME BatchesAssumption == Batches # {} /\ SelfOperated \subseteq Batches
ASSUME QueueAssumption == Queue \in [Workers -> Queues]
ASSUME AttemptsAssumption == MaxAttempts \in Nat \ {0}
ASSUME BoundsAssumption == MaxRequests \in [Batches -> Nat] /\ MaxCrashes \in Nat

VARIABLES
    job,        \* job[b][k]: the row of kind k of batch b
    batch,      \* Batch.status, "gone" once the rows are deleted
    receipts,   \* require_receipts: "missing", "issues" or "ready"
    linked,     \* require_no_transfer_links refuses: a transfer touches the batch
    inputs,     \* version of the batch's inputs
    checked,    \* delivery preflight: inputs read by a running one, inputs passed by the last
    rows,       \* the inputs the stored allocation rows were computed from
    content,    \* version of what an export shows
    zip,        \* Batch.zip_path: the content of the export it names
    worker,     \* the worker processes
    claims,     \* claims so far; the last one's token
    requests,   \* requests so far
    crashes     \* crashes so far

vars == <<job, batch, receipts, linked, inputs, checked, rows, content, zip,
          worker, claims, requests, crashes>>

data == <<receipts, linked, inputs, checked, rows, content, zip>>

Version == [files : Nat, settings : Nat]
Absent == [files |-> 0, settings |-> 0]     \* no such version: versions start at 1
NoZip == 0

BatchStatus == {"draft", "preflight_ready", "queued", "running",
                "succeeded", "failed", "gone"}
EditableStatus == {"draft", "preflight_ready", "failed"}

Idle == [pc |-> "idle", b |-> CHOOSE b \in Batches : TRUE, k |-> "prepare",
         token |-> NoToken, keeper |-> "off", inputs |-> Absent, content |-> 0]

WorkerRecord == [pc      : {"idle", "claimed", "working", "final", "raised", "down"},
                 b       : Batches,
                 k       : Kinds,
                 token   : Nat,
                 keeper  : {"off", "beating", "failed"},
                 inputs  : Version,
                 content : Nat]

TypeOK ==
    /\ job \in [Batches -> [Kinds -> JobRecord]]
    /\ batch \in [Batches -> BatchStatus]
    /\ receipts \in [Batches -> {"missing", "issues", "ready"}]
    /\ linked \in [Batches -> BOOLEAN]
    /\ inputs \in [Batches -> Version]
    /\ checked \in [Batches -> [reading : Version, passed : Version]]
    /\ rows \in [Batches -> Version]
    /\ content \in [Batches -> Nat]
    /\ zip \in [Batches -> Nat]
    /\ worker \in [Workers -> WorkerRecord]
    /\ claims \in Nat
    /\ requests \in Nat
    /\ crashes \in Nat

\* Every batch is new or deleted; a new delivery batch may be the target of a
\* transfer.
Init ==
    /\ job = [b \in Batches |-> [k \in Kinds |-> NoJob]]
    /\ batch \in [Batches -> {"draft", "gone"}]
    /\ receipts = [b \in Batches |-> "missing"]
    /\ linked \in [Batches -> BOOLEAN]
    /\ \A b \in Batches : linked[b] => batch[b] = "draft" /\ b \notin SelfOperated
    /\ inputs = [b \in Batches |-> [files |-> 1, settings |-> 1]]
    /\ checked = [b \in Batches |-> [reading |-> Absent, passed |-> Absent]]
    /\ rows = [b \in Batches |-> Absent]
    /\ content = [b \in Batches |-> 1]
    /\ zip = [b \in Batches |-> NoZip]
    /\ worker = [w \in Workers |-> Idle]
    /\ claims = 0
    /\ requests = 0
    /\ crashes = 0

-------------------------------------------------------------------------------
(* What the handlers test. *)

HasActiveJob(b) == \E k \in Kinds : IsActive(job[b][k])

\* get_editable_batch
Editable(b, allowSucceeded) ==
    /\ ~HasActiveJob(b)
    /\ batch[b] \in EditableStatus \cup (IF allowSucceeded THEN {"succeeded"} ELSE {})

\* require_receipts
ReceiptsPass(b) == b \in SelfOperated => receipts[b] = "ready"

\* invalidate_receipts refuses a self-operated batch with links or active jobs
MayInvalidate(b) == b \in SelfOperated => ~linked[b] /\ ~HasActiveJob(b)

\* recompute_disabled_reason is None
MayRecompute(b) ==
    /\ batch[b] \in {"succeeded", "failed"}
    /\ \A k \in BatchKinds : ~IsActive(job[b][k])
    /\ ~linked[b]

(* Parts of the handlers. *)

Request(b) == requests < MaxRequests[b] /\ requests' = requests + 1

NewFiles(b) == inputs' = [inputs EXCEPT ![b].files = @ + 1]
NewSettings(b) == inputs' = [inputs EXCEPT ![b].settings = @ + 1]
NewContent(b) == content' = [content EXCEPT ![b] = @ + 1]

\* The jobs of b after invalidate_receipts: nothing for a delivery batch.
InvalidatedJobs(b) ==
    IF b \in SelfOperated THEN [k \in Kinds |-> MarkedStale(job[b][k])] ELSE job[b]

\* The results of b after invalidate_receipts; batch.status is the caller's.
InvalidateResults(b) ==
    IF b \in SelfOperated
    THEN /\ receipts' = [receipts EXCEPT ![b] = "missing"]
         /\ rows' = [rows EXCEPT ![b] = Absent]
         /\ zip' = [zip EXCEPT ![b] = NoZip]
         /\ NewContent(b)
    ELSE UNCHANGED <<receipts, rows, zip, content>>

\* queue_receipt_preflight after its checks
QueuePrepare(b) ==
    /\ MayInvalidate(b)
    /\ InvalidateResults(b)
    /\ job' = [job EXCEPT ![b] =
                 [InvalidatedJobs(b) EXCEPT !["prepare"] = ResetJob(@, "prepare", FALSE)]]
    /\ batch' = [batch EXCEPT ![b] = "queued"]

\* queue_followup_job(export, refresh=True): the old export is no longer offered
QueueFreshExport(b) ==
    /\ job' = [job EXCEPT ![b]["export"] = ResetJob(@, "export", TRUE)]
    /\ zip' = [zip EXCEPT ![b] = NoZip]

-------------------------------------------------------------------------------
(* Requests that edit the inputs of a batch. *)

\* BatchFileUploader.append, and replace_inbound of a self-operated batch
AppendFile(b) ==
    /\ Request(b)
    /\ Editable(b, FALSE)
    /\ MayInvalidate(b)
    /\ InvalidateResults(b)
    /\ NewFiles(b)
    /\ job' = [job EXCEPT ![b] = InvalidatedJobs(b)]
    /\ batch' = [batch EXCEPT ![b] = "draft"]
    /\ UNCHANGED <<linked, checked, worker, claims, crashes>>

\* BatchFileEditor.delete
DeleteFile(b) ==
    /\ Request(b)
    /\ Editable(b, FALSE)
    /\ ~linked[b]
    /\ MayInvalidate(b)
    /\ NewFiles(b)
    /\ receipts' = [receipts EXCEPT ![b] = "missing"]
    /\ rows' = [rows EXCEPT ![b] = Absent]
    /\ zip' = [zip EXCEPT ![b] = NoZip]
    /\ NewContent(b)
    /\ job' = [job EXCEPT ![b] = InvalidatedJobs(b)]
    /\ batch' = [batch EXCEPT ![b] = "draft"]
    /\ UNCHANGED <<linked, checked, worker, claims, crashes>>

\* BatchFileEditor.reorder
ReorderFiles(b) ==
    /\ Request(b)
    /\ Editable(b, FALSE)
    /\ MayInvalidate(b)
    /\ InvalidateResults(b)
    /\ NewSettings(b)
    /\ job' = [job EXCEPT ![b] = InvalidatedJobs(b)]
    /\ batch' = [batch EXCEPT ![b] = "draft"]
    /\ UNCHANGED <<linked, checked, worker, claims, crashes>>

\* BatchMaintenance.refresh_supplier: no look at the jobs of a delivery batch
RefreshSupplier(b) ==
    /\ Request(b)
    /\ batch[b] = "draft"
    /\ MayInvalidate(b)
    /\ InvalidateResults(b)
    /\ NewFiles(b)
    /\ job' = [job EXCEPT ![b] = InvalidatedJobs(b)]
    /\ UNCHANGED <<batch, linked, checked, worker, claims, crashes>>

\* BatchMaintenance.delete_selected
DeleteBatch(b) ==
    /\ Request(b)
    /\ batch[b] \notin {"gone", "queued", "running"}
    /\ ~HasActiveJob(b)
    /\ ~linked[b]
    /\ job' = [job EXCEPT ![b] = [k \in Kinds |-> NoJob]]
    /\ batch' = [batch EXCEPT ![b] = "gone"]
    /\ receipts' = [receipts EXCEPT ![b] = "missing"]
    /\ rows' = [rows EXCEPT ![b] = Absent]
    /\ zip' = [zip EXCEPT ![b] = NoZip]
    /\ checked' = [checked EXCEPT ![b] = [reading |-> Absent, passed |-> Absent]]
    /\ UNCHANGED <<linked, inputs, content, worker, claims, crashes>>

-------------------------------------------------------------------------------
(* Requests that check, compute and recompute a batch. *)

\* preflight_batch of a self-operated batch
StartPrepare(b) ==
    /\ Request(b)
    /\ b \in SelfOperated
    /\ batch[b] \in EditableStatus
    /\ QueuePrepare(b)
    /\ UNCHANGED <<linked, inputs, checked, worker, claims, crashes>>

\* choose_site, and save_adjustments with sites: the candidates are those of
\* the last prepare
ChooseSite(b) ==
    /\ Request(b)
    /\ b \in SelfOperated
    /\ Editable(b, TRUE)
    /\ receipts[b] # "missing"
    /\ QueuePrepare(b)
    /\ NewSettings(b)
    /\ UNCHANGED <<linked, checked, worker, claims, crashes>>

\* refresh_history: invalidates in any status, then queues from draft
RefreshHistory(b) ==
    /\ Request(b)
    /\ b \in SelfOperated
    /\ batch[b] # "gone"
    /\ QueuePrepare(b)
    /\ NewSettings(b)
    /\ UNCHANGED <<linked, checked, worker, claims, crashes>>

\* preflight_batch_record, first half: read the inputs without a lock
PreflightRead(b) ==
    /\ Request(b)
    /\ b \notin SelfOperated
    /\ batch[b] \in {"draft", "failed"}
    /\ checked' = [checked EXCEPT ![b].reading = inputs[b]]
    /\ UNCHANGED <<job, batch, receipts, linked, inputs, rows, content, zip,
                   worker, claims, crashes>>

\* Mutant of PreflightDecide: what was read is not compared with what is there.
PreflightDecideBlindly(b) ==
    /\ checked[b].reading # Absent
    /\ batch[b] \in {"draft", "failed"}
    /\ batch' = [batch EXCEPT ![b] = "preflight_ready"]
    /\ checked' = [checked EXCEPT ![b] = [reading |-> Absent, passed |-> @.reading]]
    /\ UNCHANGED <<job, receipts, linked, inputs, rows, content, zip,
                   worker, claims, requests, crashes>>

\* second half: lock, compare with what was read; refused or invalid inputs
\* change nothing
PreflightDecide(b) ==
    /\ checked[b].reading # Absent
    /\ \/ /\ batch[b] \in {"draft", "failed"}
          /\ inputs[b] = checked[b].reading
          /\ batch' = [batch EXCEPT ![b] = "preflight_ready"]
          /\ checked' = [checked EXCEPT ![b] = [reading |-> Absent, passed |-> @.reading]]
       \/ /\ checked' = [checked EXCEPT ![b].reading = Absent]
          /\ UNCHANGED batch
    /\ UNCHANGED <<job, receipts, linked, inputs, rows, content, zip,
                   worker, claims, requests, crashes>>

\* start_compute
StartCompute(b) ==
    /\ Request(b)
    /\ ReceiptsPass(b)
    /\ job[b]["compute"].status \notin {"queued", "running", "succeeded"}
    /\ batch[b] \in {"preflight_ready", "failed"}
    /\ job' = [job EXCEPT ![b]["compute"] = ResetJob(@, "compute", FALSE)]
    /\ batch' = [batch EXCEPT ![b] = "queued"]
    /\ UNCHANGED <<data, worker, claims, crashes>>

\* save_allowance, and save_adjustments without sites: prepare_recompute
\* clears the results and the attempts, then compute is queued
SaveAllowance(b) ==
    /\ Request(b)
    /\ b \in SelfOperated
    /\ MayRecompute(b)
    /\ ReceiptsPass(b)
    /\ NewSettings(b)
    /\ rows' = [rows EXCEPT ![b] = Absent]
    /\ NewContent(b)
    /\ zip' = [zip EXCEPT ![b] = NoZip]
    /\ job' = [job EXCEPT ![b] =
                 [job[b] EXCEPT
                    !["compute"] = ResetJob(Cleared(job[b]["compute"]), "compute", FALSE),
                    !["export"]  = Cleared(job[b]["export"])]]
    /\ batch' = [batch EXCEPT ![b] = "queued"]
    /\ UNCHANGED <<receipts, linked, checked, worker, claims, crashes>>

-------------------------------------------------------------------------------
(* Requests on the results of a computed batch. *)

\* Mutant of ExportIdle: a running export is overlooked.
RunningExportIgnored(b) == batch[b] = "succeeded"

\* _source_batch, save_offline and save_split: no export may be under way
ExportIdle(b) == batch[b] = "succeeded" /\ ~IsActive(job[b]["export"])

\* save_offline, one record or several
SaveOffline(b) ==
    /\ Request(b)
    /\ b \in SelfOperated
    /\ ExportIdle(b)
    /\ NewContent(b)
    /\ QueueFreshExport(b)
    /\ UNCHANGED <<batch, receipts, linked, inputs, checked, rows, worker, claims, crashes>>

\* ExceptionTransferService.transfer
Transfer(b) ==
    /\ Request(b)
    /\ b \in SelfOperated
    /\ ExportIdle(b)
    /\ linked' = [linked EXCEPT ![b] = TRUE]
    /\ NewContent(b)
    /\ QueueFreshExport(b)
    /\ UNCHANGED <<batch, receipts, inputs, checked, rows, worker, claims, crashes>>

\* save_split
SaveSplit(b) ==
    /\ Request(b)
    /\ b \in Batches \ SelfOperated
    /\ ExportIdle(b)
    /\ NewContent(b)
    /\ job' = [job EXCEPT ![b]["export"] = MarkedStale(@)]
    /\ zip' = [zip EXCEPT ![b] = NoZip]
    /\ UNCHANGED <<batch, receipts, linked, inputs, checked, rows, worker, claims, crashes>>

\* start_export; a merged workbook missing from disk marks a finished export stale
StartExport(b) ==
    /\ Request(b)
    /\ batch[b] = "succeeded"
    /\ ReceiptsPass(b)
    /\ \E mergedMissing \in BOOLEAN :
          job' = [job EXCEPT ![b]["export"] =
                    ResetJob(IF mergedMissing /\ @.status = "succeeded"
                             THEN MarkedStale(@) ELSE @, "export", FALSE)]
    /\ job' # job
    /\ UNCHANGED <<batch, data, worker, claims, crashes>>

\* load_snapshot
LoadSnapshot(b) ==
    /\ Request(b)
    /\ b \in SelfOperated
    /\ batch[b] = "succeeded"
    /\ \E refresh \in BOOLEAN :
          job' = [job EXCEPT ![b][Snapshot] = ResetJob(@, Snapshot, refresh)]
    /\ job' # job
    /\ UNCHANGED <<batch, data, worker, claims, crashes>>

-------------------------------------------------------------------------------
(* Workers. *)

MyJob(w) == job[worker[w].b][worker[w].k]

\* Mutant of Owns: the job is running, but for whom?
RunsForAnyone(w) ==
    worker[w].pc \in {"claimed", "working", "final", "raised"} /\ MyJob(w).status = "running"

\* The test of every write a worker makes for its claim.
Owns(w) ==
    /\ worker[w].pc \in {"claimed", "working", "final", "raised"}
    /\ MyJob(w).status = "running"
    /\ MyJob(w).token = worker[w].token

\* _claim_job and _claim_purchase_work: the first queued row that no other
\* transaction has locked (skip_locked), which may be any queued row
Claim(w, b, k) ==
    /\ worker[w].pc = "idle"
    /\ k \in QueueKinds(Queue[w])
    /\ job[b][k].status = "queued"
    /\ job' = [job EXCEPT ![b][k] = Claimed(@, claims + 1)]
    /\ batch' = IF k \in StatusKinds THEN [batch EXCEPT ![b] = "running"] ELSE batch
    /\ worker' = [worker EXCEPT ![w] =
                    [Idle EXCEPT !.pc = "claimed", !.b = b, !.k = k,
                                 !.token = claims + 1, !.keeper = "beating"]]
    /\ claims' = claims + 1
    /\ UNCHANGED <<data, requests, crashes>>

\* LeaseKeeper and the explicit heartbeats of the executors
Heartbeat(w) ==
    /\ Owns(w)
    /\ \/ worker[w].keeper = "beating"
       \/ worker[w].pc \in {"claimed", "working"}
    /\ job' = [job EXCEPT ![worker[w].b][worker[w].k].marker = "fresh"]
    /\ UNCHANGED <<batch, data, worker, claims, requests, crashes>>

\* The keeper's update found another owner, or the database refused it: the
\* thread ends, the worker learns of it at stop()
KeeperFails(w) ==
    /\ worker[w].keeper = "beating"
    /\ worker' = [worker EXCEPT ![w].keeper = "failed"]
    /\ UNCHANGED <<job, batch, data, claims, requests, crashes>>

\* The executor reads the database: exports and snapshots demand a computed
\* batch, prepare and snapshots their lease
InputsRefused(w) ==
    LET b == worker[w].b  k == worker[w].k IN
    \/ batch[b] = "gone"
    \/ k = "export" /\ ~(batch[b] = "succeeded" /\ ReceiptsPass(b))
    \/ k = Snapshot /\ batch[b] # "succeeded"
    \/ k \in {"prepare", Snapshot} /\ ~Owns(w)

ReadInputs(w) ==
    /\ worker[w].pc = "claimed"
    /\ ~InputsRefused(w)
    /\ worker' = [worker EXCEPT ![w].pc = "working",
                                ![w].inputs = inputs[worker[w].b],
                                ![w].content = content[worker[w].b]]
    /\ UNCHANGED <<job, batch, data, claims, requests, crashes>>

\* Any exception: refused inputs, a bad workbook, a failing API, a heartbeat
\* that finds the lease lost.  Leaving the keeper's block stops the keeper.
Raise(w) ==
    /\ worker[w].pc \in {"claimed", "working", "final"}
    /\ worker' = [worker EXCEPT ![w].pc = "raised", ![w].keeper = "off"]
    /\ UNCHANGED <<job, batch, data, claims, requests, crashes>>

\* before_finalize: the keeper stops, and hands over the error it met
StopKeeper(w) ==
    /\ worker[w].pc = "working"
    /\ worker' = [worker EXCEPT
                    ![w].pc = IF worker[w].keeper = "failed" THEN "raised" ELSE "final",
                    ![w].keeper = "off"]
    /\ UNCHANGED <<job, batch, data, claims, requests, crashes>>

Succeed(w) == Ended(MyJob(w), "succeeded")

\* Mutant of MayPublish: results are saved without a look at the claim.
MayPublishUnowned(w) == worker[w].pc = "final"

\* The transaction that saves the results of the claim: what it tests.
MayPublish(w) ==
    /\ worker[w].pc = "final"
    /\ Owns(w)
    /\ worker[w].k \in {"prepare", Snapshot}
          => worker[w].inputs.files = inputs[worker[w].b].files

Released(w) == worker' = [worker EXCEPT ![w] = Idle]

\* execute_prepare_inbound: issues send the batch back to draft, otherwise
\* compute follows in the same transaction
PublishPrepare(w) ==
    LET b == worker[w].b IN
    /\ MayPublish(w) /\ worker[w].k = "prepare"
    /\ \/ /\ receipts' = [receipts EXCEPT ![b] = "issues"]
          /\ batch' = [batch EXCEPT ![b] = "draft"]
          /\ job' = [job EXCEPT ![b]["prepare"] = Succeed(w)]
       \/ /\ receipts' = [receipts EXCEPT ![b] = "ready"]
          /\ batch' = [batch EXCEPT ![b] = "queued"]
          /\ job' = [job EXCEPT ![b] =
                       [job[b] EXCEPT
                          !["prepare"] = Succeed(w),
                          !["compute"] = ResetJob(job[b]["compute"], "compute", FALSE)]]
    /\ Released(w)
    /\ UNCHANGED <<linked, inputs, checked, rows, content, zip, claims, requests, crashes>>

\* _save_delivery_compute and _save_inbound_compute; the latter queues the export
PublishCompute(w) ==
    LET b == worker[w].b IN
    /\ MayPublish(w) /\ worker[w].k = "compute"
    /\ rows' = [rows EXCEPT ![b] = worker[w].inputs]
    /\ NewContent(b)
    /\ zip' = [zip EXCEPT ![b] = NoZip]
    /\ batch' = [batch EXCEPT ![b] = "succeeded"]
    /\ job' = [job EXCEPT ![b] =
                 [job[b] EXCEPT
                    !["compute"] = Succeed(w),
                    !["export"]  = IF b \in SelfOperated
                                   THEN ResetJob(job[b]["export"], "export", FALSE)
                                   ELSE job[b]["export"]]]
    /\ Released(w)
    /\ UNCHANGED <<receipts, linked, inputs, checked, claims, requests, crashes>>

\* _register_export
PublishExport(w) ==
    LET b == worker[w].b IN
    /\ MayPublish(w) /\ worker[w].k = "export"
    /\ zip' = [zip EXCEPT ![b] = worker[w].content]
    /\ job' = [job EXCEPT ![b]["export"] = Succeed(w)]
    /\ Released(w)
    /\ UNCHANGED <<batch, receipts, linked, inputs, checked, rows, content,
                   claims, requests, crashes>>

\* execute_purchase_snapshot
PublishSnapshot(w) ==
    /\ MayPublish(w) /\ worker[w].k = Snapshot
    /\ job' = [job EXCEPT ![worker[w].b][Snapshot] = Succeed(w)]
    /\ Released(w)
    /\ UNCHANGED <<batch, data, claims, requests, crashes>>

\* LostJobLeaseError, or inputs changed under the claim
PublishRefused(w) ==
    /\ worker[w].pc = "final"
    /\ ~MayPublish(w)
    /\ worker' = [worker EXCEPT ![w].pc = "raised"]
    /\ UNCHANGED <<job, batch, data, claims, requests, crashes>>

\* Mutant of Fail: any failed job fails its batch.
FailWithBatch(w) ==
    /\ worker[w].pc = "raised"
    /\ IF Owns(w)
       THEN /\ job' = [job EXCEPT ![worker[w].b][worker[w].k] = Ended(@, "failed")]
            /\ batch' = [batch EXCEPT ![worker[w].b] = "failed"]
       ELSE UNCHANGED <<job, batch>>
    /\ Released(w)
    /\ UNCHANGED <<data, claims, requests, crashes>>

\* _fail_job: nothing to do for a worker that lost its claim
Fail(w) ==
    /\ worker[w].pc = "raised"
    /\ IF Owns(w)
       THEN /\ job' = [job EXCEPT ![worker[w].b][worker[w].k] = Ended(@, "failed")]
            /\ batch' = IF worker[w].k \in StatusKinds
                        THEN [batch EXCEPT ![worker[w].b] = "failed"] ELSE batch
       ELSE UNCHANGED <<job, batch>>
    /\ Released(w)
    /\ UNCHANGED <<data, claims, requests, crashes>>

\* The process dies, or _fail_job itself raises out of the worker's loop.
Crash(w) ==
    /\ crashes < MaxCrashes
    /\ crashes' = crashes + 1
    /\ worker[w].pc # "down"
    /\ worker' = [worker EXCEPT ![w] = [Idle EXCEPT !.pc = "down"]]
    /\ UNCHANGED <<job, batch, data, claims, requests>>

-------------------------------------------------------------------------------
(* Recovery of jobs whose worker fell silent. *)

\* The marker of a running job falls behind the cutoff.
MarkerAges(b, k) ==
    /\ job[b][k].status = "running" /\ job[b][k].marker = "fresh"
    /\ job' = [job EXCEPT ![b][k].marker = "old"]
    /\ UNCHANGED <<batch, data, worker, claims, requests, crashes>>

\* Mutant of RecoverExcept: the batches are forgotten.
RecoverRowsOnly(w, locked) ==
    /\ job' = [b \in Batches |-> [k \in Kinds |->
                 IF /\ k \in QueueKinds(Queue[w]) /\ IsAbandoned(job[b][k])
                    /\ <<b, k>> \notin locked
                 THEN Recovered(job[b][k], MaxAttempts) ELSE job[b][k]]]
    /\ UNCHANGED batch

\* _recover_batch_jobs of w's queue: every abandoned row, except those another
\* transaction has locked at that moment (skip_locked)
RecoverExcept(w, locked) ==
    LET taken(b, k) == /\ k \in QueueKinds(Queue[w])
                       /\ IsAbandoned(job[b][k])
                       /\ <<b, k>> \notin locked
        after(b, s) == \E k \in StatusKinds :
                          taken(b, k) /\ Recovered(job[b][k], MaxAttempts).status = s
    IN  /\ job' = [b \in Batches |-> [k \in Kinds |->
                     IF taken(b, k) THEN Recovered(job[b][k], MaxAttempts) ELSE job[b][k]]]
        /\ batch' = [b \in Batches |-> IF after(b, "failed") THEN "failed"
                                       ELSE IF after(b, "queued") THEN "queued"
                                       ELSE batch[b]]

Abandoned(w) ==
    {bk \in Batches \X QueueKinds(Queue[w]) : IsAbandoned(job[bk[1]][bk[2]])}

\* _watch_stale_jobs, a thread beside whatever the worker is doing
Recover(w) ==
    /\ worker[w].pc # "down"
    /\ \E locked \in SUBSET Abandoned(w) :
          locked # Abandoned(w) /\ RecoverExcept(w, locked)
    /\ UNCHANGED <<data, worker, claims, requests, crashes>>

\* The process starts again; main() recovers before the first claim.
Restart(w) ==
    /\ worker[w].pc = "down"
    /\ \E locked \in SUBSET Abandoned(w) : RecoverExcept(w, locked)
    /\ Released(w)
    /\ UNCHANGED <<data, claims, requests, crashes>>

-------------------------------------------------------------------------------
RequestStep ==
    \E b \in Batches :
        \/ AppendFile(b) \/ DeleteFile(b) \/ ReorderFiles(b) \/ RefreshSupplier(b)
        \/ DeleteBatch(b)
        \/ StartPrepare(b) \/ ChooseSite(b) \/ RefreshHistory(b)
        \/ PreflightRead(b) \/ PreflightDecide(b)
        \/ StartCompute(b) \/ SaveAllowance(b)
        \/ SaveOffline(b) \/ Transfer(b) \/ SaveSplit(b)
        \/ StartExport(b) \/ LoadSnapshot(b)

Publish(w) ==
    PublishPrepare(w) \/ PublishCompute(w) \/ PublishExport(w) \/ PublishSnapshot(w)

WorkerStep ==
    \E w \in Workers :
        \/ \E b \in Batches, k \in Kinds : Claim(w, b, k)
        \/ Heartbeat(w) \/ KeeperFails(w)
        \/ ReadInputs(w) \/ Raise(w) \/ StopKeeper(w)
        \/ Publish(w) \/ PublishRefused(w) \/ Fail(w)
        \/ Crash(w) \/ Restart(w) \/ Recover(w)

Next ==
    \/ RequestStep
    \/ WorkerStep
    \/ \E b \in Batches, k \in Kinds : MarkerAges(b, k)

Spec == Init /\ [][Next]_vars

-------------------------------------------------------------------------------
(* Safety. *)

\* batch.status, which every page and every guard reads, tells the truth about
\* the job that drives it: a batch is shown as queued or running exactly while
\* its prepare or compute job is, through claims, failures, recoveries and the
\* hand-over from prepare to compute, and the two are never active together.
BatchMatchesJobs ==
    \A b \in Batches :
        /\ ~(IsActive(job[b]["prepare"]) /\ IsActive(job[b]["compute"]))
        /\ \A s \in ActiveStatus :
              batch[b] = s <=> \E k \in StatusKinds : job[b][k].status = s

\* No two workers hold the same claim: a worker that was given up on and wakes
\* up after another has claimed the job again fails every test of its token.
OneOwner ==
    \A v, w \in Workers :
        Owns(v) /\ Owns(w) /\ worker[v].b = worker[w].b /\ worker[v].k = worker[w].k
            => v = w

\* A worker that may still save its result works on what the batch holds now:
\* no request changes the inputs of a running prepare or compute, nor what a
\* running export shows, however long ago the worker read them.
OwnerReadsCurrent ==
    \A w \in Workers :
        LET b == worker[w].b  k == worker[w].k IN
        Owns(w) /\ worker[w].pc \in {"working", "final"} =>
            /\ k # Snapshot => worker[w].inputs = inputs[b]
            /\ k = "export" => worker[w].content = content[b]
            /\ worker[w].inputs.files = inputs[b].files

\* The stored rows of a computed batch come from its present files, order,
\* sites and allowances.
ResultsOfCurrentInputs ==
    \A b \in Batches : batch[b] = "succeeded" => rows[b] = inputs[b]

\* A download shows the present rows, offline handling, transfers and splits of
\* a computed batch, and an export reported as succeeded has its download.
ExportOfCurrentContent ==
    \A b \in Batches :
        /\ zip[b] # NoZip => batch[b] = "succeeded" /\ zip[b] = content[b]
        /\ job[b]["export"].status = "succeeded" => zip[b] # NoZip

\* A self-operated batch is computed only from receipts that were checked
\* without open issues, a delivery batch only from inputs that passed preflight.
ComputedAfterCheck ==
    \A b \in Batches :
        batch[b] = "succeeded" \/ IsActive(job[b]["compute"]) =>
            IF b \in SelfOperated THEN receipts[b] = "ready"
                                  ELSE checked[b].passed = inputs[b]

\* An export or a download needs a computed batch: the export job is active only
\* then, although the same job row outlives recomputations.
ExportNeedsResults ==
    \A b \in Batches : IsActive(job[b]["export"]) => batch[b] = "succeeded"

\* WORKER_MAX_ATTEMPTS bounds the claims a job gets from one queueing, although
\* its attempts also count the claims of earlier queueings.
RunsBounded ==
    \A b \in Batches, k \in Kinds : job[b][k].runs <= MaxAttempts

(* Action properties. *)

\* Only a user's request reopens a computed batch: no failure, recovery, crash
\* or late worker takes a batch out of "succeeded".
OnlyRequestsReopen ==
    [][\A b \in Batches :
          batch[b] = "succeeded" /\ batch'[b] # "succeeded" => requests' # requests]_vars

(* Liveness. *)

\* A worker carries its claim to the end: files are read, APIs answer or time out.
Advance(w) ==
    \/ ReadInputs(w) \/ StopKeeper(w) \/ Publish(w) \/ PublishRefused(w) \/ Fail(w)
    \/ worker[w].pc = "claimed" /\ InputsRefused(w) /\ Raise(w)

ClaimSome(w) == \E b \in Batches, k \in Kinds : Claim(w, b, k)

\* The watcher scans again every minute and locked rows become free.
RecoverAll(w) ==
    /\ worker[w].pc # "down"
    /\ Abandoned(w) # {}
    /\ RecoverExcept(w, {})
    /\ UNCHANGED <<data, worker, claims, requests, crashes>>

\* Nobody renews the lease of a job whose keeper is gone.
MarkerLapses(b, k) ==
    /\ ~\E w \in Workers : worker[w].keeper = "beating" /\ Owns(w)
                            /\ worker[w].b = b /\ worker[w].k = k
    /\ MarkerAges(b, k)

Fairness ==
    /\ \A w \in Workers : /\ WF_vars(ClaimSome(w))
                          /\ WF_vars(Advance(w))
                          /\ WF_vars(Restart(w))
                          /\ WF_vars(RecoverAll(w))
    /\ \A b \in Batches, k \in Kinds : WF_vars(MarkerLapses(b, k))

FairSpec == Spec /\ Fairness

\* A batch at work: shown as such, or with a job queued or running.
AtWork(b) == batch[b] \in ActiveStatus \/ \E k \in Kinds : IsActive(job[b][k])

\* Work ends: whatever crashes, lost leases and recoveries happen on the way,
\* the hand-over from prepare to compute included, a batch comes to rest with
\* no job queued or running and no page showing it as such.
WorkSettles == \A b \in Batches : AtWork(b) ~> ~AtWork(b)
===============================================================================

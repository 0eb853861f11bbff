------------------------------ MODULE ExportFiles ------------------------------
(***************************************************************************)
(* The directories that hold the exports of a batch (workers/export_*.py)   *)
(* and the columns that name them: zip_path of the batch, result_path of    *)
(* its sources, output_path of its export job.  A worker writes an export   *)
(* into a temporary directory, renames it, registers it under its claim and *)
(* then removes the previous one; requests clear or keep the columns        *)
(* meanwhile.                                                               *)
(*                                                                         *)
(* This is one batch and its sources.  Jobs are queued, claimed and         *)
(* recovered as in BatchJobs; here a running job may be recovered at any    *)
(* moment, as if its heartbeat had stopped.  Each claim makes at most one   *)
(* directory, so a directory is named by the token of its claim.            *)
(***************************************************************************)
EXTENDS JobRecords, Functions

CONSTANTS
    Sources,        \* ids of the delivery files of the batch
    Workers,        \* processes that serve its queue
    MaxAttempts,    \* WORKER_MAX_ATTEMPTS
    MaxClaims,      \* bound: claims of the export job, an earlier one included
    MaxRequests,    \* bound: requests
    MaxFailures,    \* bound: calls of the database or the disk that fail in clean-ups
    MaxCrashes      \* bound: crashes

ASSUME ExportAssumption == Sources # {} /\ MaxAttempts \in Nat \ {0}
ASSUME ExportBoundsAssumption ==
    MaxClaims \in Nat \ {0} /\ {MaxRequests, MaxFailures, MaxCrashes} \subseteq Nat

Dirs == 1..MaxClaims
NoDir == 0

\* The export of an earlier release, which had no merged workbook.
Legacy == 1

VARIABLES
    selfOperated,   \* the kind of the batch
    batch,          \* "succeeded", "draft" when it must be computed again, "gone"
    job,            \* the row of the export job
    output,         \* output_path of the job
    zip,            \* zip_path
    result,         \* result_path of each source
    place,          \* where a directory is: "none", "tmp" or "published"
    registered,     \* history: the directories ever registered
    worker,         \* the workers
    deleting,       \* the files of the deleted batch are still to be removed
    lost,           \* history: a commit was not heard of
    claims, requests, failures, crashes     \* counters

columns == <<output, zip, result>>
counters == <<claims, requests, failures, crashes>>
vars == <<selfOperated, batch, job, columns, place, registered, worker, deleting, lost, counters>>

ExportWorker == [pc       : {"idle", "claimed", "loaded", "writing", "publish", "cleanup",
                             "removing", "discard", "unregistered", "raised"},
                 token    : Nat,
                 previous : SUBSET Dirs]    \* what the clean-up may remove

Idle == [pc |-> "idle", token |-> NoToken, previous |-> {}]

TypeOK ==
    /\ selfOperated \in BOOLEAN
    /\ batch \in {"succeeded", "draft", "gone"}
    /\ job \in JobRecord
    /\ output \in Dirs \cup {NoDir} /\ zip \in Dirs \cup {NoDir}
    /\ result \in [Sources -> Dirs \cup {NoDir}]
    /\ place \in [Dirs -> {"none", "tmp", "published"}]
    /\ registered \in SUBSET Dirs
    /\ worker \in [Workers -> ExportWorker]
    /\ deleting \in BOOLEAN /\ lost \in BOOLEAN
    /\ claims \in Nat /\ requests \in Nat /\ failures \in Nat /\ crashes \in Nat

NoResults == [f \in Sources |-> NoDir]
Named == ({output, zip} \cup Range(result)) \ {NoDir}

\* A batch that has just been computed, or one exported by an earlier release.
Init ==
    /\ selfOperated \in BOOLEAN
    /\ batch = "succeeded"
    /\ \E exported \in BOOLEAN :
          /\ job = IF exported THEN [NoJob EXCEPT !.status = "succeeded", !.attempts = 1]
                   ELSE IF selfOperated THEN Queued(NoJob, "export") ELSE NoJob
          /\ output = IF exported THEN Legacy ELSE NoDir
          /\ zip = output
          /\ result = [f \in Sources |-> output]
          /\ place = [d \in Dirs |-> IF d = output THEN "published" ELSE "none"]
          /\ registered = {output} \ {NoDir}
    /\ worker = [w \in Workers |-> Idle]
    /\ deleting = FALSE /\ lost = FALSE
    /\ claims = 1 /\ requests = 0 /\ failures = 0 /\ crashes = 0

-------------------------------------------------------------------------------
(* Workers. *)

Step(w, pc) == worker' = [worker EXCEPT ![w].pc = pc]
Dir(w) == worker[w].token

Owns(w) == job.status = "running" /\ job.token = worker[w].token

Failing == failures < MaxFailures /\ failures' = failures + 1

Claim(w) ==
    /\ worker[w].pc = "idle"
    /\ job.status = "queued"
    /\ claims < MaxClaims
    /\ claims' = claims + 1
    /\ job' = Claimed(job, claims')
    /\ worker' = [worker EXCEPT ![w] = [Idle EXCEPT !.pc = "claimed", !.token = claims']]
    /\ UNCHANGED <<selfOperated, batch, columns, place, registered, deleting, lost,
                   requests, failures, crashes>>

\* _load_export_inputs, _load_inbound_export_inputs; a batch that is not computed,
\* and any other error, ends in Raise
LoadInputs(w) ==
    /\ worker[w].pc = "claimed"
    /\ batch = "succeeded"
    /\ worker' = [worker EXCEPT ![w].pc = "loaded",
                                ![w].previous = ({zip} \cup Range(result)) \ {NoDir}]
    /\ UNCHANGED <<selfOperated, batch, job, columns, place, registered, deleting, lost, counters>>

\* _export_workspace
MakeWorkspace(w) ==
    /\ worker[w].pc = "loaded"
    /\ place' = [place EXCEPT ![Dir(w)] = "tmp"]
    /\ Step(w, "writing")
    /\ UNCHANGED <<selfOperated, batch, job, columns, registered, deleting, lost, counters>>

\* os.replace, when all files are written and the keeper has stopped; it fails if
\* the batch was deleted with its directories
MoveToPublished(w) ==
    /\ worker[w].pc = "writing"
    /\ place[Dir(w)] = "tmp"
    /\ place' = [place EXCEPT ![Dir(w)] = "published"]
    /\ Step(w, "publish")
    /\ UNCHANGED <<selfOperated, batch, job, columns, registered, deleting, lost, counters>>

\* _register_export; the worker may take a commit that succeeded for a failure
Register(w) ==
    /\ worker[w].pc = "publish"
    /\ Owns(w) /\ batch # "gone"
    /\ zip' = Dir(w)
    /\ output' = Dir(w)
    /\ result' = [f \in Sources |-> Dir(w)]
    /\ registered' = registered \cup {Dir(w)}
    /\ job' = Ended(job, "succeeded")
    /\ \/ /\ Step(w, "cleanup")
          /\ UNCHANGED <<lost, failures>>
       \/ /\ Failing
          /\ lost' = TRUE
          /\ Step(w, "discard")
    /\ UNCHANGED <<selfOperated, batch, place, deleting, claims, requests, crashes>>

\* Mutant of Raise: the published directory is forgotten.
RaiseAtOnce(w) ==
    /\ \/ worker[w].pc \in {"claimed", "loaded", "publish"} /\ Step(w, "raised")
       \/ worker[w].pc = "writing" /\ Step(w, "discard")
    /\ UNCHANGED <<selfOperated, batch, job, columns, place, registered, deleting, lost, counters>>

\* A lost lease, an error in the data, of the disk or of the database.
Raise(w) ==
    /\ \/ worker[w].pc \in {"claimed", "loaded"} /\ Step(w, "raised")
       \/ worker[w].pc \in {"writing", "publish"} /\ Step(w, "discard")
    /\ UNCHANGED <<selfOperated, batch, job, columns, place, registered, deleting, lost, counters>>

\* Mutant of IsRegistered: the path of the temporary directory is looked for.
NeverRegistered(w) == job.status = "succeeded" /\ output = Dir(w) /\ place[output] = "tmp"

\* _published_is_registered
IsRegistered(w) == job.status = "succeeded" /\ output = Dir(w)

\* _discard_failed_export: a directory that was renamed is kept if it is registered,
\* or if nobody can tell
Discard(w) ==
    /\ worker[w].pc = "discard"
    /\ \/ /\ place[Dir(w)] = "tmp"
          /\ place' = [place EXCEPT ![Dir(w)] = "none"]
          /\ Step(w, "raised")
          /\ UNCHANGED failures
       \/ /\ place[Dir(w)] = "none" \/ IsRegistered(w)
          /\ place[Dir(w)] # "tmp"
          /\ Step(w, "raised")
          /\ UNCHANGED <<place, failures>>
       \/ /\ place[Dir(w)] = "published" /\ ~IsRegistered(w)
          /\ Step(w, "unregistered")
          /\ UNCHANGED <<place, failures>>
       \/ /\ Failing
          /\ Step(w, "raised")
          /\ UNCHANGED place
    /\ UNCHANGED <<selfOperated, batch, job, columns, registered, deleting, lost,
                   claims, requests, crashes>>

\* ... and removed otherwise, after the session that looked for it.
RemoveOwn(w) ==
    /\ worker[w].pc = "unregistered"
    /\ \/ /\ place' = [place EXCEPT ![Dir(w)] = "none"]
          /\ UNCHANGED failures
       \/ Failing /\ UNCHANGED place
    /\ Step(w, "raised")
    /\ UNCHANGED <<selfOperated, batch, job, columns, registered, deleting, lost,
                   claims, requests, crashes>>

\* _fail_job
Fail(w) ==
    /\ worker[w].pc = "raised"
    /\ job' = IF Owns(w) THEN Ended(job, "failed") ELSE job
    /\ worker' = [worker EXCEPT ![w] = Idle]
    /\ UNCHANGED <<selfOperated, batch, columns, place, registered, deleting, lost, counters>>

\* _cleanup_previous_export_directories: what no column names any more ...
FindUnnamed(w) ==
    /\ worker[w].pc = "cleanup"
    /\ \/ /\ worker' = [worker EXCEPT ![w].pc = "removing",
                                      ![w].previous = @ \ (Named \cup {Dir(w)})]
          /\ UNCHANGED failures
       \/ /\ Failing
          /\ worker' = [worker EXCEPT ![w] = Idle]
    /\ UNCHANGED <<selfOperated, batch, job, columns, place, registered, deleting, lost,
                   claims, requests, crashes>>

\* ... is removed, one directory after the other, as far as possible.
RemovePrevious(w) ==
    /\ worker[w].pc = "removing"
    /\ \/ /\ worker[w].previous = {}
          /\ worker' = [worker EXCEPT ![w] = Idle]
          /\ UNCHANGED <<place, failures>>
       \/ \E d \in worker[w].previous :
             /\ worker' = [worker EXCEPT ![w].previous = @ \ {d}]
             /\ \/ place' = [place EXCEPT ![d] = "none"] /\ UNCHANGED failures
                \/ Failing /\ UNCHANGED place
    /\ UNCHANGED <<selfOperated, batch, job, columns, registered, deleting, lost,
                   claims, requests, crashes>>

\* The process dies and is started again.
Crash(w) ==
    /\ crashes < MaxCrashes
    /\ crashes' = crashes + 1
    /\ worker[w].pc # "idle"
    /\ worker' = [worker EXCEPT ![w] = Idle]
    /\ UNCHANGED <<selfOperated, batch, job, columns, place, registered, deleting, lost,
                   claims, requests, failures>>

\* _recover_batch_jobs
Recover ==
    /\ job.status = "running"
    /\ job' = Recovered(job, MaxAttempts)
    /\ UNCHANGED <<selfOperated, batch, columns, place, registered, worker, deleting, lost, counters>>

-------------------------------------------------------------------------------
(* Requests. *)

Request == requests < MaxRequests /\ requests' = requests + 1

ExportIdle == batch = "succeeded" /\ ~IsActive(job)

\* merged_export_ready, which a batch of one source never is
Several == \E f, g \in Sources : f # g
MergedReady == Several /\ zip \notin {NoDir, Legacy} /\ place[zip] = "published"

\* start_export: reset_batch_job clears output_path only
StartExport ==
    /\ Request
    /\ ExportIdle
    /\ job.status = "succeeded" => Several /\ ~MergedReady
    /\ job' = Queued(job, "export")
    /\ output' = NoDir
    /\ UNCHANGED <<selfOperated, batch, zip, result, place, registered, worker, deleting, lost,
                   claims, failures, crashes>>

\* save_offline, and a transfer: queue_followup_job with refresh
SaveOffline ==
    /\ Request
    /\ selfOperated
    /\ ExportIdle
    /\ job' = Queued(job, "export")
    /\ output' = NoDir /\ zip' = NoDir /\ result' = NoResults
    /\ UNCHANGED <<selfOperated, batch, place, registered, worker, deleting, lost,
                   claims, failures, crashes>>

\* save_split, for an exception of source f
SaveSplit(f) ==
    /\ Request
    /\ ~selfOperated
    /\ ExportIdle
    /\ job' = MarkedStale(job)
    /\ output' = NoDir /\ zip' = NoDir
    /\ result' = [result EXCEPT ![f] = NoDir]
    /\ UNCHANGED <<selfOperated, batch, place, registered, worker, deleting, lost,
                   claims, failures, crashes>>

\* invalidate_receipts keeps output_path ...
Invalidate ==
    /\ Request
    /\ selfOperated /\ batch # "gone" /\ ~IsActive(job)
    /\ job' = MarkedStale(job)
    /\ zip' = NoDir /\ result' = NoResults
    /\ batch' = "draft"
    /\ UNCHANGED <<selfOperated, output, place, registered, worker, deleting, lost,
                   claims, failures, crashes>>

\* ... prepare_recompute does not.
Recompute ==
    /\ Request
    /\ selfOperated /\ ExportIdle
    /\ job' = Cleared(job)
    /\ output' = NoDir /\ zip' = NoDir /\ result' = NoResults
    /\ batch' = "draft"
    /\ UNCHANGED <<selfOperated, place, registered, worker, deleting, lost,
                   claims, failures, crashes>>

\* A compute job ends (_save_inbound_compute) and queues the export.
Compute ==
    /\ batch = "draft"
    /\ batch' = "succeeded"
    /\ zip' = NoDir /\ result' = NoResults
    /\ job' = ResetJob(job, "export", FALSE)
    /\ output' = IF job' = job THEN output ELSE NoDir
    /\ UNCHANGED <<selfOperated, place, registered, worker, deleting, lost, counters>>

\* delete_selected: the rows go, ...
Delete ==
    /\ Request
    /\ batch # "gone" /\ ~IsActive(job)
    /\ batch' = "gone"
    /\ job' = NoJob
    /\ output' = NoDir /\ zip' = NoDir /\ result' = NoResults
    /\ deleting' = TRUE
    /\ UNCHANGED <<selfOperated, place, registered, worker, lost, claims, failures, crashes>>

\* ... and after the commit the directory of the batch with all that is in it.
RemoveRoot ==
    /\ deleting
    /\ deleting' = FALSE
    /\ \/ place' = [d \in Dirs |-> "none"] /\ UNCHANGED failures
       \/ Failing /\ UNCHANGED place
    /\ UNCHANGED <<selfOperated, batch, job, columns, registered, worker, lost,
                   claims, requests, crashes>>

-------------------------------------------------------------------------------
Next ==
    \/ \E w \in Workers :
          \/ Claim(w) \/ LoadInputs(w) \/ MakeWorkspace(w) \/ MoveToPublished(w) \/ Register(w)
          \/ Raise(w) \/ Discard(w) \/ RemoveOwn(w) \/ Fail(w)
          \/ FindUnnamed(w) \/ RemovePrevious(w) \/ Crash(w)
    \/ Recover
    \/ StartExport \/ SaveOffline \/ Invalidate \/ Recompute \/ Compute \/ Delete \/ RemoveRoot
    \/ \E f \in Sources : SaveSplit(f)

Spec == Init /\ [][Next]_vars

-------------------------------------------------------------------------------
(* Safety. *)

\* What can be downloaded is there: the directory of the archive, always, whatever
\* workers lose their claims, crash, or take a commit for a failure; and the
\* directories of the sources' files, except after a commit that was taken for a
\* failure: if a split is saved before the worker looks whether its export is
\* registered, it removes the directory although other sources still name it.
DownloadsExist ==
    /\ zip # NoDir => place[zip] = "published"
    /\ ~lost => \A f \in Sources : result[f] # NoDir => place[result[f]] = "published"

\* Without crashes and failing calls, an attempt that is not registered leaves nothing
\* on disk, and a deleted batch leaves nothing at all, even if a worker that lost its
\* claim went on writing.
NothingLeftBehind ==
    failures = 0 /\ crashes = 0 /\ ~deleting /\ (\A w \in Workers : worker[w].pc = "idle") =>
        \A d \in Dirs : place[d] # "none" => d \in registered /\ batch # "gone"
===============================================================================

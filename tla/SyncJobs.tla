------------------------------- MODULE SyncJobs -------------------------------
(***************************************************************************)
(* Syncs with the purchase system and the versions of one kind of input     *)
(* (web/sync/commands.py, workers/sync_*.py, web/input_versions.py).  A     *)
(* sync is a row of its table: started by an administrator while no other   *)
(* one is active, claimed and renewed like any job, and ended by writing a  *)
(* workbook and registering it as an inactive version.  Administrators      *)
(* upload and activate versions meanwhile.                                  *)
(*                                                                         *)
(* The two tables (PurchaseSyncJob, SelfOperatedInboundSyncJob) run the     *)
(* same code; this is one of them.  The orders that are collected are left  *)
(* out: a workbook is named by the claim that wrote it.                     *)
(***************************************************************************)
EXTENDS JobRecords, FiniteSets

CONSTANTS
    Syncs,          \* ids of sync rows; also the version registered by that sync
    Uploads,        \* ids of uploaded versions
    Workers,        \* processes that serve the queue of this table
    Admins,         \* administrators at work on the versions
    NoSync,         \* none of the syncs
    MaxAttempts,    \* WORKER_MAX_ATTEMPTS
    MaxTime,        \* bound: seconds, as far as file names tell them apart
    MaxCrashes      \* bound: crashes of workers

Versions == Syncs \cup Uploads

ASSUME SyncsAssumption == NoSync \notin Syncs /\ Syncs \cap Uploads = {}
ASSUME SyncAttemptsAssumption == MaxAttempts \in Nat \ {0}
ASSUME SyncBoundsAssumption == MaxTime \in Nat \ {0} /\ MaxCrashes \in Nat

VARIABLES
    sync,       \* the rows
    version,    \* the versions of the kind: "absent", "inactive" or "active"
    stamp,      \* stamp[s]: the second in the name of the file registered for s
    disk,       \* disk[s][t]: the claim that wrote that file last, or NoFile
    writers,    \* history: the claims that ever wrote it
    worker,     \* the workers
    admin,      \* the requests on versions under way
    clock,      \* the second it is
    claims,     \* claims so far
    crashes     \* crashes so far

vars == <<sync, version, stamp, disk, writers, worker, admin, clock, claims, crashes>>
requests == <<version, stamp, admin>>
files == <<disk, writers, clock>>

NoFile == 0
Times == 1..MaxTime
EndedSync == {"succeeded", "blocked", "failed"}

SyncRecord == [status   : {"absent"} \cup ActiveStatus \cup EndedSync,
               slot     : BOOLEAN,      \* active_slot = 1
               attempts : Nat,
               token    : Nat,
               marker   : {"unset", "fresh", "old"}]

SyncWorker == [pc     : {"idle", "claimed", "findings", "written", "block", "publish",
                         "discard", "unlink", "raised", "down"},
               s      : Syncs \cup {NoSync},
               token  : Nat,
               keeper : {"off", "beating", "failed"},
               time   : Times]

NoWork == [pc |-> "idle", s |-> NoSync, token |-> NoToken, keeper |-> "off", time |-> 1]

\* snap is what the locking statement of a request sees.
VersionRequest == [pc    : {"idle", "activate", "upload"},
                   v     : Versions,
                   early : BOOLEAN,     \* the file was looked for before the locks
                   snap  : SUBSET Versions]

NoRequest(v) == [pc |-> "idle", v |-> v, early |-> FALSE, snap |-> {}]

TypeOK ==
    /\ sync \in [Syncs -> SyncRecord]
    /\ version \in [Versions -> {"absent", "inactive", "active"}]
    /\ stamp \in [Syncs -> Times]
    /\ disk \in [Syncs -> [Times -> Nat]]
    /\ writers \in [Syncs -> [Times -> SUBSET Nat]]
    /\ worker \in [Workers -> SyncWorker]
    /\ admin \in [Admins -> VersionRequest]
    /\ clock \in Times
    /\ claims \in Nat /\ crashes \in Nat

Init ==
    /\ sync = [s \in Syncs |-> [status |-> "absent", slot |-> FALSE, attempts |-> 0,
                                token |-> NoToken, marker |-> "unset"]]
    /\ version = [v \in Versions |-> "absent"]
    /\ stamp = [s \in Syncs |-> 1]
    /\ disk = [s \in Syncs |-> [t \in Times |-> NoFile]]
    /\ writers = [s \in Syncs |-> [t \in Times |-> {}]]
    /\ worker = [w \in Workers |-> NoWork]
    /\ \E v \in Versions : admin = [a \in Admins |-> NoRequest(v)]
    /\ clock = 1
    /\ claims = 0
    /\ crashes = 0

-------------------------------------------------------------------------------
(* Rows. *)

\* start_purchase_sync, start_self_operated_inbound_sync: no row holds the slot
\* when it is looked for, and the unique index refuses a second one at the end.
StartSync(s) ==
    /\ sync[s].status = "absent"
    /\ \A other \in Syncs : ~sync[other].slot
    /\ sync' = [sync EXCEPT ![s].status = "queued", ![s].slot = TRUE]
    /\ UNCHANGED <<requests, files, worker, claims, crashes>>

MySync(w) == sync[worker[w].s]

\* _load_owned_sync_job, and the conditions of _sync_heartbeat and _fail_sync_job
Owns(w) ==
    /\ worker[w].s \in Syncs
    /\ MySync(w).status = "running" /\ MySync(w).token = worker[w].token

\* _claim_sync_job, _claim_purchase_work
Claim(w, s) ==
    /\ worker[w].pc = "idle"
    /\ sync[s].status = "queued"
    /\ claims' = claims + 1
    /\ sync' = [sync EXCEPT ![s].status = "running", ![s].attempts = @ + 1,
                            ![s].token = claims', ![s].marker = "fresh"]
    /\ worker' = [worker EXCEPT ![w] = [NoWork EXCEPT !.pc = "claimed", !.s = s,
                                          !.token = claims', !.keeper = "beating"]]
    /\ UNCHANGED <<requests, files, crashes>>

\* The keeper's heartbeat, or the progress reported while orders are collected
Heartbeat(w) ==
    /\ Owns(w)
    /\ worker[w].keeper = "beating" \/ worker[w].pc = "claimed"
    /\ sync' = [sync EXCEPT ![worker[w].s].marker = "fresh"]
    /\ UNCHANGED <<requests, files, worker, claims, crashes>>

KeeperFails(w) ==
    /\ worker[w].keeper = "beating"
    /\ worker' = [worker EXCEPT ![w].keeper = "failed"]
    /\ UNCHANGED <<sync, requests, files, claims, crashes>>

\* Any exception before the keeper is stopped, or of the database when a blocked
\* sync is saved: the purchase system fails, the lease is found lost, the workbook
\* cannot be read back, which leaves its file behind.
Raise(w) ==
    /\ worker[w].pc \in {"claimed", "findings", "written", "block"}
    /\ worker' = [worker EXCEPT ![w].pc = "raised", ![w].keeper = "off"]
    /\ UNCHANGED <<sync, requests, files, claims, crashes>>

\* The orders have issues: there will be no version.
Find(w) ==
    /\ worker[w].pc = "claimed"
    /\ worker' = [worker EXCEPT ![w].pc = "findings"]
    /\ UNCHANGED <<sync, requests, files, claims, crashes>>

\* The workbook is named after the sync and the second, and written in place.
WriteCandidate(w) ==
    /\ worker[w].pc = "claimed"
    /\ disk' = [disk EXCEPT ![worker[w].s][clock] = worker[w].token]
    /\ writers' = [writers EXCEPT ![worker[w].s][clock] = @ \cup {worker[w].token}]
    /\ worker' = [worker EXCEPT ![w].pc = "written", ![w].time = clock]
    /\ UNCHANGED <<sync, requests, clock, claims, crashes>>

\* before_finalize: the keeper ends and hands over its error; a candidate that
\* is not published is discarded.
StopKeeper(w) ==
    LET failed == worker[w].keeper = "failed" IN
    /\ \/ /\ worker[w].pc = "findings"
          /\ worker' = [worker EXCEPT ![w].pc = IF failed THEN "raised" ELSE "block",
                                      ![w].keeper = "off"]
       \/ /\ worker[w].pc = "written"
          /\ worker' = [worker EXCEPT ![w].pc = IF failed THEN "discard" ELSE "publish",
                                      ![w].keeper = "off"]
    /\ UNCHANGED <<sync, requests, files, claims, crashes>>

\* Mutant of EndedRow: the slot is forgotten.
EndedKeepingSlot(row, outcome) == Ended(row, outcome)

\* What every end of a sync writes.
EndedRow(row, outcome) == [Ended(row, outcome) EXCEPT !.slot = FALSE]

\* _block_sync
Block(w) ==
    /\ worker[w].pc = "block"
    /\ IF Owns(w)
       THEN /\ sync' = [sync EXCEPT ![worker[w].s] = EndedRow(@, "blocked")]
            /\ worker' = [worker EXCEPT ![w] = NoWork]
       ELSE /\ worker' = [worker EXCEPT ![w].pc = "raised"]
            /\ UNCHANGED sync
    /\ UNCHANGED <<requests, files, claims, crashes>>

\* _publish_sync_candidate; the commit may succeed without the worker being told
Publish(w) ==
    LET s == worker[w].s IN
    /\ worker[w].pc = "publish"
    /\ Owns(w)
    /\ version' = [version EXCEPT ![s] = "inactive"]
    /\ stamp' = [stamp EXCEPT ![s] = worker[w].time]
    /\ sync' = [sync EXCEPT ![s] = EndedRow(@, "succeeded")]
    /\ worker' \in {[worker EXCEPT ![w] = NoWork], [worker EXCEPT ![w].pc = "discard"]}
    /\ UNCHANGED <<admin, files, claims, crashes>>

\* LostJobLeaseError, or the database refuses
PublishFails(w) ==
    /\ worker[w].pc = "publish"
    /\ worker' = [worker EXCEPT ![w].pc = "discard"]
    /\ UNCHANGED <<sync, requests, files, claims, crashes>>

\* Mutant of Registered: the file is taken for nobody's.
NeverRegistered(w) == worker[w].pc # "discard"

\* A version names the file of this worker.
Registered(w) ==
    version[worker[w].s] # "absent" /\ stamp[worker[w].s] = worker[w].time

\* _discard_unregistered_sync_candidate: the file stays if a version names it, or
\* if nobody can tell ...
CheckReference(w) ==
    /\ worker[w].pc = "discard"
    /\ \/ worker' = [worker EXCEPT ![w].pc = "raised"]
       \/ /\ ~Registered(w)
          /\ worker' = [worker EXCEPT ![w].pc = "unlink"]
    /\ UNCHANGED <<sync, requests, files, claims, crashes>>

\* ... and goes otherwise, when the session has ended.
Unlink(w) ==
    /\ worker[w].pc = "unlink"
    /\ disk' = [disk EXCEPT ![worker[w].s][worker[w].time] = NoFile]
    /\ worker' = [worker EXCEPT ![w].pc = "raised"]
    /\ UNCHANGED <<sync, requests, writers, clock, claims, crashes>>

\* Mutant of Fail: the row fails whoever owns it now.
FailAnyway(w) ==
    /\ worker[w].pc = "raised"
    /\ sync' = [sync EXCEPT ![worker[w].s] = EndedRow(@, "failed")]
    /\ worker' = [worker EXCEPT ![w] = NoWork]
    /\ UNCHANGED <<requests, files, claims, crashes>>

\* _fail_sync_job: nothing to do for a worker that lost its claim or published
Fail(w) ==
    /\ worker[w].pc = "raised"
    /\ sync' = IF Owns(w) THEN [sync EXCEPT ![worker[w].s] = EndedRow(@, "failed")] ELSE sync
    /\ worker' = [worker EXCEPT ![w] = NoWork]
    /\ UNCHANGED <<requests, files, claims, crashes>>

Crash(w) ==
    /\ crashes < MaxCrashes
    /\ crashes' = crashes + 1
    /\ worker[w].pc # "down"
    /\ worker' = [worker EXCEPT ![w] = [NoWork EXCEPT !.pc = "down"]]
    /\ UNCHANGED <<sync, requests, files, claims>>

MarkerAges(s) ==
    /\ sync[s].status = "running" /\ sync[s].marker = "fresh"
    /\ sync' = [sync EXCEPT ![s].marker = "old"]
    /\ UNCHANGED <<requests, files, worker, claims, crashes>>

\* _recover_sync_jobs on one row: a sync that is given up frees its slot
RecoverRow(row) ==
    IF row.attempts >= MaxAttempts THEN EndedRow(row, "failed") ELSE Recovered(row, MaxAttempts)

\* The scan of a watcher takes the abandoned rows that nobody has locked.
Recover(w, s) ==
    /\ worker[w].pc # "down"
    /\ IsAbandoned(sync[s])
    /\ sync' = [sync EXCEPT ![s] = RecoverRow(@)]
    /\ UNCHANGED <<requests, files, worker, claims, crashes>>

\* main() scans once before it claims.
Restart(w) ==
    /\ worker[w].pc = "down"
    /\ \E taken \in SUBSET {s \in Syncs : IsAbandoned(sync[s])} :
          sync' = [s \in Syncs |-> IF s \in taken THEN RecoverRow(sync[s]) ELSE sync[s]]
    /\ worker' = [worker EXCEPT ![w] = NoWork]
    /\ UNCHANGED <<requests, files, claims, crashes>>

Tick ==
    /\ clock < MaxTime
    /\ clock' = clock + 1
    /\ UNCHANGED <<sync, requests, disk, writers, worker, claims, crashes>>

-------------------------------------------------------------------------------
(* Versions.  A request locks all rows of the kind that its statement sees, in  *)
(* the order of their ids, and reads their present values under the locks; the  *)
(* version it activates is set whatever value the session still has of it.      *)

Present == {v \in Versions : version[v] # "absent"}

HasFile(v) == v \in Syncs => disk[v][stamp[v]] # NoFile

\* activate_self_operated_inbound_sync looks for the file of the candidate first,
\* activate_input_version_record does so under the locks.
BeginActivate(a, v) ==
    /\ admin[a].pc = "idle"
    /\ v \in Present
    /\ \E early \in BOOLEAN :
          /\ early => v \in Syncs /\ sync[v].status = "succeeded" /\ HasFile(v)
          /\ admin' = [admin EXCEPT ![a] = [pc |-> "activate", v |-> v, early |-> early,
                                            snap |-> Present]]
    /\ UNCHANGED <<sync, version, stamp, files, worker, claims, crashes>>

\* upload_input_version with activate: register_uploaded_input_version
BeginUpload(a, v) ==
    /\ admin[a].pc = "idle"
    /\ v \in Uploads /\ version[v] = "absent"
    /\ \A other \in Admins : admin[other].pc = "upload" => admin[other].v # v
    /\ admin' = [admin EXCEPT ![a] = [pc |-> "upload", v |-> v, early |-> FALSE,
                                      snap |-> Present]]
    /\ UNCHANGED <<sync, version, stamp, files, worker, claims, crashes>>

\* ... and without
UploadInactive(v) ==
    /\ v \in Uploads /\ version[v] = "absent"
    /\ \A a \in Admins : admin[a].pc = "upload" => admin[a].v # v
    /\ version' = [version EXCEPT ![v] = "inactive"]
    /\ UNCHANGED <<sync, stamp, files, worker, admin, claims, crashes>>

\* Mutant of SeesActive: no unique index.
NoIndex(a) == admin[a].pc # "idle"

\* uq_active_input_kind: an active version that the statement did not see stays
\* active, and the commit is refused.
SeesActive(a) == \A v \in Versions \ admin[a].snap : version[v] # "active"

MayActivate(a) ==
    /\ SeesActive(a)
    /\ admin[a].pc = "activate" /\ ~admin[a].early => HasFile(admin[a].v)

Commit(a) ==
    /\ admin[a].pc # "idle"
    /\ MayActivate(a)
    /\ version' = [v \in Versions |-> IF v = admin[a].v THEN "active"
                                      ELSE IF v \in admin[a].snap THEN "inactive"
                                      ELSE version[v]]
    /\ admin' = [admin EXCEPT ![a] = NoRequest(@.v)]
    /\ UNCHANGED <<sync, stamp, files, worker, claims, crashes>>

\* Mutant of Refuse: the old version was deactivated in a transaction of its own.
RefuseHalfway(a) ==
    /\ admin[a].pc # "idle"
    /\ version' = [v \in Versions |-> IF v \in admin[a].snap THEN "inactive" ELSE version[v]]
    /\ admin' = [admin EXCEPT ![a] = NoRequest(@.v)]
    /\ UNCHANGED <<sync, stamp, files, worker, claims, crashes>>

\* A missing file, a conflict, or any error: everything is rolled back.
Refuse(a) ==
    /\ admin[a].pc # "idle"
    /\ admin' = [admin EXCEPT ![a] = NoRequest(@.v)]
    /\ UNCHANGED <<sync, version, stamp, files, worker, claims, crashes>>

-------------------------------------------------------------------------------
Next ==
    \/ \E s \in Syncs : StartSync(s) \/ MarkerAges(s)
    \/ \E w \in Workers :
          \/ \E s \in Syncs : Claim(w, s) \/ Recover(w, s)
          \/ Heartbeat(w) \/ KeeperFails(w) \/ Raise(w) \/ Find(w) \/ WriteCandidate(w)
          \/ StopKeeper(w) \/ Block(w) \/ Publish(w) \/ PublishFails(w)
          \/ CheckReference(w) \/ Unlink(w) \/ Fail(w) \/ Crash(w) \/ Restart(w)
    \/ \E a \in Admins :
          \/ \E v \in Versions : BeginActivate(a, v) \/ BeginUpload(a, v)
          \/ Commit(a) \/ Refuse(a)
    \/ \E v \in Versions : UploadInactive(v)
    \/ Tick

Spec == Init /\ [][Next]_vars

-------------------------------------------------------------------------------
(* Safety. *)

\* There is at most one active sync, and the slot that keeps others from starting
\* is held exactly by it: every way to end a sync (published, blocked, failed,
\* given up by recovery) frees the slot, none frees it early.
OneActiveSync ==
    /\ \A s \in Syncs : sync[s].slot <=> IsActive(sync[s])
    /\ \A s, r \in Syncs : IsActive(sync[s]) /\ IsActive(sync[r])
          => s = r

\* A sync has registered its version exactly if it succeeded: a worker that lost
\* its claim registers nothing, and a failure that is reported after the commit
\* does not turn a published sync into a failed one.
VersionIffSucceeded ==
    \A s \in Syncs : version[s] # "absent" <=> sync[s].status = "succeeded"

\* No two versions of the kind are active, with any mixture of uploads and
\* activations under way, the first uploads included, which find no row to lock.
OneActiveVersion ==
    \A v, u \in Versions : version[v] = "active" /\ version[u] = "active" => v = u

\* The file of a candidate is there and is what its sync wrote, although workers
\* that lost their claim write files of the same sync and discard them: unless
\* two of them wrote in the same second.
CandidateFiles ==
    \A s \in Syncs : version[s] # "absent" =>
        LET t == stamp[s] IN Cardinality(writers[s][t]) = 1 => writers[s][t] = {disk[s][t]}

(* Action properties. *)

\* Once a version is active some version is, at every moment: whatever request is
\* refused, or fails halfway, the old version stays in use.
SomeVersionStaysActive ==
    [][(\E v \in Versions : version[v] = "active")
          => \E v \in Versions : version'[v] = "active"]_vars

\* _discard_unregistered_sync_candidate "only removes a candidate file of this sync
\* of which it has confirmed that no version refers to it" (workers/sync_results.py:25).
RemovesOnlyUnreferenced ==
    [][\A s \in Syncs, t \in Times :
          disk[s][t] # NoFile /\ disk'[s][t] = NoFile
             => version[s] = "absent" \/ stamp[s] # t]_vars

(* Liveness. *)

\* A worker carries its claim to the end: calls to the purchase system time out.
Advance(w) ==
    \/ Find(w) \/ WriteCandidate(w) \/ StopKeeper(w) \/ Block(w) \/ Publish(w)
    \/ ~Owns(w) /\ PublishFails(w)
    \/ CheckReference(w) \/ Unlink(w) \/ Fail(w)

\* Nobody renews the lease of a sync whose keeper is gone.
MarkerLapses(s) ==
    /\ ~\E w \in Workers : worker[w].keeper = "beating" /\ Owns(w) /\ worker[w].s = s
    /\ MarkerAges(s)

Fairness ==
    /\ \A w \in Workers : /\ WF_vars(\E s \in Syncs : Claim(w, s))
                          /\ WF_vars(Advance(w))
                          /\ WF_vars(Restart(w))
                          /\ WF_vars(\E s \in Syncs : Recover(w, s))
    /\ \A s \in Syncs : WF_vars(MarkerLapses(s))

FairSpec == Spec /\ Fairness

\* Every sync ends and frees its slot, so that the next one can be started.
SyncsSettle ==
    \A s \in Syncs : IsActive(sync[s]) ~> sync[s].status \in EndedSync /\ ~sync[s].slot
===============================================================================

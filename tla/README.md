# Formal model of the delivery-note service

The repository is a web service (`src/delivery_note/web`), a pool of worker processes
(`src/delivery_note/worker.py`, `src/delivery_note/workers`) and a set of pure algorithms on
workbooks (`processing`, `inbound`). Users upload delivery workbooks into *batches*; background
jobs check the receipts of a batch, compute its import rows and export them; users then edit
what the computation could not decide, and export again. Scripts (`src/scripts`) release, back up and
clean up the deployment. This directory holds TLA+ modules
that model the service, TLC configurations that check them on small instances, and proofs
checked by TLAPS.

## Inventory

| component | state it keeps | operations | interacts with |
|---|---|---|---|
| job rows (`job_queues.py`, `web/job_queue.py`, `web/models/jobs.py`) | one `Job` row per batch and kind (prepare, compute, export, purchase snapshot): status, attempts, claim token, heartbeat | `reset_batch_job`, `queue_followup_job` | requests queue rows, workers claim them |
| workers (`worker.py`, `workers/leases.py`, `recovery.py`, `scheduler.py`) | current claim, keeper thread, watcher thread | claim, heartbeat, finalize, fail, recover, crash, restart | database rows, executors |
| executors (`workers/compute_*.py`, `prepare_inbound.py`, `export_*.py`, `purchase_snapshot.py`) | none between transactions | read inputs, publish results under the claim token | batches, files, export directories |
| batch requests (`web/job_routes.py`, `receipt_*.py`, `batch_*.py`, `dependencies.py`) | `Batch.status`, files, receipts, results, download path | edit files, check, compute, export, snapshot, delete | job rows |
| manual handling (`web/manual_handling*.py`, `exception_*.py`) | offline quantities, allowances, transfers between batches, splits | save offline, save allowance, transfer, split | job rows, another batch |
| export files (`workers/export_files.py`) | directories on disk, `zip_path`, `result_path` | publish by rename, register, discard, clean up | download requests |
| sync jobs and input versions (`web/sync`, `workers/sync_*.py`, `web/input_versions.py`) | one active sync per kind, candidate and active versions | start, claim, publish, activate, retire | batches pin a version |
| position drafts and rule versions (`web/position_*.py`, `web/rule_versions.py`) | one draft with its base version, append-only rules | edit, import, publish, discard | input versions |
| allocation (`processing`, `inbound`, `application.py`) | none | pure functions on rows | compute executors |
| purchase details (`purchase_detail_cache.py`, `gerpgo.py`, `workers/purchase_*.py`) | the cache file `purchase-details-v1.json`, one run's plan | list, plan, fetch, compare, write the cache | the purchase system, sync jobs, input versions |
| operations scripts (`src/scripts`) | the lock file, containers, images and tags, backup directories, quarantine manifest | publish backend or web, migrate, back up, prune, quarantine and restore directories | every service, the database, export directories |
| the rest | sessions, workbook parsing, read endpoints, one-off migrations, command line, the frontend | | |

What is hard in it:

* *Interleaving.* Every request is a transaction that locks its batch row and commits once; a
  worker is a *sequence* of transactions with minutes between them, and requests, other workers,
  its own keeper thread and the recovery thread of any worker of the same queue run in between.
* *Failure.* A worker may die anywhere, lose its lease without noticing, be given up on and come
  back, or fail on its data. Recovery requeues its row up to `--max-attempts` claims.
* *Ordering.* prepare queues compute, compute queues export, each in the transaction that ends
  the earlier job; a request may reset any of them.
* *Stale state.* Preflight, compute and export read in one transaction and decide in another; a purchase
  sync publishes details it cached on an earlier run.
* *Commands without transactions.* A maintenance script is a sequence of docker commands, each of which may
  fail with part of its effect, time out while its work goes on, or be the last thing the script does.

What makes each component correct: `batch.status` agrees with the job rows; one owner per claim;
a bounded number of runs; results and downloads describe the present inputs and edits of the
batch; a batch is computed only after its check; nothing but a request reopens a computed batch;
every job ends. One sync is active, exactly what succeeded has a version,
and its file is there; a kind of input has one active version, and never none again. A change of
a draft builds on what its author saw, versions of the positions replace each other one at a time
and their files hold what was published. The directory of an export that can be downloaded
exists, and exports that failed leave nothing behind. No record gives away more than its quantity,
its status and its stored input agree with that, and what was transferred stays accounted for. An allocation
conserves quantities, takes them from its sources in order and leaves to users only what no source had.
What has arrived is subtracted from, received by or left beside the inbound orders exactly once, over all
files and over repeated fetches of the history. Published purchase details are of the day, the source and
the row they are published with. A migration runs alone, maintenance leaves the services as it reports and cuts
no job short unless it goes back, there is always a backup to restore from, and what is taken to quarantine is
needed by no download.

`PROJECT.json` lists the hazards at their lines with the properties that cover them.

## Plan

1. `JobRecords`, `BatchJobs`: batches, jobs, workers, requests. *Done.*
2. `BatchJobsProofs`: type correctness, exclusive claims, bounded runs, and every safety property of
   the two runs of `BatchJobs`. *Done.*
3. `JobBoard`: the abstract specification of one job (queued, run at most MaxAttempts times by one
   owner, ended once), which `BatchJobs` implements; a property of a run first, then a theorem.
4. `PositionDrafts`: concurrent edits, imports and publication, with every property of its run in
   `EditingProofs`. *Done.*
5. `SyncJobs` with input versions: the active slot, lease, candidate, activation; `PurchaseDetails`, the
   cache of purchase details and what a purchase sync publishes from it. Every safety property of their runs is
   proved in `SyncJobsProofs` and `PurchaseProofs`. *Done.*
6. `ExportFiles`: publication by rename, registration, discard and clean-up with crashes; `StorageQuarantine`
   on top of it, with every property of their run in `StorageProofs`. *Done.*
7. `ExceptionHandling`: quantities, transfers, splits and offline handling, with every property of the run in
   `EditingProofs`. *Done.* Next: the row locks, and the target batches of transfers.
8. `PurchaseQuota`, `DeliveryAllocation`: the allocation of delivery batches against the abstract specification
   of what it promises, conservation and the order of sources; in `PurchaseProofs` all of them, the refinement
   included. *Done.*
9. `InboundAllocation`: preflight and allocation of self-operated batches over receipts, history and
   additions (`inbound`, `self_operated_inbound.py`), with every property of the run in `InboundProofs`. *Done.*
   Next: whether an allowance should be whole again after the history is refreshed.
10. `Services`, `Releases`, `Backups`, composed in `Maintenance`: the operations scripts, with every property of
   the run in `MaintenanceProofs`. *Done.* Next: several releases, one after a failed one.
11. The reason of an exception: whether a later file should be told that nothing was ordered when an
   earlier file has used it up (`processing/allocation.py:139`).

Modules meant for proofs use no RECURSIVE operator.

## Modules

### JobRecords

The row of a job and what each transaction makes of it, as operators on records: `Queued`,
`KeptByReset` and `ResetJob` (`reset_batch_job`), `Claimed` (`_mark_claimed`), `IsAbandoned` and
`Recovered` (`_recover_batch_jobs`), `Ended` (`mark_compute_succeeded`, `_fail_job`),
`MarkedStale` (`invalidate_receipts`) and `Cleared` (`prepare_recompute`). Claim tokens are uuid4
values in the code and successive numbers here: only their being distinct matters.
`heartbeat_at` is compared with one cutoff, so it is `"fresh"`, `"old"` or `"unset"`. `runs` is a
history field: the claims since the row was last queued by a request or by another job.

### BatchJobs

| variable | code |
|---|---|
| `job[b][k]` | the `Job` row of batch `b` and kind `k` |
| `batch[b]` | `Batch.status`; `"gone"` after `delete_selected` |
| `receipts[b]` | what `require_receipts` would answer: no summary, open issues, ready |
| `linked[b]` | whether `require_no_transfer_links` would refuse |
| `inputs[b]` | the version of files and settings (order, sites, allowances, history date) |
| `checked[b]` | delivery preflight: the inputs read by a running one, the inputs the last one passed |
| `rows[b]` | the inputs the stored allocation rows came from |
| `content[b]`, `zip[b]` | the version of what an export shows, and the version `zip_path` holds |
| `worker[w]` | the process: where it is, its claim, its keeper, what it read |
| `claims`, `requests`, `crashes` | counters; the last two carry the bounds |

Each request handler is one action: it locks its batch row, does everything and commits once,
and a raised `HTTPException` rolls everything back, so a refused request is not a step. The
exception is delivery preflight (`PreflightRead`, `PreflightDecide`), which reads before it
locks. A handler's guards are the code's conditions in `get_editable_batch`
(`Editable`), `require_receipts` (`ReceiptsPass`), `invalidate_receipts` (`MayInvalidate`),
`recompute_disabled_reason` (`MayRecompute`) and its own early returns. `StartExport` and
`LoadSnapshot` are steps only when they queue something.

A worker goes `idle → claimed → working → final → idle`: `Claim`, `ReadInputs`, `StopKeeper`,
one of the `Publish` actions; every exception leads to `raised` and from there to `Fail`, which
does nothing for a worker whose claim was taken away. `Heartbeat` and `KeeperFails` happen in
between, `MarkerAges` is time passing, `Recover` is the watcher thread of a worker that is up,
`Crash` and `Restart` the process. `skip_locked` is the choice of any queued row in `Claim` and of
any subset of abandoned rows in `Recover`.

Each mutant named in `PROJECT.json` is an operator just before the definition it would replace:
that definition with a plausible bug. They are never used by the specification.

### MCBatchJobs

The queue tables of the instances. The first worker serves every queue (`--queue all`), the second
only batch jobs, as the worker containers do. `Init` lets any batch be new or deleted; `OneBatchSpec`
leaves one batch, of either kind.

### PositionDrafts

Several administrators, each with a page that shows one draft of the storage positions at one
revision, and one API process whose handlers interleave.

| variable | code |
|---|---|
| `version`, `disk` | the `InputVersion` rows of kind `position` and the contents of their files |
| `origin` | history: the draft a version was published from |
| `frames[v]` | the rows `PositionFrameCache` may still hold of a version whose file is gone |
| `unheard` | history: versions whose commit was not heard of |
| `draft[d]` | the `InputDraft` row: state, base version, revision, and its rows as one *content* |
| `analyses` | `DraftAnalysisCache`: what is shown for a draft and a revision |
| `previews` | the import candidates: draft, revision, administrator and the rows compared with |
| `admin[a]` | the page of `a` and the request under way: what it loaded, was shown, wrote to a file |
| `locked` | who holds the locks on the rows of the versions |
| `contents`, `failures` | counters; `failures` are restarts and commits not heard of |

A content is a number drawn afresh by every change, so that two contents are equal only if nobody
wrote in between. Sessions read committed rows, and an object that a session has loaded
keeps its values until it is refreshed: `Load` reads the draft, `SameRevision` tests in the
`UPDATE` (the version counter of the mapper) what `require_revision` tested on the loaded object,
`Refresh` is the reload after a commit. Publication is `Validate`, `WriteFile`, `AwaitLocks`,
`FlushPublication`, `Promote` (the rename before the commit) and `CommitPublication`, with
`RollBack` from every one of them. A commit whose answer is lost has happened in the database, but `after_commit`
does not fire: the clean-up after the transaction takes it for a rollback, and `RemoveUnheard` removes the file of
a version that is active by then. `Unanswered` is the same for a change that wrote no file.
From then on its rows can be read (`Readable`) only if another request had read them before, and only until the
process restarts or the cache drops them; `Create`, `Validate` and edits need them.
`MCPositionDrafts` holds the instances.

### SyncJobs

One of the two tables of syncs and the versions of the kind of input that it produces. Both run
the same code; which columns describe progress is left out.

| variable | code |
|---|---|
| `sync[s]` | the row: status, `active_slot`, attempts, claim token, heartbeat |
| `version[v]` | the `InputVersion` of a sync or of an upload: absent, inactive or active |
| `stamp[s]` | the second in `storage_path` of the version of `s` |
| `disk[s][t]`, `writers[s][t]` | the candidate file of `s` named after second `t`: the claim that wrote it last; history: all that wrote it |
| `worker[w]` | the process: where it is, its claim, its keeper, the second in its file name |
| `admin[a]` | an activation or an upload with activation, with the rows its locking statement saw |
| `clock`, `claims`, `crashes` | the second; counters |

A worker goes `idle → claimed`, then `findings → block` (the orders have issues) or
`written → publish`; a publication that is refused, or whose commit is not heard of, goes
`discard → unlink → raised`; every exception leads to `raised` and to `Fail`. The reference to a
file is looked up and the file removed in two steps because the session ends in between.
`Recover` is the scan of a watcher on one row, `Restart` the scan of `main()`.

An activation takes its locks with one statement, deactivates what that saw and activates its
target; the unique index of active versions refuses the commit if a version it did not see is
active. Rules that only concern positions are in `PositionDrafts`.

### ExportFiles

The directories that hold the exports of one batch, and the columns that name them. A directory is
named by the token of the claim that made it; the one of an earlier release, without a merged
workbook, is `Legacy`.

| variable | code |
|---|---|
| `job`, `output` | the `Job` row of kind export and its `output_path` |
| `batch`, `zip`, `result[f]` | `Batch.status` as far as exports test it, `Batch.zip_path`, `BatchFile.result_path` of source `f` |
| `place[d]` | directory `d`: absent, temporary (`.tmp-`), published (`export-`) |
| `worker[w]` | the process: where it is, its claim, the directories it may remove after its export |
| `deleting` | `delete_selected` has committed and not yet removed the files |
| `registered`, `lost` | history: directories ever registered; a commit was taken for a failure |
| `claims`, `requests`, `failures`, `crashes` | counters; all carry bounds |

A worker goes `claimed → loaded → writing → publish → cleanup → removing`: `LoadInputs` (with the
directories named before), `MakeWorkspace`, `MoveToPublished`, `Register` under the claim,
`FindUnnamed` and `RemovePrevious`. Exceptions lead to `discard` once there is a directory, to
`unregistered` when no registration is found, and to `Fail`; the lookup and the removal are two steps,
as the session ends in between. The requests are the ones that clear or keep the columns:
`StartExport`, `SaveOffline` (and transfers), `SaveSplit`, `Invalidate`, `Recompute`, `Delete` with
`RemoveRoot`; `Compute` stands for the jobs between a recompute and the next export. Heartbeats are
left out: a running job may be recovered at any moment.

### ExceptionHandling

What a computation left undecided of one SKU in one file of one batch, and what users do with it.

| variable | code |
|---|---|
| `selfOperated`, `batch` | whether the batch has a `SelfOperatedBatch` row; `Batch.status` as far as the requests test it (`queued` stands for a queued or running check or computation) |
| `exporting` | its export job is queued or running |
| `record[k]` | the `ExceptionRecord` of a site, or of a line whose product is not known: `manual_quantity`, `offline_quantity`, the sums of its `ExceptionTransfer` rows and of its resolved `SplitRecord` rows, `status` |
| `input[i]` | the quantity stored in `manual_handling["offline"]` under the identity of records `i` |
| `computes`, `requests` | counters; both carry bounds |

A record is *identified* by file, SKU and full site. Records of sites have an identity of their own;
those of unknown lines all have the identity `NoSite`, the empty full site. `Compute` leaves any
quantities to any records and applies the stored inputs (`apply_offline_inputs`). `Transfer` and
`SaveOffline` take any choice of records with a quantity each, test the remaining quantity in the
`UPDATE` and set the status; `SaveSplit` replaces the parts of a record of a delivery batch.
`SaveAllowance` removes the records with `prepare_recompute`; `Invalidate` (edits, a chosen site, a
refreshed history) keeps them until the next computation; both and `Delete` are refused while there
are transfers. The target batch of a transfer, the site of each item, and the allowances, which change
only what the next computation leaves, are not in the model. `MCExceptionHandling` holds the instances.

### PurchaseQuota, DeliveryAllocation

`DeliveryAllocation` is the computation of a delivery batch, for one supplier and SKU: keys of different
suppliers or SKUs never meet in the ledger, nor in the allowances.

| variable | code |
|---|---|
| `ordered`, `rule`, `resolved` | the purchase rows summed by site and warehouse; `build_overreceipt_allowances`; `resolve_delivery_sites` |
| `open`, `allowance` | `PurchaseBalanceLedger.balances` and `overreceipt_allowances`, changed in place by every file |
| `phase`, `file`, `line` | where `process_delivery_batch`, `process_data` and their loops are |
| `row` | the `AllocationSummary` of the row under way and the warehouses still to be tried |
| `pending`, `total`, `batch` | the exceptions and totals of the file, the totals of the files before it |

`Init` picks any purchase data, any storage positions and any product information, the latter reduced to
the sites known and the sites locked. Quantities ordered may be fractions, because the purchase data may
hold any number, and only whole pieces are given (`int(balance.remaining)`): balances are counted in halves.
`StartFile`, `SkipLine` and `StartRow` pick the rows of each file and the sites that a transfer chose for
them; `Take` is a round of the loop over warehouses, `FinishRow` the extra delivery and the exception,
`EndFile` and `EndBatch` the totals with the checks that may refuse them.

`PurchaseQuota` is what this amounts to: a site has so many pieces open and so many extra, each row
gets the least of what it delivers and what is left, and the rest is for users. `QuotaKept` is the
refinement: `open` in whole pieces is `left`, and a row takes effect when it is finished.

### InboundAllocation

What a self-operated batch makes of what has arrived, over several rounds, for one supplier, SKU and country:
quantities of different ones never meet, except that an issue of any keeps the batch back.

| variable | code |
|---|---|
| `order[i]` | the item `i` of an inbound order in the ERP: its delivery number, site, whether the flow can receive it, what it expects and has received |
| `delivery[f]`, `known` | the delivery numbers and the line of file `f`; the sites that `resolve_delivery_sites` leaves |
| `workbook` | the items in the inbound workbook that somebody uploaded for the batch; `None` if `inbound_storage_path` is a managed version |
| `choice[f]`, `extra[s]`, `target[i]` | `BatchFile.receipt_sites`; `manual_handling["allowances"]` for a site and for an item |
| `snapshot` | the history in `receipt_snapshot`, absent until it is fetched |
| `receipt[f]` | the row of `receipt_context`: its full site (or the candidates), whether it blocks, what it requests |
| `phase`, `file`, `todo`, `left` | the job that is queued, and where the loops of the computation are |
| `balance`, `allowance`, `addition` | `receivable_balances`, `overreceipt_allowances`, the copies of `targeted_allowances`, changed in place by every file |
| `given[f][i]`, `pending[f]` | the allocation row of file `f` for item `i`, its pending row |
| `entered` | what the ERP has received since the snapshot: nothing, what this computation gave, or anything else |

`Fetch` and `Check` are the prepare job, `StartCompute` to `FinishBatch` the computation: `TakeNormal` and
`TakeTarget` are rounds of the loops over candidates and records, `TakeRule` the allowance, `FinishFile` and
`FinishBatch` the pending row and the comparisons of totals. `ChooseSite`, `Refresh`, `ReplaceInbound`,
`SaveTarget`, `SaveExtra` and `Adjust` are the requests; a request with several entries is taken one entry at a time. Which of them a
running job refuses is in `BatchJobs`; here they come between jobs. `EnterResults` is the only action outside
the program: the users who enter a result in the ERP do so once for a fetched history, and not while the batch
is being recomputed. Nothing in the program checks this, and of the ERP nothing is claimed for a result that replaces
one already entered (`entered = "another"`) until the history is fetched again. Fetching it again reads the ERP only
for a managed workbook (`Source`): an uploaded one is read as it was, so that `entered` then is `"another"` until
`ReplaceInbound` uploads one of the present orders.

`MCInboundAllocation` fixes one item and the first file to a number and a site and leaves the others free.
`MCSyncJobs`, `MCDeliveryAllocation`, `MCPurchaseDetails` and `MCMaintenance` hold the symmetries and tables of
their instances.

### StorageQuarantine

`scripts/storage_quarantine.py` next to the workers and requests of `ExportFiles`, which it extends and does not
stop.

| variable | code |
|---|---|
| `manifest`, `members[d]` | the directories of `manifest.json`, and how each was found (temporary or published) |
| `kept[d]` | what lies below `artifacts` in the quarantine |
| `script` | the execution under way: direction, what is still to be looked at, the directory about to be moved |

`Prepare` writes the manifest, `Begin` looks at all of it, `Check` and `MoveDir` at one directory after the other.
The database is read in `Check` and the rename is `MoveDir`, with anything in between. `Leave` is the end, a
refusal or an interruption; what is repeated finds every directory in one of its two places (`Located`).

### PurchaseDetails

A purchase sync and the cache of order details, one file.

| variable | code |
|---|---|
| `erp[s][o]` | the row of the list and the detail of order `o` at purchase system `s` |
| `day`, `settings` | today in the business time zone; the source `load_gerpgo_settings` names |
| `cache` | the file: its source, the day of `last_full_verified_at`, per order the row it was cached for, the hash and the detail |
| `sync[s]` | an execution: the source of its client, the listed rows, the day of its plan, what is still to be fetched, the sample and what was cached of it, the details |
| `version` | the purchase data published last |
| `syncs`, `changes`, `faults` | counters; they carry bounds |

A sync goes `plan → fetch → publish → write`. `Plan` is `full_verification_due` with
`plan_incremental_detail_fetch`: it fetches everything, or the rows that changed and a sample of the others.
`Fetch` takes one order, as the threads of the pool end in any order; `Compare` falls back to everything when a
sampled detail differs. `Publish` ends the job, so that the next sync starts while this one still has its cache to
write. A detail carries where, when and for which row it was fetched (history), and its content is
`Garbage` when somebody damaged the file. An order may change without its row changing: this is why there is a
sample and a daily verification, and what `PublishedFresh` bounds. Whether a sync is the only one, and what becomes
of its row, is in `SyncJobs`; what it needs of that here is the guard of `Start`.

### Services, Releases, Backups, Maintenance

`Services` has the containers and the commands, `Releases` and `Backups` the scripts, and `Maintenance` composes
them with the application.

| variable | code |
|---|---|
| `running`, `image[s]`, `tag[s]` | docker's containers, the images they run and the images the tags stand for |
| `jobs[w]` | the job in the queue of a worker service: queued, running, or orphaned when its worker was stopped |
| `migration` | a migration container is at work, whether or not a script waits for it |
| `data` | history: the data as a backup last counted it, a migration after that, or anything later |
| `lock` | the lock file shared by releases and backups |
| `release`, `before`, `releases` | the release under way (services, change of the schema, whether images were changed, a migration attempted, whether it goes back), the images before it, how many there were |
| `backup`, `dirs[n]`, `backups`, `newest` | the backup under way, its directories and those before, how many there were, the last one with its final name |
| `failures`, `crashes` | counters; they carry bounds |

A command is `Stop`, `Start` or `Up`; when it fails (`Failing`), it has done any part of what it does. Every
`except` clause of a release is `Returned`: to the stopped containers or to the original images, once; a second
failure ends it. `Update` is one service of `replace_images`, `StartMigration` and `MigrationReturns` are
`run_schema_migrations`, which may give up on a container that goes on (`MigrationEnds`). A backup goes through the
steps of `create_backup` in order, with `ResumeServices` and `DropRestored` as its `finally` clauses and
`MarkFailed` as its `except` clause; `Prune` removes one directory at a time and may fail before it or leave it torn. `ReleaseDies` and
`BackupDies` kill the script and release its lock; `StartByHand` is the administrator afterwards.
The requests and the workers (`UseEntry`, `Work`, `RecoverJob`) are what `BatchJobs` and `SyncJobs` say in detail,
reduced to one job per worker service, because maintenance looks only at whether any job is queued or running.

### The proofs

| module | theorems about |
|---|---|
| `BatchJobsProofs` | `BatchJobs` |
| `SyncJobsProofs` | `SyncJobs` |
| `StorageProofs` | `StorageQuarantine`, and with it `ExportFiles` |
| `EditingProofs` | `ExceptionHandling` and `PositionDrafts` |
| `PurchaseProofs` | `PurchaseDetails` and `DeliveryAllocation` |
| `InboundProofs` | `InboundAllocation` |
| `MaintenanceProofs` | `Maintenance`, and with it `Services`, `Releases` and `Backups` |
| `Sums` | `SumFunction` of the community modules: the lemmas that the two allocations need |

`EditingProofs` and `PurchaseProofs` each hold the proofs of two models that share no state. That is why
`ExceptionHandling` and `DeliveryAllocation` name their specifications `ExceptionSpec` and `AllocationSpec`.
The arguments are below.

## What the runs check

| run | instance | properties |
|---|---|---|
| `TwoWorkers.cfg` | a batch of either kind, two workers with different queues, 2 attempts, 2 requests (self-operated) or 5 (delivery), no crash | `BatchMatchesJobs`, `OneOwner`, `OwnerReadsCurrent`, `RunsBounded`, `ResultsOfCurrentInputs`, `ExportOfCurrentContent`, `ComputedAfterCheck`, `OnlyRequestsReopen` |
| `SelfOperated.cfg` | one self-operated batch, one worker, 2 attempts, 3 requests, 1 crash, fairness | `ExportNeedsResults`, `WorkSettles` |
| `PositionDrafts.cfg` | two administrators, two drafts, three versions, three contents, one restart or commit not heard of | `TypeOK`, `ChangesBuildOnSeen`, `PublishedFiles`, `LinearHistory` |
| `Syncs.cfg` | one sync, one upload, two workers, two administrators, 2 attempts, 2 seconds, 1 crash, fairness | `VersionIffSucceeded`, `CandidateFiles`, `OneActiveVersion`, `SomeVersionStaysActive`, `SyncsSettle` |
| `SharedSecond.cfg` | one sync, two workers, one second | `RemovesOnlyUnreferenced`, violated |
| `ExportFiles.cfg` | one batch of two sources, two workers, three claims, 3 requests, 1 failing call, 1 crash, a manifest of one directory | `DownloadsExist`, `NothingLeftOutside`, `QuarantinedStaysUnnamed` |
| `Exceptions.cfg` | two sites and one unknown line, quantities up to 2, two computations, 5 requests | `NothingGivenTwice`, `StatusTellsTheRest`, `SitesKeepInput`, `TransferredStays` |
| `RepeatedInput.cfg` | one site and two unknown lines | `InputAppliedOnce`, violated |
| `Allocation.cfg` | two sites of one country and a country without products, a local and an overseas warehouse, balances up to 3 halves, rows up to 2, two files, two scales | `NothingLost`, `SourcesInOrder`, `QuotaKept` |
| `Inbound.cfg` | two items of two numbers and sites and every kind, managed or in an uploaded workbook, two files of one or both numbers, quantities up to 2, an allowance of 1, additions of 1, two requests | `TypeOK`, `EveryPieceOnce`, `WithinLimits`, `SourcesInOrder` |
| `Maintenance.cfg` | two workers, one release, two backups of which one is kept, 2 failing commands, 1 script that dies | `MigratesAlone`, `EndsAsReported`, `NewestBackupsWhole`, `OnlyRollbackStopsJobs` |
| `PurchaseDetails.cfg` | two executions, four syncs, two orders, two purchase systems, a sample of one, 1 change, 2 faults, 1 midnight | `PublishedFresh`, `NoForeignDetails`, `DetailsOfListedRows` |

All hold but two. The properties are stated in words above their definitions. Most type invariants that are
proved are not checked as well.

**What does not hold.** `RemovesOnlyUnreferenced`: two claims of one sync write the same file if they do so within a second,
and the one that lost may remove it after the other one has registered it
(`workers/sync_results.py:34`): the lookup and the removal are not one step. `CandidateFiles`
says that nothing else can go wrong with these files, and is proved.
`ChangesBuildOnSeen` is about changes made from a page that was loaded. It does not extend to a change made from
the answer to an earlier one: that is the draft as it is after the commit, loaded again
(`web/position_draft_row_routes.py:47`), so that it may carry the revision of another administrator's later change,
whose author's rows the page has not shown.
`PublishedFiles` leaves out the file of a version whose commit was not heard of: the clean-up removes it
(`web/position_draft_files.py:66`), as nothing tells such a commit from one that failed. The version is active,
without a file; drafts can be begun on it, and those published, only as long as its rows are in the memory of the process.
`MigratesAlone` speaks of the time the script waits for the migration. One that goes on after the script gave up may run
beside resumed workers or the next script, and no property excludes that.
`EveryPieceOnce` relates a computed batch to its snapshot always, and to the orders in the ERP as long as the snapshot
is of those. For a batch with an uploaded workbook it no longer is once results were entered: a refresh
reads the same workbook (`workers/prepare_inbound.py:37`), and the batch requests the same pieces a second time,
until a new workbook is uploaded.
`DownloadsExist` holds without restriction for the archive, and for the files of the sources as long
as no worker takes a successful commit for a failure. The restriction is needed: if a worker does, and a
split is saved before it looks for its registration (`workers/export_files.py:187`), the export job
is stale and its `output_path` is cleared, so that the worker removes the directory although
`result_path` of the other sources still names it. Directories whose columns a request has cleared
before the next export reads them stay on disk until the batch is deleted; nothing names them.
`InputAppliedOnce`: lines whose product is not known have no full site, so that two of them in one file
and SKU share the identity under which an offline input is stored (`web/manual_handling.py:133`). A
recompute gives the one input to each of them. `SitesKeepInput` says that records with a site, whose
identity is their own, keep exactly what was entered for them.

**Bounds.** Batches share nothing in these modules but the workers, and no request touches two of
them here, so one batch shows every conflict over a batch; the theorems cover any number. Two workers are the
fewest that can dispute a claim. Two attempts let a job be recovered once into the queue and once into
failure. The chain prepare, compute, export needs one request, since each job queues the next; two
requests allow an edit or a recompute of the finished batch, three another edit during that. A delivery
batch needs three requests (preflight, compute, export) for the same chain, so it has five. Without
crashes two workers still lose leases (`KeeperFails`, `MarkerAges`), which is what `TwoWorkers.cfg` is
about: for the others, a crashed worker is one that has lost its lease and does nothing more.
Two administrators are the fewest that conflict over a draft; three contents let a change, another one
from an older page and a publication happen, and two drafts let one be discarded or published and the
next be created. One failure is a restart or a commit not heard of; the two after each other, when the rows of a version
without a file leave the memory, are covered by the proof. Two seconds let two claims write different files or the same one. Two administrators, an
upload and a sync let two requests each bring or activate a version while the sync adds another; lost leases
and a crash let that sync be recovered into the queue and into failure. Three claims of an export let it be
registered, lost and made again beside one of an earlier release; three requests let one clear
some columns, one export again and one delete; directories in a manifest are handled one at a time and do not
affect each other, so one shows every order of a move and an export. Two sites and a line let a request choose one, several or
all of the records and leave others alone; quantities up to 2 let each be handled in part, in full or in two ways, two
computations let inputs be applied to records that grew or shrank, and five requests let a record be transferred, handled offline twice
and recomputed in every order. Two warehouses and an allowance give a row every mix of sources, 3 halves are a
whole piece and a fraction, rows of 2 are served in part, two files meet what the first one left, and a country
with two sites has ambiguous, locked and overridden rows; the theorems cover any numbers of them. Two items and
two files are the fewest that overlap, share an allowance or come one after the other, quantities of 2 are
received in part, and two requests let an addition be followed by a refreshed history, a chosen site by an addition, an uploaded workbook
by the next preflight. That a workbook is replaced after results were entered takes a third, and is covered by the proof.
A worker that a release selects and one it does not are two; the second failing command is the one that breaks the
way back; with one backup kept the second one makes the first surplus. A sync that still writes its cache, one that
reads it, one that writes after that and one that uses what is left are four syncs, two at a time; one midnight
makes a day old, one change makes a detail old, and two faults name another purchase system and take it
back, or damage a cache and repeat an order. The theorems cover any number of these as well.
`MaxRequests`, `MaxCrashes`, `MaxContents`, `MaxTime`, `MaxClaims`, `MaxFailures`, `MaxQuantity`,
`MaxComputes`, `MaxHalves`, `MaxFiles`, `MaxExtra`, `MaxManifest`, `MaxReleases`, `MaxBackups`, `MaxSyncs`, `MaxChanges`,
`MaxFaults` and `LastDay` are bounds of the model, not of the code. When they are
used up and all jobs have ended, nothing is left to do: the runs say `CHECK_DEADLOCK FALSE`, and
`WorkSettles` and `SyncsSettle` show instead that the system does not stop halfway, and an allocation ends
in `EndBatch`, or in the model's own dead end of a file whose lines were all skipped, which the code does not read.

Among the maintenance scripts, the quarantine and the purchase syncs nothing is due either once their bounds
are used up.

**Fairness** (`Fairness` in `BatchJobs` and, for the same reasons, in `SyncJobs`). Each worker's loop polls for work and carries a claim to its end
(files are read, calls to the purchase system time out); `compose.yaml` restarts a dead worker
(`restart: unless-stopped`); the watcher scans every minute and locked rows become free, so
`RecoverAll`, the scan that finds nothing locked, is fair; and the marker of a job whose keeper is gone
falls behind the cutoff. Nothing is assumed of users, crashes, heartbeats or exceptions. A keeper that
beats for ever does not starve recovery, because its worker finishes.

## What is proved

Every safety and action property of the runs that pass, for all values of the constants that satisfy the
assumptions named here. Each proof follows one pattern: an invariant that contains the property, or from which it
follows; a lemma for each action, or for each kind of step, that it is preserved; and the theorem from `SpecInv`
or its like by temporal reasoning.

**Batches** (`BatchJobsProofs`; `BatchesAssumption`, `QueueAssumption`, `AttemptsAssumption`,
`BoundsAssumption`).

* `TypeCorrect`: `Spec => []TypeOK`. The type invariant is inductive; one lemma per record operator, one step per
  action.
* `ClaimsExclusive`: `Spec => []OneOwner`. `OneOwner` is not inductive: a claim may give a worker a token another
  worker already holds unless tokens in use are known to be old. `TokenInv` adds that a token is at most `claims`
  and that two workers with a claim never hold the same token.
* `RunsAreBounded`: `Spec => []RunsBounded`. `runs <= attempts` always, and a row is claimed only while queued; a
  row queued by a request may carry more than `MaxAttempts` attempts, so `RunsInv` says that a queued row that has
  run since has attempts left. Both rest on `RowSteps`: what any step may do to one job row (leave it, touch its
  marker, queue, claim, end, recover, mark stale or remove it), proved action by action; from there on the actions
  are not looked at again.
* `StatusTellsTheTruth`, `ExportsOfComputed`, `OwnersReadTheBatch`, `ResultsAreCurrent`, `ExportsAreCurrent`,
  `ComputeIsChecked`: `BatchMatchesJobs`, `ExportNeedsResults`, `OwnerReadsCurrent`, `ResultsOfCurrentInputs`,
  `ExportOfCurrentContent` and `ComputedAfterCheck`, from `BatchInv`. Its core is `Coherent(b)`, about one batch
  alone: its status against the status of each of its jobs, its rows and its export against its inputs and content,
  and the check it has passed. Requests and the ends of jobs preserve it without regard to workers, except that
  what a job publishes must be about the present inputs. That is `OwnerReadsCurrent`: whoever still holds the claim
  of a job has read what the batch still holds. It is preserved because of `Frozen(b)`, which is proved of every
  step together with `Coherent(b)`: while a job is queued or running, no step changes what it reads. A worker whose
  claim was taken away may hold anything, and publishes nothing.
* `RequestsReopen`: `Spec => OnlyRequestsReopen`, from `Coherent(b)`.

**Syncs and versions** (`SyncJobsProofs`; `SyncsAssumption`, `SyncAttemptsAssumption`, `SyncBoundsAssumption`).

* `SyncTypeCorrect`: `Spec => []TypeOK`.
* `SyncsExclusive`: `Spec => []OneActiveSync`. A step either keeps a row as active as it was, and its slot with it,
  or ends it and frees the slot (`RowSteps`, `KeptOrEnded`); only `StartSync` takes the slot, when nobody holds it.
* `VersionsOfSucceeded`: `Spec => []VersionIffSucceeded`. Needs `RequestsInv`, that a request activates a version
  that exists or an upload that it brings itself, and deactivates only versions that exist; without it an
  activation could make a version of a sync that has none.
* `ActiveVersionUnique` and `ActiveVersionStays`: `[]OneActiveVersion` and `SomeVersionStaysActive`, from the same
  invariant: what a commit does not deactivate was not active.
* `FilesOfCandidates`: `Spec => []CandidateFiles`: the file of a version is there unless two claims of its sync
  wrote it in one second. `ClaimsInv` says that a claim is held by one worker and writes a file at most once;
  `FilesInv` that a file only one claim ever wrote is still the one it wrote, as long as that claim is not about to
  remove it (`Intact`, `NotRemoved`), and that the claim that published a version is not among those that remove.

**Export files and quarantine** (`StorageProofs`; `ExportAssumption`, `ExportBoundsAssumption`).

* `StorageTypeCorrect`: `QuarantineSpec => []QuarantineTypeOK`.
* `DownloadsAreThere`, `QuarantineIsUnnamed`, `NothingIsLeft`: `DownloadsExist`, `QuarantinedStaysUnnamed` and
  `NothingLeftOutside`, from `StorageInv`. A directory is `Retired` when no column names it and the claim it is
  named after has ended: no step ever names such a directory again, so that a worker may remove it, and the script
  move it, long after looking it up. The invariant says of each worker, by the step it is at, that what it is about
  to remove is retired or that its own directory was never registered, the latter only as long as no commit was
  taken for a failure; and of the script that what it is about to move, or has moved, is retired. For
  `NothingLeftOutside` every directory on disk is either registered or of a worker that still has to register or
  discard it (`LeftInv`).

**Exceptions** (`EditingProofs`; `ExceptionAssumption`, `ExceptionBoundsAssumption`).

* `ExceptionTypeCorrect`, `NothingGivenTwiceHolds`, `StatusTellsTheRestHolds`, `SitesKeepInputHolds`: the types and
  the invariants of `Exceptions.cfg`, from `ExceptionInv`. It adds `DeliveryOnlySplits` (nothing of a delivery
  batch is transferred or handled offline, without which the status a split sets would not tell the rest) and
  `QueuedUnlinked` (a batch queued for a computation has no transfers).
* `TransferredStaysHolds`: `ExceptionSpec => TransferredStays`. `QueuedUnlinked` is what keeps a computation from
  replacing a record that was transferred.

**Position drafts** (`EditingProofs`; `FirstVersionAssumption`, `NoneAssumption`, `CacheAssumption`,
`PositionBoundsAssumption`).

* `DraftTypeCorrect`, `ChangesOfSeenRows`, `FilesOfPublications`, `HistoryIsLinear`: `TypeOK`, `ChangesBuildOnSeen`,
  `PublishedFiles` and `LinearHistory`, from `DraftInv`. A revision only grows, and the rows of a draft change only
  with it; therefore what a page, the cache of analyses or an import candidate holds of a revision is what the draft
  has, or the draft is past that revision (`StoresInv`, `PageInv`) and the guarded `UPDATE` refuses. Whoever has
  flushed a publication holds the locks of the versions and has the row of his draft (`HoldingInv`), so that the
  base he replaces is the active version. One draft is edited, and its base is active; the base of a published one
  is not, so that no two publications replace the same version (`DraftsInv`, `OneDraftEach`). For the files, only the
  publication under way of a version writes or removes its file, and whatever is still held in memory of a file that
  was removed are the rows that were published (`VersionsInv`).

**Purchase details** (`PurchaseProofs`; `PurchaseAssumption`).

* `PurchaseTypeCorrect`: `Spec => []TypeOK`.
* `PublishedFreshHolds`, `NoForeignDetailsHolds`, `DetailsOfListedRowsHolds`: the invariants of
  `PurchaseDetails.cfg`, from `PurchaseInv`, which adds what is known of a cache and of a sync
  at each of its steps. Of a cache: a detail whose hash agrees is of the source of the file, of the row it
  is stored for, and not older than the day the file says it was verified on; this survives caches that are
  written in the wrong order, because each file says of itself what it is. Of a sync: every detail that is not
  still to be fetched already satisfies what will be published, and the day it will stamp on its cache is the
  day it planned in, which is not later than today.

**Delivery allocation** (`PurchaseProofs`; `AllocationAssumption`, `AllocationBoundsAssumption`).

* `AllocationTypeCorrect`, `NothingLostHolds`, `SourcesInOrderHolds`, `ManualIsLastHolds`: the types, the
  invariants of `Allocation.cfg` and that users get only what nothing is left for, from `AllocationInv`. It adds
  `Conserved` (what was delivered is imported, left to users or still with the row under
  way, piece by piece), `RowProgress` (a warehouse that this row no longer tries has no whole piece left, or the
  row is served), and that rows and exceptions that are about purchases have a site. `Conserved` is what makes
  the checks of the totals succeed; `RowProgress` is what remains of the order of the loop once it is over.
* `QuotaKeptHolds`: `AllocationSpec => QuotaKept`, the refinement of `PurchaseQuota`. The first state maps to a
  first state; every step maps to a stutter, but for a row without a site, which is `Pass`, and the end of any other
  one, which is `Serve`. A round over the
  warehouses moves pieces from the sum of the balances of the site to the row, which the mapping counts until the
  row ends (`QuotaTake`); at the end, `RowProgress` makes that sum zero where the row is not served
  (`QuotaFinishRow`).

**Inbound allocation** (`InboundProofs`; `InboundAssumption`, `InboundBoundsAssumption`, `SnapshotAssumption`).

* `InboundTypeCorrect`, `EveryPieceOnceHolds`, `WithinLimitsHolds`, `SourcesInOrderHolds`: the four properties of
  `Inbound.cfg`, from `InboundInv`. `SnapshotInv` relates the ERP to the batch: until results are entered, and unless a
  snapshot was taken from an older workbook, the orders are as in the snapshot; once they are, each item has received
  what all files gave it. `ReceiptsInv` says
  that a batch past its preflight has the receipts a new one would find. For each file `FilesInv`, `TodoInv` and
  `LeftInv` say where the loops are: what it requests is given, pending or still `left`, and while something is
  left, the sources passed so far are empty. `OrderInv` is `SourcesInOrder` at every moment, and `LimitsInv` makes
  `WithinLimits` an equation: given and left make up what there was. `EveryPieceOnce` then needs that no item gets
  anything from two files whose history it would be in: preflight reports such overlaps (`OneGiver`). Its part about
  the snapshot (`PiecesOfFile`) needs none of that.

**Sums** (`Sums`). `SumFunction` folds over the subsets of a domain in an order nobody knows, and
induction over data is out of reach. The lemmas are proved from a smallest counterexample instead: among the sets,
or numbers, for which a sum would not be what is claimed there is a least one (`SmallestSubset`, `SmallestNumber`,
from the library's facts on well-founded relations), and taking the element off that the fold takes off makes a
smaller one. This gives the type of a sum, what changing one value does to it, the sum over a part, the sum of zeros
and that of sums.

**Maintenance** (`MaintenanceProofs`; `ServicesAssumption`, `ServicesBoundsAssumption`, `BackupsAssumption`).

* `MaintenanceTypeCorrect`: `Spec => []TypeOK`.
* `MigratesAloneHolds`, `OnlyRollbackStopsJobsHolds`, from `MaintenanceInv`: one script at a
  time holds the lock; from the step that closed it the entry is down, from the drain on no job is active, and from
  the next on the selected workers are down (`ReleasePhase`, `BackupPhase`). No job can begin under this, because a
  job is queued through the entry or by another job. A command therefore cuts a job short only where
  this no longer holds: on the way back, once the entry was opened.
* `EndsAsReportedHolds`, from `EndInv` on top of it. `Course` is what a release can have done at each step, on its
  way forward and back; `ImagesInv` that services outside it keep their images and that those it is done with have
  the tag they should; `OutcomeInv` what each outcome means for containers and images; `ResumedInv` that
  everything runs once a backup has resumed it. The proof showed an earlier form of the property to be true only
  because the instance has one release: a release that died, or whose way back failed, may leave a tag ahead of its
  image, and the next one that is taken back restores the tags only of its own services, and only where it moved
  them. The property now claims no more. The theorem covers any number of releases.
* `NewestBackupsWholeHolds`, from `BackupsInv`: `CurrentInv`, what the directory under way
  has at each step; `CopyInv`, that nothing runs from the count to the archive, so that the data stay as counted
  but for a migration that outlives its release; `FreshInv`, names not yet used; `RetainedInv`, that whatever ranks
  among the kept is whole. The last is preserved by `Prune` because removing a surplus backup gives no other one a
  rank among the kept (`RankRemoved`, over cardinalities of finite sets).

## What is only model-checked

`WorkSettles` and `SyncsSettle`: liveness under fairness is out of the prover's reach, as is ENABLED. The two
violations are counterexamples of TLC. RECURSIVE operators are not used, as they cannot stand in a module with
theorems.

## What is not modelled

Rows, workbooks, names and messages are reduced to versions; authentication, reading, paging, layout,
parsing, one-off migrations and the frontend are left out (`components` in `PROJECT.json`
gives the reason for each). Row locks are modelled by atomic requests, so a deadlock between two requests that lock in
opposite orders is not visible. In `PositionDrafts` the temporary files of uploads, in `SyncJobs` the version a candidate is compared with are left out, in `PurchaseDetails` tokens,
throttling, the mapping of details to purchase rows and orders that move to an earlier page and are missed, in
`ExportFiles` the contents of the directories and deleting a single source, in `StorageQuarantine` parts of directories
and several manifests, in `Maintenance` the evidence of CI and the checkouts and labels a release is checked
against before it begins, the restore of a backup by hand and which data a restore that is tried out can tell apart, in `DeliveryAllocation` the texts of the import rows, the spelling of keys (the ledger
is keyed by supplier, SKU and site as they are written in the purchase data, the allowances by their normalized
form; here the two agree), the warehouse an extra delivery is
booked to, several suppliers and SKUs, and the projection of splits, in `InboundAllocation` the shelf records and
returns behind an item in doubt, orders that are added or cancelled in the ERP, uploaded
workbooks that were never what the ERP held, and several suppliers, SKUs and
countries. Items 3 and 11 of the plan are not modelled yet.

`WithinLimits` is about one computation. When results have been entered and the history is fetched again, the
allowance of a site is whole again, so that over several rounds a batch may go beyond its orders more than once
(`self_operated_inbound.py:117`); `README.md:46` only rules that out between files.

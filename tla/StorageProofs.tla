----------------------------- MODULE StorageProofs -----------------------------
(***************************************************************************)
(* Proofs about ExportFiles and StorageQuarantine together, for any sources *)
(* and workers, any manifest and any bounds.                                *)
(***************************************************************************)
EXTENDS StorageQuarantine, TLAPS

-------------------------------------------------------------------------------

Running(d) == job.status = "running" /\ job.token = d

\* A claim is held by one worker, and is not older than the export found at the start.
ClaimsInv ==
    /\ claims \in Dirs
    /\ \A w \in Workers : worker[w].pc # "idle" =>
          /\ worker[w].token \in Dirs /\ worker[w].token <= claims /\ worker[w].token # Legacy
          /\ \A u \in Workers \ {w} : worker[u].pc # "idle" => worker[u].token # worker[w].token

\* Whatever a column names was registered, under a claim that has ended with that; and
\* the archive of a finished export stays the output of a job that succeeded.
ColumnsInv ==
    /\ Named \subseteq registered
    /\ \A d \in registered : d <= claims /\ ~Running(d)
    /\ zip \notin {NoDir, Legacy} => job.status = "succeeded" /\ output = zip
    /\ batch = "gone" => Named = {}
    /\ deleting => batch = "gone"

\* A directory that will not be named again: no claim can register it any more.
Retired(d) == d <= claims /\ d \notin Named /\ ~Running(d)

Before == {"claimed", "loaded"}
Unregistered == {"claimed", "loaded", "writing", "publish"}

WorkerInv(w) ==
    /\ worker[w].pc \in Before => place[Dir(w)] = "none" /\ kept[Dir(w)] = "none"
    /\ worker[w].pc \in Unregistered => Dir(w) \notin registered
    /\ worker[w].pc \in {"discard", "unregistered"} /\ ~lost => Dir(w) \notin registered
    /\ worker[w].pc = "unregistered" => zip # Dir(w)
    /\ worker[w].pc = "publish" /\ Owns(w) /\ batch # "gone" => place[Dir(w)] = "published"
    /\ worker[w].previous \subseteq registered
    /\ worker[w].pc = "removing" => worker[w].previous \cap Named = {}

WorkersInv == \A w \in Workers : WorkerInv(w)

QuarantineInv ==
    /\ \A d \in Dirs : place[d] # "none" => d <= claims
    /\ \A d \in Dirs : kept[d] # "none" => place[d] = "none" /\ Retired(d)
    /\ script.pc = "move" =>
          /\ script.dir \in Dirs /\ members[script.dir] # "none"
          /\ script.restore \/ Retired(script.dir)
    /\ manifest = {} => script.pc = "idle" /\ \A d \in Dirs : kept[d] = "none"

\* The worker that will remove directory d, unless it registers it.
Holding == {"writing", "publish", "discard", "unregistered"}

LeftInv ==
    failures = 0 /\ crashes = 0 /\ manifest = {} =>
        /\ ~lost
        /\ \A d \in Dirs : place[d] # "none" =>
              \/ d \in registered /\ (batch # "gone" \/ deleting)
              \/ \E w \in Workers : worker[w].pc \in Holding /\ Dir(w) = d

StorageInv ==
    ClaimsInv /\ ColumnsInv /\ WorkersInv /\ QuarantineInv /\ DownloadsExist /\ LeftInv

-------------------------------------------------------------------------------
(* Types. *)

LEMMA JobTypes ==
    /\ NoJob \in JobRecord
    /\ \A r \in JobRecord :
          /\ Queued(r, "export") \in JobRecord
          /\ ResetJob(r, "export", FALSE) \in JobRecord
          /\ \A t \in Nat : Claimed(r, t) \in JobRecord
          /\ \A n \in Nat : Recovered(r, n) \in JobRecord
          /\ Ended(r, "succeeded") \in JobRecord /\ Ended(r, "failed") \in JobRecord
          /\ MarkedStale(r) \in JobRecord /\ Cleared(r) \in JobRecord
<1>1. NoJob \in JobRecord
  BY DEF NoJob, JobRecord, JobStatus, NoToken
<1>2. \A r \in JobRecord : Queued(r, "export") \in JobRecord
                            /\ ResetJob(r, "export", FALSE) \in JobRecord
  BY DEF Queued, ResetJob, JobRecord, JobStatus, NoToken
<1>3. \A r \in JobRecord, t \in Nat : Claimed(r, t) \in JobRecord
  BY DEF Claimed, JobRecord, JobStatus
<1>4. \A r \in JobRecord, n \in Nat : Recovered(r, n) \in JobRecord
  BY DEF Recovered, JobRecord, JobStatus, NoToken
<1>5. \A r \in JobRecord : Ended(r, "succeeded") \in JobRecord /\ Ended(r, "failed") \in JobRecord
  BY DEF Ended, JobRecord, JobStatus, NoToken
<1>6. \A r \in JobRecord : MarkedStale(r) \in JobRecord /\ Cleared(r) \in JobRecord
  BY DEF MarkedStale, Cleared, JobRecord, JobStatus
<1> QED
  BY <1>1, <1>2, <1>3, <1>4, <1>5, <1>6

LEMMA Numbers ==
    /\ NoDir \notin Dirs /\ Legacy \in Dirs /\ Dirs \subseteq Nat
    /\ \A d \in Dirs : d # 0
    /\ MaxAttempts \in Nat /\ MaxClaims \in Nat
  BY ExportBoundsAssumption, ExportAssumption DEF Dirs, NoDir, Legacy

LEMMA IdleType == Idle \in ExportWorker
  BY DEF Idle, ExportWorker, NoToken

LEMMA TypeInit == QuarantineInit => QuarantineTypeOK
<1> SUFFICES ASSUME QuarantineInit PROVE QuarantineTypeOK
  OBVIOUS
<1>1. PICK exported \in BOOLEAN :
         /\ job = IF exported THEN [NoJob EXCEPT !.status = "succeeded", !.attempts = 1]
                  ELSE IF selfOperated THEN Queued(NoJob, "export") ELSE NoJob
         /\ output = IF exported THEN Legacy ELSE NoDir
         /\ zip = output
         /\ result = [f \in Sources |-> output]
         /\ place = [d \in Dirs |-> IF d = output THEN "published" ELSE "none"]
         /\ registered = {output} \ {NoDir}
  BY DEF QuarantineInit, Init
<1>2. job \in JobRecord
  <2>1. [NoJob EXCEPT !.status = "succeeded", !.attempts = 1] \in JobRecord
    BY JobTypes DEF JobRecord, JobStatus
  <2> QED
    BY <1>1, <2>1, JobTypes
<1>3. output \in Dirs \cup {NoDir} /\ registered \in SUBSET Dirs
  BY <1>1, Numbers
<1>4. worker \in [Workers -> ExportWorker]
  BY IdleType DEF QuarantineInit, Init
<1>5. script \in Script
  BY DEF QuarantineInit, NoScript, Script
<1>6. TypeOK
  BY <1>1, <1>2, <1>3, <1>4, Numbers DEF QuarantineInit, Init, TypeOK
<1> QED
  BY <1>5, <1>6 DEF QuarantineInit, QuarantineTypeOK, Forms

\* The fields of workers.
LEMMA WorkerTypes ==
    \A r \in ExportWorker :
        /\ r.token \in Nat /\ r.previous \subseteq Dirs
        /\ \A pc \in {"idle", "claimed", "loaded", "writing", "publish", "cleanup",
                       "removing", "discard", "unregistered", "raised"} :
              /\ [r EXCEPT !.pc = pc] \in ExportWorker
              /\ \A S \in SUBSET Dirs : /\ [r EXCEPT !.pc = pc, !.previous = S] \in ExportWorker
                                        /\ [r EXCEPT !.previous = S] \in ExportWorker
  BY ZenonT(40) DEF ExportWorker

\* What a step of a worker on the files and on its own notes leaves in its record.
Own(w, pc, S) ==
    /\ worker' \in [Workers -> ExportWorker]
    /\ \A u \in Workers \ {w} : worker'[u] = worker[u]
    /\ worker'[w].pc = pc /\ worker'[w].token = worker[w].token
    /\ worker'[w].previous = S

Pcs == {"idle", "claimed", "loaded", "writing", "publish", "cleanup", "removing", "discard",
        "unregistered", "raised"}

LEMMA NewRecord ==
    ASSUME TypeOK, NEW w \in Workers, NEW new \in ExportWorker, NEW pc, NEW S,
           new.pc = pc, new.token = worker[w].token, new.previous = S,
           worker' = [worker EXCEPT ![w] = new]
    PROVE  Own(w, pc, S)
  BY DEF TypeOK, Own

LEMMA OwnRecord ==
    ASSUME TypeOK, NEW w \in Workers
    PROVE  /\ \A pc \in Pcs : worker' = [worker EXCEPT ![w].pc = pc]
                                 => Own(w, pc, worker[w].previous)
           /\ \A pc \in Pcs, S \in SUBSET Dirs :
                 worker' = [worker EXCEPT ![w].pc = pc, ![w].previous = S] => Own(w, pc, S)
           /\ \A S \in SUBSET Dirs :
                 worker' = [worker EXCEPT ![w].previous = S] => Own(w, worker[w].pc, S)
<1> USE DEF TypeOK, ExportWorker, Pcs, Own
<1>1. \A pc \in Pcs : worker' = [worker EXCEPT ![w].pc = pc] => Own(w, pc, worker[w].previous)
  OBVIOUS
<1>2. \A pc \in Pcs, S \in SUBSET Dirs :
         worker' = [worker EXCEPT ![w].pc = pc, ![w].previous = S] => Own(w, pc, S)
  <2> SUFFICES ASSUME NEW pc \in Pcs, NEW S \in SUBSET Dirs,
                      worker' = [worker EXCEPT ![w].pc = pc, ![w].previous = S]
               PROVE  Own(w, pc, S)
    OBVIOUS
  <2> DEFINE new == [worker[w] EXCEPT !.pc = pc, !.previous = S]
  <2>1. /\ new \in ExportWorker /\ new.pc = pc /\ new.token = worker[w].token
        /\ new.previous = S
    OBVIOUS
  <2>2. worker' = [worker EXCEPT ![w] = new]
    OBVIOUS
  <2> QED
    BY <2>1, <2>2, NewRecord
<1>3. \A S \in SUBSET Dirs :
         worker' = [worker EXCEPT ![w].previous = S] => Own(w, worker[w].pc, S)
  OBVIOUS
<1> QED
  BY <1>1, <1>2, <1>3

\* ... or it is idle again.
LEMMA IdleRecord ==
    ASSUME TypeOK, NEW w \in Workers, worker' = [worker EXCEPT ![w] = Idle]
    PROVE  /\ worker' \in [Workers -> ExportWorker]
           /\ \A u \in Workers \ {w} : worker'[u] = worker[u]
           /\ worker'[w].pc = "idle" /\ worker'[w].previous = {}
  BY IdleType DEF TypeOK, Idle

FileStep(w) ==
    \/ LoadInputs(w) \/ MakeWorkspace(w) \/ MoveToPublished(w) \/ Raise(w) \/ Discard(w)
    \/ RemoveOwn(w) \/ FindUnnamed(w) \/ RemovePrevious(w)

LEMMA TypeOfFiles ==
    ASSUME TypeOK, NEW w \in Workers, FileStep(w)
    PROVE  /\ place' \in [Dirs -> {"none", "tmp", "published"}]
           /\ failures' \in Nat
           /\ UNCHANGED <<selfOperated, batch, job, columns, registered, deleting, lost,
                          claims, requests, crashes>>
<1> USE DEF counters, Step, Failing
<1>1. failures + 1 \in Nat
  BY DEF TypeOK
<1>2. CASE LoadInputs(w)
  BY <1>2 DEF LoadInputs, TypeOK
<1>3. CASE MakeWorkspace(w)
  BY <1>3 DEF MakeWorkspace, TypeOK
<1>4. CASE MoveToPublished(w)
  BY <1>4 DEF MoveToPublished, TypeOK
<1>5. CASE Raise(w)
  BY <1>5 DEF Raise, TypeOK
<1>6. CASE Discard(w)
  BY <1>1, <1>6 DEF Discard, TypeOK
<1>7. CASE RemoveOwn(w)
  BY <1>1, <1>7 DEF RemoveOwn, TypeOK
<1>8. CASE FindUnnamed(w)
  BY <1>1, <1>8 DEF FindUnnamed, TypeOK
<1>9. CASE RemovePrevious(w)
  BY <1>1, <1>9 DEF RemovePrevious, TypeOK
<1> QED
  BY <1>2, <1>3, <1>4, <1>5, <1>6, <1>7, <1>8, <1>9 DEF FileStep

LEMMA TypeOfWorker ==
    ASSUME TypeOK, NEW w \in Workers, FileStep(w)
    PROVE  worker' \in [Workers -> ExportWorker]
<1>0. /\ worker[w] \in ExportWorker /\ worker[w].previous \in SUBSET Dirs
      /\ ({zip} \cup Range(result)) \ {NoDir} \in SUBSET Dirs
      /\ \A S : worker[w].previous \ S \in SUBSET Dirs
  BY WorkerTypes DEF TypeOK, Range
<1>1. \A pc \in Pcs, S \in SUBSET Dirs : Own(w, pc, S) => worker' \in [Workers -> ExportWorker]
  BY DEF Own
<1>2. \A pc \in Pcs : Step(w, pc) => worker' \in [Workers -> ExportWorker]
  BY <1>0, <1>1, OwnRecord DEF Step
<1>3. \A pc \in Pcs, S \in SUBSET Dirs :
         worker' = [worker EXCEPT ![w].pc = pc, ![w].previous = S]
            => worker' \in [Workers -> ExportWorker]
  BY <1>1, OwnRecord
<1>4. \A S \in SUBSET Dirs :
         worker' = [worker EXCEPT ![w].previous = S] => worker' \in [Workers -> ExportWorker]
  BY OwnRecord DEF Own
<1>9. worker' = [worker EXCEPT ![w] = Idle] => worker' \in [Workers -> ExportWorker]
  BY IdleRecord
<1>5. CASE LoadInputs(w)
  BY <1>0, <1>3, <1>5 DEF LoadInputs, Pcs
<1>6. CASE MakeWorkspace(w) \/ MoveToPublished(w) \/ Raise(w) \/ RemoveOwn(w) \/ Discard(w)
  <2>1. \E pc \in Pcs : Step(w, pc)
    BY <1>6 DEF MakeWorkspace, MoveToPublished, Raise, RemoveOwn, Discard, Pcs
  <2> QED
    BY <1>2, <2>1
<1>7. CASE FindUnnamed(w)
  <2>1. \/ worker' = [worker EXCEPT ![w] = Idle]
        \/ \E S : worker' = [worker EXCEPT ![w].pc = "removing",
                                           ![w].previous = worker[w].previous \ S]
    BY <1>7 DEF FindUnnamed
  <2>2. "removing" \in Pcs
    BY DEF Pcs
  <2> QED
    BY <1>0, <1>3, <1>9, <2>1, <2>2
<1>8. CASE RemovePrevious(w)
  <2>1. \/ worker' = [worker EXCEPT ![w] = Idle]
        \/ \E d : worker' = [worker EXCEPT ![w].previous = worker[w].previous \ {d}]
    BY <1>0, <1>8 DEF RemovePrevious
  <2> QED
    BY <1>0, <1>4, <1>9, <2>1
<1> QED
  BY <1>5, <1>6, <1>7, <1>8 DEF FileStep

\* The steps that leave files and workers alone.
RowStep ==
    \/ Recover \/ StartExport \/ SaveOffline \/ Invalidate \/ Recompute \/ Compute \/ Delete
    \/ \E f \in Sources : SaveSplit(f)

LEMMA TypeOfRows ==
    ASSUME TypeOK, RowStep
    PROVE  TypeOK'
<1> USE JobTypes, Numbers DEF TypeOK, columns, counters, Request, NoResults
<1>0. requests + 1 \in Nat
  OBVIOUS
<1>1. CASE Recover
  BY <1>1 DEF Recover
<1>2. CASE StartExport
  BY <1>0, <1>2 DEF StartExport
<1>3. CASE SaveOffline
  BY <1>0, <1>3 DEF SaveOffline
<1>4. CASE Invalidate
  BY <1>0, <1>4 DEF Invalidate
<1>5. CASE Recompute
  BY <1>0, <1>5 DEF Recompute
<1>6. CASE Compute
  BY <1>6 DEF Compute
<1>7. CASE Delete
  BY <1>0, <1>7 DEF Delete
<1>8. ASSUME NEW f \in Sources, SaveSplit(f) PROVE TypeOK'
  BY <1>0, <1>8 DEF SaveSplit
<1> QED
  BY <1>1, <1>2, <1>3, <1>4, <1>5, <1>6, <1>7, <1>8 DEF RowStep

\* A worker that is told of its commit, or not.
LEMMA RegisterRecord ==
    ASSUME TypeOK, NEW w \in Workers, Register(w)
    PROVE  \E pc \in {"cleanup", "discard"} :
              /\ Own(w, pc, worker[w].previous)
              /\ pc = "discard" => lost' = TRUE /\ failures' = failures + 1
              /\ pc = "cleanup" => lost' = lost /\ failures' = failures
  BY OwnRecord DEF Register, Step, Failing, Pcs

LEMMA ClaimRecord ==
    ASSUME TypeOK, NEW w \in Workers, Claim(w)
    PROVE  /\ worker' \in [Workers -> ExportWorker]
           /\ \A u \in Workers \ {w} : worker'[u] = worker[u]
           /\ worker'[w].pc = "claimed" /\ worker'[w].token = claims + 1
           /\ worker'[w].previous = {}
           /\ claims' = claims + 1 /\ claims + 1 \in Dirs
           /\ job'.status = "running" /\ job'.token = claims + 1 /\ job' \in JobRecord
<1>1. claims' = claims + 1 /\ claims' \in Nat /\ claims < MaxClaims
  BY DEF Claim, TypeOK
<1>2. claims + 1 \in Dirs
  BY <1>1, Numbers DEF Dirs, TypeOK
<1> DEFINE new == [Idle EXCEPT !.pc = "claimed", !.token = claims']
<1>3. new \in ExportWorker /\ new.pc = "claimed" /\ new.token = claims + 1 /\ new.previous = {}
  BY <1>1 DEF Idle, ExportWorker
<1>4. worker' = [worker EXCEPT ![w] = new]
  BY DEF Claim
<1> HIDE DEF new
<1>5. /\ worker' \in [Workers -> ExportWorker] /\ worker'[w] = new
      /\ \A u \in Workers \ {w} : worker'[u] = worker[u]
  BY <1>3, <1>4 DEF TypeOK
<1>6. job' = Claimed(job, claims + 1) /\ job' \in JobRecord
  BY <1>1, JobTypes DEF Claim, TypeOK
<1> QED
  BY <1>1, <1>2, <1>3, <1>5, <1>6 DEF Claimed

LEMMA NextCases ==
    ASSUME Next
    PROVE  \/ RowStep
           \/ RemoveRoot
           \/ \E w \in Workers : Claim(w) \/ FileStep(w) \/ Register(w) \/ Fail(w) \/ Crash(w)
  BY DEF Next, RowStep, FileStep

LEMMA TypeOfNext == TypeOK /\ ClaimsInv /\ Next => TypeOK'
<1> SUFFICES ASSUME TypeOK, ClaimsInv, Next PROVE TypeOK'
  OBVIOUS
<1> USE DEF columns, counters
<1>1. ASSUME NEW w \in Workers, FileStep(w) PROVE TypeOK'
  BY <1>1, TypeOfFiles, TypeOfWorker DEF TypeOK
<1>2. CASE RowStep
  BY <1>2, TypeOfRows
<1>3. ASSUME NEW w \in Workers, Claim(w) PROVE TypeOK'
  <2>1. /\ worker' \in [Workers -> ExportWorker] /\ claims' \in Nat /\ job' \in JobRecord
    BY <1>3, ClaimRecord, Numbers
  <2> QED
    BY <1>3, <2>1 DEF Claim, TypeOK
<1>4. ASSUME NEW w \in Workers, Register(w) PROVE TypeOK'
  <2>1. Dir(w) \in Dirs
    BY <1>4 DEF ClaimsInv, Register, Dir
  <2>2. /\ zip' \in Dirs /\ output' \in Dirs /\ result' \in [Sources -> Dirs]
        /\ registered' \in SUBSET Dirs /\ job' \in JobRecord
    BY <1>4, <2>1, JobTypes DEF Register, TypeOK
  <2>3. PICK pc \in {"cleanup", "discard"} :
              /\ Own(w, pc, worker[w].previous)
              /\ pc = "discard" => lost' = TRUE /\ failures' = failures + 1
              /\ pc = "cleanup" => lost' = lost /\ failures' = failures
    BY <1>4, RegisterRecord
  <2>4. worker' \in [Workers -> ExportWorker] /\ lost' \in BOOLEAN /\ failures' \in Nat
    <3>1. lost \in BOOLEAN /\ failures \in Nat
      BY DEF TypeOK
    <3>2. CASE pc = "cleanup"
      BY <2>3, <3>1, <3>2 DEF Own
    <3>3. CASE pc = "discard"
      BY <2>3, <3>1, <3>3 DEF Own
    <3> QED
      BY <3>2, <3>3
  <2> QED
    BY <1>4, <2>2, <2>4 DEF Register, TypeOK
<1>5. ASSUME NEW w \in Workers, Fail(w) \/ Crash(w) PROVE TypeOK'
  <2>1. worker' \in [Workers -> ExportWorker]
    BY <1>5, IdleRecord DEF Fail, Crash
  <2>2. CASE Fail(w)
    <3>1. job \in JobRecord /\ (job' = job \/ job' = Ended(job, "failed"))
      BY <2>2 DEF Fail, TypeOK
    <3>2. job' \in JobRecord
      BY <3>1, JobTypes
    <3> QED
      BY <2>1, <2>2, <3>2 DEF Fail, TypeOK
  <2>3. CASE Crash(w)
    BY <2>1, <2>3 DEF Crash, TypeOK
  <2> QED
    BY <1>5, <2>2, <2>3
<1>6. CASE RemoveRoot
  <2>1. place' \in [Dirs -> {"none", "tmp", "published"}] /\ failures' \in Nat
    BY <1>6 DEF RemoveRoot, Failing, TypeOK
  <2> QED
    BY <1>6, <2>1 DEF RemoveRoot, TypeOK
<1> QED
  BY <1>1, <1>2, <1>3, <1>4, <1>5, <1>6, NextCases

LEMMA TypeStep == QuarantineTypeOK /\ ClaimsInv /\ [QuarantineNext]_allVars => QuarantineTypeOK'
<1> SUFFICES ASSUME QuarantineTypeOK, ClaimsInv, [QuarantineNext]_allVars
             PROVE  QuarantineTypeOK'
  OBVIOUS
<1> USE DEF QuarantineTypeOK
<1>1. CASE Next /\ UNCHANGED quarantine
  BY <1>1, TypeOfNext DEF quarantine
<1>2. ASSUME UNCHANGED vars PROVE TypeOK'
  BY <1>2 DEF vars, columns, counters, TypeOK
<1>3. CASE UNCHANGED allVars
  BY <1>2, <1>3 DEF allVars, quarantine
<1>4. ASSUME NEW S \in SUBSET Dirs, Prepare(S) PROVE QuarantineTypeOK'
  BY <1>2, <1>4 DEF Prepare, Forms, TypeOK
<1>5. ASSUME NEW restore \in BOOLEAN, Begin(restore) PROVE QuarantineTypeOK'
  BY <1>2, <1>5 DEF Begin, Script
<1>6. ASSUME NEW d \in Dirs, Check(d) PROVE QuarantineTypeOK'
  <2>1. script' \in Script
    BY <1>6, ZenonT(40) DEF Check, Script
  <2> QED
    BY <1>2, <1>6, <2>1 DEF Check
<1>7. CASE MoveDir
  <2>1. script' \in Script
    BY <1>7 DEF MoveDir, Script
  <2>2. place' \in [Dirs -> Forms] /\ kept' \in [Dirs -> Forms]
    BY <1>7 DEF MoveDir, TypeOK, Forms, Script
  <2> QED
    BY <1>7, <2>1, <2>2 DEF MoveDir, TypeOK, columns, counters, Forms
<1>8. CASE Leave
  BY <1>2, <1>8 DEF Leave, NoScript, Script
<1> QED
  BY <1>1, <1>3, <1>4, <1>5, <1>6, <1>7, <1>8 DEF QuarantineNext

-------------------------------------------------------------------------------
(* The invariant at the start. *)

LEMMA NamesOf ==
    TypeOK => \A d \in Dirs : d \in Named <=> d = output \/ d = zip \/ \E f \in Sources : result[f] = d
  BY Numbers DEF TypeOK, Named, Range

LEMMA NamedDirs == TypeOK => Named \subseteq Dirs
  BY DEF TypeOK, Named, Range

LEMMA StorageInit == QuarantineInit => StorageInv
<1> SUFFICES ASSUME QuarantineInit PROVE StorageInv
  OBVIOUS
<1>1. TypeOK
  BY TypeInit DEF QuarantineTypeOK
<1>2. /\ output \in {Legacy, NoDir} /\ zip = output
      /\ \A f \in Sources : result[f] = output
      /\ \A d \in Dirs : place[d] = IF d = output THEN "published" ELSE "none"
      /\ registered = {output} \ {NoDir}
      /\ job.status # "running"
  BY DEF QuarantineInit, Init, NoJob, Queued
<1>3. /\ batch = "succeeded" /\ ~deleting /\ ~lost /\ claims = 1
      /\ \A w \in Workers : worker[w].pc = "idle" /\ worker[w].previous = {}
      /\ script.pc = "idle" /\ \A d \in Dirs : kept[d] = "none"
  BY DEF QuarantineInit, Init, Idle, NoScript
<1>4. Legacy = 1 /\ 1 \in Dirs /\ 1 # NoDir
  BY Numbers DEF Legacy
<1>5. \A d \in Named : d = output /\ d # NoDir
  BY <1>2, <1>1 DEF Named, Range, TypeOK
<1>6. ClaimsInv
  BY <1>3, <1>4 DEF ClaimsInv
<1>7. ColumnsInv
  BY <1>2, <1>3, <1>4, <1>5 DEF ColumnsInv, Running
<1>8. WorkersInv
  BY <1>3 DEF WorkersInv, WorkerInv, Before, Unregistered
<1>12. \A d \in Dirs : place[d] # "none" => d = 1 /\ d \in registered
  BY <1>2, <1>4, Numbers DEF Legacy
<1>9. QuarantineInv
  BY <1>3, <1>12 DEF QuarantineInv
<1>10. DownloadsExist
  BY <1>2, <1>4 DEF DownloadsExist
<1>11. LeftInv
  BY <1>3, <1>12 DEF LeftInv
<1> QED
  BY <1>6, <1>7, <1>8, <1>9, <1>10, <1>11 DEF StorageInv

-------------------------------------------------------------------------------
(* Workers at their files. *)

\* A directory that w makes, renames or removes: nobody downloads what is removed, nobody
\* else is going to register it, and it is not in quarantine.
Harmless(w, d) ==
    /\ kept[d] = "none" /\ d <= claims
    /\ place'[d] = "published" \/ (d # zip /\ (~lost => \A f \in Sources : result[f] # d))
    /\ d = Dir(w) \/ d \in registered

\* w keeps hold of its directory until it is gone, and of each it makes.
HoldsOn(w) ==
    /\ worker[w].pc \in Holding => worker'[w].pc \in Holding \/ place'[Dir(w)] = "none"
    /\ \A d \in Dirs : place'[d] # "none" /\ place[d] = "none" => worker'[w].pc \in Holding /\ Dir(w) = d

LEMMA FilesKeep ==
    ASSUME QuarantineTypeOK, StorageInv, NEW w \in Workers, worker[w].pc # "idle",
           \A u \in Workers \ {w} : worker'[u] = worker[u],
           worker'[w].pc = "idle" \/ worker'[w].token = worker[w].token,
           UNCHANGED <<batch, job, columns, registered, deleting, lost, claims, quarantine>>,
           WorkerInv(w)',
           \A d \in Dirs : place'[d] = place[d] \/ Harmless(w, d),
           failures' = 0 => failures = 0, crashes' = 0 => crashes = 0,
           failures' = 0 /\ crashes' = 0 /\ ~lost => HoldsOn(w)
    PROVE  StorageInv'
<1> USE DEF columns, quarantine
<1>0. TypeOK /\ Dir(w) \in Dirs
  BY DEF QuarantineTypeOK, StorageInv, ClaimsInv, Dir
<1>1. ClaimsInv'
  BY DEF StorageInv, ClaimsInv
<1>2. Named' = Named /\ \A d : Running(d)' <=> Running(d)
  BY DEF Named, Running
<1>3. ColumnsInv'
  BY <1>2 DEF StorageInv, ColumnsInv
<1>4. ASSUME NEW u \in Workers \ {w} PROVE WorkerInv(u)'
  <2>1. WorkerInv(u) /\ worker'[u] = worker[u] /\ Dir(u)' = Dir(u)
    BY <1>4 DEF StorageInv, WorkersInv, Dir
  <2>2. ASSUME worker[u].pc \in Unregistered
        PROVE  place'[Dir(u)] = place[Dir(u)]
    <3>1. worker[u].pc # "idle" /\ Dir(u) \notin registered
      BY <2>1, <2>2 DEF WorkerInv, Unregistered
    <3>2. Dir(u) # Dir(w) /\ Dir(u) \in Dirs
      BY <1>4, <3>1 DEF StorageInv, ClaimsInv, Dir
    <3> QED
      BY <3>1, <3>2 DEF Harmless
  <2>3. Owns(u)' <=> Owns(u)
    BY <2>1 DEF Owns
  <2> QED
    BY <1>2, <2>1, <2>2, <2>3 DEF WorkerInv, Before, Unregistered
<1>5. WorkersInv'
  BY <1>4 DEF WorkersInv
<1>6. QuarantineInv'
  <2>1. \A d \in Dirs : Retired(d)' <=> Retired(d)
    BY <1>2 DEF Retired
  <2>2. \A d \in Dirs : place'[d] # "none" => d <= claims'
    BY DEF StorageInv, QuarantineInv, Harmless
  <2>3. \A d \in Dirs : kept'[d] # "none" => place'[d] = "none" /\ Retired(d)'
    BY <2>1 DEF StorageInv, QuarantineInv, Harmless
  <2>4. script.pc = "move" => script.dir \in Dirs
    BY DEF StorageInv, QuarantineInv
  <2> QED
    BY <2>1, <2>2, <2>3, <2>4 DEF StorageInv, QuarantineInv
<1>7. DownloadsExist'
  <2>1. zip \in Dirs \cup {NoDir} /\ \A f \in Sources : result[f] \in Dirs \cup {NoDir}
    BY <1>0 DEF TypeOK
  <2> QED
    BY <2>1 DEF StorageInv, DownloadsExist, Harmless
<1>8. LeftInv'
  <2> SUFFICES ASSUME failures' = 0, crashes' = 0, manifest' = {}
               PROVE  /\ ~lost'
                      /\ \A d \in Dirs : place'[d] # "none" =>
                            \/ d \in registered' /\ (batch' # "gone" \/ deleting')
                            \/ \E u \in Workers : worker'[u].pc \in Holding /\ Dir(u)' = d
    BY DEF LeftInv
  <2>1. /\ ~lost /\ HoldsOn(w)
        /\ \A d \in Dirs : place[d] # "none" =>
              \/ d \in registered /\ (batch # "gone" \/ deleting)
              \/ \E u \in Workers : worker[u].pc \in Holding /\ Dir(u) = d
    BY DEF StorageInv, LeftInv
  <2>2. worker'[w].pc \in Holding => Dir(w)' = Dir(w)
    BY DEF Holding, Dir
  <2>3. ASSUME NEW d \in Dirs, place'[d] # "none", d \notin registered \/ (batch = "gone" /\ ~deleting)
        PROVE  \E u \in Workers : worker'[u].pc \in Holding /\ Dir(u)' = d
    <3>1. CASE place[d] = "none"
      BY <2>1, <2>2, <2>3, <3>1 DEF HoldsOn
    <3>2. CASE place[d] # "none"
      <4>1. PICK u \in Workers : worker[u].pc \in Holding /\ Dir(u) = d
        BY <2>1, <2>3, <3>2
      <4>2. CASE u = w
        BY <2>1, <2>2, <2>3, <4>1, <4>2 DEF HoldsOn
      <4>3. CASE u # w
        BY <4>1, <4>3 DEF Dir
      <4> QED
        BY <4>2, <4>3
    <3> QED
      BY <3>1, <3>2
  <2> QED
    BY <2>1, <2>3
<1> QED
  BY <1>1, <1>3, <1>5, <1>6, <1>7, <1>8 DEF StorageInv

\* The notes of a worker that goes back to the queue.
LEMMA IdleKeeps ==
    ASSUME NEW w \in Workers, worker'[w].pc = "idle", worker'[w].previous = {}
    PROVE  WorkerInv(w)'
  BY DEF WorkerInv, Before, Unregistered

LEMMA FileSteps ==
    ASSUME QuarantineTypeOK, StorageInv, NEW w \in Workers, FileStep(w) \/ Crash(w),
           UNCHANGED quarantine
    PROVE  StorageInv'
<1> USE DEF columns, counters
<1>0. /\ TypeOK /\ worker[w].pc # "idle"
      /\ Dir(w) \in Dirs /\ Dir(w) <= claims
      /\ WorkerInv(w)
      /\ worker[w].previous \in SUBSET Dirs
      /\ place \in [Dirs -> {"none", "tmp", "published"}]
      /\ kept' = kept
  BY WorkerTypes DEF FileStep, LoadInputs, MakeWorkspace, MoveToPublished, Raise, Discard, RemoveOwn,
     FindUnnamed, RemovePrevious, Crash, QuarantineTypeOK, StorageInv, WorkersInv, ClaimsInv, Dir,
     TypeOK, quarantine
<1>1. UNCHANGED <<batch, job, columns, registered, deleting, lost, claims>>
  BY <1>0, TypeOfFiles DEF Crash
<1>2. Named' = Named /\ (Owns(w)' <=> job.status = "running" /\ job.token = worker'[w].token)
  BY <1>1 DEF Named, Owns
<1>3. ASSUME NEW pc \in Pcs, Step(w, pc) PROVE Own(w, pc, worker[w].previous)
  BY <1>0, <1>3, OwnRecord DEF Step
<1>4. ASSUME NEW pc \in Pcs, NEW S, Own(w, pc, S), crashes' = crashes,
             failures' = failures \/ failures' = failures + 1,
             WorkerInv(w)',
             \A d \in Dirs : place'[d] = place[d] \/ Harmless(w, d),
             failures' = failures /\ ~lost => HoldsOn(w)
      PROVE  StorageInv'
  <2>1. failures \in Nat
    BY <1>0 DEF TypeOK
  <2>2. failures' = 0 => failures = 0 /\ failures' = failures
    BY <1>4, <2>1
  <2> QED
    BY <1>0, <1>1, <1>4, <2>2, FilesKeep DEF Own
<1>5. CASE Crash(w)
  <2>1. /\ \A u \in Workers \ {w} : worker'[u] = worker[u]
        /\ worker'[w].pc = "idle" /\ worker'[w].previous = {}
    BY <1>0, <1>5, IdleRecord DEF Crash
  <2>2. crashes' # 0 /\ failures' = failures /\ place' = place
    BY <1>0, <1>5 DEF Crash, TypeOK
  <2> QED
    BY <1>0, <1>1, <2>1, <2>2, IdleKeeps, FilesKeep
<1>6. CASE LoadInputs(w)
  <2> DEFINE S == ({zip} \cup Range(result)) \ {NoDir}
  <2>1. /\ worker[w].pc = "claimed" /\ place' = place /\ failures' = failures /\ crashes' = crashes
        /\ worker' = [worker EXCEPT ![w].pc = "loaded", ![w].previous = S]
    BY <1>6 DEF LoadInputs
  <2>2. S \subseteq Named /\ S \in SUBSET Dirs
    BY <1>0 DEF Named, TypeOK, Range
  <2> HIDE DEF S
  <2>3. Own(w, "loaded", S)
    BY <1>0, <2>1, <2>2, OwnRecord DEF Pcs
  <2>4. S \subseteq registered
    BY <2>2 DEF StorageInv, ColumnsInv
  <2>5. WorkerInv(w)'
    BY <1>0, <1>1, <2>1, <2>3, <2>4 DEF WorkerInv, Own, Before, Unregistered, Dir
  <2>6. HoldsOn(w)
    BY <2>1 DEF HoldsOn, Holding
  <2> QED
    BY <1>4, <2>1, <2>3, <2>5, <2>6 DEF Pcs
<1>7. CASE MakeWorkspace(w)
  <2>1. /\ worker[w].pc = "loaded" /\ place' = [place EXCEPT ![Dir(w)] = "tmp"]
        /\ failures' = failures /\ crashes' = crashes /\ Step(w, "writing")
    BY <1>7 DEF MakeWorkspace
  <2>2. Own(w, "writing", worker[w].previous)
    BY <1>3, <2>1 DEF Pcs
  <2>3. place[Dir(w)] = "none" /\ kept[Dir(w)] = "none" /\ Dir(w) \notin registered
    BY <1>0, <2>1 DEF WorkerInv, Before, Unregistered
  <2>4. WorkerInv(w)'
    BY <1>0, <1>1, <2>2, <2>3 DEF WorkerInv, Own, Before, Unregistered, Dir
  <2>5. Dir(w) \notin Named
    BY <2>3 DEF StorageInv, ColumnsInv
  <2>6. Harmless(w, Dir(w))
    BY <1>0, <2>3, <2>5, NamesOf DEF Harmless
  <2>7. HoldsOn(w)
    BY <1>0, <2>1, <2>2 DEF HoldsOn, Holding, Own
  <2> QED
    BY <1>0, <1>4, <2>1, <2>2, <2>4, <2>6, <2>7 DEF Pcs
<1>8. CASE MoveToPublished(w)
  <2>1. /\ worker[w].pc = "writing" /\ place[Dir(w)] = "tmp"
        /\ place' = [place EXCEPT ![Dir(w)] = "published"]
        /\ failures' = failures /\ crashes' = crashes /\ Step(w, "publish")
    BY <1>8 DEF MoveToPublished
  <2>2. Own(w, "publish", worker[w].previous)
    BY <1>3, <2>1 DEF Pcs
  <2>3. kept[Dir(w)] = "none" /\ Dir(w) \notin registered /\ place'[Dir(w)] = "published"
    BY <1>0, <2>1 DEF WorkerInv, Unregistered, StorageInv, QuarantineInv
  <2>4. WorkerInv(w)'
    BY <1>0, <1>1, <2>2, <2>3 DEF WorkerInv, Own, Before, Unregistered, Dir
  <2>5. Harmless(w, Dir(w))
    BY <1>0, <2>3 DEF Harmless
  <2>6. HoldsOn(w)
    BY <1>0, <2>1, <2>2 DEF HoldsOn, Holding, Own
  <2> QED
    BY <1>0, <1>4, <2>1, <2>2, <2>4, <2>5, <2>6 DEF Pcs
<1>9. CASE Raise(w)
  <2>1. PICK pc \in {"raised", "discard"} :
           /\ Step(w, pc)
           /\ \/ worker[w].pc \in Before /\ pc = "raised"
              \/ worker[w].pc \in {"writing", "publish"} /\ pc = "discard"
    BY <1>9 DEF Raise, Before
  <2>2. place' = place /\ failures' = failures /\ crashes' = crashes /\ pc \in Pcs
    BY <1>9 DEF Raise, Pcs
  <2>3. Own(w, pc, worker[w].previous)
    BY <1>3, <2>1, <2>2
  <2>4. WorkerInv(w)'
    BY <1>0, <1>1, <2>1, <2>2, <2>3 DEF WorkerInv, Own, Before, Unregistered, Dir
  <2>5. HoldsOn(w)
    BY <2>1, <2>2, <2>3 DEF HoldsOn, Holding, Own, Before
  <2> QED
    BY <1>4, <2>2, <2>3, <2>4, <2>5
<1>10. CASE Discard(w) \/ RemoveOwn(w)
  <2>1. PICK pc \in {"raised", "unregistered"} :
           /\ Step(w, pc)
           /\ \/ /\ pc = "raised" /\ failures' = failures
                 /\ place' = [place EXCEPT ![Dir(w)] = "none"]
                 /\ \/ worker[w].pc = "discard" /\ place[Dir(w)] = "tmp"
                    \/ worker[w].pc = "unregistered"
              \/ /\ pc = "raised" /\ failures' = failures /\ place' = place
                 /\ worker[w].pc = "discard"
                 /\ place[Dir(w)] = "none" \/ IsRegistered(w)
              \/ /\ pc = "unregistered" /\ failures' = failures /\ place' = place
                 /\ worker[w].pc = "discard" /\ ~IsRegistered(w)
              \/ pc = "raised" /\ failures' = failures + 1 /\ place' = place
    BY <1>10 DEF Discard, RemoveOwn, Failing
  <2>2. crashes' = crashes /\ pc \in Pcs /\ worker[w].pc \in {"discard", "unregistered"}
    BY <1>10 DEF Discard, RemoveOwn, Pcs
  <2>3. Own(w, pc, worker[w].previous)
    BY <1>3, <2>1, <2>2
  <2>4. Dir(w) # Legacy /\ Dir(w) # NoDir
    BY <1>0, Numbers DEF StorageInv, ClaimsInv, Dir
  <2>5. ~IsRegistered(w) => zip # Dir(w)
    BY <2>4 DEF StorageInv, ColumnsInv, IsRegistered
  <2>6. ~lost => Dir(w) \notin registered /\ Dir(w) \notin Named
    BY <1>0, <2>2 DEF WorkerInv, StorageInv, ColumnsInv
  <2>7. WorkerInv(w)'
    BY <1>0, <1>1, <2>1, <2>2, <2>3, <2>5, <2>6 DEF WorkerInv, Own, Before, Unregistered, Dir
  <2>8. ASSUME place' # place PROVE place'[Dir(w)] = place[Dir(w)] \/ Harmless(w, Dir(w))
    <3>1. CASE worker[w].pc = "discard" /\ place[Dir(w)] = "tmp"
      <4>1. zip # Dir(w)
        BY <3>1, <2>4 DEF StorageInv, DownloadsExist
      <4>2. kept[Dir(w)] = "none"
        BY <1>0, <3>1 DEF StorageInv, QuarantineInv
      <4> QED
        BY <1>0, <2>6, <4>1, <4>2, NamesOf DEF Harmless
    <3>2. CASE worker[w].pc = "unregistered" /\ place[Dir(w)] # "none"
      <4>1. zip # Dir(w)
        BY <1>0, <3>2 DEF WorkerInv
      <4>2. kept[Dir(w)] = "none"
        BY <1>0, <3>2 DEF StorageInv, QuarantineInv
      <4> QED
        BY <1>0, <2>6, <4>1, <4>2, NamesOf DEF Harmless
    <3>3. CASE worker[w].pc = "unregistered" /\ place[Dir(w)] = "none"
      BY <1>0, <2>1, <2>8, <3>3
    <3> QED
      BY <2>1, <2>8, <3>1, <3>2, <3>3
  <2>9. \A d \in Dirs : place'[d] = place[d] \/ Harmless(w, d)
    <3>1. \A d \in Dirs \ {Dir(w)} : place'[d] = place[d]
      BY <1>0, <2>1
    <3> QED
      BY <2>8, <3>1
  <2>10. IsRegistered(w) => Dir(w) \in Named
    BY <1>0, <2>4, NamesOf DEF IsRegistered
  <2>11. failures \in Nat
    BY <1>0 DEF TypeOK
  <2>12. failures' = failures /\ ~lost => HoldsOn(w)
    <3> SUFFICES ASSUME failures' = failures, ~lost PROVE HoldsOn(w)
      OBVIOUS
    <3>1. failures' # failures + 1
      BY <2>11
    <3>2. \/ place'[Dir(w)] = "none"
          \/ pc = "unregistered"
      BY <1>0, <2>1, <2>6, <2>10, <3>1
    <3>3. \A d \in Dirs : place[d] = "none" => place'[d] = "none"
      BY <1>0, <2>1
    <3> QED
      BY <2>3, <3>2, <3>3 DEF HoldsOn, Holding, Own
  <2>13. failures' = failures \/ failures' = failures + 1
    BY <2>1
  <2> QED
    BY <1>4, <2>2, <2>3, <2>7, <2>9, <2>12, <2>13
<1>11. CASE FindUnnamed(w)
  <2>1. worker[w].pc = "cleanup" /\ place' = place /\ crashes' = crashes
    BY <1>11 DEF FindUnnamed
  <2>2. CASE worker' = [worker EXCEPT ![w] = Idle] /\ Failing
    <3>1. /\ \A u \in Workers \ {w} : worker'[u] = worker[u]
          /\ worker'[w].pc = "idle" /\ worker'[w].previous = {}
      BY <1>0, <2>2, IdleRecord
    <3>2. failures' # 0
      BY <1>0, <2>2 DEF Failing, TypeOK
    <3> QED
      BY <1>0, <1>1, <2>1, <3>1, <3>2, IdleKeeps, FilesKeep
  <2>3. CASE /\ failures' = failures
             /\ worker' = [worker EXCEPT ![w].pc = "removing",
                                ![w].previous = worker[w].previous \ (Named \cup {Dir(w)})]
    <3> DEFINE S == worker[w].previous \ (Named \cup {Dir(w)})
    <3>1. S \in SUBSET Dirs /\ S \subseteq worker[w].previous /\ S \cap Named = {}
      BY <1>0
    <3> HIDE DEF S
    <3>2. worker' = [worker EXCEPT ![w].pc = "removing", ![w].previous = S]
      BY <2>3 DEF S
    <3>3. Own(w, "removing", S)
      BY <1>0, <3>1, <3>2, OwnRecord DEF Pcs
    <3>4. WorkerInv(w)'
      BY <1>0, <1>1, <1>2, <3>1, <3>3 DEF WorkerInv, Own, Before, Unregistered
    <3>5. HoldsOn(w)
      BY <2>1 DEF HoldsOn, Holding
    <3> QED
      BY <1>4, <2>1, <2>3, <3>3, <3>4, <3>5 DEF Pcs
  <2> QED
    BY <1>11, <2>2, <2>3 DEF FindUnnamed
<1>12. CASE RemovePrevious(w)
  <2>1. worker[w].pc = "removing" /\ crashes' = crashes
    BY <1>12 DEF RemovePrevious
  <2>2. CASE worker' = [worker EXCEPT ![w] = Idle] /\ UNCHANGED <<place, failures>>
    <3>1. /\ \A u \in Workers \ {w} : worker'[u] = worker[u]
          /\ worker'[w].pc = "idle" /\ worker'[w].previous = {}
      BY <1>0, <2>2, IdleRecord
    <3>2. HoldsOn(w)
      BY <2>1, <2>2 DEF HoldsOn, Holding
    <3> QED
      BY <1>0, <1>1, <2>1, <2>2, <3>1, <3>2, IdleKeeps, FilesKeep
  <2>3. CASE \E d \in worker[w].previous :
                /\ worker' = [worker EXCEPT ![w].previous = worker[w].previous \ {d}]
                /\ \/ place' = [place EXCEPT ![d] = "none"] /\ UNCHANGED failures
                   \/ Failing /\ UNCHANGED place
    <3>1. PICK d \in worker[w].previous :
                /\ worker' = [worker EXCEPT ![w].previous = worker[w].previous \ {d}]
                /\ \/ place' = [place EXCEPT ![d] = "none"] /\ UNCHANGED failures
                   \/ Failing /\ UNCHANGED place
      BY <2>3
    <3>2. d \in Dirs /\ d \in registered /\ d \notin Named /\ worker[w].previous \ {d} \in SUBSET Dirs
      BY <1>0, <2>1 DEF WorkerInv
    <3>3. Own(w, "removing", worker[w].previous \ {d})
      BY <1>0, <2>1, <3>1, <3>2, OwnRecord
    <3>4. WorkerInv(w)'
      BY <1>0, <1>1, <1>2, <2>1, <3>3 DEF WorkerInv, Own, Before, Unregistered
    <3>5. place[d] # "none" => Harmless(w, d)
      BY <1>0, <3>2, NamesOf DEF Harmless, StorageInv, QuarantineInv
    <3>6. \A e \in Dirs : place'[e] = place[e] \/ Harmless(w, e)
      BY <1>0, <3>1, <3>2, <3>5
    <3>7. HoldsOn(w)
      BY <1>0, <2>1, <3>1, <3>2 DEF HoldsOn, Holding
    <3>8. failures' = failures \/ failures' = failures + 1
      BY <3>1 DEF Failing
    <3> QED
      BY <1>4, <2>1, <3>3, <3>4, <3>6, <3>7, <3>8 DEF Pcs
  <2> QED
    BY <1>12, <2>2, <2>3 DEF RemovePrevious
<1> QED
  BY <1>5, <1>6, <1>7, <1>8, <1>9, <1>10, <1>11, <1>12 DEF FileStep

-------------------------------------------------------------------------------
(* Rows. *)

\* Columns are kept or cleared, and no claim begins.
ColumnsClear ==
    /\ zip' \in {zip, NoDir} /\ output' \in {output, NoDir}
    /\ \A f \in Sources : result'[f] \in {result[f], NoDir}

LEMMA NamesShrink ==
    ASSUME TypeOK, TypeOK', ColumnsClear
    PROVE  Named' \subseteq Named
<1>1. Named' \subseteq Dirs
  BY DEF TypeOK, Named, Range
<1>2. \A d \in Dirs : d \in Named' => d = output' \/ d = zip' \/ \E f \in Sources : result'[f] = d
  BY Numbers DEF TypeOK, Named, Range
<1> QED
  BY <1>1, <1>2, NamesOf, Numbers DEF ColumnsClear

LEMMA RowsKeep ==
    ASSUME QuarantineTypeOK, TypeOK', StorageInv, ColumnsClear,
           UNCHANGED <<place, registered, claims, lost, failures, crashes, quarantine>>,
           \A w \in Workers : \/ worker'[w] = worker[w]
                              \/ /\ worker[w].pc \notin Holding
                                 /\ worker'[w].pc = "idle" /\ worker'[w].previous = {},
           job'.status = "running" => job' = job,
           zip' \notin {NoDir, Legacy} => job'.status = "succeeded" /\ output' = zip',
           batch = "gone" => batch' = "gone",
           batch' = "gone" => batch = "gone" \/ deleting',
           batch' = "gone" => Named' = {},
           deleting => deleting', deleting' => batch' = "gone"
    PROVE  StorageInv'
<1> USE DEF quarantine
<1>0. TypeOK /\ Named' \subseteq Named /\ \A d : Running(d)' => Running(d)
  BY NamesShrink DEF QuarantineTypeOK, Running
<1>1. ClaimsInv'
  BY DEF StorageInv, ClaimsInv
<1>2. ColumnsInv'
  BY <1>0 DEF StorageInv, ColumnsInv
<1>3. ASSUME NEW w \in Workers PROVE WorkerInv(w)'
  <2>1. CASE worker'[w] = worker[w]
    <3>1. Dir(w)' = Dir(w) /\ (Owns(w)' => Owns(w)) /\ WorkerInv(w)
      BY <2>1 DEF Dir, Owns, StorageInv, WorkersInv
    <3>2. worker[w].pc = "unregistered" => zip' # Dir(w)
      <4>1. worker[w].pc = "unregistered" => Dir(w) \in Dirs
        BY DEF StorageInv, ClaimsInv, Dir
      <4> QED
        BY <3>1, <4>1, Numbers DEF WorkerInv, ColumnsClear
    <3> QED
      BY <1>0, <2>1, <3>1, <3>2 DEF WorkerInv
  <2>2. CASE worker'[w].pc = "idle" /\ worker'[w].previous = {}
    BY <2>2, IdleKeeps
  <2> QED
    BY <2>1, <2>2
<1>4. \A d \in Dirs : Retired(d) => Retired(d)'
  BY <1>0 DEF Retired
<1>5. QuarantineInv'
  BY <1>4 DEF StorageInv, QuarantineInv
<1>6. DownloadsExist'
  BY DEF StorageInv, DownloadsExist, ColumnsClear
<1>7. LeftInv'
  <2>1. \A w \in Workers : worker[w].pc \in Holding => worker'[w].pc \in Holding /\ Dir(w)' = Dir(w)
    BY DEF Dir
  <2> QED
    BY <2>1 DEF StorageInv, LeftInv
<1> QED
  BY <1>1, <1>2, <1>3, <1>5, <1>6, <1>7 DEF StorageInv, WorkersInv

LEMMA RowSteps ==
    ASSUME QuarantineTypeOK, StorageInv, RowStep, UNCHANGED quarantine
    PROVE  StorageInv'
<1> USE DEF columns, counters, Request
<1>0. /\ TypeOK /\ TypeOK'
      /\ (zip \notin {NoDir, Legacy} => job.status = "succeeded" /\ output = zip)
      /\ (batch = "gone" => Named = {}) /\ (deleting => batch = "gone")
  BY TypeOfRows DEF QuarantineTypeOK, StorageInv, ColumnsInv
<1>1. UNCHANGED <<place, registered, claims, lost, failures, crashes, worker>>
  BY DEF RowStep, Recover, StartExport, SaveOffline, Invalidate, Recompute, Compute, Delete, SaveSplit
<1>2. ColumnsClear
  BY <1>0 DEF ColumnsClear, RowStep, Recover, StartExport, SaveOffline, Invalidate, Recompute, Compute,
     Delete, SaveSplit, NoResults, TypeOK
<1>3. job'.status = "running" => job' = job
  <2>0. job \in JobRecord
    BY <1>0 DEF TypeOK
  <2>1. \A r \in JobRecord :
           /\ Recovered(r, MaxAttempts).status # "running"
           /\ Queued(r, "export").status # "running"
           /\ MarkedStale(r).status = "running" => MarkedStale(r) = r
           /\ Cleared(r).status # "running"
           /\ ResetJob(r, "export", FALSE).status = "running" => ResetJob(r, "export", FALSE) = r
    BY DEF Recovered, Queued, MarkedStale, Cleared, ResetJob, JobRecord
  <2>2. NoJob.status # "running"
    BY DEF NoJob
  <2>3. \/ job' \in {job, Recovered(job, MaxAttempts), Queued(job, "export"), NoJob}
        \/ job' \in {MarkedStale(job), Cleared(job), ResetJob(job, "export", FALSE)}
    BY DEF RowStep, Recover, StartExport, SaveOffline, Invalidate, Recompute, Compute, Delete,
       SaveSplit
  <2> QED
    BY <2>0, <2>1, <2>2, <2>3
<1>4. zip' \notin {NoDir, Legacy} => job'.status = "succeeded" /\ output' = zip'
  <2>1. CASE Recover
    BY <1>0, <2>1 DEF Recover
  <2>2. CASE StartExport
    <3>1. zip \in {NoDir, Legacy}
      BY <1>0, <2>2 DEF StartExport, MergedReady, StorageInv, DownloadsExist
    <3> QED
      BY <2>2, <3>1 DEF StartExport
  <2>3. CASE SaveOffline \/ Invalidate \/ Recompute \/ Compute \/ Delete \/ \E f \in Sources : SaveSplit(f)
    BY <2>3 DEF SaveOffline, Invalidate, Recompute, Compute, Delete, SaveSplit
  <2> QED
    BY <2>1, <2>2, <2>3 DEF RowStep
<1>5. /\ batch = "gone" => batch' = "gone" /\ deleting' = deleting
      /\ deleting => deleting'
      /\ deleting' => batch' = "gone"
      /\ batch' = "gone" /\ batch # "gone" =>
            /\ deleting' /\ output' = NoDir /\ zip' = NoDir /\ \A f \in Sources : result'[f] = NoDir
  <2>1. CASE Recover \/ StartExport \/ SaveOffline \/ \E f \in Sources : SaveSplit(f)
    <3>1. batch' = batch /\ deleting' = deleting
      BY <2>1 DEF Recover, StartExport, SaveOffline, SaveSplit
    <3> QED
      BY <1>0, <3>1
  <2>2. CASE Invalidate \/ Recompute \/ Compute
    <3>1. batch # "gone" /\ batch' # "gone" /\ deleting' = deleting
      <4>1. CASE Invalidate
        BY <4>1 DEF Invalidate
      <4>2. CASE Recompute
        BY <4>2 DEF Recompute, ExportIdle
      <4>3. CASE Compute
        BY <4>3 DEF Compute
      <4> QED
        BY <2>2, <4>1, <4>2, <4>3
    <3> QED
      BY <1>0, <3>1
  <2>3. CASE Delete
    BY <1>0, <2>3 DEF Delete, NoResults
  <2> QED
    BY <2>1, <2>2, <2>3 DEF RowStep
<1>6. batch' = "gone" => Named' = {}
  <2>1. CASE batch = "gone"
    BY <1>0, <1>2, <2>1, NamesShrink
  <2>2. CASE batch # "gone" /\ batch' = "gone"
    BY <1>0, <1>5, <2>2 DEF Named, Range, TypeOK
  <2> QED
    BY <2>1, <2>2
<1> QED
  BY <1>0, <1>1, <1>2, <1>3, <1>4, <1>5, <1>6, RowsKeep

LEMMA FailSteps ==
    ASSUME QuarantineTypeOK, StorageInv, NEW w \in Workers, Fail(w), UNCHANGED quarantine
    PROVE  StorageInv'
<1> USE DEF columns, counters
<1>0. TypeOK /\ TypeOK'
  BY TypeOfNext DEF QuarantineTypeOK, StorageInv, Next
<1>1. /\ UNCHANGED <<batch, columns, place, registered, deleting, lost, claims, failures, crashes>>
      /\ worker[w].pc = "raised"
      /\ \A u \in Workers \ {w} : worker'[u] = worker[u]
      /\ worker'[w].pc = "idle" /\ worker'[w].previous = {}
  BY <1>0, IdleRecord DEF Fail
<1>2. job' = job \/ (job.status = "running" /\ job'.status = "failed")
  BY <1>0 DEF Fail, Owns, Ended, TypeOK, JobRecord
<1>3. ColumnsClear /\ Named' = Named
  BY <1>1 DEF ColumnsClear, Named
<1>4. /\ (zip \notin {NoDir, Legacy} => job.status = "succeeded" /\ output = zip)
      /\ (batch = "gone" => Named = {}) /\ (deleting => batch = "gone")
  BY DEF StorageInv, ColumnsInv
<1> QED
  BY <1>0, <1>1, <1>2, <1>3, <1>4, RowsKeep DEF Holding

LEMMA RootSteps ==
    ASSUME QuarantineTypeOK, StorageInv, RemoveRoot, UNCHANGED quarantine
    PROVE  StorageInv'
<1> USE DEF columns, quarantine
<1>0. /\ TypeOK /\ deleting /\ batch = "gone" /\ Named = {} /\ ~deleting'
      /\ UNCHANGED <<batch, job, columns, registered, worker, lost, claims, crashes, quarantine>>
      /\ failures \in Nat
  BY DEF RemoveRoot, StorageInv, ColumnsInv, QuarantineTypeOK, TypeOK
<1>1. \/ (\A d \in Dirs : place'[d] = "none") /\ failures' = failures
      \/ place' = place /\ failures' = failures + 1
  BY DEF RemoveRoot, Failing
<1>2. Named' = Named /\ (\A d : Running(d)' <=> Running(d)) /\ \A w : Dir(w)' = Dir(w)
  BY <1>0 DEF Named, Running, Dir
<1>3. ClaimsInv' /\ ColumnsInv'
  BY <1>0, <1>2 DEF StorageInv, ClaimsInv, ColumnsInv
<1>4. WorkersInv'
  <2> SUFFICES ASSUME NEW w \in Workers PROVE WorkerInv(w)'
    BY DEF WorkersInv
  <2>1. WorkerInv(w) /\ (worker[w].pc \in Before => Dir(w) \in Dirs)
    BY DEF StorageInv, WorkersInv, ClaimsInv, Before, Dir
  <2> QED
    BY <1>0, <1>1, <1>2, <2>1 DEF WorkerInv
<1>5. QuarantineInv'
  <2>1. \A d \in Dirs : Retired(d)' <=> Retired(d)
    BY <1>0, <1>2 DEF Retired
  <2> QED
    BY <1>0, <1>1, <2>1 DEF StorageInv, QuarantineInv
<1>6. DownloadsExist'
  <2>1. zip = NoDir /\ \A f \in Sources : result[f] = NoDir
    BY <1>0, NamesOf DEF TypeOK
  <2> QED
    BY <1>0, <2>1 DEF DownloadsExist
<1>7. LeftInv'
  BY <1>0, <1>1 DEF StorageInv, LeftInv
<1> QED
  BY <1>3, <1>4, <1>5, <1>6, <1>7 DEF StorageInv

-------------------------------------------------------------------------------
(* Claims and registrations. *)

LEMMA ClaimSteps ==
    ASSUME QuarantineTypeOK, StorageInv, NEW w \in Workers, Claim(w), UNCHANGED quarantine
    PROVE  StorageInv'
<1> USE DEF columns, quarantine
<1>0. TypeOK /\ claims \in Nat
  BY DEF QuarantineTypeOK, TypeOK
<1> DEFINE D == claims + 1
<1>1. /\ \A u \in Workers \ {w} : worker'[u] = worker[u]
      /\ worker[w].pc = "idle" /\ worker'[w].pc = "claimed" /\ worker'[w].token = D
      /\ worker'[w].previous = {}
      /\ claims' = D /\ D \in Dirs /\ job'.status = "running" /\ job'.token = D
      /\ job.status = "queued"
      /\ UNCHANGED <<batch, columns, place, registered, deleting, lost, failures, crashes, quarantine>>
  BY <1>0, ClaimRecord DEF Claim
<1>2. D <= D /\ \A n \in Dirs : n <= claims => n # D /\ n <= D
  BY <1>0, Numbers
<1>3. D # Legacy
  BY <1>0, <1>2 DEF StorageInv, ClaimsInv, Legacy, Dirs
<1> HIDE DEF D
<1>4. Named' = Named /\ registered \subseteq Dirs /\ \A d : Running(d)' <=> d = D
  BY <1>0, <1>1 DEF Named, Running, TypeOK
<1>5. ClaimsInv'
  BY <1>1, <1>2, <1>3 DEF StorageInv, ClaimsInv
<1>6. ColumnsInv'
  BY <1>1, <1>2, <1>4 DEF StorageInv, ColumnsInv
<1>7. \A d \in Dirs : Retired(d) => Retired(d)'
  BY <1>1, <1>2, <1>4 DEF Retired
<1>8. place[D] = "none" /\ kept[D] = "none" /\ D \notin registered
  BY <1>1, <1>2, <1>4 DEF StorageInv, QuarantineInv, ColumnsInv, Retired
<1>9. ASSUME NEW u \in Workers PROVE WorkerInv(u)'
  <2>1. CASE u = w
    BY <1>1, <1>8, <2>1 DEF WorkerInv, Before, Unregistered, Dir
  <2>2. CASE u # w
    <3>1. WorkerInv(u) /\ worker'[u] = worker[u] /\ Dir(u)' = Dir(u)
      BY <1>1, <2>2 DEF StorageInv, WorkersInv, Dir
    <3>2. worker[u].pc # "idle" => worker[u].token # D
      BY <1>2 DEF StorageInv, ClaimsInv
    <3>3. worker[u].pc = "publish" => ~Owns(u)'
      BY <1>1, <3>1, <3>2 DEF Owns
    <3> QED
      BY <1>1, <1>4, <3>1, <3>3 DEF WorkerInv
  <2> QED
    BY <2>1, <2>2
<1>10. QuarantineInv'
  BY <1>1, <1>2, <1>7 DEF StorageInv, QuarantineInv
<1>11. DownloadsExist'
  BY <1>1 DEF StorageInv, DownloadsExist
<1>12. LeftInv'
  <2>1. \A u \in Workers : worker[u].pc \in Holding => worker'[u].pc \in Holding /\ Dir(u)' = Dir(u)
    BY <1>1 DEF Dir, Holding
  <2> QED
    BY <1>1, <2>1 DEF StorageInv, LeftInv
<1> QED
  BY <1>5, <1>6, <1>9, <1>10, <1>11, <1>12 DEF StorageInv, WorkersInv

LEMMA RegisterSteps ==
    ASSUME QuarantineTypeOK, StorageInv, NEW w \in Workers, Register(w), UNCHANGED quarantine
    PROVE  StorageInv'
<1> USE DEF columns, quarantine
<1>0. /\ TypeOK /\ worker[w].pc = "publish" /\ Owns(w) /\ batch # "gone"
      /\ Dir(w) \in Dirs /\ Dir(w) <= claims /\ WorkerInv(w)
  BY DEF QuarantineTypeOK, Register, StorageInv, ClaimsInv, WorkersInv, Dir
<1> PICK D \in Dirs : D = Dir(w)
  BY <1>0
<1>1. PICK pc \in {"cleanup", "discard"} :
         /\ Own(w, pc, worker[w].previous)
         /\ pc = "discard" => lost' = TRUE /\ failures' = failures + 1
         /\ pc = "cleanup" => lost' = lost /\ failures' = failures
  BY <1>0, RegisterRecord
<1>2. /\ zip' = D /\ output' = D /\ (\A f \in Sources : result'[f] = D)
      /\ registered' = registered \cup {D} /\ job'.status = "succeeded"
      /\ UNCHANGED <<batch, place, deleting, claims, crashes, quarantine>>
  BY <1>0 DEF Register, Ended, TypeOK, JobRecord
<1>3. /\ place[D] = "published" /\ D \notin registered /\ Running(D)
      /\ kept[D] = "none" /\ D \notin Named
  BY <1>0 DEF WorkerInv, Unregistered, Owns, Running, Dir, StorageInv, QuarantineInv, ColumnsInv
<1>4. Named' = {D} /\ (\A d : ~Running(d)') /\ Sources # {}
  <2>1. \A f : f \in DOMAIN result' <=> f \in Sources
    BY <1>0 DEF Register
  <2> QED
    BY <1>2, <2>1, Numbers, ExportAssumption DEF Named, Range, Running
<1>5. ClaimsInv'
  BY <1>1, <1>2, <1>0 DEF StorageInv, ClaimsInv, Own
<1>6. ColumnsInv'
  BY <1>0, <1>2, <1>4 DEF StorageInv, ColumnsInv
<1>7. \A d \in Dirs : Retired(d) => Retired(d)'
  BY <1>2, <1>3, <1>4 DEF Retired
<1>8. ASSUME NEW u \in Workers PROVE WorkerInv(u)'
  <2>1. ~Owns(u)' /\ worker[u].previous \subseteq registered' /\ D \notin worker[u].previous
    BY <1>2, <1>3 DEF Owns, StorageInv, WorkersInv, WorkerInv
  <2>2. CASE u = w
    BY <1>1, <1>2, <2>1, <2>2 DEF WorkerInv, Before, Unregistered, Own
  <2>3. CASE u # w
    <3>1. WorkerInv(u) /\ worker'[u] = worker[u] /\ Dir(u)' = Dir(u)
          /\ (worker[u].pc # "idle" => Dir(u) # D)
      BY <1>0, <1>1, <2>3 DEF StorageInv, WorkersInv, ClaimsInv, Own, Dir
    <3>2. lost => lost'
      BY <1>1
    <3> QED
      BY <1>2, <1>4, <2>1, <3>1, <3>2 DEF WorkerInv, Before, Unregistered
  <2> QED
    BY <2>2, <2>3
<1>9. QuarantineInv'
  BY <1>2, <1>7 DEF StorageInv, QuarantineInv
<1>10. DownloadsExist'
  BY <1>2, <1>3 DEF DownloadsExist
<1>11. LeftInv'
  <2> SUFFICES ASSUME failures' = 0, crashes' = 0, manifest' = {}
               PROVE  /\ ~lost'
                      /\ \A d \in Dirs : place'[d] # "none" =>
                            \/ d \in registered' /\ (batch' # "gone" \/ deleting')
                            \/ \E u \in Workers : worker'[u].pc \in Holding /\ Dir(u)' = d
    BY DEF LeftInv
  <2>1. pc = "cleanup" /\ failures = 0
    BY <1>0, <1>1 DEF TypeOK
  <2>2. ~lost /\ \A d \in Dirs : place[d] # "none" =>
              \/ d \in registered /\ (batch # "gone" \/ deleting)
              \/ \E u \in Workers : worker[u].pc \in Holding /\ Dir(u) = d
    BY <1>2, <2>1 DEF StorageInv, LeftInv
  <2>3. \A u \in Workers : worker[u].pc \in Holding /\ Dir(u) # D
            => worker'[u].pc \in Holding /\ Dir(u)' = Dir(u)
    BY <1>1 DEF Own, Dir
  <2> QED
    BY <1>0, <1>1, <1>2, <2>1, <2>2, <2>3
<1> QED
  BY <1>5, <1>6, <1>8, <1>9, <1>10, <1>11 DEF StorageInv, WorkersInv

-------------------------------------------------------------------------------
(* The quarantine. *)

LEMMA ScriptSteps ==
    ASSUME QuarantineTypeOK, StorageInv, UNCHANGED <<vars, kept>>,
           manifest # {} => manifest' = manifest /\ members' = members,
           manifest' = {} => manifest = {},
           manifest' = {} => script'.pc = "idle",
           script'.pc = "move" =>
              /\ script'.dir \in Dirs /\ members'[script'.dir] # "none"
              /\ script'.restore \/ Retired(script'.dir)
    PROVE  StorageInv'
<1> USE DEF vars, columns, counters
<1>1. /\ Named' = Named /\ (\A d : Running(d)' <=> Running(d)) /\ \A d : Retired(d)' <=> Retired(d)
      /\ \A w : Dir(w)' = Dir(w) /\ (Owns(w)' <=> Owns(w))
  BY DEF Named, Running, Retired, Dir, Owns
<1>2. ClaimsInv' /\ ColumnsInv' /\ DownloadsExist'
  BY <1>1 DEF StorageInv, ClaimsInv, ColumnsInv, DownloadsExist
<1>3. WorkersInv'
  BY <1>1 DEF StorageInv, WorkersInv, WorkerInv
<1>4. QuarantineInv'
  BY <1>1 DEF StorageInv, QuarantineInv
<1>5. LeftInv'
  BY <1>1 DEF StorageInv, LeftInv
<1> QED
  BY <1>2, <1>3, <1>4, <1>5 DEF StorageInv

LEMMA MoveSteps ==
    ASSUME QuarantineTypeOK, StorageInv, MoveDir
    PROVE  StorageInv'
<1> USE DEF columns, counters
<1>0. /\ TypeOK /\ script.pc = "move" /\ script.dir \in Dirs /\ members[script.dir] # "none"
      /\ script.restore \/ Retired(script.dir)
      /\ manifest # {}
      /\ kept \in [Dirs -> Forms] /\ place \in [Dirs -> Forms]
  BY DEF MoveDir, StorageInv, QuarantineInv, QuarantineTypeOK, TypeOK, Forms
<1> PICK d \in Dirs : d = script.dir
  BY <1>0
<1>1. /\ UNCHANGED <<batch, job, columns, registered, worker, deleting, lost, counters, manifest,
                     members>>
      /\ script'.pc = "check"
      /\ \/ /\ kept[d] # "none" /\ place[d] = "none"
            /\ place' = [place EXCEPT ![d] = members[d]] /\ kept' = [kept EXCEPT ![d] = "none"]
         \/ /\ kept[d] = "none" /\ place[d] # "none" /\ Retired(d)
            /\ kept' = [kept EXCEPT ![d] = members[d]] /\ place' = [place EXCEPT ![d] = "none"]
  BY <1>0 DEF MoveDir, Source
<1>2. /\ Retired(d)
      /\ \A e \in Dirs \ {d} : place'[e] = place[e] /\ kept'[e] = kept[e]
      /\ place'[d] = "none" \/ kept'[d] = "none"
  BY <1>0, <1>1 DEF StorageInv, QuarantineInv
<1>3. /\ Named' = Named /\ (\A e : Running(e)' <=> Running(e)) /\ \A e : Retired(e)' <=> Retired(e)
      /\ \A w : Dir(w)' = Dir(w) /\ (Owns(w)' <=> Owns(w))
  BY <1>1 DEF Named, Running, Retired, Dir, Owns
<1>4. ClaimsInv' /\ ColumnsInv'
  BY <1>1, <1>3 DEF StorageInv, ClaimsInv, ColumnsInv
<1>5. ASSUME NEW w \in Workers PROVE WorkerInv(w)'
  <2>1. WorkerInv(w) /\ (worker[w].pc \in Unregistered => Dir(w) \in Dirs)
    BY DEF StorageInv, WorkersInv, ClaimsInv, Unregistered, Dir
  <2>2. worker[w].pc \in Before => Dir(w) # d
    BY <1>1, <2>1 DEF WorkerInv
  <2>3. Owns(w) => Dir(w) # d
    BY <1>2 DEF Owns, Retired, Running, Dir
  <2> QED
    BY <1>1, <1>2, <1>3, <2>1, <2>2, <2>3 DEF WorkerInv, Before, Unregistered
<1>6. QuarantineInv'
  <2>1. \A e \in Dirs : place'[e] # "none" => e <= claims'
    BY <1>1, <1>2 DEF StorageInv, QuarantineInv, Retired
  <2>2. \A e \in Dirs : kept'[e] # "none" => place'[e] = "none" /\ Retired(e)'
    BY <1>1, <1>2, <1>3 DEF StorageInv, QuarantineInv
  <2> QED
    BY <1>0, <1>1, <2>1, <2>2 DEF QuarantineInv
<1>7. DownloadsExist'
  <2>1. zip # d /\ \A f \in Sources : result[f] # d
    BY <1>0, <1>2, NamesOf DEF Retired
  <2>2. zip \in Dirs \cup {NoDir} /\ \A f \in Sources : result[f] \in Dirs \cup {NoDir}
    BY <1>0 DEF TypeOK
  <2> QED
    BY <1>1, <1>2, <2>1, <2>2 DEF StorageInv, DownloadsExist
<1>8. LeftInv'
  BY <1>0, <1>1 DEF LeftInv
<1> QED
  BY <1>4, <1>5, <1>6, <1>7, <1>8 DEF StorageInv, WorkersInv

LEMMA StorageStep ==
    QuarantineTypeOK /\ StorageInv /\ [QuarantineNext]_allVars => StorageInv'
<1> SUFFICES ASSUME QuarantineTypeOK, StorageInv, [QuarantineNext]_allVars PROVE StorageInv'
  OBVIOUS
<1>0. QuarantineInv
  BY DEF StorageInv
<1>1. CASE Next /\ UNCHANGED quarantine
  BY <1>1, NextCases, RowSteps, RootSteps, ClaimSteps, FileSteps, RegisterSteps, FailSteps
<1>2. CASE UNCHANGED allVars
  BY <1>0, <1>2, ScriptSteps DEF allVars, quarantine, QuarantineInv
<1>3. ASSUME NEW S \in SUBSET Dirs, Prepare(S) PROVE StorageInv'
  BY <1>0, <1>3, ScriptSteps DEF Prepare, QuarantineInv
<1>4. ASSUME NEW restore \in BOOLEAN, Begin(restore) PROVE StorageInv'
  BY <1>4, ScriptSteps DEF Begin
<1>5. ASSUME NEW d \in Dirs, Check(d) PROVE StorageInv'
  <2>1. /\ UNCHANGED <<vars, kept, manifest, members>> /\ script.pc = "check"
        /\ members[d] # "none"
    BY <1>5 DEF Check, Located
  <2>2. manifest # {}
    BY <1>0, <2>1 DEF QuarantineInv
  <2>3. script \in Script
    BY DEF QuarantineTypeOK
  <2>4. CASE script' = [script EXCEPT !.todo = @ \ {d}]
    <3>1. script'.pc = "check"
      BY <2>1, <2>3, <2>4 DEF Script
    <3> QED
      BY <2>1, <2>2, <3>1, ScriptSteps
  <2>5. CASE /\ IF script.restore THEN ParentExists ELSE SuspectedResidue(d)
             /\ script' = [script EXCEPT !.pc = "move", !.dir = d]
    <3>1. script'.pc = "move" /\ script'.dir = d /\ script'.restore = script.restore
      BY <2>3, <2>5 DEF Script
    <3>2. SuspectedResidue(d) => Retired(d)
      BY <1>0 DEF SuspectedResidue, Retired, Running, IsActive, ActiveStatus, QuarantineInv
    <3> QED
      BY <2>1, <2>2, <2>5, <3>1, <3>2, ScriptSteps
  <2> QED
    BY <1>5, <2>4, <2>5 DEF Check
<1>6. CASE MoveDir
  BY <1>6, MoveSteps
<1>7. CASE Leave
  BY <1>7, ScriptSteps DEF Leave, NoScript
<1> QED
  BY <1>1, <1>2, <1>3, <1>4, <1>5, <1>6, <1>7 DEF QuarantineNext

LEMMA StorageInvariant == QuarantineSpec => [](QuarantineTypeOK /\ StorageInv)
<1>1. QuarantineTypeOK /\ StorageInv /\ [QuarantineNext]_allVars => QuarantineTypeOK'
  BY TypeStep DEF StorageInv
<1> QED
  BY <1>1, TypeInit, StorageInit, StorageStep, PTL DEF QuarantineSpec

-------------------------------------------------------------------------------
(* Theorems. *)

\* Every reachable state of columns, directories, workers and the script is well typed.
THEOREM StorageTypeCorrect == QuarantineSpec => []QuarantineTypeOK
  BY StorageInvariant, PTL

\* The archive that can be downloaded is there, whatever workers lose their claims, crash
\* or take a commit for a failure, and whatever the quarantine moves meanwhile; so are the
\* directories of the sources' files, until a commit is taken for a failure.
THEOREM DownloadsAreThere == QuarantineSpec => []DownloadsExist
<1>1. StorageInv => DownloadsExist
  BY DEF StorageInv
<1> QED
  BY <1>1, StorageInvariant, PTL

\* A directory in quarantine is in one place only, and no column names it: not when it
\* was moved, and never while it is kept.
THEOREM QuarantineIsUnnamed == QuarantineSpec => []QuarantinedStaysUnnamed
<1>1. StorageInv => QuarantinedStaysUnnamed
  BY DEF StorageInv, QuarantineInv, Retired, QuarantinedStaysUnnamed
<1> QED
  BY <1>1, StorageInvariant, PTL

\* Where nothing fails or crashes and no quarantine was prepared, attempts that were not
\* registered and batches that were deleted leave nothing on disk.
THEOREM NothingIsLeft == QuarantineSpec => []NothingLeftOutside
<1>1. StorageInv => NothingLeftOutside
  BY DEF StorageInv, LeftInv, NothingLeftOutside, NothingLeftBehind, Holding
<1> QED
  BY <1>1, StorageInvariant, PTL
===============================================================================

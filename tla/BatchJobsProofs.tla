---------------------------- MODULE BatchJobsProofs ----------------------------
(***************************************************************************)
(* Proofs about BatchJobs, for any number of batches and workers, any       *)
(* assignment of queues and any bounds.                                     *)
(*                                                                         *)
(*   types      TypeCorrect                                                 *)
(*   rows       what any step may do to one row of job; the invariants on   *)
(*              tokens and attempts need no look at the single actions      *)
(*              (ClaimsExclusive, RunsAreBounded)                           *)
(*   batches    the inductive invariant Coherent(b), about one batch, its   *)
(*              jobs and its results, shown for one handler at a time;      *)
(*              with it goes Frozen(b), what a step may not change while a  *)
(*              job of b is under way                                       *)
(*   workers    what a worker read stays what its batch holds while it      *)
(*              keeps its claim (ReadsStep)                                 *)
(*   theorems   the properties of BatchJobs, from BatchInv                  *)
(***************************************************************************)
EXTENDS BatchJobs, TLAPS

-------------------------------------------------------------------------------
(* Types of the parts. *)

LEMMA ResetType ==
    \A r \in JobRecord, k \in Kinds, refresh \in BOOLEAN : ResetJob(r, k, refresh) \in JobRecord
  BY DEF ResetJob, Queued, JobRecord, JobStatus, NoToken

LEMMA ClaimedType == \A r \in JobRecord, tok \in Nat : Claimed(r, tok) \in JobRecord
  BY DEF Claimed, JobRecord, JobStatus

LEMMA RecoveredType == \A r \in JobRecord, n \in Nat : Recovered(r, n) \in JobRecord
  BY DEF Recovered, JobRecord, JobStatus, NoToken

LEMMA EndedType ==
    \A r \in JobRecord, s \in JobStatus : Ended(r, s) \in JobRecord
  BY DEF Ended, JobRecord, NoToken

LEMMA StaleType ==
    \A r \in JobRecord : MarkedStale(r) \in JobRecord
  BY DEF MarkedStale, JobRecord, JobStatus

LEMMA ClearedType ==
    \A r \in JobRecord : Cleared(r) \in JobRecord
  BY DEF Cleared, MarkedStale, JobRecord, JobStatus

LEMMA MarkerType ==
    \A r \in JobRecord : /\ [r EXCEPT !.marker = "fresh"] \in JobRecord
                         /\ [r EXCEPT !.marker = "old"] \in JobRecord
  BY DEF JobRecord

LEMMA NoJobType == NoJob \in JobRecord
  BY DEF NoJob, JobRecord, JobStatus, NoToken

LEMMA StatusNames == "succeeded" \in JobStatus /\ "failed" \in JobStatus
  BY DEF JobStatus

LEMMA KindNames == /\ "prepare" \in Kinds /\ "compute" \in Kinds
                   /\ "export" \in Kinds /\ Snapshot \in Kinds
  BY DEF Kinds, BatchKinds, Snapshot

LEMMA AbsentType == Absent \in Version
  BY DEF Version, Absent

LEMMA VersionType ==
    \A v \in Version : /\ [v EXCEPT !.files = @ + 1] \in Version
                       /\ [v EXCEPT !.settings = @ + 1] \in Version
  BY DEF Version

LEMMA IdleType == Idle \in WorkerRecord
  <1>1. (CHOOSE b \in Batches : TRUE) \in Batches
    BY BatchesAssumption
  <1> QED
    BY <1>1 DEF Idle, WorkerRecord, NoToken, Absent, Version, Kinds, BatchKinds

LEMMA WorkerFields ==
    \A v \in WorkerRecord : v.b \in Batches /\ v.k \in Kinds /\ v.token \in Nat
                            /\ v.inputs \in Version /\ v.content \in Nat
  BY DEF WorkerRecord

LEMMA RowUpdate ==
    ASSUME TypeOK, NEW b \in Batches, NEW k \in Kinds, NEW r \in JobRecord,
           job' = [job EXCEPT ![b][k] = r]
    PROVE  job' \in [Batches -> [Kinds -> JobRecord]]
  BY DEF TypeOK

LEMMA InvalidatedType ==
    ASSUME TypeOK, NEW b \in Batches
    PROVE  InvalidatedJobs(b) \in [Kinds -> JobRecord]
  BY StaleType DEF TypeOK, InvalidatedJobs

LEMMA InvalidateType ==
    ASSUME TypeOK, NEW b \in Batches, InvalidateResults(b)
    PROVE  /\ receipts' \in [Batches -> {"missing", "issues", "ready"}]
           /\ rows' \in [Batches -> Version]
           /\ zip' \in [Batches -> Nat]
           /\ content' \in [Batches -> Nat]
  <1>1. NoZip \in Nat
    BY DEF NoZip
  <1>2. CASE b \in SelfOperated
    <2>1. /\ receipts' = [receipts EXCEPT ![b] = "missing"]
          /\ rows' = [rows EXCEPT ![b] = Absent]
          /\ zip' = [zip EXCEPT ![b] = NoZip]
          /\ content' = [content EXCEPT ![b] = @ + 1]
      BY <1>2 DEF InvalidateResults, NewContent
    <2> QED
      BY <1>1, <2>1, AbsentType DEF TypeOK
  <1>3. CASE b \notin SelfOperated
    BY <1>3 DEF TypeOK, InvalidateResults
  <1> QED
    BY <1>2, <1>3

LEMMA QueuePrepareType ==
    ASSUME TypeOK, NEW b \in Batches, QueuePrepare(b)
    PROVE  /\ receipts' \in [Batches -> {"missing", "issues", "ready"}]
           /\ rows' \in [Batches -> Version]
           /\ zip' \in [Batches -> Nat]
           /\ content' \in [Batches -> Nat]
           /\ job' \in [Batches -> [Kinds -> JobRecord]]
           /\ batch' \in [Batches -> BatchStatus]
  <1>1. InvalidatedJobs(b) \in [Kinds -> JobRecord]
    BY InvalidatedType
  <1>2. ResetJob(InvalidatedJobs(b)["prepare"], "prepare", FALSE) \in JobRecord
    BY <1>1, ResetType, KindNames
  <1>3. job' \in [Batches -> [Kinds -> JobRecord]]
    BY <1>1, <1>2 DEF QueuePrepare, TypeOK
  <1>4. batch' \in [Batches -> BatchStatus]
    BY DEF QueuePrepare, TypeOK, BatchStatus
  <1> QED
    BY <1>3, <1>4, InvalidateType DEF QueuePrepare

LEMMA FreshExportType ==
    ASSUME TypeOK, NEW b \in Batches, QueueFreshExport(b)
    PROVE  /\ job' \in [Batches -> [Kinds -> JobRecord]]
           /\ zip' \in [Batches -> Nat]
  <1>1. ResetJob(job[b]["export"], "export", TRUE) \in JobRecord
    BY ResetType, KindNames DEF TypeOK
  <1> QED
    BY <1>1 DEF TypeOK, QueueFreshExport, NoZip

LEMMA InputsType ==
    ASSUME TypeOK, NEW b \in Batches
    PROVE  /\ NewFiles(b) => inputs' \in [Batches -> Version]
           /\ NewSettings(b) => inputs' \in [Batches -> Version]
           /\ NewContent(b) => content' \in [Batches -> Nat]
           /\ Request(b) => requests' \in Nat
  <1>1. ASSUME NewFiles(b) PROVE inputs' \in [Batches -> Version]
    BY <1>1, VersionType DEF TypeOK, NewFiles
  <1>2. ASSUME NewSettings(b) PROVE inputs' \in [Batches -> Version]
    BY <1>2, VersionType DEF TypeOK, NewSettings
  <1>3. NewContent(b) => content' \in [Batches -> Nat]
    BY DEF TypeOK, NewContent
  <1>4. Request(b) => requests' \in Nat
    BY DEF TypeOK, Request
  <1> QED
    BY <1>1, <1>2, <1>3, <1>4

-------------------------------------------------------------------------------
LEMMA TypeRequest ==
    ASSUME TypeOK, NEW b \in Batches
    PROVE  /\ AppendFile(b) => TypeOK'
           /\ DeleteFile(b) => TypeOK'
           /\ ReorderFiles(b) => TypeOK'
           /\ RefreshSupplier(b) => TypeOK'
           /\ DeleteBatch(b) => TypeOK'
           /\ StartPrepare(b) => TypeOK'
           /\ ChooseSite(b) => TypeOK'
           /\ RefreshHistory(b) => TypeOK'
           /\ PreflightRead(b) => TypeOK'
           /\ PreflightDecide(b) => TypeOK'
           /\ StartCompute(b) => TypeOK'
           /\ SaveAllowance(b) => TypeOK'
           /\ SaveOffline(b) => TypeOK'
           /\ Transfer(b) => TypeOK'
           /\ SaveSplit(b) => TypeOK'
           /\ StartExport(b) => TypeOK'
           /\ LoadSnapshot(b) => TypeOK'
  <1> USE InputsType
  <1>1. AppendFile(b) => TypeOK'
    BY InvalidatedType, InvalidateType DEF AppendFile, TypeOK, BatchStatus
  <1>2. DeleteFile(b) => TypeOK'
    BY InvalidatedType, AbsentType DEF DeleteFile, TypeOK, BatchStatus, NoZip
  <1>3. ReorderFiles(b) => TypeOK'
    BY InvalidatedType, InvalidateType DEF ReorderFiles, TypeOK, BatchStatus
  <1>4. RefreshSupplier(b) => TypeOK'
    BY InvalidatedType, InvalidateType DEF RefreshSupplier, TypeOK
  <1>5. DeleteBatch(b) => TypeOK'
    BY NoJobType, AbsentType DEF DeleteBatch, TypeOK, BatchStatus, NoZip
  <1>6. StartPrepare(b) => TypeOK'
    BY QueuePrepareType DEF StartPrepare, TypeOK
  <1>7. ChooseSite(b) => TypeOK'
    BY QueuePrepareType DEF ChooseSite, TypeOK
  <1>8. RefreshHistory(b) => TypeOK'
    BY QueuePrepareType DEF RefreshHistory, TypeOK
  <1>9. ASSUME PreflightRead(b) PROVE TypeOK'
    <2>1. [checked[b] EXCEPT !.reading = inputs[b]] \in [reading : Version, passed : Version]
      BY DEF TypeOK
    <2>2. checked' = [checked EXCEPT ![b] = [checked[b] EXCEPT !.reading = inputs[b]]]
      BY <1>9 DEF PreflightRead
    <2> QED
      BY <1>9, <2>1, <2>2 DEF PreflightRead, TypeOK
  <1>10. ASSUME PreflightDecide(b) PROVE TypeOK'
    <2>1. /\ [checked[b] EXCEPT !.reading = Absent] \in [reading : Version, passed : Version]
          /\ [reading |-> Absent, passed |-> checked[b].reading]
                \in [reading : Version, passed : Version]
      BY AbsentType DEF TypeOK
    <2>2. checked' \in [Batches -> [reading : Version, passed : Version]]
      BY <1>10, <2>1, ZenonT(40) DEF PreflightDecide, TypeOK
    <2> QED
      BY <1>10, <2>2 DEF PreflightDecide, TypeOK, BatchStatus
  <1>11. ASSUME StartCompute(b) PROVE TypeOK'
    <2>1. job' \in [Batches -> [Kinds -> JobRecord]]
      BY <1>11, ResetType, KindNames DEF StartCompute, TypeOK
    <2>2. batch' \in [Batches -> BatchStatus]
      BY <1>11 DEF StartCompute, TypeOK, BatchStatus
    <2> QED
      BY <1>11, <2>1, <2>2 DEF StartCompute, TypeOK, data
  <1>12. ASSUME SaveAllowance(b) PROVE TypeOK'
    <2>1. /\ ResetJob(Cleared(job[b]["compute"]), "compute", FALSE) \in JobRecord
          /\ Cleared(job[b]["export"]) \in JobRecord
      BY ResetType, ClearedType, KindNames, ZenonT(40) DEF TypeOK
    <2>2. job' \in [Batches -> [Kinds -> JobRecord]]
      <3> DEFINE rs == [job[b] EXCEPT !["compute"] = ResetJob(Cleared(job[b]["compute"]), "compute", FALSE),
                                      !["export"]  = Cleared(job[b]["export"])]
      <3>1. rs \in [Kinds -> JobRecord]
        BY <2>1 DEF TypeOK
      <3>2. job' = [job EXCEPT ![b] = rs]
        BY <1>12 DEF SaveAllowance
      <3> HIDE DEF rs
      <3> QED
        BY <3>1, <3>2 DEF TypeOK
    <2>3. batch' \in [Batches -> BatchStatus]
      BY <1>12 DEF SaveAllowance, TypeOK, BatchStatus
    <2> QED
      BY <1>12, <2>2, <2>3, AbsentType DEF SaveAllowance, TypeOK, NoZip
  <1>13. SaveOffline(b) => TypeOK'
    BY FreshExportType DEF SaveOffline, TypeOK
  <1>14. Transfer(b) => TypeOK'
    BY FreshExportType DEF Transfer, TypeOK
  <1>15. SaveSplit(b) => TypeOK'
    BY StaleType, KindNames DEF SaveSplit, TypeOK, NoZip
  <1>16. ASSUME StartExport(b) PROVE TypeOK'
    <2>1. PICK mergedMissing \in BOOLEAN :
             job' = [job EXCEPT ![b]["export"] =
                       ResetJob(IF mergedMissing /\ @.status = "succeeded"
                                THEN MarkedStale(@) ELSE @, "export", FALSE)]
      BY <1>16 DEF StartExport
    <2>2. \A r \in JobRecord :
             ResetJob(IF mergedMissing /\ r.status = "succeeded"
                      THEN MarkedStale(r) ELSE r, "export", FALSE) \in JobRecord
      BY ResetType, StaleType, KindNames
    <2>3. job' \in [Batches -> [Kinds -> JobRecord]]
      <3> DEFINE r == job[b]["export"]
                 new == ResetJob(IF mergedMissing /\ r.status = "succeeded"
                                 THEN MarkedStale(r) ELSE r, "export", FALSE)
      <3>1. r \in JobRecord
        BY KindNames DEF TypeOK
      <3>2. new \in JobRecord
        BY <2>2, <3>1
      <3>3. job' = [job EXCEPT ![b]["export"] = new]
        BY <2>1
      <3> HIDE DEF new
      <3> QED
        BY <3>2, <3>3, KindNames DEF TypeOK
    <2> QED
      BY <1>16, <2>3 DEF StartExport, TypeOK, data
  <1>17. LoadSnapshot(b) => TypeOK'
    BY ResetType, KindNames DEF LoadSnapshot, TypeOK, data
  <1> QED
    BY <1>1, <1>2, <1>3, <1>4, <1>5, <1>6, <1>7, <1>8, <1>9, <1>10, <1>11, <1>12,
       <1>13, <1>14, <1>15, <1>16, <1>17

-------------------------------------------------------------------------------
LEMMA TypeWorker ==
    ASSUME TypeOK, NEW w \in Workers
    PROVE  /\ \A b \in Batches, k \in Kinds : Claim(w, b, k) => TypeOK'
           /\ Heartbeat(w) => TypeOK'
           /\ KeeperFails(w) => TypeOK'
           /\ ReadInputs(w) => TypeOK'
           /\ Raise(w) => TypeOK'
           /\ StopKeeper(w) => TypeOK'
           /\ PublishPrepare(w) => TypeOK'
           /\ PublishCompute(w) => TypeOK'
           /\ PublishExport(w) => TypeOK'
           /\ PublishSnapshot(w) => TypeOK'
           /\ PublishRefused(w) => TypeOK'
           /\ Fail(w) => TypeOK'
           /\ Crash(w) => TypeOK'
           /\ Restart(w) => TypeOK'
           /\ Recover(w) => TypeOK'
  <1> DEFINE W == worker[w]
  <1>0. /\ W \in WorkerRecord /\ W.b \in Batches /\ W.k \in Kinds
        /\ MyJob(w) \in JobRecord
    BY WorkerFields DEF TypeOK, MyJob
  <1>1. ASSUME NEW b \in Batches, NEW k \in Kinds, Claim(w, b, k) PROVE TypeOK'
    <2>1. claims + 1 \in Nat
      BY DEF TypeOK
    <2>2. job' \in [Batches -> [Kinds -> JobRecord]]
      BY <1>1, <2>1, ClaimedType DEF Claim, TypeOK
    <2>3. [Idle EXCEPT !.pc = "claimed", !.b = b, !.k = k, !.token = claims + 1,
                       !.keeper = "beating"] \in WorkerRecord
      BY <2>1, IdleType DEF WorkerRecord
    <2>4. worker' \in [Workers -> WorkerRecord]
      BY <1>1, <2>3 DEF Claim, TypeOK
    <2>5. batch' \in [Batches -> BatchStatus]
      BY <1>1 DEF Claim, TypeOK, BatchStatus
    <2> QED
      BY <1>1, <2>1, <2>2, <2>4, <2>5 DEF Claim, TypeOK, data
  <1>2. ASSUME Heartbeat(w) PROVE TypeOK'
    <2>1. job' \in [Batches -> [Kinds -> JobRecord]]
      <3>1. job' = [job EXCEPT ![W.b][W.k] = [MyJob(w) EXCEPT !.marker = "fresh"]]
        BY <1>2 DEF Heartbeat, MyJob
      <3>2. [MyJob(w) EXCEPT !.marker = "fresh"] \in JobRecord
        BY <1>0, MarkerType
      <3> QED
        BY <1>0, <3>1, <3>2 DEF TypeOK
    <2> QED
      BY <1>2, <2>1 DEF Heartbeat, TypeOK, data
  <1>3. ASSUME KeeperFails(w) PROVE TypeOK'
    <2>1. [W EXCEPT !.keeper = "failed"] \in WorkerRecord
      BY <1>0 DEF WorkerRecord
    <2> QED
      BY <1>3, <2>1 DEF KeeperFails, TypeOK, data
  <1>4. ASSUME ReadInputs(w) PROVE TypeOK'
    <2>1. [W EXCEPT !.pc = "working", !.inputs = inputs[W.b], !.content = content[W.b]]
             \in WorkerRecord
      BY <1>0 DEF WorkerRecord, TypeOK
    <2>2. worker' = [worker EXCEPT ![w] =
             [W EXCEPT !.pc = "working", !.inputs = inputs[W.b], !.content = content[W.b]]]
      BY <1>4 DEF ReadInputs, TypeOK
    <2> QED
      BY <1>4, <2>1, <2>2 DEF ReadInputs, TypeOK, data
  <1>5. ASSUME Raise(w) PROVE TypeOK'
    <2>1. [W EXCEPT !.pc = "raised", !.keeper = "off"] \in WorkerRecord
      BY <1>0 DEF WorkerRecord
    <2>2. worker' = [worker EXCEPT ![w] = [W EXCEPT !.pc = "raised", !.keeper = "off"]]
      BY <1>5 DEF Raise, TypeOK
    <2> QED
      BY <1>5, <2>1, <2>2 DEF Raise, TypeOK, data
  <1>6. ASSUME StopKeeper(w) PROVE TypeOK'
    <2> DEFINE pc == IF W.keeper = "failed" THEN "raised" ELSE "final"
    <2>1. [W EXCEPT !.pc = pc, !.keeper = "off"] \in WorkerRecord
      BY <1>0 DEF WorkerRecord
    <2>2. worker' = [worker EXCEPT ![w] = [W EXCEPT !.pc = pc, !.keeper = "off"]]
      BY <1>6 DEF StopKeeper, TypeOK
    <2> QED
      BY <1>6, <2>1, <2>2 DEF StopKeeper, TypeOK, data
  <1>7. ASSUME Released(w) PROVE worker' \in [Workers -> WorkerRecord]
    BY <1>7, IdleType DEF Released, TypeOK
  <1>8. Succeed(w) \in JobRecord
    BY <1>0, EndedType, StatusNames DEF Succeed
  <1>9. ASSUME PublishPrepare(w) PROVE TypeOK'
    <2> DEFINE b == W.b
    <2>1. ResetJob(job[b]["compute"], "compute", FALSE) \in JobRecord
      BY <1>0, ResetType, KindNames DEF TypeOK
    <2> DEFINE rs == [job[b] EXCEPT !["prepare"] = Succeed(w),
                                    !["compute"] = ResetJob(job[b]["compute"], "compute", FALSE)]
    <2>2. rs \in [Kinds -> JobRecord]
      BY <1>0, <1>8, <2>1 DEF TypeOK
    <2>3. job' = [job EXCEPT ![b] = rs] \/ job' = [job EXCEPT ![b]["prepare"] = Succeed(w)]
      BY <1>9 DEF PublishPrepare
    <2> HIDE DEF rs
    <2>4. job' \in [Batches -> [Kinds -> JobRecord]]
      <3>1. CASE job' = [job EXCEPT ![b] = rs]
        BY <1>0, <2>2, <3>1 DEF TypeOK
      <3>2. CASE job' = [job EXCEPT ![b]["prepare"] = Succeed(w)]
        BY <1>0, <1>8, <3>2, KindNames DEF TypeOK
      <3> QED
        BY <2>3, <3>1, <3>2
    <2>5. /\ batch' \in [Batches -> BatchStatus]
          /\ receipts' \in [Batches -> {"missing", "issues", "ready"}]
      BY <1>9 DEF PublishPrepare, TypeOK, BatchStatus
    <2> QED
      BY <1>7, <1>9, <2>4, <2>5 DEF PublishPrepare, TypeOK
  <1>10. ASSUME PublishCompute(w) PROVE TypeOK'
    <2> DEFINE b == W.b
               e == IF b \in SelfOperated THEN ResetJob(job[b]["export"], "export", FALSE)
                                          ELSE job[b]["export"]
               rs == [job[b] EXCEPT !["compute"] = Succeed(w), !["export"] = e]
    <2>0. job[b]["export"] \in JobRecord
      BY <1>0, KindNames DEF TypeOK
    <2>1. e \in JobRecord
      BY <2>0, ResetType, KindNames
    <2>2. rs \in [Kinds -> JobRecord]
      BY <1>0, <1>8, <2>1 DEF TypeOK
    <2>3. job' = [job EXCEPT ![b] = rs]
      BY <1>10 DEF PublishCompute
    <2> HIDE DEF rs
    <2>4. job' \in [Batches -> [Kinds -> JobRecord]]
      BY <1>0, <2>2, <2>3 DEF TypeOK
    <2>5. batch' \in [Batches -> BatchStatus]
      BY <1>10 DEF PublishCompute, TypeOK, BatchStatus
    <2>6. rows' \in [Batches -> Version] /\ zip' \in [Batches -> Nat]
      BY <1>0, <1>10, WorkerFields DEF PublishCompute, TypeOK, NoZip
    <2>7. content' \in [Batches -> Nat]
      BY <1>0, <1>10, InputsType DEF PublishCompute
    <2> QED
      BY <1>7, <1>10, <2>4, <2>5, <2>6, <2>7 DEF PublishCompute, TypeOK
  <1>11. ASSUME PublishExport(w) PROVE TypeOK'
    <2>1. job' \in [Batches -> [Kinds -> JobRecord]]
      BY <1>0, <1>8, <1>11 DEF PublishExport, TypeOK
    <2>2. zip' \in [Batches -> Nat]
      BY <1>0, <1>11, WorkerFields DEF PublishExport, TypeOK
    <2> QED
      BY <1>7, <1>11, <2>1, <2>2 DEF PublishExport, TypeOK
  <1>12. ASSUME PublishSnapshot(w) PROVE TypeOK'
    <2>1. job' \in [Batches -> [Kinds -> JobRecord]]
      BY <1>0, <1>8, <1>12 DEF PublishSnapshot, TypeOK
    <2> QED
      BY <1>7, <1>12, <2>1 DEF PublishSnapshot, TypeOK, data
  <1>13. ASSUME PublishRefused(w) PROVE TypeOK'
    <2>1. [W EXCEPT !.pc = "raised"] \in WorkerRecord
      BY <1>0 DEF WorkerRecord
    <2> QED
      BY <1>13, <2>1 DEF PublishRefused, TypeOK, data
  <1>14. ASSUME Fail(w) PROVE TypeOK'
    <2>1. Ended(MyJob(w), "failed") \in JobRecord
      BY <1>0, EndedType, StatusNames
    <2>2. job' = [job EXCEPT ![W.b][W.k] = Ended(MyJob(w), "failed")] \/ UNCHANGED job
      BY <1>14 DEF Fail, MyJob
    <2>3. job' \in [Batches -> [Kinds -> JobRecord]]
      <3>1. CASE job' = [job EXCEPT ![W.b][W.k] = Ended(MyJob(w), "failed")]
        BY <1>0, <2>1, <3>1, RowUpdate
      <3> QED
        BY <2>2, <3>1 DEF TypeOK
    <2>4. batch' \in [Batches -> BatchStatus]
      BY <1>14 DEF Fail, TypeOK, BatchStatus
    <2> QED
      BY <1>7, <1>14, <2>3, <2>4 DEF Fail, TypeOK, data
  <1>15. ASSUME Crash(w) PROVE TypeOK'
    <2>1. [Idle EXCEPT !.pc = "down"] \in WorkerRecord
      BY IdleType DEF WorkerRecord
    <2> QED
      BY <1>15, <2>1 DEF Crash, TypeOK, data
  <1>16. ASSUME NEW locked, RecoverExcept(w, locked)
         PROVE  /\ job' \in [Batches -> [Kinds -> JobRecord]]
                /\ batch' \in [Batches -> BatchStatus]
    BY <1>16, RecoveredType, AttemptsAssumption DEF RecoverExcept, TypeOK, BatchStatus
  <1>17. ASSUME Restart(w) PROVE TypeOK'
    BY <1>7, <1>16, <1>17 DEF Restart, TypeOK, data
  <1>18. ASSUME Recover(w) PROVE TypeOK'
    BY <1>16, <1>18 DEF Recover, TypeOK, data
  <1> QED
    BY <1>1, <1>2, <1>3, <1>4, <1>5, <1>6, <1>9, <1>10, <1>11, <1>12, <1>13, <1>14,
       <1>15, <1>17, <1>18

LEMMA TypeMarker ==
    ASSUME TypeOK, NEW b \in Batches, NEW k \in Kinds, MarkerAges(b, k)
    PROVE  TypeOK'
  <1>0. job[b][k] \in JobRecord
    BY DEF TypeOK
  <1>1. [job[b][k] EXCEPT !.marker = "old"] \in JobRecord
    BY <1>0, MarkerType
  <1>2. job' = [job EXCEPT ![b][k] = [job[b][k] EXCEPT !.marker = "old"]]
    BY DEF MarkerAges
  <1> QED
    BY <1>1, <1>2 DEF MarkerAges, TypeOK, data

LEMMA TypeStep == TypeOK /\ [Next]_vars => TypeOK'
  <1> SUFFICES ASSUME TypeOK, [Next]_vars PROVE TypeOK'
    OBVIOUS
  <1>1. CASE RequestStep
    BY <1>1, TypeRequest DEF RequestStep
  <1>2. CASE WorkerStep
    BY <1>2, TypeWorker DEF WorkerStep, Publish
  <1>3. CASE \E b \in Batches, k \in Kinds : MarkerAges(b, k)
    BY <1>3, TypeMarker
  <1>4. CASE UNCHANGED vars
    BY <1>4 DEF TypeOK, vars
  <1> QED
    BY <1>1, <1>2, <1>3, <1>4 DEF Next

\* Every state the system reaches is well typed: the statuses, tokens, versions
\* and claims that the handlers and the workers write are those they test.
THEOREM TypeCorrect == Spec => []TypeOK
  <1>1. ASSUME Init PROVE TypeOK
    <2>1. batch \in [Batches -> BatchStatus]
      BY <1>1 DEF Init, BatchStatus
    <2> QED
      BY <1>1, <2>1, NoJobType, IdleType, AbsentType
         DEF Init, TypeOK, Version, NoZip
  <1> QED
    BY <1>1, TypeStep, PTL DEF Spec

-------------------------------------------------------------------------------
(* What a step makes of a row. *)

\* r1 is a new turn in the queue.
IsQueued(r1) == r1.status = "queued" /\ r1.token = NoToken /\ r1.runs = 0

\* r1 is neither queued nor running, and has no more runs than r.
IsOver(r, r1) == ~IsActive(r1) /\ r1.runs <= r.runs

RowStep(r, r1) ==
    \/ r1 = r
    \/ IsOver(r, r1)
    \/ ~IsActive(r) /\ IsQueued(r1)
    \/ r.status = "queued" /\ r1 = Claimed(r, claims + 1) /\ claims' = claims + 1
    \/ r.status = "running" /\ r1 = Recovered(r, MaxAttempts)
    \/ r1 = [r EXCEPT !.marker = "fresh"]
    \/ r1 = [r EXCEPT !.marker = "old"]

LEMMA ResetShape ==
    \A r, k, refresh :
        \/ ResetJob(r, k, refresh) = r
        \/ ~IsActive(r) /\ IsQueued(ResetJob(r, k, refresh))
  BY DEF ResetJob, KeptByReset, Queued, IsQueued

LEMMA ResetStep ==
    \A r \in JobRecord, k \in Kinds, refresh \in BOOLEAN : RowStep(r, ResetJob(r, k, refresh))
  BY DEF RowStep, ResetJob, KeptByReset, Queued, IsQueued, JobRecord

LEMMA StaleStep ==
    \A r \in JobRecord : IsActive(r) \/ RowStep(r, MarkedStale(r))
  BY DEF RowStep, IsOver, MarkedStale, IsActive, ActiveStatus, JobRecord

LEMMA EndedStep ==
    \A r \in JobRecord : /\ RowStep(r, Ended(r, "succeeded"))
                         /\ RowStep(r, Ended(r, "failed"))
                         /\ RowStep(r, NoJob)
  BY DEF RowStep, IsOver, Ended, NoJob, IsActive, ActiveStatus, JobRecord

\* The same, for the rows a request or a worker changes together.
LEMMA InvalidatedStep ==
    ASSUME TypeOK, NEW b \in Batches, MayInvalidate(b)
    PROVE  \A k \in Kinds : RowStep(job[b][k], InvalidatedJobs(b)[k])
  <1>1. \A k \in Kinds : job[b][k] \in JobRecord
    BY DEF TypeOK
  <1>2. CASE b \in SelfOperated
    <2>1. \A k \in Kinds : ~IsActive(job[b][k])
      BY <1>2 DEF MayInvalidate, HasActiveJob
    <2>2. \A k \in Kinds : InvalidatedJobs(b)[k] = MarkedStale(job[b][k])
      BY <1>2 DEF InvalidatedJobs
    <2> QED
      BY <1>1, <2>1, <2>2, StaleStep
  <1>3. CASE b \notin SelfOperated
    BY <1>3 DEF InvalidatedJobs, RowStep
  <1> QED
    BY <1>2, <1>3

\* A row of a batch that changes, all others stay.
LEMMA OneBatch ==
    ASSUME TypeOK, NEW b \in Batches, NEW rs \in [Kinds -> JobRecord],
           job' = [job EXCEPT ![b] = rs],
           \A k \in Kinds : RowStep(job[b][k], rs[k])
    PROVE  \A bb \in Batches, k \in Kinds : RowStep(job[bb][k], job'[bb][k])
  BY ZenonT(40) DEF TypeOK, RowStep

LEMMA OneRow ==
    ASSUME TypeOK, NEW b \in Batches, NEW k \in Kinds, NEW r \in JobRecord,
           job' = [job EXCEPT ![b][k] = r], RowStep(job[b][k], r)
    PROVE  \A bb \in Batches, kk \in Kinds : RowStep(job[bb][kk], job'[bb][kk])
  <1> SUFFICES ASSUME NEW bb \in Batches, NEW kk \in Kinds
               PROVE  RowStep(job[bb][kk], job'[bb][kk])
    OBVIOUS
  <1>1. CASE bb = b /\ kk = k
    <2>1. job'[bb][kk] = r
      BY <1>1 DEF TypeOK
    <2> QED
      BY <1>1, <2>1
  <1>2. CASE ~(bb = b /\ kk = k)
    <2>1. job'[bb][kk] = job[bb][kk]
      BY <1>2 DEF TypeOK
    <2> QED
      BY <2>1 DEF RowStep
  <1> QED
    BY <1>1, <1>2

LEMMA NoRow ==
    ASSUME UNCHANGED job
    PROVE  \A b \in Batches, k \in Kinds : RowStep(job[b][k], job'[b][k])
  BY DEF RowStep

RowsStep == \A b \in Batches, k \in Kinds : RowStep(job[b][k], job'[b][k])

LEMMA QueuePrepareRows ==
    ASSUME TypeOK, NEW b \in Batches, QueuePrepare(b)
    PROVE  RowsStep
  <1> DEFINE inv == InvalidatedJobs(b)
             new == ResetJob(inv["prepare"], "prepare", FALSE)
             rs  == [inv EXCEPT !["prepare"] = new]
  <1>1. inv \in [Kinds -> JobRecord] /\ \A k \in Kinds : RowStep(job[b][k], inv[k])
    BY InvalidatedType, InvalidatedStep DEF QueuePrepare
  <1>2. new \in JobRecord
    BY <1>1, ResetType, KindNames
  <1>3. RowStep(job[b]["prepare"], new)
    <2>1. new = inv["prepare"] \/ (~IsActive(inv["prepare"]) /\ IsQueued(new))
      BY ResetShape, Zenon
    <2>2. ~IsActive(inv["prepare"]) /\ IsQueued(new) => RowStep(job[b]["prepare"], new)
      <3>1. IsActive(job[b]["prepare"]) => ~MayInvalidate(b) \/ b \notin SelfOperated
        BY KindNames DEF MayInvalidate, HasActiveJob
      <3>2. b \notin SelfOperated => inv = job[b]
        BY DEF InvalidatedJobs
      <3> QED
        BY <3>1, <3>2 DEF RowStep, QueuePrepare
    <2> QED
      BY <1>1, <2>1, <2>2, KindNames
  <1>4. rs \in [Kinds -> JobRecord] /\ \A k \in Kinds : RowStep(job[b][k], rs[k])
    BY <1>1, <1>2, <1>3
  <1>5. job' = [job EXCEPT ![b] = rs]
    BY DEF QueuePrepare
  <1> HIDE DEF rs
  <1> QED
    BY <1>4, <1>5, OneBatch DEF RowsStep

LEMMA InvalidateRows ==
    ASSUME TypeOK, NEW b \in Batches, MayInvalidate(b),
           job' = [job EXCEPT ![b] = InvalidatedJobs(b)]
    PROVE  RowsStep
  BY InvalidatedType, InvalidatedStep, OneBatch DEF RowsStep

LEMMA FreshExportRows ==
    ASSUME TypeOK, NEW b \in Batches, QueueFreshExport(b)
    PROVE  RowsStep
  <1>1. job[b]["export"] \in JobRecord
    BY KindNames DEF TypeOK
  <1>2. ResetJob(job[b]["export"], "export", TRUE) \in JobRecord
    BY <1>1, ResetType, KindNames
  <1>3. RowStep(job[b]["export"], ResetJob(job[b]["export"], "export", TRUE))
    BY <1>1, ResetStep, KindNames
  <1>4. job' = [job EXCEPT ![b]["export"] = ResetJob(job[b]["export"], "export", TRUE)]
    BY DEF QueueFreshExport
  <1> QED
    BY <1>2, <1>3, <1>4, OneRow, KindNames DEF RowsStep

\* Requests.
LEMMA RequestRows ==
    ASSUME TypeOK, RequestStep
    PROVE  RowsStep
  <1> PICK b \in Batches :
        \/ AppendFile(b) \/ DeleteFile(b) \/ ReorderFiles(b) \/ RefreshSupplier(b)
        \/ DeleteBatch(b)
        \/ StartPrepare(b) \/ ChooseSite(b) \/ RefreshHistory(b)
        \/ PreflightRead(b) \/ PreflightDecide(b)
        \/ StartCompute(b) \/ SaveAllowance(b)
        \/ SaveOffline(b) \/ Transfer(b) \/ SaveSplit(b)
        \/ StartExport(b) \/ LoadSnapshot(b)
    BY DEF RequestStep
  <1>0. \A k \in Kinds : job[b][k] \in JobRecord
    BY DEF TypeOK
  <1>1. CASE AppendFile(b) \/ DeleteFile(b) \/ ReorderFiles(b) \/ RefreshSupplier(b)
    BY <1>1, InvalidateRows DEF AppendFile, DeleteFile, ReorderFiles, RefreshSupplier
  <1>2. CASE DeleteBatch(b)
    <2>1. \A k \in Kinds : RowStep(job[b][k], NoJob)
      BY <1>0, EndedStep
    <2> DEFINE rs == [k \in Kinds |-> NoJob]
    <2>2. rs \in [Kinds -> JobRecord] /\ \A k \in Kinds : RowStep(job[b][k], rs[k])
      BY <2>1, NoJobType
    <2>3. job' = [job EXCEPT ![b] = rs]
      BY <1>2 DEF DeleteBatch
    <2> HIDE DEF rs
    <2> QED
      BY <2>2, <2>3, OneBatch DEF RowsStep
  <1>3. CASE StartPrepare(b) \/ ChooseSite(b) \/ RefreshHistory(b)
    BY <1>3, QueuePrepareRows DEF StartPrepare, ChooseSite, RefreshHistory
  <1>4. CASE PreflightRead(b) \/ PreflightDecide(b)
    BY <1>4, NoRow DEF PreflightRead, PreflightDecide, RowsStep
  <1>5. CASE StartCompute(b)
    <2> DEFINE r == ResetJob(job[b]["compute"], "compute", FALSE)
    <2>1. r \in JobRecord /\ RowStep(job[b]["compute"], r)
      BY <1>0, ResetType, ResetStep, KindNames
    <2>2. job' = [job EXCEPT ![b]["compute"] = r]
      BY <1>5 DEF StartCompute
    <2> HIDE DEF r
    <2> QED
      BY <2>1, <2>2, OneRow, KindNames DEF RowsStep
  <1>6. CASE SaveAllowance(b)
    <2> DEFINE c == ResetJob(Cleared(job[b]["compute"]), "compute", FALSE)
               e == Cleared(job[b]["export"])
               rs == [job[b] EXCEPT !["compute"] = c, !["export"] = e]
    <2>1. /\ job[b]["compute"] \in JobRecord /\ ~IsActive(job[b]["compute"])
          /\ job[b]["export"] \in JobRecord /\ ~IsActive(job[b]["export"])
      BY <1>0, <1>6, KindNames DEF SaveAllowance, MayRecompute, BatchKinds
    <2>2. c \in JobRecord /\ e \in JobRecord
      BY <2>1, ClearedType, ResetType, KindNames
    <2>3. RowStep(job[b]["compute"], c)
      BY <2>1 DEF RowStep, ResetJob, KeptByReset, Cleared, MarkedStale, Queued, IsQueued,
                  IsOver, IsActive, ActiveStatus, JobRecord
    <2>4. RowStep(job[b]["export"], e)
      BY <2>1 DEF RowStep, Cleared, MarkedStale, IsOver, IsActive, ActiveStatus, JobRecord
    <2>5. job' = [job EXCEPT ![b] = rs]
      BY <1>6 DEF SaveAllowance
    <2> HIDE DEF c, e
    <2>6. rs \in [Kinds -> JobRecord]
      BY <1>0, <2>2 DEF TypeOK
    <2>7. ASSUME NEW k \in Kinds PROVE RowStep(job[b][k], rs[k])
      <3>1. CASE k = "export"
        BY <2>4, <3>1, <1>0 DEF TypeOK
      <3>2. CASE k = "compute"
        BY <2>3, <3>2, <1>0 DEF TypeOK
      <3>3. CASE k \notin {"compute", "export"}
        <4>1. rs[k] = job[b][k]
          BY <3>3 DEF TypeOK
        <4> QED
          BY <4>1 DEF RowStep
      <3> QED
        BY <3>1, <3>2, <3>3
    <2> HIDE DEF rs
    <2> QED
      BY <2>5, <2>6, <2>7, OneBatch DEF RowsStep
  <1>7. CASE SaveOffline(b) \/ Transfer(b)
    BY <1>7, FreshExportRows DEF SaveOffline, Transfer
  <1>8. CASE SaveSplit(b)
    <2>1. job[b]["export"] \in JobRecord /\ ~IsActive(job[b]["export"])
      BY <1>0, <1>8, KindNames DEF SaveSplit, ExportIdle
    <2>2. /\ MarkedStale(job[b]["export"]) \in JobRecord
          /\ RowStep(job[b]["export"], MarkedStale(job[b]["export"]))
      BY <2>1, StaleType, StaleStep
    <2>3. job' = [job EXCEPT ![b]["export"] = MarkedStale(job[b]["export"])]
      BY <1>8 DEF SaveSplit
    <2> QED
      BY <2>2, <2>3, OneRow, KindNames DEF RowsStep
  <1>9. CASE StartExport(b)
    <2>0. PICK mergedMissing \in BOOLEAN :
             job' = [job EXCEPT ![b]["export"] =
                       ResetJob(IF mergedMissing /\ @.status = "succeeded"
                                THEN MarkedStale(@) ELSE @, "export", FALSE)]
      BY <1>9 DEF StartExport
    <2> DEFINE r == job[b]["export"]
               r1 == IF mergedMissing /\ r.status = "succeeded" THEN MarkedStale(r) ELSE r
               r2 == ResetJob(r1, "export", FALSE)
    <2>1. r \in JobRecord
      BY <1>0, KindNames
    <2>2. r1 \in JobRecord /\ r2 \in JobRecord
      BY <2>1, StaleType, ResetType, KindNames
    <2>3. RowStep(r, r2)
      BY <2>1 DEF RowStep, ResetJob, KeptByReset, MarkedStale, Queued, IsQueued,
                  IsOver, IsActive, ActiveStatus, JobRecord
    <2>4. job' = [job EXCEPT ![b]["export"] = r2]
      BY <2>0
    <2> HIDE DEF r2
    <2> QED
      BY <2>2, <2>3, <2>4, OneRow, KindNames DEF RowsStep
  <1>10. CASE LoadSnapshot(b)
    <2>0. PICK refresh \in BOOLEAN :
             job' = [job EXCEPT ![b][Snapshot] = ResetJob(@, Snapshot, refresh)]
      BY <1>10 DEF LoadSnapshot
    <2> DEFINE r == ResetJob(job[b][Snapshot], Snapshot, refresh)
    <2>1. r \in JobRecord /\ RowStep(job[b][Snapshot], r)
      BY <1>0, ResetType, ResetStep, KindNames
    <2>2. job' = [job EXCEPT ![b][Snapshot] = r]
      BY <2>0
    <2> HIDE DEF r
    <2> QED
      BY <2>1, <2>2, OneRow, KindNames DEF RowsStep
  <1> QED
    BY <1>1, <1>2, <1>3, <1>4, <1>5, <1>6, <1>7, <1>8, <1>9, <1>10

\* Workers.
LEMMA WorkerRows ==
    ASSUME TypeOK, WorkerStep
    PROVE  RowsStep
  <1> PICK w \in Workers :
        \/ \E b \in Batches, k \in Kinds : Claim(w, b, k)
        \/ Heartbeat(w) \/ KeeperFails(w)
        \/ ReadInputs(w) \/ Raise(w) \/ StopKeeper(w)
        \/ Publish(w) \/ PublishRefused(w) \/ Fail(w)
        \/ Crash(w) \/ Restart(w) \/ Recover(w)
    BY DEF WorkerStep
  <1> DEFINE W == worker[w]
  <1>0. \A b \in Batches, k \in Kinds : job[b][k] \in JobRecord
    BY DEF TypeOK
  <1>a. /\ W.b \in Batches /\ W.k \in Kinds /\ MyJob(w) \in JobRecord
    BY <1>0, WorkerFields DEF TypeOK, MyJob
  <1>b. Succeed(w) \in JobRecord /\ RowStep(MyJob(w), Succeed(w))
    BY <1>a, EndedType, EndedStep, StatusNames DEF Succeed
  <1>1. ASSUME NEW b \in Batches, NEW k \in Kinds, Claim(w, b, k) PROVE RowsStep
    <2>1. Claimed(job[b][k], claims + 1) \in JobRecord
      BY <1>0, ClaimedType DEF TypeOK
    <2>2. RowStep(job[b][k], Claimed(job[b][k], claims + 1))
      BY <1>1 DEF RowStep, Claim
    <2>3. job' = [job EXCEPT ![b][k] = Claimed(job[b][k], claims + 1)]
      BY <1>1 DEF Claim
    <2> QED
      BY <2>1, <2>2, <2>3, OneRow DEF RowsStep
  <1>2. CASE Heartbeat(w)
    <2> DEFINE r == [MyJob(w) EXCEPT !.marker = "fresh"]
    <2>1. r \in JobRecord
      BY <1>a, MarkerType
    <2>2. RowStep(MyJob(w), r)
      BY DEF RowStep
    <2>3. job' = [job EXCEPT ![W.b][W.k] = r]
      BY <1>2 DEF Heartbeat, MyJob
    <2> HIDE DEF r
    <2> QED
      BY <1>a, <2>1, <2>2, <2>3, OneRow DEF RowsStep, MyJob
  <1>3. CASE KeeperFails(w) \/ ReadInputs(w) \/ Raise(w) \/ StopKeeper(w)
             \/ PublishRefused(w) \/ Crash(w)
    BY <1>3, NoRow DEF KeeperFails, ReadInputs, Raise, StopKeeper, PublishRefused, Crash,
                       RowsStep
  <1>4. CASE PublishPrepare(w)
    <2> DEFINE b == W.b
               c == ResetJob(job[b]["compute"], "compute", FALSE)
               rs == [job[b] EXCEPT !["prepare"] = Succeed(w), !["compute"] = c]
    <2>1. MyJob(w) = job[b]["prepare"]
      BY <1>4 DEF PublishPrepare, MyJob
    <2>2. CASE job' = [job EXCEPT ![b]["prepare"] = Succeed(w)]
      BY <1>a, <1>b, <2>1, <2>2, OneRow, KindNames DEF RowsStep
    <2>3. CASE job' = [job EXCEPT ![b] = rs]
      <3>1. c \in JobRecord /\ RowStep(job[b]["compute"], c)
        BY <1>0, <1>a, ResetType, ResetStep, KindNames
      <3> HIDE DEF c
      <3>2. rs \in [Kinds -> JobRecord]
        BY <1>a, <1>b, <3>1 DEF TypeOK
      <3>3. ASSUME NEW k \in Kinds PROVE RowStep(job[b][k], rs[k])
        <4>1. CASE k = "compute"
          BY <1>a, <3>1, <4>1 DEF TypeOK
        <4>2. CASE k = "prepare"
          BY <1>a, <1>b, <2>1, <4>2 DEF TypeOK
        <4>3. CASE k \notin {"prepare", "compute"}
          <5>1. rs[k] = job[b][k]
            BY <1>a, <4>3 DEF TypeOK
          <5> QED
            BY <5>1 DEF RowStep
        <4> QED
          BY <4>1, <4>2, <4>3
      <3> HIDE DEF rs
      <3> QED
        BY <1>a, <2>3, <3>2, <3>3, OneBatch DEF RowsStep
    <2> QED
      BY <1>4, <2>2, <2>3 DEF PublishPrepare
  <1>5. CASE PublishCompute(w)
    <2> DEFINE b == W.b
               e == IF b \in SelfOperated THEN ResetJob(job[b]["export"], "export", FALSE)
                                          ELSE job[b]["export"]
               rs == [job[b] EXCEPT !["compute"] = Succeed(w), !["export"] = e]
    <2>1. MyJob(w) = job[b]["compute"]
      BY <1>5 DEF PublishCompute, MyJob
    <2>2. job' = [job EXCEPT ![b] = rs]
      BY <1>5 DEF PublishCompute
    <2>3. job[b]["export"] \in JobRecord
      BY <1>0, <1>a, KindNames
    <2>4. e \in JobRecord
      BY <2>3, ResetType, KindNames
    <2>5. RowStep(job[b]["export"], e)
      <3>1. CASE b \in SelfOperated
        BY <2>3, <3>1, ResetStep, KindNames
      <3>2. CASE b \notin SelfOperated
        BY <3>2 DEF RowStep
      <3> QED
        BY <3>1, <3>2
    <2> HIDE DEF e
    <2>6. rs \in [Kinds -> JobRecord]
      BY <1>a, <1>b, <2>4 DEF TypeOK
    <2>7. ASSUME NEW k \in Kinds PROVE RowStep(job[b][k], rs[k])
      <3>1. CASE k = "export"
        BY <1>a, <2>5, <3>1 DEF TypeOK
      <3>2. CASE k = "compute"
        BY <1>a, <1>b, <2>1, <3>2 DEF TypeOK
      <3>3. CASE k \notin {"export", "compute"}
        <4>1. rs[k] = job[b][k]
          BY <1>a, <3>3 DEF TypeOK
        <4> QED
          BY <4>1 DEF RowStep
      <3> QED
        BY <3>1, <3>2, <3>3
    <2> HIDE DEF rs
    <2> QED
      BY <1>a, <2>2, <2>6, <2>7, OneBatch DEF RowsStep
  <1>6. CASE PublishExport(w) \/ PublishSnapshot(w)
    <2>1. job' = [job EXCEPT ![W.b][W.k] = Succeed(w)]
      BY <1>6 DEF PublishExport, PublishSnapshot
    <2> QED
      BY <1>a, <1>b, <2>1, OneRow DEF RowsStep, MyJob
  <1>7. CASE Fail(w)
    <2>1. CASE Owns(w)
      <3>1. job' = [job EXCEPT ![W.b][W.k] = Ended(MyJob(w), "failed")]
        BY <1>7, <2>1 DEF Fail, MyJob
      <3>2. /\ Ended(MyJob(w), "failed") \in JobRecord
            /\ RowStep(MyJob(w), Ended(MyJob(w), "failed"))
        BY <1>a, EndedType, EndedStep, StatusNames
      <3> QED
        BY <1>a, <3>1, <3>2, OneRow DEF RowsStep, MyJob
    <2>2. CASE ~Owns(w)
      BY <1>7, <2>2, NoRow DEF Fail, RowsStep
    <2> QED
      BY <2>1, <2>2
  <1>8. ASSUME NEW locked, RecoverExcept(w, locked) PROVE RowsStep
    <2> SUFFICES ASSUME NEW b \in Batches, NEW k \in Kinds
                 PROVE  RowStep(job[b][k], job'[b][k])
      BY DEF RowsStep
    <2>1. \/ job'[b][k] = job[b][k]
          \/ IsAbandoned(job[b][k]) /\ job'[b][k] = Recovered(job[b][k], MaxAttempts)
      BY <1>8 DEF RecoverExcept
    <2> QED
      BY <2>1 DEF RowStep, IsAbandoned
  <1>9. CASE Restart(w) \/ Recover(w)
    BY <1>8, <1>9 DEF Restart, Recover
  <1> QED
    BY <1>1, <1>2, <1>3, <1>4, <1>5, <1>6, <1>7, <1>9 DEF Publish

LEMMA RowSteps ==
    ASSUME TypeOK, [Next]_vars
    PROVE  RowsStep
  <1>1. ASSUME NEW b \in Batches, NEW k \in Kinds, MarkerAges(b, k) PROVE RowsStep
    <2>1. [job[b][k] EXCEPT !.marker = "old"] \in JobRecord
      <3>1. job[b][k] \in JobRecord
        BY DEF TypeOK
      <3> QED
        BY <3>1, MarkerType
    <2>2. RowStep(job[b][k], [job[b][k] EXCEPT !.marker = "old"])
      BY DEF RowStep
    <2>3. job' = [job EXCEPT ![b][k] = [job[b][k] EXCEPT !.marker = "old"]]
      BY <1>1 DEF MarkerAges
    <2> QED
      BY <2>1, <2>2, <2>3, OneRow DEF RowsStep
  <1>2. CASE UNCHANGED vars
    BY <1>2, NoRow DEF vars, RowsStep
  <1> QED
    BY <1>1, <1>2, RequestRows, WorkerRows DEF Next

-------------------------------------------------------------------------------
(* Claim tokens. *)

TokenInv ==
    /\ \A b \in Batches, k \in Kinds :
          job[b][k].status = "running" => job[b][k].token # NoToken
    /\ \A w \in Workers : worker[w].token <= claims
    /\ \A v, w \in Workers :
          worker[v].token = worker[w].token => v = w \/ worker[v].token = NoToken

\* A step changes at most one worker: it keeps its token, drops it, or draws the
\* next one.
TokensStep ==
    \/ claims' = claims /\ worker' = worker
    \/ \E w \in Workers, x \in WorkerRecord :
          /\ worker' = [worker EXCEPT ![w] = x]
          /\ \/ claims' = claims /\ x.token \in {worker[w].token, NoToken}
             \/ claims' = claims + 1 /\ x.token = claims + 1

LEMMA WorkerTokens ==
    ASSUME TypeOK, [Next]_vars
    PROVE  TokensStep
  <1>0. \A w \in Workers : worker[w] \in WorkerRecord
    BY DEF TypeOK
  <1>1. CASE RequestStep
    <2>1. claims' = claims /\ worker' = worker
      BY <1>1 DEF RequestStep, AppendFile, DeleteFile, ReorderFiles, RefreshSupplier,
           DeleteBatch, StartPrepare, ChooseSite, RefreshHistory, PreflightRead,
           PreflightDecide, StartCompute, SaveAllowance, SaveOffline, Transfer,
           SaveSplit, StartExport, LoadSnapshot
    <2> QED
      BY <2>1 DEF TokensStep
  <1>2. ASSUME NEW w \in Workers, Released(w), claims' = claims PROVE TokensStep
    BY <1>2, IdleType DEF Released, TokensStep, Idle
  <1>3. ASSUME NEW w \in Workers, NEW b \in Batches, NEW k \in Kinds, Claim(w, b, k)
        PROVE  TokensStep
    <2> DEFINE x == [Idle EXCEPT !.pc = "claimed", !.b = b, !.k = k,
                                 !.token = claims + 1, !.keeper = "beating"]
    <2>0. claims + 1 \in Nat
      BY DEF TypeOK
    <2>1. x \in WorkerRecord /\ x.token = claims + 1
      BY <2>0, IdleType DEF WorkerRecord
    <2>2. worker' = [worker EXCEPT ![w] = x] /\ claims' = claims + 1
      BY <1>3 DEF Claim
    <2> HIDE DEF x
    <2> QED
      BY <2>1, <2>2 DEF TokensStep
  <1>4. ASSUME NEW w \in Workers, claims' = claims,
               NEW x, worker' = [worker EXCEPT ![w] = x], x.token = worker[w].token
        PROVE  TokensStep
    <2>1. x \in WorkerRecord
      BY <1>4, TypeStep DEF TypeOK
    <2> QED
      BY <1>4, <2>1 DEF TokensStep
  <1>5. ASSUME NEW w \in Workers, ReadInputs(w) PROVE TokensStep
    <2> DEFINE x == [worker[w] EXCEPT !.pc = "working", !.inputs = inputs[worker[w].b],
                                      !.content = content[worker[w].b]]
    <2>1. x.token = worker[w].token
      BY <1>0 DEF WorkerRecord
    <2>2. worker' = [worker EXCEPT ![w] = x] /\ claims' = claims
      BY <1>5 DEF ReadInputs, TypeOK
    <2> HIDE DEF x
    <2> QED
      BY <1>4, <2>1, <2>2
  <1>6. ASSUME NEW w \in Workers, Raise(w) PROVE TokensStep
    <2> DEFINE x == [worker[w] EXCEPT !.pc = "raised", !.keeper = "off"]
    <2>1. x.token = worker[w].token
      BY <1>0 DEF WorkerRecord
    <2>2. worker' = [worker EXCEPT ![w] = x] /\ claims' = claims
      BY <1>6 DEF Raise, TypeOK
    <2> HIDE DEF x
    <2> QED
      BY <1>4, <2>1, <2>2
  <1>7. ASSUME NEW w \in Workers, StopKeeper(w) PROVE TokensStep
    <2> DEFINE x == [worker[w] EXCEPT
                       !.pc = IF worker[w].keeper = "failed" THEN "raised" ELSE "final",
                       !.keeper = "off"]
    <2>1. x.token = worker[w].token
      BY <1>0 DEF WorkerRecord
    <2>2. worker' = [worker EXCEPT ![w] = x] /\ claims' = claims
      BY <1>7 DEF StopKeeper, TypeOK
    <2> HIDE DEF x
    <2> QED
      BY <1>4, <2>1, <2>2
  <1>8. ASSUME NEW w \in Workers, KeeperFails(w) \/ PublishRefused(w) PROVE TokensStep
    <2>1. PICK x \in {[worker[w] EXCEPT !.keeper = "failed"], [worker[w] EXCEPT !.pc = "raised"]} :
             worker' = [worker EXCEPT ![w] = x] /\ claims' = claims
      BY <1>8 DEF KeeperFails, PublishRefused
    <2>2. x.token = worker[w].token
      BY <1>0 DEF WorkerRecord
    <2> QED
      BY <1>4, <2>1, <2>2
  <1>9. ASSUME NEW w \in Workers, Crash(w) PROVE TokensStep
    <2> DEFINE x == [Idle EXCEPT !.pc = "down"]
    <2>1. x \in WorkerRecord /\ x.token = NoToken
      BY IdleType DEF WorkerRecord, Idle
    <2>2. worker' = [worker EXCEPT ![w] = x] /\ claims' = claims
      BY <1>9 DEF Crash
    <2> HIDE DEF x
    <2> QED
      BY <2>1, <2>2 DEF TokensStep
  <1>10. ASSUME NEW w \in Workers, Publish(w) \/ Fail(w) \/ Restart(w) PROVE TokensStep
    BY <1>2, <1>10 DEF Publish, PublishPrepare, PublishCompute, PublishExport,
                       PublishSnapshot, Fail, Restart
  <1>11. ASSUME NEW w \in Workers, Heartbeat(w) \/ Recover(w) PROVE TokensStep
    BY <1>11 DEF Heartbeat, Recover, TokensStep
  <1>12. CASE WorkerStep
    BY <1>3, <1>5, <1>6, <1>7, <1>8, <1>9, <1>10, <1>11, <1>12 DEF WorkerStep
  <1>13. CASE \E b \in Batches, k \in Kinds : MarkerAges(b, k)
    BY <1>13 DEF MarkerAges, TokensStep
  <1>14. CASE UNCHANGED vars
    BY <1>14 DEF vars, TokensStep
  <1> QED
    BY <1>1, <1>12, <1>13, <1>14 DEF Next

\* A running job always has a token, and no two workers have the same.
LEMMA TokenStep ==
    ASSUME TypeOK, TypeOK', TokenInv, RowsStep, TokensStep
    PROVE  TokenInv'
  <1>0. claims \in Nat /\ \A w \in Workers : worker[w].token \in Nat
    BY WorkerFields DEF TypeOK
  <1>1. \A b \in Batches, k \in Kinds :
            job'[b][k].status = "running" => job'[b][k].token # NoToken
    <2> SUFFICES ASSUME NEW b \in Batches, NEW k \in Kinds, job'[b][k].status = "running"
                 PROVE  job'[b][k].token # NoToken
      OBVIOUS
    <2>1. job[b][k] \in JobRecord
      BY DEF TypeOK
    <2>2. RowStep(job[b][k], job'[b][k])
      BY DEF RowsStep
    <2>3. job[b][k].status = "running" => job[b][k].token # NoToken
      BY DEF TokenInv
    <2> DEFINE r == job[b][k]  r1 == job'[b][k]
    <2> HIDE DEF r, r1
    <2>4. r \in JobRecord /\ RowStep(r, r1) /\ r1.status = "running"
          /\ (r.status = "running" => r.token # NoToken)
      BY <2>1, <2>2, <2>3 DEF r, r1
    <2>5. ASSUME r1 = Claimed(r, claims + 1) PROVE r1.token # NoToken
      BY <1>0, <2>5 DEF Claimed, NoToken
    <2>6. ASSUME r1 = Recovered(r, MaxAttempts) PROVE r1.token # NoToken
      BY <2>4, <2>6 DEF Recovered, JobRecord
    <2>7. ASSUME r1 \in {r, [r EXCEPT !.marker = "fresh"], [r EXCEPT !.marker = "old"]} PROVE r1.token # NoToken
      BY <2>4, <2>7 DEF JobRecord
    <2>8. ASSUME IsOver(r, r1) \/ IsQueued(r1) PROVE r1.token # NoToken
      BY <2>4, <2>8 DEF IsOver, IsQueued, IsActive, ActiveStatus
    <2>9. r1.token # NoToken
      BY <2>4, <2>5, <2>6, <2>7, <2>8 DEF RowStep
    <2> QED
      BY <2>9 DEF r1
  <1>2. CASE claims' = claims /\ worker' = worker
    BY <1>1, <1>2 DEF TokenInv
  <1>3. ASSUME NEW w \in Workers, NEW x \in WorkerRecord,
               worker' = [worker EXCEPT ![w] = x],
               \/ claims' = claims /\ x.token \in {worker[w].token, NoToken}
               \/ claims' = claims + 1 /\ x.token = claims + 1
        PROVE  TokenInv'
    <2>1. \A v \in Workers : worker'[v] = IF v = w THEN x ELSE worker[v]
      BY <1>3 DEF TypeOK
    <2>2. /\ \A v \in Workers : worker[v].token <= claims
          /\ \A u, v \in Workers :
                worker[u].token = worker[v].token => u = v \/ worker[u].token = NoToken
      BY DEF TokenInv
    <2>3. \A v \in Workers : worker'[v].token <= claims'
      BY <1>0, <1>3, <2>1, <2>2 DEF NoToken
    <2>4. ASSUME NEW u \in Workers, NEW v \in Workers, u # v,
                 worker'[u].token = worker'[v].token
          PROVE  worker'[u].token = NoToken
      BY <1>0, <1>3, <2>1, <2>2, <2>4 DEF NoToken
    <2> QED
      BY <1>1, <2>3, <2>4 DEF TokenInv
  <1> QED
    BY <1>2, <1>3 DEF TokensStep

\* Two workers never hold the same claim: a worker given up on finds another
\* token, or none, in the row of its job.
THEOREM ClaimsExclusive == Spec => []OneOwner
  <1>1. Init => TokenInv
    BY IdleType DEF Init, TokenInv, NoJob, Idle, NoToken
  <1>2. TypeOK /\ TokenInv /\ [Next]_vars => TokenInv'
    BY TypeStep, RowSteps, WorkerTokens, TokenStep
  <1>3. TypeOK /\ TokenInv => OneOwner
    <2> SUFFICES ASSUME TypeOK, TokenInv, NEW v \in Workers, NEW w \in Workers,
                        Owns(v), Owns(w), worker[v].b = worker[w].b, worker[v].k = worker[w].k
                 PROVE  v = w
      BY DEF OneOwner
    <2>1. /\ worker[v].token = job[worker[v].b][worker[v].k].token
          /\ worker[w].token = worker[v].token
          /\ job[worker[v].b][worker[v].k].status = "running"
      BY DEF Owns, MyJob
    <2>2. worker[v].token # NoToken
      BY <2>1, WorkerFields DEF TokenInv, TypeOK
    <2> QED
      BY <2>1, <2>2 DEF TokenInv
  <1> QED
    BY <1>1, <1>2, <1>3, TypeCorrect, PTL DEF Spec

-------------------------------------------------------------------------------
(* Attempts. *)

\* A row waiting for its next run has used fewer than MaxAttempts of them.
RunsOK(r) ==
    /\ r.runs <= MaxAttempts
    /\ IsActive(r) => r.runs <= r.attempts
    /\ r.status = "queued" => r.runs < MaxAttempts

RunsInv == \A b \in Batches, k \in Kinds : RunsOK(job[b][k])

LEMMA RunsStep ==
    ASSUME NEW r \in JobRecord, NEW r1 \in JobRecord, RunsOK(r), RowStep(r, r1)
    PROVE  RunsOK(r1)
  <1>0. /\ MaxAttempts \in Nat \ {0}
        /\ r.runs \in Nat /\ r.attempts \in Nat /\ r1.runs \in Nat
    BY AttemptsAssumption DEF JobRecord
  <1>1. CASE r1 = r
    BY <1>1
  <1>2. CASE IsOver(r, r1)
    BY <1>0, <1>2 DEF IsOver, RunsOK, IsActive, ActiveStatus
  <1>3. CASE IsQueued(r1)
    BY <1>0, <1>3 DEF IsQueued, RunsOK, JobRecord
  <1>4. CASE r.status = "queued" /\ r1 = Claimed(r, claims + 1)
    <2>1. r1.status = "running" /\ r1.runs = r.runs + 1 /\ r1.attempts = r.attempts + 1
      BY <1>4 DEF Claimed
    <2> QED
      BY <1>0, <1>4, <2>1 DEF RunsOK, IsActive, ActiveStatus
  <1>5. CASE r.status = "running" /\ r1 = Recovered(r, MaxAttempts)
    <2>1. /\ r1.runs = r.runs /\ r1.attempts = r.attempts
          /\ r1.status = IF r.attempts >= MaxAttempts THEN "failed" ELSE "queued"
      BY <1>5 DEF Recovered, JobRecord
    <2> QED
      BY <1>0, <1>5, <2>1 DEF RunsOK, IsActive, ActiveStatus
  <1>6. CASE r1 = [r EXCEPT !.marker = "fresh"] \/ r1 = [r EXCEPT !.marker = "old"]
    <2>1. r1.runs = r.runs /\ r1.attempts = r.attempts /\ r1.status = r.status
      BY <1>6 DEF JobRecord
    <2> QED
      BY <2>1 DEF RunsOK, IsActive
  <1> QED
    BY <1>1, <1>2, <1>3, <1>4, <1>5, <1>6 DEF RowStep

\* A job is claimed at most MaxAttempts times for one queueing, whatever its
\* attempts already were and however its workers end.
THEOREM RunsAreBounded == Spec => []RunsBounded
  <1>1. Init => RunsInv
    BY AttemptsAssumption DEF Init, RunsInv, RunsOK, NoJob, IsActive, ActiveStatus
  <1>2. TypeOK /\ RunsInv /\ [Next]_vars => RunsInv'
    <2> SUFFICES ASSUME TypeOK, RunsInv, [Next]_vars, NEW b \in Batches, NEW k \in Kinds
                 PROVE  RunsOK(job[b][k])'
      BY DEF RunsInv
    <2>1. job[b][k] \in JobRecord /\ job'[b][k] \in JobRecord
      BY TypeStep DEF TypeOK
    <2>2. RunsOK(job[b][k]) /\ RowStep(job[b][k], job'[b][k])
      BY RowSteps DEF RunsInv, RowsStep
    <2>3. RunsOK(job'[b][k])
      BY <2>1, <2>2, RunsStep
    <2> QED
      BY <2>3 DEF RunsOK
  <1>3. RunsInv => RunsBounded
    BY DEF RunsInv, RunsOK, RunsBounded
  <1> QED
    BY <1>1, <1>2, <1>3, TypeCorrect, PTL DEF Spec

-------------------------------------------------------------------------------
(* What every batch satisfies. *)

\* The status of a batch and those of its jobs; a delivery batch has only compute
\* and export jobs, and a compute job that prepare will queue again is not
\* "succeeded", which reset_batch_job would keep.
JobsAgree(b) ==
    /\ ~(IsActive(job[b]["prepare"]) /\ IsActive(job[b]["compute"]))
    /\ \A s \in ActiveStatus :
          batch[b] = s <=> \E k \in StatusKinds : job[b][k].status = s
    /\ IsActive(job[b]["export"]) => batch[b] = "succeeded"
    /\ IsActive(job[b]["prepare"]) => job[b]["compute"].status # "succeeded"
    /\ b \notin SelfOperated => ~IsActive(job[b]["prepare"]) /\ ~IsActive(job[b][Snapshot])

\* Rows and export belong to the present inputs and content.
ResultsAgree(b) ==
    /\ batch[b] = "succeeded" => rows[b] = inputs[b]
    /\ zip[b] # NoZip => batch[b] = "succeeded" /\ zip[b] = content[b]
    /\ job[b]["export"].status = "succeeded" => zip[b] # NoZip
    /\ content[b] # NoZip

\* What passed before a batch is computed; the preflight of a delivery batch
\* stays valid through a failed compute.
ChecksAgree(b) ==
    IF b \in SelfOperated
    THEN batch[b] = "succeeded" \/ IsActive(job[b]["compute"]) => receipts[b] = "ready"
    ELSE batch[b] \notin {"draft", "gone"} => checked[b].passed = inputs[b]

Coherent(b) == JobsAgree(b) /\ ResultsAgree(b) /\ ChecksAgree(b)

(* What a step does to one batch. *)

\* Nothing that Coherent(b) is about changes.
Same(b) ==
    /\ \A k \in Kinds : job'[b][k].status = job[b][k].status
    /\ batch'[b] = batch[b]
    /\ receipts'[b] = receipts[b] /\ inputs'[b] = inputs[b]
    /\ checked'[b].passed = checked[b].passed
    /\ rows'[b] = rows[b] /\ content'[b] = content[b] /\ zip'[b] = zip[b]

\* What a job under way has read does not change.
Frozen(b) ==
    /\ (\E k \in Kinds : IsActive(job[b][k])) => inputs'[b].files = inputs[b].files
    /\ (\E k \in BatchKinds : IsActive(job[b][k])) => inputs'[b] = inputs[b]
    /\ IsActive(job[b]["export"]) => content'[b] = content[b]

GoodStep == \A b \in Batches : Coherent(b)' /\ Frozen(b)

LEMMA SameStep ==
    ASSUME NEW b \in Batches, Coherent(b), Same(b)
    PROVE  Coherent(b)' /\ Frozen(b)
  <1>1. IsActive(job[b]["compute"])' <=> IsActive(job[b]["compute"])
    BY KindNames DEF Same, IsActive
  <1>2. JobsAgree(b)'
    BY KindNames DEF Coherent, JobsAgree, Same, IsActive, StatusKinds
  <1>3. ResultsAgree(b)'
    BY KindNames DEF Coherent, ResultsAgree, Same
  <1>4. ChecksAgree(b)'
    BY <1>1 DEF Coherent, ChecksAgree, Same
  <1> QED
    BY <1>2, <1>3, <1>4 DEF Coherent, Frozen, Same

\* A step on one batch.
LEMMA StepOnOne ==
    ASSUME \A c \in Batches : Coherent(c),
           NEW b \in Batches, Coherent(b)' /\ Frozen(b),
           \A c \in Batches \ {b} : Same(c)
    PROVE  GoodStep
  BY SameStep DEF GoodStep

-------------------------------------------------------------------------------
(* Requests. *)

\* The parts of the handlers, at the batch of the request.
LEMMA InvalidatedStatus ==
    ASSUME TypeOK, NEW b \in Batches, NEW k \in Kinds
    PROVE  /\ b \in SelfOperated => InvalidatedJobs(b)[k].status \in {"none", "stale"}
           /\ b \notin SelfOperated => InvalidatedJobs(b)[k] = job[b][k]
  BY DEF InvalidatedJobs, MarkedStale, TypeOK, JobRecord

LEMMA InvalidatedResults ==
    ASSUME TypeOK, NEW b \in Batches, InvalidateResults(b)
    PROVE  /\ receipts'[b] = IF b \in SelfOperated THEN "missing" ELSE receipts[b]
           /\ zip'[b] = IF b \in SelfOperated THEN NoZip ELSE zip[b]
           /\ content'[b] \in {content[b], content[b] + 1}
           /\ \A c \in Batches \ {b} : /\ receipts'[c] = receipts[c] /\ rows'[c] = rows[c]
                                       /\ zip'[c] = zip[c] /\ content'[c] = content[c]
  <1>1. CASE b \in SelfOperated
    BY <1>1 DEF InvalidateResults, NewContent, TypeOK
  <1>2. CASE b \notin SelfOperated
    BY <1>2 DEF InvalidateResults
  <1> QED
    BY <1>1, <1>2

\* invalidate_receipts in a request that edits the batch.
LEMMA EditStep ==
    ASSUME TypeOK, NEW b \in Batches, Coherent(b),
           batch[b] \in EditableStatus, MayInvalidate(b),
           \A k \in BatchKinds : ~IsActive(job[b][k]),
           job' = [job EXCEPT ![b] = InvalidatedJobs(b)],
           batch'[b] = "draft",
           zip'[b] \in {zip[b], NoZip},
           content'[b] \in {content[b], content[b] + 1}
    PROVE  Coherent(b)' /\ Frozen(b)
  <1>1. job'[b] = InvalidatedJobs(b) /\ content[b] \in Nat
    BY DEF TypeOK
  <1>2. \A k \in Kinds : ~IsActive(job[b][k])
    <2>1. b \in SelfOperated => ~IsActive(job[b][Snapshot])
      BY KindNames DEF MayInvalidate, HasActiveJob
    <2> QED
      BY <2>1 DEF Kinds, Coherent, JobsAgree
  <1>3. \A k \in Kinds : job'[b][k].status \in {"none", "stale", job[b][k].status}
    BY <1>1, InvalidatedStatus
  <1>4. \A k \in Kinds : ~IsActive(job'[b][k])
    BY <1>2, <1>3 DEF IsActive, ActiveStatus
  <1>5. JobsAgree(b)'
    BY <1>4, KindNames DEF JobsAgree, IsActive, ActiveStatus, StatusKinds
  <1>6. ResultsAgree(b)'
    <2>1. zip[b] = NoZip
      BY DEF Coherent, ResultsAgree, EditableStatus
    <2>2. job'[b]["export"].status # "succeeded"
      BY <1>3, <2>1, KindNames DEF Coherent, ResultsAgree
    <2> QED
      BY <1>1, <2>1, <2>2 DEF Coherent, ResultsAgree, NoZip
  <1>7. ChecksAgree(b)'
    BY <1>4, KindNames DEF ChecksAgree
  <1> QED
    BY <1>2, <1>5, <1>6, <1>7, KindNames DEF Coherent, Frozen, Kinds

LEMMA EditRequests ==
    ASSUME TypeOK, \A c \in Batches : Coherent(c), NEW b \in Batches,
           AppendFile(b) \/ DeleteFile(b) \/ ReorderFiles(b) \/ RefreshSupplier(b)
    PROVE  GoodStep
  <1>1. \A c \in Batches \ {b} : Same(c)
    <2> SUFFICES ASSUME NEW c \in Batches \ {b} PROVE Same(c)
      OBVIOUS
    <2>1. /\ receipts'[c] = receipts[c] /\ rows'[c] = rows[c]
          /\ zip'[c] = zip[c] /\ content'[c] = content[c]
      BY InvalidatedResults DEF AppendFile, DeleteFile, ReorderFiles, RefreshSupplier,
                                NewContent, TypeOK
    <2>2. job'[c] = job[c] /\ batch'[c] = batch[c] /\ checked'[c] = checked[c]
      BY DEF AppendFile, DeleteFile, ReorderFiles, RefreshSupplier, TypeOK
    <2>3. inputs'[c] = inputs[c]
      BY DEF AppendFile, DeleteFile, ReorderFiles, RefreshSupplier, TypeOK,
             NewFiles, NewSettings
    <2> QED
      BY <2>1, <2>2, <2>3 DEF Same
  <1>2. batch[b] \in EditableStatus /\ batch'[b] = "draft" /\ MayInvalidate(b)
    BY DEF AppendFile, DeleteFile, ReorderFiles, RefreshSupplier, TypeOK, Editable,
           EditableStatus
  <1>3. \A k \in BatchKinds : ~IsActive(job[b][k])
    <2>1. CASE RefreshSupplier(b)
      BY <2>1, KindNames DEF RefreshSupplier, Coherent, JobsAgree, IsActive, ActiveStatus,
                             StatusKinds, BatchKinds
    <2> QED
      BY <2>1 DEF AppendFile, DeleteFile, ReorderFiles, Editable, HasActiveJob, Kinds
  <1>4. job' = [job EXCEPT ![b] = InvalidatedJobs(b)]
    BY DEF AppendFile, DeleteFile, ReorderFiles, RefreshSupplier
  <1>5. zip'[b] \in {zip[b], NoZip} /\ content'[b] \in {content[b], content[b] + 1}
    BY InvalidatedResults DEF AppendFile, DeleteFile, ReorderFiles, RefreshSupplier,
                              NewContent, TypeOK
  <1> QED
    BY <1>1, <1>2, <1>3, <1>4, <1>5, EditStep, StepOnOne

\* queue_receipt_preflight.
LEMMA PrepareRequests ==
    ASSUME TypeOK, \A c \in Batches : Coherent(c), NEW b \in Batches,
           StartPrepare(b) \/ ChooseSite(b) \/ RefreshHistory(b)
    PROVE  GoodStep
  <1>0. QueuePrepare(b) /\ b \in SelfOperated
    BY DEF StartPrepare, ChooseSite, RefreshHistory
  <1>1. \A c \in Batches \ {b} : Same(c)
    <2> SUFFICES ASSUME NEW c \in Batches \ {b} PROVE Same(c)
      OBVIOUS
    <2>1. /\ receipts'[c] = receipts[c] /\ rows'[c] = rows[c]
          /\ zip'[c] = zip[c] /\ content'[c] = content[c]
      BY <1>0, InvalidatedResults DEF QueuePrepare
    <2>2. job'[c] = job[c] /\ batch'[c] = batch[c]
      BY <1>0 DEF QueuePrepare, TypeOK
    <2>3. checked'[c] = checked[c] /\ inputs'[c] = inputs[c]
      BY DEF StartPrepare, ChooseSite, RefreshHistory, NewSettings, TypeOK
    <2> QED
      BY <2>1, <2>2, <2>3 DEF Same
  <1> DEFINE inv == InvalidatedJobs(b)
  <1>2. \A k \in Kinds : ~IsActive(job[b][k])
    BY <1>0 DEF QueuePrepare, MayInvalidate, HasActiveJob
  <1>3. \A k \in Kinds : inv[k].status \in {"none", "stale"}
    BY <1>0, InvalidatedStatus
  <1>4. inv \in [Kinds -> JobRecord]
    BY InvalidatedType
  <1>5. job' = [job EXCEPT ![b] =
                   [inv EXCEPT !["prepare"] = ResetJob(@, "prepare", FALSE)]]
    BY <1>0 DEF QueuePrepare
  <1> HIDE DEF inv
  <1>6. /\ job'[b]["prepare"].status = "queued"
        /\ \A k \in Kinds \ {"prepare"} : job'[b][k].status \in {"none", "stale"}
    <2>1. job'[b] = [inv EXCEPT !["prepare"] = ResetJob(@, "prepare", FALSE)]
      BY <1>5 DEF TypeOK
    <2>2. ResetJob(inv["prepare"], "prepare", FALSE).status = "queued"
      BY <1>3, KindNames DEF ResetJob, KeptByReset, Queued, IsActive, ActiveStatus, Snapshot
    <2> QED
      BY <1>3, <1>4, <2>1, <2>2, KindNames
  <1>7. /\ batch'[b] = "queued" /\ zip'[b] = NoZip
        /\ content'[b] \in {content[b], content[b] + 1} /\ content[b] \in Nat
    BY <1>0, InvalidatedResults DEF QueuePrepare, TypeOK
  <1>8. JobsAgree(b)'
    BY <1>0, <1>6, <1>7, KindNames DEF JobsAgree, IsActive, ActiveStatus, StatusKinds
  <1>9. ResultsAgree(b)'
    BY <1>6, <1>7, KindNames DEF Coherent, ResultsAgree, NoZip
  <1>10. ChecksAgree(b)'
    BY <1>0, <1>6, <1>7, KindNames DEF ChecksAgree, IsActive, ActiveStatus
  <1>11. Frozen(b)
    BY <1>2, KindNames DEF Frozen, Kinds
  <1> QED
    BY <1>1, <1>8, <1>9, <1>10, <1>11, StepOnOne DEF Coherent

LEMMA PreflightRequests ==
    ASSUME TypeOK, \A c \in Batches : Coherent(c), NEW b \in Batches,
           PreflightRead(b) \/ PreflightDecide(b)
    PROVE  GoodStep
  <1>1. \A c \in Batches \ {b} : Same(c)
    BY DEF PreflightRead, PreflightDecide, TypeOK, Same
  <1>2. CASE PreflightRead(b)
    <2>1. checked'[b].passed = checked[b].passed
      BY <1>2 DEF PreflightRead, TypeOK
    <2> QED
      BY <1>1, <1>2, <2>1, SameStep, StepOnOne DEF PreflightRead, Same
  <1>3. CASE PreflightDecide(b)
    <2>1. UNCHANGED <<job, receipts, inputs, rows, content, zip>>
      BY <1>3 DEF PreflightDecide
    <2>2. CASE batch'[b] = batch[b] /\ checked'[b].passed = checked[b].passed
      BY <1>1, <2>1, <2>2, SameStep, StepOnOne DEF Same
    <2>3. CASE /\ batch[b] \in {"draft", "failed"} /\ batch'[b] = "preflight_ready"
               /\ checked'[b].passed = inputs[b]
      <3>1. JobsAgree(b)'
        BY <2>1, <2>3, KindNames DEF Coherent, JobsAgree, IsActive, ActiveStatus, StatusKinds
      <3>2. ResultsAgree(b)'
        BY <2>1, <2>3 DEF Coherent, ResultsAgree
      <3>3. ChecksAgree(b)'
        BY <2>1, <2>3 DEF Coherent, ChecksAgree
      <3> QED
        BY <1>1, <2>1, <3>1, <3>2, <3>3, StepOnOne DEF Coherent, Frozen
    <2>4. \/ batch'[b] = batch[b] /\ checked'[b].passed = checked[b].passed
          \/ /\ batch[b] \in {"draft", "failed"} /\ batch'[b] = "preflight_ready"
             /\ checked'[b].passed = inputs[b]
      BY <1>3 DEF PreflightDecide, TypeOK
    <2> QED
      BY <2>2, <2>3, <2>4
  <1> QED
    BY <1>2, <1>3

\* compute is queued, by a first request or again.
LEMMA ComputeRequests ==
    ASSUME TypeOK, \A c \in Batches : Coherent(c), NEW b \in Batches,
           StartCompute(b) \/ SaveAllowance(b)
    PROVE  GoodStep
  <1>1. \A c \in Batches \ {b} : Same(c)
    BY DEF StartCompute, SaveAllowance, data, TypeOK, Same, NewSettings, NewContent
  <1>2. /\ batch[b] \in {"preflight_ready", "succeeded", "failed"} /\ ReceiptsPass(b)
        /\ batch'[b] = "queued" /\ receipts'[b] = receipts[b]
    BY DEF StartCompute, SaveAllowance, MayRecompute, TypeOK, data
  <1>3. ~IsActive(job[b]["compute"]) /\ ~IsActive(job[b]["prepare"])
    BY <1>2, KindNames DEF Coherent, JobsAgree, IsActive, ActiveStatus, StatusKinds
  <1>4. job'[b]["prepare"] = job[b]["prepare"] /\ job'[b][Snapshot] = job[b][Snapshot]
    <2>1. CASE StartCompute(b)
      BY <2>1, KindNames DEF StartCompute, TypeOK, Snapshot
    <2>2. CASE SaveAllowance(b)
      <3> DEFINE c == ResetJob(Cleared(job[b]["compute"]), "compute", FALSE)
                 e == Cleared(job[b]["export"])
      <3>1. job' = [job EXCEPT ![b] = [job[b] EXCEPT !["compute"] = c, !["export"] = e]]
        BY <2>2 DEF SaveAllowance
      <3> HIDE DEF c, e
      <3> QED
        BY <3>1, KindNames DEF TypeOK, Snapshot
    <2> QED
      BY <2>1, <2>2
  <1>5. job'[b]["compute"].status = "queued"
    <2>1. CASE StartCompute(b)
      <3>1. ResetJob(job[b]["compute"], "compute", FALSE).status = "queued"
        BY <2>1 DEF StartCompute, ResetJob, KeptByReset, Queued, IsActive, ActiveStatus, Snapshot
      <3> QED
        BY <2>1, <3>1, KindNames DEF StartCompute, TypeOK
    <2>2. CASE SaveAllowance(b)
      <3>1. job[b]["compute"] \in JobRecord
        BY KindNames DEF TypeOK
      <3>2. Cleared(job[b]["compute"]).status \in {"none", "stale"}
        BY <3>1 DEF Cleared, MarkedStale, JobRecord
      <3>3. ResetJob(Cleared(job[b]["compute"]), "compute", FALSE).status = "queued"
        BY <3>2 DEF ResetJob, KeptByReset, Queued, IsActive, ActiveStatus, Snapshot
      <3> QED
        BY <2>2, <3>3, KindNames DEF SaveAllowance, TypeOK
    <2> QED
      BY <2>1, <2>2
  <1>6. ~IsActive(job'[b]["export"]) /\ job'[b]["export"].status # "succeeded"
    <2>1. CASE StartCompute(b)
      <3>1. job'[b]["export"] = job[b]["export"] /\ batch[b] # "succeeded"
        BY <2>1, KindNames DEF StartCompute, TypeOK
      <3> QED
        BY <3>1 DEF Coherent, JobsAgree, ResultsAgree
    <2>2. CASE SaveAllowance(b)
      <3>1. job[b]["export"] \in JobRecord
        BY KindNames DEF TypeOK
      <3>2. job'[b]["export"] = Cleared(job[b]["export"])
        BY <2>2, KindNames DEF SaveAllowance, TypeOK
      <3> QED
        BY <3>1, <3>2 DEF Cleared, MarkedStale, JobRecord, IsActive, ActiveStatus
    <2> QED
      BY <2>1, <2>2
  <1>7. /\ zip'[b] = NoZip
        /\ content'[b] \in {content[b], content[b] + 1} /\ content[b] \in Nat
    <2>1. CASE StartCompute(b)
      BY <2>1 DEF StartCompute, data, Coherent, ResultsAgree, TypeOK
    <2>2. CASE SaveAllowance(b)
      BY <2>2 DEF SaveAllowance, NewContent, TypeOK
    <2> QED
      BY <2>1, <2>2
  <1>8. JobsAgree(b)'
    BY <1>2, <1>3, <1>4, <1>5, <1>6, KindNames
       DEF Coherent, JobsAgree, IsActive, ActiveStatus, StatusKinds
  <1>9. ResultsAgree(b)'
    BY <1>2, <1>6, <1>7, KindNames DEF Coherent, ResultsAgree, NoZip
  <1>10. ChecksAgree(b)'
    <2>1. b \notin SelfOperated => checked'[b] = checked[b] /\ inputs'[b] = inputs[b]
      BY DEF StartCompute, SaveAllowance, data
    <2> QED
      BY <1>2, <2>1 DEF Coherent, ChecksAgree, ReceiptsPass
  <1>11. Frozen(b)
    <2>1. CASE StartCompute(b)
      BY <2>1 DEF StartCompute, data, Frozen
    <2>2. CASE SaveAllowance(b)
      <3>1. \A k \in BatchKinds : ~IsActive(job[b][k])
        BY <2>2 DEF SaveAllowance, MayRecompute
      <3>2. inputs'[b].files = inputs[b].files
        BY <2>2 DEF SaveAllowance, NewSettings, TypeOK, Version
      <3> QED
        BY <3>1, <3>2 DEF Frozen, BatchKinds
    <2> QED
      BY <2>1, <2>2
  <1> QED
    BY <1>1, <1>8, <1>9, <1>10, <1>11, StepOnOne DEF Coherent

\* Requests on a computed batch that change what an export shows.
LEMMA ContentRequests ==
    ASSUME TypeOK, \A c \in Batches : Coherent(c), NEW b \in Batches,
           SaveOffline(b) \/ Transfer(b) \/ SaveSplit(b)
    PROVE  GoodStep
  <1>1. \A c \in Batches \ {b} : Same(c)
    BY DEF SaveOffline, Transfer, SaveSplit, QueueFreshExport, TypeOK, Same, NewContent
  <1>2. /\ batch[b] = "succeeded" /\ ~IsActive(job[b]["export"])
        /\ batch'[b] = batch[b] /\ zip'[b] = NoZip
        /\ content'[b] = content[b] + 1 /\ content[b] \in Nat
        /\ UNCHANGED <<receipts, inputs, checked, rows>>
    BY DEF SaveOffline, Transfer, SaveSplit, ExportIdle, QueueFreshExport, NewContent, TypeOK
  <1> DEFINE r == job[b]["export"]
  <1>a. PICK r1 \in {ResetJob(r, "export", TRUE), MarkedStale(r)} :
           job' = [job EXCEPT ![b]["export"] = r1]
    BY DEF SaveOffline, Transfer, SaveSplit, QueueFreshExport
  <1>3. job'[b]["export"] = r1 /\ \A k \in Kinds \ {"export"} : job'[b][k] = job[b][k]
    BY <1>a, KindNames DEF TypeOK
  <1>4. job'[b]["export"].status # "succeeded"
    <2>1. r \in JobRecord
      BY KindNames DEF TypeOK
    <2> QED
      BY <1>2, <1>3, <2>1 DEF ResetJob, KeptByReset, Queued, MarkedStale, JobRecord,
                              IsActive, ActiveStatus, Snapshot
  <1>5. JobsAgree(b)'
    BY <1>2, <1>3, KindNames DEF Coherent, JobsAgree, IsActive, ActiveStatus, StatusKinds, Snapshot
  <1>6. ResultsAgree(b)'
    BY <1>2, <1>4 DEF Coherent, ResultsAgree, NoZip
  <1>7. ChecksAgree(b)'
    BY <1>2, <1>3, KindNames DEF Coherent, ChecksAgree
  <1> QED
    BY <1>1, <1>2, <1>5, <1>6, <1>7, StepOnOne DEF Coherent, Frozen

\* Requests that queue a job of a computed batch and change nothing else.
LEMMA QueueRequests ==
    ASSUME TypeOK, \A c \in Batches : Coherent(c), NEW b \in Batches,
           StartExport(b) \/ LoadSnapshot(b)
    PROVE  GoodStep
  <1>1. \A c \in Batches \ {b} : Same(c)
    BY DEF StartExport, LoadSnapshot, data, TypeOK, Same
  <1>2. batch[b] = "succeeded" /\ UNCHANGED <<batch, data>>
    BY DEF StartExport, LoadSnapshot
  <1>3. CASE StartExport(b)
    <2>1. \A k \in Kinds \ {"export"} : job'[b][k] = job[b][k]
      BY <1>3, KindNames DEF StartExport, TypeOK
    <2>2. job'[b]["export"].status = "succeeded" => job[b]["export"].status = "succeeded"
      <3>1. PICK mergedMissing \in BOOLEAN :
               job' = [job EXCEPT ![b]["export"] =
                         ResetJob(IF mergedMissing /\ @.status = "succeeded"
                                  THEN MarkedStale(@) ELSE @, "export", FALSE)]
        BY <1>3 DEF StartExport
      <3> DEFINE r == job[b]["export"]
                 r1 == IF mergedMissing /\ r.status = "succeeded" THEN MarkedStale(r) ELSE r
      <3>2. r \in JobRecord
        BY KindNames DEF TypeOK
      <3>3. job'[b]["export"] = ResetJob(r1, "export", FALSE)
        BY <3>1, KindNames DEF TypeOK
      <3> QED
        <4>1. r1.status = "succeeded" => r.status = "succeeded"
          BY <3>2 DEF MarkedStale, JobRecord
        <4>2. ResetJob(r1, "export", FALSE).status \in {r1.status, "queued"}
          BY DEF ResetJob, Queued
        <4> QED
          BY <3>3, <4>1, <4>2
    <2>3. JobsAgree(b)'
      BY <1>2, <2>1, KindNames DEF Coherent, JobsAgree, IsActive, ActiveStatus, StatusKinds, Snapshot
    <2>4. ResultsAgree(b)'
      BY <1>2, <2>2 DEF Coherent, ResultsAgree, data
    <2>5. ChecksAgree(b)'
      BY <1>2, <2>1, KindNames DEF Coherent, ChecksAgree, data
    <2> QED
      BY <1>1, <1>2, <2>3, <2>4, <2>5, StepOnOne DEF Coherent, Frozen, data
  <1>4. CASE LoadSnapshot(b)
    <2>1. b \in SelfOperated /\ \A k \in BatchKinds : job'[b][k] = job[b][k]
      BY <1>4, KindNames DEF LoadSnapshot, TypeOK, Kinds, BatchKinds, Snapshot
    <2>3. JobsAgree(b)'
      BY <1>2, <2>1 DEF Coherent, JobsAgree, IsActive, ActiveStatus, StatusKinds, BatchKinds
    <2>4. ResultsAgree(b)'
      BY <1>2, <2>1 DEF Coherent, ResultsAgree, data, BatchKinds
    <2>5. ChecksAgree(b)'
      BY <1>2, <2>1 DEF Coherent, ChecksAgree, data, BatchKinds
    <2> QED
      BY <1>1, <1>2, <2>3, <2>4, <2>5, StepOnOne DEF Coherent, Frozen, data
  <1> QED
    BY <1>3, <1>4

LEMMA DeleteRequest ==
    ASSUME TypeOK, \A c \in Batches : Coherent(c), NEW b \in Batches, DeleteBatch(b)
    PROVE  GoodStep
  <1>1. \A c \in Batches \ {b} : Same(c)
    BY DEF DeleteBatch, TypeOK, Same
  <1>2. /\ batch'[b] = "gone" /\ zip'[b] = NoZip /\ UNCHANGED <<inputs, content>>
        /\ \A k \in Kinds : job'[b][k].status = "none"
    BY DEF DeleteBatch, TypeOK, NoJob
  <1>3. JobsAgree(b)'
    BY <1>2, KindNames DEF JobsAgree, IsActive, ActiveStatus, StatusKinds
  <1>4. ResultsAgree(b)'
    BY <1>2, KindNames DEF Coherent, ResultsAgree
  <1>5. ChecksAgree(b)'
    BY <1>2, KindNames DEF Coherent, ChecksAgree, IsActive, ActiveStatus
  <1> QED
    BY <1>1, <1>2, <1>3, <1>4, <1>5, StepOnOne DEF Coherent, Frozen

LEMMA RequestSteps ==
    ASSUME TypeOK, \A c \in Batches : Coherent(c), RequestStep
    PROVE  GoodStep
  BY EditRequests, PrepareRequests, PreflightRequests, ComputeRequests, ContentRequests,
     QueueRequests, DeleteRequest DEF RequestStep

(* Workers. *)

LEMMA AllSame ==
    ASSUME \A c \in Batches : Coherent(c) /\ Same(c)
    PROVE  GoodStep
  BY SameStep DEF GoodStep

\* Steps that touch nothing but the worker and the markers of its job.
LEMMA QuietSteps ==
    ASSUME TypeOK, \A c \in Batches : Coherent(c), NEW w \in Workers,
           \/ Heartbeat(w) \/ KeeperFails(w) \/ ReadInputs(w) \/ Raise(w)
           \/ StopKeeper(w) \/ PublishRefused(w) \/ Crash(w)
    PROVE  GoodStep
  <1>1. UNCHANGED <<batch, data>>
    BY DEF Heartbeat, KeeperFails, ReadInputs, Raise, StopKeeper, PublishRefused, Crash
  <1>2. \A b \in Batches, k \in Kinds : job'[b][k].status = job[b][k].status
    <2>1. CASE Heartbeat(w)
      <3>1. worker[w].b \in Batches /\ worker[w].k \in Kinds /\ MyJob(w) \in JobRecord
        BY WorkerFields DEF TypeOK, MyJob
      <3>2. job' = [job EXCEPT ![worker[w].b][worker[w].k] = [MyJob(w) EXCEPT !.marker = "fresh"]]
        BY <2>1 DEF Heartbeat, MyJob
      <3>3. [MyJob(w) EXCEPT !.marker = "fresh"].status = MyJob(w).status
        BY <3>1 DEF JobRecord
      <3> QED
        BY <3>1, <3>2, <3>3 DEF TypeOK, MyJob
    <2>2. CASE ~Heartbeat(w)
      BY <2>2 DEF KeeperFails, ReadInputs, Raise, StopKeeper, PublishRefused, Crash
    <2> QED
      BY <2>1, <2>2
  <1> QED
    BY <1>1, <1>2, AllSame DEF Same, data

LEMMA AgingStep ==
    ASSUME TypeOK, \A c \in Batches : Coherent(c),
           NEW b \in Batches, NEW k \in Kinds, MarkerAges(b, k)
    PROVE  GoodStep
  <1>1. UNCHANGED <<batch, data>>
    BY DEF MarkerAges
  <1>2. job' = [job EXCEPT ![b][k] = [job[b][k] EXCEPT !.marker = "old"]]
    BY DEF MarkerAges
  <1>3. job[b][k] \in JobRecord /\ [job[b][k] EXCEPT !.marker = "old"].status = job[b][k].status
    BY DEF TypeOK, JobRecord
  <1>4. \A c \in Batches, kk \in Kinds : job'[c][kk].status = job[c][kk].status
    BY <1>2, <1>3 DEF TypeOK
  <1> QED
    BY <1>1, <1>4, AllSame DEF Same, data

LEMMA ClaimStep ==
    ASSUME TypeOK, \A c \in Batches : Coherent(c), NEW w \in Workers,
           NEW b \in Batches, NEW k \in Kinds, Claim(w, b, k)
    PROVE  GoodStep
  <1>1. UNCHANGED data
    BY DEF Claim
  <1>2. /\ job[b][k].status = "queued" /\ job'[b][k].status = "running"
        /\ \A kk \in Kinds \ {k} : job'[b][kk] = job[b][kk]
        /\ \A c \in Batches \ {b} : job'[c] = job[c]
    BY DEF Claim, Claimed, TypeOK
  <1>3. /\ batch'[b] = IF k \in StatusKinds THEN "running" ELSE batch[b]
        /\ \A c \in Batches \ {b} : batch'[c] = batch[c]
    BY DEF Claim, TypeOK
  <1>4. \A c \in Batches \ {b} : Same(c)
    BY <1>1, <1>2, <1>3 DEF Same, data
  <1>5. \A kk \in Kinds : IsActive(job'[b][kk]) <=> IsActive(job[b][kk])
    BY <1>2 DEF IsActive, ActiveStatus
  <1>6. k \in StatusKinds => batch[b] = "queued"
    BY <1>2 DEF Coherent, JobsAgree, ActiveStatus, IsActive
  <1>7. JobsAgree(b)'
    <2>1. CASE k \in StatusKinds
      BY <1>2, <1>3, <1>5, <1>6, <2>1, KindNames
         DEF Coherent, JobsAgree, IsActive, ActiveStatus, StatusKinds, Snapshot
    <2>2. CASE k \notin StatusKinds
      BY <1>2, <1>3, <1>5, <2>2, KindNames
         DEF Coherent, JobsAgree, IsActive, ActiveStatus, StatusKinds, Snapshot
    <2> QED
      BY <2>1, <2>2
  <1>8. ResultsAgree(b)'
    BY <1>1, <1>2, <1>3, <1>6, KindNames DEF Coherent, ResultsAgree, data
  <1>9. ChecksAgree(b)'
    BY <1>1, <1>3, <1>5, <1>6, KindNames DEF Coherent, ChecksAgree, data
  <1> QED
    BY <1>1, <1>4, <1>7, <1>8, <1>9, StepOnOne DEF Coherent, Frozen, data

\* The batch and the job of a worker that owns its claim.
LEMMA OwnedJob ==
    ASSUME TypeOK, NEW w \in Workers, Owns(w)
    PROVE  /\ worker[w].b \in Batches /\ worker[w].k \in Kinds
           /\ MyJob(w) \in JobRecord
           /\ job[worker[w].b][worker[w].k].status = "running"
           /\ IsActive(job[worker[w].b][worker[w].k])
  BY WorkerFields DEF TypeOK, Owns, MyJob, IsActive, ActiveStatus

LEMMA PublishPrepareStep ==
    ASSUME TypeOK, \A c \in Batches : Coherent(c), NEW w \in Workers, PublishPrepare(w)
    PROVE  GoodStep
  <1>0. PICK b \in Batches : b = worker[w].b
    BY WorkerFields DEF TypeOK
  <1>1. /\ b \in Batches /\ job[b]["prepare"].status = "running"
        /\ IsActive(job[b]["prepare"]) /\ MyJob(w) = job[b]["prepare"]
    BY <1>0, OwnedJob DEF PublishPrepare, MayPublish, MyJob
  <1>2. UNCHANGED <<inputs, checked, rows, content, zip>>
    BY <1>0 DEF PublishPrepare
  <1>3. Succeed(w).status = "succeeded"
    BY <1>1, KindNames DEF Succeed, Ended, TypeOK, JobRecord
  <1>4. /\ b \in SelfOperated /\ batch[b] = "running"
        /\ ~IsActive(job[b]["compute"]) /\ job[b]["compute"].status # "succeeded"
        /\ ~IsActive(job[b]["export"]) /\ job[b]["export"].status # "succeeded"
    BY <1>1 DEF Coherent, JobsAgree, ResultsAgree, IsActive, ActiveStatus, StatusKinds
  <1>5. \A c \in Batches \ {b} : Same(c)
    BY <1>0 DEF PublishPrepare, TypeOK, Same
  <1>6. job'[b]["prepare"].status = "succeeded" /\ job'[b]["export"] = job[b]["export"]
    BY <1>0, <1>1, <1>3, KindNames DEF PublishPrepare, TypeOK
  <1>7. \/ batch'[b] = "draft" /\ job'[b]["compute"] = job[b]["compute"]
        \/ /\ batch'[b] = "queued" /\ receipts'[b] = "ready"
           /\ job'[b]["compute"].status = "queued"
    <2> DEFINE r == ResetJob(job[b]["compute"], "compute", FALSE)
    <2>1. r.status = "queued"
      BY <1>4 DEF ResetJob, KeptByReset, Queued, Snapshot
    <2> HIDE DEF r
    <2>2. CASE /\ batch' = [batch EXCEPT ![b] = "draft"]
               /\ job' = [job EXCEPT ![b]["prepare"] = Succeed(w)]
      BY <1>1, <2>2, KindNames DEF TypeOK
    <2>3. CASE /\ receipts' = [receipts EXCEPT ![b] = "ready"]
               /\ batch' = [batch EXCEPT ![b] = "queued"]
               /\ job' = [job EXCEPT ![b] = [job[b] EXCEPT !["prepare"] = Succeed(w),
                                                         !["compute"] = r]]
      BY <1>1, <2>1, <2>3, KindNames DEF TypeOK
    <2> QED
      BY <1>0, <2>2, <2>3 DEF PublishPrepare, r
  <1>8. JobsAgree(b)'
    BY <1>4, <1>6, <1>7, KindNames DEF JobsAgree, IsActive, ActiveStatus, StatusKinds
  <1>9. ResultsAgree(b)'
    BY <1>1, <1>2, <1>4, <1>6, <1>7 DEF Coherent, ResultsAgree
  <1>10. ChecksAgree(b)'
    BY <1>4, <1>7 DEF ChecksAgree
  <1> QED
    BY <1>1, <1>2, <1>5, <1>8, <1>9, <1>10, StepOnOne DEF Coherent, Frozen

\* The inputs of the worker are those of its batch.
LEMMA PublishComputeStep ==
    ASSUME TypeOK, \A c \in Batches : Coherent(c), NEW w \in Workers, PublishCompute(w),
           OwnerReadsCurrent
    PROVE  GoodStep
  <1>0. PICK b \in Batches : b = worker[w].b
    BY WorkerFields DEF TypeOK
  <1>1. /\ b \in Batches /\ job[b]["compute"].status = "running"
        /\ IsActive(job[b]["compute"]) /\ MyJob(w) = job[b]["compute"]
    BY <1>0, OwnedJob DEF PublishCompute, MayPublish, MyJob
  <1>2. UNCHANGED <<inputs, checked, receipts>> /\ worker[w].inputs = inputs[b]
    BY <1>0 DEF PublishCompute, MayPublish, OwnerReadsCurrent, Snapshot
  <1>3. Succeed(w).status = "succeeded"
    BY <1>1, KindNames DEF Succeed, Ended, TypeOK, JobRecord
  <1>4. /\ batch[b] = "running" /\ ~IsActive(job[b]["prepare"])
        /\ ~IsActive(job[b]["export"]) /\ job[b]["export"].status # "succeeded"
    BY <1>1 DEF Coherent, JobsAgree, ResultsAgree, IsActive, ActiveStatus, StatusKinds
  <1>5. \A c \in Batches \ {b} : Same(c)
    BY <1>0 DEF PublishCompute, TypeOK, Same, NewContent
  <1>6. /\ batch'[b] = "succeeded" /\ zip'[b] = NoZip /\ rows'[b] = worker[w].inputs
        /\ content'[b] = content[b] + 1 /\ content[b] \in Nat
    BY <1>0, <1>1 DEF PublishCompute, NewContent, TypeOK
  <1> DEFINE e == IF b \in SelfOperated THEN ResetJob(job[b]["export"], "export", FALSE)
                                        ELSE job[b]["export"]
  <1>7. e.status # "succeeded"
    BY <1>4 DEF ResetJob, Queued
  <1>8. job' = [job EXCEPT ![b] = [job[b] EXCEPT !["compute"] = Succeed(w), !["export"] = e]]
    BY <1>0 DEF PublishCompute
  <1> HIDE DEF e
  <1>9. /\ job'[b]["compute"].status = "succeeded" /\ job'[b]["export"] = e
        /\ job'[b]["prepare"] = job[b]["prepare"] /\ job'[b][Snapshot] = job[b][Snapshot]
    BY <1>1, <1>3, <1>8, KindNames DEF TypeOK, Snapshot
  <1>10. JobsAgree(b)'
    BY <1>1, <1>4, <1>6, <1>9, KindNames
       DEF Coherent, JobsAgree, IsActive, ActiveStatus, StatusKinds
  <1>11. ResultsAgree(b)'
    BY <1>2, <1>6, <1>7, <1>9 DEF Coherent, ResultsAgree, NoZip
  <1>12. ChecksAgree(b)'
    BY <1>1, <1>2, <1>4 DEF Coherent, ChecksAgree
  <1> QED
    BY <1>1, <1>2, <1>4, <1>5, <1>10, <1>11, <1>12, StepOnOne DEF Coherent, Frozen

\* The content the worker read is what the batch shows.
LEMMA PublishExportStep ==
    ASSUME TypeOK, \A c \in Batches : Coherent(c), NEW w \in Workers, PublishExport(w),
           OwnerReadsCurrent
    PROVE  GoodStep
  <1>0. PICK b \in Batches : b = worker[w].b
    BY WorkerFields DEF TypeOK
  <1>1. /\ b \in Batches /\ job[b]["export"].status = "running"
        /\ IsActive(job[b]["export"]) /\ MyJob(w) = job[b]["export"]
    BY <1>0, OwnedJob DEF PublishExport, MayPublish, MyJob
  <1>2. /\ UNCHANGED <<batch, inputs, checked, receipts, rows, content>>
        /\ worker[w].content = content[b]
    BY <1>0 DEF PublishExport, MayPublish, OwnerReadsCurrent
  <1>3. batch[b] = "succeeded" /\ zip'[b] = worker[w].content
    BY <1>0, <1>1 DEF Coherent, JobsAgree, PublishExport, TypeOK
  <1>4. \A c \in Batches \ {b} : Same(c)
    BY <1>0 DEF PublishExport, TypeOK, Same
  <1>5. \A k \in Kinds \ {"export"} : job'[b][k] = job[b][k]
    BY <1>0, <1>1, KindNames DEF PublishExport, TypeOK
  <1>6. ~IsActive(job'[b]["export"])
    <2>1. ~IsActive(Succeed(w))
      BY <1>1, KindNames DEF Succeed, Ended, TypeOK, JobRecord, IsActive, ActiveStatus
    <2> QED
      BY <1>0, <1>1, <2>1, KindNames DEF PublishExport, TypeOK
  <1>7. JobsAgree(b)'
    BY <1>1, <1>2, <1>3, <1>5, <1>6, KindNames
       DEF Coherent, JobsAgree, IsActive, ActiveStatus, StatusKinds, Snapshot
  <1>8. ResultsAgree(b)'
    BY <1>1, <1>2, <1>3 DEF Coherent, ResultsAgree
  <1>9. ChecksAgree(b)'
    BY <1>1, <1>2, <1>5, KindNames DEF Coherent, ChecksAgree
  <1> QED
    BY <1>1, <1>2, <1>4, <1>7, <1>8, <1>9, StepOnOne DEF Coherent, Frozen

LEMMA PublishSnapshotStep ==
    ASSUME TypeOK, \A c \in Batches : Coherent(c), NEW w \in Workers, PublishSnapshot(w)
    PROVE  GoodStep
  <1>0. PICK b \in Batches : b = worker[w].b
    BY WorkerFields DEF TypeOK
  <1>1. b \in Batches /\ IsActive(job[b][Snapshot])
    BY <1>0, OwnedJob DEF PublishSnapshot, MayPublish
  <1>2. UNCHANGED <<batch, data>>
    BY <1>0 DEF PublishSnapshot
  <1>3. \A c \in Batches \ {b} : Same(c)
    BY <1>0, <1>2 DEF PublishSnapshot, TypeOK, Same, data
  <1>4. \A k \in BatchKinds : job'[b][k] = job[b][k]
    BY <1>0, <1>1, KindNames DEF PublishSnapshot, TypeOK, Kinds, BatchKinds, Snapshot
  <1>5. b \in SelfOperated
    BY <1>1 DEF Coherent, JobsAgree
  <1>6. JobsAgree(b)'
    BY <1>1, <1>2, <1>4, <1>5 DEF Coherent, JobsAgree, StatusKinds, BatchKinds
  <1>7. ResultsAgree(b)'
    BY <1>1, <1>2, <1>4 DEF Coherent, ResultsAgree, data, BatchKinds
  <1>8. ChecksAgree(b)'
    BY <1>1, <1>2, <1>4 DEF Coherent, ChecksAgree, data, BatchKinds
  <1> QED
    BY <1>1, <1>2, <1>3, <1>6, <1>7, <1>8, StepOnOne DEF Coherent, Frozen, data

LEMMA FailStep ==
    ASSUME TypeOK, \A c \in Batches : Coherent(c), NEW w \in Workers, Fail(w)
    PROVE  GoodStep
  <1>a. PICK b \in Batches, k \in Kinds : b = worker[w].b /\ k = worker[w].k
    BY WorkerFields DEF TypeOK
  <1>0. UNCHANGED data
    BY DEF Fail
  <1>1. CASE ~Owns(w)
    BY <1>0, <1>1, AllSame DEF Fail, Same, data
  <1>2. CASE Owns(w)
    <2>1. /\ b \in Batches /\ k \in Kinds /\ job[b][k].status = "running"
          /\ job[b][k] \in JobRecord
      BY <1>a, <1>2, OwnedJob DEF MyJob
    <2>2. Ended(job[b][k], "failed").status = "failed"
      BY <2>1 DEF Ended, JobRecord
    <2>3. job' = [job EXCEPT ![b][k] = Ended(job[b][k], "failed")]
      BY <1>a, <1>2 DEF Fail
    <2>4. /\ job'[b][k].status = "failed" /\ \A kk \in Kinds \ {k} : job'[b][kk] = job[b][kk]
          /\ \A c \in Batches \ {b} : job'[c] = job[c]
      BY <2>1, <2>2, <2>3 DEF TypeOK
    <2>5. /\ batch'[b] = IF k \in StatusKinds THEN "failed" ELSE batch[b]
          /\ \A c \in Batches \ {b} : batch'[c] = batch[c]
      BY <1>a, <1>2, <2>1 DEF Fail, TypeOK
    <2>6. \A c \in Batches \ {b} : Same(c)
      BY <1>0, <2>4, <2>5 DEF Same, data
    <2>7. \A kk \in Kinds : IsActive(job'[b][kk]) => IsActive(job[b][kk])
      BY <2>4 DEF IsActive, ActiveStatus
    <2>8. k \in StatusKinds => batch[b] = "running"
      BY <2>1 DEF Coherent, JobsAgree, ActiveStatus
    <2>9. JobsAgree(b)'
      <3>1. CASE k \in StatusKinds
        BY <2>1, <2>4, <2>5, <2>7, <2>8, <3>1, KindNames
           DEF Coherent, JobsAgree, IsActive, ActiveStatus, StatusKinds
      <3>2. CASE k \notin StatusKinds
        BY <2>1, <2>4, <2>5, <2>7, <3>2, KindNames
           DEF Coherent, JobsAgree, IsActive, ActiveStatus, StatusKinds
      <3> QED
        BY <3>1, <3>2
    <2>10. ResultsAgree(b)'
      BY <1>0, <2>1, <2>4, <2>5, <2>8, KindNames DEF Coherent, ResultsAgree, data
    <2>11. ChecksAgree(b)'
      BY <1>0, <2>1, <2>5, <2>7, <2>8, KindNames DEF Coherent, ChecksAgree, data
    <2> QED
      BY <1>0, <2>1, <2>6, <2>9, <2>10, <2>11, StepOnOne DEF Coherent, Frozen, data
  <1> QED
    BY <1>1, <1>2

\* Recovery gives any number of batches new statuses at once.
LEMMA RecoverStep ==
    ASSUME TypeOK, \A c \in Batches : Coherent(c), NEW w \in Workers, NEW locked,
           RecoverExcept(w, locked), UNCHANGED data
    PROVE  GoodStep
  <1> SUFFICES ASSUME NEW b \in Batches PROVE Coherent(b)' /\ Frozen(b)
    BY DEF GoodStep
  <1> DEFINE taken(k) == /\ k \in QueueKinds(Queue[w]) /\ IsAbandoned(job[b][k])
                         /\ <<b, k>> \notin locked
             new(k) == Recovered(job[b][k], MaxAttempts)
             after(s) == \E k \in StatusKinds : taken(k) /\ new(k).status = s
  <1>1. \A k \in Kinds : job'[b][k] = IF taken(k) THEN new(k) ELSE job[b][k]
    BY DEF RecoverExcept
  <1>2. batch'[b] = IF after("failed") THEN "failed"
                    ELSE IF after("queued") THEN "queued" ELSE batch[b]
    BY DEF RecoverExcept
  <1>3. \A k \in Kinds : taken(k) => /\ job[b][k].status = "running"
                                     /\ new(k).status \in {"queued", "failed"}
    BY DEF IsAbandoned, Recovered, TypeOK, JobRecord
  <1> HIDE DEF taken, new
  <1>4. \A k \in Kinds : /\ IsActive(job'[b][k]) => IsActive(job[b][k])
                         /\ job'[b][k].status = "succeeded" => job[b][k].status = "succeeded"
    BY <1>1, <1>3 DEF IsActive, ActiveStatus
  <1>5. (\E k \in StatusKinds : taken(k)) => batch[b] = "running"
    BY <1>3 DEF Coherent, JobsAgree, ActiveStatus, StatusKinds, Kinds, BatchKinds
  <1>6. JobsAgree(b)'
    <2>1. CASE taken("prepare")
      BY <1>1, <1>2, <1>3, <1>4, <1>5, <2>1, KindNames
         DEF Coherent, JobsAgree, IsActive, ActiveStatus, StatusKinds
    <2>2. CASE taken("compute")
      BY <1>1, <1>2, <1>3, <1>4, <1>5, <2>2, KindNames
         DEF Coherent, JobsAgree, IsActive, ActiveStatus, StatusKinds
    <2>3. CASE ~taken("prepare") /\ ~taken("compute")
      BY <1>1, <1>2, <1>3, <1>4, <2>3, KindNames
         DEF Coherent, JobsAgree, IsActive, ActiveStatus, StatusKinds
    <2> QED
      BY <2>1, <2>2, <2>3
  <1>7. ResultsAgree(b)'
    BY <1>2, <1>4, <1>5, KindNames DEF Coherent, ResultsAgree, data
  <1>8. ChecksAgree(b)'
    BY <1>2, <1>4, <1>5, KindNames DEF Coherent, ChecksAgree, data
  <1> QED
    BY <1>6, <1>7, <1>8 DEF Coherent, Frozen, data

LEMMA GoodSteps ==
    ASSUME TypeOK, \A c \in Batches : Coherent(c), OwnerReadsCurrent, [Next]_vars
    PROVE  GoodStep
  <1>1. CASE WorkerStep
    BY <1>1, ClaimStep, QuietSteps, PublishPrepareStep, PublishComputeStep,
       PublishExportStep, PublishSnapshotStep, FailStep, RecoverStep
       DEF WorkerStep, Publish, Restart, Recover
  <1>2. CASE UNCHANGED vars
    BY <1>2, AllSame DEF Same, vars
  <1> QED
    BY <1>1, <1>2, RequestSteps, AgingStep DEF Next

-------------------------------------------------------------------------------
(* What a worker has read. *)

KeepsReading(w) ==
    /\ worker[w].pc \in {"working", "final"}
    /\ worker'[w].b = worker[w].b /\ worker'[w].k = worker[w].k
    /\ worker'[w].token = worker[w].token
    /\ worker'[w].inputs = worker[w].inputs /\ worker'[w].content = worker[w].content

\* Every step of a worker that has read its inputs keeps them, and reading takes
\* what is there.
LEMMA WorkerReads ==
    ASSUME TypeOK, [Next]_vars, NEW w \in Workers, worker'[w].pc \in {"working", "final"}
    PROVE  ReadInputs(w) \/ KeepsReading(w)
  <1>0. worker[w] \in WorkerRecord
    BY DEF TypeOK
  <1>1. CASE worker'[w] = worker[w]
    BY <1>1 DEF KeepsReading
  <1>2. CASE RequestStep
    <2>1. worker' = worker
      BY <1>2 DEF RequestStep, AppendFile, DeleteFile, ReorderFiles, RefreshSupplier,
           DeleteBatch, StartPrepare, ChooseSite, RefreshHistory, PreflightRead,
           PreflightDecide, StartCompute, SaveAllowance, SaveOffline, Transfer,
           SaveSplit, StartExport, LoadSnapshot
    <2> QED
      BY <1>1, <2>1
  <1>3. ASSUME NEW v \in Workers, Released(v) PROVE worker'[w] = worker[w]
    BY <1>3 DEF Released, TypeOK, Idle
  <1>4. ASSUME NEW v \in Workers, NEW b \in Batches, NEW k \in Kinds, Claim(v, b, k)
        PROVE  worker'[w] = worker[w]
    <2> DEFINE x == [Idle EXCEPT !.pc = "claimed", !.b = b, !.k = k,
                                 !.token = claims + 1, !.keeper = "beating"]
    <2>1. x.pc = "claimed"
      BY IdleType DEF WorkerRecord
    <2>2. worker' = [worker EXCEPT ![v] = x]
      BY <1>4 DEF Claim
    <2> HIDE DEF x
    <2> QED
      BY <2>1, <2>2 DEF TypeOK
  <1>5. ASSUME NEW v \in Workers, Raise(v) \/ PublishRefused(v) \/ Crash(v)
        PROVE  worker'[w] = worker[w]
    <2>1. PICK x : worker' = [worker EXCEPT ![v] = x] /\ x.pc \in {"raised", "down"}
      <3>1. CASE Raise(v)
        <4>1. worker' = [worker EXCEPT ![v] = [worker[v] EXCEPT !.pc = "raised", !.keeper = "off"]]
          BY <3>1 DEF Raise, TypeOK
        <4>2. [worker[v] EXCEPT !.pc = "raised", !.keeper = "off"].pc = "raised"
          BY DEF TypeOK, WorkerRecord
        <4> QED
          BY <4>1, <4>2
      <3>2. CASE PublishRefused(v)
        <4>1. worker' = [worker EXCEPT ![v] = [worker[v] EXCEPT !.pc = "raised"]]
          BY <3>2 DEF PublishRefused, TypeOK
        <4>2. [worker[v] EXCEPT !.pc = "raised"].pc = "raised"
          BY DEF TypeOK, WorkerRecord
        <4> QED
          BY <4>1, <4>2
      <3>3. CASE Crash(v)
        <4>1. worker' = [worker EXCEPT ![v] = [Idle EXCEPT !.pc = "down"]]
          BY <3>3 DEF Crash
        <4>2. [Idle EXCEPT !.pc = "down"].pc = "down"
          BY IdleType DEF WorkerRecord
        <4> QED
          BY <4>1, <4>2
      <3> QED
        BY <1>5, <3>1, <3>2, <3>3
    <2> QED
      BY <2>1 DEF TypeOK
  <1>6. ASSUME NEW v \in Workers, ReadInputs(v) PROVE ReadInputs(w) \/ worker'[w] = worker[w]
    BY <1>6 DEF ReadInputs, TypeOK
  <1>7. ASSUME NEW v \in Workers, KeeperFails(v) \/ StopKeeper(v)
        PROVE  worker'[w] = worker[w] \/ KeepsReading(w)
    <2>1. CASE v # w
      BY <1>7, <2>1 DEF KeeperFails, StopKeeper, TypeOK
    <2>2. CASE v = w /\ KeeperFails(v)
      <3>1. worker'[w] = [worker[w] EXCEPT !.keeper = "failed"]
        BY <2>2 DEF KeeperFails, TypeOK
      <3> QED
        BY <1>0, <3>1 DEF WorkerRecord, KeepsReading
    <2>3. CASE v = w /\ StopKeeper(v)
      <3> DEFINE p == IF worker[w].keeper = "failed" THEN "raised" ELSE "final"
      <3>1. worker'[w] = [worker[w] EXCEPT !.pc = p, !.keeper = "off"]
        BY <2>3 DEF StopKeeper, TypeOK
      <3>2. worker[w].pc = "working"
        BY <2>3 DEF StopKeeper
      <3> HIDE DEF p
      <3> QED
        BY <1>0, <3>1, <3>2 DEF WorkerRecord, KeepsReading
    <2> QED
      BY <1>7, <2>1, <2>2, <2>3
  <1>8. ASSUME NEW v \in Workers, Publish(v) \/ Fail(v) \/ Restart(v)
        PROVE  worker'[w] = worker[w]
    BY <1>3, <1>8 DEF Publish, PublishPrepare, PublishCompute, PublishExport,
                      PublishSnapshot, Fail, Restart
  <1>9. ASSUME NEW v \in Workers, Heartbeat(v) \/ Recover(v) PROVE worker'[w] = worker[w]
    BY <1>9 DEF Heartbeat, Recover
  <1>10. CASE WorkerStep
    BY <1>1, <1>4, <1>5, <1>6, <1>7, <1>8, <1>9, <1>10 DEF WorkerStep
  <1>11. CASE UNCHANGED vars \/ \E b \in Batches, k \in Kinds : MarkerAges(b, k)
    BY <1>1, <1>11 DEF vars, MarkerAges
  <1> QED
    BY <1>2, <1>10, <1>11 DEF Next

\* A claim is only lost: a worker that holds one after a step held it before.
LEMMA OwnedBefore ==
    ASSUME TypeOK, TokenInv, RowsStep, NEW w \in Workers, KeepsReading(w), Owns(w)'
    PROVE  Owns(w)
  <1>1. PICK b \in Batches, k \in Kinds : b = worker[w].b /\ k = worker[w].k
    BY WorkerFields DEF TypeOK
  <1>2. job'[b][k].status = "running" /\ job'[b][k].token = worker[w].token
    BY <1>1 DEF Owns, MyJob, KeepsReading
  <1>3. /\ worker[w].token \in Nat /\ claims \in Nat /\ worker[w].token <= claims
    BY WorkerFields DEF TypeOK, TokenInv
  <1> DEFINE r == job[b][k]  r1 == job'[b][k]
  <1>4. r \in JobRecord /\ RowStep(r, r1)
    BY DEF TypeOK, RowsStep
  <1> HIDE DEF r, r1
  <1>5. r.status = "running" /\ r.token = r1.token
    <2>0. r1.status = "running" /\ r1.token = worker[w].token
      BY <1>2 DEF r1
    <2>1. r1 # Claimed(r, claims + 1)
      BY <1>3, <2>0 DEF Claimed
    <2>2. r1 # Recovered(r, MaxAttempts)
      BY <1>4, <2>0 DEF Recovered, JobRecord
    <2>3. ~IsOver(r, r1) /\ ~IsQueued(r1)
      BY <2>0 DEF IsOver, IsQueued, IsActive, ActiveStatus
    <2>4. r1 \in {r, [r EXCEPT !.marker = "fresh"], [r EXCEPT !.marker = "old"]}
      BY <1>4, <2>1, <2>2, <2>3 DEF RowStep
    <2> QED
      BY <1>4, <2>0, <2>4 DEF JobRecord
  <1> QED
    BY <1>1, <1>2, <1>5 DEF Owns, MyJob, KeepsReading, r, r1

LEMMA ReadsStep ==
    ASSUME TypeOK, TypeOK', TokenInv, RowsStep, OwnerReadsCurrent,
           \A b \in Batches : Frozen(b), [Next]_vars
    PROVE  OwnerReadsCurrent'
  <1> SUFFICES ASSUME NEW w \in Workers, Owns(w)', worker'[w].pc \in {"working", "final"}
               PROVE  LET b == worker'[w].b  k == worker'[w].k IN
                        /\ k # Snapshot => worker'[w].inputs = inputs'[b]
                        /\ k = "export" => worker'[w].content = content'[b]
                        /\ worker'[w].inputs.files = inputs'[b].files
    BY DEF OwnerReadsCurrent
  <1>1. CASE ReadInputs(w)
    <2>1. /\ worker'[w].inputs = inputs[worker[w].b] /\ worker'[w].b = worker[w].b
          /\ worker'[w].content = content[worker[w].b]
      BY <1>1 DEF ReadInputs, TypeOK, WorkerRecord
    <2>2. inputs' = inputs /\ content' = content
      BY <1>1 DEF ReadInputs, data
    <2> QED
      BY <2>1, <2>2
  <1>2. CASE KeepsReading(w)
    <2>1. Owns(w) /\ worker[w].pc \in {"working", "final"}
      BY <1>2, OwnedBefore DEF KeepsReading
    <2>2. PICK b \in Batches, k \in Kinds :
             b = worker[w].b /\ k = worker[w].k /\ IsActive(job[b][k])
      BY <2>1, OwnedJob
    <2>3. /\ k # Snapshot => worker[w].inputs = inputs[b]
          /\ k = "export" => worker[w].content = content[b]
          /\ worker[w].inputs.files = inputs[b].files
      BY <2>1, <2>2 DEF OwnerReadsCurrent
    <2>4. /\ inputs'[b].files = inputs[b].files
          /\ k # Snapshot => inputs'[b] = inputs[b]
          /\ k = "export" => content'[b] = content[b]
      BY <2>2 DEF Frozen, Kinds
    <2> QED
      BY <1>2, <2>2, <2>3, <2>4 DEF KeepsReading
  <1> QED
    BY <1>1, <1>2, WorkerReads

-------------------------------------------------------------------------------
(* The theorems. *)

BatchInv ==
    /\ \A b \in Batches : Coherent(b)
    /\ OwnerReadsCurrent
    /\ TokenInv

LEMMA InitBatchInv == Init => BatchInv
  <1> SUFFICES ASSUME Init PROVE BatchInv
    OBVIOUS
  <1>1. TokenInv
    BY IdleType DEF Init, TokenInv, NoJob, Idle, NoToken
  <1>2. OwnerReadsCurrent
    BY DEF Init, OwnerReadsCurrent, Idle
  <1>3. ASSUME NEW b \in Batches PROVE Coherent(b)
    <2>1. /\ \A k \in Kinds : job[b][k].status = "none"
          /\ batch[b] \in {"draft", "gone"} /\ zip[b] = NoZip /\ content[b] = 1
      BY DEF Init, NoJob
    <2>2. JobsAgree(b)
      BY <2>1, KindNames DEF JobsAgree, IsActive, ActiveStatus, StatusKinds
    <2>3. ResultsAgree(b)
      BY <2>1, KindNames DEF ResultsAgree, NoZip
    <2>4. ChecksAgree(b)
      BY <2>1, KindNames DEF ChecksAgree, IsActive, ActiveStatus
    <2> QED
      BY <2>2, <2>3, <2>4 DEF Coherent
  <1> QED
    BY <1>1, <1>2, <1>3 DEF BatchInv

LEMMA StepBatchInv ==
    ASSUME TypeOK, BatchInv, [Next]_vars
    PROVE  BatchInv'
  <1>1. TypeOK' /\ RowsStep /\ TokenInv'
    BY TypeStep, RowSteps, WorkerTokens, TokenStep DEF BatchInv
  <1>2. GoodStep
    BY GoodSteps DEF BatchInv
  <1>3. OwnerReadsCurrent'
    BY <1>1, <1>2, ReadsStep DEF BatchInv, GoodStep
  <1> QED
    BY <1>1, <1>2, <1>3 DEF BatchInv, GoodStep

\* The inductive invariant: Coherent needs OwnerReadsCurrent where results are
\* saved, OwnerReadsCurrent needs Frozen, which needs Coherent, and TokenInv.
LEMMA BatchInvariant == Spec => []BatchInv
  BY InitBatchInv, StepBatchInv, TypeCorrect, PTL DEF Spec

\* A batch is shown as queued or running exactly while its prepare or compute job
\* is, whatever its workers, their crashes and their recoveries do.
THEOREM StatusTellsTheTruth == Spec => []BatchMatchesJobs
  <1>1. BatchInv => BatchMatchesJobs
    BY DEF BatchInv, Coherent, JobsAgree, BatchMatchesJobs
  <1> QED
    BY <1>1, BatchInvariant, PTL

\* An export is queued or running only for a computed batch.
THEOREM ExportsOfComputed == Spec => []ExportNeedsResults
  <1>1. BatchInv => ExportNeedsResults
    BY DEF BatchInv, Coherent, JobsAgree, ExportNeedsResults
  <1> QED
    BY <1>1, BatchInvariant, PTL

\* A worker that still holds its claim works on what the batch holds now.
THEOREM OwnersReadTheBatch == Spec => []OwnerReadsCurrent
  <1>1. BatchInv => OwnerReadsCurrent
    BY DEF BatchInv
  <1> QED
    BY <1>1, BatchInvariant, PTL

\* The rows of a computed batch come from its present inputs: the worker that
\* stored them held its claim, so no request had changed what it read.
THEOREM ResultsAreCurrent == Spec => []ResultsOfCurrentInputs
  <1>1. BatchInv => ResultsOfCurrentInputs
    BY DEF BatchInv, Coherent, ResultsAgree, ResultsOfCurrentInputs
  <1> QED
    BY <1>1, BatchInvariant, PTL

\* A download shows the present content of a computed batch, and a succeeded
\* export has one.
THEOREM ExportsAreCurrent == Spec => []ExportOfCurrentContent
  <1>1. BatchInv => ExportOfCurrentContent
    BY DEF BatchInv, Coherent, ResultsAgree, ExportOfCurrentContent
  <1> QED
    BY <1>1, BatchInvariant, PTL

\* Nothing is computed without receipts in order, or without a preflight of the
\* present inputs.
THEOREM ComputeIsChecked == Spec => []ComputedAfterCheck
  <1>1. BatchInv => ComputedAfterCheck
    <2> SUFFICES ASSUME BatchInv, NEW b \in Batches,
                        batch[b] = "succeeded" \/ IsActive(job[b]["compute"])
                 PROVE  IF b \in SelfOperated THEN receipts[b] = "ready"
                                              ELSE checked[b].passed = inputs[b]
      BY DEF ComputedAfterCheck
    <2>1. IsActive(job[b]["compute"]) => batch[b] \in ActiveStatus
      BY DEF BatchInv, Coherent, JobsAgree, IsActive, ActiveStatus, StatusKinds
    <2> QED
      BY <2>1 DEF BatchInv, Coherent, ChecksAgree, ActiveStatus
  <1> QED
    BY <1>1, BatchInvariant, PTL

\* A worker's step, a recovery and the passing of time leave a computed batch as
\* it is: no prepare or compute job of it is active.
LEMMA WorkersKeepResults ==
    ASSUME TypeOK, \A c \in Batches : Coherent(c), NEW b \in Batches, batch[b] = "succeeded",
           WorkerStep
    PROVE  batch'[b] = "succeeded"
  <1>0. /\ job[b]["prepare"].status \notin ActiveStatus
        /\ job[b]["compute"].status \notin ActiveStatus
    BY DEF Coherent, JobsAgree, IsActive, ActiveStatus, StatusKinds
  <1> PICK w \in Workers :
        \/ \E c \in Batches, k \in Kinds : Claim(w, c, k)
        \/ Heartbeat(w) \/ KeeperFails(w)
        \/ ReadInputs(w) \/ Raise(w) \/ StopKeeper(w)
        \/ Publish(w) \/ PublishRefused(w) \/ Fail(w)
        \/ Crash(w) \/ Restart(w) \/ Recover(w)
    BY DEF WorkerStep
  <1>1. ASSUME NEW c \in Batches, NEW k \in Kinds, Claim(w, c, k) PROVE batch'[b] = batch[b]
    BY <1>0, <1>1 DEF Claim, StatusKinds, ActiveStatus, TypeOK
  <1>2. CASE Heartbeat(w) \/ KeeperFails(w) \/ ReadInputs(w) \/ Raise(w) \/ StopKeeper(w)
             \/ PublishRefused(w) \/ Crash(w) \/ PublishExport(w) \/ PublishSnapshot(w)
    BY <1>2 DEF Heartbeat, KeeperFails, ReadInputs, Raise, StopKeeper, PublishRefused, Crash,
                PublishExport, PublishSnapshot
  <1>3. CASE PublishPrepare(w)
    <2>1. worker[w].b # b
      BY <1>0, <1>3 DEF PublishPrepare, MayPublish, Owns, MyJob, ActiveStatus
    <2> QED
      BY <1>3, <2>1 DEF PublishPrepare, TypeOK
  <1>4. CASE PublishCompute(w)
    BY <1>4 DEF PublishCompute, TypeOK
  <1>5. CASE Fail(w)
    <2>1. Owns(w) /\ worker[w].k \in StatusKinds => worker[w].b # b
      BY <1>0 DEF Owns, MyJob, ActiveStatus, StatusKinds
    <2> QED
      BY <1>5, <2>1 DEF Fail, TypeOK
  <1>6. ASSUME NEW locked, RecoverExcept(w, locked) PROVE batch'[b] = batch[b]
    <2>1. \A k \in StatusKinds : ~IsAbandoned(job[b][k])
      BY <1>0 DEF IsAbandoned, StatusKinds, ActiveStatus
    <2> QED
      BY <1>6, <2>1 DEF RecoverExcept
  <1>7. CASE Restart(w) \/ Recover(w)
    BY <1>6, <1>7 DEF Restart, Recover
  <1> QED
    BY <1>1, <1>2, <1>3, <1>4, <1>5, <1>7 DEF Publish

\* No worker's step, failure or recovery takes a batch out of "succeeded".
THEOREM RequestsReopen == Spec => OnlyRequestsReopen
  <1>1. ASSUME TypeOK, BatchInv, [Next]_vars, NEW b \in Batches,
               batch[b] = "succeeded", batch'[b] # "succeeded"
        PROVE  requests' # requests
    <2>1. ~WorkerStep
      BY <1>1, WorkersKeepResults DEF BatchInv
    <2>2. batch' # batch
      BY <1>1
    <2>3. CASE RequestStep
      <3>1. \A c \in Batches : PreflightDecide(c) => batch'[b] = batch[b]
        BY <1>1 DEF PreflightDecide, TypeOK
      <3>2. requests' = requests + 1
        BY <1>1, <2>3, <3>1 DEF RequestStep, AppendFile, DeleteFile, ReorderFiles,
           RefreshSupplier, DeleteBatch, StartPrepare, ChooseSite, RefreshHistory,
           PreflightRead, StartCompute, SaveAllowance, SaveOffline, Transfer,
           SaveSplit, StartExport, LoadSnapshot, Request
      <3> QED
        BY <1>1, <3>2 DEF TypeOK
    <2> QED
      BY <1>1, <2>1, <2>2, <2>3 DEF Next, MarkerAges, vars
  <1>2. TypeOK /\ BatchInv /\ [Next]_vars =>
           [\A b \in Batches : batch[b] = "succeeded" /\ batch'[b] # "succeeded"
                                  => requests' # requests]_vars
    BY <1>1
  <1> QED
    BY <1>2, BatchInvariant, TypeCorrect, PTL DEF Spec, OnlyRequestsReopen
===============================================================================

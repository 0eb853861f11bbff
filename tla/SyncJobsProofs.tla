---------------------------- MODULE SyncJobsProofs ----------------------------
(***************************************************************************)
(* Proofs about SyncJobs, for any numbers of syncs, uploads, workers and    *)
(* administrators and any bounds.                                           *)
(***************************************************************************)
EXTENDS SyncJobs, TLAPS, FiniteSetTheorems

-------------------------------------------------------------------------------
(* Types. *)

LEMMA TimesFacts == 1 \in Times /\ Times \subseteq Nat
  BY SyncBoundsAssumption DEF Times

LEMMA RowTypes ==
    \A r \in SyncRecord :
        /\ \A o \in EndedSync : EndedRow(r, o) \in SyncRecord
        /\ RecoverRow(r) \in SyncRecord
        /\ [r EXCEPT !.marker = "fresh"] \in SyncRecord
        /\ [r EXCEPT !.marker = "old"] \in SyncRecord
        /\ [r EXCEPT !.status = "queued", !.slot = TRUE] \in SyncRecord
        /\ \A t \in Nat : [r EXCEPT !.status = "running", !.attempts = @ + 1,
                                    !.token = t, !.marker = "fresh"] \in SyncRecord
  <1> SUFFICES ASSUME NEW r \in SyncRecord
               PROVE  /\ \A o \in EndedSync : EndedRow(r, o) \in SyncRecord
                      /\ RecoverRow(r) \in SyncRecord
                      /\ [r EXCEPT !.marker = "fresh"] \in SyncRecord
                      /\ [r EXCEPT !.marker = "old"] \in SyncRecord
                      /\ [r EXCEPT !.status = "queued", !.slot = TRUE] \in SyncRecord
                      /\ \A t \in Nat : [r EXCEPT !.status = "running", !.attempts = @ + 1,
                                                  !.token = t, !.marker = "fresh"] \in SyncRecord
    OBVIOUS
  <1> USE DEF SyncRecord, EndedSync, ActiveStatus
  <1>1. \A o \in EndedSync : EndedRow(r, o) \in SyncRecord
    BY DEF EndedRow, Ended, NoToken
  <1>2. RecoverRow(r) \in SyncRecord
    <2>1. CASE r.attempts >= MaxAttempts
      BY <1>1, <2>1 DEF RecoverRow
    <2>2. CASE ~(r.attempts >= MaxAttempts)
      <3>1. RecoverRow(r) = [r EXCEPT !.status = "queued", !.token = NoToken,
                                      !.marker = "unset"]
        BY <2>2 DEF RecoverRow, Recovered
      <3>2. NoToken \in Nat
        BY DEF NoToken
      <3>3. [r EXCEPT !.status = "queued", !.token = NoToken, !.marker = "unset"] \in SyncRecord
        BY <3>2
      <3> QED
        BY <3>1, <3>3
    <2> QED
      BY <2>1, <2>2
  <1>3. /\ [r EXCEPT !.marker = "fresh"] \in SyncRecord
        /\ [r EXCEPT !.marker = "old"] \in SyncRecord
        /\ [r EXCEPT !.status = "queued", !.slot = TRUE] \in SyncRecord
    OBVIOUS
  <1>4. \A t \in Nat : [r EXCEPT !.status = "running", !.attempts = @ + 1,
                                 !.token = t, !.marker = "fresh"] \in SyncRecord
    <2> TAKE t \in Nat
    <2>1. r.attempts + 1 \in Nat
      OBVIOUS
    <2>2. \A n \in Nat : [r EXCEPT !.status = "running", !.attempts = n,
                                   !.token = t, !.marker = "fresh"] \in SyncRecord
      OBVIOUS
    <2> QED
      BY <2>1, <2>2
  <1> QED
    BY <1>1, <1>2, <1>3, <1>4

LEMMA WorkerTypes ==
    /\ NoWork \in SyncWorker
    /\ [NoWork EXCEPT !.pc = "down"] \in SyncWorker
    /\ \A s \in Syncs, t \in Nat :
          [NoWork EXCEPT !.pc = "claimed", !.s = s, !.token = t, !.keeper = "beating"] \in SyncWorker
  BY TimesFacts DEF NoWork, SyncWorker, NoToken

LEMMA RequestTypes ==
    \A r \in VersionRequest : r.v \in Versions /\ NoRequest(r.v) \in VersionRequest
  BY DEF VersionRequest, NoRequest

LEMMA TypeInit == Init => TypeOK
  <1> SUFFICES ASSUME Init PROVE TypeOK
    OBVIOUS
  <1>1. sync \in [Syncs -> SyncRecord]
    BY DEF Init, SyncRecord, ActiveStatus, NoToken
  <1>2. worker \in [Workers -> SyncWorker]
    BY WorkerTypes DEF Init
  <1>3. admin \in [Admins -> VersionRequest]
    BY DEF Init, NoRequest, VersionRequest
  <1> QED
    BY <1>1, <1>2, <1>3, TimesFacts DEF Init, TypeOK, NoFile

\* The types of the parts that a step of a worker or of a row touches.
LEMMA TypeRows ==
    ASSUME TypeOK,
           \/ \E s \in Syncs : StartSync(s) \/ MarkerAges(s)
           \/ \E w \in Workers : \/ \E s \in Syncs : Claim(w, s) \/ Recover(w, s)
                                 \/ Heartbeat(w) \/ Block(w) \/ Fail(w) \/ Restart(w)
    PROVE  TypeOK'
  <1> USE DEF TypeOK, requests, files
  <1>1. ASSUME NEW s \in Syncs, StartSync(s) PROVE TypeOK'
    BY <1>1, RowTypes DEF StartSync
  <1>2. ASSUME NEW s \in Syncs, MarkerAges(s) PROVE TypeOK'
    BY <1>2, RowTypes DEF MarkerAges
  <1>3. ASSUME NEW w \in Workers, NEW s \in Syncs, Claim(w, s) PROVE TypeOK'
    <2>0. claims' = claims + 1
      BY <1>3 DEF Claim
    <2>1. claims' \in Nat
      BY <2>0
    <2>2. sync' \in [Syncs -> SyncRecord]
      BY <1>3, <2>1, RowTypes DEF Claim
    <2>3. worker' \in [Workers -> SyncWorker]
      BY <1>3, <2>1, WorkerTypes DEF Claim
    <2> QED
      BY <1>3, <2>1, <2>2, <2>3 DEF Claim
  <1>4. ASSUME NEW w \in Workers, NEW s \in Syncs, Recover(w, s) PROVE TypeOK'
    BY <1>4, RowTypes DEF Recover
  <1>5. ASSUME NEW w \in Workers, Heartbeat(w) PROVE TypeOK'
    BY <1>5, RowTypes DEF Heartbeat, Owns
  <1>6. ASSUME NEW w \in Workers, Block(w) PROVE TypeOK'
    <2>1. [worker[w] EXCEPT !.pc = "raised"] \in SyncWorker
      BY DEF SyncWorker
    <2>2. worker' \in [Workers -> SyncWorker]
      BY <1>6, <2>1, WorkerTypes DEF Block
    <2>3. sync' \in [Syncs -> SyncRecord]
      <3>1. \A s \in Syncs : EndedRow(sync[s], "blocked") \in SyncRecord
        BY RowTypes DEF EndedSync
      <3> QED
        BY <1>6, <3>1, SMTT(20) DEF Block, Owns
    <2> QED
      BY <1>6, <2>2, <2>3 DEF Block
  <1>7. ASSUME NEW w \in Workers, Fail(w) PROVE TypeOK'
    <2>1. sync' \in [Syncs -> SyncRecord]
      <3>1. \A s \in Syncs : EndedRow(sync[s], "failed") \in SyncRecord
        BY RowTypes DEF EndedSync
      <3> QED
        BY <1>7, <3>1 DEF Fail, Owns
    <2> QED
      BY <1>7, <2>1, WorkerTypes DEF Fail
  <1>8. ASSUME NEW w \in Workers, Restart(w) PROVE TypeOK'
    <2>1. sync' \in [Syncs -> SyncRecord]
      <3>1. \A s \in Syncs : RecoverRow(sync[s]) \in SyncRecord
        BY RowTypes
      <3> QED
        BY <1>8, <3>1 DEF Restart
    <2> QED
      BY <1>8, <2>1, WorkerTypes DEF Restart
  <1> QED
    BY <1>1, <1>2, <1>3, <1>4, <1>5, <1>6, <1>7, <1>8

LEMMA TypeFiles ==
    ASSUME TypeOK,
           \E w \in Workers : \/ KeeperFails(w) \/ Raise(w) \/ Find(w) \/ WriteCandidate(w)
                              \/ StopKeeper(w) \/ Publish(w) \/ PublishFails(w)
                              \/ CheckReference(w) \/ Unlink(w) \/ Crash(w)
    PROVE  TypeOK'
  <1> USE DEF TypeOK, requests, files
  <1> PICK w \in Workers : \/ KeeperFails(w) \/ Raise(w) \/ Find(w) \/ WriteCandidate(w)
                           \/ StopKeeper(w) \/ Publish(w) \/ PublishFails(w)
                           \/ CheckReference(w) \/ Unlink(w) \/ Crash(w)
    OBVIOUS
  <1>0. /\ worker[w] \in SyncWorker
        /\ \A pc \in {"findings", "block", "publish", "discard", "unlink", "raised"} :
              /\ [worker[w] EXCEPT !.pc = pc] \in SyncWorker
              /\ [worker[w] EXCEPT !.pc = pc, !.keeper = "off"] \in SyncWorker
        /\ [worker[w] EXCEPT !.keeper = "failed"] \in SyncWorker
        /\ [worker[w] EXCEPT !.pc = "written", !.time = clock] \in SyncWorker
    BY DEF SyncWorker
  <1>1. CASE KeeperFails(w)
    BY <1>0, <1>1 DEF KeeperFails
  <1>2. CASE Raise(w)
    BY <1>0, <1>2 DEF Raise
  <1>3. CASE Find(w)
    BY <1>0, <1>3 DEF Find
  <1>4. CASE WriteCandidate(w)
    <2>1. worker' \in [Workers -> SyncWorker]
      BY <1>0, <1>4 DEF WriteCandidate
    <2>2. worker[w].token \in Nat
      BY <1>0 DEF SyncWorker
    <2>3. disk' \in [Syncs -> [Times -> Nat]]
      BY <1>4, <2>2 DEF WriteCandidate
    <2>4. writers' \in [Syncs -> [Times -> SUBSET Nat]]
      BY <1>4, <2>2 DEF WriteCandidate
    <2> QED
      BY <1>4, <2>1, <2>3, <2>4 DEF WriteCandidate
  <1>5. CASE StopKeeper(w)
    <2>1. \E pc \in {"block", "publish", "discard", "raised"} :
             worker' = [worker EXCEPT ![w].pc = pc, ![w].keeper = "off"]
      BY <1>5 DEF StopKeeper
    <2>2. worker' \in [Workers -> SyncWorker]
      BY <1>0, <2>1, ZenonT(40)
    <2> QED
      BY <1>5, <2>2 DEF StopKeeper
  <1>6. CASE Publish(w)
    <2>1. worker' \in [Workers -> SyncWorker]
      BY <1>0, <1>6, WorkerTypes DEF Publish
    <2>2. worker[w].s \in Syncs /\ worker[w].time \in Times
      BY <1>0, <1>6 DEF Publish, Owns, SyncWorker
    <2>3. sync' \in [Syncs -> SyncRecord]
      BY <1>6, <2>2, RowTypes DEF Publish, EndedSync
    <2>4. version' \in [Versions -> {"absent", "inactive", "active"}]
      BY <1>6, <2>2 DEF Publish, Versions
    <2> QED
      BY <1>6, <2>1, <2>2, <2>3, <2>4 DEF Publish
  <1>7. CASE PublishFails(w)
    BY <1>0, <1>7 DEF PublishFails
  <1>8. CASE CheckReference(w)
    BY <1>0, <1>8 DEF CheckReference
  <1>9. CASE Unlink(w)
    <2>1. disk' \in [Syncs -> [Times -> Nat]]
      BY <1>9 DEF Unlink, NoFile
    <2> QED
      BY <1>0, <1>9, <2>1 DEF Unlink
  <1>10. CASE Crash(w)
    <2>1. crashes' = crashes + 1
      BY <1>10 DEF Crash
    <2>2. worker' \in [Workers -> SyncWorker]
      BY <1>10, WorkerTypes DEF Crash
    <2> QED
      BY <1>10, <2>1, <2>2 DEF Crash
  <1> QED
    BY <1>1, <1>2, <1>3, <1>4, <1>5, <1>6, <1>7, <1>8, <1>9, <1>10

LEMMA TypeVersions ==
    ASSUME TypeOK,
           \/ \E a \in Admins : \/ \E v \in Versions : BeginActivate(a, v) \/ BeginUpload(a, v)
                                \/ Commit(a) \/ Refuse(a)
           \/ \E v \in Versions : UploadInactive(v)
           \/ Tick
    PROVE  TypeOK'
  <1> USE DEF TypeOK, requests, files
  <1>1. ASSUME NEW a \in Admins, NEW v \in Versions, BeginActivate(a, v) PROVE TypeOK'
    BY <1>1 DEF BeginActivate, VersionRequest, Present
  <1>2. ASSUME NEW a \in Admins, NEW v \in Versions, BeginUpload(a, v) PROVE TypeOK'
    BY <1>2 DEF BeginUpload, VersionRequest, Present
  <1>3. ASSUME NEW a \in Admins, Commit(a) PROVE TypeOK'
    BY <1>3, RequestTypes DEF Commit
  <1>4. ASSUME NEW a \in Admins, Refuse(a) PROVE TypeOK'
    BY <1>4, RequestTypes DEF Refuse
  <1>5. ASSUME NEW v \in Versions, UploadInactive(v) PROVE TypeOK'
    BY <1>5 DEF UploadInactive
  <1>6. ASSUME Tick PROVE TypeOK'
    BY <1>6, SyncBoundsAssumption DEF Tick, Times
  <1> QED
    BY <1>1, <1>2, <1>3, <1>4, <1>5, <1>6

LEMMA TypeStep == TypeOK /\ [Next]_vars => TypeOK'
  <1> SUFFICES ASSUME TypeOK, [Next]_vars PROVE TypeOK'
    OBVIOUS
  <1>1. CASE UNCHANGED vars
    BY <1>1 DEF vars, TypeOK
  <1>2. CASE Next
    BY <1>2, TypeRows, TypeFiles, TypeVersions DEF Next
  <1> QED
    BY <1>1, <1>2

\* Every reachable state of the syncs, versions, files and requests is well typed.
THEOREM SyncTypeCorrect == Spec => []TypeOK
  BY TypeInit, TypeStep, PTL DEF Spec

-------------------------------------------------------------------------------
(* The slot. *)

LEMMA RecoverRowFacts ==
    \A r \in SyncRecord :
        IsAbandoned(r) =>
           LET n == RecoverRow(r) IN
           /\ n.status # "succeeded"
           /\ \/ n.slot = r.slot /\ IsActive(n)
              \/ ~n.slot /\ ~IsActive(n)
  <1> SUFFICES ASSUME NEW r \in SyncRecord, IsAbandoned(r)
               PROVE  /\ RecoverRow(r).status # "succeeded"
                      /\ \/ RecoverRow(r).slot = r.slot /\ IsActive(RecoverRow(r))
                         \/ ~RecoverRow(r).slot /\ ~IsActive(RecoverRow(r))
    OBVIOUS
  <1>1. CASE r.attempts >= MaxAttempts
    BY <1>1 DEF RecoverRow, EndedRow, Ended, SyncRecord, IsActive, ActiveStatus
  <1>2. CASE ~(r.attempts >= MaxAttempts)
    <2>1. RecoverRow(r) = [r EXCEPT !.status = "queued", !.token = NoToken, !.marker = "unset"]
      BY <1>2 DEF RecoverRow, Recovered
    <2> QED
      BY <2>1 DEF SyncRecord, IsActive, ActiveStatus
  <1> QED
    BY <1>1, <1>2

LEMMA EndedRowFacts ==
    \A r \in SyncRecord, o \in EndedSync :
        /\ EndedRow(r, o).status = o
        /\ ~EndedRow(r, o).slot
        /\ ~IsActive(EndedRow(r, o))
  BY DEF EndedRow, Ended, SyncRecord, EndedSync, IsActive, ActiveStatus

\* What a step makes of a row: it stays as active as it was, or it ends.
KeptOrEnded(s) ==
    \/ sync'[s].slot = sync[s].slot /\ (IsActive(sync'[s]) <=> IsActive(sync[s]))
    \/ ~sync'[s].slot /\ ~IsActive(sync'[s])

\* ... and it succeeds only if this worker publishes it.
SameSuccess(s) == sync'[s].status = "succeeded" <=> sync[s].status = "succeeded"

LEMMA RowSteps ==
    ASSUME TypeOK,
           \/ \E s \in Syncs : MarkerAges(s)
           \/ \E w \in Workers : \/ \E s \in Syncs : Claim(w, s) \/ Recover(w, s)
                                 \/ Heartbeat(w) \/ Block(w) \/ Fail(w) \/ Restart(w)
    PROVE  \A s \in Syncs : KeptOrEnded(s) /\ SameSuccess(s)
  <1> USE DEF TypeOK, KeptOrEnded, SameSuccess
  <1>0. \A s \in Syncs : sync[s] \in SyncRecord
    OBVIOUS
  <1>1. ASSUME NEW r \in Syncs, MarkerAges(r)
        PROVE  \A s \in Syncs : KeptOrEnded(s) /\ SameSuccess(s)
    BY <1>0, <1>1 DEF MarkerAges, IsActive, SyncRecord
  <1>2. ASSUME NEW w \in Workers, NEW r \in Syncs, Claim(w, r)
        PROVE  \A s \in Syncs : KeptOrEnded(s) /\ SameSuccess(s)
    BY <1>0, <1>2 DEF Claim, IsActive, ActiveStatus, SyncRecord
  <1>3. ASSUME NEW w \in Workers, NEW r \in Syncs, Recover(w, r)
        PROVE  \A s \in Syncs : KeptOrEnded(s) /\ SameSuccess(s)
    <2>1. sync[r].status = "running" /\ IsActive(sync[r])
      BY <1>3 DEF Recover, IsAbandoned, IsActive, ActiveStatus
    <2>2. sync' = [sync EXCEPT ![r] = RecoverRow(sync[r])] /\ IsAbandoned(sync[r])
      BY <1>3 DEF Recover
    <2> QED
      BY <1>0, <2>1, <2>2, RecoverRowFacts
  <1>4. ASSUME NEW w \in Workers, Heartbeat(w)
        PROVE  \A s \in Syncs : KeptOrEnded(s) /\ SameSuccess(s)
    BY <1>0, <1>4 DEF Heartbeat, Owns, IsActive, SyncRecord
  <1>5. ASSUME NEW w \in Workers, Block(w) \/ Fail(w)
        PROVE  \A s \in Syncs : KeptOrEnded(s) /\ SameSuccess(s)
    <2>1. \/ UNCHANGED sync
          \/ /\ Owns(w)
             /\ \E o \in {"blocked", "failed"} :
                   sync' = [sync EXCEPT ![worker[w].s] = EndedRow(sync[worker[w].s], o)]
      BY <1>5 DEF Block, Fail
    <2>2. CASE UNCHANGED sync
      BY <2>2
    <2>3. CASE Owns(w) /\ ~UNCHANGED sync
      <3>1. worker[w].s \in Syncs /\ sync[worker[w].s].status = "running"
        BY <2>3 DEF Owns, MySync
      <3>2. PICK o \in {"blocked", "failed"} :
                   sync' = [sync EXCEPT ![worker[w].s] = EndedRow(sync[worker[w].s], o)]
        BY <2>1, <2>3
      <3>3. o \in EndedSync /\ o # "succeeded"
        BY DEF EndedSync
      <3> QED
        BY <1>0, <3>1, <3>2, <3>3, EndedRowFacts
    <2> QED
      BY <2>1, <2>2, <2>3
  <1>6. ASSUME NEW w \in Workers, Restart(w)
        PROVE  \A s \in Syncs : KeptOrEnded(s) /\ SameSuccess(s)
    <2>1. \A s \in Syncs : IsAbandoned(sync[s]) => IsActive(sync[s]) /\ sync[s].status # "succeeded"
      BY DEF IsAbandoned, IsActive, ActiveStatus
    <2>2. \A s \in Syncs : \/ sync'[s] = sync[s]
                           \/ sync'[s] = RecoverRow(sync[s]) /\ IsAbandoned(sync[s])
      BY <1>6 DEF Restart
    <2> QED
      BY <1>0, <2>1, <2>2, RecoverRowFacts
  <1> QED
    BY <1>1, <1>2, <1>3, <1>4, <1>5, <1>6

\* The parts of a step that start a sync, publish one, or touch no row.
LEMMA StartFacts ==
    ASSUME TypeOK, NEW s \in Syncs, StartSync(s)
    PROVE  /\ sync'[s].slot /\ IsActive(sync'[s]) /\ sync'[s].status # "succeeded"
           /\ sync[s].status # "succeeded"
           /\ \A r \in Syncs \ {s} : sync'[r] = sync[r]
           /\ \A r \in Syncs : ~sync[r].slot
           /\ version' = version /\ admin' = admin
  BY DEF StartSync, TypeOK, SyncRecord, IsActive, ActiveStatus, requests

LEMMA PublishFacts ==
    ASSUME TypeOK, NEW w \in Workers, Publish(w)
    PROVE  /\ worker[w].s \in Syncs
           /\ sync[worker[w].s].status = "running"
           /\ sync'[worker[w].s] = EndedRow(sync[worker[w].s], "succeeded")
           /\ \A r \in Syncs \ {worker[w].s} : sync'[r] = sync[r]
           /\ version' = [version EXCEPT ![worker[w].s] = "inactive"]
           /\ admin' = admin
  BY DEF Publish, TypeOK, Owns, MySync

OtherSyncStep ==
    \/ \E w \in Workers : \/ KeeperFails(w) \/ Raise(w) \/ Find(w) \/ WriteCandidate(w)
                          \/ StopKeeper(w) \/ PublishFails(w) \/ CheckReference(w)
                          \/ Unlink(w) \/ Crash(w)
    \/ \E a \in Admins : \/ \E v \in Versions : BeginActivate(a, v) \/ BeginUpload(a, v)
                         \/ Commit(a) \/ Refuse(a)
    \/ \E v \in Versions : UploadInactive(v)
    \/ Tick
    \/ UNCHANGED vars

LEMMA OtherStepFacts == OtherSyncStep => UNCHANGED sync
  BY DEF OtherSyncStep, KeeperFails, Raise, Find, WriteCandidate, StopKeeper, PublishFails,
         CheckReference, Unlink, Crash, BeginActivate, BeginUpload, Commit, Refuse,
         UploadInactive, Tick, vars

LEMMA StepCases ==
    ASSUME [Next]_vars
    PROVE  \/ \E s \in Syncs : StartSync(s)
           \/ \E w \in Workers : Publish(w)
           \/ \/ \E s \in Syncs : MarkerAges(s)
              \/ \E w \in Workers : \/ \E s \in Syncs : Claim(w, s) \/ Recover(w, s)
                                    \/ Heartbeat(w) \/ Block(w) \/ Fail(w) \/ Restart(w)
           \/ OtherSyncStep
  BY DEF Next, OtherSyncStep

LEMMA SlotInit == Init => OneActiveSync
  BY DEF Init, OneActiveSync, IsActive, ActiveStatus

LEMMA SlotStep == TypeOK /\ OneActiveSync /\ [Next]_vars => OneActiveSync'
  <1> SUFFICES ASSUME TypeOK, OneActiveSync, [Next]_vars PROVE OneActiveSync'
    OBVIOUS
  <1> USE DEF OneActiveSync
  <1>1. ASSUME NEW s \in Syncs, StartSync(s) PROVE OneActiveSync'
    BY <1>1, StartFacts
  <1>2. ASSUME NEW w \in Workers, Publish(w) PROVE OneActiveSync'
    <2>1. sync[worker[w].s] \in SyncRecord
      BY <1>2, PublishFacts DEF TypeOK
    <2>2. ~sync'[worker[w].s].slot /\ ~IsActive(sync'[worker[w].s])
      BY <1>2, <2>1, PublishFacts, EndedRowFacts DEF EndedSync
    <2> QED
      BY <1>2, <2>2, PublishFacts
  <1>3. ASSUME \A s \in Syncs : KeptOrEnded(s) PROVE OneActiveSync'
    BY <1>3 DEF KeptOrEnded
  <1>4. CASE OtherSyncStep
    BY <1>4, OtherStepFacts
  <1> QED
    BY <1>1, <1>2, <1>3, <1>4, RowSteps, StepCases

\* Whatever the workers, their crashes and the recoveries do, at most one sync is
\* active and the slot is held exactly by it.
THEOREM SyncsExclusive == Spec => []OneActiveSync
  <1>1. TypeOK /\ OneActiveSync /\ [Next]_vars => OneActiveSync'
    BY SlotStep
  <1> QED
    BY <1>1, SlotInit, SyncTypeCorrect, PTL DEF Spec

-------------------------------------------------------------------------------
(* Versions. *)

\* What a request may be sure of: the version it activates is there, or is an
\* upload that it brings itself, and the rows its statement saw are there.
RequestsInv ==
    \A a \in Admins : admin[a].pc # "idle" =>
        /\ admin[a].pc = "activate" => admin[a].v \in Present
        /\ admin[a].pc = "upload" => admin[a].v \in Uploads
        /\ admin[a].snap \subseteq Present

VersionInv == VersionIffSucceeded /\ RequestsInv

\* The steps that write no version.
OtherVersionStep ==
    \/ \E s \in Syncs : StartSync(s) \/ MarkerAges(s)
    \/ \E w \in Workers :
          \/ \E s \in Syncs : Claim(w, s) \/ Recover(w, s)
          \/ Heartbeat(w) \/ KeeperFails(w) \/ Raise(w) \/ Find(w) \/ WriteCandidate(w)
          \/ StopKeeper(w) \/ Block(w) \/ PublishFails(w)
          \/ CheckReference(w) \/ Unlink(w) \/ Fail(w) \/ Crash(w) \/ Restart(w)
    \/ Tick
    \/ UNCHANGED vars

LEMMA VersionCases ==
    ASSUME [Next]_vars
    PROVE  \/ \E w \in Workers : Publish(w)
           \/ \E v \in Versions : UploadInactive(v)
           \/ \E a \in Admins : \/ \E v \in Versions : BeginActivate(a, v) \/ BeginUpload(a, v)
                                \/ Commit(a) \/ Refuse(a)
           \/ OtherVersionStep
  BY DEF Next, OtherVersionStep

LEMMA OtherVersionFacts == OtherVersionStep => UNCHANGED <<version, admin>>
  <1> USE DEF requests
  <1>1. (\E s \in Syncs : StartSync(s) \/ MarkerAges(s)) => UNCHANGED <<version, admin>>
    BY DEF StartSync, MarkerAges
  <1>2. (\E w \in Workers :
            \/ \E s \in Syncs : Claim(w, s) \/ Recover(w, s)
            \/ Heartbeat(w) \/ KeeperFails(w) \/ Raise(w) \/ Find(w) \/ WriteCandidate(w)
            \/ StopKeeper(w) \/ Block(w))
        => UNCHANGED <<version, admin>>
    BY DEF Claim, Recover, Heartbeat, KeeperFails, Raise, Find, WriteCandidate, StopKeeper, Block
  <1>3. (\E w \in Workers : \/ PublishFails(w) \/ CheckReference(w) \/ Unlink(w)
                            \/ Fail(w) \/ Crash(w) \/ Restart(w))
        => UNCHANGED <<version, admin>>
    BY DEF PublishFails, CheckReference, Unlink, Fail, Crash, Restart
  <1>4. Tick \/ UNCHANGED vars => UNCHANGED <<version, admin>>
    BY DEF Tick, vars
  <1> QED
    BY <1>1, <1>2, <1>3, <1>4 DEF OtherVersionStep

\* A sync succeeds or fails to, the same before and after, unless it is published.
LEMMA SuccessKept ==
    ASSUME TypeOK, [Next]_vars, ~\E w \in Workers : Publish(w)
    PROVE  \A s \in Syncs : SameSuccess(s)
  <1>1. ASSUME NEW s \in Syncs, StartSync(s) PROVE \A r \in Syncs : SameSuccess(r)
    BY <1>1, StartFacts DEF SameSuccess
  <1>2. CASE OtherSyncStep
    BY <1>2, OtherStepFacts DEF SameSuccess
  <1> QED
    BY <1>1, <1>2, RowSteps, StepCases

LEMMA CommitFacts ==
    ASSUME TypeOK, RequestsInv, NEW a \in Admins, Commit(a)
    PROVE  /\ admin[a].v \in Versions
           /\ version'[admin[a].v] = "active"
           /\ \A v \in Versions \ {admin[a].v} : version'[v] # "active"
           /\ \A v \in Versions : v \in Present => version'[v] # "absent"
           /\ \A v \in Syncs : version[v] = "absent" => version'[v] = "absent"
           /\ UNCHANGED sync
           /\ admin' = [admin EXCEPT ![a] = NoRequest(admin[a].v)]
  <1> DEFINE target == admin[a].v
             snap == admin[a].snap
  <1>1. admin[a] \in VersionRequest /\ admin[a].pc # "idle"
    BY DEF TypeOK, Commit
  <1>2. target \in Versions /\ snap \subseteq Present
    BY <1>1 DEF RequestsInv, VersionRequest
  <1>3. target \in Syncs => target \in Present
    BY <1>1, SyncsAssumption DEF RequestsInv, VersionRequest
  <1>4. \A v \in Versions : version'[v] = IF v = target THEN "active"
                                          ELSE IF v \in snap THEN "inactive"
                                          ELSE version[v]
    BY DEF Commit
  <1>5. \A v \in Versions \ snap : version[v] # "active"
    BY DEF Commit, MayActivate, SeesActive
  <1>6. Syncs \subseteq Versions /\ \A v \in Present : version[v] # "absent"
    BY DEF Versions, Present
  <1>7. UNCHANGED sync /\ admin' = [admin EXCEPT ![a] = NoRequest(admin[a].v)]
    BY DEF Commit
  <1>8. \A v \in Versions \ {target} : version'[v] # "active"
    BY <1>4, <1>5
  <1>9. \A v \in Versions : v \in Present => version'[v] # "absent"
    BY <1>4, <1>6
  <1>10. \A v \in Syncs : version[v] = "absent" => version'[v] = "absent"
    BY <1>2, <1>3, <1>4, <1>6
  <1> QED
    BY <1>2, <1>4, <1>7, <1>8, <1>9, <1>10

LEMMA VersionInit == Init => VersionInv /\ OneActiveVersion
  BY DEF Init, VersionInv, VersionIffSucceeded, RequestsInv, NoRequest, Versions,
         OneActiveVersion

\* The requests after a step: each as it was, given up, or begun just now.
LEMMA RequestsKept ==
    ASSUME TypeOK, RequestsInv,
           \A v \in Present : version'[v] # "absent",
           \A a \in Admins : admin'[a] = admin[a] \/ admin'[a] = NoRequest(admin[a].v)
    PROVE  RequestsInv'
  <1>1. Present \subseteq Present'
    BY DEF Present
  <1>2. ASSUME NEW a \in Admins, admin'[a].pc # "idle"
        PROVE  admin'[a] = admin[a] /\ admin[a].pc # "idle"
    <2>1. NoRequest(admin[a].v).pc = "idle"
      BY DEF NoRequest
    <2>2. admin'[a] # NoRequest(admin[a].v)
      BY <1>2, <2>1
    <2>3. admin'[a] = admin[a]
      BY <2>2
    <2> QED
      BY <1>2, <2>3
  <1>3. ASSUME NEW a \in Admins, admin'[a].pc # "idle"
        PROVE  /\ admin'[a].pc = "activate" => admin'[a].v \in Present'
               /\ admin'[a].pc = "upload" => admin'[a].v \in Uploads
               /\ admin'[a].snap \subseteq Present'
    BY <1>1, <1>2, <1>3 DEF RequestsInv
  <1> QED
    BY <1>3 DEF RequestsInv

LEMMA VersionStep == TypeOK /\ VersionInv /\ [Next]_vars => VersionInv'
  <1> SUFFICES ASSUME TypeOK, VersionInv, [Next]_vars PROVE VersionInv'
    OBVIOUS
  <1> USE DEF VersionInv
  <1>1. ASSUME NEW w \in Workers, Publish(w) PROVE VersionInv'
    <2> DEFINE s == worker[w].s
    <2>1. /\ s \in Syncs /\ s \in Versions
          /\ version' = [version EXCEPT ![s] = "inactive"]
          /\ sync[s] \in SyncRecord
          /\ sync'[s] = EndedRow(sync[s], "succeeded")
          /\ \A r \in Syncs \ {s} : sync'[r] = sync[r]
          /\ admin' = admin
      BY <1>1, PublishFacts DEF TypeOK, Versions
    <2>2. sync'[s].status = "succeeded"
      BY <2>1, EndedRowFacts DEF EndedSync
    <2>3. VersionIffSucceeded'
      BY <2>1, <2>2 DEF VersionIffSucceeded, TypeOK, Versions
    <2>4. \A v \in Present : version'[v] # "absent"
      BY <2>1 DEF Present, TypeOK
    <2> QED
      BY <2>1, <2>3, <2>4, RequestsKept
  <1>2. ASSUME NEW v \in Versions, UploadInactive(v) PROVE VersionInv'
    <2>1. /\ v \in Uploads /\ v \notin Syncs
          /\ version' = [version EXCEPT ![v] = "inactive"]
          /\ UNCHANGED <<sync, admin>>
      BY <1>2, SyncsAssumption DEF UploadInactive
    <2>2. VersionIffSucceeded'
      BY <2>1 DEF VersionIffSucceeded, TypeOK, Versions
    <2>3. \A u \in Present : version'[u] # "absent"
      BY <2>1 DEF Present, TypeOK
    <2> QED
      BY <2>1, <2>2, <2>3, RequestsKept
  <1>3. ASSUME NEW a \in Admins, NEW v \in Versions, BeginActivate(a, v) \/ BeginUpload(a, v)
        PROVE  VersionInv'
    <2>1. UNCHANGED <<sync, version>>
      BY <1>3 DEF BeginActivate, BeginUpload
    <2>2. \E e \in BOOLEAN, pc \in {"activate", "upload"} :
             /\ admin' = [admin EXCEPT ![a] = [pc |-> pc, v |-> v, early |-> e,
                                               snap |-> Present]]
             /\ pc = "activate" => v \in Present
             /\ pc = "upload" => v \in Uploads
      BY <1>3 DEF BeginActivate, BeginUpload
    <2>3. Present' = Present
      BY <2>1 DEF Present
    <2>4. RequestsInv'
      BY <2>2, <2>3 DEF RequestsInv, TypeOK
    <2> QED
      BY <2>1, <2>4 DEF VersionIffSucceeded
  <1>4. ASSUME NEW a \in Admins, Commit(a) PROVE VersionInv'
    <2>1. VersionIffSucceeded'
      BY <1>4, CommitFacts DEF VersionIffSucceeded, Present, Versions
    <2>2. \A b \in Admins : admin'[b] = admin[b] \/ admin'[b] = NoRequest(admin[b].v)
      BY <1>4, CommitFacts DEF TypeOK
    <2>3. \A v \in Present : version'[v] # "absent"
      BY <1>4, CommitFacts DEF Present
    <2> QED
      BY <2>1, <2>2, <2>3, RequestsKept
  <1>5. ASSUME NEW a \in Admins, Refuse(a) PROVE VersionInv'
    <2>1. /\ UNCHANGED <<sync, version>>
          /\ \A b \in Admins : admin'[b] = admin[b] \/ admin'[b] = NoRequest(admin[b].v)
      BY <1>5 DEF Refuse, TypeOK
    <2>2. \A v \in Present : version'[v] # "absent"
      BY <2>1 DEF Present
    <2> QED
      BY <2>1, <2>2, RequestsKept DEF VersionIffSucceeded
  <1>6. ASSUME OtherVersionStep, ~\E w \in Workers : Publish(w) PROVE VersionInv'
    <2>1. UNCHANGED <<version, admin>>
      BY <1>6, OtherVersionFacts
    <2>2. VersionIffSucceeded'
      BY <1>6, <2>1, SuccessKept DEF VersionIffSucceeded, SameSuccess
    <2>3. RequestsInv'
      BY <2>1 DEF RequestsInv, Present
    <2> QED
      BY <2>2, <2>3
  <1> QED
    BY <1>1, <1>2, <1>3, <1>4, <1>5, <1>6, VersionCases

LEMMA ActiveStep ==
    ASSUME TypeOK, VersionInv, OneActiveVersion, [Next]_vars
    PROVE  /\ OneActiveVersion'
           /\ (\E v \in Versions : version[v] = "active")
                 => \E v \in Versions : version'[v] = "active"
  <1> DEFINE Goal == /\ OneActiveVersion'
                     /\ (\E v \in Versions : version[v] = "active")
                           => \E v \in Versions : version'[v] = "active"
  <1> USE DEF OneActiveVersion
  <1>1. ASSUME NEW u \in Versions, version[u] = "absent",
               version' = [version EXCEPT ![u] = "inactive"]
        PROVE  Goal
    BY <1>1 DEF TypeOK
  <1>2. ASSUME NEW w \in Workers, Publish(w) PROVE Goal
    <2>1. worker[w].s \in Versions /\ version[worker[w].s] = "absent"
      BY <1>2, PublishFacts DEF VersionInv, VersionIffSucceeded, Versions
    <2> QED
      BY <1>1, <1>2, <2>1, PublishFacts
  <1>3. ASSUME NEW v \in Versions, UploadInactive(v) PROVE Goal
    BY <1>1, <1>3 DEF UploadInactive
  <1>4. ASSUME NEW a \in Admins, Commit(a) PROVE Goal
    BY <1>4, CommitFacts DEF VersionInv
  <1>5. ASSUME UNCHANGED version PROVE Goal
    BY <1>5
  <1>6. ASSUME NEW a \in Admins, NEW v \in Versions,
               BeginActivate(a, v) \/ BeginUpload(a, v)
        PROVE  Goal
    BY <1>5, <1>6 DEF BeginActivate, BeginUpload
  <1>7. ASSUME NEW a \in Admins, Refuse(a) PROVE Goal
    BY <1>5, <1>7 DEF Refuse
  <1>8. CASE OtherVersionStep
    BY <1>5, <1>8, OtherVersionFacts
  <1> QED
    BY <1>2, <1>3, <1>4, <1>6, <1>7, <1>8, VersionCases

LEMMA VersionInvariant == Spec => [](TypeOK /\ VersionInv /\ OneActiveVersion)
  <1>1. TypeOK /\ VersionInv /\ OneActiveVersion /\ [Next]_vars => OneActiveVersion'
    BY ActiveStep
  <1> QED
    BY <1>1, TypeInit, TypeStep, VersionInit, VersionStep, PTL DEF Spec

\* A sync has a version exactly if it succeeded, whatever claims were lost and
\* whichever commits were not heard of.
THEOREM VersionsOfSucceeded == Spec => []VersionIffSucceeded
  <1>1. VersionInv => VersionIffSucceeded
    BY DEF VersionInv
  <1> QED
    BY <1>1, VersionInvariant, PTL

\* No two versions of the kind are ever active.
THEOREM ActiveVersionUnique == Spec => []OneActiveVersion
  BY VersionInvariant, PTL

\* Once a version is active some version is, at every moment.
THEOREM ActiveVersionStays == Spec => SomeVersionStaysActive
  <1> DEFINE Stays == (\E v \in Versions : version[v] = "active")
                         => \E v \in Versions : version'[v] = "active"
  <1>1. TypeOK /\ VersionInv /\ OneActiveVersion /\ [Next]_vars => [Stays]_vars
    BY ActiveStep
  <1>2. Spec => [][Stays]_vars
    BY <1>1, VersionInvariant, PTL DEF Spec
  <1> QED
    BY <1>2 DEF SomeVersionStaysActive

-------------------------------------------------------------------------------
(* The files of the candidates. *)

Writing == {"written", "publish", "discard", "unlink"}

\* A claim is held by one worker, and a file is written at most once under it.
ClaimsInv ==
    /\ \A s \in Syncs, t \in Times : writers[s][t] \subseteq 1..claims
    /\ \A w \in Workers : worker[w].pc \notin {"idle", "down"} =>
          /\ worker[w].s \in Syncs /\ worker[w].token \in 1..claims
          /\ \A u \in Workers \ {w} :
                worker[u].pc \notin {"idle", "down"} => worker[u].token # worker[w].token
    /\ \A w \in Workers : worker[w].pc = "claimed" =>
          \A s \in Syncs, t \in Times : worker[w].token \notin writers[s][t]

\* p is the only claim that ever wrote that file only if it is still the one it wrote.
Intact(s, t, p) == p \in writers[s][t] /\ (writers[s][t] = {p} => disk[s][t] = p)

\* Nobody is about to remove the file as the one of claim p.
NotRemoved(s, t, p) ==
    \A w \in Workers :
        worker[w].pc = "unlink" /\ worker[w].s = s /\ worker[w].time = t => worker[w].token # p

\* A worker that has written its file finds it; one that removes a file has written it;
\* and the claim that wrote the file of a version is not among those that remove it.
FilesInv ==
    /\ \A w \in Workers :
          /\ worker[w].pc \in Writing => worker[w].token \in writers[worker[w].s][worker[w].time]
          /\ worker[w].pc \in {"written", "publish"} =>
                Intact(worker[w].s, worker[w].time, worker[w].token)
    /\ \A s \in Syncs : version[s] # "absent" =>
          \E p \in Nat : Intact(s, stamp[s], p) /\ NotRemoved(s, stamp[s], p)

FileInv == ClaimsInv /\ FilesInv

\* The steps that leave the files and the rows of workers at their claims alone, or
\* bring a worker nearer to its end without one.
Lighter(w) ==
    \/ worker'[w] = worker[w]
    \/ worker'[w].pc \in {"idle", "down"}
    \/ /\ worker'[w].s = worker[w].s /\ worker'[w].token = worker[w].token
       /\ worker'[w].time = worker[w].time
       /\ worker[w].pc \notin {"idle", "down"}
       /\ \/ worker'[w].pc = worker[w].pc
          \/ worker'[w].pc \in {"raised", "findings", "block"}
          \/ worker'[w].pc = "publish" /\ worker[w].pc = "written"
          \/ worker'[w].pc = "discard" /\ worker[w].pc \in {"written", "publish"}
          \/ /\ worker'[w].pc = "unlink" /\ worker[w].pc = "discard"
             /\ ~Registered(w)

LEMMA FilesLighter ==
    ASSUME TypeOK, FileInv, UNCHANGED <<disk, writers, stamp, claims>>,
           \A s \in Syncs : version'[s] # "absent" => version[s] # "absent",
           \A w \in Workers : Lighter(w)
    PROVE  FileInv'
<1>1. ASSUME NEW w \in Workers, worker'[w].pc \notin {"idle", "down"}
      PROVE  /\ worker'[w].s = worker[w].s /\ worker'[w].token = worker[w].token
             /\ worker'[w].time = worker[w].time
             /\ worker[w].pc \notin {"idle", "down"}
             /\ worker'[w].pc = "claimed" => worker[w].pc = "claimed"
             /\ worker'[w].pc \in Writing => worker[w].pc \in Writing
             /\ worker'[w].pc \in {"written", "publish"} => worker[w].pc \in {"written", "publish"}
             /\ worker'[w].pc = "unlink" => worker[w].pc = "unlink" \/ ~Registered(w)
  BY <1>1 DEF Lighter, Writing
<1>2. ClaimsInv'
  BY <1>1 DEF FileInv, ClaimsInv
<1>3. ASSUME NEW w \in Workers
      PROVE  /\ worker'[w].pc \in Writing =>
                    worker'[w].token \in writers'[worker'[w].s][worker'[w].time]
             /\ worker'[w].pc \in {"written", "publish"} =>
                    Intact(worker[w].s, worker[w].time, worker[w].token)'
  BY <1>1 DEF FileInv, FilesInv, Intact, Writing
<1>4. ASSUME NEW s \in Syncs, version'[s] # "absent"
      PROVE  \E p \in Nat : Intact(s, stamp[s], p)' /\ NotRemoved(s, stamp[s], p)'
  <2>1. version[s] # "absent"
    BY <1>4
  <2>2. PICK p \in Nat : Intact(s, stamp[s], p) /\ NotRemoved(s, stamp[s], p)
    BY <2>1 DEF FileInv, FilesInv
  <2>3. ASSUME NEW w \in Workers, worker'[w].pc = "unlink", worker'[w].s = s,
               worker'[w].time = stamp[s]
        PROVE  worker'[w].token # p
    BY <1>1, <2>1, <2>2, <2>3 DEF NotRemoved, Registered
  <2>4. NotRemoved(s, stamp[s], p)'
    BY <2>3 DEF NotRemoved
  <2>5. Intact(s, stamp[s], p)'
    BY <2>2 DEF Intact
  <2> QED
    BY <2>4, <2>5
<1> QED
  BY <1>2, <1>3, <1>4 DEF FileInv, FilesInv

\* The steps of which that is true.
LEMMA LighterSteps ==
    ASSUME TypeOK, FileInv,
           \/ \E s \in Syncs : StartSync(s) \/ MarkerAges(s)
           \/ \E w \in Workers :
                 \/ \E s \in Syncs : Recover(w, s)
                 \/ Heartbeat(w) \/ KeeperFails(w) \/ Raise(w) \/ Find(w) \/ StopKeeper(w)
                 \/ Block(w) \/ PublishFails(w) \/ CheckReference(w) \/ Fail(w)
                 \/ Crash(w) \/ Restart(w)
           \/ \E a \in Admins : \/ \E v \in Versions : BeginActivate(a, v) \/ BeginUpload(a, v)
                                \/ Commit(a) \/ Refuse(a)
           \/ \E v \in Versions : UploadInactive(v)
           \/ Tick
           \/ UNCHANGED vars
    PROVE  /\ \A w \in Workers : Lighter(w)
           /\ UNCHANGED <<disk, writers, stamp, claims>>
<1> USE DEF requests, files
<1>1. ASSUME NEW w \in Workers, NEW pc, NEW keeper,
             worker' = [worker EXCEPT ![w].pc = pc, ![w].keeper = keeper]
      PROVE  /\ \A u \in Workers \ {w} : worker'[u] = worker[u]
             /\ worker'[w].s = worker[w].s /\ worker'[w].token = worker[w].token
             /\ worker'[w].time = worker[w].time /\ worker'[w].pc = pc
  BY <1>1 DEF TypeOK, SyncWorker
<1>2. ASSUME NEW w \in Workers, NEW pc, worker' = [worker EXCEPT ![w].pc = pc]
      PROVE  /\ \A u \in Workers \ {w} : worker'[u] = worker[u]
             /\ worker'[w].s = worker[w].s /\ worker'[w].token = worker[w].token
             /\ worker'[w].time = worker[w].time /\ worker'[w].pc = pc
  BY <1>2 DEF TypeOK, SyncWorker
<1>3. ASSUME NEW w \in Workers, worker' = [worker EXCEPT ![w] = NoWork]
      PROVE  \A u \in Workers : Lighter(u)
  BY <1>3 DEF TypeOK, Lighter, NoWork
<1>4. ASSUME UNCHANGED worker PROVE \A u \in Workers : Lighter(u)
  BY <1>4 DEF Lighter
<1>5. CASE \E s \in Syncs : StartSync(s) \/ MarkerAges(s)
  BY <1>4, <1>5 DEF StartSync, MarkerAges
<1>6. CASE \E w \in Workers : (\E s \in Syncs : Recover(w, s)) \/ Heartbeat(w)
  BY <1>4, <1>6 DEF Recover, Heartbeat
<1>7. CASE \E a \in Admins : \/ \E v \in Versions : BeginActivate(a, v) \/ BeginUpload(a, v)
                             \/ Commit(a) \/ Refuse(a)
  BY <1>4, <1>7 DEF BeginActivate, BeginUpload, Commit, Refuse
<1>8. CASE (\E v \in Versions : UploadInactive(v)) \/ Tick \/ UNCHANGED vars
  BY <1>4, <1>8 DEF UploadInactive, Tick, vars
<1>9. ASSUME NEW w \in Workers, KeeperFails(w)
      PROVE  /\ \A u \in Workers : Lighter(u)
             /\ UNCHANGED <<disk, writers, stamp, claims>>
  <2>1. worker' = [worker EXCEPT ![w].keeper = "failed"]
    BY <1>9 DEF KeeperFails
  <2>2. /\ \A u \in Workers \ {w} : worker'[u] = worker[u]
        /\ worker'[w].s = worker[w].s /\ worker'[w].token = worker[w].token
        /\ worker'[w].time = worker[w].time /\ worker'[w].pc = worker[w].pc
    BY <2>1 DEF TypeOK, SyncWorker
  <2>3. Lighter(w)
    BY <2>2 DEF Lighter
  <2> QED
    BY <1>9, <2>2, <2>3 DEF Lighter, KeeperFails
<1>10. ASSUME NEW w \in Workers, Raise(w) \/ StopKeeper(w)
       PROVE  /\ \A u \in Workers : Lighter(u)
              /\ UNCHANGED <<disk, writers, stamp, claims>>
  <2>1. PICK pc : /\ worker' = [worker EXCEPT ![w].pc = pc, ![w].keeper = "off"]
                  /\ worker[w].pc \notin {"idle", "down"}
                  /\ \/ pc \in {"raised", "block"}
                     \/ pc \in {"publish", "discard"} /\ worker[w].pc = "written"
    BY <1>10 DEF Raise, StopKeeper
  <2>2. Lighter(w)
    BY <1>1, <2>1 DEF Lighter
  <2> QED
    BY <1>1, <1>10, <2>1, <2>2 DEF Lighter, Raise, StopKeeper
<1>11. ASSUME NEW w \in Workers, Find(w) \/ PublishFails(w)
       PROVE  /\ \A u \in Workers : Lighter(u)
              /\ UNCHANGED <<disk, writers, stamp, claims>>
  <2>1. PICK pc : /\ worker' = [worker EXCEPT ![w].pc = pc]
                  /\ worker[w].pc \notin {"idle", "down"}
                  /\ pc = "findings" \/ (pc = "discard" /\ worker[w].pc = "publish")
    BY <1>11 DEF Find, PublishFails
  <2>2. Lighter(w)
    BY <1>2, <2>1 DEF Lighter
  <2> QED
    BY <1>2, <1>11, <2>1, <2>2 DEF Lighter, Find, PublishFails
<1>12. ASSUME NEW w \in Workers, CheckReference(w)
       PROVE  /\ \A u \in Workers : Lighter(u)
              /\ UNCHANGED <<disk, writers, stamp, claims>>
  <2>1. PICK pc : /\ worker' = [worker EXCEPT ![w].pc = pc]
                  /\ worker[w].pc = "discard"
                  /\ pc = "raised" \/ (pc = "unlink" /\ ~Registered(w))
    BY <1>12 DEF CheckReference
  <2>2. Lighter(w)
    BY <1>2, <2>1 DEF Lighter
  <2> QED
    BY <1>2, <1>12, <2>1, <2>2 DEF Lighter, CheckReference
<1>13. ASSUME NEW w \in Workers, Block(w)
       PROVE  /\ \A u \in Workers : Lighter(u)
              /\ UNCHANGED <<disk, writers, stamp, claims>>
  <2>1. CASE worker' = [worker EXCEPT ![w] = NoWork]
    BY <1>3, <1>13, <2>1 DEF Block
  <2>2. CASE worker' = [worker EXCEPT ![w].pc = "raised"]
    <3>1. worker[w].pc \notin {"idle", "down"}
      BY <1>13 DEF Block
    <3>2. Lighter(w)
      BY <1>2, <2>2, <3>1 DEF Lighter
    <3> QED
      BY <1>2, <1>13, <2>2, <3>2 DEF Lighter, Block
  <2> QED
    BY <1>13, <2>1, <2>2 DEF Block
<1>14. ASSUME NEW w \in Workers, Fail(w) \/ Crash(w) \/ Restart(w)
       PROVE  /\ \A u \in Workers : Lighter(u)
              /\ UNCHANGED <<disk, writers, stamp, claims>>
  <2>1. /\ \A u \in Workers \ {w} : worker'[u] = worker[u]
        /\ worker'[w].pc \in {"idle", "down"}
    BY <1>14 DEF Fail, Crash, Restart, TypeOK, NoWork
  <2> QED
    BY <1>14, <2>1 DEF Lighter, Fail, Crash, Restart
<1> QED
  BY <1>5, <1>6, <1>7, <1>8, <1>9, <1>10, <1>11, <1>12, <1>13, <1>14
     DEF StartSync, MarkerAges, Recover, Heartbeat, BeginActivate, BeginUpload, Commit, Refuse,
         UploadInactive, Tick, vars

LEMMA ClaimFiles ==
    ASSUME TypeOK, FileInv, NEW w \in Workers, NEW s \in Syncs, Claim(w, s)
    PROVE  FileInv'
<1>1. /\ claims \in Nat /\ claims' = claims + 1
      /\ worker' = [worker EXCEPT ![w] = [NoWork EXCEPT !.pc = "claimed", !.s = s,
                                            !.token = claims', !.keeper = "beating"]]
      /\ UNCHANGED <<disk, writers, stamp, version>>
  BY DEF Claim, TypeOK, requests, files
<1>2. /\ worker'[w].pc = "claimed" /\ worker'[w].s = s /\ worker'[w].token = claims + 1
      /\ \A u \in Workers \ {w} : worker'[u] = worker[u]
  BY <1>1 DEF TypeOK, NoWork
<1>3. claims + 1 \notin 1..claims /\ claims + 1 \in 1..claims' /\ 1..claims \subseteq 1..claims'
  BY <1>1
<1>4. ClaimsInv'
  <2>1. \A r \in Syncs, t \in Times : writers'[r][t] \subseteq 1..claims'
    BY <1>1, <1>3 DEF FileInv, ClaimsInv
  <2>2. \A u \in Workers \ {w} : worker[u].pc \notin {"idle", "down"} => worker[u].token # claims + 1
    BY <1>3 DEF FileInv, ClaimsInv
  <2>3. \A r \in Syncs, t \in Times : claims + 1 \notin writers'[r][t]
    BY <1>1, <1>3 DEF FileInv, ClaimsInv
  <2> QED
    BY <1>1, <1>2, <1>3, <2>1, <2>2, <2>3 DEF FileInv, ClaimsInv
<1>5. FilesInv'
  BY <1>1, <1>2 DEF FileInv, FilesInv, Intact, NotRemoved, Writing
<1> QED
  BY <1>4, <1>5 DEF FileInv

LEMMA WriteFiles ==
    ASSUME TypeOK, FileInv, NEW w \in Workers, WriteCandidate(w)
    PROVE  FileInv'
<1>0. /\ worker[w].pc = "claimed" /\ clock \in Times /\ claims \in Nat
      /\ worker[w].s \in Syncs /\ worker[w].token \in 1..claims
  BY DEF FileInv, ClaimsInv, WriteCandidate, TypeOK
<1> PICK s \in Syncs, p \in 1..claims : s = worker[w].s /\ p = worker[w].token
  BY <1>0
<1>1. /\ p \in Nat /\ clock \in Times /\ worker[w].pc = "claimed"
      /\ \A r \in Syncs, t \in Times : p \notin writers[r][t]
  BY <1>0 DEF FileInv, ClaimsInv
<1>2. /\ \A r \in Syncs, t \in Times :
            IF r = s /\ t = clock
            THEN writers'[r][t] = writers[r][t] \cup {p} /\ disk'[r][t] = p
            ELSE writers'[r][t] = writers[r][t] /\ disk'[r][t] = disk[r][t]
      /\ UNCHANGED <<stamp, version, claims>>
  BY <1>1 DEF WriteCandidate, TypeOK, requests
<1>3. /\ worker'[w].pc = "written" /\ worker'[w].s = s /\ worker'[w].token = p
      /\ worker'[w].time = clock
      /\ \A u \in Workers \ {w} : worker'[u] = worker[u]
  BY DEF WriteCandidate, TypeOK, SyncWorker
<1>4. \A r \in Syncs, t \in Times, q \in Nat : Intact(r, t, q) => Intact(r, t, q)'
  <2> SUFFICES ASSUME NEW r \in Syncs, NEW t \in Times, NEW q \in Nat, Intact(r, t, q)
               PROVE  Intact(r, t, q)'
    OBVIOUS
  <2>1. q # p
    BY <1>1 DEF Intact
  <2> QED
    BY <1>2, <2>1 DEF Intact
<1>5. ClaimsInv'
  <2>1. \A r \in Syncs, t \in Times : writers'[r][t] \subseteq 1..claims'
    BY <1>1, <1>2 DEF FileInv, ClaimsInv
  <2>2. ASSUME NEW u \in Workers, worker'[u].pc = "claimed"
        PROVE  \A r \in Syncs, t \in Times : worker'[u].token \notin writers'[r][t]
    <3>1. u # w /\ worker'[u] = worker[u] /\ worker[u].token # p
      BY <1>1, <1>3, <2>2 DEF FileInv, ClaimsInv
    <3> QED
      BY <1>2, <2>2, <3>1 DEF FileInv, ClaimsInv
  <2> QED
    BY <1>1, <1>2, <1>3, <2>1, <2>2 DEF FileInv, ClaimsInv
<1>6. ASSUME NEW u \in Workers
      PROVE  /\ worker'[u].pc \in Writing =>
                    worker'[u].token \in writers'[worker'[u].s][worker'[u].time]
             /\ worker'[u].pc \in {"written", "publish"} =>
                    Intact(worker[u].s, worker[u].time, worker[u].token)'
  <2>1. CASE u = w
    BY <1>1, <1>2, <1>3, <2>1 DEF Intact
  <2>2. CASE u # w
    <3>1. worker'[u] = worker[u] /\ worker[u].time \in Times /\ worker[u].token \in Nat
      BY <1>3, <2>2 DEF TypeOK, SyncWorker
    <3>2. worker[u].pc \in Writing => worker[u].s \in Syncs
      BY DEF FileInv, ClaimsInv, Writing
    <3>3. worker[u].pc \in Writing => worker[u].token \in writers'[worker[u].s][worker[u].time]
      BY <1>2, <3>1, <3>2 DEF FileInv, FilesInv
    <3>4. worker[u].pc \in {"written", "publish"}
              => Intact(worker[u].s, worker[u].time, worker[u].token)'
      BY <1>4, <3>1, <3>2 DEF FileInv, FilesInv, Writing
    <3> QED
      BY <3>1, <3>3, <3>4
  <2> QED
    BY <2>1, <2>2
<1>7. ASSUME NEW r \in Syncs, version'[r] # "absent"
      PROVE  \E q \in Nat : Intact(r, stamp[r], q)' /\ NotRemoved(r, stamp[r], q)'
  <2>1. stamp[r] \in Times /\ version[r] # "absent" /\ stamp'[r] = stamp[r]
    BY <1>2, <1>7 DEF TypeOK
  <2>2. PICK q \in Nat : Intact(r, stamp[r], q) /\ NotRemoved(r, stamp[r], q)
    BY <2>1 DEF FileInv, FilesInv
  <2>3. NotRemoved(r, stamp[r], q)'
    BY <1>3, <2>1, <2>2 DEF NotRemoved
  <2>4. Intact(r, stamp[r], q)'
    BY <1>4, <2>1, <2>2 DEF Intact
  <2> QED
    BY <2>3, <2>4
<1> QED
  BY <1>5, <1>6, <1>7 DEF FileInv, FilesInv

LEMMA PublishFiles ==
    ASSUME TypeOK, FileInv, NEW w \in Workers, Publish(w)
    PROVE  FileInv'
<1>0. worker[w].s \in Syncs /\ worker[w].token \in Nat
  BY DEF Publish, Owns, TypeOK, SyncWorker
<1> PICK s \in Syncs, p \in Nat : s = worker[w].s /\ p = worker[w].token
  BY <1>0
<1>1. /\ worker[w].time \in Times
      /\ worker[w].pc = "publish"
      /\ version' = [version EXCEPT ![s] = "inactive"]
      /\ stamp' = [stamp EXCEPT ![s] = worker[w].time]
      /\ UNCHANGED <<disk, writers, claims>>
  BY DEF Publish, Owns, TypeOK, SyncWorker, files
<1>2. /\ \A u \in Workers \ {w} : worker'[u] = worker[u]
      /\ \/ worker'[w].pc = "idle"
         \/ /\ worker'[w].pc = "discard" /\ worker'[w].s = s /\ worker'[w].token = p
            /\ worker'[w].time = worker[w].time
  BY DEF Publish, TypeOK, SyncWorker, NoWork
<1>3. \A u \in Workers : worker'[u].pc = "unlink" => u # w /\ worker[u] = worker'[u]
  BY <1>2
<1>4. Syncs \subseteq Versions /\ version \in [Versions -> {"absent", "inactive", "active"}]
      /\ stamp \in [Syncs -> Times]
  BY DEF TypeOK, Versions
<1>5. ClaimsInv'
  BY <1>1, <1>2 DEF FileInv, ClaimsInv
<1>6. ASSUME NEW u \in Workers
      PROVE  /\ worker'[u].pc \in Writing =>
                    worker'[u].token \in writers'[worker'[u].s][worker'[u].time]
             /\ worker'[u].pc \in {"written", "publish"} =>
                    Intact(worker[u].s, worker[u].time, worker[u].token)'
  BY <1>1, <1>2 DEF FileInv, FilesInv, Intact, Writing
<1>7. ASSUME NEW r \in Syncs, version'[r] # "absent"
      PROVE  \E q \in Nat : Intact(r, stamp[r], q)' /\ NotRemoved(r, stamp[r], q)'
  <2>1. CASE r = s
    <3>1. stamp'[s] = worker[w].time
      BY <1>1, <1>4
    <3>2. Intact(s, stamp[s], p)'
      BY <1>1, <3>1 DEF FileInv, FilesInv, Intact
    <3>3. ASSUME NEW u \in Workers, worker'[u].pc = "unlink" PROVE worker'[u].token # p
      BY <1>1, <1>3, <3>3 DEF FileInv, ClaimsInv
    <3>4. NotRemoved(s, stamp[s], p)'
      BY <3>3 DEF NotRemoved
    <3> QED
      BY <1>1, <2>1, <3>2, <3>4
  <2>2. CASE r # s
    <3>1. version[r] # "absent" /\ stamp'[r] = stamp[r]
      BY <1>1, <1>4, <1>7, <2>2
    <3>2. PICK q \in Nat : Intact(r, stamp[r], q) /\ NotRemoved(r, stamp[r], q)
      BY <3>1 DEF FileInv, FilesInv
    <3> QED
      BY <1>1, <1>3, <3>1, <3>2 DEF Intact, NotRemoved
  <2> QED
    BY <2>1, <2>2
<1> QED
  BY <1>5, <1>6, <1>7 DEF FileInv, FilesInv

LEMMA UnlinkFiles ==
    ASSUME TypeOK, FileInv, NEW w \in Workers, Unlink(w)
    PROVE  FileInv'
<1>0. /\ worker[w].pc = "unlink" /\ worker[w].s \in Syncs
      /\ worker[w].token \in Nat /\ worker[w].time \in Times
  BY DEF Unlink, TypeOK, SyncWorker, FileInv, ClaimsInv
<1> PICK s \in Syncs, p \in Nat, c \in Times :
       s = worker[w].s /\ p = worker[w].token /\ c = worker[w].time
  BY <1>0
<1>1. /\ worker[w].pc = "unlink" /\ p \in writers[s][c]
      /\ UNCHANGED <<version, stamp, writers, claims>>
      /\ \A r \in Syncs, t \in Times : (r # s \/ t # c) => disk'[r][t] = disk[r][t]
  <2>1. p \in writers[s][c]
    BY <1>0 DEF FileInv, FilesInv, Writing
  <2>2. disk' = [disk EXCEPT ![s][c] = NoFile] /\ UNCHANGED <<version, stamp, writers, claims>>
    BY DEF Unlink, requests
  <2> QED
    BY <1>0, <2>1, <2>2 DEF TypeOK
<1>2. /\ worker'[w].pc = "raised" /\ worker'[w].s = s /\ worker'[w].token = p
      /\ \A u \in Workers \ {w} : worker'[u] = worker[u]
  BY DEF Unlink, TypeOK, SyncWorker
<1>3. \A r \in Syncs, t \in Times, q \in Nat :
         Intact(r, t, q) /\ (q # p \/ r # s \/ t # c)
            => Intact(r, t, q)'
  BY <1>1 DEF Intact
<1>4. ClaimsInv'
  BY <1>1, <1>2 DEF FileInv, ClaimsInv
<1>5. ASSUME NEW u \in Workers
      PROVE  /\ worker'[u].pc \in Writing =>
                    worker'[u].token \in writers'[worker'[u].s][worker'[u].time]
             /\ worker'[u].pc \in {"written", "publish"} =>
                    Intact(worker[u].s, worker[u].time, worker[u].token)'
  <2>1. CASE u = w
    BY <1>2, <2>1 DEF Writing
  <2>2. CASE u # w
    <3>1. worker'[u] = worker[u] /\ worker[u].time \in Times /\ worker[u].token \in Nat
      BY <1>2, <2>2 DEF TypeOK, SyncWorker
    <3>2. worker[u].pc \in Writing => worker[u].s \in Syncs /\ worker[u].token # p
      BY <1>1, <2>2 DEF FileInv, ClaimsInv, Writing
    <3>3. worker[u].pc \in {"written", "publish"}
              => Intact(worker[u].s, worker[u].time, worker[u].token)'
      BY <1>3, <3>1, <3>2 DEF FileInv, FilesInv, Writing
    <3> QED
      BY <1>1, <3>1, <3>3 DEF FileInv, FilesInv
  <2> QED
    BY <2>1, <2>2
<1>6. ASSUME NEW r \in Syncs, version'[r] # "absent"
      PROVE  \E q \in Nat : Intact(r, stamp[r], q)' /\ NotRemoved(r, stamp[r], q)'
  <2>1. stamp[r] \in Times /\ version[r] # "absent" /\ stamp'[r] = stamp[r]
    BY <1>1, <1>6 DEF TypeOK
  <2>2. PICK q \in Nat : Intact(r, stamp[r], q) /\ NotRemoved(r, stamp[r], q)
    BY <2>1 DEF FileInv, FilesInv
  <2>3. Intact(r, stamp[r], q)'
    BY <1>1, <1>3, <2>1, <2>2 DEF Intact, NotRemoved
  <2>4. NotRemoved(r, stamp[r], q)'
    BY <1>2, <2>1, <2>2 DEF NotRemoved
  <2> QED
    BY <2>3, <2>4
<1> QED
  BY <1>4, <1>5, <1>6 DEF FileInv, FilesInv

LEMMA FileInit == Init => FileInv
  BY DEF Init, FileInv, ClaimsInv, FilesInv, NoWork, Writing, Versions

\* A version of a sync appears when it is published, and not before.
LEMMA VersionsAppear ==
    ASSUME TypeOK, VersionInv, [Next]_vars, ~\E w \in Workers : Publish(w)
    PROVE  \A s \in Syncs : version'[s] # "absent" => version[s] # "absent"
<1>1. VersionInv'
  BY VersionStep
<1> QED
  BY <1>1, SuccessKept DEF VersionInv, VersionIffSucceeded, SameSuccess

LEMMA FileStep == TypeOK /\ VersionInv /\ FileInv /\ [Next]_vars => FileInv'
<1> SUFFICES ASSUME TypeOK, VersionInv, FileInv, [Next]_vars PROVE FileInv'
  OBVIOUS
<1>1. CASE \E w \in Workers : Publish(w)
  BY <1>1, PublishFiles
<1>2. CASE \E w \in Workers : WriteCandidate(w) \/ Unlink(w) \/ \E s \in Syncs : Claim(w, s)
  BY <1>2, WriteFiles, UnlinkFiles, ClaimFiles
<1>3. ASSUME ~\E w \in Workers : Publish(w),
             ~\E w \in Workers : WriteCandidate(w) \/ Unlink(w) \/ \E s \in Syncs : Claim(w, s)
      PROVE  FileInv'
  <2>1. /\ \A w \in Workers : Lighter(w)
        /\ UNCHANGED <<disk, writers, stamp, claims>>
    BY <1>3, LighterSteps DEF Next
  <2> QED
    BY <1>3, <2>1, VersionsAppear, FilesLighter
<1> QED
  BY <1>1, <1>2, <1>3

LEMMA FilesOfVersions == TypeOK /\ FileInv => CandidateFiles
<1> SUFFICES ASSUME TypeOK, FileInv, NEW s \in Syncs, version[s] # "absent",
                    Cardinality(writers[s][stamp[s]]) = 1
             PROVE  writers[s][stamp[s]] = {disk[s][stamp[s]]}
  BY DEF CandidateFiles
<1>1. PICK p \in Nat : Intact(s, stamp[s], p)
  BY DEF FileInv, FilesInv
<1>2. writers[s][stamp[s]] \subseteq 1..claims /\ claims \in Nat
  BY DEF FileInv, ClaimsInv, TypeOK
<1>3. IsFiniteSet(writers[s][stamp[s]])
  <2>1. /\ writers[s][stamp[s]] \in SUBSET Nat
        /\ \A n \in writers[s][stamp[s]] : n <= claims
    BY <1>2
  <2> QED
    BY <1>2, <2>1, FS_BoundedSetOfNaturals
<1>4. \E x : writers[s][stamp[s]] = {x}
  BY <1>3, FS_Singleton
<1> QED
  BY <1>1, <1>4 DEF Intact

\* The file of a version is what the claim that registered it has written, unless
\* another claim of that sync wrote a file of that name as well: no worker that lost
\* its claim, nor one that did not hear of its own publication, removes it.
THEOREM FilesOfCandidates == Spec => []CandidateFiles
<1>1. TypeOK /\ VersionInv /\ FileInv /\ [Next]_vars => FileInv'
  BY FileStep
<1>2. TypeOK /\ FileInv => CandidateFiles
  BY FilesOfVersions
<1> QED
  BY <1>1, <1>2, FileInit, VersionInvariant, PTL DEF Spec
===============================================================================

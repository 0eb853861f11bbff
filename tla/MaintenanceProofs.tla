--------------------------- MODULE MaintenanceProofs ---------------------------
(***************************************************************************)
(* Of the maintenance scripts, for every set of workers and every number of *)
(* releases, backups, failing commands and scripts that die: that a         *)
(* migration has the database to itself, and that no job is cut short by a  *)
(* backup or by a release on its way forward; that maintenance leaves the   *)
(* services as it reports; and that there is always a backup to restore     *)
(* from.                                                                   *)
(***************************************************************************)
EXTENDS Maintenance, TLAPS, FiniteSetTheorems

-------------------------------------------------------------------------------
(* The invariant. *)

JobStates == {"none", "queued", "running", "orphaned"}

\* The steps of a release on its way forward, before an image is changed.
Early == {"stop entry", "drain", "stop workers", "count", "migrate", "migrating"}
EntryClosed == {"drain", "stop workers", "count", "migrate", "migrating"}
Drained == {"stop workers", "count", "migrate", "migrating"}
WorkersStopped == {"count", "migrate", "migrating"}

\* What a script knows of its release, wherever it is.
ReleaseSound(r) ==
    /\ r \in Release
    /\ r.todo \subseteq r.selected
    /\ r.alone => r.selected = {"web"}
    /\ r.pc \in Early => ~r.back /\ ~r.alone
    /\ r.pc = "update" => r.changed

\* A release puts images in place on its way forward, under a closed entry.
UpdatesForward(r) == r.pc = "update" /\ ~r.back /\ ~r.alone /\ r.todo # {}

ReleasePhase ==
    /\ release.pc \in EntryClosed => running \cap Entry = {}
    /\ release.pc \in Drained => Active = {}
    /\ release.pc \in WorkersStopped => running \cap (release.selected \cap Workers) = {}
    /\ UpdatesForward(release) => Active = {} /\ "web" \notin running

BackupPhase ==
    /\ backup.pc \in {"drain", "stop workers"} => running \cap Entry = {}
    /\ backup.pc = "stop workers" => Active = {}

\* One script at a time.
Exclusive ==
    /\ release.pc # "idle" => lock = "release"
    /\ backup.pc # "idle" => lock = "backup"

Small == running \subseteq Services /\ jobs \in [Workers -> JobStates] /\ backup \in Backup

MaintenanceInv == Small /\ ReleaseSound(release) /\ Exclusive /\ ReleasePhase /\ BackupPhase

-------------------------------------------------------------------------------
(* What the operators on the records of the scripts return. *)

\* The script is somewhere else, with the same release.
Goes(q, r, pc) ==
    /\ q \in Release /\ q.pc = pc
    /\ q.alone = r.alone /\ q.selected = r.selected /\ q.todo = r.todo /\ q.back = r.back

LEMMA GotoGoes ==
    ASSUME NEW r \in Release, NEW pc \in {"drain", "stop workers", "count", "migrating",
                                          "open api", "open web", "verify", "done"}
    PROVE  Goes([r EXCEPT !.pc = pc], r, pc)
BY DEF Release, Goes

LEMMA FurtherGoes ==
    ASSUME NEW r \in Release
    PROVE  /\ LET q == [r EXCEPT !.pc = "update", !.changed = TRUE]
              IN  Goes(q, r, "update") /\ q.changed
           /\ Goes([r EXCEPT !.pc = "migrate", !.migrated = TRUE], r, "migrate")
           /\ Goes([r EXCEPT !.pc = "done", !.outcome = "complete"], r, "done")
           /\ Goes([r EXCEPT !.pc = "done", !.outcome = "unclosed"], r, "done")
           /\ LET pc == IF r.migrated THEN "close" ELSE "done"
              IN  Goes([r EXCEPT !.pc = pc, !.outcome = "restored"], r, pc)
<1>1. LET q == [r EXCEPT !.pc = "update", !.changed = TRUE]
      IN  Goes(q, r, "update") /\ q.changed
  BY DEF Release, Goes
<1>2. Goes([r EXCEPT !.pc = "migrate", !.migrated = TRUE], r, "migrate")
  BY DEF Release, Goes
<1>3. Goes([r EXCEPT !.pc = "done", !.outcome = "complete"], r, "done")
  BY DEF Release, Goes
<1>4. Goes([r EXCEPT !.pc = "done", !.outcome = "unclosed"], r, "done")
  BY DEF Release, Goes
<1>5. LET pc == IF r.migrated THEN "close" ELSE "done"
      IN  Goes([r EXCEPT !.pc = pc, !.outcome = "restored"], r, pc)
  BY DEF Release, Goes
<1> QED
  BY <1>1, <1>2, <1>3, <1>4, <1>5

\* A release that goes back does so whatever happens next.
Back(q) == q.back /\ q.pc \in {"update", "resume", "close", "done"}

LEMMA ReturnedSound ==
    ASSUME NEW r, ReleaseSound(r)
    PROVE  ReleaseSound(Returned(r)) /\ Back(Returned(r))
<1> DEFINE a == [r EXCEPT !.back = TRUE, !.todo = r.selected,
                          !.pc = IF r.changed THEN "update" ELSE "resume"]
           b == [r EXCEPT !.pc = IF r.migrated THEN "close" ELSE "done", !.outcome = "broken"]
<1>1. r \in Release
  BY DEF ReleaseSound
<1>2. /\ a \in Release /\ a.back /\ a.todo = r.selected /\ a.selected = r.selected
      /\ a.alone = r.alone /\ a.changed = r.changed
      /\ a.pc = IF r.changed THEN "update" ELSE "resume"
  BY <1>1 DEF Release
<1>3. /\ b \in Release /\ b.back = r.back /\ b.todo = r.todo /\ b.selected = r.selected
      /\ b.alone = r.alone
      /\ b.pc = IF r.migrated THEN "close" ELSE "done"
  BY <1>1 DEF Release
<1>4. Returned(r) = IF ~r.back THEN a ELSE b
  BY DEF Returned
<1> HIDE DEF a, b
<1>5. ReleaseSound(a) /\ Back(a)
  BY <1>2 DEF ReleaseSound, Back, Early
<1>6. r.back => ReleaseSound(b) /\ Back(b)
  BY <1>3 DEF ReleaseSound, Back, Early
<1> QED
  BY <1>4, <1>5, <1>6

LEMMA NoReleaseSound == ReleaseSound(NoRelease) /\ NoRelease.pc = "idle"
BY DEF NoRelease, ReleaseSound, Release, Changes, Early

LEMMA BackupGoes ==
    ASSUME NEW r \in Backup, NEW pc \in {"stop entry", "drain", "stop workers"}
    PROVE  [r EXCEPT !.pc = pc] \in Backup /\ [r EXCEPT !.pc = pc].pc = pc
BY DEF Backup

-------------------------------------------------------------------------------
(* What the commands do to the containers and the jobs. *)

LEMMA EntryIsNoWorker == Entry \cap Workers = {} /\ Services = Entry \cup Workers
                         /\ Entry = {"web", "api"}
BY ServicesAssumption DEF Services, Entry

\* No job is cut short by a command.
Spared == \A w \in Workers : ~CutShort(w)

LEMMA Stopped ==
    ASSUME Small, NEW S, Stop(S)
    PROVE  /\ running' = running \ S /\ running' \subseteq Services
           /\ jobs' \in [Workers -> JobStates]
           /\ Active = {} => jobs' = jobs
           /\ S \cap Workers = {} => jobs' = jobs
<1>1. jobs \in [Workers -> JobStates] /\ running \subseteq Services
  BY DEF Small
<1>2. running' = running \ S
  BY DEF Stop
<1>3. jobs' = [w \in Workers |-> IF w \in S /\ jobs[w] = "running" THEN "orphaned" ELSE jobs[w]]
  BY DEF Stop
<1>4. jobs' \in [Workers -> JobStates]
  BY <1>1, <1>3 DEF JobStates
<1>5. ASSUME Active = {} PROVE jobs' = jobs
  BY <1>1, <1>3, <1>5 DEF Active
<1>6. ASSUME S \cap Workers = {} PROVE jobs' = jobs
  BY <1>1, <1>3, <1>6
<1> QED
  BY <1>1, <1>2, <1>4, <1>5, <1>6

\* As far as the properties are concerned, jobs and containers stay as they are.
LEMMA SparedJobs ==
    ASSUME jobs' = jobs
    PROVE  Spared /\ Active' = Active
BY DEF Spared, CutShort, Active

-------------------------------------------------------------------------------
(* The application. *)

LEMMA ApplicationInv ==
    ASSUME MaintenanceInv, Application, UNCHANGED <<releaseVars, backupVars>>
    PROVE  MaintenanceInv' /\ Spared
<1>1. /\ Small /\ ReleaseSound(release) /\ Exclusive /\ ReleasePhase /\ BackupPhase
      /\ release' = release /\ backup' = backup
      /\ jobs \in [Workers -> JobStates] /\ running \subseteq Services
  BY DEF MaintenanceInv, Small, releaseVars, backupVars
<1>2. ASSUME running' = running, lock' = lock, jobs' \in [Workers -> JobStates], Spared,
             Active = {} /\ (running \cap Entry = {} \/ "web" \notin running) => jobs' = jobs
      PROVE  MaintenanceInv' /\ Spared
  <2>1. Small' /\ ReleaseSound(release)' /\ Exclusive'
    BY <1>1, <1>2 DEF Small, ReleaseSound, Exclusive
  <2>2. Active = {} /\ (running \cap Entry = {} \/ "web" \notin running) => Active' = {}
    BY <1>2 DEF Active
  <2>3. ReleasePhase'
    BY <1>1, <1>2, <2>2 DEF ReleasePhase, UpdatesForward, EntryClosed, Drained, WorkersStopped
  <2>4. BackupPhase'
    BY <1>1, <1>2, <2>2 DEF BackupPhase
  <2> QED
    BY <1>2, <2>1, <2>3, <2>4 DEF MaintenanceInv
<1>3. CASE UseEntry
  <2>1. running' = running /\ lock' = lock /\ "web" \in running /\ running \cap Entry # {}
    BY <1>3 DEF UseEntry, containers, Entry
  <2>2. jobs' \in [Workers -> JobStates] /\ Spared
    BY <1>1, <1>3 DEF UseEntry, Spared, CutShort, JobStates
  <2> QED
    BY <1>2, <2>1, <2>2
<1>4. ASSUME NEW w \in Workers, Work(w)
      PROVE  MaintenanceInv' /\ Spared
  <2>1. running' = running /\ lock' = lock /\ Active # {}
    BY <1>4 DEF Work, containers, Active
  <2>2. jobs' \in [Workers -> JobStates] /\ Spared
    BY <1>1, <1>4 DEF Work, Spared, CutShort, JobStates
  <2> QED
    BY <1>2, <2>1, <2>2
<1>5. ASSUME NEW w \in Workers, RecoverJob(w)
      PROVE  MaintenanceInv' /\ Spared
  <2>1. running' = running /\ lock' = lock /\ Active # {}
    BY <1>5 DEF RecoverJob, containers, Active
  <2>2. jobs' \in [Workers -> JobStates] /\ Spared
    BY <1>1, <1>5 DEF RecoverJob, Spared, CutShort, JobStates
  <2> QED
    BY <1>2, <2>1, <2>2
<1>6. CASE MigrationEnds
  <2>1. running' = running /\ lock' = lock /\ jobs' = jobs
    BY <1>6 DEF MigrationEnds, containers
  <2> QED
    BY <1>1, <1>2, <2>1, SparedJobs
<1>7. CASE StartByHand
  <2>1. lock = "free" /\ lock' = lock /\ jobs' = jobs /\ running' = Services
    BY <1>7 DEF StartByHand
  <2>2. release.pc = "idle" /\ backup.pc = "idle"
    BY <1>1, <2>1 DEF Exclusive
  <2>3. ReleasePhase' /\ BackupPhase'
    BY <1>1, <2>2 DEF ReleasePhase, BackupPhase, UpdatesForward, EntryClosed, Drained, WorkersStopped
  <2> QED
    BY <1>1, <2>1, <2>3, SparedJobs DEF MaintenanceInv, Small, ReleaseSound, Exclusive
<1> QED
  BY <1>3, <1>4, <1>5, <1>6, <1>7 DEF Application

-------------------------------------------------------------------------------
(* The steps of a release. *)

\* What every step of the script leaves to be shown.
LEMMA ReleaseMoves ==
    ASSUME MaintenanceInv, release.pc # "idle", lock' = lock, UNCHANGED backupVars,
           running' \subseteq Services, jobs' \in [Workers -> JobStates],
           ReleaseSound(release'), ReleasePhase'
    PROVE  MaintenanceInv'
<1>1. lock = "release" /\ backup.pc = "idle" /\ backup' = backup /\ backup \in Backup
  BY DEF MaintenanceInv, Exclusive, Small, backupVars
<1> QED
  BY <1>1 DEF MaintenanceInv, Small, Exclusive, BackupPhase, ReleaseSound

LEMMA GoingBack ==
    ASSUME MaintenanceInv, release.pc # "idle", lock' = lock, UNCHANGED backupVars,
           running' \subseteq Services, jobs' \in [Workers -> JobStates], GoBack
    PROVE  MaintenanceInv'
<1>1. ReleaseSound(release') /\ Back(release')
  BY ReturnedSound DEF MaintenanceInv, GoBack
<1>2. ReleasePhase'
  BY <1>1 DEF Back, ReleasePhase, UpdatesForward, EntryClosed, Drained, WorkersStopped
<1> QED
  BY <1>1, <1>2, ReleaseMoves

\* The release is somewhere else and no less sound.
LEMMA GoesSound ==
    ASSUME ReleaseSound(release), NEW q, NEW pc, Goes(q, release, pc),
           pc \in Early => release.pc \in Early,
           pc = "update" => q.changed
    PROVE  ReleaseSound(q)
BY DEF ReleaseSound, Goes

\* The steps after the last one that the phases constrain.
LEMMA GoesLate ==
    ASSUME MaintenanceInv, release.pc # "idle", lock' = lock, UNCHANGED backupVars,
           running' \subseteq Services, jobs' \in [Workers -> JobStates],
           NEW pc \in {"open api", "open web", "verify", "close", "done"},
           Goes(release', release, pc)
    PROVE  MaintenanceInv'
<1>1. ReleaseSound(release')
  BY GoesSound DEF MaintenanceInv, Early
<1>2. ReleasePhase'
  BY DEF Goes, ReleasePhase, UpdatesForward, EntryClosed, Drained, WorkersStopped
<1> QED
  BY <1>1, <1>2, ReleaseMoves

LEMMA BeginInv ==
    ASSUME MaintenanceInv, UNCHANGED backupVars,
           NEW S \in SUBSET Services, NEW change \in Changes, NEW alone \in BOOLEAN,
           NEW pc \in {"stop entry", "update"}, Prepare(S, change, alone, pc),
           alone <=> pc = "update", alone => S = {"web"}
    PROVE  MaintenanceInv' /\ Spared
<1>1. /\ lock = "free" /\ lock' = "release" /\ running' = running /\ jobs' = jobs
      /\ release' = [NoRelease EXCEPT !.pc = pc, !.alone = alone, !.selected = S,
                                      !.change = change, !.changed = alone, !.todo = S]
  BY DEF Prepare, containers
<1>2. /\ release' \in Release /\ release'.pc = pc /\ release'.alone = alone
      /\ release'.selected = S /\ release'.todo = S /\ release'.changed = alone
      /\ ~release'.back
  BY <1>1 DEF NoRelease, Release
<1>3. ReleaseSound(release')
  BY <1>2 DEF ReleaseSound, Early
<1>4. ReleasePhase'
  BY <1>2 DEF ReleasePhase, UpdatesForward, EntryClosed, Drained, WorkersStopped
<1>5. backup.pc = "idle" /\ backup' = backup /\ Small
  BY <1>1 DEF MaintenanceInv, Exclusive, backupVars
<1> QED
  BY <1>1, <1>2, <1>3, <1>4, <1>5, SparedJobs
  DEF MaintenanceInv, Small, Exclusive, BackupPhase, ReleaseSound

LEMMA StopEntryInv ==
    ASSUME MaintenanceInv, StopEntry, UNCHANGED backupVars
    PROVE  MaintenanceInv' /\ Spared
<1>1. /\ Small /\ ReleaseSound(release) /\ release \in Release
      /\ release.pc = "stop entry" /\ lock' = lock
  BY DEF MaintenanceInv, ReleaseSound, StopEntry, Script
<1>2. PICK S \in SUBSET Entry : Stop(S) /\ ((S = Entry /\ Goto("drain")) \/ GoBack)
  BY DEF StopEntry
<1>3. /\ running' = running \ S /\ running' \subseteq Services
      /\ jobs' \in [Workers -> JobStates] /\ jobs' = jobs
  BY <1>1, <1>2, Stopped, EntryIsNoWorker
<1>4. CASE GoBack
  BY <1>1, <1>3, <1>4, GoingBack, SparedJobs
<1>5. CASE S = Entry /\ Goto("drain")
  <2>1. Goes(release', release, "drain")
    BY <1>1, <1>5, GotoGoes DEF Goto
  <2>2. ReleaseSound(release')
    BY <1>1, <2>1, GoesSound DEF Early
  <2>3. ReleasePhase'
    BY <1>3, <1>5, <2>1 DEF Goes, ReleasePhase, UpdatesForward, Drained, WorkersStopped
  <2> QED
    BY <1>1, <1>3, <2>2, <2>3, ReleaseMoves, SparedJobs
<1> QED
  BY <1>2, <1>4, <1>5

LEMMA DrainInv ==
    ASSUME MaintenanceInv, Drain, UNCHANGED backupVars
    PROVE  MaintenanceInv' /\ Spared
<1>1. /\ Small /\ ReleaseSound(release) /\ release \in Release /\ ReleasePhase
      /\ release.pc = "drain" /\ lock' = lock
      /\ running' = running /\ running \subseteq Services
      /\ jobs' = jobs /\ jobs \in [Workers -> JobStates]
  BY DEF MaintenanceInv, Small, ReleaseSound, Drain, Script, containers
<1>2. CASE GoBack
  BY <1>1, <1>2, GoingBack, SparedJobs
<1>3. CASE Active = {} /\ Goto("stop workers")
  <2>1. Goes(release', release, "stop workers")
    BY <1>1, <1>3, GotoGoes DEF Goto
  <2>2. ReleaseSound(release')
    BY <1>1, <2>1, GoesSound DEF Early
  <2>3. ReleasePhase'
    BY <1>1, <1>3, <2>1, SparedJobs DEF Goes, ReleasePhase, UpdatesForward, EntryClosed, WorkersStopped
  <2> QED
    BY <1>1, <2>2, <2>3, ReleaseMoves, SparedJobs
<1> QED
  BY <1>2, <1>3 DEF Drain

LEMMA StopWorkersInv ==
    ASSUME MaintenanceInv, StopWorkers, UNCHANGED backupVars
    PROVE  MaintenanceInv' /\ Spared
<1> DEFINE old == release.selected \cap Workers
<1>1. /\ Small /\ ReleaseSound(release) /\ release \in Release /\ ReleasePhase
      /\ release.pc = "stop workers" /\ lock' = lock
  BY DEF MaintenanceInv, ReleaseSound, StopWorkers, Script
<1>2. PICK S \in SUBSET old : Stop(S) /\ ((S = old /\ Goto("count")) \/ GoBack)
  BY DEF StopWorkers
<1>3. Active = {} /\ running \cap Entry = {}
  BY <1>1 DEF ReleasePhase, Drained, EntryClosed
<1>4. /\ running' = running \ S /\ running' \subseteq Services
      /\ jobs' \in [Workers -> JobStates] /\ jobs' = jobs
  BY <1>1, <1>2, <1>3, Stopped
<1>5. CASE GoBack
  BY <1>1, <1>4, <1>5, GoingBack, SparedJobs
<1>6. CASE S = old /\ Goto("count")
  <2>1. Goes(release', release, "count")
    BY <1>1, <1>6, GotoGoes DEF Goto
  <2>2. ReleaseSound(release')
    BY <1>1, <2>1, GoesSound DEF Early
  <2>3. running' \cap (release'.selected \cap Workers) = {}
    BY <1>4, <1>6, <2>1 DEF Goes
  <2>4. ReleasePhase'
    BY <1>3, <1>4, <2>1, <2>3, SparedJobs DEF Goes, ReleasePhase, UpdatesForward
  <2> QED
    BY <1>1, <1>4, <2>2, <2>4, ReleaseMoves, SparedJobs
<1> QED
  BY <1>2, <1>5, <1>6

\* After the workers are stopped nothing runs that would disturb a migration.
LEMMA Quiet ==
    ASSUME MaintenanceInv, release.pc \in WorkersStopped
    PROVE  /\ Active = {} /\ running \cap Entry = {} /\ "web" \notin running
           /\ running \cap (release.selected \cap Workers) = {}
BY EntryIsNoWorker DEF MaintenanceInv, ReleasePhase, WorkersStopped, Drained, EntryClosed

\* From one quiet step to the next, or to the images, without a command.
LEMMA QuietGoes ==
    ASSUME MaintenanceInv, release.pc \in WorkersStopped, lock' = lock, UNCHANGED backupVars,
           UNCHANGED containers, jobs' = jobs,
           NEW pc \in {"migrate", "migrating", "update"}, Goes(release', release, pc),
           pc = "update" => release'.changed
    PROVE  MaintenanceInv'
<1>1. ReleaseSound(release') /\ Small /\ running' = running /\ Active' = Active
      /\ running' \subseteq Services /\ jobs' \in [Workers -> JobStates]
  BY GoesSound, SparedJobs DEF MaintenanceInv, Early, WorkersStopped, containers, Small
<1>2. ReleasePhase'
  BY <1>1, Quiet DEF Goes, ReleasePhase
<1> QED
  BY <1>1, <1>2, ReleaseMoves DEF WorkersStopped

LEMMA CountAgainInv ==
    ASSUME MaintenanceInv, CountAgain, UNCHANGED backupVars
    PROVE  MaintenanceInv' /\ Spared
<1>1. /\ release \in Release /\ release.pc = "count" /\ lock' = lock
      /\ UNCHANGED containers /\ jobs' = jobs
      /\ running' \subseteq Services /\ jobs' \in [Workers -> JobStates]
  BY DEF MaintenanceInv, Small, ReleaseSound, CountAgain, Script, containers
<1>2. CASE GoBack
  BY <1>1, <1>2, GoingBack, SparedJobs
<1>3. CASE release' = [release EXCEPT !.pc = "update", !.changed = TRUE]
  <2>1. Goes(release', release, "update") /\ release'.changed
    BY <1>1, <1>3, FurtherGoes
  <2> QED
    BY <1>1, <2>1, QuietGoes, SparedJobs DEF WorkersStopped
<1>4. CASE release' = [release EXCEPT !.pc = "migrate", !.migrated = TRUE]
  <2>1. Goes(release', release, "migrate")
    BY <1>1, <1>4, FurtherGoes
  <2> QED
    BY <1>1, <2>1, QuietGoes, SparedJobs DEF WorkersStopped
<1> QED
  BY <1>2, <1>3, <1>4 DEF CountAgain

LEMMA StartMigrationInv ==
    ASSUME MaintenanceInv, StartMigration, UNCHANGED backupVars
    PROVE  MaintenanceInv' /\ Spared
<1>1. /\ release \in Release /\ release.pc = "migrate" /\ lock' = lock
      /\ UNCHANGED containers /\ jobs' = jobs
      /\ running' \subseteq Services /\ jobs' \in [Workers -> JobStates]
  BY DEF MaintenanceInv, Small, ReleaseSound, StartMigration, Script, containers
<1>2. CASE GoBack
  BY <1>1, <1>2, GoingBack, SparedJobs
<1>3. CASE Goto("migrating")
  <2>1. Goes(release', release, "migrating")
    BY <1>1, <1>3, GotoGoes DEF Goto
  <2> QED
    BY <1>1, <2>1, QuietGoes, SparedJobs DEF WorkersStopped
<1> QED
  BY <1>2, <1>3 DEF StartMigration

LEMMA MigrationReturnsInv ==
    ASSUME MaintenanceInv, MigrationReturns, UNCHANGED backupVars
    PROVE  MaintenanceInv' /\ Spared
<1>1. /\ release \in Release /\ release.pc = "migrating" /\ lock' = lock
      /\ UNCHANGED containers /\ jobs' = jobs
      /\ running' \subseteq Services /\ jobs' \in [Workers -> JobStates]
  BY DEF MaintenanceInv, Small, ReleaseSound, MigrationReturns, Script, containers
<1>2. CASE GoBack
  BY <1>1, <1>2, GoingBack, SparedJobs
<1>3. CASE release' = [release EXCEPT !.pc = "update", !.changed = TRUE]
  <2>1. Goes(release', release, "update") /\ release'.changed
    BY <1>1, <1>3, FurtherGoes
  <2> QED
    BY <1>1, <2>1, QuietGoes, SparedJobs DEF WorkersStopped
<1> QED
  BY <1>2, <1>3 DEF MigrationReturns

\* Going back after images were changed, a release may cut jobs short.
Excused == release.back /\ release.changed

LEMMA UpdateInv ==
    ASSUME MaintenanceInv, NEW s \in Services, Update(s), UNCHANGED backupVars
    PROVE  MaintenanceInv' /\ (Spared \/ Excused)
<1>1. /\ Small /\ ReleaseSound(release) /\ release \in Release /\ ReleasePhase
      /\ release.pc = "update" /\ lock' = lock /\ s \in release.todo
      /\ s = "web" => release.todo = {"web"}
      /\ running \subseteq Services /\ jobs \in [Workers -> JobStates]
  BY DEF MaintenanceInv, Small, ReleaseSound, Update, Script
<1>2. \/ UNCHANGED <<running, jobs>>
      \/ Up(s, Target(s))
      \/ Stop({s})
  BY DEF Update, containers
<1>3. /\ running' \subseteq running \cup {s} /\ running' \subseteq Services
      /\ jobs' \in [Workers -> JobStates]
      /\ Active = {} \/ s \notin Workers => jobs' = jobs
  <2>1. CASE UNCHANGED <<running, jobs>>
    BY <1>1, <2>1
  <2>2. CASE Stop({s})
    BY <1>1, <2>2, Stopped
  <2>3. CASE Up(s, Target(s))
    <3>1. running' = running \cup {s}
          /\ jobs' = [w \in Workers |-> IF w = s /\ image[s] # Target(s) /\ jobs[w] = "running"
                                        THEN "orphaned" ELSE jobs[w]]
      BY <2>3 DEF Up
    <3>2. jobs' \in [Workers -> JobStates]
      BY <1>1, <3>1 DEF JobStates
    <3>3. ASSUME Active = {} \/ s \notin Workers PROVE jobs' = jobs
      BY <1>1, <3>1, <3>3 DEF Active
    <3> QED
      BY <1>1, <3>1, <3>2, <3>3
  <2> QED
    BY <1>2, <2>1, <2>2, <2>3
<1>4. release.back \/ jobs' = jobs
  <2>1. CASE release.alone
    BY <1>1, <1>3, <2>1, EntryIsNoWorker DEF ReleaseSound
  <2>2. CASE ~release.alone /\ ~release.back
    BY <1>1, <1>3, <2>2 DEF ReleasePhase, UpdatesForward
  <2> QED
    BY <2>1, <2>2
<1>5. Spared \/ Excused
  BY <1>1, <1>4, SparedJobs DEF ReleaseSound, Excused
<1>6. CASE GoBack
  BY <1>1, <1>3, <1>5, <1>6, GoingBack
<1>7. CASE release' = [release EXCEPT !.todo = release.todo \ {s}]
  <2>1. /\ release' \in Release /\ release'.pc = "update" /\ release'.todo = release.todo \ {s}
        /\ release'.alone = release.alone /\ release'.back = release.back
        /\ release'.selected = release.selected /\ release'.changed = release.changed
    BY <1>1, <1>7 DEF Release
  <2>2. ReleaseSound(release')
    BY <1>1, <2>1 DEF ReleaseSound, Early
  <2>3. ASSUME UpdatesForward(release)' PROVE Active' = {} /\ "web" \notin running'
    <3>1. UpdatesForward(release) /\ s # "web"
      BY <1>1, <2>1, <2>3 DEF UpdatesForward
    <3>2. Active = {} /\ "web" \notin running
      BY <1>1, <3>1 DEF ReleasePhase
    <3> QED
      BY <1>3, <3>1, <3>2, SparedJobs
  <2>4. ReleasePhase'
    BY <2>1, <2>3 DEF ReleasePhase, EntryClosed, Drained, WorkersStopped
  <2> QED
    BY <1>1, <1>3, <1>5, <2>2, <2>4, ReleaseMoves
<1> QED
  BY <1>6, <1>7 DEF Update

\* The steps in which nothing but the release moves on.
LEMMA CalmLate ==
    ASSUME MaintenanceInv, release.pc # "idle", lock' = lock, UNCHANGED backupVars,
           running' \subseteq Services, jobs' = jobs,
           \/ GoBack
           \/ \E pc \in {"open api", "open web", "verify", "close", "done"} :
                 Goes(release', release, pc)
    PROVE  MaintenanceInv' /\ Spared
<1>1. jobs' \in [Workers -> JobStates]
  BY DEF MaintenanceInv, Small
<1> QED
  BY <1>1, GoingBack, GoesLate, SparedJobs

LEMMA UpdatedInv ==
    ASSUME MaintenanceInv, Updated, UNCHANGED backupVars
    PROVE  MaintenanceInv' /\ Spared
<1>1. /\ release \in Release /\ release.pc = "update" /\ lock' = lock
      /\ jobs' = jobs /\ running' \subseteq Services
  BY DEF MaintenanceInv, Small, ReleaseSound, Updated, Script, containers
<1>2. \E pc \in {"verify", "open api"} : Goes(release', release, pc)
  BY <1>1, GotoGoes DEF Updated, Goto
<1> QED
  BY <1>1, <1>2, CalmLate

LEMMA OpenInv ==
    ASSUME MaintenanceInv, OpenApi \/ OpenWeb \/ Resume, UNCHANGED backupVars
    PROVE  MaintenanceInv' /\ Spared
<1>1. /\ release \in Release /\ release.pc # "idle" /\ lock' = lock
      /\ jobs' = jobs /\ running \subseteq Services
  BY DEF MaintenanceInv, Small, ReleaseSound, OpenApi, OpenWeb, Resume, Script
<1>2. \E S \in SUBSET Services : Start(S)
  BY EntryIsNoWorker DEF OpenApi, OpenWeb, Resume
<1>3. running' \subseteq Services
  BY <1>1, <1>2 DEF Start
<1>4. GoBack \/ \E pc \in {"open web", "verify"} : Goto(pc)
  BY DEF OpenApi, OpenWeb, Resume
<1>5. GoBack \/ \E pc \in {"open web", "verify"} : Goes(release', release, pc)
  BY <1>1, <1>4, GotoGoes DEF Goto
<1> QED
  BY <1>1, <1>3, <1>5, CalmLate

LEMMA VerifyInv ==
    ASSUME MaintenanceInv, Verify, UNCHANGED backupVars
    PROVE  MaintenanceInv' /\ Spared
<1>1. /\ release \in Release /\ release.pc = "verify" /\ lock' = lock
      /\ jobs' = jobs /\ running' \subseteq Services
  BY DEF MaintenanceInv, Small, ReleaseSound, Verify, Script, containers
<1>2. CASE GoBack
  BY <1>1, <1>2, CalmLate
<1>3. CASE release' = [release EXCEPT !.pc = "done", !.outcome = "complete"]
  BY <1>1, <1>3, FurtherGoes, CalmLate
<1>4. CASE release' = [release EXCEPT !.pc = IF release.migrated THEN "close" ELSE "done",
                                      !.outcome = "restored"]
  <2>1. \E pc \in {"close", "done"} : Goes(release', release, pc)
    BY <1>1, <1>4, FurtherGoes
  <2> QED
    BY <1>1, <2>1, CalmLate
<1> QED
  BY <1>2, <1>3, <1>4 DEF Verify

LEMMA CloseInv ==
    ASSUME MaintenanceInv, Close, UNCHANGED backupVars
    PROVE  MaintenanceInv' /\ Spared
<1>1. /\ release \in Release /\ release.pc = "close" /\ lock' = lock /\ Small
  BY DEF MaintenanceInv, ReleaseSound, Close, Script
<1>2. PICK S \in SUBSET Entry : Stop(S)
  BY DEF Close
<1>3. jobs' = jobs /\ running' \subseteq Services
  BY <1>1, <1>2, Stopped, EntryIsNoWorker
<1>4. Goto("done") \/ release' = [release EXCEPT !.pc = "done", !.outcome = "unclosed"]
  BY DEF Close
<1>5. Goes(release', release, "done")
  BY <1>1, <1>4, GotoGoes, FurtherGoes DEF Goto
<1> QED
  BY <1>1, <1>3, <1>5, CalmLate

LEMMA LeaveReleaseInv ==
    ASSUME MaintenanceInv, release.pc # "idle", LeaveRelease, UNCHANGED backupVars
    PROVE  MaintenanceInv' /\ Spared
<1>1. /\ release' = NoRelease /\ lock' = "free" /\ running' = running /\ jobs' = jobs
      /\ backup' = backup /\ backup.pc = "idle"
  BY DEF MaintenanceInv, Exclusive, LeaveRelease, containers, backupVars
<1>2. ReleaseSound(release') /\ release'.pc = "idle"
  BY <1>1, NoReleaseSound
<1>3. ReleasePhase'
  BY <1>2 DEF ReleasePhase, UpdatesForward, EntryClosed, Drained, WorkersStopped
<1> QED
  BY <1>1, <1>2, <1>3, SparedJobs
  DEF MaintenanceInv, Small, Exclusive, BackupPhase, ReleaseSound

LEMMA ReleaseInv ==
    ASSUME MaintenanceInv, ReleaseNext, UNCHANGED backupVars
    PROVE  MaintenanceInv' /\ (Spared \/ Excused)
<1>1. ASSUME NEW selected \in SUBSET Backend, NEW change \in Changes,
             BeginBackend(selected, change)
      PROVE  MaintenanceInv' /\ Spared
  <2>1. selected \in SUBSET Services /\ Services \in SUBSET Services
    BY EntryIsNoWorker DEF Backend
  <2>2. PICK S \in SUBSET Services : Prepare(S, change, FALSE, "stop entry")
    BY <1>1, <2>1 DEF BeginBackend
  <2> QED
    BY <2>2, BeginInv
<1>2. CASE BeginWeb
  <2>1. {"web"} \in SUBSET Services /\ "none" \in Changes
    BY EntryIsNoWorker DEF Changes
  <2> QED
    BY <1>2, <2>1, BeginInv DEF BeginWeb
<1>3. CASE EndRelease
  BY <1>3, LeaveReleaseInv DEF EndRelease
<1>4. CASE ReleaseDies
  BY <1>4, LeaveReleaseInv DEF ReleaseDies
<1>5. CASE \E s \in Services : Update(s)
  BY <1>5, UpdateInv
<1> QED
  BY <1>1, <1>2, <1>3, <1>4, <1>5, StopEntryInv, DrainInv, StopWorkersInv, CountAgainInv,
     StartMigrationInv, MigrationReturnsInv, UpdatedInv, OpenInv, VerifyInv, CloseInv
  DEF ReleaseNext, ReleaseScript

-------------------------------------------------------------------------------
(* The steps of a backup. *)

\* What every step of the script leaves to be shown.
LEMMA BackupMoves ==
    ASSUME MaintenanceInv, backup.pc # "idle", lock' = lock, UNCHANGED releaseVars,
           running' \subseteq Services, jobs' = jobs, backup' \in Backup, BackupPhase'
    PROVE  MaintenanceInv' /\ Spared
<1>1. lock = "backup" /\ release.pc = "idle" /\ release' = release
  BY DEF MaintenanceInv, Exclusive, releaseVars
<1>2. ReleasePhase'
  BY <1>1 DEF ReleasePhase, UpdatesForward, EntryClosed, Drained, WorkersStopped
<1> QED
  BY <1>1, <1>2, SparedJobs DEF MaintenanceInv, Small, Exclusive, ReleaseSound

\* The steps that the phases do not constrain.
Elsewhere == backup' \in Backup /\ backup'.pc \notin {"drain", "stop workers"}

LEMMA BackupElsewhere ==
    ASSUME MaintenanceInv, backup.pc # "idle", lock' = lock, UNCHANGED releaseVars,
           running' \subseteq Services, jobs' = jobs, Elsewhere
    PROVE  MaintenanceInv' /\ Spared
<1>1. BackupPhase'
  BY DEF BackupPhase, Elsewhere
<1> QED
  BY <1>1, BackupMoves DEF Elsewhere

LEMMA ToElsewhere ==
    ASSUME backup \in Backup,
           NEW pc \in {"count", "dump", "archive", "resume", "validate", "restore", "drop",
                       "describe", "ready", "rename", "prune", "failed", "done"},
           \/ To(pc) \/ Error(pc)
           \/ backup' = [backup EXCEPT !.pc = pc, !.error = TRUE, !.stuck = TRUE]
    PROVE  Elsewhere
<1>1. CASE To(pc)
  BY <1>1 DEF To, Elsewhere, Backup
<1>2. CASE Error(pc)
  BY <1>2 DEF Error, Elsewhere, Backup
<1>3. CASE backup' = [backup EXCEPT !.pc = pc, !.error = TRUE, !.stuck = TRUE]
  BY <1>3 DEF Elsewhere, Backup
<1> QED
  BY <1>1, <1>2, <1>3

LEMMA BeginBackupInv ==
    ASSUME MaintenanceInv, BeginBackup, UNCHANGED releaseVars
    PROVE  MaintenanceInv' /\ Spared
<1>1. /\ lock = "free" /\ lock' = "backup" /\ running' = running /\ jobs' = jobs
      /\ backup \in Backup /\ To("stop entry") /\ release' = release /\ release.pc = "idle"
  BY DEF MaintenanceInv, Small, Exclusive, BeginBackup, containers, releaseVars
<1>2. backup' \in Backup /\ backup'.pc = "stop entry"
  BY <1>1, BackupGoes DEF To
<1>3. ReleasePhase' /\ BackupPhase'
  BY <1>1, <1>2 DEF ReleasePhase, UpdatesForward, EntryClosed, Drained, WorkersStopped, BackupPhase
<1> QED
  BY <1>1, <1>2, <1>3, SparedJobs DEF MaintenanceInv, Small, Exclusive, ReleaseSound

LEMMA CloseEntryInv ==
    ASSUME MaintenanceInv, CloseEntry, UNCHANGED releaseVars
    PROVE  MaintenanceInv' /\ Spared
<1>1. /\ Small /\ backup \in Backup /\ backup.pc = "stop entry" /\ lock' = lock
  BY DEF MaintenanceInv, Small, CloseEntry, BackupStep
<1>2. PICK S \in SUBSET Entry : Stop(S) /\ ((S = Entry /\ To("drain")) \/ Error("resume"))
  BY DEF CloseEntry
<1>3. running' = running \ S /\ running' \subseteq Services /\ jobs' = jobs
  BY <1>1, <1>2, Stopped, EntryIsNoWorker
<1>4. CASE S = Entry /\ To("drain")
  <2>1. backup' \in Backup /\ backup'.pc = "drain"
    BY <1>1, <1>4, BackupGoes DEF To
  <2>2. BackupPhase'
    BY <1>3, <1>4, <2>1 DEF BackupPhase
  <2> QED
    BY <1>1, <1>3, <2>1, <2>2, BackupMoves
<1>5. CASE Error("resume")
  BY <1>1, <1>3, <1>5, ToElsewhere, BackupElsewhere
<1> QED
  BY <1>2, <1>4, <1>5

LEMMA DrainJobsInv ==
    ASSUME MaintenanceInv, DrainJobs, UNCHANGED releaseVars
    PROVE  MaintenanceInv' /\ Spared
<1>1. /\ BackupPhase /\ backup \in Backup /\ backup.pc = "drain" /\ lock' = lock
      /\ running' = running /\ running \subseteq Services /\ jobs' = jobs
  BY DEF MaintenanceInv, Small, DrainJobs, BackupStep, Calm
<1>2. CASE Active = {} /\ To("stop workers")
  <2>1. backup' \in Backup /\ backup'.pc = "stop workers"
    BY <1>1, <1>2, BackupGoes DEF To
  <2>2. BackupPhase'
    BY <1>1, <1>2, <2>1, SparedJobs DEF BackupPhase
  <2> QED
    BY <1>1, <2>1, <2>2, BackupMoves
<1>3. CASE Error("resume")
  BY <1>1, <1>3, ToElsewhere, BackupElsewhere
<1> QED
  BY <1>2, <1>3 DEF DrainJobs

LEMMA StopAllWorkersInv ==
    ASSUME MaintenanceInv, StopAllWorkers, UNCHANGED releaseVars
    PROVE  MaintenanceInv' /\ Spared
<1>1. /\ Small /\ backup \in Backup /\ backup.pc = "stop workers" /\ lock' = lock /\ Active = {}
  BY DEF MaintenanceInv, Small, BackupPhase, StopAllWorkers, BackupStep
<1>2. PICK S \in SUBSET Workers : Stop(S)
  BY DEF StopAllWorkers
<1>3. running' \subseteq Services /\ jobs' = jobs
  BY <1>1, <1>2, Stopped
<1>4. To("count") \/ Error("resume")
  BY DEF StopAllWorkers
<1>5. Elsewhere
  BY <1>1, <1>4, ToElsewhere
<1> QED
  BY <1>1, <1>3, <1>5, BackupElsewhere

\* From the count to the final name: no container is stopped, and only the error and the
\* step of the script change.
LEMMA LaterInv ==
    ASSUME MaintenanceInv, UNCHANGED releaseVars,
           \/ CountRows \/ Dump \/ Archive \/ ResumeServices \/ Validate \/ RestoreApart
           \/ DropRestored \/ Describe \/ MarkReady \/ Rename \/ MarkFailed
    PROVE  MaintenanceInv' /\ Spared
<1>1. Small /\ backup \in Backup /\ running \subseteq Services
  BY DEF MaintenanceInv, Small
<1>2. /\ backup.pc # "idle" /\ lock' = lock /\ jobs' = jobs
      /\ running' = running \/ \E S \in SUBSET Services : Start(S)
  BY DEF CountRows, Dump, Archive, ResumeServices, Validate, RestoreApart, DropRestored, Describe,
         MarkReady, Rename, MarkFailed, BackupStep, Calm
<1>3. running' \subseteq Services
  BY <1>1, <1>2 DEF Start
<1>4. \E pc \in {"dump", "archive", "resume", "validate", "restore", "drop", "describe", "ready",
                 "rename", "prune", "failed", "done"} :
         \/ To(pc) \/ Error(pc)
         \/ backup' = [backup EXCEPT !.pc = pc, !.error = TRUE, !.stuck = TRUE]
  <2>1. CASE CountRows \/ Dump \/ Archive
    BY <2>1 DEF CountRows, Dump, Archive
  <2>2. CASE ResumeServices
    BY <2>2 DEF ResumeServices
  <2>3. CASE Validate \/ RestoreApart \/ DropRestored
    BY <2>3 DEF Validate, RestoreApart, DropRestored
  <2>4. CASE Describe \/ MarkReady \/ Rename \/ MarkFailed
    BY <2>4 DEF Describe, MarkReady, Rename, MarkFailed
  <2> QED
    BY <2>1, <2>2, <2>3, <2>4
<1>5. Elsewhere
  BY <1>1, <1>4, ToElsewhere
<1> QED
  BY <1>2, <1>3, <1>5, BackupElsewhere

LEMMA PruneInv ==
    ASSUME MaintenanceInv, Prune, UNCHANGED releaseVars
    PROVE  MaintenanceInv' /\ Spared
<1>1. /\ backup \in Backup /\ backup.pc = "prune" /\ lock' = lock
      /\ running' \subseteq Services /\ jobs' = jobs
  BY DEF MaintenanceInv, Small, Prune, BackupStep, Calm
<1>2. backup' = backup \/ To("done") \/ Error("done")
  BY DEF Prune
<1>3. Elsewhere
  BY <1>1, <1>2, ToElsewhere DEF Elsewhere
<1> QED
  BY <1>1, <1>3, BackupElsewhere

LEMMA LeaveBackupInv ==
    ASSUME MaintenanceInv, backup.pc # "idle", LeaveBackup, UNCHANGED releaseVars
    PROVE  MaintenanceInv' /\ Spared
<1>1. /\ backup' = NoBackup /\ lock' = "free" /\ running' = running /\ jobs' = jobs
      /\ release' = release /\ release.pc = "idle"
  BY DEF MaintenanceInv, Exclusive, LeaveBackup, containers, releaseVars
<1>2. backup' \in Backup /\ backup'.pc = "idle"
  BY <1>1 DEF NoBackup, Backup
<1>3. ReleasePhase' /\ BackupPhase'
  BY <1>1, <1>2 DEF ReleasePhase, UpdatesForward, EntryClosed, Drained, WorkersStopped, BackupPhase
<1> QED
  BY <1>1, <1>2, <1>3, SparedJobs DEF MaintenanceInv, Small, Exclusive, ReleaseSound

LEMMA BackupInv ==
    ASSUME MaintenanceInv, BackupNext, UNCHANGED releaseVars
    PROVE  MaintenanceInv' /\ Spared
<1>1. CASE EndBackup
  BY <1>1, LeaveBackupInv DEF EndBackup
<1>2. CASE BackupDies
  BY <1>2, LeaveBackupInv DEF BackupDies
<1>3. CASE \/ CountRows \/ Dump \/ Archive \/ ResumeServices \/ Validate \/ RestoreApart
           \/ DropRestored \/ Describe \/ MarkReady \/ Rename \/ MarkFailed
  BY <1>3, LaterInv
<1> QED
  BY <1>1, <1>2, <1>3, BeginBackupInv, CloseEntryInv, DrainJobsInv, StopAllWorkersInv, PruneInv
  DEF BackupNext, BackupScript

-------------------------------------------------------------------------------
(* The types of the rest. *)

LEMMA Bounds == MaxReleases \in Nat /\ MaxBackups \in Nat
BY ServicesBoundsAssumption, BackupsAssumption

RestTyped ==
    /\ image \in [Services -> Images] /\ tag \in [Services -> Images]
    /\ migration \in BOOLEAN /\ data \in Moments
    /\ lock \in {"free", "release", "backup"}
    /\ failures \in Nat /\ crashes \in Nat
    /\ before \in [Services -> Images]
    /\ releases \in Images
    /\ dirs \in [1..MaxBackups -> Directory]
    /\ backups \in 0..MaxBackups /\ newest \in 0..MaxBackups

LEMMA ApplicationRest ==
    ASSUME RestTyped, Application, UNCHANGED <<releaseVars, backupVars>>
    PROVE  RestTyped'
BY DEF Application, UseEntry, Work, RecoverJob, MigrationEnds, StartByHand, RestTyped, Moments,
       containers, releaseVars, backupVars

LEMMA UpdateRest ==
    ASSUME RestTyped, NEW s \in Services, Update(s), UNCHANGED backupVars
    PROVE  RestTyped'
<1>1. Target(s) \in Images
  BY DEF RestTyped, Target
<1>2. image' = image \/ image' = [image EXCEPT ![s] = Target(s)]
  BY DEF Update, Up, containers
<1>3. tag' = tag \/ tag' = [tag EXCEPT ![s] = Target(s)]
  BY DEF Update, containers
<1>4. failures' \in Nat
  BY DEF RestTyped, Update, Failing
<1>5. UNCHANGED <<before, releases, data, lock, crashes, migration, dirs, backups, newest>>
  BY DEF Update, Script, backupVars
<1> QED
  BY <1>1, <1>2, <1>3, <1>4, <1>5 DEF RestTyped

LEMMA PrepareRest ==
    ASSUME RestTyped, NEW S, NEW change, NEW alone, NEW pc, Prepare(S, change, alone, pc),
           UNCHANGED backupVars
    PROVE  RestTyped'
<1>1. releases' \in Images /\ before' = image /\ lock' = "release"
  BY Bounds DEF RestTyped, Prepare, Images
<1>2. UNCHANGED <<image, tag, migration, data, failures, crashes, dirs, backups, newest>>
  BY DEF Prepare, containers, backupVars
<1> QED
  BY <1>1, <1>2 DEF RestTyped

LEMMA LeaveReleaseRest ==
    ASSUME RestTyped, EndRelease \/ ReleaseDies, UNCHANGED backupVars
    PROVE  RestTyped'
BY DEF RestTyped, EndRelease, ReleaseDies, LeaveRelease, containers, backupVars

LEMMA ReleaseRest ==
    ASSUME RestTyped, ReleaseNext, UNCHANGED backupVars
    PROVE  RestTyped'
<1>1. ASSUME NEW pc, Script(pc), UNCHANGED <<image, tag>>, migration' \in BOOLEAN,
             failures' = failures \/ Failing
      PROVE  RestTyped'
  BY <1>1 DEF RestTyped, Script, Failing, backupVars
<1>2. CASE StopEntry \/ Drain \/ StopWorkers
  BY <1>1, <1>2 DEF StopEntry, Drain, StopWorkers, containers, RestTyped
<1>3. CASE CountAgain \/ StartMigration \/ MigrationReturns
  BY <1>1, <1>3 DEF CountAgain, StartMigration, MigrationReturns, containers, RestTyped
<1>4. CASE Updated \/ OpenApi \/ OpenWeb
  BY <1>1, <1>4 DEF Updated, OpenApi, OpenWeb, containers, RestTyped
<1>5. CASE Resume \/ Verify \/ Close
  BY <1>1, <1>5 DEF Resume, Verify, Close, containers, RestTyped
<1>6. CASE BeginWeb \/ \E selected \in SUBSET Backend, change \in Changes :
                           BeginBackend(selected, change)
  BY <1>6, PrepareRest DEF BeginWeb, BeginBackend
<1> QED
  BY <1>2, <1>3, <1>4, <1>5, <1>6, UpdateRest, LeaveReleaseRest DEF ReleaseNext, ReleaseScript

\* Writing to one directory.
LEMMA Written ==
    ASSUME RestTyped, NEW n \in 0..MaxBackups, NEW d, n \in 1..MaxBackups => d \in Directory
    PROVE  [dirs EXCEPT ![n] = d] \in [1..MaxBackups -> Directory]
BY DEF RestTyped

LEMMA DirectoryChanged ==
    ASSUME NEW d \in Directory
    PROVE  /\ [d EXCEPT !.place = "incomplete"] \in Directory
           /\ [d EXCEPT !.place = "final"] \in Directory
           /\ [d EXCEPT !.metadata = TRUE] \in Directory
           /\ [d EXCEPT !.ready = FALSE, !.failed = TRUE] \in Directory
           /\ \A m \in Moments : [d EXCEPT !.dump = m] \in Directory
                                 /\ [d EXCEPT !.archive = m] \in Directory
           /\ \A kind \in Evidence : [d EXCEPT !.evidence = d.evidence \cup {kind}] \in Directory
           /\ \A r \in BOOLEAN : [d EXCEPT !.ready = r] \in Directory
                                 /\ [d EXCEPT !.place = "torn", !.ready = r] \in Directory
<1>1. [d EXCEPT !.place = "incomplete"] \in Directory
  BY DEF Directory
<1>2. [d EXCEPT !.place = "final"] \in Directory
  BY DEF Directory
<1>3. [d EXCEPT !.metadata = TRUE] \in Directory
  BY DEF Directory
<1>4. [d EXCEPT !.ready = FALSE, !.failed = TRUE] \in Directory
  BY DEF Directory
<1>5. ASSUME NEW m \in Moments
      PROVE  [d EXCEPT !.dump = m] \in Directory /\ [d EXCEPT !.archive = m] \in Directory
  BY DEF Directory
<1>6. ASSUME NEW kind \in Evidence
      PROVE  [d EXCEPT !.evidence = d.evidence \cup {kind}] \in Directory
  BY DEF Directory
<1>7. ASSUME NEW r \in BOOLEAN
      PROVE  [d EXCEPT !.ready = r] \in Directory
             /\ [d EXCEPT !.place = "torn", !.ready = r] \in Directory
  BY DEF Directory
<1> QED
  BY <1>1, <1>2, <1>3, <1>4, <1>5, <1>6, <1>7

LEMMA BackupRest ==
    ASSUME RestTyped, BackupNext, UNCHANGED releaseVars
    PROVE  RestTyped'
<1> DEFINE D == [1..MaxBackups -> Directory]
           n == backups
<1>1. /\ n \in 0..MaxBackups /\ dirs \in D
      /\ n \in 1..MaxBackups => dirs[n] \in Directory
      /\ data \in Moments /\ Evidence = {"resumed", "archive", "restored", "dropped"}
  BY DEF RestTyped, Evidence
<1>2. ASSUME NEW pc, BackupStep(pc), dirs' \in D, data' \in Moments,
             failures' = failures \/ Failing, newest' \in {newest, backups}
      PROVE  RestTyped'
  BY <1>2 DEF RestTyped, BackupStep, Failing, releaseVars
<1>3. CASE CloseEntry \/ DrainJobs \/ StopAllWorkers \/ CountRows
  BY <1>1, <1>2, <1>3 DEF CloseEntry, DrainJobs, StopAllWorkers, CountRows, Kept, Moments
<1>4. ASSUME NEW d, n \in 1..MaxBackups => d \in Directory, dirs' = [dirs EXCEPT ![n] = d]
      PROVE  dirs' \in D
  BY <1>1, <1>4, Written
<1>5. CASE Dump
  <2>1. dirs' \in D
    BY <1>1, <1>4, <1>5, DirectoryChanged DEF Dump
  <2> QED
    BY <1>1, <1>2, <1>5, <2>1 DEF Dump
<1>6. CASE Archive
  <2>1. dirs' \in D
    BY <1>1, <1>4, <1>6, DirectoryChanged DEF Archive
  <2> QED
    BY <1>1, <1>2, <1>6, <2>1 DEF Archive
<1>7. ASSUME NEW kind \in Evidence, Saw(kind)
      PROVE  dirs' \in D
  BY <1>1, <1>4, <1>7, DirectoryChanged DEF Saw
<1>8. CASE ResumeServices \/ Validate \/ RestoreApart \/ DropRestored
  <2>1. dirs' \in D
    BY <1>1, <1>7, <1>8 DEF ResumeServices, Validate, RestoreApart, DropRestored
  <2> QED
    BY <1>1, <1>2, <1>8, <2>1 DEF ResumeServices, Validate, RestoreApart, DropRestored
<1>9. CASE Describe
  <2>1. dirs' \in D
    BY <1>1, <1>4, <1>9, DirectoryChanged DEF Describe
  <2> QED
    BY <1>1, <1>2, <1>9, <2>1 DEF Describe
<1>10. CASE MarkReady
  <2>1. PICK r \in BOOLEAN : dirs' = [dirs EXCEPT ![n].ready = r]
    BY <1>10 DEF MarkReady
  <2>2. dirs' \in D
    BY <1>1, <1>4, <2>1, DirectoryChanged
  <2> QED
    BY <1>1, <1>2, <1>10, <2>2 DEF MarkReady
<1>11. CASE Rename
  <2>1. dirs' \in D
    BY <1>1, <1>4, <1>11, DirectoryChanged DEF Rename
  <2> QED
    BY <1>1, <1>2, <1>11, <2>1 DEF Rename
<1>12. CASE MarkFailed
  <2>1. dirs' \in D
    BY <1>1, <1>4, <1>12, DirectoryChanged DEF MarkFailed
  <2> QED
    BY <1>1, <1>2, <1>12, <2>1 DEF MarkFailed
<1>13. ASSUME NEW m \in Surplus, Tear(m)
       PROVE  dirs' \in D
  <2>1. m \in 1..MaxBackups /\ dirs[m] \in Directory
    BY <1>1, <1>13 DEF Surplus, Completed
  <2>2. PICK r \in BOOLEAN : dirs' = [dirs EXCEPT ![m] = [dirs[m] EXCEPT !.place = "torn", !.ready = r]]
    BY <1>1, <1>13, <2>1 DEF Tear
  <2> QED
    BY <1>1, <2>1, <2>2, DirectoryChanged
<1>14. CASE Prune
  <2>1. dirs' \in D
    <3>1. ASSUME NEW m \in Surplus, dirs' = [dirs EXCEPT ![m] = NoDirectory]
          PROVE  dirs' \in D
      BY <1>1, <3>1 DEF NoDirectory, Directory
    <3> QED
      BY <1>1, <1>13, <1>14, <3>1 DEF Prune
  <2> QED
    BY <1>1, <1>2, <1>14, <2>1 DEF Prune
<1>15. CASE BeginBackup
  <2>1. /\ backups < MaxBackups /\ backups' = backups + 1 /\ lock' = "backup"
        /\ UNCHANGED <<image, tag, migration, data, failures, crashes, newest, before, releases>>
        /\ dirs' = [dirs EXCEPT ![backups'].place = "incomplete"]
    BY <1>15 DEF BeginBackup, containers, releaseVars
  <2>2. backups' \in 1..MaxBackups
    BY <1>1, <2>1, Bounds
  <2>3. dirs' \in D
    BY <1>1, <2>1, <2>2, DirectoryChanged
  <2> QED
    BY <2>1, <2>2, <2>3 DEF RestTyped
<1>16. CASE EndBackup \/ BackupDies
  <2>1. dirs' \in D
    BY <1>1, <1>13, <1>16 DEF EndBackup, BackupDies
  <2> QED
    BY <1>16, <2>1 DEF RestTyped, EndBackup, BackupDies, LeaveBackup, containers, releaseVars
<1> QED
  BY <1>3, <1>5, <1>6, <1>8, <1>9, <1>10, <1>11, <1>12, <1>14, <1>15, <1>16
  DEF BackupNext, BackupScript

-------------------------------------------------------------------------------
(* The theorems. *)

LEMMA InitInv == Init => MaintenanceInv
<1> SUFFICES ASSUME Init PROVE MaintenanceInv
  OBVIOUS
<1>1. Small
  BY DEF Init, ServicesInit, BackupsInit, Small, JobStates, NoBackup, Backup
<1>2. release = NoRelease /\ backup.pc = "idle"
  BY DEF Init, ReleasesInit, BackupsInit, NoBackup
<1>3. ReleaseSound(release) /\ release.pc = "idle"
  BY <1>2, NoReleaseSound
<1> QED
  BY <1>1, <1>2, <1>3 DEF MaintenanceInv, Exclusive, ReleasePhase, BackupPhase, UpdatesForward,
                          EntryClosed, Drained, WorkersStopped

LEMMA StutterInv ==
    ASSUME MaintenanceInv, UNCHANGED vars
    PROVE  MaintenanceInv' /\ Spared
<1>1. running' = running /\ jobs' = jobs /\ lock' = lock /\ release' = release /\ backup' = backup
  BY DEF vars, services, containers, releaseVars, backupVars
<1> QED
  BY <1>1, SparedJobs DEF MaintenanceInv, Small, Exclusive, ReleaseSound, ReleasePhase, BackupPhase,
                          UpdatesForward

LEMMA StepInv ==
    ASSUME MaintenanceInv, [Next]_vars
    PROVE  MaintenanceInv' /\ (Spared \/ Excused)
<1>1. CASE ReleaseNext /\ UNCHANGED backupVars
  BY <1>1, ReleaseInv
<1>2. CASE BackupNext /\ UNCHANGED releaseVars
  BY <1>2, BackupInv
<1>3. CASE Application /\ UNCHANGED <<releaseVars, backupVars>>
  BY <1>3, ApplicationInv
<1>4. CASE UNCHANGED vars
  BY <1>4, StutterInv
<1> QED
  BY <1>1, <1>2, <1>3, <1>4 DEF Next

(* Every reachable state satisfies the invariant. *)
THEOREM MaintenanceInvariant == Spec => []MaintenanceInv
<1>1. Init => MaintenanceInv
  BY InitInv
<1>2. MaintenanceInv /\ [Next]_vars => MaintenanceInv'
  BY StepInv
<1> QED
  BY <1>1, <1>2, PTL DEF Spec

(* The invariant and, in every step, the types of what it says nothing about. *)
LEMMA RestStep ==
    ASSUME MaintenanceInv, RestTyped, [Next]_vars
    PROVE  RestTyped'
<1>1. CASE ReleaseNext /\ UNCHANGED backupVars
  BY <1>1, ReleaseRest
<1>2. CASE BackupNext /\ UNCHANGED releaseVars
  BY <1>2, BackupRest
<1>3. CASE Application /\ UNCHANGED <<releaseVars, backupVars>>
  BY <1>3, ApplicationRest
<1>4. CASE UNCHANGED vars
  BY <1>4 DEF RestTyped, vars, services, containers, releaseVars, backupVars
<1> QED
  BY <1>1, <1>2, <1>3, <1>4 DEF Next

(* Containers, jobs, scripts and directories have their types. *)
THEOREM MaintenanceTypeCorrect == Spec => []TypeOK
<1>1. Init => RestTyped
  <2> SUFFICES ASSUME Init PROVE RestTyped
    OBVIOUS
  <2>1. 0 \in Images /\ 0 \in 0..MaxBackups /\ NoDirectory \in Directory
    BY ServicesBoundsAssumption, BackupsAssumption DEF Images, NoDirectory, Directory
  <2> QED
    BY <2>1 DEF Init, ServicesInit, ReleasesInit, BackupsInit, RestTyped, Moments
<1>2. MaintenanceInv /\ RestTyped /\ [Next]_vars => RestTyped'
  BY RestStep
<1>3. MaintenanceInv /\ RestTyped => TypeOK
  <2> SUFFICES ASSUME MaintenanceInv, RestTyped PROVE TypeOK
    OBVIOUS
  <2> QED
    BY DEF MaintenanceInv, Small, JobStates, ReleaseSound, RestTyped, TypeOK, ServicesTypeOK,
           ReleasesTypeOK, BackupsTypeOK
<1> QED
  BY <1>1, <1>2, <1>3, MaintenanceInvariant, PTL DEF Spec

(* While the script of a release waits for a migration (run_schema_migrations), the entry *)
(* and the workers it updates are down and no job is queued, running or cut short.        *)
THEOREM MigratesAloneHolds == Spec => []MigratesAlone
<1>1. MaintenanceInv => MigratesAlone
  <2> SUFFICES ASSUME MaintenanceInv, release.pc = "migrating"
               PROVE  Active = {} /\ running \cap (Entry \cup release.selected) = {}
    BY DEF MigratesAlone
  <2>1. Active = {} /\ running \cap Entry = {}
        /\ running \cap (release.selected \cap Workers) = {}
    BY Quiet DEF WorkersStopped
  <2>2. release.selected \subseteq Entry \cup Workers
    BY EntryIsNoWorker DEF MaintenanceInv, ReleaseSound, Release
  <2> QED
    BY <2>1, <2>2
<1> QED
  BY <1>1, MaintenanceInvariant, PTL

(* Only a release that goes back after it had changed images stops a worker over its job: *)
(* a release on its way forward (publish_backend) and a backup (create_backup) drain the  *)
(* jobs and stop the entry before they stop or replace a worker.                          *)
THEOREM OnlyRollbackStopsJobsHolds == Spec => OnlyRollbackStopsJobs
<1>1. MaintenanceInv /\ [Next]_vars =>
        [\A w \in Workers : CutShort(w) => release.back /\ release.changed]_vars
  BY StepInv DEF Spared, Excused
<1> QED
  BY <1>1, MaintenanceInvariant, PTL DEF Spec, OnlyRollbackStopsJobs

-------------------------------------------------------------------------------
(* How maintenance ends. *)

\* Where a release can be in its course.
Course(r) ==
    /\ r.pc \in Early => r.todo = r.selected
    /\ r.pc = "resume" => r.back /\ ~r.changed
    /\ r.pc \in {"open api", "open web", "verify"} => IF r.changed THEN r.todo = {} ELSE r.back
    /\ r.pc = "close" => r.migrated
    /\ r.pc \notin {"close", "done"} => r.outcome = "none"
    /\ r.outcome = "complete" => r.pc = "done" /\ ~r.back /\ r.changed /\ r.todo = {}
    /\ r.outcome = "restored" => r.back /\ (r.changed => r.todo = {})

\* What the containers are at each point of it.
ImagesInv ==
    /\ release.pc # "idle" => \A s \in Services \ release.selected : image[s] = before[s]
    /\ release.changed => \A s \in release.selected \ release.todo : tag[s] = Target(s)

OutcomeInv ==
    /\ release.outcome = "complete" =>
          running = Services /\ \A s \in release.selected : image[s] = releases
    /\ release.outcome = "restored" =>
          /\ image = before
          /\ ~release.migrated => running = Services
    /\ release.pc = "done" /\ release.migrated /\ release.outcome \notin {"complete", "unclosed"}
          => running \cap Entry = {}

\* The services run from resume_services on.
ResumedInv ==
    backup.pc \in {"validate", "restore", "drop", "describe", "ready", "rename", "prune",
                   "failed", "done"} /\ ~backup.stuck
        => running = Services

EndInv == Course(release) /\ ImagesInv /\ OutcomeInv /\ ResumedInv

\* The release is further on, and otherwise the same.
Moved(q, r, pc) ==
    /\ q.pc = pc
    /\ q.alone = r.alone /\ q.selected = r.selected /\ q.back = r.back
    /\ q.migrated = r.migrated /\ q.changed = r.changed /\ q.todo = r.todo
    /\ q.outcome = r.outcome

LEMMA GotoMoves ==
    ASSUME NEW pc, release \in Release, Goto(pc)
    PROVE  Moved(release', release, pc)
BY DEF Goto, Moved, Release

\* A step of a release that changes neither image nor tag, before its outcome is known.
LEMMA CourseMoves ==
    ASSUME EndInv, MaintenanceInv, NEW pc, Script(pc), pc \notin {"idle", "close", "done"},
           UNCHANGED <<image, tag>>, UNCHANGED backupVars,
           NEW qc, Moved(release', release, qc), Course(release'), qc # "done"
    PROVE  EndInv'
<1>1. release.pc = pc /\ before' = before /\ releases' = releases
  BY DEF Script
<1>2. backup.pc = "idle" /\ backup' = backup
  BY <1>1 DEF MaintenanceInv, Exclusive, backupVars
<1>3. ImagesInv'
  BY <1>1 DEF EndInv, ImagesInv, Moved, Target
<1>4. release'.outcome = "none"
  BY <1>1 DEF EndInv, Course, Moved
<1> QED
  BY <1>2, <1>3, <1>4 DEF EndInv, OutcomeInv, ResumedInv, Moved

LEMMA ReturnedCourse ==
    ASSUME NEW r \in Release, Course(r), r.pc \notin {"close", "done"}
    PROVE  LET q == Returned(r) IN
           /\ Course(q) /\ q.pc # "idle" /\ q.selected = r.selected /\ q.changed = r.changed
           /\ q.migrated = r.migrated
           /\ q.back
           /\ ~r.back => q.todo = r.selected /\ q.outcome = "none" /\ q.pc # "done"
           /\ r.back => /\ q.todo = r.todo /\ q.outcome = "broken"
                        /\ q.pc = IF r.migrated THEN "close" ELSE "done"
<1> DEFINE q == Returned(r)
<1>1. CASE ~r.back
  <2>1. /\ q.pc = IF r.changed THEN "update" ELSE "resume"
        /\ q.back /\ q.todo = r.selected /\ q.selected = r.selected /\ q.changed = r.changed
        /\ q.outcome = r.outcome /\ q.migrated = r.migrated
    BY <1>1 DEF Returned, Release
  <2> HIDE DEF q
  <2> QED
    BY <1>1, <2>1 DEF Course, Early, q
<1>2. CASE r.back
  <2>1. /\ q.pc = IF r.migrated THEN "close" ELSE "done"
        /\ q.back /\ q.todo = r.todo /\ q.selected = r.selected /\ q.changed = r.changed
        /\ q.outcome = "broken" /\ q.migrated = r.migrated
    BY <1>2 DEF Returned, Release
  <2> HIDE DEF q
  <2> QED
    BY <1>2, <2>1 DEF Course, Early, q
<1> QED
  BY <1>1, <1>2

\* Going back, whatever the step that failed did to the images it was to put in place.
LEMMA BackEnds ==
    ASSUME EndInv, MaintenanceInv, release.pc \notin {"idle", "close", "done"}, GoBack,
           UNCHANGED <<before, releases>>, UNCHANGED backupVars,
           \A s \in Services \ release.todo : image'[s] = image[s] /\ tag'[s] = tag[s]
    PROVE  EndInv'
<1> DEFINE q == Returned(release)
<1>1. /\ release' = q /\ release \in Release /\ release.todo \subseteq release.selected
      /\ release.selected \subseteq Services
  BY DEF GoBack, MaintenanceInv, ReleaseSound, Release
<1>2. /\ Course(q) /\ q.pc # "idle" /\ q.selected = release.selected
      /\ q.changed = release.changed /\ q.migrated = release.migrated /\ q.back
      /\ ~release.back => q.todo = release.selected /\ q.outcome = "none" /\ q.pc # "done"
      /\ release.back => /\ q.todo = release.todo /\ q.outcome = "broken"
                         /\ q.pc = IF release.migrated THEN "close" ELSE "done"
  BY <1>1, ReturnedCourse DEF EndInv
<1> HIDE DEF q
<1>3. backup.pc = "idle" /\ backup' = backup
  BY DEF MaintenanceInv, Exclusive, backupVars
<1>4. ImagesInv'
  <2>1. \A s \in Services \ q.selected : image'[s] = before'[s]
    BY <1>1, <1>2 DEF EndInv, ImagesInv
  <2>2. q.changed => \A s \in q.selected \ q.todo : tag'[s] = before'[s]
    BY <1>1, <1>2 DEF EndInv, ImagesInv, Target
  <2> QED
    BY <1>1, <1>2, <2>1, <2>2 DEF ImagesInv, Target
<1>5. OutcomeInv'
  BY <1>1, <1>2 DEF OutcomeInv
<1> QED
  BY <1>1, <1>2, <1>3, <1>4, <1>5 DEF EndInv, ResumedInv

LEMMA PrepareEnds ==
    ASSUME EndInv, MaintenanceInv, UNCHANGED backupVars,
           NEW S \in SUBSET Services, NEW change \in Changes, NEW alone \in BOOLEAN,
           NEW pc \in {"stop entry", "update"}, Prepare(S, change, alone, pc)
    PROVE  EndInv'
<1>1. /\ release'.pc = pc /\ release'.selected = S /\ release'.todo = S
      /\ release'.outcome = "none" /\ ~release'.back
  BY DEF Prepare, NoRelease
<1>2. before' = image /\ image' = image /\ backup' = backup /\ backup.pc = "idle"
  BY DEF Prepare, containers, backupVars, MaintenanceInv, Exclusive
<1>3. Course(release')
  BY <1>1 DEF Course
<1> QED
  BY <1>1, <1>2, <1>3 DEF EndInv, ImagesInv, OutcomeInv, ResumedInv

\* The steps on the way to the new images.
LEMMA EarlyEnds ==
    ASSUME EndInv, MaintenanceInv, UNCHANGED backupVars,
           StopEntry \/ Drain \/ StopWorkers \/ StartMigration
    PROVE  EndInv'
<1>1. release \in Release /\ UNCHANGED <<image, tag, before, releases>>
  BY DEF MaintenanceInv, ReleaseSound, StopEntry, Drain, StopWorkers, StartMigration, Script,
         containers
<1>2. release.pc \in {"stop entry", "drain", "stop workers", "migrate"} /\ Script(release.pc)
  BY DEF StopEntry, Drain, StopWorkers, StartMigration, Script
<1>3. CASE GoBack
  BY <1>1, <1>2, <1>3, BackEnds
<1>4. ASSUME NEW pc \in {"drain", "stop workers", "count", "migrating"}, Goto(pc)
      PROVE  EndInv'
  <2>1. Moved(release', release, pc)
    BY <1>1, <1>4, GotoMoves
  <2>2. Course(release')
    BY <1>2, <2>1 DEF EndInv, Course, Moved, Early
  <2> QED
    BY <1>1, <1>2, <2>1, <2>2, CourseMoves
<1> QED
  BY <1>3, <1>4 DEF StopEntry, Drain, StopWorkers, StartMigration

LEMMA CountEnds ==
    ASSUME EndInv, MaintenanceInv, UNCHANGED backupVars, CountAgain \/ MigrationReturns
    PROVE  EndInv'
<1>1. release \in Release /\ UNCHANGED <<image, tag, before, releases>>
  BY DEF MaintenanceInv, ReleaseSound, CountAgain, MigrationReturns, Script, containers
<1>2. release.pc \in {"count", "migrating"} /\ Script(release.pc)
  BY DEF CountAgain, MigrationReturns, Script
<1>3. CASE GoBack
  BY <1>1, <1>2, <1>3, BackEnds
<1>4. ASSUME release'.pc \in {"update", "migrate"}, release'.selected = release.selected,
             release'.todo = release.todo, release'.outcome = release.outcome
      PROVE  EndInv'
  <2>1. release'.todo = release'.selected /\ release'.outcome = "none"
    BY <1>2, <1>4 DEF EndInv, Course, Early
  <2>2. Course(release')
    BY <1>4, <2>1 DEF Course
  <2>3. backup.pc = "idle" /\ backup' = backup
    BY <1>2 DEF MaintenanceInv, Exclusive, backupVars
  <2> QED
    BY <1>1, <1>2, <1>4, <2>1, <2>2, <2>3 DEF EndInv, ImagesInv, OutcomeInv, ResumedInv
<1>5. CASE release' = [release EXCEPT !.pc = "update", !.changed = TRUE]
  <2>1. /\ release'.pc = "update" /\ release'.selected = release.selected
        /\ release'.todo = release.todo /\ release'.outcome = release.outcome
    BY <1>1, <1>5 DEF Release
  <2> QED
    BY <2>1, <1>4
<1>6. CASE release' = [release EXCEPT !.pc = "migrate", !.migrated = TRUE]
  <2>1. /\ release'.pc = "migrate" /\ release'.selected = release.selected
        /\ release'.todo = release.todo /\ release'.outcome = release.outcome
    BY <1>1, <1>6 DEF Release
  <2> QED
    BY <2>1, <1>4
<1> QED
  BY <1>3, <1>5, <1>6 DEF CountAgain, MigrationReturns

LEMMA UpdateEnds ==
    ASSUME EndInv, MaintenanceInv, TypeOK, UNCHANGED backupVars,
           NEW s \in Services, Update(s)
    PROVE  EndInv'
<1>1. /\ release \in Release /\ UNCHANGED <<before, releases>> /\ release.pc = "update"
      /\ s \in release.todo /\ release.todo \subseteq release.selected
  BY DEF MaintenanceInv, ReleaseSound, Update, Script
<1>2. /\ image' = image \/ image' = [image EXCEPT ![s] = Target(s)]
      /\ tag' = tag \/ tag' = [tag EXCEPT ![s] = Target(s)]
  BY DEF Update, Up, containers
<1>3. image \in [Services -> Images] /\ tag \in [Services -> Images]
  BY DEF TypeOK, ServicesTypeOK
<1>4. \A t \in Services \ {s} : image'[t] = image[t] /\ tag'[t] = tag[t]
  BY <1>2, <1>3
<1>5. CASE GoBack
  BY <1>1, <1>4, <1>5, BackEnds
<1>6. CASE /\ tag' = [tag EXCEPT ![s] = Target(s)]
           /\ release' = [release EXCEPT !.todo = @ \ {s}]
  <2>1. /\ release'.pc = "update" /\ release'.selected = release.selected
        /\ release'.back = release.back /\ release'.changed = release.changed
        /\ release'.outcome = release.outcome /\ release'.todo = release.todo \ {s}
    BY <1>1, <1>6 DEF Release
  <2>2. release.outcome = "none"
    BY <1>1 DEF EndInv, Course
  <2>3. Course(release')
    BY <2>1, <2>2 DEF Course, Early
  <2>4. tag'[s] = Target(s) /\ release.selected \subseteq Services
    BY <1>1, <1>3, <1>6 DEF Release
  <2>5. ImagesInv'
    <3>1. \A t \in Services \ release'.selected : image'[t] = before'[t]
      BY <1>1, <1>4, <2>1 DEF EndInv, ImagesInv
    <3>2. \A t \in Services : Target(t)' = Target(t)
      BY <1>1, <2>1 DEF Target
    <3>3. release'.changed => \A t \in release'.selected \ release'.todo : tag'[t] = Target(t)
      BY <1>1, <1>4, <2>1, <2>4 DEF EndInv, ImagesInv
    <3> QED
      BY <2>1, <2>4, <3>1, <3>2, <3>3 DEF ImagesInv
  <2>6. backup.pc = "idle" /\ backup' = backup
    BY <1>1 DEF MaintenanceInv, Exclusive, backupVars
  <2> QED
    BY <2>1, <2>2, <2>3, <2>5, <2>6 DEF EndInv, OutcomeInv, ResumedInv
<1> QED
  BY <1>5, <1>6 DEF Update

\* The steps between the last image and the verification.
LEMMA OpenEnds ==
    ASSUME EndInv, MaintenanceInv, UNCHANGED backupVars,
           Updated \/ OpenApi \/ OpenWeb \/ Resume
    PROVE  EndInv'
<1>1. release \in Release /\ UNCHANGED <<image, tag, before, releases>>
  BY DEF MaintenanceInv, ReleaseSound, Updated, OpenApi, OpenWeb, Resume, Script, containers
<1>2. release.pc \in {"update", "open api", "open web", "resume"} /\ Script(release.pc)
  BY DEF Updated, OpenApi, OpenWeb, Resume, Script
<1>3. CASE GoBack
  BY <1>1, <1>2, <1>3, BackEnds
<1>4. release.pc = "update" => release.changed
  BY DEF MaintenanceInv, ReleaseSound
<1>5. ASSUME NEW pc \in {"open api", "open web", "verify"}, Goto(pc),
             release.pc = "update" => release.todo = {}
      PROVE  EndInv'
  <2>1. Moved(release', release, pc)
    BY <1>1, <1>5, GotoMoves
  <2>2. Course(release')
    BY <1>2, <1>4, <1>5, <2>1 DEF EndInv, Course, Moved, Early
  <2> QED
    BY <1>1, <1>2, <2>1, <2>2, CourseMoves
<1> QED
  BY <1>3, <1>5 DEF Updated, OpenApi, OpenWeb, Resume, Script

LEMMA VerifyEnds ==
    ASSUME EndInv, MaintenanceInv, TypeOK, UNCHANGED backupVars, Verify
    PROVE  EndInv'
<1>1. release \in Release /\ UNCHANGED <<image, tag, running, before, releases>>
  BY DEF MaintenanceInv, ReleaseSound, Verify, Script, containers
<1>2. release.pc = "verify"
  BY DEF Verify, Script
<1>3. CASE GoBack
  BY <1>1, <1>2, <1>3, BackEnds
<1>4. CASE Verified /\ ~GoBack
  <2>1. /\ running = Services
        /\ \A s \in Services :
              image[s] = IF s \in release.selected THEN Target(s) ELSE before[s]
    BY <1>4 DEF Verified
  <2>2. release.selected \subseteq Services
    BY <1>1 DEF Release
  <2>3. backup.pc = "idle" /\ backup' = backup
    BY <1>2 DEF MaintenanceInv, Exclusive, backupVars
  <2>4. CASE release.back
    <3>1. release' = [release EXCEPT !.pc = IF release.migrated THEN "close" ELSE "done",
                                     !.outcome = "restored"]
      BY <1>4, <2>4 DEF Verify
    <3>2. /\ release'.pc = IF release.migrated THEN "close" ELSE "done"
          /\ release'.outcome = "restored" /\ release'.back /\ release'.todo = release.todo
          /\ release'.selected = release.selected /\ release'.changed = release.changed
          /\ release'.migrated = release.migrated
      BY <1>1, <2>4, <3>1 DEF Release
    <3>3. image = before
      <4>1. \A s \in Services : image[s] = before[s]
        BY <2>1, <2>4 DEF Target
      <4> QED
        BY <4>1 DEF TypeOK, ServicesTypeOK, ReleasesTypeOK
    <3>4. Course(release')
      BY <1>2, <3>2 DEF EndInv, Course, Early
    <3>5. ImagesInv'
      BY <1>1, <1>2, <2>4, <3>2 DEF EndInv, ImagesInv, Target
    <3>6. OutcomeInv'
      BY <1>1, <2>1, <3>2, <3>3 DEF OutcomeInv
    <3> QED
      BY <2>3, <3>4, <3>5, <3>6 DEF EndInv, ResumedInv
  <2>5. CASE ~release.back
    <3>1. release' = [release EXCEPT !.pc = "done", !.outcome = "complete"]
      BY <1>4, <2>5 DEF Verify
    <3>2. /\ release'.pc = "done" /\ release'.outcome = "complete" /\ ~release'.back
          /\ release'.todo = release.todo /\ release'.selected = release.selected
          /\ release'.changed = release.changed
      BY <1>1, <2>5, <3>1 DEF Release
    <3>3. Course(release')
      BY <1>2, <2>5, <3>2 DEF EndInv, Course, Early
    <3>4. ImagesInv'
      BY <1>1, <1>2, <2>5, <3>2 DEF EndInv, ImagesInv, Target
    <3>5. OutcomeInv'
      BY <1>1, <2>1, <2>2, <2>5, <3>2 DEF OutcomeInv, Target
    <3> QED
      BY <2>3, <3>3, <3>4, <3>5 DEF EndInv, ResumedInv
  <2> QED
    BY <2>4, <2>5
<1> QED
  BY <1>3, <1>4 DEF Verify

LEMMA CloseEnds ==
    ASSUME EndInv, MaintenanceInv, UNCHANGED backupVars, Close
    PROVE  EndInv'
<1>1. /\ release \in Release /\ UNCHANGED <<image, tag, before, releases>>
      /\ release.pc = "close" /\ release.migrated
  BY DEF MaintenanceInv, ReleaseSound, Close, Script, EndInv, Course
<1>2. backup.pc = "idle" /\ backup' = backup
  BY <1>1 DEF MaintenanceInv, Exclusive, backupVars
<1>3. CASE Stop(Entry) /\ Goto("done")
  <2>1. Moved(release', release, "done") /\ running' = running \ Entry
    BY <1>1, <1>3, GotoMoves DEF Stop
  <2>2. Course(release')
    BY <1>1, <2>1 DEF EndInv, Course, Moved, Early
  <2>3. ImagesInv'
    BY <1>1, <2>1 DEF EndInv, ImagesInv, Moved, Target
  <2>4. OutcomeInv'
    BY <1>1, <2>1 DEF EndInv, Course, OutcomeInv, Moved
  <2> QED
    BY <1>2, <2>2, <2>3, <2>4 DEF EndInv, ResumedInv
<1>4. CASE release' = [release EXCEPT !.pc = "done", !.outcome = "unclosed"]
  <2>1. /\ release'.pc = "done" /\ release'.outcome = "unclosed"
        /\ release'.selected = release.selected /\ release'.todo = release.todo
        /\ release'.changed = release.changed /\ release'.back = release.back
    BY <1>1, <1>4 DEF Release
  <2>2. Course(release')
    BY <2>1 DEF Course, Early
  <2>3. ImagesInv'
    BY <1>1, <2>1 DEF EndInv, ImagesInv, Target
  <2> QED
    BY <1>2, <2>1, <2>2, <2>3 DEF EndInv, OutcomeInv, ResumedInv
<1> QED
  BY <1>3, <1>4 DEF Close

LEMMA LeaveEnds ==
    ASSUME EndInv, MaintenanceInv, UNCHANGED backupVars, release.pc # "idle", LeaveRelease
    PROVE  EndInv'
<1>1. release' = NoRelease /\ backup.pc = "idle" /\ backup' = backup
  BY DEF LeaveRelease, MaintenanceInv, Exclusive, backupVars
<1> QED
  BY <1>1 DEF EndInv, Course, ImagesInv, OutcomeInv, ResumedInv, NoRelease, Early

LEMMA ReleaseEnds ==
    ASSUME EndInv, MaintenanceInv, TypeOK, ReleaseNext, UNCHANGED backupVars
    PROVE  EndInv'
<1>1. ASSUME NEW selected \in SUBSET Backend, NEW change \in Changes,
             BeginBackend(selected, change)
      PROVE  EndInv'
  <2>1. selected \in SUBSET Services /\ Services \in SUBSET Services
    BY EntryIsNoWorker DEF Backend
  <2>2. PICK S \in SUBSET Services : Prepare(S, change, FALSE, "stop entry")
    BY <1>1, <2>1 DEF BeginBackend
  <2> QED
    BY <2>2, PrepareEnds
<1>2. CASE BeginWeb
  <2>1. {"web"} \in SUBSET Services /\ "none" \in Changes
    BY EntryIsNoWorker DEF Changes
  <2> QED
    BY <1>2, <2>1, PrepareEnds DEF BeginWeb
<1>3. CASE EndRelease \/ ReleaseDies
  BY <1>3, LeaveEnds DEF EndRelease, ReleaseDies
<1>4. CASE \E s \in Services : Update(s)
  BY <1>4, UpdateEnds
<1> QED
  BY <1>1, <1>2, <1>3, <1>4, EarlyEnds, CountEnds, OpenEnds, VerifyEnds, CloseEnds
  DEF ReleaseNext, ReleaseScript

\* A backup: nothing happens to the services between resume_services and the end.
LEMMA BackupEnds ==
    ASSUME EndInv, MaintenanceInv, BackupNext, UNCHANGED releaseVars
    PROVE  EndInv'
<1>1. release' = release /\ before' = before /\ releases' = releases
  BY DEF releaseVars
<1>2. release.pc = "idle" /\ running \subseteq Services /\ backup \in Backup
  BY DEF MaintenanceInv, Exclusive, Small, BackupNext, BackupScript, BeginBackup, BackupDies,
         CloseEntry, DrainJobs, StopAllWorkers, CountRows, Dump, Archive, ResumeServices,
         Validate, RestoreApart, DropRestored, Describe, MarkReady, Rename, Prune, MarkFailed,
         EndBackup, BackupStep
<1>3. UNCHANGED <<image, tag>>
  BY DEF BackupNext, BackupScript, BeginBackup, BackupDies,
         CloseEntry, DrainJobs, StopAllWorkers, CountRows, Dump, Archive, ResumeServices,
         Validate, RestoreApart, DropRestored, Describe, MarkReady, Rename, Prune, MarkFailed,
         EndBackup, BackupStep, LeaveBackup, containers
<1>4. release.outcome = "none"
  BY <1>2 DEF EndInv, Course
<1>5. ASSUME NEW pc, backup' = [backup EXCEPT !.pc = pc]
             \/ backup' = [backup EXCEPT !.pc = pc, !.error = TRUE]
      PROVE  backup'.pc = pc /\ backup'.stuck = backup.stuck
  BY <1>2, <1>5 DEF Backup
<1>6. CASE CloseEntry \/ DrainJobs \/ StopAllWorkers \/ CountRows \/ Dump \/ Archive
           \/ BeginBackup
  <2>1. \E pc \in {"stop entry", "drain", "stop workers", "count", "dump", "archive", "resume"} :
           To(pc) \/ Error(pc)
    BY <1>6 DEF CloseEntry, DrainJobs, StopAllWorkers, CountRows, Dump, Archive, BeginBackup
  <2>2. ResumedInv'
    BY <1>5, <2>1 DEF To, Error, ResumedInv
  <2> QED
    BY <1>1, <1>2, <1>3, <1>4, <2>2 DEF EndInv, ImagesInv, OutcomeInv, Target
<1>7. CASE ResumeServices
  <2>1. CASE Start(Services)
    <3>1. running' = Services
      BY <1>2, <2>1 DEF Start
    <3> QED
      BY <1>1, <1>2, <1>3, <1>4, <3>1 DEF EndInv, ImagesInv, OutcomeInv, Target, ResumedInv
  <2>2. CASE backup' = [backup EXCEPT !.pc = "failed", !.error = TRUE, !.stuck = TRUE]
    <3>1. backup'.stuck
      BY <1>2, <2>2 DEF Backup
    <3> QED
      BY <1>1, <1>2, <1>3, <1>4, <3>1 DEF EndInv, ImagesInv, OutcomeInv, Target, ResumedInv
  <2> QED
    BY <1>7, <2>1, <2>2 DEF ResumeServices
<1>8. CASE Validate \/ RestoreApart \/ DropRestored \/ Describe \/ MarkReady \/ Rename \/ Prune
           \/ MarkFailed
  <2>1. /\ running' = running
        /\ backup.pc \in {"validate", "restore", "drop", "describe", "ready", "rename", "prune",
                          "failed"}
    BY <1>8 DEF Validate, RestoreApart, DropRestored, Describe, MarkReady, Rename, Prune,
                MarkFailed, BackupStep, Calm
  <2>2. backup' = backup \/ \E pc : To(pc) \/ Error(pc)
    BY <1>8 DEF Validate, RestoreApart, DropRestored, Describe, MarkReady, Rename, Prune,
                MarkFailed
  <2>3. backup'.stuck = backup.stuck
    BY <1>5, <2>2 DEF To, Error
  <2> QED
    BY <1>1, <1>2, <1>3, <1>4, <2>1, <2>3 DEF EndInv, ImagesInv, OutcomeInv, Target, ResumedInv
<1>9. CASE EndBackup \/ BackupDies
  <2>1. backup'.pc = "idle"
    BY <1>9 DEF EndBackup, BackupDies, LeaveBackup, NoBackup
  <2> QED
    BY <1>1, <1>2, <1>3, <1>4, <2>1 DEF EndInv, ImagesInv, OutcomeInv, Target, ResumedInv
<1> QED
  BY <1>6, <1>7, <1>8, <1>9 DEF BackupNext, BackupScript

LEMMA ApplicationEnds ==
    ASSUME EndInv, MaintenanceInv, Application, UNCHANGED <<releaseVars, backupVars>>
    PROVE  EndInv'
<1>1. /\ release' = release /\ before' = before /\ releases' = releases /\ backup' = backup
      /\ image' = image /\ tag' = tag
  BY DEF Application, UseEntry, Work, RecoverJob, MigrationEnds, StartByHand, releaseVars,
         backupVars, containers
<1>2. running' = running \/ (release.pc = "idle" /\ backup.pc = "idle")
  <2>1. CASE UseEntry \/ (\E w \in Workers : Work(w) \/ RecoverJob(w)) \/ MigrationEnds
    BY <2>1 DEF UseEntry, Work, RecoverJob, MigrationEnds, containers
  <2>2. CASE StartByHand
    <3>1. lock = "free"
      BY <2>2 DEF StartByHand
    <3> QED
      BY <3>1 DEF MaintenanceInv, Exclusive
  <2> QED
    BY <2>1, <2>2 DEF Application
<1>3. release.pc = "idle" => release.outcome = "none"
  BY DEF EndInv, Course
<1> QED
  BY <1>1, <1>2, <1>3 DEF EndInv, ImagesInv, OutcomeInv, ResumedInv, Target

\* What a release or a backup reports when it ends is what is found afterwards, of the
\* images, containers, tags and entry that EndsAsReported names.
THEOREM EndsAsReportedHolds == Spec => []EndsAsReported
<1>1. Init => EndInv
  BY DEF Init, ServicesInit, ReleasesInit, BackupsInit, EndInv, Course, ImagesInv, OutcomeInv,
         ResumedInv, NoRelease, NoBackup, Early
<1>2. MaintenanceInv /\ TypeOK /\ EndInv /\ [Next]_vars => EndInv'
  <2> SUFFICES ASSUME MaintenanceInv, TypeOK, EndInv, [Next]_vars PROVE EndInv'
    OBVIOUS
  <2>1. CASE UNCHANGED vars
    BY <2>1 DEF vars, services, containers, releaseVars, backupVars, EndInv, ImagesInv,
                OutcomeInv, ResumedInv, Target, Course
  <2> QED
    BY <2>1, ReleaseEnds, BackupEnds, ApplicationEnds DEF Next
<1>3. MaintenanceInv /\ EndInv => EndsAsReported
  <2> SUFFICES ASSUME MaintenanceInv, EndInv PROVE EndsAsReported
    OBVIOUS
  <2>1. release.selected \subseteq Services
    BY DEF MaintenanceInv, ReleaseSound, Release
  <2>2. release.pc = "done" /\ release.outcome = "complete" =>
          /\ OthersUntouched
          /\ \A s \in release.selected : s \in running /\ image[s] = releases /\ tag[s] = releases
    BY <2>1 DEF EndInv, Course, ImagesInv, OutcomeInv, OthersUntouched, Target
  <2>3. release.pc = "done" /\ release.outcome = "restored" =>
          /\ image = before
          /\ release.changed => \A s \in release.selected : tag[s] = before[s]
          /\ ~release.migrated => running = Services
    BY DEF EndInv, Course, ImagesInv, OutcomeInv, Target
  <2>4. release.pc = "done" /\ release.migrated /\ release.outcome \notin {"complete", "unclosed"}
          => running \cap Entry = {}
    BY DEF EndInv, OutcomeInv
  <2>5. backup.pc = "done" /\ ~backup.stuck => running = Services
    BY DEF EndInv, ResumedInv
  <2> QED
    BY <2>2, <2>3, <2>4, <2>5 DEF EndsAsReported
<1> QED
  BY <1>1, <1>2, <1>3, MaintenanceInvariant, MaintenanceTypeCorrect, PTL DEF Spec

-------------------------------------------------------------------------------
(* The invariant of the backups. *)

Consistent == {"counted", "migrated"}

Finishing == {"describe", "ready", "rename"}
Unnamed == {"stop entry", "drain", "stop workers", "count", "dump", "archive", "resume",
            "validate", "restore", "drop", "describe", "ready", "rename", "failed"}

\* What the directory of a backup has at a step of its script.
DirectoryAt(d, pc, error) ==
    /\ d.place = "incomplete"
    /\ pc # "failed" => ~d.failed
    /\ pc \notin {"resume", "drop", "failed"} => ~error
    /\ pc = "archive" => d.dump \in Consistent
    /\ pc \in {"resume", "validate", "restore", "drop"} \cup Finishing /\ ~error =>
          d.dump \in Consistent /\ d.archive \in Consistent
    /\ pc \in {"validate", "restore", "drop"} \cup Finishing => "resumed" \in d.evidence
    /\ pc \in {"restore", "drop"} \cup Finishing => "archive" \in d.evidence
    /\ pc \in {"drop"} \cup Finishing /\ ~error => "restored" \in d.evidence
    /\ pc \in Finishing => "dropped" \in d.evidence
    /\ pc \in {"ready", "rename"} => d.metadata
    /\ pc = "rename" => d.ready

CurrentInv ==
    backup.pc \in Unnamed =>
        /\ backups > newest
        /\ DirectoryAt(dirs[backups], backup.pc, backup.error)

\* Nothing changes the data while they are copied.
CopyInv ==
    /\ backup.pc \in {"count", "dump", "archive"} => running = {}
    /\ backup.pc \in {"dump", "archive"} => data \in Consistent

FreshInv ==
    /\ newest <= backups
    /\ backup.pc # "idle" => backups # 0
    /\ backup.pc = "idle" => ~backup.error
    /\ \A n \in 1..MaxBackups : n > backups => dirs[n] = NoDirectory

\* The last backup and the newest ones that are kept.
RetainedInv ==
    /\ newest # 0 => Whole(newest)
    /\ \A n \in Completed : n <= newest
    /\ \A n \in Completed : Retention = 0 \/ Rank(n) <= Retention => Whole(n)

BackupsInv == CurrentInv /\ CopyInv /\ FreshInv /\ RetainedInv

\* What else the proofs need of a state.
Sound == MaintenanceInv /\ RestTyped

-------------------------------------------------------------------------------
(* The application and the releases. *)

LEMMA RetainedSame ==
    ASSUME RetainedInv, UNCHANGED <<dirs, newest>>
    PROVE  RetainedInv'
BY DEF RetainedInv, Whole, Completed, Rank

LEMMA ReleaseIsAlone ==
    ASSUME MaintenanceInv, ReleaseNext
    PROVE  backup.pc = "idle"
<1>1. lock = "free" \/ release.pc # "idle"
  <2>1. CASE ReleaseScript
    BY <2>1 DEF ReleaseScript, StopEntry, Drain, StopWorkers, CountAgain, StartMigration,
                MigrationReturns, Update, Updated, OpenApi, OpenWeb, Resume, Verify, Close, EndRelease,
                Script
  <2> QED
    BY <2>1 DEF ReleaseNext, BeginBackend, BeginWeb, Prepare, ReleaseDies
<1> QED
  BY <1>1 DEF MaintenanceInv, Exclusive

LEMMA OutsideBackups ==
    ASSUME MaintenanceInv, BackupsInv, ReleaseNext \/ Application, UNCHANGED backupVars
    PROVE  BackupsInv'
<1>1. backup' = backup /\ dirs' = dirs /\ backups' = backups /\ newest' = newest
  BY DEF backupVars
<1>2. CurrentInv' /\ FreshInv' /\ RetainedInv'
  BY <1>1, RetainedSame DEF BackupsInv, CurrentInv, FreshInv
<1>3. CopyInv'
  <2>1. CASE backup.pc \notin {"count", "dump", "archive"}
    BY <1>1, <2>1 DEF CopyInv
  <2>2. CASE backup.pc \in {"count", "dump", "archive"}
    <3>1. running = {} /\ Application /\ lock = "backup"
      BY <2>2, ReleaseIsAlone DEF BackupsInv, CopyInv, MaintenanceInv, Exclusive
    <3>2. MigrationEnds
      BY <3>1, EntryIsNoWorker DEF Application, UseEntry, Work, RecoverJob, StartByHand
    <3>3. running' = running /\ (data \in Consistent => data' \in Consistent)
      BY <3>2 DEF MigrationEnds, containers, Consistent
    <3> QED
      BY <1>1, <3>1, <3>3 DEF BackupsInv, CopyInv
  <2> QED
    BY <2>1, <2>2
<1> QED
  BY <1>2, <1>3 DEF BackupsInv

-------------------------------------------------------------------------------
(* Writing to the directory of the backup under way. *)

LEMMA Fields ==
    ASSUME backup \in Backup, NEW pc
    PROVE  /\ To(pc) => backup'.pc = pc /\ backup'.error = backup.error
           /\ Error(pc) => backup'.pc = pc /\ backup'.error
<1>1. ASSUME To(pc) PROVE backup'.pc = pc /\ backup'.error = backup.error
  BY <1>1 DEF To, Backup
<1>2. ASSUME Error(pc) PROVE backup'.pc = pc /\ backup'.error
  BY <1>2 DEF Error, Backup
<1> QED
  BY <1>1, <1>2

\* A directory that has no final name yet is no complete backup.
LEMMA RetainedUnder ==
    ASSUME RestTyped, RetainedInv, NEW n \in 1..MaxBackups, NEW d \in Directory,
           dirs[n].place \in {"none", "incomplete"}, d.place = "incomplete",
           dirs' = [dirs EXCEPT ![n] = d], newest' = newest
    PROVE  RetainedInv'
<1>1. dirs \in [1..MaxBackups -> Directory] /\ newest \in 0..MaxBackups
  BY DEF RestTyped
<1>2. Completed' = Completed /\ n \notin Completed
  BY <1>1 DEF Completed
<1>3. \A m : Rank(m)' = Rank(m)
  BY <1>2 DEF Rank
<1>4. \A m \in 1..MaxBackups : m # n => dirs'[m] = dirs[m]
  BY <1>1
<1>5. newest # 0 => newest \in Completed
  BY <1>1 DEF RetainedInv, Whole, Completed
<1>6. \A m \in Completed : m \in 1..MaxBackups /\ m # n
  BY <1>2 DEF Completed
<1>7. \A m \in Completed : Whole(m) => Whole(m)'
  BY <1>4, <1>6 DEF Whole
<1> QED
  BY <1>2, <1>3, <1>5, <1>7 DEF RetainedInv

\* Where a backup is, and what it has.
LEMMA Here ==
    ASSUME Sound, BackupsInv, backup.pc \in Unnamed
    PROVE  /\ backup \in Backup /\ running \subseteq Services
           /\ backups \in 1..MaxBackups /\ newest \in 0..MaxBackups /\ backups > newest
           /\ dirs \in [1..MaxBackups -> Directory]
           /\ dirs[backups] \in Directory
           /\ DirectoryAt(dirs[backups], backup.pc, backup.error)
<1>1. backup \in Backup /\ running \subseteq Services
  BY DEF Sound, MaintenanceInv, Small
<1>2. /\ backups \in 0..MaxBackups /\ newest \in 0..MaxBackups
      /\ dirs \in [1..MaxBackups -> Directory]
  BY DEF Sound, RestTyped
<1>3. backups > newest /\ DirectoryAt(dirs[backups], backup.pc, backup.error)
  BY DEF BackupsInv, CurrentInv
<1>4. backups \in 1..MaxBackups
  BY <1>2, <1>3, Bounds
<1> QED
  BY <1>1, <1>2, <1>3, <1>4

\* A step that writes d to the directory, and does not yet rename it.
LEMMA CurrentWritten ==
    ASSUME Sound, BackupsInv, backup.pc \in Unnamed, backup'.pc \in Unnamed \cup {"done"},
           UNCHANGED <<backups, newest>>,
           NEW d \in Directory, dirs' = [dirs EXCEPT ![backups] = d], d.place = "incomplete",
           backup'.pc \in Unnamed => DirectoryAt(d, backup'.pc, backup'.error),
           CopyInv'
    PROVE  BackupsInv'
<1>1. /\ dirs \in [1..MaxBackups -> Directory]
      /\ backups \in 1..MaxBackups /\ newest \in 0..MaxBackups
      /\ dirs[backups].place = "incomplete" /\ backups > newest
  BY Here DEF DirectoryAt
<1>2. dirs'[backups'] = d
  BY <1>1
<1>3. CurrentInv'
  BY <1>1, <1>2 DEF CurrentInv
<1>4. FreshInv'
  <2>1. FreshInv
    BY DEF BackupsInv
  <2>2. newest' <= backups' /\ backups' # 0 /\ backup'.pc # "idle"
    BY <1>1, <2>1 DEF FreshInv, Unnamed
  <2>3. \A n \in 1..MaxBackups : n > backups => n # backups /\ dirs'[n] = dirs[n]
    BY <1>1
  <2> QED
    BY <2>1, <2>2, <2>3 DEF FreshInv
<1>5. RetainedInv'
  BY <1>1, RetainedUnder DEF Sound, BackupsInv
<1> QED
  BY <1>3, <1>4, <1>5 DEF BackupsInv

\* A step that leaves the directory as it is.
LEMMA CurrentKept ==
    ASSUME Sound, BackupsInv, backup.pc \in Unnamed, backup'.pc \in Unnamed,
           UNCHANGED <<backups, newest, dirs>>,
           DirectoryAt(dirs[backups], backup'.pc, backup'.error),
           CopyInv'
    PROVE  BackupsInv'
<1>1. CurrentInv'
  BY DEF BackupsInv, CurrentInv
<1>2. FreshInv'
  BY DEF BackupsInv, FreshInv, Unnamed
<1>3. RetainedInv'
  BY RetainedSame DEF BackupsInv
<1> QED
  BY <1>1, <1>2, <1>3 DEF BackupsInv

\* An error before the services are started again.
LEMMA EarlyError ==
    ASSUME Sound, BackupsInv,
           backup.pc \in {"stop entry", "drain", "stop workers", "count", "dump", "archive"},
           UNCHANGED <<backups, newest, dirs>>, Error("resume")
    PROVE  BackupsInv'
<1>1. backup.pc \in Unnamed
  BY DEF Unnamed
<1>2. backup'.pc = "resume" /\ backup'.error
  BY <1>1, Here, Fields
<1>3. DirectoryAt(dirs[backups], backup'.pc, backup'.error)
  BY <1>1, <1>2, Here DEF DirectoryAt, Finishing
<1>4. CopyInv' /\ backup'.pc \in Unnamed
  BY <1>2 DEF CopyInv, Unnamed
<1> QED
  BY <1>1, <1>3, <1>4, CurrentKept

\* An error after that.
LEMMA LateError ==
    ASSUME Sound, BackupsInv, backup.pc \in Unnamed,
           UNCHANGED <<backups, newest>>, backup'.pc = "failed",
           NEW d \in Directory, d.place = "incomplete", dirs' = [dirs EXCEPT ![backups] = d]
    PROVE  BackupsInv'
<1>1. DirectoryAt(d, backup'.pc, backup'.error)
  BY DEF DirectoryAt, Finishing
<1>2. CopyInv' /\ backup'.pc \in Unnamed
  BY DEF CopyInv, Unnamed
<1> QED
  BY <1>1, <1>2, CurrentWritten

LEMMA LateErrorKept ==
    ASSUME Sound, BackupsInv, backup.pc \in Unnamed,
           UNCHANGED <<backups, newest, dirs>>, backup'.pc = "failed"
    PROVE  BackupsInv'
<1>1. DirectoryAt(dirs[backups], backup'.pc, backup'.error)
  BY Here DEF DirectoryAt, Finishing
<1>2. CopyInv' /\ backup'.pc \in Unnamed
  BY DEF CopyInv, Unnamed
<1> QED
  BY <1>1, <1>2, CurrentKept

-------------------------------------------------------------------------------
(* The steps up to the final name. *)

LEMMA BeginBackupKeeps ==
    ASSUME Sound, BackupsInv, BeginBackup
    PROVE  BackupsInv'
<1> DEFINE n == backups + 1
           d == [NoDirectory EXCEPT !.place = "incomplete"]
<1>1. /\ backup.pc = "idle" /\ backups < MaxBackups /\ backups' = n
      /\ newest' = newest /\ backup \in Backup
  BY DEF BeginBackup, Sound, MaintenanceInv, Small
<1>2. /\ dirs \in [1..MaxBackups -> Directory]
      /\ backups \in 0..MaxBackups /\ newest \in 0..MaxBackups /\ newest <= backups
      /\ RetainedInv /\ ~backup.error
  BY <1>1 DEF Sound, RestTyped, BackupsInv, FreshInv
<1>3. n \in 1..MaxBackups /\ n > backups /\ n > newest /\ n # 0
  BY <1>1, <1>2, Bounds
<1>4. dirs[n] = NoDirectory
  BY <1>3 DEF BackupsInv, FreshInv
<1>5. dirs' = [dirs EXCEPT ![n] = d]
  BY <1>1, <1>4 DEF BeginBackup
<1>6. /\ d \in Directory /\ d.place = "incomplete" /\ ~d.failed
      /\ NoDirectory.place = "none"
  BY DEF NoDirectory, Directory
<1> HIDE DEF d
<1>7. backup'.pc = "stop entry" /\ ~backup'.error
  BY <1>1, <1>2, Fields DEF BeginBackup
<1>8. DirectoryAt(d, backup'.pc, backup'.error)
  BY <1>6, <1>7 DEF DirectoryAt, Finishing
<1>9. CurrentInv'
  BY <1>1, <1>2, <1>3, <1>5, <1>8 DEF CurrentInv
<1>10. CopyInv'
  BY <1>7 DEF CopyInv
<1>11. FreshInv'
  <2>1. newest' <= backups' /\ backups' # 0 /\ backup'.pc # "idle"
    <3>1. newest' <= backups' /\ backups' # 0
      BY <1>1, <1>2, <1>3, Bounds
    <3> QED
      BY <1>7, <3>1
  <2>2. ASSUME NEW m \in 1..MaxBackups, m > backups'
        PROVE  dirs'[m] = NoDirectory
    <3>1. m # n /\ m > backups
      BY Bounds, <1>1, <1>2, <2>2
    <3> QED
      BY <1>2, <1>5, <3>1 DEF BackupsInv, FreshInv
  <2> QED
    BY <2>1, <2>2 DEF FreshInv
<1>12. RetainedInv'
  BY <1>1, <1>2, <1>3, <1>4, <1>5, <1>6, RetainedUnder DEF Sound
<1> QED
  BY <1>9, <1>10, <1>11, <1>12 DEF BackupsInv

\* A step before the copies that succeeds.
LEMMA NextKept ==
    ASSUME Sound, BackupsInv, UNCHANGED <<backups, newest, dirs>>,
           NEW pc \in {"drain", "stop workers", "count", "dump"},
           backup.pc \in {"stop entry", "drain", "stop workers", "count"}, To(pc), CopyInv'
    PROVE  BackupsInv'
<1>1. backup.pc \in Unnamed
  BY DEF Unnamed
<1>2. backup'.pc = pc /\ backup'.error = backup.error
  BY <1>1, Here, Fields
<1>3. DirectoryAt(dirs[backups], backup'.pc, backup'.error)
  BY <1>1, <1>2, Here DEF DirectoryAt, Finishing
<1>4. backup'.pc \in Unnamed
  BY <1>2 DEF Unnamed
<1> QED
  BY <1>1, <1>3, <1>4, CurrentKept

LEMMA ClosingKeeps ==
    ASSUME Sound, BackupsInv, CloseEntry \/ DrainJobs
    PROVE  BackupsInv'
<1>1. backup.pc \in {"stop entry", "drain"} /\ UNCHANGED <<backups, newest, dirs>>
  BY DEF CloseEntry, DrainJobs, BackupStep, Kept
<1>2. Error("resume") \/ \E pc \in {"drain", "stop workers"} : To(pc)
  BY DEF CloseEntry, DrainJobs
<1>3. CASE Error("resume")
  BY <1>1, <1>3, EarlyError
<1>4. CASE \E pc \in {"drain", "stop workers"} : To(pc)
  <2>1. PICK pc \in {"drain", "stop workers"} : To(pc)
    BY <1>4
  <2>2. backup'.pc = pc
    BY <1>1, <2>1, Here, Fields DEF Unnamed
  <2>3. CopyInv'
    BY <2>2 DEF CopyInv
  <2> QED
    BY <1>1, <2>1, <2>3, NextKept
<1> QED
  BY <1>2, <1>3, <1>4

LEMMA StopAllWorkersKeeps ==
    ASSUME Sound, BackupsInv, StopAllWorkers
    PROVE  BackupsInv'
<1>1. backup.pc = "stop workers" /\ UNCHANGED <<backups, newest, dirs>>
  BY DEF StopAllWorkers, BackupStep, Kept
<1>2. CASE Error("resume")
  BY <1>1, <1>2, EarlyError
<1>3. CASE Stop(Workers) /\ To("count")
  <2>1. backup'.pc = "count"
    BY <1>1, <1>3, Here, Fields DEF Unnamed
  <2>2. running \subseteq Entry \cup Workers /\ running \cap Entry = {}
    BY <1>1, EntryIsNoWorker DEF Sound, MaintenanceInv, Small, BackupPhase
  <2>3. running' = {}
    BY <1>3, <2>2 DEF Stop
  <2>4. CopyInv'
    BY <2>1, <2>3 DEF CopyInv
  <2> QED
    BY <1>1, <1>3, <2>4, NextKept
<1> QED
  BY <1>2, <1>3 DEF StopAllWorkers

LEMMA CountRowsKeeps ==
    ASSUME Sound, BackupsInv, CountRows
    PROVE  BackupsInv'
<1>1. backup.pc = "count" /\ UNCHANGED <<backups, newest, dirs>> /\ running' = running
  BY DEF CountRows, BackupStep, Kept, Calm
<1>2. CASE Error("resume")
  BY <1>1, <1>2, EarlyError
<1>3. CASE To("dump") /\ data' = "counted"
  <2>1. CopyInv'
    BY <1>1, <1>3 DEF BackupsInv, CopyInv, Consistent
  <2> QED
    BY <1>1, <1>3, <2>1, NextKept
<1> QED
  BY <1>2, <1>3 DEF CountRows

LEMMA DumpKeeps ==
    ASSUME Sound, BackupsInv, Dump
    PROVE  BackupsInv'
<1> DEFINE c == dirs[backups]
           d == [c EXCEPT !.dump = data]
<1>1. backup.pc = "dump" /\ UNCHANGED <<backups, newest, running, data>> /\ backup.pc \in Unnamed
  BY DEF Dump, BackupStep, Calm, Unnamed
<1>2. running = {} /\ data \in Consistent
  BY <1>1 DEF BackupsInv, CopyInv
<1>3. CASE Error("resume") /\ UNCHANGED dirs
  BY <1>1, <1>3, EarlyError
<1>4. CASE To("archive") /\ dirs' = [dirs EXCEPT ![backups] = d]
  <2>1. backup'.pc = "archive" /\ backup'.error = backup.error
    BY <1>1, <1>4, Here, Fields
  <2>2. c \in Directory /\ DirectoryAt(c, "dump", backup.error)
    BY <1>1, Here
  <2>3. /\ d \in Directory /\ d.place = c.place /\ d.failed = c.failed /\ d.dump = data
    BY <1>2, <2>2 DEF Directory, Consistent, Moments
  <2> HIDE DEF d
  <2>4. DirectoryAt(d, backup'.pc, backup'.error) /\ d.place = "incomplete"
    BY <1>2, <2>1, <2>2, <2>3 DEF DirectoryAt, Finishing
  <2>5. CopyInv' /\ backup'.pc \in Unnamed
    BY <1>1, <1>2, <2>1 DEF CopyInv, Unnamed
  <2> QED
    BY <1>1, <1>4, <2>3, <2>4, <2>5, CurrentWritten
<1> QED
  BY <1>3, <1>4 DEF Dump

LEMMA ArchiveKeeps ==
    ASSUME Sound, BackupsInv, Archive
    PROVE  BackupsInv'
<1> DEFINE c == dirs[backups]
           d == [c EXCEPT !.archive = data]
<1>1. backup.pc = "archive" /\ UNCHANGED <<backups, newest>> /\ backup.pc \in Unnamed
  BY DEF Archive, BackupStep, Unnamed
<1>2. data \in Consistent
  BY <1>1 DEF BackupsInv, CopyInv
<1>3. CASE Error("resume") /\ UNCHANGED dirs
  BY <1>1, <1>3, EarlyError
<1>4. CASE To("resume") /\ dirs' = [dirs EXCEPT ![backups] = d]
  <2>1. backup'.pc = "resume" /\ backup'.error = backup.error
    BY <1>1, <1>4, Here, Fields
  <2>2. c \in Directory /\ DirectoryAt(c, "archive", backup.error)
    BY <1>1, Here
  <2>3. /\ d \in Directory /\ d.place = c.place /\ d.failed = c.failed
        /\ d.dump = c.dump /\ d.archive = data
    BY <1>2, <2>2 DEF Directory, Consistent, Moments
  <2> HIDE DEF d
  <2>4. DirectoryAt(d, backup'.pc, backup'.error) /\ d.place = "incomplete"
    BY <1>2, <2>1, <2>2, <2>3 DEF DirectoryAt, Finishing
  <2>5. CopyInv' /\ backup'.pc \in Unnamed
    BY <2>1 DEF CopyInv, Unnamed
  <2> QED
    BY <1>1, <1>4, <2>3, <2>4, <2>5, CurrentWritten
<1> QED
  BY <1>3, <1>4 DEF Archive

\* What a step that gains evidence leaves in the directory.
Gained(d, c, kind) ==
    /\ d \in Directory
    /\ d.place = c.place /\ d.failed = c.failed /\ d.dump = c.dump /\ d.archive = c.archive
    /\ d.evidence = c.evidence \cup {kind}

LEMMA SawGained ==
    ASSUME NEW c \in Directory, NEW kind \in Evidence
    PROVE  Gained([c EXCEPT !.evidence = c.evidence \cup {kind}], c, kind)
BY DEF Directory, Gained

\* A step that gains evidence and goes on, to where that evidence is needed.
LEMMA SawKeeps ==
    ASSUME Sound, BackupsInv, backup.pc \in {"resume", "validate", "restore", "drop"},
           UNCHANGED <<backups, newest>>, NEW kind \in Evidence, Saw(kind),
           NEW pc, To(pc),
           <<backup.pc, kind, pc>> \in {<<"resume", "resumed", "failed">>,
                <<"resume", "resumed", "validate">>, <<"validate", "archive", "restore">>,
                <<"restore", "restored", "drop">>, <<"drop", "dropped", "failed">>,
                <<"drop", "dropped", "describe">>},
           pc \in {"validate", "describe"} => ~backup.error
    PROVE  BackupsInv'
<1> DEFINE c == dirs[backups]
           d == [c EXCEPT !.evidence = c.evidence \cup {kind}]
<1>1. backup.pc \in Unnamed
  BY DEF Unnamed
<1>2. backup'.pc = pc /\ backup'.error = backup.error
  BY <1>1, Here, Fields
<1>3. c \in Directory /\ DirectoryAt(c, backup.pc, backup.error) /\ dirs \in [1..MaxBackups -> Directory]
  BY <1>1, Here
<1>4. Gained(d, c, kind) /\ dirs' = [dirs EXCEPT ![backups] = d]
  BY <1>3, SawGained DEF Saw
<1> HIDE DEF d
<1>5. d \in Directory /\ d.place = "incomplete"
  BY <1>3, <1>4 DEF Gained, DirectoryAt
<1>6. DirectoryAt(d, pc, backup.error)
  <2>1. CASE pc = "failed"
    BY <1>5, <2>1 DEF DirectoryAt, Finishing
  <2>2. CASE pc = "validate"
    BY <1>3, <1>4, <2>2 DEF Gained, DirectoryAt, Finishing
  <2>3. CASE pc = "restore"
    BY <1>3, <1>4, <2>3 DEF Gained, DirectoryAt, Finishing
  <2>4. CASE pc = "drop"
    BY <1>3, <1>4, <2>4 DEF Gained, DirectoryAt, Finishing
  <2>5. CASE pc = "describe"
    BY <1>3, <1>4, <2>5 DEF Gained, DirectoryAt, Finishing
  <2> QED
    BY <2>1, <2>2, <2>3, <2>4, <2>5
<1>7. CopyInv' /\ backup'.pc \in Unnamed
  BY <1>2 DEF CopyInv, Unnamed
<1> QED
  BY <1>1, <1>2, <1>4, <1>5, <1>6, <1>7, CurrentWritten

LEMMA ResumeServicesKeeps ==
    ASSUME Sound, BackupsInv, ResumeServices
    PROVE  BackupsInv'
<1>1. backup.pc = "resume" /\ UNCHANGED <<backups, newest>> /\ backup.pc \in Unnamed
  BY DEF ResumeServices, BackupStep, Unnamed
<1>2. CASE Saw("resumed") /\ To(IF backup.error THEN "failed" ELSE "validate")
  <2>1. PICK pc \in {"failed", "validate"} : To(pc) /\ (pc = "validate" => ~backup.error)
    BY <1>2
  <2> QED
    BY <1>1, <1>2, <2>1, SawKeeps DEF Evidence
<1>3. CASE UNCHANGED dirs /\ backup' = [backup EXCEPT !.pc = "failed", !.error = TRUE, !.stuck = TRUE]
  <2>1. backup'.pc = "failed"
    BY <1>1, <1>3, Here DEF Backup
  <2> QED
    BY <1>1, <1>3, <2>1, LateErrorKept
<1> QED
  BY <1>2, <1>3 DEF ResumeServices

LEMMA ValidateKeeps ==
    ASSUME Sound, BackupsInv, Validate
    PROVE  BackupsInv'
<1>1. backup.pc = "validate" /\ UNCHANGED <<backups, newest>> /\ backup.pc \in Unnamed
  BY DEF Validate, BackupStep, Unnamed
<1>2. CASE Saw("archive") /\ To("restore")
  BY <1>1, <1>2, SawKeeps DEF Evidence
<1>3. CASE UNCHANGED dirs /\ Error("failed")
  BY <1>1, <1>3, Here, Fields, LateErrorKept
<1> QED
  BY <1>2, <1>3 DEF Validate

LEMMA RestoreApartKeeps ==
    ASSUME Sound, BackupsInv, RestoreApart
    PROVE  BackupsInv'
<1>1. backup.pc = "restore" /\ UNCHANGED <<backups, newest>> /\ backup.pc \in Unnamed
  BY DEF RestoreApart, BackupStep, Unnamed
<1>2. CASE Saw("restored") /\ To("drop")
  BY <1>1, <1>2, SawKeeps DEF Evidence
<1>3. CASE UNCHANGED dirs /\ Error("drop")
  <2>1. backup'.pc = "drop" /\ backup'.error
    BY <1>1, <1>3, Here, Fields
  <2>2. DirectoryAt(dirs[backups], backup.pc, backup.error)
    BY <1>1, Here
  <2>3. DirectoryAt(dirs[backups], backup'.pc, backup'.error)
    BY <1>1, <2>1, <2>2 DEF DirectoryAt, Finishing
  <2>4. CopyInv' /\ backup'.pc \in Unnamed
    BY <2>1 DEF CopyInv, Unnamed
  <2> QED
    BY <1>1, <1>3, <2>3, <2>4, CurrentKept
<1> QED
  BY <1>2, <1>3 DEF RestoreApart

LEMMA DropRestoredKeeps ==
    ASSUME Sound, BackupsInv, DropRestored
    PROVE  BackupsInv'
<1>1. backup.pc = "drop" /\ UNCHANGED <<backups, newest>> /\ backup.pc \in Unnamed
  BY DEF DropRestored, BackupStep, Unnamed
<1>2. CASE Saw("dropped") /\ To(IF backup.error THEN "failed" ELSE "describe")
  <2>1. PICK pc \in {"failed", "describe"} : To(pc) /\ (pc = "describe" => ~backup.error)
    BY <1>2
  <2> QED
    BY <1>1, <1>2, <2>1, SawKeeps DEF Evidence
<1>3. CASE UNCHANGED dirs /\ Error("failed")
  BY <1>1, <1>3, Here, Fields, LateErrorKept
<1> QED
  BY <1>2, <1>3 DEF DropRestored

LEMMA DescribeKeeps ==
    ASSUME Sound, BackupsInv, Describe
    PROVE  BackupsInv'
<1> DEFINE c == dirs[backups]
           d == [c EXCEPT !.metadata = TRUE]
<1>1. backup.pc = "describe" /\ UNCHANGED <<backups, newest>> /\ backup.pc \in Unnamed
  BY DEF Describe, BackupStep, Unnamed
<1>2. CASE UNCHANGED dirs /\ Error("failed")
  BY <1>1, <1>2, Here, Fields, LateErrorKept
<1>3. CASE To("ready") /\ dirs' = [dirs EXCEPT ![backups] = d]
  <2>1. backup'.pc = "ready" /\ backup'.error = backup.error
    BY <1>1, <1>3, Here, Fields
  <2>2. c \in Directory /\ DirectoryAt(c, "describe", backup.error)
    BY <1>1, Here
  <2>3. /\ d \in Directory /\ d.place = c.place /\ d.failed = c.failed /\ d.dump = c.dump
        /\ d.archive = c.archive /\ d.evidence = c.evidence /\ d.metadata
    BY <2>2 DEF Directory
  <2> HIDE DEF d
  <2>4. DirectoryAt(d, backup'.pc, backup'.error) /\ d.place = "incomplete"
    BY <2>1, <2>2, <2>3 DEF DirectoryAt, Finishing
  <2>5. CopyInv' /\ backup'.pc \in Unnamed
    BY <2>1 DEF CopyInv, Unnamed
  <2> QED
    BY <1>1, <1>3, <2>3, <2>4, <2>5, CurrentWritten
<1> QED
  BY <1>2, <1>3 DEF Describe

LEMMA MarkReadyKeeps ==
    ASSUME Sound, BackupsInv, MarkReady
    PROVE  BackupsInv'
<1> DEFINE c == dirs[backups]
           d(r) == [c EXCEPT !.ready = r]
<1>1. backup.pc = "ready" /\ UNCHANGED <<backups, newest>> /\ backup.pc \in Unnamed
  BY DEF MarkReady, BackupStep, Unnamed
<1>2. c \in Directory /\ DirectoryAt(c, "ready", backup.error)
  BY <1>1, Here
<1>3. ASSUME NEW r \in BOOLEAN
      PROVE  /\ d(r) \in Directory /\ d(r).place = "incomplete" /\ d(r).failed = c.failed
             /\ d(r).dump = c.dump /\ d(r).archive = c.archive /\ d(r).evidence = c.evidence
             /\ d(r).metadata = c.metadata /\ d(r).ready = r
  BY <1>2 DEF Directory, DirectoryAt
<1>4. \/ To("rename") /\ dirs' = [dirs EXCEPT ![backups] = d(TRUE)]
      \/ Error("failed") /\ \E r \in BOOLEAN : dirs' = [dirs EXCEPT ![backups] = d(r)]
  BY DEF MarkReady
<1> HIDE DEF d
<1>5. CASE To("rename") /\ dirs' = [dirs EXCEPT ![backups] = d(TRUE)]
  <2>1. backup'.pc = "rename" /\ backup'.error = backup.error
    BY <1>1, <1>5, Here, Fields
  <2>2. DirectoryAt(d(TRUE), backup'.pc, backup'.error)
    BY <1>2, <1>3, <2>1 DEF DirectoryAt, Finishing
  <2>3. CopyInv' /\ backup'.pc \in Unnamed
    BY <2>1 DEF CopyInv, Unnamed
  <2> QED
    BY <1>1, <1>3, <1>5, <2>2, <2>3, CurrentWritten
<1>6. CASE Error("failed") /\ \E r \in BOOLEAN : dirs' = [dirs EXCEPT ![backups] = d(r)]
  <2>1. backup'.pc = "failed"
    BY <1>1, <1>6, Here, Fields
  <2>2. PICK r \in BOOLEAN : dirs' = [dirs EXCEPT ![backups] = d(r)]
    BY <1>6
  <2> QED
    BY <1>1, <1>3, <2>1, <2>2, LateError
<1> QED
  BY <1>4, <1>5, <1>6

LEMMA MarkFailedKeeps ==
    ASSUME Sound, BackupsInv, MarkFailed
    PROVE  BackupsInv'
<1> DEFINE c == dirs[backups]
           d == [c EXCEPT !.ready = FALSE, !.failed = TRUE]
<1>1. /\ backup.pc = "failed" /\ UNCHANGED <<backups, newest>> /\ backup.pc \in Unnamed
      /\ dirs' = [dirs EXCEPT ![backups] = d]
  BY DEF MarkFailed, BackupStep, Unnamed
<1>2. backup'.pc = "done"
  BY <1>1, Here, Fields DEF MarkFailed
<1>3. c \in Directory /\ c.place = "incomplete"
  BY <1>1, Here DEF DirectoryAt
<1>4. d \in Directory /\ d.place = "incomplete"
  BY <1>3 DEF Directory
<1> HIDE DEF d
<1>5. CopyInv' /\ backup'.pc \in Unnamed \cup {"done"} /\ backup'.pc \notin Unnamed
  BY <1>2 DEF CopyInv, Unnamed
<1> QED
  BY <1>1, <1>4, <1>5, CurrentWritten

-------------------------------------------------------------------------------
(* The final name, and the backups that are kept. *)

\* The complete backups from n on, of which Rank counts.
From(C, n) == {m \in C : m >= n}

LEMMA FromFinite ==
    ASSUME NEW C \in SUBSET (1..MaxBackups), NEW n
    PROVE  IsFiniteSet(From(C, n)) /\ Cardinality(From(C, n)) \in Nat
<1>1. IsFiniteSet(1..MaxBackups)
  BY Bounds, FS_Interval
<1>2. From(C, n) \in SUBSET (1..MaxBackups)
  BY DEF From
<1> QED
  BY <1>1, <1>2, FS_Subset, FS_CardinalityType

\* A backup more does not lower a rank.
LEMMA RankAdded ==
    ASSUME NEW C \in SUBSET (1..MaxBackups), NEW B \in SUBSET C, NEW n
    PROVE  Cardinality(From(B, n)) <= Cardinality(From(C, n))
<1>1. From(B, n) \in SUBSET From(C, n)
  BY DEF From
<1> QED
  BY <1>1, FromFinite, FS_Subset

\* When one is removed, no earlier one gets a rank that was not already lower.
LEMMA RankRemoved ==
    ASSUME NEW C \in SUBSET (1..MaxBackups), NEW x \in C, NEW n \in C \ {x}
    PROVE  \/ From(C \ {x}, n) = From(C, n)
           \/ Cardinality(From(C, x)) <= Cardinality(From(C \ {x}, n))
<1>1. x \in Nat /\ n \in Nat /\ \A m \in C : m \in Nat
  BY Bounds
<1>2. CASE n > x
  BY <1>1, <1>2 DEF From
<1>3. CASE n < x
  <2> DEFINE S == From(C, x) \ {x}
  <2>1. IsFiniteSet(From(C, x)) /\ Cardinality(From(C, x)) \in Nat /\ x \in From(C, x)
    BY <1>1, FromFinite DEF From
  <2>2. IsFiniteSet(S) /\ Cardinality(S) = Cardinality(From(C, x)) - 1
    BY <2>1, FS_RemoveElement
  <2>3. n \notin S
    BY <1>1, <1>3 DEF From
  <2>4. Cardinality(S \cup {n}) = Cardinality(S) + 1
    BY <2>2, <2>3, FS_AddElement
  <2>5. S \cup {n} \in SUBSET From(C \ {x}, n)
    <3>1. n \in From(C \ {x}, n)
      BY <1>1 DEF From
    <3>2. ASSUME NEW m \in S
          PROVE  m \in From(C \ {x}, n)
      <4>1. m \in C \ {x} /\ m >= x /\ m \in Nat
        BY <1>1 DEF From
      <4>2. m >= n
        BY <1>1, <1>3, <4>1
      <4> QED
        BY <4>1, <4>2 DEF From
    <3> QED
      BY <3>1, <3>2
  <2>6. IsFiniteSet(From(C \ {x}, n))
    BY FromFinite
  <2>7. Cardinality(S \cup {n}) <= Cardinality(From(C \ {x}, n))
    BY <2>5, <2>6, FS_Subset
  <2> HIDE DEF S
  <2> QED
    BY <2>1, <2>2, <2>4, <2>7
<1> QED
  BY <1>1, <1>2, <1>3

LEMMA Ranks ==
    /\ Completed \in SUBSET (1..MaxBackups)
    /\ \A n : Rank(n) = Cardinality(From(Completed, n))
BY DEF Completed, Rank, From

LEMMA RenameKeeps ==
    ASSUME Sound, BackupsInv, Rename
    PROVE  BackupsInv'
<1> DEFINE c == dirs[backups]
           d == [c EXCEPT !.place = "final"]
<1>1. backup.pc = "rename" /\ backups' = backups /\ backup.pc \in Unnamed
  BY DEF Rename, BackupStep, Unnamed
<1>2. CASE UNCHANGED <<dirs, newest>> /\ Error("failed")
  BY <1>1, <1>2, Here, Fields, LateErrorKept
<1>3. CASE To("prune") /\ dirs' = [dirs EXCEPT ![backups] = d] /\ newest' = backups
  <2>1. backup'.pc = "prune"
    BY <1>1, <1>3, Here, Fields
  <2>2. /\ c \in Directory /\ DirectoryAt(c, "rename", backup.error)
        /\ backups \in 1..MaxBackups /\ newest \in 0..MaxBackups /\ backups > newest
        /\ dirs \in [1..MaxBackups -> Directory]
    BY <1>1, Here
  <2>3. /\ d.place = "final" /\ d.failed = c.failed /\ d.dump = c.dump
        /\ d.archive = c.archive /\ d.evidence = c.evidence /\ d.metadata = c.metadata
        /\ d.ready = c.ready
    BY <2>2 DEF Directory
  <2>4. dirs'[backups] = d /\ \A m \in 1..MaxBackups : m # backups => dirs'[m] = dirs[m]
    BY <1>3, <2>2
  <2> HIDE DEF d
  <2>5. c.evidence = Evidence
    BY <2>2 DEF DirectoryAt, Finishing, Directory, Evidence
  <2>6. Whole(backups)' /\ newest' = backups /\ newest' # 0
    <3>1. /\ d.dump \in Consistent /\ d.archive \in Consistent /\ d.metadata /\ d.ready /\ ~d.failed
      BY <2>2, <2>3 DEF DirectoryAt, Finishing
    <3>2. dirs'[backups'] = d /\ newest' = backups
      BY <1>1, <1>3, <2>4
    <3>3. backups # 0
      BY <2>2, Bounds
    <3> QED
      BY <1>1, <2>3, <2>5, <3>1, <3>2, <3>3 DEF Whole, Consistent
  <2>7. Completed' = Completed \cup {backups} /\ backups \notin Completed
    BY <2>2, <2>3, <2>4 DEF Completed, DirectoryAt, Finishing
  <2>8. RetainedInv
    BY DEF BackupsInv
  <2>9. ASSUME NEW n \in Completed
        PROVE  n <= newest' /\ (Retention = 0 \/ Rank(n)' <= Retention => Whole(n)')
    <3>1. n \in 1..MaxBackups /\ n # backups /\ n <= newest
      BY <2>7, <2>8 DEF Completed, RetainedInv
    <3>2. n <= newest'
      BY <2>2, <2>6, <3>1, Bounds
    <3>3. Rank(n) = Cardinality(From(Completed, n)) /\ Rank(n)' = Cardinality(From(Completed', n))
      BY DEF Rank, From
    <3>4. Completed' \in SUBSET (1..MaxBackups) /\ Completed \in SUBSET Completed'
      BY <2>7 DEF Completed
    <3>5. Rank(n) \in Nat /\ Rank(n)' \in Nat /\ Rank(n) <= Rank(n)'
      BY <3>3, <3>4, FromFinite, RankAdded
    <3>6. ASSUME Retention = 0 \/ Rank(n)' <= Retention
          PROVE  Whole(n)'
      <4>1. Whole(n)
        BY <2>8, <3>5, <3>6, BackupsAssumption DEF RetainedInv
      <4> QED
        BY <2>4, <3>1, <4>1 DEF Whole
    <3> QED
      BY <3>2, <3>6
  <2>10. RetainedInv'
    <3>1. ASSUME NEW n \in Completed'
          PROVE  n <= newest' /\ (Retention = 0 \/ Rank(n)' <= Retention => Whole(n)')
      <4>1. CASE n = backups
        <5>1. n <= newest'
          BY <2>2, <2>6, <4>1, Bounds
        <5> QED
          BY <1>1, <2>6, <4>1, <5>1 DEF Whole
      <4>2. CASE n \in Completed
        BY <2>9, <4>2
      <4> QED
        BY <2>7, <4>1, <4>2
    <3>2. newest' # 0 => Whole(newest)'
      BY <1>1, <2>6 DEF Whole
    <3> QED
      BY <3>1, <3>2 DEF RetainedInv
  <2>11. FreshInv'
    <3>1. FreshInv /\ backups # 0 /\ backups \in Nat
      BY <2>2, Bounds DEF BackupsInv
    <3>2. \A m \in 1..MaxBackups : m > backups => dirs'[m] = dirs[m]
      BY <2>2, <2>4
    <3> QED
      BY <1>1, <2>1, <2>6, <3>1, <3>2 DEF FreshInv
  <2>12. CurrentInv' /\ CopyInv'
    BY <2>1 DEF CurrentInv, CopyInv, Unnamed
  <2> QED
    BY <2>10, <2>11, <2>12 DEF BackupsInv
<1> QED
  BY <1>2, <1>3 DEF Rename

\* What is pruned is none of the newest.
LEMMA SurplusChanged ==
    ASSUME RestTyped, RetainedInv, NEW x \in Surplus, newest' = newest,
           \A m \in 1..MaxBackups : m # x => dirs'[m] = dirs[m],
           Completed' = Completed \/ Completed' = Completed \ {x}
    PROVE  RetainedInv'
<1>1. /\ Retention # 0 /\ x \in Completed /\ Rank(x) > Retention
      /\ Completed \in SUBSET (1..MaxBackups) /\ newest \in 0..MaxBackups
  BY Ranks DEF Surplus, RestTyped
<1>2. \A n \in Completed : n <= newest /\ n \in 1..MaxBackups /\ n \in Nat
  <2>1. \A n \in 1..MaxBackups : n \in Nat
    BY Bounds
  <2> QED
    BY <1>1, <2>1 DEF RetainedInv
<1>3. Rank(x) \in Nat /\ \A n : Rank(n) = Cardinality(From(Completed, n))
  BY <1>1, Ranks, FromFinite
<1>4. newest # 0 /\ newest \in 1..MaxBackups /\ newest \in Nat
  BY <1>1, <1>2, Bounds
<1>5. newest \in Completed /\ Whole(newest)
  BY <1>4 DEF RetainedInv, Completed, Whole
<1>6. newest # x
  <2>1. From(Completed, newest) = {newest}
    <3>1. newest >= newest
      BY <1>4
    <3>2. \A m \in Completed : m >= newest => m = newest
      BY <1>2, <1>4
    <3> QED
      BY <1>5, <3>1, <3>2 DEF From
  <2>2. Rank(newest) = 1
    BY <1>3, <2>1, FS_Singleton
  <2> QED
    BY <1>1, <2>2, BackupsAssumption
<1>7. Whole(newest)'
  <2>1. dirs'[newest'] = dirs[newest]
    BY <1>4, <1>6
  <2> QED
    BY <1>5, <2>1 DEF Whole
<1>8. ASSUME NEW n \in Completed', Rank(n)' <= Retention
      PROVE  Whole(n)'
  <2>1. n \in Completed /\ Rank(n)' = Cardinality(From(Completed', n))
    BY Ranks DEF Rank, From
  <2>2. Rank(n) <= Retention /\ n # x
    <3>1. CASE Completed' = Completed
      <4>1. Rank(n) <= Retention
        BY <1>3, <1>8, <2>1, <3>1
      <4> QED
        BY <1>1, <1>3, <4>1, BackupsAssumption
    <3>2. CASE Completed' = Completed \ {x}
      <4>1. n \in Completed \ {x}
        BY <3>2
      <4>2. \/ From(Completed', n) = From(Completed, n)
            \/ Rank(x) <= Cardinality(From(Completed', n))
        BY <1>1, <1>3, <3>2, <4>1, RankRemoved
      <4>3. Completed' \in SUBSET (1..MaxBackups)
        BY <1>1, <3>2
      <4>4. Cardinality(From(Completed', n)) \in Nat
        BY <4>3, FromFinite
      <4>5. ~(Rank(x) <= Cardinality(From(Completed', n)))
        BY <1>1, <1>3, <1>8, <2>1, <4>4, BackupsAssumption
      <4> QED
        BY <1>3, <1>8, <2>1, <4>1, <4>2, <4>5
    <3> QED
      BY <3>1, <3>2
  <2>3. Whole(n)
    BY <2>1, <2>2 DEF RetainedInv
  <2>4. dirs'[n] = dirs[n]
    BY <1>1, <2>1, <2>2
  <2> QED
    BY <2>3, <2>4 DEF Whole
<1>9. Completed' \in SUBSET Completed
  OBVIOUS
<1> QED
  BY <1>1, <1>2, <1>7, <1>8, <1>9 DEF RetainedInv

LEMMA Removed ==
    ASSUME RestTyped, NEW x \in Surplus,
           (\E r \in BOOLEAN : dirs' = [dirs EXCEPT ![x].place = "torn", ![x].ready = r])
             \/ dirs' = [dirs EXCEPT ![x] = NoDirectory]
    PROVE  /\ \A m \in 1..MaxBackups : m # x => dirs'[m] = dirs[m]
           /\ Completed' = Completed \/ Completed' = Completed \ {x}
<1>1. dirs \in [1..MaxBackups -> Directory] /\ x \in Completed /\ x \in 1..MaxBackups
  BY DEF RestTyped, Surplus, Completed
<1>2. \A m \in 1..MaxBackups : m # x => dirs'[m] = dirs[m]
  BY <1>1
<1>3. Completed \subseteq 1..MaxBackups /\ Completed' \subseteq 1..MaxBackups
  BY DEF Completed
<1>4. \A m \in 1..MaxBackups : m # x => (m \in Completed' <=> m \in Completed)
  BY <1>2 DEF Completed
<1> QED
  BY <1>1, <1>2, <1>3, <1>4

\* A step after the final name: nothing is written but what is pruned.
LEMMA AfterName ==
    ASSUME RestTyped, BackupsInv, UNCHANGED <<backups, newest>>,
           backup'.pc \in {"idle", "prune", "done"}, backup'.pc # "idle" => backups # 0,
           backup'.pc = "idle" => ~backup'.error,
           dirs' = dirs \/ \E x \in Surplus : Tear(x) \/ dirs' = [dirs EXCEPT ![x] = NoDirectory]
    PROVE  BackupsInv'
<1>1. CurrentInv' /\ CopyInv'
  BY DEF CurrentInv, CopyInv, Unnamed
<1>2. CASE dirs' = dirs
  BY <1>1, <1>2, RetainedSame DEF BackupsInv, FreshInv
<1>3. ASSUME NEW x \in Surplus, Tear(x) \/ dirs' = [dirs EXCEPT ![x] = NoDirectory]
      PROVE  BackupsInv'
  <2>1. /\ \A m \in 1..MaxBackups : m # x => dirs'[m] = dirs[m]
        /\ Completed' = Completed \/ Completed' = Completed \ {x}
    BY <1>3, Removed DEF Tear
  <2>2. RetainedInv'
    BY <2>1, SurplusChanged DEF BackupsInv
  <2>3. x \in 1..MaxBackups /\ dirs[x] # NoDirectory
    BY DEF Surplus, Completed, NoDirectory
  <2>4. FreshInv
    BY DEF BackupsInv
  <2>5. ASSUME NEW n \in 1..MaxBackups, n > backups
        PROVE  dirs'[n] = NoDirectory
    BY <2>1, <2>3, <2>4, <2>5 DEF FreshInv
  <2>6. FreshInv'
    BY <2>4, <2>5 DEF FreshInv
  <2> QED
    BY <1>1, <2>2, <2>6 DEF BackupsInv
<1> QED
  BY <1>2, <1>3

LEMMA PruneKeeps ==
    ASSUME Sound, BackupsInv, Prune
    PROVE  BackupsInv'
<1>1. backup.pc = "prune" /\ backups' = backups /\ newest' = newest /\ RestTyped /\ backup \in Backup
  BY DEF Prune, BackupStep, Sound, MaintenanceInv, Small
<1>2. backups # 0
  BY <1>1 DEF BackupsInv, FreshInv
<1>3. CASE To("done") /\ UNCHANGED dirs
  BY <1>1, <1>2, <1>3, Fields, AfterName
<1>4. CASE UNCHANGED backup /\ \E x \in Surplus : dirs' = [dirs EXCEPT ![x] = NoDirectory]
  BY <1>1, <1>2, <1>4, AfterName
<1>5. CASE Error("done") /\ \E x \in Surplus : Tear(x)
  BY <1>1, <1>2, <1>5, Fields, AfterName
<1>6. CASE Error("done") /\ UNCHANGED dirs
  BY <1>1, <1>2, <1>6, Fields, AfterName
<1> QED
  BY <1>3, <1>4, <1>5, <1>6 DEF Prune

LEMMA LeavingKeeps ==
    ASSUME Sound, BackupsInv, EndBackup \/ BackupDies
    PROVE  BackupsInv'
<1>1. backup' = NoBackup /\ UNCHANGED <<backups, newest>>
  BY DEF EndBackup, BackupDies, LeaveBackup
<1>2. backup'.pc = "idle" /\ ~backup'.error
  BY <1>1 DEF NoBackup
<1>3. dirs' = dirs \/ \E x \in Surplus : Tear(x)
  BY DEF EndBackup, BackupDies
<1> QED
  BY <1>1, <1>2, <1>3, AfterName DEF Sound

-------------------------------------------------------------------------------
LEMMA BackupNextKeeps ==
    ASSUME Sound, BackupsInv, BackupNext
    PROVE  BackupsInv'
<1>1. CASE BackupScript
  BY <1>1, ClosingKeeps, StopAllWorkersKeeps, CountRowsKeeps, DumpKeeps, ArchiveKeeps,
     ResumeServicesKeeps, ValidateKeeps, RestoreApartKeeps, DropRestoredKeeps, DescribeKeeps,
     MarkReadyKeeps, RenameKeeps, PruneKeeps, MarkFailedKeeps, LeavingKeeps DEF BackupScript
<1> QED
  BY <1>1, BeginBackupKeeps, LeavingKeeps DEF BackupNext

LEMMA BackupsStep ==
    ASSUME Sound, BackupsInv, [Next]_vars
    PROVE  BackupsInv'
<1>1. CASE BackupNext
  BY <1>1, BackupNextKeeps
<1>2. CASE (ReleaseNext \/ Application) /\ UNCHANGED backupVars
  BY <1>2, OutsideBackups DEF Sound
<1>3. CASE UNCHANGED vars
  <2>1. UNCHANGED <<backup, dirs, backups, newest, running, data>>
    BY <1>3 DEF vars, services, containers, backupVars
  <2>2. CurrentInv' /\ FreshInv' /\ CopyInv'
    BY <2>1 DEF BackupsInv, CurrentInv, FreshInv, CopyInv
  <2>3. RetainedInv'
    BY <2>1, RetainedSame DEF BackupsInv
  <2> QED
    BY <2>2, <2>3 DEF BackupsInv
<1> QED
  BY <1>1, <1>2, <1>3 DEF Next

LEMMA FirstBackups ==
    ASSUME Init
    PROVE  RestTyped /\ BackupsInv
<1>1. 0 \in Images /\ 0 \in 0..MaxBackups /\ NoDirectory \in Directory
      /\ NoDirectory.place = "none"
  BY ServicesBoundsAssumption, BackupsAssumption DEF Images, NoDirectory, Directory
<1>2. RestTyped
  BY <1>1 DEF Init, ServicesInit, ReleasesInit, BackupsInit, RestTyped, Moments
<1>3. /\ backup.pc = "idle" /\ ~backup.error /\ newest = 0 /\ backups = 0
      /\ \A n \in 1..MaxBackups : dirs[n] = NoDirectory
  BY DEF Init, BackupsInit, NoBackup
<1>4. Completed = {}
  BY <1>1, <1>3 DEF Completed
<1>5. CurrentInv /\ CopyInv /\ FreshInv /\ RetainedInv
  BY <1>3, <1>4 DEF CurrentInv, CopyInv, FreshInv, RetainedInv, Unnamed
<1> QED
  BY <1>2, <1>5 DEF BackupsInv

(* Once create_backup has given a backup its final name, the last one and every one of *)
(* those that prune_completed_backups is to keep is whole: dumped and archived while   *)
(* nothing changed the data, tried out, described, and marked READY.                   *)
THEOREM NewestBackupsWholeHolds == Spec => []NewestBackupsWhole
<1>1. Init => RestTyped /\ BackupsInv
  BY FirstBackups
<1>2. MaintenanceInv /\ RestTyped /\ BackupsInv /\ [Next]_vars => RestTyped' /\ BackupsInv'
  BY RestStep, BackupsStep DEF Sound
<1>3. BackupsInv => NewestBackupsWhole
  BY DEF BackupsInv, RetainedInv, NewestBackupsWhole
<1> QED
  BY <1>1, <1>2, <1>3, MaintenanceInvariant, PTL DEF Spec
===============================================================================

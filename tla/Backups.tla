-------------------------------- MODULE Backups --------------------------------
(***************************************************************************)
(* The backups (scripts/backup/): under closed entry and stopped workers a  *)
(* script counts rows and examines files, dumps the database and archives   *)
(* the file volume; it starts the services again, tries the two out on a    *)
(* database and a volume of their own, marks the directory READY, gives it  *)
(* its final name and removes the oldest complete backups.                  *)
(***************************************************************************)
EXTENDS Services

CONSTANTS
    MaxBackups,     \* bound: backups
    Retention       \* retention_count; 0 keeps every backup

ASSUME BackupsAssumption == MaxBackups \in Nat /\ Retention \in Nat

VARIABLES
    backup,     \* the backup under way
    dirs,       \* the directories; names are times, so that a later backup sorts after
    backups,    \* backups so far
    newest      \* history: the last one that got its final name, or 0

backupVars == <<backup, dirs, backups, newest>>

\* What must have succeeded for READY to be written (README, "备份与恢复演练").
Evidence == {"resumed", "archive", "restored", "dropped"}

Directory == [place    : {"none", "incomplete", "final", "torn"},
              dump     : Moments \cup {"none"},
              archive  : Moments \cup {"none"},
              evidence : SUBSET Evidence,
              metadata : BOOLEAN,   \* BACKUP-METADATA.json and SHA256SUMS
              ready    : BOOLEAN,
              failed   : BOOLEAN]   \* FAILED.txt

NoDirectory == [place |-> "none", dump |-> "none", archive |-> "none", evidence |-> {},
                metadata |-> FALSE, ready |-> FALSE, failed |-> FALSE]

Backup == [pc    : {"idle", "stop entry", "drain", "stop workers", "count", "dump", "archive",
                    "resume", "validate", "restore", "drop", "describe", "ready", "rename",
                    "prune", "failed", "done"},
           error : BOOLEAN,     \* primary_error
           stuck : BOOLEAN]     \* history: services could not be started again

NoBackup == [pc |-> "idle", error |-> FALSE, stuck |-> FALSE]

BackupsTypeOK ==
    /\ backup \in Backup
    /\ dirs \in [1..MaxBackups -> Directory]
    /\ backups \in 0..MaxBackups /\ newest \in 0..MaxBackups

BackupsInit ==
    /\ backup = NoBackup
    /\ dirs = [n \in 1..MaxBackups |-> NoDirectory]
    /\ backups = 0 /\ newest = 0

-------------------------------------------------------------------------------
To(pc) == backup' = [backup EXCEPT !.pc = pc]
Error(pc) == backup' = [backup EXCEPT !.pc = pc, !.error = TRUE]

\* A step of the script that leaves the other directories alone.
BackupStep(pc) ==
    /\ backup.pc = pc
    /\ UNCHANGED <<image, tag, migration, lock, crashes, backups>>

Kept == UNCHANGED <<dirs, newest>>
Calm == UNCHANGED <<running, jobs>>

Saw(kind) == dirs' = [dirs EXCEPT ![backups].evidence = @ \cup {kind}]

\* create_backup, inspect_environment, prepare_snapshot
BeginBackup ==
    /\ lock = "free" /\ backup.pc = "idle"
    /\ backups < MaxBackups
    /\ running = Services
    /\ lock' = "backup"
    /\ backups' = backups + 1
    /\ dirs' = [dirs EXCEPT ![backups'].place = "incomplete"]
    /\ To("stop entry")
    /\ UNCHANGED <<containers, jobs, migration, data, failures, crashes, newest>>

CloseEntry ==
    /\ BackupStep("stop entry")
    /\ \/ Stop(Entry) /\ To("drain") /\ UNCHANGED failures
       \/ Failing /\ Error("resume") /\ \E S \in SUBSET Entry : Stop(S)
    /\ UNCHANGED data /\ Kept

DrainJobs ==
    /\ BackupStep("drain")
    /\ \/ Active = {} /\ To("stop workers") /\ UNCHANGED failures
       \/ Active # {} /\ Error("resume") /\ UNCHANGED failures
       \/ Failing /\ Error("resume")
    /\ UNCHANGED data /\ Kept /\ Calm

StopAllWorkers ==
    /\ BackupStep("stop workers")
    /\ \/ Stop(Workers) /\ To("count") /\ UNCHANGED failures
       \/ Failing /\ Error("resume") /\ \E S \in SUBSET Workers : Stop(S)
    /\ UNCHANGED data /\ Kept

\* active_job_count, critical_table_counts, resource_references, probe_resources
CountRows ==
    /\ BackupStep("count")
    /\ \/ Active = {} /\ To("dump") /\ data' = "counted" /\ UNCHANGED failures
       \/ Active # {} /\ Error("resume") /\ UNCHANGED <<data, failures>>
       \/ Failing /\ Error("resume") /\ UNCHANGED data
    /\ Kept /\ Calm

\* create_database_dump
Dump ==
    /\ BackupStep("dump")
    /\ \/ To("archive") /\ dirs' = [dirs EXCEPT ![backups].dump = data] /\ UNCHANGED failures
       \/ Failing /\ Error("resume") /\ UNCHANGED dirs
    /\ UNCHANGED <<data, newest>> /\ Calm

\* create_data_archive
Archive ==
    /\ BackupStep("archive")
    /\ \/ To("resume") /\ dirs' = [dirs EXCEPT ![backups].archive = data] /\ UNCHANGED failures
       \/ Failing /\ Error("resume") /\ UNCHANGED dirs
    /\ UNCHANGED <<data, newest>> /\ Calm

\* resume_services, in the finally clause
ResumeServices ==
    /\ BackupStep("resume")
    /\ \/ /\ Start(Services)
          /\ To(IF backup.error THEN "failed" ELSE "validate")
          /\ Saw("resumed")
          /\ UNCHANGED failures
       \/ /\ Failing
          /\ \E S \in SUBSET Services : Start(S)
          /\ backup' = [backup EXCEPT !.pc = "failed", !.error = TRUE, !.stuck = TRUE]
          /\ UNCHANGED dirs
    /\ UNCHANGED <<jobs, data, newest>>

\* validate_data_archive
Validate ==
    /\ BackupStep("validate")
    /\ \/ To("restore") /\ Saw("archive") /\ UNCHANGED failures
       \/ Failing /\ Error("failed") /\ UNCHANGED dirs
    /\ UNCHANGED <<data, newest>> /\ Calm

\* _restore_database, critical_table_counts, ResourceRestore.verify: what is restored
\* is compared with what was counted, which need not tell later data from it.
RestoreApart ==
    /\ BackupStep("restore")
    /\ \/ To("drop") /\ Saw("restored") /\ UNCHANGED failures
       \/ {dirs[backups].dump, dirs[backups].archive} # {"counted"}
             /\ Error("drop") /\ UNCHANGED <<dirs, failures>>
       \/ Failing /\ Error("drop") /\ UNCHANGED dirs
    /\ UNCHANGED <<data, newest>> /\ Calm

\* _drop_database, in the finally clause
DropRestored ==
    /\ BackupStep("drop")
    /\ \/ To(IF backup.error THEN "failed" ELSE "describe") /\ Saw("dropped") /\ UNCHANGED failures
       \/ Failing /\ Error("failed") /\ UNCHANGED dirs
    /\ UNCHANGED <<data, newest>> /\ Calm

\* _complete_backup: metadata and checksums, ...
Describe ==
    /\ BackupStep("describe")
    /\ \/ To("ready") /\ dirs' = [dirs EXCEPT ![backups].metadata = TRUE] /\ UNCHANGED failures
       \/ Failing /\ Error("failed") /\ UNCHANGED dirs
    /\ UNCHANGED <<data, newest>> /\ Calm

\* ... READY, ...
MarkReady ==
    /\ BackupStep("ready")
    /\ \/ To("rename") /\ dirs' = [dirs EXCEPT ![backups].ready = TRUE] /\ UNCHANGED failures
       \/ Failing /\ Error("failed") /\ \E r \in BOOLEAN : dirs' = [dirs EXCEPT ![backups].ready = r]
    /\ UNCHANGED <<data, newest>> /\ Calm

\* ... and the final name.
Rename ==
    /\ BackupStep("rename")
    /\ \/ /\ To("prune")
          /\ dirs' = [dirs EXCEPT ![backups].place = "final"]
          /\ newest' = backups
          /\ UNCHANGED failures
       \/ Failing /\ Error("failed") /\ UNCHANGED <<dirs, newest>>
    /\ UNCHANGED data /\ Calm

\* The complete backups, as far as their names and READY tell.
Completed == {n \in 1..MaxBackups : dirs[n].place \in {"final", "torn"} /\ dirs[n].ready}
Rank(n) == Cardinality({m \in Completed : m >= n})

\* Mutant of Surplus: the backup that was just made is not counted.
SurplusBefore == IF Retention = 0 THEN {} ELSE {n \in Completed : Rank(n) >= Retention}

Surplus == IF Retention = 0 THEN {} ELSE {n \in Completed : Rank(n) > Retention}

\* A deletion that stops halfway leaves some of the files.
Tear(n) == \E r \in BOOLEAN : dirs' = [dirs EXCEPT ![n].place = "torn", ![n].ready = r]

\* prune_completed_backups, from the later to the earlier names; it may fail before a
\* deletion or halfway through one
Prune ==
    /\ BackupStep("prune")
    /\ \/ Surplus = {} /\ To("done") /\ UNCHANGED <<dirs, failures>>
       \/ Failing /\ Error("done") /\ UNCHANGED dirs
       \/ \E n \in Surplus :
             /\ \A m \in Surplus : m <= n
             /\ \/ dirs' = [dirs EXCEPT ![n] = NoDirectory] /\ UNCHANGED <<backup, failures>>
                \/ Failing /\ Tear(n) /\ Error("done")
    /\ UNCHANGED <<data, newest>> /\ Calm

\* The except clause of create_backup.
MarkFailed ==
    /\ BackupStep("failed")
    /\ dirs' = [dirs EXCEPT ![backups].ready = FALSE, ![backups].failed = TRUE]
    /\ To("done")
    /\ UNCHANGED <<data, failures, newest>> /\ Calm

LeaveBackup ==
    /\ backup' = NoBackup
    /\ lock' = "free"
    /\ UNCHANGED <<containers, jobs, migration, data, failures, backups, newest>>

EndBackup == backup.pc = "done" /\ LeaveBackup /\ UNCHANGED <<dirs, crashes>>

\* The script is killed.
BackupDies ==
    /\ backup.pc \notin {"idle", "done"}
    /\ crashes < MaxCrashes
    /\ crashes' = crashes + 1
    /\ \/ UNCHANGED dirs
       \/ backup.pc = "prune" /\ \E n \in Surplus : (\A m \in Surplus : m <= n) /\ Tear(n)
    /\ LeaveBackup

BackupScript ==
    \/ CloseEntry \/ DrainJobs \/ StopAllWorkers \/ CountRows \/ Dump \/ Archive
    \/ ResumeServices \/ Validate \/ RestoreApart \/ DropRestored
    \/ Describe \/ MarkReady \/ Rename \/ Prune \/ MarkFailed \/ EndBackup

BackupNext == BeginBackup \/ BackupScript \/ BackupDies
===============================================================================

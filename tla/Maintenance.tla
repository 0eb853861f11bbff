------------------------------ MODULE Maintenance ------------------------------
(***************************************************************************)
(* The releases and the backups of one deployment, kept apart by the lock   *)
(* file, next to the application they stop and start: the requests, the     *)
(* workers, a migration container that outlives its script, and the         *)
(* administrator who starts what maintenance left stopped.                  *)
(***************************************************************************)
EXTENDS Releases, Backups

vars == <<services, releaseVars, backupVars>>

Init == ServicesInit /\ ReleasesInit /\ BackupsInit

Application ==
    \/ UseEntry
    \/ \E w \in Workers : Work(w) \/ RecoverJob(w)
    \/ MigrationEnds
    \/ StartByHand

Next ==
    \/ ReleaseNext /\ UNCHANGED backupVars
    \/ BackupNext /\ UNCHANGED releaseVars
    \/ Application /\ UNCHANGED <<releaseVars, backupVars>>

Spec == Init /\ [][Next]_vars

-------------------------------------------------------------------------------
TypeOK == ServicesTypeOK /\ ReleasesTypeOK /\ BackupsTypeOK

(* The script waits for a migration only while nothing it would collide with is at  *)
(* work: the entry and the workers to be updated are down, and no job is queued,    *)
(* running or cut short, so that the workers that stay up have nothing to do.       *)
MigratesAlone ==
    release.pc = "migrating" =>
        /\ Active = {}
        /\ running \cap (Entry \cup release.selected) = {}

\* The containers outside the release are as they were.
OthersUntouched ==
    \A s \in Services \ release.selected : s \in running /\ image[s] = before[s]

(* What maintenance reports when it ends is what is found afterwards.  A release     *)
(* that is complete left everything running, the updated services on the candidate;  *)
(* one that was taken back left the images of before, and the tags of before where   *)
(* it had moved them; and after a migration the entry is open only if the release    *)
(* completed or its last command failed.  A backup, whatever step of it failed, left *)
(* every service running, unless the command that starts them failed itself.  The    *)
(* tags of services outside a release are not its own: an earlier release that died  *)
(* may have left them ahead of their images.                                         *)
EndsAsReported ==
    /\ release.pc = "done" =>
          /\ release.outcome = "complete" =>
                /\ OthersUntouched
                /\ \A s \in release.selected :
                      s \in running /\ image[s] = releases /\ tag[s] = releases
          /\ release.outcome = "restored" =>
                /\ image = before
                /\ release.changed => \A s \in release.selected : tag[s] = before[s]
                /\ ~release.migrated => running = Services
          /\ release.migrated /\ release.outcome \notin {"complete", "unclosed"} =>
                running \cap Entry = {}
    /\ backup.pc = "done" /\ ~backup.stuck => running = Services

CutShort(w) == jobs[w] = "running" /\ jobs'[w] = "orphaned"

(* A worker is stopped over its job only by a release that goes back after it had   *)
(* opened the entry again; never by a backup, nor by a release on its way forward.  *)
OnlyRollbackStopsJobs ==
    [][\A w \in Workers : CutShort(w) => release.back /\ release.changed]_vars

\* A backup one may restore from: the data of one moment, tried out, and described.
Whole(n) ==
    /\ dirs[n].place = "final"
    /\ dirs[n].dump \in {"counted", "migrated"} /\ dirs[n].archive \in {"counted", "migrated"}
    /\ dirs[n].evidence = Evidence
    /\ dirs[n].metadata /\ dirs[n].ready /\ ~dirs[n].failed

(* Once a backup has its final name there is always one to restore from: the last   *)
(* of them, and with it every one of the newest that are to be kept, is whole.  A   *)
(* crash in a deletion, which may leave the READY of a torn directory, does not     *)
(* reach these.                                                                    *)
NewestBackupsWhole ==
    newest # 0 =>
        /\ Whole(newest)
        /\ \A n \in Completed : Retention = 0 \/ Rank(n) <= Retention => Whole(n)
===============================================================================

------------------------------- MODULE Services -------------------------------
(***************************************************************************)
(* The containers of compose.yaml as the operations scripts (scripts/) see  *)
(* and change them: the entry (web and api) and the workers, the images     *)
(* they run, and the jobs that are queued or running meanwhile.  The        *)
(* container of the database is never stopped and is left out.             *)
(*                                                                         *)
(* A script is one process that runs docker commands under the lock file.   *)
(* A command may fail, without effect or after some or all of it.           *)
(***************************************************************************)
EXTENDS Naturals, FiniteSets

CONSTANTS
    Workers,        \* the worker services
    MaxReleases,    \* bound: releases
    MaxFailures,    \* bound: failing commands
    MaxCrashes      \* bound: scripts that die

Entry == {"web", "api"}
Services == Entry \cup Workers

\* The image a service ran at first is 0, the one built for the n-th release n.
Images == 0..MaxReleases

\* "later": the application changed it; "migrated": a migration did, and nothing else.
Moments == {"counted", "migrated", "later"}

ASSUME ServicesAssumption == Workers \cap Entry = {}
ASSUME ServicesBoundsAssumption == {MaxReleases, MaxFailures, MaxCrashes} \subseteq Nat

VARIABLES
    running,    \* the containers that run
    image,      \* the image of the container of a service
    tag,        \* the image the tag of a service stands for: "up" takes this one
    jobs,       \* the job in the queue of a worker; "orphaned": its row says running
    migration,  \* a container that migrates the database is at work
    data,       \* history: the data as a backup last counted it, or what changed it since
    lock,       \* the script that holds the lock file
    failures,   \* failing commands so far
    crashes     \* scripts that died so far

containers == <<running, image, tag>>
services == <<containers, jobs, migration, data, lock, failures, crashes>>

ServicesTypeOK ==
    /\ running \in SUBSET Services
    /\ image \in [Services -> Images] /\ tag \in [Services -> Images]
    /\ jobs \in [Workers -> {"none", "queued", "running", "orphaned"}]
    /\ migration \in BOOLEAN /\ data \in Moments
    /\ lock \in {"free", "release", "backup"}
    /\ failures \in Nat /\ crashes \in Nat

ServicesInit ==
    /\ running = Services
    /\ image = [s \in Services |-> 0] /\ tag = image
    /\ jobs = [w \in Workers |-> "none"]
    /\ migration = FALSE /\ data = "later"
    /\ lock = "free"
    /\ failures = 0 /\ crashes = 0

Active == {w \in Workers : jobs[w] # "none"}    \* active_job_count

-------------------------------------------------------------------------------
(* What goes on in the containers. *)

\* A request, which may queue a job (web/job_queue.py, web/sync/commands.py).
UseEntry ==
    /\ Entry \subseteq running
    /\ data' = "later"
    /\ \/ \E w \in Workers : jobs[w] = "none" /\ jobs' = [jobs EXCEPT ![w] = "queued"]
       \/ UNCHANGED jobs
    /\ UNCHANGED <<containers, migration, lock, failures, crashes>>

\* _run_once claims a job; it ends, or hands over to the next one of its batch.
Work(w) ==
    /\ w \in running
    /\ \/ jobs[w] = "queued" /\ jobs' = [jobs EXCEPT ![w] = "running"]
       \/ jobs[w] = "running" /\ \E next \in {"none", "queued"} : jobs' = [jobs EXCEPT ![w] = next]
    /\ data' = "later"
    /\ UNCHANGED <<containers, migration, lock, failures, crashes>>

\* Any worker queues the job of one that was stopped again, or gives it up.
RecoverJob(w) ==
    /\ jobs[w] = "orphaned"
    /\ running \cap Workers # {}
    /\ \E next \in {"none", "queued"} : jobs' = [jobs EXCEPT ![w] = next]
    /\ data' = "later"
    /\ UNCHANGED <<containers, migration, lock, failures, crashes>>

\* The migration container ends, whether or not the script still waits for it.
MigrationEnds ==
    /\ migration
    /\ migration' = FALSE
    /\ data' = IF data = "counted" THEN "migrated" ELSE data
    /\ UNCHANGED <<containers, jobs, lock, failures, crashes>>

\* After maintenance that left services down, an administrator starts the containers.
StartByHand ==
    /\ lock = "free"
    /\ running # Services
    /\ running' = Services
    /\ UNCHANGED <<image, tag, jobs, migration, data, lock, failures, crashes>>

-------------------------------------------------------------------------------
(* Commands. *)

\* A command fails: it exits with an error, or runs into its timeout.
Failing == failures < MaxFailures /\ failures' = failures + 1

\* docker compose stop; a worker that does not end its job in time is killed.
Stop(S) ==
    /\ running' = running \ S
    /\ jobs' = [w \in Workers |-> IF w \in S /\ jobs[w] = "running" THEN "orphaned" ELSE jobs[w]]

\* docker start
Start(S) == running' = running \cup S

\* docker compose up of one service: a container of another image is replaced.
Up(s, i) ==
    /\ image' = [image EXCEPT ![s] = i]
    /\ running' = running \cup {s}
    /\ jobs' = [w \in Workers |-> IF w = s /\ image[s] # i /\ jobs[w] = "running"
                                  THEN "orphaned" ELSE jobs[w]]
===============================================================================

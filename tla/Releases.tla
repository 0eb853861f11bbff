------------------------------- MODULE Releases -------------------------------
(***************************************************************************)
(* The releases of the backend services (scripts/backend_release.py), with  *)
(* a reviewed change of the schema or without, and of the web service alone *)
(* (scripts/release_web.py).                                                *)
(*                                                                         *)
(* A release closes the entry, drains the jobs, stops the workers it        *)
(* updates, migrates, puts new images in the place of the old ones, opens   *)
(* the entry and verifies what runs.  After any failure it goes back: to    *)
(* the stopped containers if no image was changed yet, to the original      *)
(* images otherwise, by the same steps; and it closes the entry again if a  *)
(* migration was attempted.                                                 *)
(***************************************************************************)
EXTENDS Services

VARIABLES
    release,    \* the release under way
    before,     \* the images of the containers when it began
    releases    \* releases so far: the candidate of this one

releaseVars == <<release, before, releases>>

Backend == {"api"} \cup Workers

\* "part": the change may go with some services, "full": only with all, web included.
Changes == {"none", "part", "full"}

Release == [pc       : {"idle", "stop entry", "drain", "stop workers", "count", "migrate",
                        "migrating", "update", "open api", "open web", "resume", "verify",
                        "close", "done"},
            alone    : BOOLEAN,             \* a release of web alone
            selected : SUBSET Services,     \* the services it updates
            change   : Changes,             \* schema_changes
            back     : BOOLEAN,             \* it has failed and goes back
            changed  : BOOLEAN,             \* changed_images
            migrated : BOOLEAN,             \* migration_attempted
            todo     : SUBSET Services,     \* images still to put in place
            outcome  : {"none", "complete", "restored", "broken", "unclosed"}]

NoRelease == [pc |-> "idle", alone |-> FALSE, selected |-> {}, change |-> "none",
              back |-> FALSE, changed |-> FALSE, migrated |-> FALSE, todo |-> {},
              outcome |-> "none"]

ReleasesTypeOK ==
    /\ release \in Release
    /\ before \in [Services -> Images]
    /\ releases \in Images

ReleasesInit == release = NoRelease /\ before = image /\ releases = 0

Target(s) == IF release.back THEN before[s] ELSE releases

-------------------------------------------------------------------------------
\* preflight passes: all services run; nothing is done before.
Prepare(services_, change, alone, pc) ==
    /\ lock = "free" /\ release.pc = "idle"
    /\ releases < MaxReleases
    /\ running = Services
    /\ releases' = releases + 1
    /\ before' = image
    /\ release' = [NoRelease EXCEPT !.pc = pc, !.alone = alone, !.selected = services_,
                                    !.change = change, !.changed = alone, !.todo = services_]
    /\ lock' = "release"
    /\ UNCHANGED <<containers, jobs, migration, data, failures, crashes>>

\* publish_backend, selected_services
BeginBackend(selected, change) ==
    /\ selected # {} /\ selected \subseteq Backend
    /\ change = "full" => selected = Backend
    /\ Prepare(IF change = "full" THEN Services ELSE selected, change, FALSE, "stop entry")

\* publish_web: no entry is closed
BeginWeb == Prepare({"web"}, "none", TRUE, "update")

Goto(pc) == release' = [release EXCEPT !.pc = pc]

\* Mutant of Returned: images that were not replaced need no other tag.
ReturnedBy(r) ==
    IF ~r.back
    THEN [r EXCEPT !.back = TRUE, !.todo = r.selected \ r.todo,
                   !.pc = IF r.changed THEN "update" ELSE "resume"]
    ELSE [r EXCEPT !.pc = IF r.migrated THEN "close" ELSE "done", !.outcome = "broken"]

\* The except clauses, from a state of the script r.
Returned(r) ==
    IF ~r.back
    THEN [r EXCEPT !.back = TRUE, !.todo = r.selected,
                   !.pc = IF r.changed THEN "update" ELSE "resume"]
    ELSE [r EXCEPT !.pc = IF r.migrated THEN "close" ELSE "done", !.outcome = "broken"]

GoBack == release' = Returned(release)

\* A step of the script that does not end it.
Script(pc) ==
    /\ release.pc = pc
    /\ UNCHANGED <<before, releases, data, lock, crashes>>

StopEntry ==
    /\ Script("stop entry")
    /\ \/ Stop(Entry) /\ Goto("drain") /\ UNCHANGED failures
       \/ Failing /\ GoBack /\ \E S \in SUBSET Entry : Stop(S)
    /\ UNCHANGED <<image, tag, migration>>

\* Mutant of Drain: the deadline ends the wait, and nothing else.
DrainAndGoOn ==
    /\ Script("drain")
    /\ Goto("stop workers") /\ UNCHANGED failures
    /\ UNCHANGED <<containers, jobs, migration>>

\* wait_for_jobs_to_drain: the last count is 0, or the deadline has passed
Drain ==
    /\ Script("drain")
    /\ \/ Active = {} /\ Goto("stop workers") /\ UNCHANGED failures
       \/ Active # {} /\ GoBack /\ UNCHANGED failures
       \/ Failing /\ GoBack
    /\ UNCHANGED <<containers, jobs, migration>>

\* Mutant of StopWorkers: workers that have nothing to do are left running.
StopBusyWorkers ==
    /\ Script("stop workers")
    /\ Stop(Active) /\ Goto("count") /\ UNCHANGED failures
    /\ UNCHANGED <<image, tag, migration>>

StopWorkers ==
    /\ Script("stop workers")
    /\ LET old == release.selected \cap Workers IN
       \/ Stop(old) /\ Goto("count") /\ UNCHANGED failures
       \/ Failing /\ GoBack /\ \E S \in SUBSET old : Stop(S)
    /\ UNCHANGED <<image, tag, migration>>

\* Jobs are counted again, and the original images get a tag by which to find them.
CountAgain ==
    /\ Script("count")
    /\ \/ /\ Active = {} /\ UNCHANGED failures
          /\ release' = IF release.change = "none"
                        THEN [release EXCEPT !.pc = "update", !.changed = TRUE]
                        ELSE [release EXCEPT !.pc = "migrate", !.migrated = TRUE]
       \/ Active # {} /\ GoBack /\ UNCHANGED failures
       \/ Failing /\ GoBack
    /\ UNCHANGED <<containers, jobs, migration>>

\* run_schema_migrations, docker run ...
StartMigration ==
    /\ Script("migrate")
    /\ \/ migration' = TRUE /\ Goto("migrating") /\ UNCHANGED failures
       \/ Failing /\ GoBack /\ UNCHANGED migration
    /\ UNCHANGED <<containers, jobs>>

\* ... returns when its container has ended, or gives up while it goes on.
MigrationReturns ==
    /\ Script("migrating")
    /\ \/ /\ ~migration /\ UNCHANGED failures
          /\ release' = [release EXCEPT !.pc = "update", !.changed = TRUE]
       \/ Failing /\ GoBack
    /\ UNCHANGED <<containers, jobs, migration>>

\* replace_images takes the workers first, then api, then web: tag and up.
Update(s) ==
    /\ Script("update")
    /\ s \in release.todo
    /\ s = "api" => release.todo \cap Workers = {}
    /\ s = "web" => release.todo = {"web"}
    /\ \/ /\ tag' = [tag EXCEPT ![s] = Target(s)]
          /\ Up(s, Target(s))
          /\ release' = [release EXCEPT !.todo = @ \ {s}]
          /\ UNCHANGED failures
       \/ /\ Failing /\ GoBack
          /\ \/ UNCHANGED <<containers, jobs>>
             \/ /\ tag' = [tag EXCEPT ![s] = Target(s)]
                /\ \/ UNCHANGED <<running, image, jobs>>
                   \/ Up(s, Target(s))
                   \/ /\ Stop({s})      \* the new container does not become healthy
                      /\ image' = [image EXCEPT ![s] = Target(s)]
    /\ UNCHANGED migration

Updated ==
    /\ Script("update")
    /\ release.todo = {}
    /\ Goto(IF release.alone THEN "verify" ELSE "open api")
    /\ UNCHANGED <<containers, jobs, migration, failures>>

\* restore_entry: an api that was not updated is started again, and waited for, ...
OpenApi ==
    /\ Script("open api")
    /\ \/ Start({"api"} \ release.selected) /\ Goto("open web") /\ UNCHANGED failures
       \/ /\ Failing /\ GoBack
          /\ \E S \in SUBSET ({"api"} \ release.selected) : Start(S)
    /\ UNCHANGED <<image, tag, jobs, migration>>

\* ... and web is started last.
OpenWeb ==
    /\ Script("open web")
    /\ \/ Start({"web"}) /\ Goto("verify") /\ UNCHANGED failures
       \/ Failing /\ GoBack /\ \E S \in SUBSET {"web"} : Start(S)
    /\ UNCHANGED <<image, tag, jobs, migration>>

\* resume_services
Resume ==
    /\ Script("resume")
    /\ \/ Start(Services) /\ Goto("verify") /\ UNCHANGED failures
       \/ Failing /\ GoBack /\ \E S \in SUBSET Services : Start(S)
    /\ UNCHANGED <<image, tag, jobs, migration>>

\* service_snapshot, verify_unchanged, verify_updated_images
Verified ==
    /\ running = Services
    /\ \A s \in Services : image[s] = IF s \in release.selected THEN Target(s) ELSE before[s]

\* ... and verify_deployment with verify_served_web
Verify ==
    /\ Script("verify")
    /\ \/ /\ Verified /\ UNCHANGED failures
          /\ release' = IF release.back
                        THEN [release EXCEPT !.pc = IF release.migrated THEN "close" ELSE "done",
                                             !.outcome = "restored"]
                        ELSE [release EXCEPT !.pc = "done", !.outcome = "complete"]
       \/ ~Verified /\ GoBack /\ UNCHANGED failures
       \/ Failing /\ GoBack
    /\ UNCHANGED <<containers, jobs, migration>>

\* The entry stays closed after a migration that did not end in a release.
Close ==
    /\ Script("close")
    /\ \/ Stop(Entry) /\ Goto("done") /\ UNCHANGED failures
       \/ /\ Failing
          /\ release' = [release EXCEPT !.pc = "done", !.outcome = "unclosed"]
          /\ \E S \in SUBSET Entry : Stop(S)
    /\ UNCHANGED <<image, tag, migration>>

LeaveRelease ==
    /\ release' = NoRelease
    /\ lock' = "free"
    /\ UNCHANGED <<containers, jobs, migration, data, failures, before, releases>>

EndRelease == release.pc = "done" /\ LeaveRelease /\ UNCHANGED crashes

\* The script is killed, and its lock with it.
ReleaseDies ==
    /\ release.pc \notin {"idle", "done"}
    /\ crashes < MaxCrashes
    /\ crashes' = crashes + 1
    /\ LeaveRelease

ReleaseScript ==
    \/ StopEntry \/ Drain \/ StopWorkers \/ CountAgain \/ StartMigration \/ MigrationReturns
    \/ \E s \in Services : Update(s)
    \/ Updated \/ OpenApi \/ OpenWeb \/ Resume \/ Verify \/ Close \/ EndRelease

ReleaseNext ==
    \/ \E selected \in SUBSET Backend, change \in Changes : BeginBackend(selected, change)
    \/ BeginWeb \/ ReleaseScript \/ ReleaseDies
===============================================================================

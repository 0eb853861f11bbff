-------------------------- MODULE StorageQuarantine --------------------------
(***************************************************************************)
(* The quarantine of export directories that nothing names any more         *)
(* (scripts/storage_quarantine.py, with scripts/audit_storage.py and        *)
(* scripts/quarantine_files.py), next to the workers and the requests of    *)
(* ExportFiles, which it does not stop.                                     *)
(*                                                                         *)
(* The script writes a manifest of the directories to be moved.  A later    *)
(* execution moves them out of the storage one by one, looking at the       *)
(* columns and the jobs before each; another one moves them back.  Either   *)
(* may be interrupted and repeated.  Each of them reads the database before *)
(* it moves, with nothing to hold the two together.                         *)
(*                                                                         *)
(* There is one manifest, of whole directories.                            *)
(***************************************************************************)
EXTENDS ExportFiles, FiniteSets

CONSTANT MaxManifest    \* bound: directories of a manifest

ASSUME QuarantineAssumption == MaxManifest \in Nat

VARIABLES
    manifest,   \* the directories of manifest.json
    members,    \* how each was found
    kept,       \* the directories below "artifacts"
    script      \* the execution under way

quarantine == <<manifest, members, kept, script>>
allVars == <<vars, quarantine>>

Forms == {"none", "tmp", "published"}
Script == [pc : {"idle", "check", "move"}, restore : BOOLEAN,
           todo : SUBSET Dirs, dir : Dirs \cup {NoDir}]
NoScript == [pc |-> "idle", restore |-> FALSE, todo |-> {}, dir |-> NoDir]

QuarantineTypeOK ==
    /\ TypeOK
    /\ manifest \in SUBSET Dirs
    /\ members \in [Dirs -> Forms] /\ kept \in [Dirs -> Forms]
    /\ script \in Script

QuarantineInit ==
    /\ Init
    /\ manifest = {}
    /\ members = [d \in Dirs |-> "none"] /\ kept = members
    /\ script = NoScript

-------------------------------------------------------------------------------
\* Mutant of SuspectedResidue: jobs are not looked at.
UnnamedResidue(d) == place[d] # "none" /\ d \notin Named

\* classify_path: no column names it, and no job of its batch is queued or running.
SuspectedResidue(d) ==
    /\ place[d] # "none"
    /\ d \notin Named
    /\ ~IsActive(job)

\* _locations: in one of the two places, and as it was found.
Located(d) ==
    /\ {place[d], kept[d]} = {"none", members[d]}
    /\ members[d] # "none"

Source(d) == IF script.restore THEN kept[d] ELSE place[d]

\* prepare_quarantine
Prepare(S) ==
    /\ script.pc = "idle" /\ manifest = {}
    /\ Cardinality(S) \in 1..MaxManifest
    /\ \A d \in S : SuspectedResidue(d)
    /\ manifest' = S
    /\ members' = [d \in Dirs |-> IF d \in S THEN place[d] ELSE "none"]
    /\ UNCHANGED <<vars, kept, script>>

\* transition_quarantine looks at all of the manifest first, ...
Begin(restore) ==
    /\ script.pc = "idle" /\ manifest # {}
    /\ \A d \in manifest :
          /\ Located(d)
          /\ restore \/ place[d] = "none" \/ SuspectedResidue(d)
    /\ script' = [pc |-> "check", restore |-> restore, todo |-> manifest, dir |-> NoDir]
    /\ UNCHANGED <<vars, manifest, members, kept>>

\* The directory "exports" of the batch; it may outlive the batch if removing it failed.
ParentExists ==
    batch # "gone" \/ deleting \/ failures > 0 \/ \E d \in Dirs : place[d] # "none"

\* ... then at one directory after the other, ...
Check(d) ==
    /\ script.pc = "check"
    /\ d \in script.todo
    /\ Located(d)
    /\ IF Source(d) = "none"
       THEN script' = [script EXCEPT !.todo = @ \ {d}]
       ELSE /\ IF script.restore THEN ParentExists ELSE SuspectedResidue(d)
            /\ script' = [script EXCEPT !.pc = "move", !.dir = d]
    /\ UNCHANGED <<vars, manifest, members, kept>>

\* ... which it moves (move_without_replace) if it is still there.
MoveDir ==
    /\ script.pc = "move"
    /\ LET d == script.dir IN
       /\ Source(d) = members[d]
       /\ IF script.restore
          THEN place[d] = "none" /\ place' = [place EXCEPT ![d] = members[d]]
                                 /\ kept' = [kept EXCEPT ![d] = "none"]
          ELSE kept[d] = "none" /\ kept' = [kept EXCEPT ![d] = members[d]]
                                /\ place' = [place EXCEPT ![d] = "none"]
       /\ script' = [script EXCEPT !.pc = "check", !.todo = @ \ {d}, !.dir = NoDir]
    /\ UNCHANGED <<selfOperated, batch, job, columns, registered, worker, deleting, lost,
                   counters, manifest, members>>

\* It is done, it refuses to go on, or it is interrupted.
Leave ==
    /\ script.pc # "idle"
    /\ script' = NoScript
    /\ UNCHANGED <<vars, manifest, members, kept>>

QuarantineNext ==
    \/ Next /\ UNCHANGED quarantine
    \/ \E S \in SUBSET Dirs : Prepare(S)
    \/ \E restore \in BOOLEAN : Begin(restore)
    \/ \E d \in Dirs : Check(d)
    \/ MoveDir \/ Leave

QuarantineSpec == QuarantineInit /\ [][QuarantineNext]_allVars

-------------------------------------------------------------------------------
(* A directory in quarantine is one that no download needs, then and later: the     *)
(* workers, whose claims and registrations go on between the look at the database   *)
(* and the move, name none that was moved, and it is in one place only.             *)
QuarantinedStaysUnnamed ==
    \A d \in Dirs : kept[d] # "none" => d \notin Named /\ place[d] = "none"

(* Where no quarantine was prepared, nothing is left behind (ExportFiles). *)
NothingLeftOutside == manifest = {} => NothingLeftBehind
===============================================================================

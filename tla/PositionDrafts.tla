----------------------------- MODULE PositionDrafts -----------------------------
(***************************************************************************)
(* The storage positions: versions of one master table, maintained on the   *)
(* web through drafts that several administrators edit at once              *)
(* (web/position_draft_*.py, web/position_drafts.py).                       *)
(*                                                                         *)
(* A request reads the draft without a lock and writes later: its UPDATE    *)
(* of the draft names the revision it has read (version_id_col), and fails  *)
(* when another request got there first.  Creating and publishing also lock *)
(* the rows of all versions of the table, in the order of their ids; since  *)
(* they all begin with the first one, that is one lock.                     *)
(*                                                                         *)
(* The rows of a draft and of a version's file are reduced to a number that *)
(* names their content.  A session of the ORM does not read again an object *)
(* it already has, so what a request saw first it keeps seeing.             *)
(***************************************************************************)
EXTENDS Naturals, FiniteSets

CONSTANTS
    Versions,       \* ids of InputVersion rows of kind position
    FirstVersion,   \* the version uploaded at the start, active
    Drafts,         \* ids of InputDraft rows
    Admins,         \* administrators, each with one page open
    NoDraft, NoAdmin,   \* none of them
    CacheSize,      \* entries of the draft analysis cache
    MaxContents,    \* bound: contents that drafts take on
    MaxFailures     \* bound: restarts of the API process and commits not heard of

ASSUME FirstVersionAssumption == FirstVersion \in Versions
ASSUME NoneAssumption == NoDraft \notin Drafts /\ NoAdmin \notin Admins
ASSUME CacheAssumption == CacheSize \in Nat \ {0}
ASSUME PositionBoundsAssumption == MaxContents \in Nat /\ MaxFailures \in Nat

VARIABLES
    version,    \* the versions: "absent", "inactive" or "active"
    origin,     \* history: the draft a version was published from
    disk,       \* disk[v]: the content of the file of v
    frames,     \* frames[v]: what PositionFrameCache may still have of v, its file gone
    unheard,    \* history: versions whose commit was not heard of
    draft,      \* the drafts
    analyses,   \* DraftAnalysisCache: what is shown for a revision of a draft
    previews,   \* PositionImportCandidates.entries
    admin,      \* the page of each administrator and the request under way
    locked,     \* who holds the locks on the rows of the versions
    contents,   \* contents so far
    failures    \* restarts and commits not heard of so far

vars == <<version, origin, disk, frames, unheard, draft, analyses, previews, admin, locked,
          contents, failures>>

NoFile == 0

DraftRecord == [state    : {"absent", "editing", "published", "discarded"},
                base     : Versions,
                revision : Nat,
                rows     : Nat]

Analysis == [d : Drafts, revision : Nat, rows : Nat]

\* A preview belongs to its administrator and compares its file with some rows.
Preview == [d : Drafts, revision : Nat, by : Admins, against : Nat]

\* d, revision and seen are the page, or the preview it applies: a draft, its
\* revision and the rows shown or compared; read tells a revision that came with
\* its rows from the one in the answer to a change.  A publication also has the content
\* it validated (seen) and wrote (file), whether its base was active when it
\* first met it, the versions its locking statement sees and the id of its row.
AdminRecord == [pc : {"idle", "viewing", "edit", "discard", "preview", "compared",
                      "register", "apply", "publish", "validated", "written",
                      "waiting", "flushed", "linked", "unheard", "refresh", "cleanup"},
                d        : Drafts \cup {NoDraft},
                revision : Nat,
                seen     : Nat,
                file     : Nat,
                read     : BOOLEAN,
                active   : BOOLEAN,
                snap     : SUBSET Versions,
                v        : Versions]

NoPage == [pc |-> "idle", d |-> NoDraft, revision |-> 0, seen |-> 0, file |-> NoFile,
           read |-> TRUE, active |-> FALSE, snap |-> {}, v |-> FirstVersion]

TypeOK ==
    /\ version \in [Versions -> {"absent", "inactive", "active"}]
    /\ origin \in [Versions -> Drafts \cup {NoDraft}]
    /\ disk \in [Versions -> Nat]
    /\ frames \in [Versions -> Nat]
    /\ unheard \in SUBSET Versions
    /\ draft \in [Drafts -> DraftRecord]
    /\ analyses \in SUBSET Analysis
    /\ previews \in SUBSET Preview
    /\ admin \in [Admins -> AdminRecord]
    /\ locked \in Admins \cup {NoAdmin}
    /\ contents \in Nat
    /\ failures \in Nat

Init ==
    /\ version = [v \in Versions |-> IF v = FirstVersion THEN "active" ELSE "absent"]
    /\ origin = [v \in Versions |-> NoDraft]
    /\ disk = [v \in Versions |-> IF v = FirstVersion THEN 1 ELSE NoFile]
    /\ frames = [v \in Versions |-> NoFile]
    /\ unheard = {}
    /\ draft = [d \in Drafts |-> [state |-> "absent", base |-> FirstVersion,
                                  revision |-> 0, rows |-> 0]]
    /\ analyses = {}
    /\ previews = {}
    /\ admin = [a \in Admins |-> NoPage]
    /\ locked = NoAdmin
    /\ contents = 1
    /\ failures = 0

Page(a) == draft[admin[a].d]

Fails == failures < MaxFailures /\ failures' = failures + 1

\* The rows that load_base_frame can return for v: those of its file or, when it is
\* gone, those that some page of this process has read while it was there.
Readable(v) == {disk[v], frames[v]} \ {NoFile}

-------------------------------------------------------------------------------
(* Pages. *)

\* Entries are dropped by age; which ones does not matter here.
Cached(as, entry) ==
    {kept \in SUBSET (as \cup {entry}) : entry \in kept /\ Cardinality(kept) <= CacheSize}

\* Mutant of SameKey: the revision is not part of the key.
SameDraft(entry, d, revision) == entry.d = d

\* The key of the analysis cache.
SameKey(entry, d, revision) == entry.d = d /\ entry.revision = revision

\* get_position_draft: the draft is loaded ...
View(a, d) ==
    /\ admin[a].pc = "idle"
    /\ draft[d].state = "editing"
    /\ admin' = [admin EXCEPT ![a] =
                   [NoPage EXCEPT !.pc = "viewing", !.d = d, !.revision = draft[d].revision]]
    /\ UNCHANGED <<version, origin, disk, frames, unheard, draft, analyses, previews,
                   locked, contents, failures>>

\* ... and later its rows, to be compared with its base, unless the analysis of that
\* revision is cached.
Analyse(a) ==
    LET d == admin[a].d  r == admin[a].revision
        hits == {entry \in analyses : SameKey(entry, d, r)}
        Show(rows) == admin' = [admin EXCEPT ![a].pc = "idle", ![a].seen = rows]
    IN  /\ admin[a].pc = "viewing"
        /\ \/ /\ \E entry \in hits : Show(entry.rows)
              /\ UNCHANGED analyses
           \/ /\ hits = {}
              /\ Readable(draft[d].base) # {}
              /\ Show(draft[d].rows)
              /\ analyses' \in Cached(analyses, [d |-> d, revision |-> r, rows |-> draft[d].rows])
        /\ UNCHANGED <<version, origin, disk, frames, unheard, draft, previews, locked,
                       contents, failures>>

-------------------------------------------------------------------------------
(* Drafts. *)

\* PositionDraftLifecycle.create, all of it under the locks of the versions:
\* the draft that is being edited, or a new one of the active version.
Create(a) ==
    /\ admin[a].pc = "idle"
    /\ locked = NoAdmin
    /\ \E d \in Drafts :
          /\ \/ draft[d].state = "editing" /\ UNCHANGED draft
             \/ /\ \A e \in Drafts : draft[e].state # "editing"
                /\ draft[d].state = "absent"
                /\ \E v \in Versions :
                      /\ version[v] = "active"
                      /\ \E rows \in Readable(v) :
                            draft' = [draft EXCEPT ![d] = [state |-> "editing", base |-> v,
                                                           revision |-> 1, rows |-> rows]]
          /\ admin' = [admin EXCEPT ![a] =
                         [NoPage EXCEPT !.pc = "viewing", !.d = d, !.revision = draft'[d].revision]]
    /\ UNCHANGED <<version, origin, disk, frames, unheard, analyses, previews, locked,
                   contents, failures>>

\* The first half of a request on the draft of the page: load the draft and
\* require the revision of the page.
Load(a, request) ==
    /\ admin[a].pc = "idle"
    /\ admin[a].d # NoDraft
    /\ Page(a).state = "editing" /\ Page(a).revision = admin[a].revision
    /\ admin' = [admin EXCEPT ![a].pc = request]
    /\ UNCHANGED <<version, origin, disk, frames, unheard, draft, analyses, previews,
                   locked, contents, failures>>

\* Mutant of SameRevision: the UPDATE of the draft names its id only.
AnyRevision(a) == admin[a].d \in Drafts

\* The UPDATE finds the revision that was read.
SameRevision(a) == Page(a).revision = admin[a].revision

\* A publication that has written the draft's row holds it until it ends.
RowFree(d) == \A a \in Admins : admin[a].pc \in {"flushed", "linked"} => admin[a].d # d

\* The second half of edits, deletions, imports and discards.
CommitChange(a, change) ==
    /\ RowFree(admin[a].d)
    /\ SameRevision(a)
    /\ draft' = [draft EXCEPT ![admin[a].d] = change]

\* mutate_draft_row, delete_draft_rows, replace_draft_from_frame: the rows change,
\* those of an import in comparison with the base
CommitRows(a) ==
    /\ admin[a].pc \in {"edit", "apply"}
    /\ admin[a].pc = "apply" => Readable(Page(a).base) # {}
    /\ contents < MaxContents
    /\ contents' = contents + 1
    /\ CommitChange(a, [Page(a) EXCEPT !.revision = @ + 1, !.rows = contents'])
    /\ admin' = [admin EXCEPT ![a].pc = "refresh", ![a].revision = @ + 1, ![a].seen = contents']
    /\ UNCHANGED <<version, origin, disk, frames, unheard, analyses, previews, locked,
                   failures>>

\* Mutant of CommitDiscard: a status nobody knows.
DiscardAsDeleted(a) ==
    /\ admin[a].pc = "discard"
    /\ CommitChange(a, [Page(a) EXCEPT !.revision = @ + 1, !.state = "deleted"])
    /\ admin' = [admin EXCEPT ![a].pc = "refresh"]
    /\ UNCHANGED <<version, origin, disk, frames, unheard, analyses, previews, locked,
                   contents, failures>>

\* discard_draft
CommitDiscard(a) ==
    /\ admin[a].pc = "discard"
    /\ CommitChange(a, [Page(a) EXCEPT !.revision = @ + 1, !.state = "discarded"])
    /\ admin' = [admin EXCEPT ![a].pc = "refresh"]
    /\ UNCHANGED <<version, origin, disk, frames, unheard, analyses, previews, locked,
                   contents, failures>>

\* A conflict, or any error, rolls back; the page has to be loaded again.
Refused(a) ==
    /\ admin[a].pc \notin {"idle", "register", "flushed", "linked", "unheard", "refresh", "cleanup"}
    /\ admin' = [admin EXCEPT ![a] = NoPage]
    /\ UNCHANGED <<version, origin, disk, frames, unheard, draft, analyses, previews,
                   locked, contents, failures>>

\* A change is committed and its answer lost: the page has to be loaded again, and the
\* previews of the draft stay.
Unanswered(a) ==
    /\ admin[a].pc = "refresh"
    /\ Fails
    /\ admin' = [admin EXCEPT ![a] = NoPage]
    /\ UNCHANGED <<version, origin, disk, frames, unheard, draft, analyses, previews, locked,
                   contents>>

\* remove_draft
WithoutDraft(d) == {p \in previews : p.d # d}

\* After the commit the draft is loaded again for the answer: the page goes on
\* with the revision that it has by then ...
Refresh(a) ==
    /\ admin[a].pc = "refresh"
    /\ admin' = [admin EXCEPT ![a].pc = "cleanup", ![a].revision = Page(a).revision,
                              ![a].read = FALSE]
    /\ UNCHANGED <<version, origin, disk, frames, unheard, draft, analyses, previews,
                   locked, contents, failures>>

\* ... and the previews of the draft are dropped.
Cleanup(a) ==
    /\ admin[a].pc = "cleanup"
    /\ previews' = WithoutDraft(admin[a].d)
    /\ admin' = [admin EXCEPT ![a].pc = "idle"]
    /\ UNCHANGED <<version, origin, disk, frames, unheard, draft, analyses, locked,
                   contents, failures>>

-------------------------------------------------------------------------------
(* Imports: a file is previewed, then applied by its token. *)

\* PositionDraftImporter.preview: after the upload the rows are read ...
Compare(a) ==
    /\ admin[a].pc = "preview"
    /\ admin' = [admin EXCEPT ![a].pc = "compared", ![a].seen = Page(a).rows]
    /\ UNCHANGED <<version, origin, disk, frames, unheard, draft, analyses, previews,
                   locked, contents, failures>>

\* ... when they have been compared, older previews of the draft go ...
DropPreviews(a) ==
    /\ admin[a].pc = "compared"
    /\ previews' = WithoutDraft(admin[a].d)
    /\ admin' = [admin EXCEPT ![a].pc = "register"]
    /\ UNCHANGED <<version, origin, disk, frames, unheard, draft, analyses, locked,
                   contents, failures>>

\* ... and the new one is registered, under the revision of the request.
Register(a) ==
    /\ admin[a].pc = "register"
    /\ previews' = previews \cup {[d |-> admin[a].d, revision |-> admin[a].revision,
                                   by |-> a, against |-> admin[a].seen]}
    /\ admin' = [admin EXCEPT ![a].pc = "idle"]
    /\ UNCHANGED <<version, origin, disk, frames, unheard, draft, analyses, locked,
                   contents, failures>>

\* import-apply: the token is used up, whether or not its revision is still that
\* of the draft
Consume(a, p) ==
    /\ admin[a].pc = "idle"
    /\ p.by = a
    /\ previews' = previews \ {p}
    /\ IF draft[p.d].state = "editing" /\ draft[p.d].revision = p.revision
       THEN admin' = [admin EXCEPT ![a] = [NoPage EXCEPT !.pc = "apply", !.d = p.d,
                                             !.revision = p.revision, !.seen = p.against]]
       ELSE admin' = [admin EXCEPT ![a] = NoPage]
    /\ UNCHANGED <<version, origin, disk, frames, unheard, draft, analyses, locked,
                   contents, failures>>

\* remove_expired, at the head of both requests
Expire(p) ==
    /\ previews' = previews \ {p}
    /\ UNCHANGED <<version, origin, disk, frames, unheard, draft, analyses, admin,
                   locked, contents, failures>>

-------------------------------------------------------------------------------
(* Publication. *)

\* validate_publication_target: the rows, the base version and its file are loaded
Validate(a) ==
    /\ admin[a].pc = "publish"
    /\ Readable(Page(a).base) # {}
    /\ admin' = [admin EXCEPT ![a].pc = "validated", ![a].seen = Page(a).rows,
                              ![a].active = (version[Page(a).base] = "active")]
    /\ UNCHANGED <<version, origin, disk, frames, unheard, draft, analyses, previews,
                   locked, contents, failures>>

\* write_position_workbook reads the rows again; rows already loaded keep their
\* values, added ones are seen
WriteFile(a) ==
    /\ admin[a].pc = "validated"
    /\ \E rows \in {admin[a].seen, Page(a).rows} :
          admin' = [admin EXCEPT ![a].pc = "written", ![a].file = rows]
    /\ UNCHANGED <<version, origin, disk, frames, unheard, draft, analyses, previews,
                   locked, contents, failures>>

\* The locking statement sees the rows there are when it starts.
AwaitLocks(a) ==
    /\ admin[a].pc = "written"
    /\ admin' = [admin EXCEPT ![a].pc = "waiting",
                              ![a].snap = {v \in Versions : version[v] # "absent"}]
    /\ UNCHANGED <<version, origin, disk, frames, unheard, draft, analyses, previews,
                   locked, contents, failures>>

\* What the publication takes to be the active versions: its base as it was when
\* it loaded it, the others as they are when it has the locks.
ActiveFor(a) ==
    LET base == Page(a).base IN
    {v \in admin[a].snap \ {base} : version[v] = "active"}
        \cup (IF admin[a].active THEN {base} ELSE {})

\* uq_active_input_kind: the statement leaves an active version it cannot see
ActiveElsewhere(a) == \E v \in Versions \ admin[a].snap : version[v] = "active"

\* Mutant of MayPublishDraft: whatever happened since is overwritten.
PublishRegardless(a) == admin[a].d \in Drafts

\* publish_draft after the locks: the base is the one active version, the new
\* row does not break the index, the revision is the one read
MayPublishDraft(a) ==
    /\ ActiveFor(a) = {Page(a).base}
    /\ ~ActiveElsewhere(a)
    /\ SameRevision(a)

\* publish_draft up to stage_publication_files: written, not committed
FlushPublication(a) ==
    /\ admin[a].pc = "waiting"
    /\ locked = NoAdmin
    /\ IF MayPublishDraft(a)
       THEN \E v \in Versions :
              /\ version[v] = "absent" /\ disk[v] = NoFile
              /\ locked' = a
              /\ admin' = [admin EXCEPT ![a].pc = "flushed", ![a].v = v]
       ELSE /\ admin' = [admin EXCEPT ![a] = NoPage]
            /\ UNCHANGED locked
    /\ UNCHANGED <<version, origin, disk, frames, unheard, draft, analyses, previews,
                   contents, failures>>

\* before_commit: the temporary file becomes the published one
Promote(a) ==
    /\ admin[a].pc = "flushed"
    /\ disk' = [disk EXCEPT ![admin[a].v] = admin[a].file]
    /\ admin' = [admin EXCEPT ![a].pc = "linked"]
    /\ UNCHANGED <<version, origin, frames, unheard, draft, analyses, previews, locked,
                   contents, failures>>

\* The database commits; after_commit fires only if its answer arrives.
CommitPublication(a) ==
    LET d == admin[a].d  v == admin[a].v IN
    /\ admin[a].pc = "linked"
    /\ version' = [w \in Versions |-> IF w = v THEN "active"
                                      ELSE IF w \in ActiveFor(a) THEN "inactive"
                                      ELSE version[w]]
    /\ origin' = [origin EXCEPT ![v] = d]
    /\ draft' = [draft EXCEPT ![d].state = "published", ![d].revision = @ + 1]
    /\ locked' = NoAdmin
    /\ \/ admin' = [admin EXCEPT ![a].pc = "refresh"] /\ UNCHANGED <<unheard, failures>>
       \/ /\ Fails
          /\ unheard' = unheard \cup {v}
          /\ admin' = [admin EXCEPT ![a].pc = "unheard"]
    /\ UNCHANGED <<disk, frames, analyses, previews, contents>>

\* The commit fails: after_transaction_end removes the promoted file.
RollBack(a) ==
    /\ admin[a].pc \in {"flushed", "linked"}
    /\ disk' = [disk EXCEPT ![admin[a].v] = NoFile]
    /\ locked' = NoAdmin
    /\ admin' = [admin EXCEPT ![a] = NoPage]
    /\ UNCHANGED <<version, origin, frames, unheard, draft, analyses, previews, contents,
                   failures>>

\* It does the same after a commit that was not heard of: the file of a version that
\* is in use by now goes; others may have read it by then.
RemoveUnheard(a) ==
    LET v == admin[a].v IN
    /\ admin[a].pc = "unheard"
    /\ disk' = [disk EXCEPT ![v] = NoFile]
    /\ frames' = [frames EXCEPT ![v] = disk[v]]
    /\ admin' = [admin EXCEPT ![a] = NoPage]
    /\ UNCHANGED <<version, origin, unheard, draft, analyses, previews, locked, contents,
                   failures>>

\* The API process restarts: open transactions are rolled back, previews and
\* analyses and frames are lost, a promoted file stays where it is.
Restart ==
    /\ Fails
    /\ admin' = [a \in Admins |-> NoPage]
    /\ previews' = {}
    /\ analyses' = {}
    /\ frames' = [v \in Versions |-> NoFile]
    /\ locked' = NoAdmin
    /\ UNCHANGED <<version, origin, disk, unheard, draft, contents>>

-------------------------------------------------------------------------------
Requests == {"edit", "discard", "preview", "publish"}

Next ==
    \/ \E a \in Admins :
          \/ \E d \in Drafts : View(a, d)
          \/ Analyse(a) \/ Create(a)
          \/ \E request \in Requests : Load(a, request)
          \/ CommitRows(a) \/ CommitDiscard(a) \/ Refused(a) \/ Unanswered(a)
          \/ Refresh(a) \/ Cleanup(a)
          \/ Compare(a) \/ DropPreviews(a) \/ Register(a)
          \/ \E p \in previews : Consume(a, p)
          \/ Validate(a) \/ WriteFile(a) \/ AwaitLocks(a) \/ FlushPublication(a)
          \/ Promote(a) \/ CommitPublication(a) \/ RollBack(a) \/ RemoveUnheard(a)
    \/ \E p \in previews : Expire(p)
    \/ Restart

Spec == Init /\ [][Next]_vars

-------------------------------------------------------------------------------
(* Safety. *)

\* The request of a is about to change the draft and the UPDATE will be accepted.
MayChange(a) ==
    /\ admin[a].pc \in {"edit", "discard", "apply", "validated", "written", "waiting"}
    /\ SameRevision(a)

\* A change that the database will accept was made by somebody who has seen the
\* rows it changes: edits and discards through a page that was loaded, imports
\* through their preview, publications through their validation.  Nobody overwrites
\* what he has not seen, although pages, previews and analyses are filled in steps.
\* Left out are the changes of a page that goes on with the revision in the answer to
\* its last change ("read" is FALSE): that may be the one of somebody else's later
\* change, as the draft is loaded again for the answer.
ChangesBuildOnSeen ==
    \A a \in Admins : MayChange(a) /\ admin[a].read => admin[a].seen = Page(a).rows

\* The file of a version is there unless the commit of its publication was not heard
\* of, and all that can be read of it are the final rows of the draft it was published
\* from, whatever was edited, restarted or rolled back meanwhile.  The exception is one
\* of the code: it cannot tell such a commit from a failed one, and removes the file.
PublishedFiles ==
    \A v \in Versions : version[v] # "absent" =>
        /\ v \notin unheard => disk[v] # NoFile
        /\ origin[v] # NoDraft =>
              /\ draft[origin[v]].state = "published"
              /\ \A rows \in Readable(v) : rows = draft[origin[v]].rows

\* There is one active version at every moment; each published version replaced
\* the base of its draft, no two drafts replaced the same version, and the draft that
\* is being edited starts from the active one, so that its administrators never lose
\* their work to a changed base.
LinearHistory ==
    /\ Cardinality({v \in Versions : version[v] = "active"}) = 1
    /\ \A v, w \in Versions : origin[v] # NoDraft /\ origin[w] # NoDraft /\ v # w
          => draft[origin[v]].base # draft[origin[w]].base
    /\ \A d \in Drafts : draft[d].state = "editing" => version[draft[d].base] = "active"
===============================================================================

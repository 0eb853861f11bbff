--------------------------- MODULE InboundAllocation ---------------------------
(***************************************************************************)
(* How the computation of a self-operated batch gives quantities to the     *)
(* inbound orders of the ERP (inbound/, self_operated_inbound.py).  A file   *)
(* says what has arrived in all under its delivery numbers; what the orders  *)
(* have received before is subtracted once (preflight), and the rest is      *)
(* given to the items still open, to the allowance for deliveries beyond     *)
(* the orders, to what users have added, and to users, in this order.        *)
(* Users enter the results in the ERP by hand and may fetch the orders anew,  *)
(* unless the batch has a workbook of them that somebody uploaded.           *)
(*                                                                         *)
(* Suppliers, SKUs and countries share nothing, so this is one of each, and   *)
(* a file has at most one line of them.                                      *)
(***************************************************************************)
EXTENDS Integers, FiniteSets, Functions

CONSTANTS
    Sites,          \* full sites of the SKU in the country
    NoSite,
    Numbers,        \* delivery numbers
    NumItems,       \* items of the inbound orders, numbered by purchase order and row
    NumFiles,       \* files of the batch, in the order the users set
    Limit,          \* overreceipt_limit of the locked rule version
    None,           \* no snapshot yet, or no uploaded workbook
    MaxQuantity,    \* bound: what an order expects and a file delivers
    MaxExtra,       \* bound: what users add
    MaxRequests     \* bound: requests

Items == 1..NumItems
Files == 1..NumFiles

ASSUME InboundAssumption ==
    /\ NoSite \notin Sites
    /\ NumItems \in Nat /\ NumFiles \in Nat /\ Limit \in Nat
ASSUME InboundBoundsAssumption ==
    MaxQuantity \in Nat /\ MaxExtra \in Nat /\ MaxRequests \in Nat

VARIABLES
    order,      \* the ERP: the items of the inbound orders
    delivery,   \* by file: its delivery numbers and the quantity that has arrived
    known,      \* sites that resolve_delivery_sites leaves to the SKU
    choice,     \* by file: receipt_sites
    workbook,   \* what is in the uploaded inbound workbook; None if it is managed
    snapshot,   \* receipt_snapshot: the items as they were fetched, or None
    receipt,    \* by file: its row of receipt_context
    extra,      \* additions by site: manual_handling["allowances"] without an order
    target,     \* additions by item
    phase, file,
    todo,       \* rest of the loop over items under way
    left,       \* summary.remaining
    balance,    \* receivable_balances
    allowance,  \* overreceipt_allowances
    addition,   \* targeted_allowances
    given,      \* by file and item: its allocation row
    pending,    \* by file: its pending row
    entered,    \* what the ERP has received since the snapshot: nothing, what this
                \* computation gave, or something else
    requests

inputs == <<delivery, known, choice, workbook, extra, target>>
loop == <<file, todo, left, balance, allowance, addition>>
results == <<given, pending>>
vars == <<order, inputs, snapshot, receipt, phase, loop, results, entered, requests>>

\* An item is open, closed, not to be received by this flow (its warehouse, or
\* no purchase order), of another supplier, or in doubt (returns, cancelled,
\* quantities that do not add up).
Kinds == {"open", "completed", "foreign", "other", "faulty"}
Item == [number : Numbers, site : Sites, kind : Kinds, expected : Nat, history : Nat]
ASSUME SnapshotAssumption == None \notin [Items -> Item]

Delivery == [numbers : SUBSET Numbers, cumulative : Nat]
\* sites is the full site: none, one, or the candidates users choose from.
Receipt == [sites : SUBSET Sites,
            state : {"none", "issue", "unconfirmed", "confirmed"},
            requested : Nat]
Given == [normal : Nat, rule : Nat, target : Nat]
Reasons == {"", "site_unknown", "no_candidate", "limit_exceeded"}
Pending == [quantity : Nat, reason : Reasons]

TypeOK ==
    /\ order \in [Items -> Item]
    /\ delivery \in [Files -> Delivery]
    /\ known \subseteq Sites
    /\ choice \in [Files -> Sites \cup {NoSite}]
    /\ workbook \in [Items -> Item] \cup {None}
    /\ snapshot \in [Items -> Item] \cup {None}
    /\ receipt \in [Files -> Receipt]
    /\ extra \in [Sites -> Nat]
    /\ target \in [Items -> Nat]
    /\ phase \in {"draft", "prepare", "compute", "files", "normal", "rule",
                  "target", "rest", "done", "refused"}
    /\ file \in Nat /\ todo \subseteq Items /\ left \in Nat
    /\ balance \in [Items -> Nat]
    /\ allowance \in [Sites -> Nat]
    /\ addition \in [Items -> Nat]
    /\ given \in [Files -> [Items -> Given]]
    /\ pending \in [Files -> Pending]
    /\ entered \in {"nothing", "this", "another"}
    /\ requests \in Nat

-------------------------------------------------------------------------------
(* Preflight: prepare_receipts on the snapshot. *)

Least(a, b) == IF a < b THEN a ELSE b
Single(S) == \E s \in S : S = {s}
Ambiguous(S) == S # {} /\ ~Single(S)

HasLine(f) == delivery[f].cumulative > 0
Numbered(f) == {i \in Items : snapshot[i].number \in delivery[f].numbers}

\* prepare_inbound_candidates: no number of the file is missing.
Complete(f) == delivery[f].numbers \subseteq {snapshot[i].number : i \in Items}

\* _resolve_inbound_candidate_sites: several sites are narrowed to the ones
\* ordered under the numbers of the file, whoever the supplier is.
Narrowed(f) ==
    IF Complete(f) /\ ~Single(known)
    THEN known \cap {snapshot[i].site : i \in Numbered(f)}
    ELSE known

OutOfRange(f) ==
    Ambiguous(Narrowed(f)) /\ choice[f] \notin Narrowed(f) \cup {NoSite}

\* _apply_site_overrides: what users chose counts while there is a choice.
FullSite(f) == IF choice[f] \in Narrowed(f) THEN {choice[f]} ELSE Narrowed(f)

\* The items whose history a file with this site has to subtract.
Matches(f) == {i \in Numbered(f) : snapshot[i].kind # "other" /\ FullSite(f) = {snapshot[i].site}}

Received(items, S) == SumFunction([i \in S |-> items[i].history])
History(f) == Received(snapshot, Matches(f))

\* Mutant of HasIssue: a file may have less than the orders have received.
ShortageIgnored(f) ==
    \/ ~Complete(f) \/ OutOfRange(f)
    \/ known # {} /\ FullSite(f) = {}
    \/ Single(FullSite(f)) /\ \E i \in Matches(f) : snapshot[i].kind = "faulty"

\* What stops the batch: a missing number, a site that is not ordered or not
\* among the candidates, an item in doubt, less than was received before.
HasIssue(f) ==
    \/ ~Complete(f) \/ OutOfRange(f)
    \/ known # {} /\ FullSite(f) = {}
    \/ /\ Single(FullSite(f))
       /\ \/ \E i \in Matches(f) : snapshot[i].kind = "faulty"
          \/ History(f) > delivery[f].cumulative

\* Mutant of Overlaps: files may claim what another one claims.
OverlapAllowed(f) == f \notin Files

\* _mark_overlaps: two files with one site under one number would subtract the
\* same history.
Overlaps(f) ==
    \E g \in Files \ {f} :
        /\ HasLine(g) /\ ~HasIssue(g)
        /\ FullSite(g) = FullSite(f)
        /\ delivery[g].numbers \cap delivery[f].numbers # {}

NoRow == [sites |-> {}, state |-> "none", requested |-> 0]

Checked(f) ==
    IF ~HasLine(f) THEN NoRow
    ELSE IF HasIssue(f) \/ Overlaps(f)
    THEN [sites |-> FullSite(f), state |-> "issue", requested |-> 0]
    ELSE IF Single(FullSite(f))
    THEN [sites     |-> FullSite(f),
          state     |-> "confirmed",
          requested |-> delivery[f].cumulative - History(f)]
    ELSE [sites     |-> FullSite(f),
          state     |-> "unconfirmed",
          requested |-> delivery[f].cumulative]

NothingGiven == [i \in Items |-> [normal |-> 0, rule |-> 0, target |-> 0]]
NothingPending == [quantity |-> 0, reason |-> ""]
NoResults ==
    /\ given' = [f \in Files |-> NothingGiven]
    /\ pending' = [f \in Files |-> NothingPending]

Init ==
    /\ order \in [Items -> [number : Numbers, site : Sites, kind : Kinds,
                            expected : 0..MaxQuantity, history : 0..MaxQuantity]]
    /\ delivery \in [Files -> [numbers : SUBSET Numbers \ {{}}, cumulative : 0..MaxQuantity]]
    /\ known \in SUBSET Sites
    /\ choice = [f \in Files |-> NoSite]
    /\ workbook \in {None, order}
    /\ snapshot = None
    /\ receipt = [f \in Files |-> NoRow]
    /\ extra = [s \in Sites |-> 0]
    /\ target = [i \in Items |-> 0]
    /\ phase = "prepare"
    /\ file = 0 /\ todo = {} /\ left = 0
    /\ balance = [i \in Items |-> 0]
    /\ allowance = [s \in Sites |-> 0]
    /\ addition = [i \in Items |-> 0]
    /\ given = [f \in Files |-> NothingGiven]
    /\ pending = [f \in Files |-> NothingPending]
    /\ entered = "nothing"
    /\ requests = 0

-------------------------------------------------------------------------------
\* _capture_snapshot reads the ERP only for a managed workbook; an uploaded one is
\* read again, as old as it may be.
Source == IF workbook = None THEN order ELSE workbook

\* _capture_snapshot, unless the batch has one of the same inputs
Fetch ==
    /\ phase = "prepare" /\ snapshot = None
    /\ snapshot' = Source
    /\ entered' = IF Source = order THEN "nothing" ELSE "another"
    /\ UNCHANGED <<order, inputs, receipt, phase, loop, results, requests>>

\* The rest of execute_prepare_inbound: one issue keeps the whole batch back.
Check ==
    /\ phase = "prepare" /\ snapshot # None
    /\ receipt' = [f \in Files |-> Checked(f)]
    /\ phase' = IF \E f \in Files : Checked(f).state = "issue" THEN "draft" ELSE "compute"
    /\ UNCHANGED <<order, inputs, snapshot, loop, results, entered, requests>>

-------------------------------------------------------------------------------
(* Computation: process_self_operated_inbound_batch. *)

Receivable(i) == IF snapshot[i].expected > snapshot[i].history
                 THEN snapshot[i].expected - snapshot[i].history ELSE 0

StartCompute ==
    /\ phase = "compute"
    /\ phase' = "files" /\ file' = 1
    /\ balance' = [i \in Items |-> Receivable(i)]
    /\ allowance' = [s \in Sites |-> Limit + extra[s]]
    /\ addition' = target
    /\ UNCHANGED <<order, inputs, snapshot, receipt, todo, left, results, entered, requests>>

\* allocation_frame: what is completed or not of this flow only has a history.
Candidates(f) == {i \in Matches(f) : snapshot[i].kind = "open"}

Settle(f, q, reason) ==
    pending' = [pending EXCEPT ![f] = [quantity |-> q, reason |-> reason]]

\* Nothing is requested, or nothing can be given to the line of the file.
SkipFile ==
    LET row == receipt[file] IN
    /\ phase = "files" /\ file \in Files
    /\ \/ /\ row.requested = 0
          /\ UNCHANGED pending
       \/ /\ row.requested > 0 /\ row.state = "unconfirmed"
          /\ Settle(file, row.requested, "site_unknown")
       \/ /\ row.requested > 0 /\ row.state = "confirmed" /\ Candidates(file) = {}
          /\ Settle(file, row.requested,
                    IF \E i \in Matches(file) : snapshot[i].kind = "completed"
                    THEN "limit_exceeded" ELSE "no_candidate")
    /\ file' = file + 1
    /\ UNCHANGED <<order, inputs, snapshot, receipt, phase, todo, left, balance,
                   allowance, addition, given, entered, requests>>

\* Mutant of Allowances: every file has the whole allowance.
AllowancesAfresh == [s \in Sites |-> Limit + extra[s]]

\* All files share the allowances of process_self_operated_inbound_batch.
Allowances == allowance

StartFile ==
    /\ phase = "files" /\ file \in Files
    /\ receipt[file].requested > 0
    /\ receipt[file].state = "confirmed" /\ Candidates(file) # {}
    /\ phase' = "normal"
    /\ todo' = Candidates(file)
    /\ left' = receipt[file].requested
    /\ allowance' = Allowances
    /\ UNCHANGED <<order, inputs, snapshot, receipt, file, balance, addition,
                   results, entered, requests>>

\* Mutant of IsFirst: items are taken in any order.
IsAny(i, S) == i \in S

IsFirst(i, S) == i \in S /\ \A j \in S : i <= j
IsLast(i, S) == i \in S /\ \A j \in S : j <= i
Give(i, source, q) == given' = [given EXCEPT ![file][i][source] = @ + q]
Site == snapshot[CHOOSE i \in Candidates(file) : TRUE].site

\* The items with an allocation row of a file; additions make none.
HasRow(row) == row.normal + row.rule > 0
Rows(f) == {i \in Items : HasRow(given[f][i])}

\* _allocate_normal, one round
TakeNormal(i) ==
    LET q == Least(left, balance[i]) IN
    /\ phase = "normal" /\ IsFirst(i, todo)
    /\ Give(i, "normal", q)
    /\ balance' = [balance EXCEPT ![i] = @ - q]
    /\ left' = left - q
    /\ todo' = todo \ {i}
    /\ phase' = IF todo = {i} THEN "rule" ELSE phase
    /\ UNCHANGED <<order, inputs, snapshot, receipt, file, allowance, addition,
                   pending, entered, requests>>

\* _allocate_overreceipt: the last candidate receives it.
TakeRule ==
    LET q == Least(left, allowance[Site]) IN
    /\ phase = "rule"
    /\ \E i \in Candidates(file) : IsLast(i, Candidates(file)) /\ Give(i, "rule", q)
    /\ allowance' = [allowance EXCEPT ![Site] = @ - q]
    /\ left' = left - q
    /\ todo' = {i \in Items : HasRow(given'[file][i])}
    /\ phase' = IF todo' = {} THEN "rest" ELSE "target"
    /\ UNCHANGED <<order, inputs, snapshot, receipt, file, balance, addition,
                   pending, entered, requests>>

\* allocate_targeted, one round: only items that have an allocation row.
TakeTarget(i) ==
    LET q == Least(left, addition[i]) IN
    /\ phase = "target" /\ IsFirst(i, todo)
    /\ Give(i, "target", q)
    /\ addition' = [addition EXCEPT ![i] = @ - q]
    /\ left' = left - q
    /\ todo' = todo \ {i}
    /\ phase' = IF todo = {i} THEN "rest" ELSE phase
    /\ UNCHANGED <<order, inputs, snapshot, receipt, file, balance, allowance,
                   pending, entered, requests>>

Imported(f, i) == given[f][i].normal + given[f][i].rule + given[f][i].target
ImportTotal(f) == SumFunction([i \in Items |-> Imported(f, i)])

\* The rest is for users; result() compares the totals of the file.
FinishFile ==
    /\ phase = "rest"
    /\ Settle(file, left, IF left > 0 THEN "limit_exceeded" ELSE "")
    /\ phase' = IF receipt[file].requested = ImportTotal(file) + left
                THEN "files" ELSE "refused"
    /\ file' = file + 1 /\ left' = 0
    /\ UNCHANGED <<order, inputs, snapshot, receipt, todo, balance, allowance,
                   addition, given, entered, requests>>

\* The totals of the batch, and _save_inbound_compute
FinishBatch ==
    /\ phase = "files" /\ file \notin Files
    /\ phase' = IF SumFunction([f \in Files |-> receipt[f].requested])
                  = SumFunction([f \in Files |-> ImportTotal(f) + pending[f].quantity])
                THEN "done" ELSE "refused"
    /\ UNCHANGED <<order, inputs, snapshot, receipt, loop, results, entered, requests>>

-------------------------------------------------------------------------------
(* Users. *)

Request == requests < MaxRequests /\ requests' = requests + 1

\* invalidate_receipts and the queued prepare job
Invalidate ==
    /\ receipt' = [f \in Files |-> NoRow]
    /\ NoResults
    /\ phase' = "prepare"

\* The result of a computation that was thrown away may have been entered.
Outdated == IF entered = "this" THEN "another" ELSE entered

\* validate_receipt_site: a row has candidates as long as its site is not known.
IsCandidate(f, s) == s \in receipt[f].sites /\ Ambiguous(receipt[f].sites)
Choose(f, s) == choice' = [choice EXCEPT ![f] = s]

\* receipt-site
ChooseSite(f, s) ==
    /\ Request
    /\ phase \in {"draft", "done"}
    /\ IsCandidate(f, s) /\ Choose(f, s)
    /\ Invalidate
    /\ entered' = Outdated
    /\ UNCHANGED <<order, delivery, known, workbook, extra, target, snapshot, loop>>

\* receipts/refresh
Refresh ==
    /\ Request
    /\ phase \in {"draft", "done"}
    /\ snapshot' = None
    /\ Invalidate
    /\ UNCHANGED <<order, inputs, loop, entered>>

\* self-operated-inbound-file: users upload a workbook of the orders as they are now,
\* whatever the batch had before; it stays a draft until the next preflight.
ReplaceInbound ==
    /\ Request
    /\ phase = "draft"
    /\ workbook' = order
    /\ snapshot' = None
    /\ receipt' = [f \in Files |-> NoRow]
    /\ NoResults
    /\ UNCHANGED <<order, delivery, known, choice, extra, target, phase, loop, entered>>

Capacity(f) == IF pending[f].reason = "limit_exceeded" THEN pending[f].quantity ELSE 0
SavedAt(s, saved) == SumFunction([i \in {j \in Items : snapshot[j].site = s} |-> saved[i]])

\* targeted_input and validate_targeted_totals: more only for an allocation row
\* of the file, and no more than the file has left.
MayAdd(f, i, q) ==
    LET s == snapshot[i].site IN
    /\ i \in Rows(f) \/ (q = 0 /\ target[i] > 0)
    /\ SavedAt(s, [target EXCEPT ![i] = q]) <= SavedAt(s, target) + Capacity(f)

\* prepare_recompute and the queued compute job: receipts stay.
Recompute ==
    /\ NoResults
    /\ phase' = "compute"
    /\ entered' = Outdated

SaveTarget(f, i, q) ==
    /\ Request
    /\ phase = "done"
    /\ MayAdd(f, i, q)
    /\ target' = [target EXCEPT ![i] = q]
    /\ Recompute
    /\ UNCHANGED <<order, delivery, known, choice, workbook, extra, snapshot, receipt, loop>>

\* allowance_input: a site with a pending row, or with an addition already
MayAddAt(s) ==
    extra[s] > 0 \/ \E f \in Files : pending[f].quantity > 0 /\ receipt[f].sites = {s}
AddAt(s, q) == extra' = [extra EXCEPT ![s] = q]

SaveExtra(s, q) ==
    /\ Request
    /\ phase = "done"
    /\ MayAddAt(s) /\ AddAt(s, q)
    /\ Recompute
    /\ UNCHANGED <<order, delivery, known, choice, workbook, target, snapshot, receipt, loop>>

\* adjustments, with a site: the batch is checked again before it is computed.
Adjust(f, s, z, q) ==
    /\ Request
    /\ phase = "done"
    /\ MayAddAt(z) /\ AddAt(z, q)
    /\ IsCandidate(f, s) /\ Choose(f, s)
    /\ Invalidate
    /\ entered' = Outdated
    /\ UNCHANGED <<order, delivery, known, workbook, target, snapshot, loop>>

\* Outside the program: users enter the results once, and the ERP may then
\* regard items as completed.
EnterResults ==
    /\ phase = "done" /\ entered = "nothing"
    /\ \E closed \in SUBSET {i \in Items : order[i].kind = "open"} :
          order' = [i \in Items |->
              [order[i] EXCEPT
                  !.history = @ + SumFunction([f \in Files |-> Imported(f, i)]),
                  !.kind = IF i \in closed THEN "completed" ELSE @]]
    /\ entered' = "this"
    /\ UNCHANGED <<inputs, snapshot, receipt, phase, loop, results, requests>>

Next ==
    \/ Fetch
    \/ Check
    \/ StartCompute
    \/ SkipFile
    \/ StartFile
    \/ \E i \in Items : TakeNormal(i) \/ TakeTarget(i)
    \/ TakeRule
    \/ FinishFile
    \/ FinishBatch
    \/ \E f \in Files, s \in Sites : ChooseSite(f, s)
    \/ Refresh
    \/ ReplaceInbound
    \/ \E f \in Files, i \in Items, q \in 0..MaxExtra : SaveTarget(f, i, q)
    \/ \E s \in Sites, q \in 0..MaxExtra : SaveExtra(s, q)
    \/ \E f \in Files, s, z \in Sites, q \in 0..MaxExtra : Adjust(f, s, z, q)
    \/ EnterResults

Spec == Init /\ [][Next]_vars

-------------------------------------------------------------------------------
\* Whatever overlaps, choices, additions and earlier rounds there were, every
\* piece of a file whose site is known counts once: the snapshot has received it,
\* or it is given now, or users have it.  As long as the ERP has received nothing
\* since the snapshot but what this computation gave, the same holds of the orders
\* in the ERP: before the results are entered they lack what is given, afterwards
\* a new preflight of managed orders requests exactly what is pending.  (An
\* uploaded workbook does not know what was entered: preflight then requests the
\* same pieces again, and entered is "another".)  And the totals of a computation
\* never differ, so that nothing stops it.
EveryPieceOnce ==
    /\ phase # "refused"
    /\ phase = "done" =>
          \A f \in Files : receipt[f].state = "confirmed" =>
              LET given_now == ImportTotal(f)
                  users     == pending[f].quantity
              IN
              /\ History(f) + given_now + users = delivery[f].cumulative
              /\ entered # "another" =>
                    Received(order, Matches(f)) + users
                      + (IF entered = "nothing" THEN given_now ELSE 0)
                    = delivery[f].cumulative

Served(f) == {i \in Items : Imported(f, i) > 0}
GivenAs(source, S) ==
    SumFunction([f \in Files |-> SumFunction([i \in S |-> given[f][i][source]])])

\* No item receives more than it expects, no site more than its allowance and
\* no item more than its addition, all files together.
WithinLimits ==
    phase = "done" =>
        /\ \A i \in Items :
              /\ GivenAs("normal", {i}) <= Receivable(i)
              /\ GivenAs("target", {i}) <= target[i]
        /\ \A s \in Sites :
              GivenAs("rule", {i \in Items : snapshot[i].site = s}) <= Limit + extra[s]

\* A file goes beyond its orders only when none of them is open, uses additions
\* only when the allowance of its site is used up, and leaves users something
\* only when nothing can be given to its items.
SourcesInOrder ==
    phase = "done" =>
        \A f \in Files : \A i \in Served(f) :
            /\ given[f][i].normal > 0 =>
                  \A j \in Candidates(f) : j < i => balance[j] = 0
            /\ given[f][i].rule > 0 => \A j \in Candidates(f) : balance[j] = 0
            /\ given[f][i].target > 0 => allowance[snapshot[i].site] = 0
            /\ pending[f].quantity > 0 =>
                  /\ \A j \in Candidates(f) : balance[j] = 0
                  /\ allowance[snapshot[i].site] = 0 /\ addition[i] = 0
===============================================================================

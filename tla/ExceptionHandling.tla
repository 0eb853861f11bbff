--------------------------- MODULE ExceptionHandling ---------------------------
(***************************************************************************)
(* What a computation could not decide, and what users do with it           *)
(* (web/manual_handling*.py, web/exception_*.py).  The records of a          *)
(* self-operated batch may be handled offline, with an input that the next  *)
(* computation applies again, or transferred to a new delivery batch; those *)
(* of a delivery batch may be split.                                        *)
(*                                                                         *)
(* This is one file of one batch and one SKU.  A computation leaves one     *)
(* record for each site it found and one for each line whose product is not *)
(* known; the latter have no site.  Every request locks the batch and       *)
(* commits once, so it is one step; an export is only active or not.        *)
(***************************************************************************)
EXTENDS Integers

CONSTANTS
    Sites,          \* full sites of the SKU
    Lines,          \* lines of the file, by original site, that may have no product
    NoSite,         \* the full site of a record of such a line
    MaxQuantity,    \* bound: what a computation leaves undecided per record
    MaxComputes,    \* bound: computations
    MaxRequests     \* bound: requests

ASSUME ExceptionAssumption == NoSite \notin Sites /\ Sites \cap Lines = {}
ASSUME ExceptionBoundsAssumption ==
    MaxQuantity \in Nat \ {0} /\ MaxComputes \in Nat /\ MaxRequests \in Nat

Keys == Sites \cup Lines
Identity(k) == IF k \in Sites THEN k ELSE NoSite
Identities == Sites \cup {NoSite}
Quantity == 0..MaxQuantity

VARIABLES
    selfOperated,   \* the kind of the batch
    batch,          \* its status, as far as these requests tell it apart
    exporting,      \* its export job is queued or running
    record,         \* the rows of ExceptionRecord, with the sums of their links and splits
    input,          \* manual_handling["offline"]: the quantity entered for an identity
    computes, requests

exceptionVars == <<selfOperated, batch, exporting, record, input, computes, requests>>

ExceptionRecord == [manual      : Quantity \ {0},
                    offline     : Quantity,
                    transferred : Quantity,     \* by ExceptionTransfer rows
                    done        : Quantity,     \* in resolved SplitRecord rows
                    status      : {"pending", "partial", "resolved"}]

None == [k \in {} |-> NoSite]

ExceptionTypeOK ==
    /\ selfOperated \in BOOLEAN
    /\ batch \in {"draft", "queued", "succeeded", "failed", "gone"}
    /\ exporting \in BOOLEAN
    /\ DOMAIN record \subseteq Keys
    /\ record \in [DOMAIN record -> ExceptionRecord]
    /\ input \in [Identities -> Quantity]
    /\ computes \in Nat /\ requests \in Nat

\* A batch whose first computation is queued.
ExceptionInit ==
    /\ selfOperated \in BOOLEAN
    /\ batch = "queued"
    /\ exporting = FALSE
    /\ record = None
    /\ input = [i \in Identities |-> 0]
    /\ computes = 0 /\ requests = 0

-------------------------------------------------------------------------------
Present == DOMAIN record

\* remaining_quantity_expression; of a split record, what its parts leave open
Remaining(k) ==
    record[k].manual - record[k].transferred - record[k].offline - record[k].done

\* Mutant of Linked: nobody looks for links.
NeverLinked == FALSE

\* require_no_transfer_links
Linked == \E k \in Present : record[k].transferred > 0

Request == requests < MaxRequests /\ requests' = requests + 1

\* The requests on results need a computed batch whose export is not active.
ExportIdle == batch = "succeeded" /\ ~exporting

\* A choice of records with a quantity for each; an id that is repeated is refused.
Items(low) == UNION {[P -> low..MaxQuantity] : P \in SUBSET Present \ {{}}}

StatusOf(rest) == IF rest = 0 THEN "resolved" ELSE "pending"

\* transfer, _reserve, _reserve_quantity, _save_transfers
Transfer(items) ==
    /\ Request
    /\ selfOperated /\ ExportIdle
    /\ \A k \in DOMAIN items : record[k].status = "pending" /\ Remaining(k) >= items[k]
    /\ record' = [k \in Present |->
                    IF k \in DOMAIN items
                    THEN [record[k] EXCEPT !.transferred = @ + items[k],
                                           !.status = StatusOf(Remaining(k) - items[k])]
                    ELSE record[k]]
    /\ exporting' = TRUE
    /\ UNCHANGED <<selfOperated, batch, input, computes>>

\* Mutant of Capacity: transfers are not subtracted.
CapacityWithoutLinks(k) == record[k].manual

\* save_offline: the earlier quantity is released first
Capacity(k) == Remaining(k) + record[k].offline

\* Mutant of SaveOffline: the status is kept.
SaveOfflineOnly(items) ==
    /\ Request
    /\ selfOperated /\ ExportIdle
    /\ \A k \in DOMAIN items : Capacity(k) >= items[k]
    /\ record' = [k \in Present |->
                    IF k \in DOMAIN items THEN [record[k] EXCEPT !.offline = items[k]]
                    ELSE record[k]]
    /\ input' \in [Identities -> Quantity]
    /\ \A i \in Identities :
          LET entered == {items[k] : k \in {j \in DOMAIN items : Identity(j) = i}}
          IN  input'[i] \in IF entered = {} THEN {input[i]} ELSE entered
    /\ exporting' = TRUE
    /\ UNCHANGED <<selfOperated, batch, computes>>

\* save_offline_item for every item; of several items with one identity the last
\* replaces the input of the others
SaveOffline(items) ==
    /\ Request
    /\ selfOperated /\ ExportIdle
    /\ \A k \in DOMAIN items : Capacity(k) >= items[k]
    /\ record' = [k \in Present |->
                    IF k \in DOMAIN items
                    THEN [record[k] EXCEPT !.offline = items[k],
                                           !.status = StatusOf(Capacity(k) - items[k])]
                    ELSE record[k]]
    /\ input' \in [Identities -> Quantity]
    /\ \A i \in Identities :
          LET entered == {items[k] : k \in {j \in DOMAIN items : Identity(j) = i}}
          IN  input'[i] \in IF entered = {} THEN {input[i]} ELSE entered
    /\ exporting' = TRUE
    /\ UNCHANGED <<selfOperated, batch, computes>>

\* save_split with validate_split: the parts replace the earlier ones and cover the
\* quantity; done of it is in resolved parts
SaveSplit(k, done) ==
    /\ Request
    /\ ~selfOperated /\ ExportIdle
    /\ done <= record[k].manual
    /\ record' = [record EXCEPT ![k].done = done,
                                ![k].status = IF done = record[k].manual THEN "resolved"
                                              ELSE IF done > 0 THEN "partial" ELSE "pending"]
    /\ UNCHANGED <<selfOperated, batch, exporting, input, computes>>

\* An export of a delivery batch is asked for.
StartExport ==
    /\ Request
    /\ ExportIdle
    /\ exporting' = TRUE
    /\ UNCHANGED <<selfOperated, batch, record, input, computes>>

ExportEnds ==
    /\ exporting
    /\ exporting' = FALSE
    /\ UNCHANGED <<selfOperated, batch, record, input, computes, requests>>

-------------------------------------------------------------------------------
\* save_allowance and prepare_recompute: the records go
SaveAllowance ==
    /\ Request
    /\ selfOperated /\ batch \in {"succeeded", "failed"} /\ ~exporting
    /\ ~Linked
    /\ record' = None
    /\ batch' = "queued"
    /\ UNCHANGED <<selfOperated, exporting, input, computes>>

\* Edits, a chosen site, a refreshed history, through invalidate_receipts: the records
\* stay until the next computation.  A computed delivery batch cannot be edited.
Invalidate ==
    /\ Request
    /\ batch \in {"draft", "failed"} \cup (IF selfOperated THEN {"succeeded"} ELSE {})
    /\ ~exporting /\ ~Linked
    /\ batch' \in {"draft", "queued"}
    /\ UNCHANGED <<selfOperated, exporting, record, input, computes>>

LowerOf(m, n) == IF m <= n THEN m ELSE n

\* Mutant of Applied: an input is applied to records of any site.
AppliedAnywhere(k, manual) ==
    IF \E i \in Identities : input[i] > 0
    THEN LowerOf(input[CHOOSE i \in Identities : input[i] > 0], manual) ELSE 0

\* apply_offline_inputs
Applied(k, manual) == LowerOf(input[Identity(k)], manual)

\* The computation saves its records, with the quantities it leaves undecided, and
\* queues the export of a self-operated batch.
Compute(left) ==
    /\ batch = "queued"
    /\ computes < MaxComputes
    /\ computes' = computes + 1
    /\ record' = [k \in DOMAIN left |->
                    [manual      |-> left[k],
                     offline     |-> Applied(k, left[k]),
                     transferred |-> 0,
                     done        |-> 0,
                     status      |-> StatusOf(left[k] - Applied(k, left[k]))]]
    /\ batch' = "succeeded"
    /\ exporting' = selfOperated
    /\ UNCHANGED <<selfOperated, input, requests>>

\* The check finds issues, or the computation fails.
ComputeFails ==
    /\ batch = "queued"
    /\ batch' \in {"draft", "failed"}
    /\ UNCHANGED <<selfOperated, exporting, record, input, computes, requests>>

\* delete_selected
Delete ==
    /\ Request
    /\ batch \notin {"queued", "gone"} /\ ~exporting
    /\ ~Linked
    /\ batch' = "gone"
    /\ record' = None
    /\ input' = [i \in Identities |-> 0]
    /\ UNCHANGED <<selfOperated, exporting, computes>>

ExceptionNext ==
    \/ \E items \in Items(1) : Transfer(items)
    \/ \E items \in Items(0) : SaveOffline(items)
    \/ \E k \in Present, done \in Quantity : SaveSplit(k, done)
    \/ StartExport \/ ExportEnds
    \/ SaveAllowance \/ Invalidate \/ Delete
    \/ \E left \in UNION {[P -> 1..MaxQuantity] : P \in SUBSET Keys} : Compute(left)
    \/ ComputeFails

ExceptionSpec == ExceptionInit /\ [][ExceptionNext]_exceptionVars

-------------------------------------------------------------------------------
(* Safety. *)

\* What is handled offline, transferred and split off a record never exceeds what the
\* computation left undecided, in whatever order that happens and is changed again.
NothingGivenTwice == \A k \in Present : Remaining(k) >= 0

\* A record counts as resolved exactly when nothing of it remains: neither is an open
\* quantity hidden nor a finished one offered again.
StatusTellsTheRest ==
    \A k \in Present : record[k].status = "resolved" <=> Remaining(k) = 0

\* A quantity that a delivery batch has taken over stays accounted for: its record is
\* not removed, replaced or reduced by an edit, a computation or a deletion.
TransferredStays ==
    [][\A k \in Present :
          record[k].transferred > 0 =>
             /\ k \in DOMAIN record'
             /\ record'[k].transferred >= record[k].transferred
             /\ record'[k].manual = record[k].manual]_exceptionVars

\* The record of a site shows what the input for that site will give it at the next
\* computation, so that a computation with the same result changes nothing.
SitesKeepInput ==
    batch = "succeeded" /\ selfOperated =>
        \A k \in Present \cap Sites : record[k].offline = Applied(k, record[k].manual)

\* A computation applies an input at most once: the records with one identity do not
\* get more than was entered for it.
InputAppliedOnce ==
    [][computes' # computes =>
          \A j, k \in DOMAIN record' :
             j # k /\ Identity(j) = Identity(k) =>
                record'[j].offline + record'[k].offline <= input[Identity(k)]]_exceptionVars
===============================================================================

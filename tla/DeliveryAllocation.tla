-------------------------- MODULE DeliveryAllocation --------------------------
(***************************************************************************)
(* How the computation of a delivery batch gives quantities to purchases    *)
(* (application.py, pipeline.py, processing/).  Its files are taken in the  *)
(* order the users set, their rows in the order of the original sites, and  *)
(* all of them share the ledger of open purchases and the allowances for    *)
(* deliveries beyond them.  What is left of a row is an exception.           *)
(*                                                                         *)
(* Suppliers and SKUs share nothing, so this is one of each: a row is given *)
(* by its original site, the country at the end of a full site, and a       *)
(* balance by the full site.  An override is the site a transfer chose for  *)
(* its row; as TransferFile.add derives the row from the site, no two rows   *)
(* of a file have one site, and each meets the ledger as it stands.          *)
(***************************************************************************)
EXTENDS Integers, Functions

CONSTANTS
    Sites,          \* full sites of the SKU
    NoSite,
    NumLines,       \* original sites, numbered as they are sorted
    SitesOf,        \* by original site: the full sites that end with it
    NumWarehouses,  \* warehouses, numbered by warehouse_sort_key: the local one first
    Allowed,        \* warehouses the policy allows deliveries beyond the orders to
    Scales, Blank,  \* scales of storage positions, and a position without one
    Limit,          \* by scale: the quantity the policy allows (limit_for)
    NoRule,         \* no entry among the allowances
    MaxHalves,      \* bound: what is ordered by site and warehouse, in halves
    MaxQuantity,    \* bound: what a row delivers
    MaxFiles        \* bound: files of the batch

Lines == 1..NumLines
Warehouses == 1..NumWarehouses

ASSUME AllocationAssumption ==
    /\ NoSite \notin Sites
    /\ NumLines \in Nat /\ NumWarehouses \in Nat
    /\ SitesOf \in [Lines -> SUBSET Sites]
    /\ \A l, m \in Lines : l # m => SitesOf[l] \cap SitesOf[m] = {}
    /\ Allowed \subseteq Warehouses
    /\ Blank \notin Scales /\ Limit \in [Scales -> Nat]
    /\ NoRule \notin Nat
ASSUME AllocationBoundsAssumption ==
    MaxHalves \in Nat /\ MaxQuantity \in Nat /\ MaxFiles \in Nat

VARIABLES
    ordered,    \* the purchase data: by site and warehouse, in halves of a piece
    rule,       \* the allowances as built, by site
    resolved,   \* by line: what resolve_delivery_sites finds
    open,       \* ledger.balances: what is left of ordered
    allowance,  \* allowances: what is left of rule
    phase, file, line,
    row,        \* the row being allocated and its AllocationSummary
    pending,    \* exceptions of the file
    total,      \* quantities of the file
    batch       \* quantities of the files before it

inputs == <<ordered, rule, resolved>>
ledger == <<open, allowance>>
allocationVars == <<inputs, ledger, phase, file, line, row, pending, total, batch>>

Unresolved == {"product_not_found", "ambiguous_product_site"}
Short == {"overreceipt_limit_exceeded", "purchase_balance_exceeded",
          "purchase_not_found"}
Reasons == {""} \cup Unresolved

Resolution == [site : Sites \cup {NoSite}, reason : Reasons]
Row == [site     : Sites \cup {NoSite},
        left     : Nat,                     \* summary.remaining
        purchase : Nat,
        todo     : SUBSET Warehouses,       \* candidates not tried yet
        found    : BOOLEAN]                 \* there were any
Pending == [line      : Lines,
            site      : Sites \cup {NoSite},
            reason    : Unresolved \cup Short,
            allocated : Nat,
            manual    : Nat]
Totals == [delivered : Nat, imported : Nat, manual : Nat]

AllocationTypeOK ==
    /\ ordered \in [Sites -> [Warehouses -> Nat]]
    /\ rule \in [Sites -> Nat \cup {NoRule}]
    /\ resolved \in [Lines -> Resolution]
    /\ open \in [Sites -> [Warehouses -> Nat]]
    /\ allowance \in [Sites -> Nat \cup {NoRule}]
    /\ phase \in {"files", "rows", "row", "done", "refused"}
    /\ file \in Nat /\ line \in Nat
    /\ row \in Row
    /\ pending \subseteq Pending
    /\ total \in Totals /\ batch \in Totals

-------------------------------------------------------------------------------
Least(a, b) == IF a < b THEN a ELSE b

\* int(balance.remaining)
Whole(halves) == halves \div 2

Single(S) == \E s \in S : S = {s}

\* Without a product of a known category, or with several sites of which none
\* or more than one is locked, a row has no site.
Resolve(l, known, locked) ==
    LET all == SitesOf[l] \cap known
        full == IF ~Single(all) /\ all \cap locked # {} THEN all \cap locked ELSE all
    IN  [site   |-> IF Single(full) THEN CHOOSE s \in full : TRUE ELSE NoSite,
         reason |-> IF Single(full) THEN ""
                    ELSE IF full = {} THEN "product_not_found"
                    ELSE "ambiguous_product_site"]

\* _apply_site_overrides with allow_site_change
Overridden(l, choice) ==
    IF choice = NoSite THEN resolved[l] ELSE [site |-> choice, reason |-> ""]

\* build_overreceipt_allowances: positions of one scale, and something ordered
\* for a warehouse the policy allows.
Allowance(orders, scales) ==
    IF /\ \E w \in Allowed : orders[w] > 0
       /\ \E scale \in Scales : scales = {scale} /\ Limit[scale] > 0
    THEN Limit[CHOOSE scale \in Scales : scales = {scale}]
    ELSE NoRule

NoRow == [site |-> NoSite, left |-> 0, purchase |-> 0, todo |-> {}, found |-> FALSE]
NoQuantities == [delivered |-> 0, imported |-> 0, manual |-> 0]

AllocationInit ==
    /\ ordered \in [Sites -> [Warehouses -> 0..MaxHalves]]
    /\ \E scales \in [Sites -> SUBSET (Scales \cup {Blank})] :
          rule = [s \in Sites |-> Allowance(ordered[s], scales[s])]
    /\ \E known, locked \in SUBSET Sites :
          resolved = [l \in Lines |-> Resolve(l, known, locked)]
    /\ open = ordered
    /\ allowance = rule
    /\ phase = "files" /\ file = 0 /\ line = 1
    /\ row = NoRow
    /\ pending = {}
    /\ total = NoQuantities /\ batch = NoQuantities

-------------------------------------------------------------------------------
\* Mutant of Balances: every file reads the purchase data again.
BalancesAfresh == ordered

\* The one ledger of process_delivery_batch goes on to the next file.
Balances == open

\* process_data for the next file
StartFile ==
    /\ phase = "files" /\ file < MaxFiles
    /\ phase' = "rows" /\ file' = file + 1 /\ line' = 1
    /\ pending' = {}
    /\ total' = NoQuantities
    /\ open' = Balances
    /\ UNCHANGED <<inputs, allowance, row, batch>>

\* active_candidates
Candidates(s) == {w \in Warehouses : open[s][w] > 0}

SkipLine ==
    /\ phase = "rows" /\ line \in Lines
    /\ line' = line + 1
    /\ UNCHANGED <<inputs, ledger, phase, file, row, pending, total, batch>>

\* A row without a site is an exception at once.
StartRow(q, choice) ==
    LET target == Overridden(line, choice)
    IN  /\ phase = "rows" /\ line \in Lines
        /\ choice \in SitesOf[line] \cup {NoSite}
        /\ IF target.reason = ""
           THEN /\ phase' = "row"
                /\ row' = [site     |-> target.site,
                           left     |-> q,
                           purchase |-> 0,
                           todo     |-> Candidates(target.site),
                           found    |-> Candidates(target.site) # {}]
                /\ total' = [total EXCEPT !.delivered = @ + q]
                /\ UNCHANGED <<line, pending>>
           ELSE /\ pending' = pending \cup
                      {[line      |-> line,
                        site      |-> target.site,
                        reason    |-> target.reason,
                        allocated |-> 0,
                        manual    |-> q]}
                /\ total' = [total EXCEPT !.delivered = @ + q, !.manual = @ + q]
                /\ line' = line + 1
                /\ UNCHANGED <<phase, row>>
        /\ UNCHANGED <<inputs, ledger, file, batch>>

IsNext(w) == w \in row.todo /\ \A v \in row.todo : w <= v

Takes(w) == Least(row.left, Whole(open[row.site][w]))

\* Mutant of LeftToTry: the first warehouse that gives anything is the last.
NoneAfterOne(w, q) == IF q > 0 THEN {} ELSE row.todo \ {w}

\* The loop ends with a row that is served.
LeftToTry(w, q) == IF row.left = q THEN {} ELSE row.todo \ {w}

\* One round of the loop of _allocate_purchase.
Take(w) ==
    LET q == Takes(w)
    IN  /\ phase = "row" /\ IsNext(w)
        /\ open' = [open EXCEPT ![row.site][w] = @ - 2 * q]
        /\ row' = [row EXCEPT !.left = @ - q,
                              !.purchase = @ + q,
                              !.todo = LeftToTry(w, q)]
        /\ total' = [total EXCEPT !.imported = @ + q]
        /\ UNCHANGED <<inputs, allowance, phase, file, line, pending, batch>>

HasRule(s) == allowance[s] # NoRule

\* _allocate_overreceipt
Beyond == IF HasRule(row.site) THEN Least(row.left, allowance[row.site]) ELSE 0

Reason ==
    IF HasRule(row.site) THEN "overreceipt_limit_exceeded"
    ELSE IF row.found THEN "purchase_balance_exceeded"
    ELSE "purchase_not_found"

\* Mutant of Rest: whatever found a purchase is done.
RestIfNothingFound == IF row.found THEN 0 ELSE row.left - Beyond

Rest == row.left - Beyond

\* What the purchases left goes beyond them, and the rest is an exception.
FinishRow ==
    /\ phase = "row" /\ row.todo = {}
    /\ allowance' = IF HasRule(row.site)
                    THEN [allowance EXCEPT ![row.site] = @ - Beyond]
                    ELSE allowance
    /\ total' = [total EXCEPT !.imported = @ + Beyond, !.manual = @ + Rest]
    /\ pending' = pending \cup
          (IF Rest > 0
           THEN {[line      |-> line,
                  site      |-> row.site,
                  reason    |-> Reason,
                  allocated |-> row.purchase + Beyond,
                  manual    |-> Rest]}
           ELSE {})
    /\ row' = NoRow
    /\ phase' = "rows" /\ line' = line + 1
    /\ UNCHANGED <<inputs, open, file, batch>>

Balanced(quantities) ==
    quantities.delivered = quantities.imported + quantities.manual

\* A file has at least one row (normalize_delivery_sheet).
EndFile ==
    /\ phase = "rows" /\ line \notin Lines
    /\ total.delivered > 0
    /\ phase' = IF Balanced(total) THEN "files" ELSE "refused"
    /\ batch' = [q \in DOMAIN batch |-> batch[q] + total[q]]
    /\ total' = NoQuantities
    /\ UNCHANGED <<inputs, ledger, file, line, row, pending>>

EndBatch ==
    /\ phase = "files" /\ file > 0
    /\ phase' = IF Balanced(batch) THEN "done" ELSE "refused"
    /\ UNCHANGED <<inputs, ledger, file, line, row, pending, total, batch>>

AllocationNext ==
    \/ StartFile
    \/ SkipLine
    \/ \E q \in 1..MaxQuantity, choice \in Sites \cup {NoSite} : StartRow(q, choice)
    \/ \E w \in Warehouses : Take(w)
    \/ FinishRow
    \/ EndFile
    \/ EndBatch

AllocationSpec == AllocationInit /\ [][AllocationNext]_allocationVars

-------------------------------------------------------------------------------
\* The checks of process_data and process_delivery_batch ("数量守恒校验失败",
\* "批次交货总量不守恒") never stop a computation: what a file delivers is
\* imported or left to users, piece by piece.
NothingLost == phase # "refused"

\* A warehouse is only used when the ones before it have no whole piece left,
\* whatever rows, files and overrides came before.
WarehousesInOrder ==
    \A s \in Sites, v, w \in Warehouses :
        v < w /\ open[s][w] # ordered[s][w] => Whole(open[s][v]) = 0

Exhausted(s) == \A w \in Warehouses : Whole(open[s][w]) = 0

\* Nothing is delivered beyond the orders while an order is open.
BeyondAfterOrders ==
    \A s \in Sites : allowance[s] # rule[s] => Exhausted(s)

\* Both, so that the quantities of a site come from its sources in one order:
\* its warehouses as they are sorted, then its allowance.
SourcesInOrder == WarehousesInOrder /\ BeyondAfterOrders

\* What users have to handle could not be given to anything: its site has
\* neither an order nor an allowance left, then or later in the batch.
ManualIsLast ==
    \A p \in pending :
        p.reason \in Short => Exhausted(p.site) /\ allowance[p.site] \in {0, NoRule}

\* The batch keeps the promise of PurchaseQuota: a row takes effect when it is
\* finished, so what it has taken so far still counts as left.
Quota == INSTANCE PurchaseQuota WITH
    left <- [s \in Sites |->
                SumFunction([w \in Warehouses |-> Whole(open[s][w])])
                + IF phase = "row" /\ row.site = s THEN row.purchase ELSE 0],
    extra <- [s \in Sites |-> IF HasRule(s) THEN allowance[s] ELSE 0],
    manual <- batch.manual + total.manual

\* Whatever the warehouses, the order of the files and the overrides, every row
\* of a site gets the least of what it delivers and what is left of the site's
\* orders and allowance; nothing else changes them, the next file included.
QuotaKept == Quota!Spec
===============================================================================

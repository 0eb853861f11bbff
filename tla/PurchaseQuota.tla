----------------------------- MODULE PurchaseQuota -----------------------------
(***************************************************************************)
(* What the allocation of a delivery batch promises, whatever the           *)
(* warehouses, files and rows it goes through (process_delivery_batch in     *)
(* application.py: "files of one batch share one snapshot of the purchase   *)
(* balances").  Every site has a quota of open purchases and, after it, a   *)
(* quota of extra deliveries; a row is served at once from what is left of   *)
(* the two, and the rest of it is for a user to handle.                     *)
(***************************************************************************)
EXTENDS Integers

CONSTANTS Sites, MaxQuantity

VARIABLES left,     \* by site: the quantity purchases still allow
          extra,    \* by site: the quantity beyond them the rule still allows
          manual    \* what users have to handle

vars == <<left, extra, manual>>

Least(a, b) == IF a < b THEN a ELSE b

Init ==
    /\ left \in [Sites -> Nat]
    /\ extra \in [Sites -> Nat]
    /\ manual = 0

Serve(s, q) ==
    LET bought == Least(q, left[s])
        beyond == Least(q - bought, extra[s])
    IN  /\ left' = [left EXCEPT ![s] = @ - bought]
        /\ extra' = [extra EXCEPT ![s] = @ - beyond]
        /\ manual' = manual + (q - bought - beyond)

\* A row whose site is not known.
Pass(q) == manual' = manual + q /\ UNCHANGED <<left, extra>>

Next == \E q \in 1..MaxQuantity : Pass(q) \/ \E s \in Sites : Serve(s, q)

Spec == Init /\ [][Next]_vars
===============================================================================

-------------------------- MODULE MCPurchaseDetails --------------------------
(* PurchaseDetails with orders, sources and executions that are interchangeable. *)
EXTENDS PurchaseDetails, TLC

Symmetry == Permutations(Orders) \cup Permutations(Sources) \cup Permutations(Syncs)
===============================================================================

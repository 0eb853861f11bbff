-------------------------- MODULE MCDeliveryAllocation --------------------------
(***************************************************************************)
(* Instances of DeliveryAllocation for TLC: a country with two sites, one    *)
(* whose products nobody knows, a local and an overseas warehouse.          *)
(***************************************************************************)
EXTENDS DeliveryAllocation, TLC

TwoCountries == <<Sites, {}>>
OneAndNothing == [scale \in Scales |-> IF scale = "long" THEN 1 ELSE 0]

Symmetry == Permutations(Sites)
===============================================================================

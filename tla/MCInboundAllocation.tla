-------------------------- MODULE MCInboundAllocation --------------------------
(***************************************************************************)
(* An instance of InboundAllocation for TLC: an item of the first number    *)
(* and site, and one of any number, site and kind; a file that names the     *)
(* first number or both, and one that names either.  A workbook is uploaded    *)
(* with the batch where the sites of the SKU leave a choice, and replaces one  *)
(* wherever users may.                                                        *)
(***************************************************************************)
EXTENDS InboundAllocation, TLC

CONSTANTS n1, n2, s1, s2

Quantities == 1..MaxQuantity
FirstItems ==
    [number : {n1}, site : {s1}, kind : {"open", "completed"}, expected : Quantities, history : 0..1]
OtherItems ==
    [number : Numbers, site : Sites, kind : Kinds \ {"completed"}, expected : Quantities, history : 0..1]
FirstFiles == [numbers : {{n1}, Numbers}, cumulative : Quantities]
OtherFiles == [numbers : {{n} : n \in Numbers}, cumulative : {0} \cup Quantities]

MCInit ==
    /\ \E i \in FirstItems, j \in OtherItems : order = <<i, j>>
    /\ \E f \in FirstFiles, g \in OtherFiles : delivery = <<f, g>>
    /\ known \in {{}, {s1}, Sites}
    /\ Init
    /\ known # Sites => workbook = None
MCSpec == MCInit /\ [][Next]_vars
===============================================================================

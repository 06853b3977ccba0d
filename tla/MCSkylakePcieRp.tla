-------------------------- MODULE MCSkylakePcieRp --------------------------
(***************************************************************************)
(* SkylakePcieRp on all three PCH SKUs.  Each PCIe device of the board's   *)
(* devicetree takes one of a few shapes: every port disabled, function 0   *)
(* enabled (alone or with a later port), function 0 disabled with one or   *)
(* two later ports enabled (the first one at function 1, in the middle, or *)
(* at the last function), or no node at function 0.                        *)
(***************************************************************************)
EXTENDS SkylakePcieRp

MCSkus == {"SPT_LP", "SPT_H", "KBP_H"}

MCDtPatterns(n) ==
    LET all == 0 .. n - 1
    IN  {[nodes |-> all,         on |-> {}],
         [nodes |-> all,         on |-> {0}],
         [nodes |-> all,         on |-> {0, 2}],
         [nodes |-> all,         on |-> {1, 3}],
         [nodes |-> all,         on |-> {2}],
         [nodes |-> all,         on |-> {n - 1}],
         [nodes |-> all \ {0},   on |-> {2}]}

\* The shapes where every device has a node at function 0 and some port
\* enabled: the boards pcie_update_device_tree is written for.
MCDtPatternsFunc0(n) ==
    {pat \in MCDtPatterns(n) : 0 \in pat.nodes /\ pat.on # {}}
=============================================================================

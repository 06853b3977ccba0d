--------------------------- MODULE SkylakePcieRp ---------------------------
(***************************************************************************)
(* The PCIe root-port devicetree fix-up that soc_init_pre_device runs      *)
(* after FSP silicon init on Skylake/Kaby Lake PCHs                        *)
(* (soc/intel/skylake/chip_fsp20.c).                                       *)
(*                                                                         *)
(* A root port is named by the devfn it has at reset.  The devicetree has  *)
(* a node for some of the ports; node[p] is the devfn node p currently     *)
(* claims (path.pci.devfn).  hw[d] is the port the hardware answers with   *)
(* at function d after FSP-S, or Absent when the function reads all ones. *)
(* FSP-S disables the ports the devicetree disables and, per the comment   *)
(* of pcie_update_device_tree, "might" coalesce a device's ports when its  *)
(* function 0 is disabled: the model lets it either leave the functions    *)
(* alone or move the first enabled port of the device to function 0.       *)
(* The ITSS snapshot/restore around FSP-S leaves the IRQ polarities as the *)
(* board set them; no property is about them, so they are not state.      *)
(***************************************************************************)
EXTENDS Integers, SequencesExt, Functions

CONSTANTS
    Skus,         \* PCH SKUs the board may carry: subset of {"SPT_LP", "SPT_H", "KBP_H"}
    DtPatterns(_) \* DtPatterns(n): devicetree choices for a device of n functions,
                  \*   records [nodes, on] of function numbers
                  \*   (nodes: has a devicetree node, on: node is enabled)

VARIABLES
    sku,      \* the PCH on the board
    node,     \* devicetree node of port p -> devfn it claims
    on,       \* ports whose devicetree node is enabled
    hw,       \* function devfn -> port answering there, or Absent
    stage     \* "pre" before soc_init_pre_device, "done" after

vars == <<sku, node, on, hw, stage>>

NoNode == -1
Absent == -1

\* A devfn built with the slot shifted by 4 instead of 3.
PCI_DEVFN_shift4(slot, func) == slot * 16 + func
PCI_DEVFN(slot, func) == slot * 8 + func
PCH_DEVFN_PCIE1  == PCI_DEVFN(28, 0)
PCH_DEVFN_PCIE9  == PCI_DEVFN(29, 0)
PCH_DEVFN_PCIE17 == PCI_DEVFN(27, 0)

PCI_DEVICE_ID_INTEL_SPT_LP_PCIE_RP1 == 40208   \* 0x9D10
PCI_DEVICE_ID_INTEL_KBP_H_PCIE_RP1  == 41616   \* 0xA290
PCI_DEVICE_ID_INTEL_SPT_H_PCIE_RP1  == 41232   \* 0xA110

Entry(devfn, n) == [devfn |-> devfn, func_count |-> n]

\* The three code tables.
pcie_table_skl_pch_h  == <<Entry(PCH_DEVFN_PCIE1, 8), Entry(PCH_DEVFN_PCIE9, 8),
                           Entry(PCH_DEVFN_PCIE17, 4)>>
pcie_table_kbl_pch_h  == <<Entry(PCH_DEVFN_PCIE1, 8), Entry(PCH_DEVFN_PCIE9, 8),
                           Entry(PCH_DEVFN_PCIE17, 8)>>
pcie_table_skl_pch_lp == <<Entry(PCH_DEVFN_PCIE1, 8), Entry(PCH_DEVFN_PCIE9, 4)>>

\* The hardware, from the "table 2-2" comments above the code tables:
\* each device with its function count and the device ID of function 0.
Layout(s) ==
    CASE s = "SPT_LP" -> <<[devfn |-> PCH_DEVFN_PCIE1,  func_count |-> 8, id0 |-> 40208],
                           [devfn |-> PCH_DEVFN_PCIE9,  func_count |-> 4, id0 |-> 40216]>>
      [] s = "SPT_H"  -> <<[devfn |-> PCH_DEVFN_PCIE1,  func_count |-> 8, id0 |-> 41232],
                           [devfn |-> PCH_DEVFN_PCIE9,  func_count |-> 8, id0 |-> 41240],
                           [devfn |-> PCH_DEVFN_PCIE17, func_count |-> 4, id0 |-> 41319]>>
      [] s = "KBP_H"  -> <<[devfn |-> PCH_DEVFN_PCIE1,  func_count |-> 8, id0 |-> 41616],
                           [devfn |-> PCH_DEVFN_PCIE9,  func_count |-> 8, id0 |-> 41624],
                           [devfn |-> PCH_DEVFN_PCIE17, func_count |-> 8, id0 |-> 41703]>>

Funcs(g) == {g.devfn + i : i \in 0 .. g.func_count - 1}
Ports(s) == UNION {Funcs(Layout(s)[k]) : k \in DOMAIN Layout(s)}
Device(d) == d \div 8

\* Device ID register of the port reset-named p.
PortId(s, p) ==
    LET g == Layout(s)[CHOOSE k \in DOMAIN Layout(s) : p \in Funcs(Layout(s)[k])]
    IN  g.id0 + (p - g.devfn)

\* dev_find_slot(0, devfn): the node claiming devfn, or NULL.
dev_find_slot(nd, devfn) ==
    IF \E p \in DOMAIN nd : nd[p] = devfn
    THEN CHOOSE p \in DOMAIN nd : nd[p] = devfn ELSE NoNode

\* pci_read_config32(dev, PCI_VENDOR_ID) == 0xffffffff.
ReadsAllOnes(h, devfn) == devfn \notin DOMAIN h \/ h[devfn] = Absent

\* pci_read_config16(dev, PCI_DEVICE_ID), 0xffff for an absent function.
ReadDeviceId(s, h, devfn) ==
    IF ReadsAllOnes(h, devfn) THEN 65535 ELSE PortId(s, h[devfn])

\* A swap that moves function 0's node but forgets to move the other.
SwapFirstEnabled_oneway(nd, en, func0, devfn0, i, func_count) ==
    LET RECURSIVE Go(_, _)
        Go(n, j) ==
            IF j >= func_count THEN n
            ELSE LET dev == dev_find_slot(n, devfn0 + j)
                 IN  IF dev = NoNode \/ dev \notin en THEN Go(n, j + 1)
                     ELSE [n EXCEPT ![func0] = n[dev]]
    IN  Go(nd, i)

\* The inner loop: from function i on, swap the first enabled node with func0.
RECURSIVE SwapFirstEnabled(_, _, _, _, _, _)
SwapFirstEnabled(nd, en, func0, devfn0, i, func_count) ==
    IF i >= func_count THEN nd
    ELSE LET dev == dev_find_slot(nd, devfn0 + i)
         IN  IF dev = NoNode \/ dev \notin en
             THEN SwapFirstEnabled(nd, en, func0, devfn0, i + 1, func_count)
             ELSE [nd EXCEPT ![func0] = nd[dev], ![dev] = devfn0]

\* One iteration of the group loop.
UpdateGroup(nd, en, h, e) ==
    LET func0 == dev_find_slot(nd, e.devfn)
    IN  IF func0 = NoNode \/ ReadsAllOnes(h, nd[func0]) THEN nd
        ELSE SwapFirstEnabled(nd, en, func0, e.devfn, 1, e.func_count)

pcie_update_device_tree(nd, en, h, pcie_rp_group) ==
    FoldLeft(LAMBDA acc, e : UpdateGroup(acc, en, h, e), nd, pcie_rp_group)

\* id & ~0x3: a mask that keeps function bits 2 and 3.
IdMask_narrow(id) == id - (id % 4)

\* id & ~0xf
IdMask(id) == id - (id % 16)

pcie_override_devicetree_after_silicon_init(s, nd, en, h) ==
    LET id_mask == IdMask(ReadDeviceId(s, h, PCH_DEVFN_PCIE1))
    IN  CASE id_mask = IdMask(PCI_DEVICE_ID_INTEL_SPT_LP_PCIE_RP1) ->
                 pcie_update_device_tree(nd, en, h, pcie_table_skl_pch_lp)
          [] id_mask = IdMask(PCI_DEVICE_ID_INTEL_KBP_H_PCIE_RP1) ->
                 pcie_update_device_tree(nd, en, h, pcie_table_kbl_pch_h)
          [] id_mask = IdMask(PCI_DEVICE_ID_INTEL_SPT_H_PCIE_RP1) ->
                 pcie_update_device_tree(nd, en, h, pcie_table_skl_pch_h)
          [] OTHER -> nd    \* "[BUG] PCIE Root Port id ... is not found"

(***************************************************************************)
(* FSP-S, the environment: a device whose function 0 is disabled while     *)
(* another of its ports is enabled may have that first enabled port moved  *)
(* to function 0 (Coalesced) or not.  Disabled ports read all ones.        *)
(***************************************************************************)
FirstOn(s, g) == CHOOSE p \in Funcs(g) \cap on :
                     \A q \in Funcs(g) \cap on : p =< q
Coalescible(s) == {k \in DOMAIN Layout(s) :
                     /\ Layout(s)[k].devfn \notin on
                     /\ Funcs(Layout(s)[k]) \cap on # {}}
FspPlacement(s, coalesced) ==
    [d \in Ports(s) |->
        LET k == CHOOSE k \in DOMAIN Layout(s) : d \in Funcs(Layout(s)[k])
            g == Layout(s)[k]
            p == IF k \in coalesced /\ d = g.devfn THEN FirstOn(s, g)
                 ELSE IF k \in coalesced /\ d = FirstOn(s, g) THEN g.devfn
                 ELSE d
        IN  IF p \in on THEN p ELSE Absent]

Init ==
    /\ sku \in Skus
    /\ \E pat \in [DOMAIN Layout(sku) -> UNION {DtPatterns(n) : n \in {4, 8}}] :
         /\ \A k \in DOMAIN Layout(sku) :
                pat[k] \in DtPatterns(Layout(sku)[k].func_count)
         /\ LET NodesOf(k) == {Layout(sku)[k].devfn + i : i \in pat[k].nodes}
                OnOf(k)    == {Layout(sku)[k].devfn + i : i \in pat[k].on}
            IN  /\ node = [p \in UNION {NodesOf(k) : k \in DOMAIN Layout(sku)} |-> p]
                /\ on = UNION {OnOf(k) : k \in DOMAIN Layout(sku)}
    /\ hw = [d \in Ports(sku) |-> d]
    /\ stage = "pre"

\* soc_init_pre_device: snapshot IRQ polarities, FSP-S, restore them,
\* then pcie_override_devicetree_after_silicon_init.
SocInitPreDevice ==
    /\ stage = "pre"
    /\ \E coalesced \in SUBSET Coalescible(sku) :
         LET h == FspPlacement(sku, coalesced)
         IN  /\ hw' = h
             /\ node' = pcie_override_devicetree_after_silicon_init(sku, node, on, h)
    /\ stage' = "done"
    /\ UNCHANGED <<sku, on>>

Next == SocInitPreDevice

Spec == Init /\ [][Next]_vars

-----------------------------------------------------------------------------
\* Every variable has its type.
TypeOK ==
    /\ sku \in {"SPT_LP", "SPT_H", "KBP_H"}
    /\ DOMAIN node \subseteq Ports(sku)
    /\ node \in [DOMAIN node -> 0 .. 255]    \* devfn is an 8-bit field
    /\ on \subseteq DOMAIN node
    /\ hw \in [Ports(sku) -> Ports(sku) \cup {Absent}]
    /\ stage \in {"pre", "done"}

\* pcie_update_device_tree only trades devfns between functions of the
\* same PCI device, and never leaves two devicetree nodes on one devfn
\* (a loop bound or table that reaches past the device would).
NodesStayInDevice ==
    /\ IsInjective(node)
    /\ \A p \in DOMAIN node : Device(node[p]) = Device(p) /\ node[p] \in Ports(sku)

\* Where FSP-S moved a device's ports because its function 0 was disabled
\* in the devicetree, and the PCH ID read at D28:F0 was recognised, every
\* enabled node of that device ends on the function where the hardware
\* answers with its port: the case the fix-up's comment is written for.
SwappedPortsFollowHardware ==
    stage = "done" =>
        \A k \in DOMAIN Layout(sku) :
            LET g == Layout(sku)[k]
            IN  (/\ hw[PCH_DEVFN_PCIE1] # Absent
                 /\ g.devfn \in DOMAIN node /\ g.devfn \notin on
                 /\ hw[g.devfn] # Absent)
                => \A p \in Funcs(g) \cap on :
                       node[p] \in DOMAIN hw /\ hw[node[p]] = p

\* The function-0 comment's promise in general: after soc_init_pre_device
\* every enabled devicetree node claims the function where the hardware
\* answers with its own port.
PortsFollowHardware ==
    stage = "done" =>
        \A p \in on : node[p] \in DOMAIN hw /\ hw[node[p]] = p
=============================================================================

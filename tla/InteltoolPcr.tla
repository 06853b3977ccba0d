----------------------------- MODULE InteltoolPcr -----------------------------
(***************************************************************************)
(* util/inteltool/pcr.c: access to the PCH's private configuration space   *)
(* (PCR) through the sideband BAR of the Primary to Sideband Bridge       *)
(* (P2SB).  pcr_init finds the P2SB for the LPC device, reveals it when    *)
(* the firmware has hidden it, maps SBREG_BAR, hides the bridge again and  *)
(* exits if the map failed; read_pcr32 asserts that the BAR is mapped.     *)
(*                                                                         *)
(* pcr_init is a subroutine: pc names its next step and caller the       *)
(* step its return goes back to.  The P2SB is "visible", "hidden" (reads   *)
(* 0xffff until revealed) or "absent" (reads 0xffff whatever is written).  *)
(* status is "running" until the program exits, aborts on an assert, or    *)
(* ends after pcr_cleanup.                                                 *)
(***************************************************************************)
EXTENDS Integers, Sequences, FiniteSets, PcrDump

CONSTANTS
    LpcIds,    \* device ids the LPC bridge (sb->device_id) may have
    PcrPorts,  \* the ports main asks print_pcr_ports to dump
    PortRegs,  \* registers per port (PCR_PORT_SIZE / 4, scaled down)
    RegValues  \* values a register may read

VARIABLES
    sb_id,        \* sb->device_id
    p2sb,         \* the bridge: "visible", "hidden" or "absent"
    p2sb_boot,    \* the bridge as the program found it (history)
    sbbar,        \* "NULL", "Mapped", or "Unmapped" after pcr_cleanup
    p2sb_revealed, error_exit,   \* locals of pcr_init
    pc, caller,   \* the step to run, and where pcr_init returns to
    port_idx,     \* loop index of print_pcr_ports
    todo,         \* entry points main has still to call
    status,
    last_dump     \* the last port dumped: [regs, out]

pcr_vars == <<sb_id, p2sb, p2sb_boot, sbbar, p2sb_revealed, error_exit, pc,
              caller, port_idx, todo, status, last_dump>>

PcrInitSteps == {"pcr_init", "p2sb_reveal", "p2sb_map", "p2sb_hide"}

\* The case labels of the switch in pcr_init (PCI_DEVICE_ID_INTEL_ ids).
P2sbAt1F1 ==
    {"SUNRISEPOINT_PRE", "SUNRISEPOINT_LP_U_BASE", "SUNRISEPOINT_LP_U_PREM",
     "SUNRISEPOINT_LP_Y_PREM", "SUNRISEPOINT_LP_U_IHDCP_BASE",
     "SUNRISEPOINT_LP_U_IHDCP_PREM", "SUNRISEPOINT_LP_Y_IHDCP_PREM",
     "H110", "H170", "Z170", "Q170", "Q150", "B150", "C236", "C232", "QM170",
     "HM170", "CM236", "HM175", "QM175", "CM238", "DNV_LPC"}
P2sbAt0D0 == {"APL_LPC"}

\* A switch that lost its Denverton case label.
P2sbDevFnNoDnv(id) ==
    IF id \in P2sbAt1F1 \ {"DNV_LPC"} THEN <<\h1f, 1>>
    ELSE IF id \in P2sbAt0D0 THEN <<\h0d, 0>>
    ELSE <<>>

\* The switch of pcr_init: the P2SB's device and function, or <<>> for
\* the default case (perror "Unknown LPC device.", exit(1)).
P2sbDevFn(id) ==
    IF id \in P2sbAt1F1 THEN <<\h1f, 1>>
    ELSE IF id \in P2sbAt0D0 THEN <<\h0d, 0>>
    ELSE <<>>

\* Every id pcr_init knows reads 0xffff/0xffff from pci_fill_info when the
\* bridge is hidden or absent.
ReadsAllOnes == p2sb \in {"hidden", "absent"}

Exit(why) == status' = why /\ pc' = "exit"

\* read_pcr32: assert(sbbar).
PcrReadOk == sbbar # "NULL"

\* pcr_init: the early return, the switch, pci_get_dev (NULL when out of
\* memory) and the first pci_fill_info(PCI_FILL_IDENT).
PcrInit ==
    /\ pc = "pcr_init"
    /\ p2sb_revealed' = FALSE /\ error_exit' = FALSE
    /\ \/ sbbar # "NULL" /\ pc' = caller /\ UNCHANGED status
       \/ /\ sbbar = "NULL"
          /\ IF P2sbDevFn(sb_id) = <<>>
             THEN Exit("exit_unknown_lpc")
             ELSE \/ Exit("exit_no_p2sb")
                  \/ /\ pc' = IF ReadsAllOnes THEN "p2sb_reveal" ELSE "p2sb_map"
                     /\ UNCHANGED status
    /\ UNCHANGED <<sb_id, p2sb, p2sb_boot, sbbar, caller, port_idx, todo, last_dump>>

\* pci_write_byte(p2sb, 0xe1, 0) and the rescan.
PcrReveal ==
    LET after == IF p2sb = "hidden" THEN "visible" ELSE p2sb
    IN  /\ pc = "p2sb_reveal"
        /\ p2sb' = after
        /\ IF after = "visible"
           THEN p2sb_revealed' = TRUE /\ pc' = "p2sb_map" /\ UNCHANGED status
           ELSE Exit("exit_reveal") /\ UNCHANGED p2sb_revealed
        /\ UNCHANGED <<sb_id, p2sb_boot, sbbar, error_exit, caller, port_idx, todo, last_dump>>

\* A map failure that exits at once, before the bridge is hidden again.
PcrMapExitAtOnce ==
    /\ pc = "p2sb_map"
    /\ \/ sbbar' = "Mapped" /\ pc' = "p2sb_hide" /\ UNCHANGED status
       \/ UNCHANGED sbbar /\ Exit("exit_map")
    /\ UNCHANGED <<sb_id, p2sb, p2sb_boot, p2sb_revealed, error_exit, caller,
                   port_idx, todo, last_dump>>

\* sbbar = map_physical(sbbar_phys, SBBAR_SIZE); NULL sets error_exit.
PcrMap ==
    /\ pc = "p2sb_map"
    /\ \/ sbbar' = "Mapped" /\ UNCHANGED error_exit
       \/ UNCHANGED sbbar /\ error_exit' = TRUE
    /\ pc' = "p2sb_hide"
    /\ UNCHANGED <<sb_id, p2sb, p2sb_boot, p2sb_revealed, caller, port_idx,
                   todo, status, last_dump>>

\* A pcr_init that forgets the deferred exit(1) after a failed map.
PcrHideNoErrorExit ==
    /\ pc = "p2sb_hide"
    /\ p2sb' = IF p2sb_revealed THEN "hidden" ELSE p2sb
    /\ pc' = caller /\ UNCHANGED status
    /\ UNCHANGED <<sb_id, p2sb_boot, sbbar, p2sb_revealed, error_exit, caller,
                   port_idx, todo, last_dump>>

\* Hide the bridge again if this call revealed it (pci_write_byte(p2sb,
\* 0xe1, 1)), pci_free_dev, and exit(1) if the map failed.
PcrHide ==
    /\ pc = "p2sb_hide"
    /\ p2sb' = IF p2sb_revealed THEN "hidden" ELSE p2sb
    /\ IF error_exit THEN Exit("exit_map") ELSE pc' = caller /\ UNCHANGED status
    /\ UNCHANGED <<sb_id, p2sb_boot, sbbar, p2sb_revealed, error_exit, caller,
                   port_idx, todo, last_dump>>

\* main calls print_pcr_ports(sb, ports, count): pcr_init first.
CallPrintPcrPorts ==
    /\ pc = "main" /\ status = "running"
    /\ "ports" \in todo
    /\ todo' = todo \ {"ports"}
    /\ pc' = "pcr_init" /\ caller' = "pcr_ports" /\ port_idx' = 1
    /\ UNCHANGED <<sb_id, p2sb, p2sb_boot, sbbar, p2sb_revealed, error_exit, status, last_dump>>

\* The port loop run with i <= count.
PrintPcrPortPastCount ==
    /\ pc = "pcr_ports"
    /\ IF port_idx > Len(PcrPorts) + 1
       THEN pc' = "main" /\ UNCHANGED <<port_idx, status, last_dump>>
       ELSE IF PcrReadOk
            THEN /\ port_idx' = port_idx + 1 /\ UNCHANGED <<pc, status>>
                 /\ \E regs \in [1 .. PortRegs -> RegValues] :
                       last_dump' = [regs |-> regs, out |-> print_pcr_port(regs)]
            ELSE Exit("abort") /\ UNCHANGED <<port_idx, last_dump>>
    /\ UNCHANGED <<sb_id, p2sb, p2sb_boot, sbbar, p2sb_revealed, error_exit,
                   caller, todo>>

\* print_pcr_port(ports[i]): read_pcr32 of every register of the port,
\* whatever the registers hold, and the lines it prints.
PrintPcrPort ==
    /\ pc = "pcr_ports"
    /\ IF port_idx > Len(PcrPorts)
       THEN pc' = "main" /\ UNCHANGED <<port_idx, status, last_dump>>
       ELSE IF PcrReadOk
            THEN /\ port_idx' = port_idx + 1 /\ UNCHANGED <<pc, status>>
                 /\ \E regs \in [1 .. PortRegs -> RegValues] :
                       last_dump' = [regs |-> regs, out |-> print_pcr_port(regs)]
            ELSE Exit("abort") /\ UNCHANGED <<port_idx, last_dump>>
    /\ UNCHANGED <<sb_id, p2sb, p2sb_boot, sbbar, p2sb_revealed, error_exit,
                   caller, todo>>

\* pcr_cleanup at the end of main: unmap the BAR if it is mapped.
PcrCleanup ==
    /\ pc = "main" /\ status = "running"
    /\ todo = {}
    /\ sbbar' = IF sbbar = "Mapped" THEN "Unmapped" ELSE sbbar
    /\ status' = "done" /\ pc' = "exit"
    /\ UNCHANGED <<sb_id, p2sb, p2sb_boot, p2sb_revealed, error_exit, caller,
                   port_idx, todo, last_dump>>

PcrInitState(entries) ==
    /\ sb_id \in LpcIds
    /\ p2sb \in {"visible", "hidden", "absent"}
    /\ p2sb_boot = p2sb
    /\ sbbar = "NULL"
    /\ p2sb_revealed = FALSE /\ error_exit = FALSE
    /\ pc = "main" /\ caller = "main"
    /\ port_idx = 1
    /\ todo = entries
    /\ status = "running"
    /\ last_dump = LET zero == [j \in 1 .. PortRegs |-> 0]
                   IN  [regs |-> zero, out |-> print_pcr_port(zero)]

PcrNext ==
    \/ PcrInit \/ PcrReveal \/ PcrMap \/ PcrHide
    \/ CallPrintPcrPorts \/ PrintPcrPort \/ PcrCleanup

(***************************************************************************)
(* Properties                                                              *)
(***************************************************************************)

\* read_pcr32's assert(sbbar) never fires: every path into the register
\* reads has gone through a pcr_init that either mapped SBREG_BAR or exited.
NoAssertFailure == status # "abort"

\* pcr_init leaves the P2SB as it found it: a bridge it revealed is hidden
\* again on every way out of it, the exit for a failed map included (the
\* reason error_exit is deferred past the re-hide).
P2sbRestored == pc \notin {"p2sb_map", "p2sb_hide"} => p2sb = p2sb_boot

\* print_pcr_port loses nothing: every register of the port dumped last,
\* the ones folded into "*" runs included, is recovered from the printed
\* lines; the first register is printed even when it equals the initial
\* last_reg of 0, and a run of repeats at the end is closed by a "*".
DumpReadsBack == ReadBack(last_dump.out, PortRegs) = last_dump.regs
=============================================================================

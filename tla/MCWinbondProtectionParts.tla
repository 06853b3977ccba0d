--------------------- MODULE MCWinbondProtectionParts ---------------------
(***************************************************************************)
(* WinbondProtection on both status-register 1 layouts in one run.  The   *)
(* part is fixed at power-up: a W25Q16 (3-bit BP and SEC) whose bus may    *)
(* fail once and whose wait may time out once, or a W25Q256 (4-bit BP)     *)
(* whose wait may time out once and whose power may be cycled once.        *)
(* Regions and power-up images per part are those of MCWinbondProtection. *)
(***************************************************************************)
EXTENDS Naturals, WinbondTable, WinbondCodec

VARIABLES sr, srNV, wel, vwren, busy, pend, wp,
          pc, locals, result, expect, claimed, durable, lastOk, orphan,
          calls, faults, timeouts, cycles,
          part    \* the part on the bus, chosen at power-up

Q16  == winbond_spi_flash_table[9]     \* W25Q16_V, 3-bit BP
Q256 == winbond_spi_flash_table[18]    \* W25Q256_V, 4-bit BP

RegionsOf(p) ==
    LET F == FlashGeometry(p).size
        g == 2 ^ p.protection_granularity_shift
    IN  {[offset |-> 0, size |-> g],
         [offset |-> F \div 4, size |-> F - F \div 4],
         [offset |-> 0, size |-> F],
         [offset |-> 0, size |-> 3 * g]}

ImagesOf(p) ==
    {StatusRegs(IF p.bp_bits = 4 THEN Reg1Bp4(bp, 0, s0)
                ELSE Reg1Bp3(bp, 0, sec, s0), Reg2(0, 0) + 2 * qe) :
        bp \in {0, 1}, sec \in {0, 1}, s0 \in {0, 1}, qe \in {1}}

P3 == INSTANCE WinbondProtection
        WITH Params <- Q16, Regions <- RegionsOf(Q16),
             SetModes <- {"PRESERVE", "REBOOT"}, InitImages <- ImagesOf(Q16),
             MaxCalls <- 3, MaxBusFaults <- 1, MaxTimeouts <- 1, MaxPowerCycles <- 0
P4 == INSTANCE WinbondProtection
        WITH Params <- Q256, Regions <- RegionsOf(Q256),
             SetModes <- {"PRESERVE", "REBOOT"}, InitImages <- ImagesOf(Q256),
             MaxCalls <- 3, MaxBusFaults <- 0, MaxTimeouts <- 1, MaxPowerCycles <- 1

vars == <<P3!vars, part>>

Init == \/ part = 3 /\ P3!Init
        \/ part = 4 /\ P4!Init

Next == /\ \/ part = 3 /\ P3!Next
           \/ part = 4 /\ P4!Next
        /\ UNCHANGED part

Spec == Init /\ [][Next]_vars

\* The type invariant of WinbondProtection for the part on the bus.
TypeOK == IF part = 3 THEN P3!TypeOK ELSE P4!TypeOK

\* QueryReflectsLastSet of WinbondProtection (a query answers as if exactly
\* the last successfully set region were protected), on either layout.
QueryReflectsLastSet ==
    IF part = 3 THEN P3!QueryReflectsLastSet ELSE P4!QueryReflectsLastSet

\* Idempotent of WinbondProtection (WRSR is never sent for a set whose
\* success is still current), on either layout.
Idempotent ==
    [][IF part = 3 THEN P3!WrsrOnlyWhenChanged ELSE P4!WrsrOnlyWhenChanged]_vars
=============================================================================

------------------------ MODULE MCWinbondProtection ------------------------
(***************************************************************************)
(* Instantiates WinbondProtection for TLC.  Regions, per part: the lowest  *)
(* protectable unit at the bottom, the top three quarters (needs CMP), the *)
(* whole array (BP = 0 with CMP), and three units at the bottom (not a     *)
(* power of two: rejected).  Power-up images cover BP 0/1, SEC 0/1, SRP    *)
(* 00/01 and QE 0/1, so that locks, the unsupported SEC bit and bits       *)
(* outside the mask all occur.                                             *)
(***************************************************************************)
EXTENDS WinbondProtection

Q16  == winbond_spi_flash_table[9]     \* W25Q16_V, 3-bit BP
Q256 == winbond_spi_flash_table[18]    \* W25Q256_V, 4-bit BP
Q80  == winbond_spi_flash_table[8]     \* W25Q80_V, no protection support

MCRegions ==
    LET F == FlashGeometry(Params).size
        g == 2 ^ Params.protection_granularity_shift
    IN  {[offset |-> 0, size |-> g],
         [offset |-> F \div 4, size |-> F - F \div 4],
         [offset |-> 0, size |-> F],
         [offset |-> 0, size |-> 3 * g]}

MCInitImages ==
    {StatusRegs(IF Params.bp_bits = 4 THEN Reg1Bp4(bp, 0, s0)
                ELSE Reg1Bp3(bp, 0, sec, s0), Reg2(0, 0) + 2 * qe) :
        bp \in {0, 1}, sec \in {0, 1}, s0 \in {0, 1}, qe \in {1}}
=============================================================================

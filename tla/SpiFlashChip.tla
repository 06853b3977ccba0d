---------------------------- MODULE SpiFlashChip ----------------------------
(***************************************************************************)
(* The status registers of a Winbond W25Q part, as the environment the     *)
(* driver talks to over SPI.  This is hardware behaviour, not code of the  *)
(* repository: the driver's actions use these operators as the effect of   *)
(* the bus command they issue.                                             *)
(*                                                                         *)
(*  sr     the current (volatile) 16-bit status image, bits 0/1 kept 0    *)
(*  srNV   the non-volatile copy loaded at power-up                        *)
(*  wel    Write Enable Latch, set by WREN (06h)                           *)
(*  vwren  armed by Write Enable for Volatile Status Register (50h)       *)
(*  busy   a non-volatile status write is in progress (tW)                 *)
(*  pend   the image that write commits when it completes                  *)
(*  wp     level of the /WP pin (0 = asserted), fixed by the board         *)
(*                                                                         *)
(* While busy the part accepts only status reads.  A status write needs    *)
(* WEL or the volatile enable and is ignored while SRP1:SRP0 lock the      *)
(* register: 01 with /WP low, 10 until power-down, 11 for good.            *)
(***************************************************************************)
EXTENDS WinbondCodec

VARIABLES sr, srNV, wel, vwren, busy, pend, wp
chipVars == <<sr, srNV, wel, vwren, busy, pend, wp>>

\* Writable bits: SR1 bits 2..7 (BP, TB, SEC, SRP0), SR2 SRP1, QE and CMP.
Writable == 252 + 256 * (1 + 2 + 64)

ChipInit(images) ==
    /\ sr \in images
    /\ srNV = sr
    /\ wel = 0
    /\ vwren = FALSE
    /\ busy = FALSE
    /\ pend = sr
    /\ wp \in {0, 1}

ChipTypeOK ==
    /\ sr \in 0 .. 65535 /\ srNV \in 0 .. 65535 /\ pend \in 0 .. 65535
    /\ (sr & 3) = 0
    /\ wel \in {0, 1} /\ vwren \in BOOLEAN /\ busy \in BOOLEAN
    /\ wp \in {0, 1}

\* What RDSR (05h) and RDSR2 (35h) return.
Sr1Read == (sr % 256) + 2 * wel + (IF busy THEN 1 ELSE 0)
Sr2Read == sr \div 256

SrLocked ==
    CASE SregSrp(sr) = 0 -> FALSE
      [] SregSrp(sr) = 1 -> wp = 0
      [] OTHER           -> TRUE

\* WREN (06h).
ChipWren ==
    /\ wel' = IF busy THEN wel ELSE 1
    /\ UNCHANGED <<sr, srNV, vwren, busy, pend, wp>>

\* Write Enable for Volatile Status Register (50h).
ChipVolatileWren ==
    /\ vwren' = (vwren \/ ~busy)
    /\ UNCHANGED <<sr, srNV, wel, busy, pend, wp>>

\* WRSR (01h) with two data bytes: SR1 then SR2.  After 50h the write is
\* volatile and immediate; after WREN it starts a non-volatile write.
ChipWrsr(data) ==
    LET new == MergeSreg(sr, Writable, data)
    IN  IF busy \/ SrLocked \/ (wel = 0 /\ ~vwren)
        THEN /\ vwren' = FALSE
             /\ UNCHANGED <<sr, srNV, wel, busy, pend, wp>>
        ELSE IF vwren
        THEN /\ sr' = new
             /\ vwren' = FALSE
             /\ UNCHANGED <<srNV, wel, busy, pend, wp>>
        ELSE /\ busy' = TRUE
             /\ pend' = new
             /\ UNCHANGED <<sr, srNV, wel, vwren, wp>>

\* The part finishes a non-volatile status write (environment step).
ChipComplete ==
    /\ busy
    /\ busy' = FALSE
    /\ sr' = pend
    /\ srNV' = pend
    /\ wel' = 0
    /\ UNCHANGED <<vwren, pend, wp>>

\* Power-down / power-up: volatile bits reload from the non-volatile copy,
\* a power-supply lock-down (SRP 10) is released, latches clear.  A write
\* in progress either completed or never took effect.
ChipPowerCycle ==
    \E nv \in IF busy THEN {srNV, pend} ELSE {srNV} :
        LET boot == IF SregSrp(nv) = 2 THEN nv - 256 ELSE nv
        IN  /\ srNV' = nv
            /\ sr' = boot
            /\ pend' = boot
            /\ wel' = 0
            /\ vwren' = FALSE
            /\ busy' = FALSE
            /\ UNCHANGED wp
=============================================================================

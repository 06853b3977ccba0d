---------------------------- MODULE WinbondCodec ----------------------------
(***************************************************************************)
(* The write-protection codec of drivers/spi/winbond.c, as pure operators: *)
(*  - the status-register layouts (union status_reg1_bp3/_bp4, status_reg2 *)
(*    combined into the 16-bit struct status_regs, register 1 in the low   *)
(*    byte), with C bit-field assignment truncating to the field width;    *)
(*  - winbond_bpbits_to_region, the decoder shared by the query;           *)
(*  - the setter's forward logic (region -> BP/TB/CMP) and the mask/value  *)
(*    pair it hands to winbond_flash_cmd_status.                           *)
(* A region is a record [offset, size]; BP is a number, TB/CMP/SEC are 0/1.*)
(***************************************************************************)
EXTENDS Integers, Bitwise

MinOf(a, b) == IF a =< b THEN a ELSE b

\* IS_POWER_OF_2 of <lib.h>: x & (x - 1) == 0 (so 0 counts as a power of two).
IsPowerOf2(x) == x = 0 \/ (x & (x - 1)) = 0

\* log2 of <lib.h> on a u32: index of the highest set bit.
RECURSIVE log2(_)
log2(x) == IF x =< 1 THEN 0 ELSE 1 + log2(x \div 2)

(***************************************************************************)
(* Status register layout.  Bits(v, lo, w) is the w-bit field at bit lo.   *)
(***************************************************************************)
Bits(v, lo, w) == (v \div 2 ^ lo) % 2 ^ w

\* union status_reg1_bp3: busy[0] wel[1] bp[2:4] tb[5] sec[6] srp0[7]
Reg1Bp3(bp, tb, sec, srp0) == (bp % 8) * 4 + tb * 32 + sec * 64 + srp0 * 128
\* Faulty form of Reg1Bp4: a 3-bit BP field.
Reg1Bp4Narrow(bp, tb, srp0) == (bp % 8) * 4 + tb * 64 + srp0 * 128
\* union status_reg1_bp4: busy[0] wel[1] bp[2:5] tb[6] srp0[7]
Reg1Bp4(bp, tb, srp0) == (bp % 16) * 4 + tb * 64 + srp0 * 128
\* union status_reg2: srp1[0] qe[1] res[2] lb[3:5] cmp[6] sus[7]
Reg2(srp1, cmp) == srp1 + cmp * 64
\* struct status_regs: register 1 is the low byte of the 16-bit image.
StatusRegs(reg1, reg2) == reg1 + reg2 * 256

\* Field reads of the 16-bit image for a part with bp_bits 3 or 4.
SregBp(bp_bits, sreg)  == IF bp_bits = 3 THEN Bits(sreg, 2, 3) ELSE Bits(sreg, 2, 4)
SregTb(bp_bits, sreg)  == IF bp_bits = 3 THEN Bits(sreg, 5, 1) ELSE Bits(sreg, 6, 1)
SregSec(sreg)          == Bits(sreg, 6, 1)
SregCmp(sreg)          == Bits(sreg, 14, 1)
SregSrp(sreg)          == Bits(sreg, 8, 1) * 2 + Bits(sreg, 7, 1)

(***************************************************************************)
(* winbond_bpbits_to_region: BP, TB and CMP to the protected region.       *)
(***************************************************************************)
\* A decoder that caps the size after the complement instead of before.
winbond_bpbits_to_region_cap_late(granularity, bp, tb, cmp, flash_size) ==
    LET plain == IF bp # 0 THEN granularity * 2 ^ (bp - 1) ELSE 0
        protected_size == MinOf(IF cmp = 1 THEN flash_size - plain ELSE plain,
                                flash_size)
        top == IF cmp = 1 THEN 1 - tb ELSE tb
    IN  [offset |-> IF top = 1 THEN 0 ELSE flash_size - protected_size,
         size   |-> protected_size]

winbond_bpbits_to_region(granularity, bp, tb, cmp, flash_size) ==
    LET plain == MinOf(IF bp # 0 THEN granularity * 2 ^ (bp - 1) ELSE 0,
                       flash_size)
        protected_size == IF cmp = 1 THEN flash_size - plain ELSE plain
        top == IF cmp = 1 THEN 1 - tb ELSE tb
    IN  [offset |-> IF top = 1 THEN 0 ELSE flash_size - protected_size,
         size   |-> protected_size]

(***************************************************************************)
(* The forward logic of winbond_set_write_protection: the checks that      *)
(* return -1 before any bus I/O, the complement flip for regions larger    *)
(* than half the flash, and BP from the (possibly complemented) size.      *)
(* The result is [ok, bp, tb, cmp]; ok = FALSE is the early "return -1".   *)
(***************************************************************************)
Anchored(region, flash_size) ==
    region.offset = 0 \/ region.offset + region.size = flash_size

\* Faulty forms of SizeEncodable and BpOf: the granularity test dropped,
\* or made strict; the "+ 1" dropped.
SizeEncodableNoUnit(sz, gs)  == IsPowerOf2(sz)
SizeEncodableStrict(sz, gs)  == IsPowerOf2(sz) /\ sz > 2 ^ gs
BpOfNoOne(sz, gs)            == log2(sz) - gs

\* The sizes the setter encodes: a power of two of at least one unit.
SizeEncodable(sz, gs) == IsPowerOf2(sz) /\ sz >= 2 ^ gs
\* bp = log2(size) - protection_granularity_shift + 1.
BpOf(sz, gs) == log2(sz) - gs + 1

WpEncode(params, flash_size, region) ==
    LET tb0  == IF region.offset = 0 THEN 1 ELSE 0
        big  == region.size > flash_size \div 2
        sz   == IF big THEN flash_size - region.size ELSE region.size
        tb   == IF big THEN 1 - tb0 ELSE tb0
        cmp  == IF big THEN 1 ELSE 0
        gs   == params.protection_granularity_shift
        fail == [ok |-> FALSE, bp |-> 0, tb |-> 0, cmp |-> 0]
    IN  CASE ~Anchored(region, flash_size)   -> fail
          [] params.bp_bits \notin {3, 4}    -> fail
          [] sz = 0 -> [ok |-> TRUE, bp |-> 0, tb |-> tb, cmp |-> cmp]
          [] SizeEncodable(sz, gs) ->
                [ok |-> TRUE, bp |-> BpOf(sz, gs), tb |-> tb, cmp |-> cmp]
          [] OTHER -> fail

\* Status register lock-down modes (enum spi_flash_status_reg_lockdown).
Modes == {"PRESERVE", "NONE", "PIN", "REBOOT", "PERMANENT"}
\* The 2-bit SRP1:SRP0 code of a mode other than PRESERVE.
SrpOf(mode) == CASE mode = "NONE" -> 0 [] mode = "PIN" -> 1
                 [] mode = "REBOOT" -> 2 [] mode = "PERMANENT" -> 3

\* Faulty form of WpMaskVal: SRP written into val but left out of mask.
WpMaskValNoSrpMask(params, enc, mode) ==
    LET lock == mode # "PRESERVE"
        srp  == IF lock THEN SrpOf(mode) ELSE 0
        s0   == IF lock THEN srp % 2 ELSE 0
        s1   == IF lock THEN srp \div 2 ELSE 0
    IN  IF params.bp_bits = 3
        THEN [val  |-> StatusRegs(Reg1Bp3(enc.bp, enc.tb, 0, s0), Reg2(s1, enc.cmp)),
              mask |-> StatusRegs(Reg1Bp3(7, 1, 1, 0), Reg2(0, 1))]
        ELSE [val  |-> StatusRegs(Reg1Bp4(enc.bp, enc.tb, s0), Reg2(s1, enc.cmp)),
              mask |-> StatusRegs(Reg1Bp4(15, 1, 0), Reg2(0, 1))]

\* The (mask, val) pair over the 16-bit image: BP, TB, SEC := 0 (3-bit
\* parts), CMP and, unless the mode is PRESERVE, SRP0/SRP1.
WpMaskVal(params, enc, mode) ==
    LET lock == mode # "PRESERVE"
        srp  == IF lock THEN SrpOf(mode) ELSE 0
        s0   == IF lock THEN srp % 2 ELSE 0
        s1   == IF lock THEN srp \div 2 ELSE 0
        m    == IF lock THEN 1 ELSE 0
    IN  IF params.bp_bits = 3
        THEN [val  |-> StatusRegs(Reg1Bp3(enc.bp, enc.tb, 0, s0), Reg2(s1, enc.cmp)),
              mask |-> StatusRegs(Reg1Bp3(7, 1, 1, m), Reg2(m, 1))]
        ELSE [val  |-> StatusRegs(Reg1Bp4(enc.bp, enc.tb, s0), Reg2(s1, enc.cmp)),
              mask |-> StatusRegs(Reg1Bp4(15, 1, m), Reg2(m, 1))]

\* The read-modify-write merge of winbond_flash_cmd_status:
\* sreg &= ~mask; sreg |= val & mask (on the 16-bit image).
MergeSreg(sreg, mask, val) == (sreg & (65535 - mask)) | (val & mask)
\* The comparison it makes before and after the write.
MaskedEqual(sreg, mask, val) == (val & mask) = (sreg & mask)

\* The protected region the hardware encodes in a 16-bit image.
SregRegion(params, flash_size, sreg) ==
    winbond_bpbits_to_region(2 ^ params.protection_granularity_shift,
                             SregBp(params.bp_bits, sreg),
                             SregTb(params.bp_bits, sreg),
                             SregCmp(sreg), flash_size)

\* region_is_subregion(p, c) of commonlib: c lies within p.
region_is_subregion(p, c) ==
    /\ c.offset >= p.offset
    /\ c.offset + c.size =< p.offset + p.size
=============================================================================

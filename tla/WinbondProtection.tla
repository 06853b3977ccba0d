-------------------------- MODULE WinbondProtection --------------------------
(***************************************************************************)
(* winbond_get_write_protection, winbond_set_write_protection and the      *)
(* locked status-register protocol winbond_flash_cmd_status, issued one    *)
(* bus command per step against the part modelled by SpiFlashChip.  A      *)
(* caller makes at most MaxCalls calls, one at a time (spec.md section 5). *)
(* Any bus command may fail (MaxBusFaults); a failed command that carries  *)
(* a command to the part may or may not have reached it.  wait_ready may   *)
(* time out while the part is busy (MaxTimeouts); power may be cycled      *)
(* between any two steps, aborting the call in progress (MaxPowerCycles).  *)
(***************************************************************************)
EXTENDS WinbondCodec, WinbondTable, SpiFlashChip

CONSTANTS
    Params,          \* the chip table row the flash was probed as
    Regions,         \* regions the caller passes
    SetModes,        \* lock-down modes the caller passes
    InitImages,      \* status images the part may hold at power-up
    MaxCalls, MaxBusFaults, MaxTimeouts, MaxPowerCycles

ASSUME SetModes \subseteq Modes

VARIABLES
    pc,        \* step of the call in progress, "Idle" between calls
    locals,    \* the call's locals, see below
    result,    \* the last completed call [op, region, ret, io]
    expect,    \* protection a correct driver guarantees: [valid, region]
    claimed,   \* last successful set, lost only through a write or power
    durable,   \* last successful non-volatile set, survives power cycles
    lastOk,    \* arguments of the last successful set, while still current
    orphan,    \* a non-volatile write is in flight after its call returned
    calls, faults, timeouts, cycles

\* The locals of the call in progress: its arguments [op, region, nv, mode],
\* the [mask, val] pair of a set, cmdbuf.sreg (set) or reg1 (get), whether
\* it has sent WRSR, and whether a write an earlier call left in flight was
\* pending when it began.
arg     == locals[1]
mv      == locals[2]
image   == locals[3]
wrote   == locals[4]
tainted == locals[5]

histVars == <<result, expect, claimed, durable, lastOk, orphan>>
bndVars  == <<calls, faults, timeouts, cycles>>
vars     == <<chipVars, pc, locals, histVars, bndVars>>

FlashSize == FlashGeometry(Params).size
NoArg     == [op |-> "none", region |-> [offset |-> 0, size |-> 0],
              nv |-> FALSE, mode |-> "PRESERVE"]
Invalid   == [valid |-> FALSE, region |-> NoArg.region]
Valid(r)  == [valid |-> TRUE, region |-> r]
\* Return codes.  In C the early checks and the failed verification both
\* return -1 and transport errors pass through; they are told apart here
\* so that properties can name them.
EINVAL    == -1
ELOCK     == -2
EIO       == -3
ETIMEDOUT == -4
Returns   == {0, 1, EINVAL, ELOCK, EIO, ETIMEDOUT}

\* One bus command: it either completes, or fails while faults remain.
BusOk    == UNCHANGED faults
BusFault == faults < MaxBusFaults /\ faults' = faults + 1

NoMv     == [mask |-> 0, val |-> 0]

(***************************************************************************)
(* Return from the call in progress with r; w: the call has sent WRSR,     *)
(* counting a WRSR sent in this very step.  The call's locals are gone.    *)
(***************************************************************************)
Finish(r, w) ==
    LET ok   == arg.op = "set" /\ r = 0
        wr   == arg.op = "set" /\ w
        sure == ok /\ ~tainted
    IN  /\ pc' = "Idle"
        /\ locals' = <<NoArg, NoMv, 0, FALSE, FALSE>>
        /\ result' = [op |-> arg.op, region |-> arg.region, ret |-> r, io |-> TRUE]
        /\ expect'  = IF sure THEN Valid(arg.region)
                      ELSE IF ok \/ wr THEN Invalid ELSE expect
        /\ claimed' = IF ok THEN Valid(arg.region) ELSE IF wr THEN Invalid ELSE claimed
        /\ durable' = IF ok /\ arg.nv THEN Valid(arg.region)
                      ELSE IF ok \/ wr THEN Invalid ELSE durable
        /\ lastOk'  = IF sure THEN arg ELSE IF ok \/ wr THEN NoArg ELSE lastOk
        /\ orphan'  = busy'

\* Go on to the next step of the call, with cmdbuf.sreg / reg1 set to img.
Continue(next, img, w) ==
    /\ pc' = next
    /\ locals' = <<arg, mv, img, w, tainted>>
    /\ UNCHANGED histVars

(***************************************************************************)
(* winbond_set_write_protection: the checks that return -1 before any bus  *)
(* I/O, then the mask/value pair handed to winbond_flash_cmd_status.       *)
(***************************************************************************)
CallSet(region, nv, mode) ==
    LET enc == WpEncode(Params, FlashSize, region)
        a   == [op |-> "set", region |-> region, nv |-> nv, mode |-> mode]
    IN  /\ pc = "Idle"
        /\ calls < MaxCalls
        /\ calls' = calls + 1
        /\ IF enc.ok
           THEN /\ pc' = "SetRdsr"
                /\ locals' = <<a, WpMaskVal(Params, enc, mode), 0, FALSE, orphan>>
                /\ UNCHANGED histVars
           ELSE /\ result' = [op |-> "set", region |-> region, ret |-> EINVAL,
                              io |-> FALSE]
                /\ UNCHANGED <<pc, locals, expect, claimed, durable, lastOk, orphan>>
        /\ UNCHANGED <<chipVars, faults, timeouts, cycles>>

\* winbond_flash_cmd_status: RDSR into the low byte of cmdbuf.sreg.
SetRdsr ==
    /\ pc = "SetRdsr"
    /\ UNCHANGED <<chipVars, calls, timeouts, cycles>>
    /\ \/ BusOk /\ Continue("SetRdsr2", Sr1Read, FALSE)
       \/ BusFault /\ Finish(EIO, FALSE)

\* Faulty form of SetRdsr2: the register compared without the mask.
SetRdsr2Unmasked ==
    LET sreg == image + Sr2Read * 256
    IN  /\ pc = "SetRdsr2"
        /\ UNCHANGED <<chipVars, calls, timeouts, cycles>>
        /\ \/ /\ BusOk
              /\ IF (mv.val & mv.mask) = sreg
                 THEN Finish(0, FALSE) ELSE Continue("SetWren", sreg, FALSE)
           \/ BusFault /\ Finish(EIO, FALSE)

\* RDSR2 into the high byte; return 0 at once if the masked bits match.
SetRdsr2 ==
    LET sreg == image + Sr2Read * 256
    IN  /\ pc = "SetRdsr2"
        /\ UNCHANGED <<chipVars, calls, timeouts, cycles>>
        /\ \/ /\ BusOk
              /\ IF MaskedEqual(sreg, mv.mask, mv.val)
                 THEN Finish(0, FALSE) ELSE Continue("SetWren", sreg, FALSE)
           \/ BusFault /\ Finish(EIO, FALSE)

\* WREN for a non-volatile write, 50h for a volatile one.
SetWren ==
    LET send == IF arg.nv THEN ChipWren ELSE ChipVolatileWren
    IN  /\ pc = "SetWren"
        /\ UNCHANGED <<calls, timeouts, cycles>>
        /\ \/ BusOk /\ send /\ Continue("SetWrsr", image, FALSE)
           \/ BusFault /\ (send \/ UNCHANGED chipVars) /\ Finish(EIO, FALSE)

\* WRSR with the merged image; then wait tW (non-volatile) or tSHSL.
SetWrsr ==
    LET data == MergeSreg(image, mv.mask, mv.val)
    IN  /\ pc = "SetWrsr"
        /\ UNCHANGED <<calls, timeouts, cycles>>
        /\ \/ BusOk /\ ChipWrsr(data)
              /\ Continue(IF arg.nv THEN "SetWait" ELSE "SetVrdsr", data, TRUE)
           \/ BusFault /\ (ChipWrsr(data) \/ UNCHANGED chipVars)
              /\ Finish(EIO, TRUE)

\* spi_flash_cmd_wait_ready(flash, WINBOND_FLASH_TIMEOUT).
SetWait ==
    /\ pc = "SetWait"
    /\ UNCHANGED <<chipVars, calls, cycles>>
    /\ \/ BusOk /\ ~busy /\ Continue("SetVrdsr", image, TRUE) /\ UNCHANGED timeouts
       \/ /\ busy /\ timeouts < MaxTimeouts /\ timeouts' = timeouts + 1
          /\ BusOk /\ Finish(ETIMEDOUT, TRUE)
       \/ BusFault /\ Finish(EIO, TRUE) /\ UNCHANGED timeouts

\* Read both registers back.
SetVrdsr ==
    /\ pc = "SetVrdsr"
    /\ UNCHANGED <<chipVars, calls, timeouts, cycles>>
    /\ \/ BusOk /\ Continue("SetVrdsr2", Sr1Read, TRUE)
       \/ BusFault /\ Finish(EIO, TRUE)

\* Faulty form of SetVrdsr2: the read-back is not compared.
SetVrdsr2NoVerify ==
    /\ pc = "SetVrdsr2"
    /\ UNCHANGED <<chipVars, calls, timeouts, cycles>>
    /\ \/ BusOk /\ Finish(0, TRUE)
       \/ BusFault /\ Finish(EIO, TRUE)

\* Compare against the expected result: a mismatch is "SREG is locked".
SetVrdsr2 ==
    LET sreg == image + Sr2Read * 256
    IN  /\ pc = "SetVrdsr2"
        /\ UNCHANGED <<chipVars, calls, timeouts, cycles>>
        /\ \/ BusOk /\ Finish(IF MaskedEqual(sreg, mv.mask, mv.val) THEN 0 ELSE ELOCK,
                              TRUE)
           \/ BusFault /\ Finish(EIO, TRUE)

\* Faulty form of CallGet: the bp_bits check dropped.
CallGetNoCheck(region) ==
    /\ pc = "Idle"
    /\ calls < MaxCalls
    /\ calls' = calls + 1
    /\ pc' = "GetRdsr"
    /\ locals' = <<[NoArg EXCEPT !.op = "get", !.region = region], NoMv, 0, FALSE,
                   orphan>>
    /\ UNCHANGED histVars
    /\ UNCHANGED <<chipVars, faults, timeouts, cycles>>

(***************************************************************************)
(* winbond_get_write_protection.  A part without a 3- or 4-bit BP field    *)
(* returns -1 before any bus I/O.                                          *)
(***************************************************************************)
CallGet(region) ==
    /\ pc = "Idle"
    /\ calls < MaxCalls
    /\ calls' = calls + 1
    /\ IF Params.bp_bits \in {3, 4}
       THEN /\ pc' = "GetRdsr"
            /\ locals' = <<[NoArg EXCEPT !.op = "get", !.region = region],
                           NoMv, 0, FALSE, orphan>>
            /\ UNCHANGED histVars
       ELSE /\ result' = [op |-> "get", region |-> region, ret |-> EINVAL,
                          io |-> FALSE]
            /\ UNCHANGED <<pc, locals, expect, claimed, durable, lastOk, orphan>>
    /\ UNCHANGED <<chipVars, faults, timeouts, cycles>>

\* RDSR (flash->status_cmd) into reg1; a 3-bit part with SEC set is not
\* supported and returns -1.  The SEC test comes before the test of the
\* transfer's return code, so after a failed transfer it reads a reg1 that
\* is still 0 or was partly filled: either SEC value.
GetRdsr ==
    /\ pc = "GetRdsr"
    /\ UNCHANGED <<chipVars, calls, timeouts, cycles>>
    /\ \/ /\ BusOk
          /\ IF Params.bp_bits = 3 /\ SregSec(Sr1Read) = 1
             THEN Finish(EINVAL, FALSE) ELSE Continue("GetRdsr2", Sr1Read, FALSE)
       \/ /\ BusFault
          /\ \E sec \in {0, 1} :
                Finish(IF Params.bp_bits = 3 /\ sec = 1 THEN EINVAL ELSE EIO, FALSE)

\* RDSR2 for CMP, decode, and compare the protected region with the query.
GetRdsr2 ==
    LET wp_region == SregRegion(Params, FlashSize, image + Sr2Read * 256)
    IN  /\ pc = "GetRdsr2"
        /\ UNCHANGED <<chipVars, calls, timeouts, cycles>>
        /\ \/ /\ BusOk
              /\ Finish(IF wp_region.size = 0 THEN 0
                        ELSE IF region_is_subregion(wp_region, arg.region)
                             THEN 1 ELSE 0, FALSE)
           \/ BusFault /\ Finish(EIO, FALSE)

(***************************************************************************)
(* Environment: the part finishes a status write; power is cycled.  A      *)
(* write that completes after its call returned overrides what the calls   *)
(* made since then established.                                            *)
(***************************************************************************)
Complete ==
    /\ ChipComplete
    /\ orphan' = FALSE
    /\ IF orphan
       THEN expect' = Invalid /\ lastOk' = NoArg
       ELSE UNCHANGED <<expect, lastOk>>
    /\ UNCHANGED <<pc, locals, result, claimed, durable, bndVars>>

PowerCycle ==
    /\ cycles < MaxPowerCycles
    /\ cycles' = cycles + 1
    /\ ChipPowerCycle
    /\ pc' = "Idle"
    /\ locals' = <<NoArg, NoMv, 0, FALSE, FALSE>>
    /\ expect' = Invalid
    /\ claimed' = Invalid
    /\ durable' = IF pc # "Idle" /\ wrote THEN Invalid ELSE durable
    /\ lastOk' = NoArg
    /\ orphan' = FALSE
    /\ UNCHANGED <<result, calls, faults, timeouts>>

Init ==
    /\ ChipInit(InitImages)
    /\ pc = "Idle"
    /\ locals = <<NoArg, NoMv, 0, FALSE, FALSE>>
    /\ result = [op |-> "none", region |-> NoArg.region, ret |-> 0, io |-> FALSE]
    /\ expect = Invalid /\ claimed = Invalid /\ durable = Invalid
    /\ lastOk = NoArg
    /\ orphan = FALSE
    /\ calls = 0 /\ faults = 0 /\ timeouts = 0 /\ cycles = 0

Next ==
    \/ \E r \in Regions, nv \in BOOLEAN, m \in SetModes : CallSet(r, nv, m)
    \/ \E r \in Regions : CallGet(r)
    \/ SetRdsr \/ SetRdsr2 \/ SetWren \/ SetWrsr \/ SetWait
    \/ SetVrdsr \/ SetVrdsr2
    \/ GetRdsr \/ GetRdsr2
    \/ Complete \/ PowerCycle

Spec == Init /\ [][Next]_vars

(***************************************************************************)
(* Properties                                                              *)
(***************************************************************************)
\* Type invariant; the value a set hands to winbond_flash_cmd_status has
\* no bit outside its mask (the merge would drop it).
TypeOK ==
    /\ ChipTypeOK
    /\ (mv.val & mv.mask) = mv.val
    /\ pc \in {"Idle", "SetRdsr", "SetRdsr2", "SetWren", "SetWrsr", "SetWait",
               "SetVrdsr", "SetVrdsr2", "GetRdsr", "GetRdsr2"}
    /\ arg.op \in {"none", "set", "get"} /\ arg.mode \in Modes
    /\ image \in 0 .. 65535 /\ wrote \in BOOLEAN /\ tainted \in BOOLEAN
    /\ result.ret \in Returns
    /\ calls \in 0 .. MaxCalls

\* What a query of region q answers when protection p is in force.
QueryAnswer(p, q) ==
    IF p.size = 0 THEN 0 ELSE IF region_is_subregion(p, q) THEN 1 ELSE 0

(* A query reflects the last successful set: once winbond_set_write_       *)
(* protection has returned 0 for region p, winbond_get_write_protection(q) *)
(* answers as if exactly p were protected, until power is cycled.  Left    *)
(* out: a set made while a write an earlier call left in flight was still  *)
(* pending (run protect_set_then_query shows why).  It fails if a set     *)
(* reports success the part did not take (a missed lock), if the register  *)
(* layout, encoder or decoder disagree, or if a failed call leaves stale   *)
(* state behind.                                                           *)
QueryReflectsLastSet ==
    (pc = "Idle" /\ result.op = "get" /\ result.ret \in {0, 1} /\ expect.valid)
        => result.ret = QueryAnswer(expect.region, result.region)

(* Idempotence (spec.md section 8): a set is never written to the part     *)
(* again while the same set's success is still current, i.e. WRSR is sent  *)
(* only when the masked bits differ.                                       *)
WrsrOnlyWhenChanged == SetWrsr => arg # lastOk
Idempotent == [][WrsrOnlyWhenChanged]_vars

(* spec.md section 8, setter/query consistency: once winbond_set_write_    *)
(* protection has returned 0 for region p, a following winbond_get_write_  *)
(* protection(q) answers as if exactly p were protected (for q = p, "fully *)
(* protected").  Checked without power cycles.                             *)
SpecSetThenQuery ==
    (pc = "Idle" /\ result.op = "get" /\ result.ret \in {0, 1} /\ claimed.valid)
        => result.ret = QueryAnswer(claimed.region, result.region)

(* The non_volatile flag "makes the setting permanent" (comment of         *)
(* winbond_flash_cmd_status and winbond_set_write_protection): after a set *)
(* with non_volatile = TRUE has returned 0, and no later set has changed   *)
(* anything, queries answer as if its region were protected, across power  *)
(* cycles.                                                                 *)
NonVolatileSetPersists ==
    (pc = "Idle" /\ result.op = "get" /\ result.ret \in {0, 1} /\ durable.valid)
        => result.ret = QueryAnswer(durable.region, result.region)
=============================================================================

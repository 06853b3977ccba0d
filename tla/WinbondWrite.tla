----------------------------- MODULE WinbondWrite -----------------------------
(***************************************************************************)
(* winbond_write: the page-program loop of drivers/spi/winbond.c, one bus  *)
(* command per step, against a part that programs pages.  Data is          *)
(* abstracted to its index in the caller's buffer: the part records, for   *)
(* every run of bytes it programs, the array address and the buffer index  *)
(* of its first byte.                                                      *)
(*                                                                         *)
(* The part: Page Program (02h) takes a 3-byte address (the extended       *)
(* address register of parts above 16 MiB stays 0); it needs WEL, is       *)
(* ignored while busy, and wraps to the start of the page when the data    *)
(* runs past the page end.  Programming completes some time later.         *)
(***************************************************************************)
EXTENDS Integers, Sequences, FiniteSets, WinbondTable

CONSTANTS
    Params,          \* the chip table row the flash was probed as
    MaxXfer,         \* the controller's max_xfer_size
    DeductCmdLen,    \* SPI_CNTRLR_DEDUCT_CMD_LEN is set for the controller
    Requests,        \* [offset, len] pairs the caller writes
    MaxCalls, MaxBusFaults, MaxTimeouts

ASSUME MaxXfer \in Nat \ {0}

VARIABLES
    pc,          \* "Idle", or the next bus command of the call in progress
    req,         \* the call's [offset, len]
    offset,      \* the running offset (u32 offset of winbond_write)
    actual,      \* bytes of buf already programmed
    chunk_len,   \* length of the current chunk
    result,      \* the last completed call [req, ret]
    wel, busy,   \* the part's write enable latch and busy bit
    pend,        \* runs a program in progress will write
    programmed,  \* runs written to the array: [addr, len, src, call, off]
    calls, faults, timeouts

vars == <<pc, req, offset, actual, chunk_len, result, wel, busy, pend,
          programmed, calls, faults, timeouts>>

PageSize == FlashGeometry(Params).page_size
EIO       == -3
ETIMEDOUT == -4
NoReq     == [offset |-> 0, len |-> 0]

MinOf(a, b) == IF a =< b THEN a ELSE b

\* spi_crop_chunk(slave, cmd_len, buf_len).
spi_crop_chunk(cmd_len, buf_len) ==
    MinOf(IF DeductCmdLen /\ MaxXfer > cmd_len THEN MaxXfer - cmd_len ELSE MaxXfer,
          buf_len)

\* Faulty forms of ChunkLen, the bugs the properties must catch: the
\* remaining length ignored, the page limit ignored, the page remainder
\* one short.
ChunkLenNoRemaining(off, remaining) ==
    spi_crop_chunk(4, PageSize - (off % PageSize))
ChunkLenNoPage(off, remaining) ==
    spi_crop_chunk(4, remaining)
ChunkLenPageOffByOne(off, remaining) ==
    spi_crop_chunk(4, MinOf(remaining, PageSize - 1 - (off % PageSize)))

\* The chunk of one loop iteration: up to the end of the page, cropped to
\* what the controller carries after the 4-byte command.
ChunkLen(off, remaining) ==
    spi_crop_chunk(4, MinOf(remaining, PageSize - (off % PageSize)))

\* The address the part receives: cmd[1..3] = offset bits 23..0.
CmdAddr(off) ==
    ((off \div 2 ^ 16) % 256) * 2 ^ 16 + ((off \div 2 ^ 8) % 256) * 2 ^ 8 + (off % 256)

\* The runs n bytes programmed at addr land in, wrapping within the page.
PageRuns(addr, n, src) ==
    LET base  == addr - (addr % PageSize)
        first == MinOf(n, PageSize - (addr % PageSize))
        run(a, l, s) == [addr |-> a, len |-> l, src |-> s, call |-> calls,
                         off |-> req.offset]
    IN  {run(addr, first, src) : _x \in IF first > 0 THEN {1} ELSE {}}
        \cup {run(base, n - first, src + first) : _y \in IF n > first THEN {1} ELSE {}}

BusOk    == UNCHANGED faults
BusFault == faults < MaxBusFaults /\ faults' = faults + 1

Finish(r) ==
    /\ pc' = "Idle"
    /\ result' = [req |-> req, ret |-> r, call |-> calls]
    /\ UNCHANGED <<req, offset, actual, chunk_len>>

(***************************************************************************)
(* Operations                                                              *)
(***************************************************************************)

\* Entry: the loop's first test (len = 0 returns 0 at once) and the first
\* chunk's length.
CallWrite(r) ==
    /\ pc = "Idle"
    /\ calls < MaxCalls
    /\ calls' = calls + 1
    /\ req' = r
    /\ offset' = r.offset
    /\ actual' = 0
    /\ chunk_len' = ChunkLen(r.offset, r.len)
    /\ IF r.len > 0
       THEN pc' = "Wren" /\ UNCHANGED result
       ELSE pc' = "Idle" /\ result' = [req |-> r, ret |-> 0, call |-> calls + 1]
    /\ UNCHANGED <<wel, busy, pend, programmed, faults, timeouts>>

\* spi_flash_cmd(CMD_W25_WREN).
WriteWren ==
    LET send == /\ wel' = IF busy THEN wel ELSE 1
                /\ UNCHANGED <<busy, pend, programmed>>
    IN  /\ pc = "Wren"
        /\ UNCHANGED <<calls, timeouts>>
        /\ \/ BusOk /\ send /\ pc' = "PP"
              /\ UNCHANGED <<req, offset, actual, chunk_len, result>>
           \/ BusFault /\ (send \/ UNCHANGED <<wel, busy, pend, programmed>>)
              /\ Finish(EIO)

\* spi_flash_cmd_write(cmd = {PP, addr[23:16], addr[15:8], addr[7:0]},
\* buf + actual, chunk_len).
WritePP ==
    LET send == IF busy \/ wel = 0
                THEN UNCHANGED <<wel, busy, pend, programmed>>
                ELSE /\ busy' = TRUE
                     /\ pend' = PageRuns(CmdAddr(offset), chunk_len, actual)
                     /\ UNCHANGED <<wel, programmed>>
    IN  /\ pc = "PP"
        /\ UNCHANGED <<calls, timeouts>>
        /\ \/ BusOk /\ send /\ pc' = "Wait"
              /\ UNCHANGED <<req, offset, actual, chunk_len, result>>
           \/ BusFault /\ (send \/ UNCHANGED <<wel, busy, pend, programmed>>)
              /\ Finish(EIO)

\* Faulty form of WriteWait: the next chunk is sized from len instead of
\* the bytes still to go (len - actual).
WriteWaitWholeLen ==
    LET next == actual + chunk_len
    IN  /\ pc = "Wait"
        /\ UNCHANGED <<wel, busy, pend, programmed, calls>>
        /\ \/ /\ BusOk /\ ~busy /\ UNCHANGED timeouts
              /\ offset' = offset + chunk_len
              /\ actual' = next
              /\ chunk_len' = ChunkLen(offset + chunk_len, req.len)
              /\ IF next < req.len
                 THEN pc' = "Wren" /\ UNCHANGED result
                 ELSE /\ pc' = "Idle"
                      /\ result' = [req |-> req, ret |-> 0, call |-> calls]
              /\ UNCHANGED req
           \/ /\ busy /\ timeouts < MaxTimeouts /\ timeouts' = timeouts + 1
              /\ BusOk /\ Finish(ETIMEDOUT)
           \/ BusFault /\ Finish(EIO) /\ UNCHANGED timeouts

\* spi_flash_cmd_wait_ready(flash, SPI_FLASH_PROG_TIMEOUT); on success the
\* loop advances offset and actual and either returns 0 or starts the next
\* chunk.
WriteWait ==
    LET next == actual + chunk_len
    IN  /\ pc = "Wait"
        /\ UNCHANGED <<wel, busy, pend, programmed, calls>>
        /\ \/ /\ BusOk /\ ~busy /\ UNCHANGED timeouts
              /\ offset' = offset + chunk_len
              /\ actual' = next
              /\ chunk_len' = ChunkLen(offset + chunk_len, req.len - next)
              /\ IF next < req.len
                 THEN pc' = "Wren" /\ UNCHANGED result
                 ELSE /\ pc' = "Idle"
                      /\ result' = [req |-> req, ret |-> 0, call |-> calls]
              /\ UNCHANGED req
           \/ /\ busy /\ timeouts < MaxTimeouts /\ timeouts' = timeouts + 1
              /\ BusOk /\ Finish(ETIMEDOUT)
           \/ BusFault /\ Finish(EIO) /\ UNCHANGED timeouts

\* The part finishes programming (environment).
Complete ==
    /\ busy
    /\ busy' = FALSE
    /\ wel' = 0
    /\ programmed' = programmed \cup pend
    /\ pend' = {}
    /\ UNCHANGED <<pc, req, offset, actual, chunk_len, result, calls, faults,
                   timeouts>>

Init ==
    /\ pc = "Idle"
    /\ req = NoReq
    /\ offset = 0 /\ actual = 0 /\ chunk_len = 0
    /\ result = [req |-> NoReq, ret |-> 0, call |-> 0]
    /\ wel = 0 /\ busy = FALSE /\ pend = {} /\ programmed = {}
    /\ calls = 0 /\ faults = 0 /\ timeouts = 0

Next ==
    \/ \E r \in Requests : CallWrite(r)
    \/ WriteWren \/ WritePP \/ WriteWait
    \/ Complete

Fairness ==
    /\ WF_vars(WriteWren) /\ WF_vars(WritePP) /\ WF_vars(WriteWait)
    /\ WF_vars(Complete)

Spec == Init /\ [][Next]_vars /\ Fairness

(***************************************************************************)
(* Properties                                                              *)
(***************************************************************************)

\* Buffer indices a call's programmed runs cover.
Covered(c) == UNION {r.src .. r.src + r.len - 1 : r \in {q \in programmed : q.call = c}}

\* Type invariant; the loop never counts more bytes than the caller passed
\* (actual of winbond_write stays within len).
TypeOK ==
    /\ pc \in {"Idle", "Wren", "PP", "Wait"}
    /\ actual \in 0 .. req.len
    /\ wel \in {0, 1} /\ busy \in BOOLEAN
    /\ result.ret \in {0, EIO, ETIMEDOUT}

\* winbond_write puts every byte of buf at offset + its index: no run the
\* part programmed (after page wrap and the 3-byte command address) lands
\* elsewhere, and a call that returned 0 has programmed all len bytes.
WriteCommitsExactly ==
    /\ \A r \in programmed : r.addr = r.off + r.src
    /\ (pc = "Idle" /\ result.call > 0 /\ result.ret = 0)
           => Covered(result.call) = 0 .. result.req.len - 1

\* Every call of winbond_write returns: the chunk loop makes progress and
\* each wait ends, given the part finishes programming.
WriteReturns == (pc # "Idle") ~> (pc = "Idle")

\* The bytes a set of programmed runs put in the array.
Bytes(rs) == UNION {{[addr |-> r.addr + j, src |-> r.src + j, call |-> r.call] :
                      j \in 0 .. r.len - 1} : r \in rs}

Abstract == INSTANCE WinbondWriteAbstract
                WITH active <- pc # "Idle", written <- Bytes(programmed)

\* winbond_write implements the abstract write: every byte lands at offset
\* plus its index, the bytes of a call reach the array as a growing prefix
\* of buf even when a WREN, PP or wait fails part-way through the chunk
\* loop (so a failed call leaves a prefix, never a hole), 0 is returned only
\* once all of buf is programmed, and every call returns.
WriteRefinesAbstract == Abstract!Spec
=============================================================================

------------------------- MODULE WinbondWriteAbstract -------------------------
(***************************************************************************)
(* What a call of winbond_write promises its caller, with no chunks, no    *)
(* bus commands and no part.  Byte i of buf lands at offset + i; the bytes *)
(* of a call reach the array in order, so at every moment what the call    *)
(* has written is a prefix of buf; a call that returns 0 has written all   *)
(* of buf; a call that fails may have written any prefix, and the prefix   *)
(* may still grow after the call has returned (a program that was under    *)
(* way when the wait gave up).  Bytes of a call only land while no later   *)
(* call has started.                                                       *)
(***************************************************************************)
EXTENDS Integers, FiniteSets

CONSTANTS Requests, MaxCalls

VARIABLES
    active,   \* a call is in progress
    req,      \* the [offset, len] of the latest call
    written,  \* bytes in the array: [addr, src, call]
    result,   \* the last completed call [req, ret, call]
    calls     \* calls made so far

vars == <<active, req, written, result, calls>>

EIO       == -3
ETIMEDOUT == -4
NoReq     == [offset |-> 0, len |-> 0]

\* Bytes of the latest call already in the array.
Done == Cardinality({b \in written : b.call = calls})

Call(r) ==
    /\ ~active
    /\ calls < MaxCalls
    /\ calls' = calls + 1
    /\ req' = r
    /\ IF r.len > 0
       THEN active' = TRUE /\ UNCHANGED result
       ELSE active' = FALSE /\ result' = [req |-> r, ret |-> 0, call |-> calls + 1]
    /\ UNCHANGED written

\* The array takes the next bytes of the latest call, in buffer order.
Commit(k) ==
    /\ Done < k /\ k =< req.len
    /\ written' = written \cup
           {[addr |-> req.offset + i, src |-> i, call |-> calls] : i \in Done .. k - 1}
    /\ UNCHANGED <<active, req, result, calls>>

Return(ret) ==
    /\ active
    /\ ret = 0 => Done = req.len
    /\ active' = FALSE
    /\ result' = [req |-> req, ret |-> ret, call |-> calls]
    /\ UNCHANGED <<req, written, calls>>

Init ==
    /\ active = FALSE
    /\ req = NoReq
    /\ written = {}
    /\ result = [req |-> NoReq, ret |-> 0, call |-> 0]
    /\ calls = 0

Next ==
    \/ \E r \in Requests : Call(r)
    \/ \E k \in 1 .. req.len : Commit(k)
    \/ \E ret \in {0, EIO, ETIMEDOUT} : Return(ret)

\* Every call returns.
Spec == Init /\ [][Next]_vars /\ WF_vars(\E ret \in {0, EIO, ETIMEDOUT} : Return(ret))
=============================================================================

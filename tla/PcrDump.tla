------------------------------- MODULE PcrDump -------------------------------
(***************************************************************************)
(* print_pcr_port of util/inteltool/pcr.c as a function from the port's    *)
(* registers to the lines it prints.  A run of registers equal to the one  *)
(* before is not printed; a "*" line marks where such a run was left out.  *)
(* The port is a sequence of 32-bit registers at offsets 0, 4, 8, ...; a   *)
(* printed line is [off, reg]; the "*" line is Star, a line at no offset.  *)
(***************************************************************************)
EXTENDS Integers, SequencesExt

Star == [off |-> -1, reg |-> 0]

\* The loop body run with last_reg never updated.
DumpStepNoLastReg(st, i, reg) ==
    LET rep == i # 0 /\ st.last_reg = reg
    IN  [last_reg     |-> st.last_reg,
         last_printed |-> ~rep,
         out          |-> st.out \o (IF ~rep /\ ~st.last_printed THEN <<Star>> ELSE <<>>)
                                 \o (IF ~rep THEN <<[off |-> i, reg |-> reg]>> ELSE <<>>)]

\* One iteration of the loop: rep = i && last_reg == reg; a register that is
\* not a repeat is printed, after a "*" if the one before it was not.
DumpStep(st, i, reg) ==
    LET rep == i # 0 /\ st.last_reg = reg
    IN  [last_reg     |-> reg,
         last_printed |-> ~rep,
         out          |-> st.out \o (IF ~rep /\ ~st.last_printed THEN <<Star>> ELSE <<>>)
                                 \o (IF ~rep THEN <<[off |-> i, reg |-> reg]>> ELSE <<>>)]

\* The loop over the port from last_reg = 0, last_printed = true, and the
\* closing "*" when the port ends in a run of repeats.
print_pcr_port(regs) ==
    LET st == FoldLeftDomain(LAMBDA s, j : DumpStep(s, (j - 1) * 4, regs[j]),
                             [last_reg |-> 0, last_printed |-> TRUE, out |-> <<>>],
                             regs)
    IN  st.out \o (IF ~st.last_printed THEN <<Star>> ELSE <<>>)

(***************************************************************************)
(* Reference: how a reader of the dump recovers register j of n.  It takes *)
(* the last printed line at or before the register's offset; the register  *)
(* has that line's value if the line is its own, or if a "*" follows the   *)
(* line.  Anything else is unknown (None).                                 *)
(***************************************************************************)
None == -1

ReadBack(out, n) ==
    [j \in 1 .. n |->
        LET o == (j - 1) * 4
            P == {k \in DOMAIN out : out[k] # Star /\ out[k].off =< o}
        IN  IF P = {} THEN None
            ELSE LET k == Max(P)
                 IN  IF out[k].off = o \/ (k < Len(out) /\ out[k + 1] = Star)
                     THEN out[k].reg ELSE None]
=============================================================================

--------------------------- MODULE MCWinbondDecode ---------------------------
(***************************************************************************)
(* Enumerates every BP/TB/CMP setting a part with protection support can   *)
(* hold (BP over the whole 3- or 4-bit field) and states, of the decoder,  *)
(* what spec.md section 3 says of BP = 0.                                  *)
(***************************************************************************)
EXTENDS WinbondCodec, WinbondTable

VARIABLES params, hw
vars == <<params, hw>>

FlashSize(p) == FlashGeometry(p).size
Granularity(p) == 2 ^ p.protection_granularity_shift

Init ==
    /\ params \in {winbond_spi_flash_table[i] :
                       i \in 1 .. Len(winbond_spi_flash_table)}
    /\ params.bp_bits \in {3, 4}
    /\ hw \in [bp : 0 .. 2 ^ params.bp_bits - 1, tb : {0, 1}, cmp : {0, 1}]

Next == UNCHANGED vars

Spec == Init /\ [][Next]_vars

Decoded == winbond_bpbits_to_region(Granularity(params), hw.bp, hw.tb, hw.cmp,
                                    FlashSize(params))

(* spec.md section 3: BP = 0 always means "no protection", whatever TB and *)
(* CMP hold; i.e. winbond_bpbits_to_region yields an empty region.         *)
SpecBpZeroUnprotected ==
    hw.bp = 0 => Decoded.size = 0
=============================================================================

--------------------------- MODULE MCWinbondCodec ---------------------------
(***************************************************************************)
(* Probes the part (WinbondProbe, every device id a Winbond part can       *)
(* answer), then checks the setter's forward logic against the shared      *)
(* decoder for the row the probe selected and a set of candidate regions   *)
(* for it: all                                                             *)
(* powers of two up to the flash size, their complements, and sizes that   *)
(* are not powers of two, each anchored at the bottom, at the top, and     *)
(* floating at one granularity unit.  After the probe step the state does  *)
(* not change.                                                             *)
(***************************************************************************)
EXTENDS WinbondProbe, WinbondCodec, FiniteSets

VARIABLE region
mc_vars == <<idcode, flash, ret, region>>

MCIdCodes == {<<\hef, a, b>> : a, b \in 0 .. 255}

NoRegion == [offset |-> 0, size |-> 0]
\* The table row the probe put in flash->driver_private.
params == flash.params

FlashSize(p) == FlashGeometry(p).size
Granularity(p) == 2 ^ p.protection_granularity_shift

CandidateSizes(p) ==
    LET F == FlashSize(p)
        k == 0 .. log2(F)
    IN  {s \in {0} \cup {2 ^ i : i \in k} \cup {F - 2 ^ i : i \in k}
                   \cup {3 * 2 ^ i : i \in k} \cup {5 * 2 ^ i : i \in k} :
            s =< F}

CandidateRegions(p) ==
    LET F == FlashSize(p)
    IN  UNION {{[offset |-> 0, size |-> s],
                [offset |-> F - s, size |-> s]} : s \in CandidateSizes(p)}
        \cup {[offset |-> Granularity(p), size |-> Granularity(p)]}

MCInit == Init /\ region = NoRegion

\* The probe, then a region for the setter of the part it found.
MCNext ==
    /\ Next
    /\ region' \in IF ret' = 0 THEN CandidateRegions(flash'.params) ELSE {NoRegion}

MCSpec == MCInit /\ [][MCNext]_mc_vars

Enc == WpEncode(params, FlashSize(params), region)
\* The image the setter asks for, merged over an all-zero register.
Image == MergeSreg(0, WpMaskVal(params, Enc, "PRESERVE").mask,
                      WpMaskVal(params, Enc, "PRESERVE").val)

\* Type invariant of the region the setter is given for the probed part.
TypeOK ==
    ret = 0 =>
        /\ region.offset \in 0 .. FlashSize(params)
        /\ region.offset + region.size =< FlashSize(params)
        /\ Enc.ok => Enc.bp \in Nat /\ Enc.tb \in {0, 1} /\ Enc.cmp \in {0, 1}

(* Round trip through the hardware image: whenever the setter accepts a    *)
(* region of the probed part, the BP/TB/CMP bits it packs into the status- *)
(* register layout of the part (with C bit-field truncation), read back    *)
(* and run through winbond_bpbits_to_region, describe exactly that region, *)
(* with SEC = 0.                                                           *)
EncodeDecodeRoundTrip ==
    (ret = 0 /\ Enc.ok) =>
        /\ SregRegion(params, FlashSize(params), Image) = region
        /\ (params.bp_bits = 3 => SregSec(Image) = 0)

(* The setter rejects only what the hardware cannot express: a region that *)
(* some BP/TB/CMP setting of the probed part decodes to (a part with       *)
(* protection support) is accepted by winbond_set_write_protection.        *)
EncoderComplete ==
    (/\ ret = 0
     /\ params.bp_bits \in {3, 4}
     /\ \E bp \in 0 .. 2 ^ params.bp_bits - 1, tb, cmp \in {0, 1} :
           winbond_bpbits_to_region(Granularity(params), bp, tb, cmp,
                                    FlashSize(params)) = region)
    => Enc.ok

(* What spec.md section 8's codec round trip can promise, since settings   *)
(* alias: every BP/TB/CMP setting the probed part can hold (BP over the    *)
(* whole field, saturated sizes included) decodes through                 *)
(* winbond_bpbits_to_region to a region inside the flash that the setter   *)
(* accepts, and the bits the setter derives for it decode to that same     *)
(* region.                                                                 *)
DecodedReEncodes ==
    (ret = 0 /\ params.bp_bits \in {3, 4}) =>
        \A bp \in 0 .. 2 ^ params.bp_bits - 1, tb, cmp \in {0, 1} :
            LET r == winbond_bpbits_to_region(Granularity(params), bp, tb, cmp,
                                              FlashSize(params))
                e == WpEncode(params, FlashSize(params), r)
            IN  /\ r.size >= 0 /\ r.offset >= 0
                /\ r.offset + r.size =< FlashSize(params)
                /\ e.ok
                /\ winbond_bpbits_to_region(Granularity(params), e.bp, e.tb,
                                            e.cmp, FlashSize(params)) = r
=============================================================================

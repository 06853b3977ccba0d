----------------------------- MODULE InteltoolGpio -----------------------------
(***************************************************************************)
(* util/inteltool/gpio_groups.c over pcr.c: print_gpio_groups picks the    *)
(* communities for the LPC device, calls pcr_init, and for each community  *)
(* reads the pad base (PAD_CFG_BASE, register 0x0c of the community's PCR  *)
(* port), rejects a base whose pads would run past the port, and walks the *)
(* groups, reading DW0 and DW1 of every pad.                               *)
(*                                                                         *)
(* size_t arithmetic is kept at its width (SizeBits) and read_pcr32's      *)
(* offset parameter is a uint16_t.  TLC's integers stop at 2^31, so a      *)
(* size_t is held as [q, r] = q * 2^16 + r with r < 2^16; every sum here   *)
(* adds less than 2^16 to a u32 register value, so q stays below 2^16 + 1  *)
(* and a 64-bit size_t never wraps.  Register values are what the hardware *)
(* returns: the pad base is any value of PadBaseValues(community); DW0's   *)
(* pad mode (bits 12:10) is any of 0..7.                                   *)
(***************************************************************************)
EXTENDS InteltoolPcr, GpioGroupsTable

CONSTANTS
    SizeBits,            \* width of size_t in the build (32 or 64)
    PadBaseValues(_)     \* what register 0x0c of a community may read

VARIABLES
    communities,  \* communities still to print (the pointer walk of main loop)
    grp,          \* index of the group print_gpio_community is at
    pad_cfg,      \* its running pad_cfg (size_t)
    pad_base,     \* the base the register returned
    last_reads,   \* reads of the last group: [off, want]
    last_names    \* pad_names indices the last group's decode may use: [idx, size]

gpio_vars == <<communities, grp, pad_cfg, pad_base, last_reads, last_names>>
vars == <<pcr_vars, gpio_vars>>

Wide(q, r) == [q |-> q, r |-> r]
\* x + k for 0 =< k < 2^16, unbounded.
Plus(x, k) == Wide(x.q + (x.r + k) \div 2 ^ 16, (x.r + k) % 2 ^ 16)
\* The value as a size_t of SizeBits bits.
SizeT(x) == IF SizeBits = 32 THEN Wide(x.q % 2 ^ 16, x.r) ELSE x
\* The size_t passed as read_pcr32's uint16_t offset.
U16(x) == x.r
\* x =< PCR_PORT_SIZE (2^16).
AtMostPortSize(x) == x.q = 0 \/ (x.q = 1 /\ x.r = 0)

\* The case labels of the switch in print_gpio_groups.
SunriseIds   == {"B150", "CM236"}
SunriseLpIds == {"SUNRISEPOINT_LP_U_BASE", "SUNRISEPOINT_LP_U_PREM",
                 "SUNRISEPOINT_LP_Y_PREM", "SUNRISEPOINT_LP_U_IHDCP_BASE",
                 "SUNRISEPOINT_LP_U_IHDCP_PREM", "SUNRISEPOINT_LP_Y_IHDCP_PREM"}

GpioCommunitiesOf(id) ==
    IF id \in SunriseIds THEN sunrise_communities
    ELSE IF id \in SunriseLpIds THEN sunrise_lp_communities
    ELSE IF id = "DNV_LPC" THEN denverton_communities
    ELSE <<>>

\* The check of a pad base that lets the last pad only start in the port.
PadBaseOkLastPadStart(base, pad_count) ==
    AtMostPortSize(SizeT(Plus(base, (pad_count - 1) * 8)))

\* The check of print_gpio_community: pad_cfg + pad_count * 8 > PCR_PORT_SIZE
\* is a bad pad base address.
PadBaseOk(base, pad_count) == AtMostPortSize(SizeT(Plus(base, pad_count * 8)))

\* main calls print_gpio_groups(sb): the switch; a known chipset calls
\* pcr_init, an unknown one returns.
CallPrintGpioGroups ==
    LET cs == GpioCommunitiesOf(sb_id)
    IN  /\ pc = "main" /\ status = "running"
        /\ "gpio" \in todo
        /\ todo' = todo \ {"gpio"}
        /\ communities' = cs
        /\ IF cs = <<>>
           THEN UNCHANGED <<pc, caller>>
           ELSE pc' = "pcr_init" /\ caller' = "gpio_community"
        /\ UNCHANGED <<sb_id, p2sb, p2sb_boot, last_dump, sbbar, p2sb_revealed, error_exit,
                       port_idx, status, grp, pad_cfg, pad_base, last_reads,
                       last_names>>

\* print_gpio_community: sum the pad counts and assert they fit, read the
\* pad base, and skip the community on a bad base.  With no community left
\* print_gpio_groups returns.
PrintGpioCommunity ==
    /\ pc = "gpio_community"
    /\ IF communities = <<>>
       THEN pc' = "main" /\ UNCHANGED <<communities, grp, pad_cfg, pad_base, status>>
       ELSE LET c == Head(communities)
                n == CommunityPadCount(c)
            IN  IF ~(n * 8 =< PCR_PORT_SIZE - \h10) \/ ~PcrReadOk
                THEN Exit("abort") /\ UNCHANGED <<communities, grp, pad_cfg, pad_base>>
                ELSE \E v \in PadBaseValues(c) :
                       /\ UNCHANGED status
                       /\ IF PadBaseOk(v, n)
                          THEN /\ pc' = "gpio_group" /\ grp' = 1
                               /\ pad_cfg' = v /\ pad_base' = v
                               /\ UNCHANGED communities
                          ELSE /\ communities' = Tail(communities)
                               /\ UNCHANGED <<pc, grp, pad_cfg, pad_base>>
    /\ UNCHANGED <<sb_id, p2sb, p2sb_boot, last_dump, sbbar, p2sb_revealed, error_exit, caller,
                   port_idx, todo, last_reads, last_names>>

\* print_gpio_group for the community's next group: DW0 at pad_cfg and DW1
\* at pad_cfg + 4 for every pad, the pad's name and decode_pad_mode; then
\* pad_cfg += pad_count * 8.  After the last group the walk goes on with
\* the next community.
PrintGpioGroup ==
    LET c     == Head(communities)
        g     == c.groups[grp]
        pads  == 0 .. g.pad_count - 1
        first == PadsBefore(c, grp - 1)
        rd(p, k) == [off  |-> U16(SizeT(Plus(pad_cfg, p * 8 + k))),
                     want |-> Plus(pad_base, (first + p) * 8 + k)]
        modes == {decode_pad_mode(g, p, m) : p \in pads, m \in 0 .. 7}
    IN  /\ pc = "gpio_group"
        /\ IF PcrReadOk
           THEN /\ last_reads' = {rd(p, k) : p \in pads, k \in {0, 4}}
                /\ last_names' = {[idx |-> i, size |-> g.names] :
                                  i \in (modes \ {-1}) \cup {p * g.func_count : p \in pads}}
                /\ pad_cfg' = SizeT(Plus(pad_cfg, g.pad_count * 8))
                /\ IF grp < Len(c.groups)
                   THEN grp' = grp + 1 /\ UNCHANGED <<pc, communities>>
                   ELSE /\ pc' = "gpio_community" /\ communities' = Tail(communities)
                        /\ UNCHANGED grp
                /\ UNCHANGED status
           ELSE Exit("abort") /\ UNCHANGED <<last_reads, last_names, pad_cfg, grp,
                                              communities>>
        /\ UNCHANGED <<sb_id, p2sb, p2sb_boot, last_dump, sbbar, p2sb_revealed, error_exit,
                       caller, port_idx, todo, pad_base>>

Init ==
    /\ PcrInitState({"gpio", "ports"})
    /\ communities = <<>> /\ grp = 1
    /\ pad_cfg = Wide(0, 0) /\ pad_base = Wide(0, 0)
    /\ last_reads = {} /\ last_names = {}

Next ==
    \/ PcrNext /\ UNCHANGED gpio_vars
    \/ CallPrintGpioGroups \/ PrintGpioCommunity \/ PrintGpioGroup

Spec == Init /\ [][Next]_vars

(***************************************************************************)
(* Properties                                                              *)
(***************************************************************************)

\* Type invariant; print_pcr_ports' index never passes count.
TypeOK ==
    /\ status \in {"running", "done", "abort", "exit_unknown_lpc",
                   "exit_no_p2sb", "exit_reveal", "exit_map"}
    /\ sbbar \in {"NULL", "Mapped", "Unmapped"}
    /\ p2sb \in {"visible", "hidden", "absent"}
    /\ pad_cfg \in [q : 0 .. 2 ^ 16, r : 0 .. 2 ^ 16 - 1]
    /\ port_idx \in 1 .. Len(PcrPorts) + 1

\* A device print_gpio_groups has GPIO tables for is one pcr_init knows:
\* the two switches agree, so the GPIO dump never ends in pcr_init's
\* "Unknown LPC device." exit.
GpioChipsetKnownToPcr ==
    (status = "exit_unknown_lpc") => (GpioCommunitiesOf(sb_id) = <<>>)

\* Every DW0/DW1 read of the pad walk reads the register the walk means,
\* pad base + 8 * pad (+ 4), inside the community's PCR port: a base the
\* check lets through keeps all pads of all groups in the port, and the
\* size_t sums and the uint16_t offset of read_pcr32 lose nothing.
PadReadsInPort ==
    \A r \in last_reads : r.want.q = 0 /\ r.off = r.want.r

\* decode_pad_mode and the pad-name column only index inside the group's
\* pad_names array, for every mode DW0 may hold.
PadNamesInArray ==
    \A n \in last_names : 0 =< n.idx /\ n.idx < n.size
=============================================================================

--------------------------- MODULE GpioGroupsTable ---------------------------
(***************************************************************************)
(* The static tables of util/inteltool/gpio_groups.c.  A group's pad names *)
(* are abstracted to their number: pad_count = ARRAY_SIZE(names) /        *)
(* func_count, and decode_pad_mode indexes the array by                    *)
(* pad * func_count + mode.  A community is its PCR port id and its        *)
(* groups in order; a chipset is its communities in order.                 *)
(***************************************************************************)
EXTENDS Integers, Sequences

PCR_PORT_SIZE == 64 * 1024
SBBAR_SIZE    == 16 * 1024 * 1024

\* struct gpio_group, from the length of its pad_names array.
Group(names, func_count) ==
    [names |-> names, func_count |-> func_count, pad_count |-> names \div func_count]

sunrise_group_a    == Group(96, 4)
sunrise_lp_group_a == Group(96, 4)
sunrise_group_b    == Group(96, 4)
sunrise_lp_group_b == Group(96, 4)
sunrise_group_c    == Group(96, 4)
sunrise_group_d    == Group(96, 4)
sunrise_lp_group_d == Group(96, 4)
sunrise_group_e    == Group(52, 4)
sunrise_lp_group_e == Group(96, 4)
sunrise_group_f    == Group(96, 4)
sunrise_lp_group_f == Group(96, 4)
sunrise_group_g    == Group(96, 4)
sunrise_lp_group_g == Group(32, 4)
sunrise_group_h    == Group(96, 4)
sunrise_group_gpd  == Group(48, 4)
sunrise_group_i    == Group(44, 4)
denverton_group_north_all    == Group(41, 1)
denverton_group_south_dfx    == Group(18, 1)
denverton_group_south_group0 == Group(53, 1)
denverton_group_south_group1 == Group(42, 1)

\* struct gpio_community: pcr_port_id and the groups array.
Community(port, groups) == [pcr_port_id |-> port, groups |-> groups]

sunrise_community_ab ==
    Community(\haf, <<sunrise_group_a, sunrise_group_b>>)
sunrise_lp_community_ab ==
    Community(\haf, <<sunrise_lp_group_a, sunrise_lp_group_b>>)
sunrise_community_cdefgh ==
    Community(\hae, <<sunrise_group_c, sunrise_group_d, sunrise_group_e,
                      sunrise_group_f, sunrise_group_g, sunrise_group_h>>)
sunrise_lp_community_cde ==
    Community(\hae, <<sunrise_group_c, sunrise_lp_group_d, sunrise_lp_group_e>>)
sunrise_community_gpd ==
    Community(\had, <<sunrise_group_gpd>>)
sunrise_community_i ==
    Community(\hac, <<sunrise_group_i>>)
sunrise_lp_community_fg ==
    Community(\hac, <<sunrise_lp_group_f, sunrise_lp_group_g>>)
denverton_community_north ==
    Community(\hc2, <<denverton_group_north_all>>)
denverton_community_south ==
    Community(\hc5, <<denverton_group_south_dfx, denverton_group_south_group0,
                      denverton_group_south_group1>>)

sunrise_communities ==
    <<sunrise_community_ab, sunrise_community_cdefgh,
      sunrise_community_gpd, sunrise_community_i>>
sunrise_lp_communities ==
    <<sunrise_lp_community_ab, sunrise_lp_community_cde,
      sunrise_community_gpd, sunrise_lp_community_fg>>
denverton_communities ==
    <<denverton_community_north, denverton_community_south>>

\* Pads of the first n groups of a community.
RECURSIVE PadsBefore(_, _)
PadsBefore(community, n) ==
    IF n = 0 THEN 0
    ELSE community.groups[n].pad_count + PadsBefore(community, n - 1)

\* The loop of print_gpio_community that sums the groups' pad counts.
CommunityPadCount(community) == PadsBefore(community, Len(community.groups))

\* A decode_pad_mode that takes mode func_count for a function.
decode_pad_mode_le(group, pad, pad_mode) ==
    IF pad_mode = 0 THEN -1
    ELSE IF pad_mode =< group.func_count THEN pad * group.func_count + pad_mode
    ELSE -1

\* decode_pad_mode: the index of pad_names it reads for a pad mode, or -1
\* where it returns the literal "GPIO" or "RESERVED".
decode_pad_mode(group, pad, pad_mode) ==
    IF pad_mode = 0 THEN -1
    ELSE IF pad_mode < group.func_count THEN pad * group.func_count + pad_mode
    ELSE -1
=============================================================================

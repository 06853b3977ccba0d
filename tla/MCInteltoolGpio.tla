--------------------------- MODULE MCInteltoolGpio ---------------------------
EXTENDS InteltoolGpio

\* Every device print_gpio_groups has GPIO tables for (the Sunrise Point-H
\* parts B150 and CM236, the six Sunrise Point-LP ids, Denverton), Apollo
\* Lake (P2SB at 0d.0, no GPIO tables), an H-series part with no GPIO
\* tables, and a device neither switch knows.
MCLpcIds == {"B150", "CM236",
             "SUNRISEPOINT_LP_U_BASE", "SUNRISEPOINT_LP_U_PREM",
             "SUNRISEPOINT_LP_Y_PREM", "SUNRISEPOINT_LP_U_IHDCP_BASE",
             "SUNRISEPOINT_LP_U_IHDCP_PREM", "SUNRISEPOINT_LP_Y_IHDCP_PREM",
             "DNV_LPC", "APL_LPC", "H110", "OTHER"}

MCPcrPorts == <<\haf>>

\* Pad bases register 0x0c may read for a community: an ordinary base, the
\* highest base whose pads fit, one pad beyond it, and all ones (a read
\* from a device that does not answer).
MCPadBaseValues(c) ==
    LET n == CommunityPadCount(c)
    IN  {Wide(0, \h400), Wide(0, PCR_PORT_SIZE - n * 8),
         Wide(0, PCR_PORT_SIZE - n * 8 + 8), Wide(2 ^ 16 - 1, 2 ^ 16 - 1)}
=============================================================================

---------------------------- MODULE MCWinbondWrite ----------------------------
(***************************************************************************)
(* Instances of the page-program loop for TLC: a W25Q16 (256-byte pages)   *)
(* and a W25Q256 (32 MiB, above the 3-byte address range), a controller    *)
(* carrying 64 bytes per transfer less the 4-byte command.                 *)
(***************************************************************************)
EXTENDS WinbondWrite

Q16  == winbond_spi_flash_table[9]
Q256 == winbond_spi_flash_table[18]

\* Writes that start mid-page, cross pages, end one byte before a page
\* end, and an empty one.
MCRequests ==
    { [offset |-> 100, len |-> 300],
      [offset |-> 200, len |-> 100],
      [offset |-> 255, len |-> 2],
      [offset |-> 0,   len |-> 0] }

\* A write above 16 MiB on the 32 MiB part.
MCHighRequests == { [offset |-> 2 ^ 24 + 200, len |-> 100] }
=============================================================================

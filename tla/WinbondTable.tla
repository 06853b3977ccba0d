---------------------------- MODULE WinbondTable ----------------------------
(***************************************************************************)
(* The static chip table of drivers/spi/winbond.c and the geometry that    *)
(* spi_flash_probe_winbond derives from an entry.  The table stores every  *)
(* size as a power-of-two shift count; the chip name is display-only and   *)
(* is left out.  A bp_bits or protection_granularity_shift that the C      *)
(* initializer omits is 0, as in the zero-initialized static array.        *)
(***************************************************************************)
EXTENDS Integers, Sequences

\* One row of struct winbond_spi_flash_params.
Entry(id, l2p, ppss, spbs, nbs, bpb, pgs) ==
    [id |-> id, l2_page_size_shift |-> l2p, pages_per_sector_shift |-> ppss,
     sectors_per_block_shift |-> spbs, nr_blocks_shift |-> nbs,
     bp_bits |-> bpb, protection_granularity_shift |-> pgs]

winbond_spi_flash_table ==
    << Entry(\h2014, 8, 4, 4, 4, 0, 0),    \* W25P80
       Entry(\h2015, 8, 4, 4, 5, 0, 0),    \* W25P16
       Entry(\h2016, 8, 4, 4, 6, 0, 0),    \* W25P32
       Entry(\h3014, 8, 4, 4, 4, 0, 0),    \* W25X80
       Entry(\h3015, 8, 4, 4, 5, 0, 0),    \* W25X16
       Entry(\h3016, 8, 4, 4, 6, 0, 0),    \* W25X32
       Entry(\h3017, 8, 4, 4, 7, 0, 0),    \* W25X64
       Entry(\h4014, 8, 4, 4, 4, 0, 0),    \* W25Q80_V
       Entry(\h4015, 8, 4, 4, 5, 3, 16),   \* W25Q16_V
       Entry(\h6015, 8, 4, 4, 5, 3, 16),   \* W25Q16DW
       Entry(\h4016, 8, 4, 4, 6, 3, 16),   \* W25Q32_V
       Entry(\h6016, 8, 4, 4, 6, 3, 16),   \* W25Q32DW
       Entry(\h4017, 8, 4, 4, 7, 3, 17),   \* W25Q64_V
       Entry(\h6017, 8, 4, 4, 7, 3, 17),   \* W25Q64DW
       Entry(\h4018, 8, 4, 4, 8, 3, 18),   \* W25Q128_V
       Entry(\h6018, 8, 4, 4, 8, 3, 18),   \* W25Q128FW
       Entry(\h7018, 8, 4, 4, 8, 3, 18),   \* W25Q128J
       Entry(\h4019, 8, 4, 4, 9, 4, 16),   \* W25Q256_V
       Entry(\h7019, 8, 4, 4, 9, 4, 16) >> \* W25Q256J

\* Faulty form of FlashGeometry: the blocks-per-chip factor left out.
FlashGeometryNoBlocks(params) ==
    LET page_size   == 2 ^ params.l2_page_size_shift
        sector_size == page_size * 2 ^ params.pages_per_sector_shift
    IN  [page_size   |-> page_size,
         sector_size |-> sector_size,
         size        |-> sector_size * 2 ^ params.sectors_per_block_shift]

\* Geometry filled into struct spi_flash on a successful probe: sizes are
\* reconstructed by left-shifting the table's shift counts.
FlashGeometry(params) ==
    LET page_size   == 2 ^ params.l2_page_size_shift
        sector_size == page_size * 2 ^ params.pages_per_sector_shift
    IN  [page_size   |-> page_size,
         sector_size |-> sector_size,
         size        |-> sector_size * 2 ^ params.sectors_per_block_shift
                                     * 2 ^ params.nr_blocks_shift]

\* Faulty form of IdOf: the two ID bytes in the wrong order.
IdOfSwapped(idcode) == idcode[3] * 256 + idcode[2]

\* The device id the probe matches: bytes 1 and 2 of the JEDEC response.
IdOf(idcode) == idcode[2] * 256 + idcode[3]

\* Index of the first table row whose id matches, or 0 when the linear
\* scan runs off the end of the table.
ProbeIndex(idcode) ==
    LET hits == {i \in 1..Len(winbond_spi_flash_table) :
                    winbond_spi_flash_table[i].id = IdOf(idcode)}
    IN  IF hits = {} THEN 0
        ELSE CHOOSE i \in hits : \A j \in hits : i =< j
=============================================================================

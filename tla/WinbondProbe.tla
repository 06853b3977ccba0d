---------------------------- MODULE WinbondProbe ----------------------------
(***************************************************************************)
(* spi_flash_probe_winbond: match the JEDEC device ID against the chip     *)
(* table and fill the caller's struct spi_flash.  The generic probe calls  *)
(* it once the manufacturer byte has matched Winbond; it does no bus I/O.  *)
(***************************************************************************)
EXTENDS Integers, Sequences, WinbondTable

CONSTANT IdCodes            \* 3-byte RDID responses the part may give

VARIABLES idcode, flash, ret
vars == <<idcode, flash, ret>>

CMD_W25_SE   == \h20
CMD_W25_RDSR == \h05

\* The caller's struct spi_flash before the probe fills it.
NoFlash == [params |-> "none", page_size |-> 0, sector_size |-> 0, size |-> 0,
            erase_cmd |-> 0, status_cmd |-> 0]

\* One call: a miss returns -1 with the handle untouched; a hit fills in
\* the geometry, the opcodes and the table row (driver_private).
Probe(id) ==
    LET i == ProbeIndex(id)
        g == FlashGeometry(winbond_spi_flash_table[i])
    IN  /\ idcode' = id
        /\ IF i = 0
           THEN ret' = -1 /\ flash' = NoFlash
           ELSE /\ ret' = 0
                /\ flash' = [params |-> winbond_spi_flash_table[i],
                             page_size |-> g.page_size,
                             sector_size |-> g.sector_size, size |-> g.size,
                             erase_cmd |-> CMD_W25_SE,
                             status_cmd |-> CMD_W25_RDSR]

Init == idcode = <<0, 0, 0>> /\ flash = NoFlash /\ ret = -1

\* Each probe fills a fresh handle; the model probes once.
Next == idcode = <<0, 0, 0>> /\ \E id \in IdCodes : Probe(id)

Spec == Init /\ [][Next]_vars

(***************************************************************************)
(* Properties                                                              *)
(***************************************************************************)
Rows == 1 .. Len(winbond_spi_flash_table)

\* Capacity in Mbit of each table row as its part name gives it
\* (W25Q<n>, W25X<n>, W25P<n>: n Mbit), in table order.
PartMbit == <<8, 16, 32, 8, 16, 32, 64, 8, 16, 16, 32, 32, 64, 64, 128, 128,
              128, 256, 256>>

(* spi_flash_probe_winbond identifies the part: for the device id formed   *)
(* from bytes 1 and 2 of the JEDEC response (byte 1 high), the probe       *)
(* succeeds exactly when a table row carries that id, exactly one row      *)
(* does (so the first match of the linear scan is the only one), the      *)
(* handle gets that row, and a miss returns -1 with the handle untouched.  *)
ProbeIdentifiesPart ==
    idcode # <<0, 0, 0>> =>
        LET id   == idcode[2] * 256 + idcode[3]
            hits == {i \in Rows : winbond_spi_flash_table[i].id = id}
        IN  IF hits = {}
            THEN ret = -1 /\ flash = NoFlash
            ELSE /\ \E i \in hits : hits = {i}
                 /\ ret = 0
                 /\ flash.params \in {winbond_spi_flash_table[i] : i \in hits}

(* The geometry the probe derives from the shift counts matches the part:  *)
(* the size is the capacity its name states, pages are 256 bytes (the      *)
(* page-program limit winbond_write splits at), and a sector is 4 KiB, the *)
(* unit the sector-erase opcode 20h stored in erase_cmd erases.            *)
ProbedGeometry ==
    ret = 0 =>
        \E i \in Rows :
            /\ winbond_spi_flash_table[i] = flash.params
            /\ flash.size * 8 = PartMbit[i] * 2 ^ 20
            /\ flash.page_size = 256
            /\ flash.sector_size = 4096
=============================================================================

# TLA+ models of the Winbond SPI NOR flash driver, inteltool's PCR/GPIO dump and the Skylake PCIe root-port fix-up

This directory models three pieces of the tree with TLC:

- `src/coreboot/src/drivers/spi/winbond.c`, the coreboot driver for Winbond
  W25P/W25X/W25Q serial NOR flash (spec.md calls it the "driver core");
- `src/coreboot/util/inteltool/pcr.c` and `gpio_groups.c`, the parts of the
  inteltool utility that reach the PCH's private configuration space through
  the P2SB bridge and dump its GPIO pad registers;
- `src/coreboot/src/soc/intel/skylake/chip_fsp20.c`, lines 43-180: the
  devicetree fix-up that `soc_init_pre_device` applies to the PCIe root
  ports after FSP silicon init.

The other source files in the tree are unrelated firmware (see *Not modelled*).

## The system

spec.md names three components. Each depends on the one before it.

| Component | Code | State and operations |
|---|---|---|
| Device Prober | `winbond_spi_flash_table`, `spi_flash_probe_winbond` (l. 38-47, 105-280, 669-704) | The static table. Probing is a first-match linear scan of `(idcode[1]<<8)\|idcode[2]`, then fills the caller's `struct spi_flash` (geometry from shift counts, opcodes, `driver_private`). |
| Programmer | `winbond_write` (l. 282-337) | A loop of chunks. Each chunk is cut at the page end and then by `spi_crop_chunk`. Per chunk the driver sends WREN, then PP with a 3-byte address, then `wait_ready`. The write aborts on the first error. |
| Protection Engine | register unions (l. 49-103), `winbond_bpbits_to_region`, `winbond_get/set_write_protection`, `winbond_flash_cmd_status` (l. 343-654) | Status registers SR1/SR2 on the part. A set encodes region → BP/TB/CMP (+SRP) as a mask/value pair. `cmd_status` reads SR1 and SR2 and returns 0 if the masked bits already match. Otherwise it sends WREN (06h, non-volatile) or 50h (volatile), then WRSR, waits tW (or tSHSL), reads both registers back, and returns -1 if they differ ("SREG is locked"). A get reads SR1 and SR2, decodes them, and tests whether the query region lies inside the protected region. |

The driver has no threads, and every call is synchronous. Two things about
this driver are hard to test.
- **The part is a second actor.** It finishes a program or a non-volatile
  status write some time after the command. It ignores commands while busy.
  It ignores WRSR while SRP1:SRP0 lock the register (01 with /WP low, 10 until
  power-down, 11 for good). A power cycle reloads SR from its non-volatile copy.
- **The SPI transport can fail.** A command can fail after it reached the
  part, and `wait_ready` can time out while the part is still busy.

The models therefore interleave the driver's bus commands with the part's
completions, with bus faults, with timeouts and with power cycles.

### inteltool: PCR access and GPIO dump

`inteltool` is a user-space program run once as root. It is sequential:
`main` calls `print_pcr_ports` (a list of PCR ports given with `-p`) and
`print_gpio_groups` (`-G`) and then `pcr_cleanup`. Both entry points first
call `pcr_init`, which
1. returns at once if `sbbar` is already mapped;
2. picks the P2SB's device and function from the LPC device id (a switch
   whose default exits with "Unknown LPC device.");
3. reveals the P2SB if the firmware hid it (it reads 0xffff), maps SBREG_BAR,
   hides the bridge again, and only then exits if the map failed.

`read_pcr32` asserts that `sbbar` is mapped. `print_pcr_port` dumps a port's
registers, folding runs of equal registers into a `*` line.
`print_gpio_community` reads the pad base (register 0x0c of the community's
port), rejects a base whose pads would run past the 64 KiB port, and walks
the groups, reading DW0/DW1 of each pad and naming its mode from the
group's `pad_names` table.

What is hard to test here:
- the hardware is the other actor. The bridge may be visible, hidden or
  absent; the map may fail; the pad base register may read anything;
- size_t arithmetic and the uint16_t offset of `read_pcr32` behave
  differently on 32-bit and 64-bit builds;
- the two switches (`pcr_init`'s and `print_gpio_groups`') must agree.

### Skylake PCIe root-port fix-up

`soc_init_pre_device` snapshots the ITSS IRQ polarities, runs FSP-S and
restores the polarities. It then calls
`pcie_override_devicetree_after_silicon_init`. That function reads the device
ID at D28:F0, masks it with `~0xf` and picks one of three tables (SKL/KBL
PCH-LP, KBL PCH-H, SKL PCH-H) of `{devfn0, func_count}` per PCI device. An
unknown ID returns at "[BUG]".

`pcie_update_device_tree` then works through each device in turn. It looks
up the devicetree node at function 0 and skips the device if there is none
or if function 0 reads all ones. Otherwise it searches functions 1 ..
func_count-1 for the first enabled node and swaps that node's devfn with the
function-0 node's devfn. Its comment gives the reason: FSP-S "might"
coalesce a device's ports to function 0 when the port at function 0 is
disabled.

The other actor is FSP-S, a binary outside the tree. It is modelled from
that comment. It disables the ports the devicetree disables. Where function 0
is disabled and a later port is enabled, it either leaves the ports in
place or moves the first enabled port to function 0.

## Modules

| Module | Models | Map |
|---|---|---|
| `WinbondTable` | The chip table as a sequence of records with the source field names, `FlashGeometry` (probe's shifts), `IdOf`, `ProbeIndex` (the scan). | l. 38-47, 105-280, 675-696 |
| `WinbondProbe` | `spi_flash_probe_winbond` as one action `Probe(id)`. The state is the response it got, the handle and the return value. | l. 669-704 |
| `WinbondCodec` | Pure operators. The register layouts with C bit-field truncation (`Reg1Bp3`, `Reg1Bp4`, `Reg2`, `StatusRegs`, register 1 in the low byte). `winbond_bpbits_to_region`. The setter's forward logic (`WpEncode`, `SizeEncodable`, `BpOf`). The mask/value pair (`WpMaskVal`). The merge and compare of `cmd_status`. `log2` is RECURSIVE. | l. 49-103, 343-360, 471, 483-484, 557-643 |
| `SpiFlashChip` | The part's status registers (environment, not repository code): `sr`, `srNV`, `wel`, `vwren`, `busy`, `pend`, `/WP`. Operators for WREN, 50h, WRSR, completion and power cycle. | — |
| `WinbondProtection` | `get`, `set` and `cmd_status`, one action per bus command: `CallSet`, `SetRdsr`, `SetRdsr2`, `SetWren`, `SetWrsr`, `SetWait`, `SetVrdsr`, `SetVrdsr2`, `CallGet`, `GetRdsr`, `GetRdsr2`. `Complete` and `PowerCycle` are environment steps. The guard of each action is the code's early return, and `Finish` records the return value. | l. 372-654 |
| `WinbondWrite` | `winbond_write`, one action per bus command: `CallWrite`, `WriteWren`, `WritePP`, `WriteWait`. `Complete` is the part finishing a program. The part records each run of bytes it programs as `[addr, len, src]`, where `src` is the byte's index in the caller's buffer. A run wraps within the page as the hardware does. | l. 282-337 |
| `WinbondWriteAbstract` | What a write call promises its caller: bytes of the call land at `offset + i` as a growing prefix, a call that returns 0 has written all `len` bytes, and a failed call may have written any prefix. `WinbondWrite` refines it. | — (the promise, not code) |
| `PcrDump` | `print_pcr_port`'s loop as a fold (`DumpStep`, `print_pcr_port`) over the port's registers, and `ReadBack`, the reference reader of a dump. | pcr.c l. 32-54 |
| `InteltoolPcr` | `pcr_init` as the steps `PcrInit`, `PcrReveal`, `PcrMap`, `PcrHide` (a subroutine with `pc` and `caller`), `print_pcr_ports`' loop (`CallPrintPcrPorts`, `PrintPcrPort`), `read_pcr32`'s assert (`PcrReadOk`) and `pcr_cleanup`. The bridge is `"visible"`, `"hidden"` or `"absent"`, and `p2sb_boot` records how the program found it. | pcr.c l. 24-159 |
| `GpioGroupsTable` | The static tables of gpio_groups.c. A group is the length of its `pad_names` array and its `func_count`, a community is its port id and groups, a chipset is its communities. Also `PadsBefore` (RECURSIVE), `CommunityPadCount` and `decode_pad_mode`, which returns the array index it reads or -1 for a literal. | gpio_groups.c l. 25-883 (the tables, `decode_pad_mode`) |
| `InteltoolGpio` | EXTENDS `InteltoolPcr` and `GpioGroupsTable`. `print_gpio_groups`' switch (`CallPrintGpioGroups`), `print_gpio_community` (`PrintGpioCommunity`) and `print_gpio_group` (`PrintGpioGroup`). It keeps `pad_cfg` as a size_t of `SizeBits` bits. | gpio_groups.c l. 856-929, pcr.c l. 26 |
| `SkylakePcieRp` | The fix-up. State:<br>• `node`: the devfn each devicetree node claims, keyed by its reset devfn;<br>• `on`: the enabled nodes;<br>• `hw`: which port answers at each function after FSP-S;<br>• `sku` and `stage`.<br>Code:<br>• the three tables, and `Layout`, the hardware of each SKU taken from the "table 2-2" comments;<br>• `dev_find_slot`, `SwapFirstEnabled` (the inner loop, RECURSIVE), `UpdateGroup`, `pcie_update_device_tree` (a fold over the table), `IdMask` and `pcie_override_devicetree_after_silicon_init`.<br>One action, `SocInitPreDevice`, models the whole handler. The FSP-S choice (`FspPlacement`) is its environment. | chip_fsp20.c l. 43-180 |
| `MCWinbond*`, `MCInteltoolGpio`, `MCSkylakePcieRp` | Instances for TLC: the chip table rows used, the regions, the init images, the requests and the bounds. | — |

The call locals of `WinbondProtection` are: the arguments, the mask/value
pair, `cmdbuf.sreg` (or `reg1` for a get), and whether WRSR was sent. They are
reset when a call returns, so that states differ only in what the code keeps.
History variables record what a correct driver would guarantee:
- `expect` is the last successful set, invalidated by anything that may have
  changed the register since.
- `claimed` is the last set that returned 0.
- `durable` is the last non-volatile set that returned 0.
- `orphan` says a status write is in flight after its call returned.

Return codes: in C, an early rejection and a failed verification both return
-1. The model splits them into `EINVAL` and `ELOCK` so that properties can
name them. `EIO` and `ETIMEDOUT` stand for the transport's errors.

## Runs

| Run | Module / cfg | Expect | What it shows |
|---|---|---|---|
| `codec` | MCWinbondCodec | pass | The probe composed with the codec. The probe step takes every one of the 65536 device ids after the Winbond manufacturer byte, and for a part it identified a region is chosen. For all 19 table rows and every anchored candidate region (0, 2^i, F−2^i, 3·2^i, 5·2^i, each at the bottom and at the top, plus one floating region), the setter's bits, packed into the register layout and decoded, give back the region. Every region the hardware can express is accepted. The probe properties hold for each answer. For the 3- and 4-bit BP rows every BP/TB/CMP setting decodes to a region that re-encodes to a setting with the same decoding (`DecodedReEncodes`). 68788 states. |
| `decode_bpzero` | MCWinbondDecode | violation | spec §3's "BP = 0 means no protection" fails for CMP = 1. Finding 2. |
| `protect` | MCWinbondProtectionParts | pass | Both status-register layouts, with the part fixed at power-up. The W25Q16 (3-bit BP, SEC) may have one bus fault and one timeout. The W25Q256 (4-bit BP) may have one timeout and one power cycle. Each makes 3 calls. `QueryReflectsLastSet` and `Idempotent` hold. 1.36M states, about 2 min 15 s. |
| `protect_set_then_query` | MCWinbondProtection_setquery | violation | spec §8's set-then-query consistency fails after an orphaned status write. Finding 3. |
| `protect_nv_persist` | MCWinbondProtection_nvpersist | violation | A non-volatile set can be lost at power-down. Finding 4. |
| `write` | MCWinbondWrite | pass | W25Q16 with 256-byte pages and a transport limit of 64 bytes minus the 4-byte command. The requests start mid-page (100+300, 200+100), end one byte before a page end (255+2), or are empty. One bus fault and one timeout are allowed. `WriteCommitsExactly`, `WriteReturns` and `WriteRefinesAbstract` hold for one call. |
| `write_retry` | MCWinbondWrite_retry | violation | A write following a timed-out write loses its first chunk and still returns 0. Finding 6. |
| `write_high` | MCWinbondWrite_high | violation | W25Q256 write at 16 MiB+200 lands at 200. Finding 5. |
| `inteltool_gpio` | MCInteltoolGpio | pass | Twelve LPC ids (all nine with GPIO tables, Apollo Lake, an H110 with no GPIO table, an unknown id), a bridge visible, hidden or absent, map success or failure, four pad bases per community, one port of 5 registers over {0,1,2}, 64-bit size_t. `-p` and `-G` in either order. 458307 states, 40 s. |
| `inteltool_gpio_size32` | MCInteltoolGpio_size32 | violation | The same on a 32-bit build: a pad base of 0xffffffff wraps past the check and the walk reads at the wrong offsets. Finding 7. |
| `skl_pcie` | MCSkylakePcieRp | pass | All three PCH SKUs, each PCI device in one of seven devicetree shapes, and both FSP-S choices. `NodesStayInDevice` and `SwappedPortsFollowHardware` hold. 3518 states. |
| `skl_pcie_follow` | MCSkylakePcieRp_follow | violation | Every device has a node at function 0 and some port enabled. Two enabled ports of one device, function 0 among them, are swapped anyway. Finding 8. |

### Properties

- `EncodeDecodeRoundTrip` / `EncoderComplete` (codec). The encoder and
  decoder agree through the real bit layout, and the setter rejects only what
  no BP/TB/CMP setting expresses.
- `DecodedReEncodes` (codec). Spec §8 promises a round trip, and this is
  the part of it the code can keep, since settings alias. Every decoded region
  lies inside the flash, and re-encoding it gives a setting that decodes to
  the same region.
- `QueryReflectsLastSet` (protection). Once a set returned 0, a query answers
  as if exactly that region were protected. This lasts until something that
  may change the register happens: a failed call that sent WRSR, a power cycle,
  or an orphaned write landing. Sets started while an orphan was in flight are
  left out; the `protect_set_then_query` run shows why. The property catches
  a dropped verification, register-layout errors and encoder/decoder
  mismatches.
- `GetRdsr`'s failed read. After a failed RDSR the code tests SEC on a
  `reg1` that is still 0 or partly filled, before it tests the return code.
  The model lets SEC be either value, so the call returns -1 or the
  transport error. If the return-code test is dropped, a get decodes the
  unfilled register, and `QueryReflectsLastSet` catches that.
- `Idempotent` (action property). WRSR is never sent for a set whose success
  is still current.
- `WriteCommitsExactly`. Every programmed byte sits at `offset + index` after
  page wrap and the 3-byte address. A write that returned 0 programmed all
  `len` bytes.
- `WriteReturns` (liveness). Every write call returns.
- `WriteRefinesAbstract` (refinement). `WinbondWrite` implements
  `WinbondWriteAbstract` under the mapping `active <- pc # "Idle"`,
  `written <- Bytes(programmed)`. `Bytes` expands each programmed run into
  its bytes. It checks that the programmed bytes always form a prefix of the
  call's buffer, also while a failed call's last chunk is still
  programming, and that a return of 0 comes only after the last byte.
- `NoAssertFailure` (inteltool). `read_pcr32`'s `assert(sbbar)` never
  fires: both dump paths reach register reads only through a `pcr_init` that
  mapped the BAR or exited.
- `P2sbRestored`. Outside the reveal-map-hide window the bridge is as the
  program found it. This includes the exit on a failed map, which `pcr_init`
  defers past the re-hide.
- `GpioChipsetKnownToPcr`. Every chipset `print_gpio_groups` has tables for
  is one `pcr_init` knows, so the GPIO dump never ends in "Unknown LPC
  device.".
- `PadReadsInPort`. Every DW0/DW1 read is the register the walk means
  (`base + 8·pad (+4)`), inside the port, with nothing lost to the size_t
  sums or the uint16_t offset.
- `PadNamesInArray`. `decode_pad_mode` and the name column index only inside
  the group's `pad_names` array, for all eight DW0 modes.
- `DumpReadsBack`. From `print_pcr_port`'s output every register of the
  port can be recovered, the ones folded into `*` runs included.
- `ProbeIdentifiesPart`. The probe succeeds exactly for table ids, exactly
  one row carries each id, and a miss leaves the handle untouched.
- `ProbedGeometry`. Size equals the Mbit capacity in the part's name, pages
  are 256 bytes, and sectors are 4 KiB (the unit erase opcode 20h erases).
- `NodesStayInDevice` (Skylake). The fix-up only trades devfns between
  functions of one PCI device, and no two nodes end on the same devfn. A
  loop that ran one function too far, or a swap that moved only one node,
  would break it.
- `SwappedPortsFollowHardware` (Skylake). Take a device whose function-0
  node exists but is disabled, whose function 0 answers after FSP-S, and on
  a board whose PCH ID was recognised. Every enabled node of that device
  then claims the function where its own port answers. This is the case the
  code's comment is written for. It needs the ID mask to strip every
  function bit, because D28:F0 may answer with a later port's ID.
- `PortsFollowHardware` (violation run). The same promise for every
  enabled node, with no condition. The run restricts the devicetree to
  shapes with a function-0 node on every device and an enabled D28 port, so
  that its counterexample is finding 8 alone. The other two ways the
  promise fails (a device with no function-0 node is skipped at l. 101, and
  an all-disabled D28 makes the PCH unrecognised at l. 159) are listed as
  hazards with no checking run.
- `TypeOK`, one per module where a mutant can break it.
  - Protection: the value handed to `cmd_status` has no bit outside its mask.
  - Write: `actual` never exceeds `len`.
  - Codec: accepted encodings are well-typed.
  - Skylake: every devfn fits in 8 bits.

Every property of a passing run has a mutant in PROJECT.json. A mutant is a
faulty variant, defined just before the operator it replaces (`ChunkLenNoPage`,
`SetVrdsr2NoVerify`, `Reg1Bp4Narrow`, …), and TLC finds the property violated
under it.

### Bounds and why they suffice

- **Protection.** 3 calls is enough for set → set → get, the shortest pattern
  of every race found. One fault (W25Q16) or one power cycle (W25Q256) suffices
  because each race needs only one. Regions:
  - one unit at the bottom (BP = 1);
  - the top three quarters (complement);
  - the whole flash (BP = 0 with CMP);
  - three units (rejected).
- **Protection init images.** BP ∈ {0,1}, SEC ∈ {0,1}, SRP0 ∈ {0,1}, /WP
  free, and QE = 1. This lets the lock, the unsupported SEC bit and bits
  outside the mask all occur.
- **Modes.** PRESERVE and REBOOT. REBOOT writes both SRP bits and locks
  until the next power cycle.
- **Write.** The requests hit every branch of the chunk computation:
  - page remainder smaller than the transport limit;
  - transport limit smaller than the page remainder;
  - a one-byte chunk;
  - `len = 0`.
- **Probe.** Exhaustive over the 16-bit id.
- **inteltool.** size_t values reach 2^64, and TLC integers stop at 2^31.
  A size_t is therefore held as `Wide(q, r)` = q·2^16 + r. Every sum adds
  less than 2^16 to a 32-bit register value, so a 64-bit value never wraps,
  and `SizeT` drops q's high half on a 32-bit build. The pad bases per
  community are:
  - a normal base (0x400);
  - the largest base the check accepts (PORT − 8n);
  - the first it must reject (PORT − 8n + 8);
  - all ones (a read of absent hardware).

  These are the boundary and the wrap cases. One port of 5 registers over
  {0,1,2} covers runs at the start, in the middle and at the end of a port,
  and a first register equal to the initial `last_reg` of 0. The LPC ids
  are all nine that `print_gpio_groups` has GPIO tables for (B150, CM236,
  the six Sunrise Point-LP ids, Denverton), plus Apollo Lake, an H110 with
  no GPIO table and an unknown id. A label lost from either switch for any
  GPIO id shows up.
- **Skylake.** Each PCI device takes one of seven shapes:
  - every port disabled;
  - function 0 alone enabled;
  - functions 0 and 2 enabled;
  - functions 1 and 3 enabled;
  - function 2 alone enabled;
  - the last function alone enabled;
  - no node at function 0 and function 2 enabled.

  These cover a first enabled port at function 1, in the middle and at the
  loop's last index. They also cover a second enabled port after the first,
  a device skipped for a missing node, and an all-disabled D28 that makes
  the ID read 0xffff. All SKUs and all combinations are enumerated.
- **Codec.** Exhaustive over the table, with all power-of-two sizes and
  their neighbours.

### Fairness and deadlock

`WriteReturns` assumes weak fairness on the driver's steps and on the part's
`Complete`. The driver is a synchronous loop, so it always takes its next
step. The part finishes programming within tPP, and the bounded fault and
timeout counters end any retry. `wait_ready` is modelled as one step that
either sees not-busy or times out, so it cannot spin.

The protection and write runs use `CHECK_DEADLOCK FALSE`, because the caller
stops after `MaxCalls`. The codec run and the inteltool run use it too, because a probe
is a single call and inteltool exits. The Skylake runs use it because `soc_init_pre_device` runs once per boot.
Within a call, some step is always enabled: a `BusOk` branch, or
`Complete` while the part is busy.

## Findings

1. **spec gap** (l. 351). BP values saturate and CMP forms alias, so the
   codec is not the bijection spec §8 states. Example: W25Q16 BP=5, CMP=1
   re-encodes with CMP=0 and the other TB. No run is kept for this gap,
   because it shows a mismatch of wording rather than a fault. The codec
   run checks, as `DecodedReEncodes`, what the round trip can promise.
2. **spec/code divergence** (l. 353). BP = 0 with CMP = 1 protects the whole
   flash, and the setter produces it for a full-flash region. Spec §3 says
   BP = 0 is "no protection".
3. **code bug** (l. 459-472). `cmd_status` does not wait for BUSY before
   reading SR1/SR2.
   1. An earlier WRSR that failed on the bus after reaching the part, or that
      timed out, can land between the two reads.
   2. The torn image matches the mask, so the set returns 0 without writing.
   3. The next query then disagrees with it.
4. **code bug** (l. 471). The short-circuit compares the volatile register.
   A volatile set(R) followed by a non-volatile set(R) returns 0 without
   writing the non-volatile copy, so the protection is gone after a power
   cycle. This contradicts "non_volatile: Make setting permanent" (l. 440,
   540).
5. **code bug** (l. 300-302). PP always sends 3 address bytes. On the 32 MiB
   W25Q256 entries, writes at or above 16 MiB land 16 MiB lower.
6. **code bug** (l. 309-322). `winbond_write` does not check BUSY either.
   1. After a timed-out write, the next write's WREN and PP are ignored by
      the busy part.
   2. Its `wait_ready` sees the old program finish.
   3. It returns 0 with its first chunk missing.

7. **code bug** (gpio_groups.c l. 887). `print_gpio_community` checks
   `pad_cfg + pad_count * 8 > PCR_PORT_SIZE` in size_t.
   1. On a 32-bit build a pad base of 0xffffffff, which is what a read of
      absent or hidden hardware returns, wraps the sum to a small number.
   2. The base passes the check.
   3. The walk then reads the two words of each pad at `(u16)(base + 8·pad)`
      and 4 past it: offsets 0xffff, 0x3, 0x7, … of the port, not the pad
      registers.

   The same build with a 64-bit size_t rejects the base.

8. **spec/code divergence** (chip_fsp20.c l. 105). The comment says
   function 0's devfn is swapped "if the PCIe root port at function 0 is
   disabled". The code never tests `func0->enabled`. It only tests that
   function 0 answers in config space.
   1. On SPT-LP, D29:F0 and D29:F2 are both enabled, so FSP-S has no
      reason to move a port.
   2. The fix-up still moves the F0 node to D29:F2 and the F2 node to
      D29:F0.
   3. Each enabled node now claims the other's port.

   FSP-S is modelled from the comment. Its actual placement is outside the
   tree.

## Not modelled

- **The rest of chip_fsp20.c.** `platform_fsp_silicon_init_params_cb`
  (l. 228-490) copies devicetree fields into FSP UPD fields, one per line,
  and a property could only restate an assignment. Its unchecked
  `dev_find_slot` results (l. 420-427) would need a devicetree without the
  SPI or USB OTG node, which no Skylake board has. The ITSS IRQ polarity
  snapshot/restore is part of `SocInitPreDevice` only through its net
  effect, which leaves the polarities unchanged.
- **S3 detection and the x200 romstage** (`southbridge_detect_s3_resume`,
  `mainboard_romstage_entry`). The code is short, but its outcome rests on
  hardware behaviour that is not in the tree:
  - what sets GEN_PMCON_3 bit 9;
  - whether MCHBAR SSKPD survives each kind of reset;
  - what `raminit` does to DRAM in self-refresh;
  - what `cbmem_recovery` returns.

  A model would check those assumptions more than the code. The project's
  12 runs are also all in use.
- **stoneyridge `cpu.c`.** This is glue around `mp_init_with_smm`, which
  is outside the tree, plus a PSP MSR that is written once when it reads 0.
  A property could only restate that guard.
- **Other board, SoC and chipset sources** (romstage S3 detection, DRAM training,
  board GPIO tables, the WiFi and Cr50 drivers): these are out of scope per
  spec §1 and have no coupling to the driver. Most are straight-line
  register programming with no state a property could relate.
- **The rest of inteltool.** The other dumps (`memory.c`, `gpio.c`, …) are
  not in the tree. The PCI library, `map_physical` and the register values
  are the environment. The bridge, the map result and the register reads are
  chosen freely.
- **Parts without BP support.** The W25P and W25X parts of the table have no
  BP field (`bp_bits` 0). For them the getter and setter return -1 before
  any bus command (l. 401-404, l. 566-569). The protect run models one
  3-bit and one 4-bit part, so that guard is not exercised.
- **Erase and read** (`spi_flash_cmd_erase`, `spi_flash_cmd_read_*`): generic
  code outside src/, and a spec non-goal.
- **The transport itself.**
  - Each bus command is a step that succeeds or fails, where a failed command
    may or may not have reached the part.
  - `spi_crop_chunk` is modelled from its interface with `max_xfer_size > 0`.
- **Data bytes.** They are abstracted to their buffer index.
- **Big-endian builds.** `cmdbuf` would be sent byte-swapped; every target
  in the tree is little-endian.

## Plan for later sittings

The project keeps at most 12 runs, and all 12 are in use. New questions
must share a run with an existing one. The probe shares the codec run, and
both protection layouts share the protect run.

1. **An abstract protection register** (set/get as atomic operations on a
   region), refined by `WinbondProtection` for calls that start with the part
   idle.
2. **A composed flash module.** Probe feeds its handle to the write and
   protection steps of one caller, and a write into a protected region is
   silently ignored by the part.
3. **More modes and bounds.** The PIN/PERMANENT modes with /WP toggling, and
   `MaxCalls = 2` in the write run with the refinement (finding 6 shows it
   would fail across calls after a timeout).
4. **Boot-path code.** `southbridge_detect_s3_resume` and the x200 romstage
   S3 path across a reset, if a run can be shared.
5. **Skylake FSP-S variants.** Compacting all enabled ports (not only the
   first) and the KBL-H D27 numbering, inside the `skl_pcie` run.

# TLA+ models of selected NuttX components

This directory holds TLA+ models of parts of the sources under `src/`. TLC
model-checks the models, and the models are written from the C code. Each
module's header comment names the functions it models. `PROJECT.json` maps
every definition to the C lines it translates.

## The system's parts (inventory)

| Part | Source | State that changes | Status |
|---|---|---|---|
| ARP table | `src/net/arp/arp_table.c` | `g_arptable[]` slots (ip, MAC, device, `at_time`) and netlink neighbour notifications | modelled (`ArpTable`, `ArpCache`) |
| Block-device output stream | `src/libs/libc/stream/lib_blkoutstream.c` | sector cache, `nput` cursor and the device's sectors | modelled (`BlkOutStream`, `ByteStream`) |
| STM32H5 serial: interrupt mask, suspend/resume, PM, break | `src/arch/arm/src/stm32h5/stm32_serial.c` | `priv->ie`, the mask saved by `up_putc`, `suspended_ie`, `BREAK_INPROGRESS`, ISR.ORE, the attached handler, `initialized` | partly modelled (`SerialIntMask`) |
| STM32H5 serial: RX DMA and input flow control | same file | the DMA write position, `rxdmanext`, `rxfifo`, `rxenable`, `rxdmasusp`, `initialized`, `suspended` | partly modelled (`SerialRxDma`) |
| STM32H5 serial: setup, format and ioctl registers | same file | `priv->baud`, parity, stop bits, flow control; BRR, PRESC, CR1-CR3 | partly modelled (`SerialFormat`, checked in `SerialRxDma`): the arithmetic and the termios translation, not the register write order |
| Scheduler note declarations | `src/include/nuttx/sched_note.h` | none: types and macros | not modelled: compile-time macros that share no state with the modelled parts (overflow hazard at line 180; see below) |
| Allocation macros | `src/include/nuttx/lib/lib.h` | none | not modelled |
| Unique ID, TWAI header, board bring-up, SPI chip select | `stm32_uid.c`, `esp32s2_twai.h`, `sam_appinit.c`, `stm32_boot.c`, `esp32s2_bringup.c`, `stm32_spi.c` | boot-time register and GPIO writes | not modelled: straight-line I/O with no state to check |

### How the parts interact

- **ARP table.**
  - The network stack calls it with the network lock held, so each call is one atomic step. The model therefore treats each call as one action.
  - `arp_update` and `arp_delete` send netlink `RTM_NEWNEIGH` and `RTM_DELNEIGH` messages.
  - Their effect on a listener is the model variable `neigh`.
- **Serial driver.** Its interrupt handler, DMA callback, PM callbacks and the upper-half calls interleave, guarded only by `enter_critical_section` or `spin_lock_irqsave`. That is where its hazards lie.
- **Block output stream.** It is sequential. Its hazards are partial failures and cursor arithmetic.

## Modules

### `ArpCache`: the abstract specification of the ARP table

- **State.**
  - A map from (ip, device) keys to a MAC and the real time the key was last written. The map holds at most `Capacity` keys.
  - The real time, `clock`.
- **Actions.**
  - `Write` refreshes a cached key. If the key is not cached, `Write` inserts it; when the cache is full, it first drops a key with the oldest write.
  - `Delete` drops one key.
  - `Purge` drops every key of a device.
  - `Tick` advances the clock.
- **`Resolve`.** This is what a lookup may answer. With the expiry check, it answers only from keys written at most `MaxAge` ago.

### `ArpTable`: `arp_table.c`

**State.**

| Variable | Corresponds to |
|---|---|
| `tab` | `g_arptable` as a function from slot to an `[ipaddr, ethaddr, dev, born]` record. `born` is the real time of the write; the C field `at_time` is `born % 2^TickBits` (`AtTime`). |
| `clock` | real time. `clock_systime_ticks()` is `clock % 2^TickBits` (`Ticks`). |
| `neigh` | a netlink listener's view, built from the `RTM_NEWNEIGH`/`RTM_DELNEIGH` messages. |
| `unannounced` | a ghost set: the keys `arp_cleanup` removed without a message. |

**Actions.** There is one action per function, and each models the whole function.

| Action | Function | What it does |
|---|---|---|
| `ArpUpdate` | `arp_update` | Runs the scan loop (`UpdateScan`, recursive, with the early `break` and `arp_return_old_entry`), then the NULL-to-zero MAC rule, the `RTM_DELNEIGH` for an evicted entry, the overwrite, and the `RTM_NEWNEIGH` when `new_entry` holds. |
| `ArpHdrUpdate` | `arp_hdr_update` | Converts the address with `net_ip4addr_conv32` (`Conv32`) and calls `arp_update`. |
| `ArpDelete` | `arp_delete` | Only when `arp_lookup` finds the entry; otherwise the call returns `-ENOENT` and changes nothing. |
| `ArpCleanup` | `arp_cleanup` | `memset` of every slot of the device. |
| `Tick` | the clock | Advances `clock`. |

**Read-only operators.**
- `ArpLookup` and `ArpFind`. `ArpFind` includes the `arp_match` fallback to a local Ethernet device's own address.
- `ArpSnapshot`, with its loop as `SnapshotLoop`.
- `ArpReturnOldEntry`, which models the `(int)` difference through `SignedDiff` with an `IntBits`-bit `int`.

**Refinement.**
- `ArpTable` implements `ArpCache` under the mapping `CacheView`: bound slots become keys, `ethaddr` becomes the MAC, and `born` becomes the write time.
- The clock maps to itself.

### `ByteStream`: the abstract specification of the block output stream

- **State.** The device content as the caller sees it, the write position, and whether the stream is open.
- **`Write`.** Stores the bytes at the position and advances it. A write past the end of the device stores only a prefix, one that fits.
- **`Fail`.** A call the driver failed. It may change only the bytes the call was given, and it may advance the position over them.
- **`Seek`.** Moves the position.
- **`Open` and `Close`.** `Close` keeps the content.

### `BlkOutStream`: `lib_blkoutstream.c`

**State.**

| Variable | Corresponds to |
|---|---|
| `nput` | `self->nput` |
| `cache` | the one-sector `stream->cache` |
| `disk` | the block device's bytes |
| `opened` | whether the cache and inode are held |

**Actions.**

| Action | Function | What it models |
|---|---|---|
| `Puts` | `blkoutstream_puts` | The whole `while` loop, as the recursive `PutsLoop` over `PutsStep`, including all three branches: fill the partly written sector, read back and copy a short tail, write whole sectors directly. |
| `PutC` | `blkoutstream_putc` | A one-byte `puts`. |
| `Seek` | `blkoutstream_seek` | `whence`, the range test, the same-sector shortcut, the write-back of the dirty sector, and the read-back of the target sector. |
| `Flush` | `blkoutstream_flush` | Writes the cache when `nput` is inside a sector. |
| `Close` | `lib_blkoutstream_close` | Flushes, ignoring the result, then frees the cache. |
| `Open` | `lib_blkoutstream_open` | Zeroes the stream and allocates a new, uninitialised cache. |

**The driver.**
- It is modelled from the block-driver contract, not from `src/`.
- Requests move whole sectors.
- A request for sectors past `geo_nsectors` fails.
- With `Faulty`, any one request of a call may fail; the fault number picks which.
- A failed read leaves the buffer as it was.

**Refinement.**
- `View` is the disk with the cache laid over the sector of `nput` while that sector is partly written.
- `View` is mapped to `content`, and `nput` is mapped to `pos`.

### `SerialIntMask`: the interrupt mask of `stm32_serial.c`

**State.**

| Variable | Corresponds to |
|---|---|
| `ie` | `priv->ie`. Its bits are `RXNEIE`, `TXEIE` and `BRK`; `BRK` is `USART_CR1_IE_BREAK_INPROGRESS`, which is never written to hardware. |
| `hw` | the CR1/CR3 enables. |
| `suspended`, `suspie` | `priv->suspended`, `priv->suspended_ie`. |
| `pc`, `putcie`, `putcn` | where `up_putc` is, its saved mask, and the characters it has still to write. |
| `tdrFull`, `rxpend` | the TXE/RXNE status. |
| `written`, `sent`, `arrived`, `rxbuf` | ghost counters for bytes queued, moved to TDR, arrived, and in the receive buffer. |
| `rxwant`, `txwant`, `brk` | what the upper half last asked for; `rxflowcontrol`'s `uart_disablerxint` and `uart_enablerxint` count as such requests. |
| `throttled` | a ghost: `rxflowcontrol` disabled the RX interrupt for a full buffer, and no `rxint` call came since. |
| `ore` | ISR.ORE, the overrun flag. |
| `irq` | whether `attach` has attached the handler and enabled the IRQ. |
| `initialized`, `opens` | `priv->initialized`, and a bound on the closes. |
| `taken`, `flushed` | ghost counters for bytes `uart_read` returned and bytes a close discarded from the receive buffer. |

**Actions.**
- **Upper half** (`serial.c`, modelled from its contract):
  - `UartWrite` queues a byte and calls `txint(true)`;
  - `RxInt` is `rxint`;
  - `UartRead`;
  - `TiocSBrk`/`TiocCBrk` are the BSD break ioctls.
- **Driver routines.** They are functions of a record of the state, so that calls compose as in the C:
  - `SetUsartInt`;
  - `TxIntOn`/`TxIntOff`, which are `txint`;
  - `XmitChars`.
- **Hardware:** `Arrive`, `Shift`, `Overrun` (a byte arrives while RDR is still full and is lost, setting ORE), and `Isr`, which is `stm32serial_interrupt`.
  - `Isr` is enabled while `IrqPending` holds: RXNEIE with RXNE or ORE, or TXEIE with TDR empty.
  - It serves RXNE when RXNEIE is set, or clears ORE in its `else` branch (`ErrorBranch`, line 2451), then transmits.
  - Serving RXNE is `uart_recvchars`. When the receive buffer (`RxBufSize` bytes) is full, it first asks `rxflowcontrol(upper)` (`RxFlowControlUpper`, lines 3033-3053). With `priv->iflow` that disables RXNEIE and leaves the byte in RDR. Otherwise `stm32serial_receive` reads RDR (`Receive`), and the byte is stored, or discarded when the buffer is full.
- **Input flow control** (`conf.iflow`, the variant without watermarks): `UartRead` that reads the buffer empty calls `rxflowcontrol(0, false)` (`RxFlowControlLower`), which enables RXNEIE again. With RTSE, nRTS holds the sender off while RDR is full, so `Overrun` cannot happen on such a port.
- **Open and close** (`uart_open`/`uart_close` of `serial.c`, modelled from their contract):
  - `Open` calls `setup` (skipped for the console), `attach` and `rxint(true)`;
  - `Close` calls `rxint(false)`, waits for the drain, then `detach` and `shutdown` (skipped for the console) in one step, because `uart_close` holds the critical section around them.
  - Upper-half calls need the handler attached (`UpperMay`); `UpperCtx` says when the upper half may run at all.
  - `Suspend` needs `initialized`, as `pmprepare` skips ports that are not.
- **`up_putc`** is `PutcBegin` (`disableusartint`), then, for a `'\n'`, `PutcCr` (`arm_lowputc('\r')`), then `PutcEnd` (`arm_lowputc`, then `restoreusartint`). These are separate steps because the characters are written with interrupts enabled.
- `RestoreUsartInt` is `setusartint` under the port's spinlock; every caller that uses it (`txint`, `rxint`, `up_putc`, resume) is one step.
- **PM:** `Suspend` is `pmprepare` plus `pmnotify(STANDBY)` and `setsuspend(true)`; `Resume` is `setsuspend(false)`.
- **`Interleave`** says whether upper-half calls (and `up_putc`) may run inside `up_putc`'s window or during a suspension.
  - PM changes state from the idle thread, so never while a task is inside `up_putc`.

### `SerialRxDma`: receive DMA and input flow control of `stm32_serial.c`

It models the `g_uart_dma_ops` port: `dmasetup` and `dmashutdown` (with `setup` and `shutdown`) under `uart_open` and `uart_close`, `dmareceive`, `dmarxavailable`, `dmareenable`, `dmaiflowrestart`, `dmarxint`, `rxflowcontrol` (the non-watermark `CONFIG_SERIAL_IFLOWCONTROL` variant), `dmarxcallback`, and the DMA half of `setsuspend`, `pmprepare` and `pmnotify`.

**State.**

| Variable | Corresponds to |
|---|---|
| `fifo`, `ndtr` | `rxfifo` and the channel's write position, `stm32serial_dmanextrx` |
| `dmaon` | the channel is started |
| `rxdmanext`, `rxenable`, `rxdmasusp` | the `priv` fields of the same names |
| `recv` | the upper half's receive ring, holding at most `RecvSize - 1` bytes |
| `sent`, `nread` | ghost counters: bytes the line sent, bytes handed to the application |
| `pm`, `pms` | where PM is (`normal`, `prepared`, `standby`), and standby attempts |
| `initialized`, `suspended` | `priv->initialized` (the port is open; `priv->rxdma` is allocated exactly then) and `priv->suspended` |
| `opens` | reopenings after a close |
| `port` | the port's configuration, chosen in `Init` and never changed |

**Configuration.** `port` is a record, so one run covers several configurations:
- `iflow` is `priv->iflow`;
- `circular` says the channel reloads at the end of `rxfifo` (what `serial_rxdmacfg` programs). Otherwise it stops there, and RTS stops the sender;
- `pmwindow` says the line may send between `pmprepare` and `pmnotify`;
- `lpuart`, `apbclock`, `baud`, `bits`, `cts` and `rts` are `priv->islpuart`, `priv->apbclock`, `priv->baud`, `priv->bits` and whether the CTS and RTS pins are set. Only the `SerialFormat` properties read them.

**Actions.**
- `Arrive` is the line and the channel. The line is paced by RTS when `iflow` is set, and otherwise by a window ahead of the reader.
- `Callback` is the DMA half/full interrupt or `stm32_serial_dma_poll`, running `dmarxcallback` and `uart_recvchars` (the recursive `RecvChars`).
- `UartRead` takes one byte. An emptied ring calls `rxflowcontrol(false)`.
- `Open` is `uart_open` of a closed port: the ring is emptied, then `dmasetup` restarts the channel at `rxfifo[0]`, then `dmarxint(true)`. `Close` is `uart_close`: `dmarxint(false)`, then `dmashutdown`; the bytes not yet read are discarded. Both run only while PM is normal (see the hazards).
- `PmPrepare`, `PmAbort`, `PmSuspend` and `PmResume` are the PM callbacks. Like `pm_setsuspend` and `pmprepare`, they skip a closed port, and they skip a port that is already suspended. `Callback` needs an open port, because `stm32_serial_dma_poll` tests `rxdma`.

**Properties.**
- `DeliveredInOrder` and `RxDelivered` are about the bytes.
- `Over8Encoding`, `LpuartPrescaler` and `TermiosRoundTrip` apply `SerialFormat` to the port's clock, rate and pins.

### `SerialFormat`: `setformat` and the termios ioctls

This module holds pure operators, with no variables:
- `Usartdiv8`, `UseOver8` and `UsartBrr` compute the USART divisor;
- `LpuartPresc` is the LPUART prescaler's else-if chain;
- `FrameBits` gives the CR1/CR2/CR3 frame bits;
- `TcSetsValid`, `TcSets` and `TcGets` are the `TCSETS` and `TCGETS` cases of `stm32serial_ioctl`.

`&`, `|` and `>>` come from the community `Bitwise` module. Each operator is checked against a reference taken from the reference manual:
- `Over8Divisor`: how the USART reads BRR with OVER8 set;
- `PrescDiv`: the PRESC encodings;
- `DataBits`: the word length selected by M1:M0 and PCE.

### Planned modules, in order

1. `TCSETS` as a two-step read-modify-write of CR1 in `SerialIntMask`. This would expose the lost-`TXEIE` hazard at line 1571. Its check is a violation of `TxDelivered`, so it needs a run of its own.

## Runs

| Run | Config | Expect | What it shows |
|---|---|---|---|
| `arp_table` | `MC_ArpTable.cfg` | pass | With a clock that never wraps in the run, the table keeps at most one slot per (ip, dev) (`NoDuplicateBinding`). The netlink view agrees with the table except for keys dropped by `arp_cleanup` (`NeighViewMatchesTable`). `arp_find` (`FindAgreesWithCache`) and `arp_snapshot` (`SnapshotAgreesWithCache`) answer as the abstract cache does. The whole behaviour implements `ArpCache` (`CacheRefinement`): evictions take the least recently written entry. |
| `arp_expiry_wrap` | `MC_ArpWrap.cfg` | violation | With a 2-bit `clock_t`, an entry written at tick 0 is returned as fresh at real time 4. The unsigned age test at line 221 wraps (finding). |
| `arp_evict_wrap` | `MC_ArpEvictWrap.cfg` | violation | With a 3-bit `clock_t` and a 2-bit `int`, slot 0 rewritten at tick 2 and slot 1 written at tick 0 give `(int)(2 - 0)`: 2 is `10` in binary, which is -2 as a 2-bit `int`, so the test `<= 0` holds and `arp_update` evicts slot 0, the newer entry (finding at line 170). |

| `blkout_stream` | `MC_BlkOutStream.cfg` | pass | With a reliable driver, the stream implements `ByteStream` (`StreamRefinement`). `TypeOK` shows that `nput` never leaves `0..streamsize`. |
| `blkout_seek_loss` | `MC_BlkSeekLoss.cfg` | violation | `puts` of one byte at 0, then `SEEK_SET 0`. The same-sector shortcut (line 103) makes `nput` sector-aligned, so the byte in the cache is never written (finding). |
| `blkout_fault_loss` | `MC_BlkFault.cfg` | violation | `puts` of one byte, then a second `puts` whose sector write fails. `nput` has already moved to the sector boundary (line 163), so the first, accepted byte is lost (finding). |

| `serial_int_mask` | `MC_SerialIntMask.cfg` | pass | Four port configurations in one run: BSD breaks without `up_putc` or PM; the console with `up_putc` and two suspend/resume cycles; a PM port that is closed and reopened; and the console with PM and input flow control. Received bytes may be lost to overrun. No byte reaches TDR during a break (`NoTxDuringBreak`). Once breaks stop, every queued byte is transmitted (`TxDelivered`). A received byte is eventually served while the receiver stays enabled and the port is not suspended (`RxServed`). The mask returns to what the upper half asked for (`MaskMatchesUpperHalf`). An interrupt the USART requests is always eventually no longer requested, so the handler cannot storm (`NoInterruptStorm`); the mutant that drops the ORE-clearing `else` branch breaks it. With input flow control, every byte that arrived was read, waits in the buffer or RDR, or was discarded by a close (`RxNoLossWithIflow`); an `rxflowcontrol` that answers false on a full buffer breaks it. The RX interrupt that flow control disables is off exactly while the buffer still holds data (`ThrottleOnlyWhileBuffered`): `up_putc`'s restore and PM resume never turn it on behind flow control, and the read that empties the buffer turns it on; a `uart_read` that leaves out that call breaks it. |
| `serial_break_putc` | `MC_SerialBreakPutc.cfg` | violation | `TIOCSBRK`, then `up_putc`, then a write. The write transmits during the break, because `disableusartint` (line 1414) returns the hardware mask without the break bit (finding). |
| `serial_putc_race` | `MC_SerialPutcRace.cfg` | violation | A write during `up_putc`: its `TXEIE` is undone by the restore at line 3846, and the second byte is never sent (finding). |
| `serial_suspend_tx` | `MC_SerialSuspendTx.cfg` | violation | A write while suspended transmits at once: `txint` ignores `priv->suspended` (finding). |

| `rxdma_ports` | `MC_SerialRxDma.cfg` | pass | A circular port without flow control (USART or LPUART, at 2 clocks and 15 rates), and a flow-controlled one-shot port whose line may send inside the PM window. Both go through PM standby, a close and a reopen. The ring holds exactly the next bytes sent, in order (`DeliveredInOrder`). Every sent byte reaches the ring, and the line is never stopped for good, while the application reads, the port stays open and PM ends in the normal state (`RxDelivered`). For each port, the oversampling-by-8 BRR decodes to `usartdiv8` (`Over8Encoding`). The LPUART prescaler writes the PRESC whose divider it applied, and brings the ratio to at most 4096 (`LpuartPrescaler`). Every accepted `TCSETS` programs the frame it asks for and reads back through `TCGETS` (`TermiosRoundTrip`). |
| `rxdma_iflow_circular` | `MC_RxDmaIflowCirc.cfg` | violation | A flow-controlled port on the circular channel that `serial_rxdmacfg` (line 2118) programs. The channel laps bytes the driver has not read yet, because RTS is raised only when `rxdmanext` reaches the end (finding). |

### Bounds

- **Pass run.**
  - `CONFIG_NET_ARPTAB_SIZE` = 2 slots.
  - 2 addresses × 2 devices, which gives 4 keys: twice the capacity, so eviction happens.
  - `d1` is an Ethernet device whose own address is 2; `d2` is not Ethernet.
  - Neighbours have one MAC `m1` plus the NULL (unreachable) MAC, so an address change still happens. The devices' own MAC `m2` is different, so an answer from the `arp_match` fallback is told apart from a cached one.
  - `MaxAge` = 1 tick, and the clock runs 0..3. That gives entries that are fresh, entries that have expired, and evictions between entries of different ages.
  - `clock_t` and `int` are 4 bits wide, so no difference wraps.
  - The run reaches about 64,000 distinct states at depth 14.
- **`blkout_stream`.**
  - 2 sectors of 2 bytes. Bytes are 0 or 1, and the disk and cache start with any content.
  - `puts` takes 1 to 3 bytes. Three bytes from the middle of a sector go through the fill branch, then the direct write or read-back branch. From the last sector they also run past the device end.
  - The seek set includes:
    - every `whence`;
    - the same-sector path (`SEEK_CUR 0`);
    - moves to the other sector;
    - the end of the device;
    - out-of-range offsets 5 and 6, both refused by the range test (`offset > streamsize`). Without that test, 5 would still fail, at the driver's read of a sector past the end. 6 is sector-aligned, needs no read, and would be accepted, so the `TypeOK` mutant that drops the upper bound is caught by 6.
  - The seek set leaves out returns to the first byte of the dirty sector, which is the `blkout_seek_loss` case.
- **Serial.**
  - 3 bytes written are enough: the second byte of a write is the one left queued.
  - Up to 2 `up_putc` calls and 2 suspend cycles.
  - Breaks and `rxint` toggles are unbounded. The state space is finite without bounding them.
  - One close and reopen (`MaxOpen` = 1) of a non-console PM port, which is enough to reach a close with an overrun pending and a reopen with the old mask.
  - A receive buffer of two bytes (`RxBufSize` = 2, a 3-byte `CONFIG_USARTn_RXBUFSIZE`) and 3 received bytes (the pass run only; the violation runs keep 2 bytes and a one-byte buffer). The third byte finds the buffer full, so flow control and the discard both happen, and a read that leaves one byte in the buffer must keep the RX interrupt off.
  - The run reaches about 358,000 distinct states in about 40 seconds.
- **RX DMA.**
  - `rxfifo` has 3 bytes, and the ring has 3 slots (2 usable).
  - The line sends 5 bytes, so it wraps `rxfifo`. On the flow-controlled one-shot port, 5 bytes also fill the ring and make the driver raise RTS. The circular port without flow control never fills the ring, because its line is paced by the window below.
  - There are up to 2 PM standby attempts.
  - The window of a port without flow control is 1 byte below the smaller of the two sizes.
  - The port is closed and reopened once (`MaxOpen` = 1). The reopen restarts the channel at `rxfifo[0]` with bytes still in flight.
  - The clocks are 2^24 Hz and 250 MHz. The 15 rates put the clock-to-baud ratio in every LPUART prescaler range and on its boundaries (4096, 8192, ..., 262144). They also give USART divisors from 17 to above 2000.
  - The run reaches about 52,000 distinct states.
- **Violation runs.** The ARP runs narrow the widths until one period of the clock fits in the run.

### Fairness

The ARP and block-stream properties are safety and refinement properties, so no fairness is assumed there: the table never has to take a step.

`SerialIntMask` assumes weak fairness of exactly four actions, each a hardware guarantee:
- `Isr`: the NVIC takes an interrupt that stays enabled and pending;
- `Shift`: the transmitter empties TDR;
- `PutcCr` and `PutcEnd`: `arm_lowputc`'s wait for TXE ends once TDR is empty.

`SerialRxDma` assumes weak fairness of `Callback` only: the DMA half/full interrupt and the periodic `stm32_serial_dma_poll` run it.

The upper half, the line and PM owe nothing. The liveness properties are therefore stated under premises about the upper half: the break eventually stays off, the receiver eventually stays enabled, the port is eventually left running, and the application keeps reading.

## What is not modelled, and why

- Packet formats, the netdev list beyond each device's type, IP address and MAC, and the netlink message encoding are not modelled.
- `NewNeigh`/`DelNeigh` are modelled from the messages' meaning: `netlink_neigh_notify` is not under `src/`.
- `net_ip4addr_conv32` is modelled from the NuttX header: it is not under `src/`.
- The block driver's `read`/`write` are modelled from the driver contract. `lib_blkoutstream_open`'s error returns are left out: they change nothing a later call reads. A driver that writes partial data into the buffer on a failed read is not modelled.
- In the serial model, the following are left out:
  - the RS-485 `TCIE` path and non-BSD breaks;
  - `CONFIG_USART_ERRINTS` and the PE, FE and NE flags. With PEIE set, PE is never cleared by the handler, so the interrupt would storm (hazard at line 2462). Overrun is modelled;
  - CTS output flow control. With it, `setsuspend`'s wait for TC (line 1718) need not end;
  - the `TIOCSSINGLEWIRE`, `TIOCSINVERT` and `TIOCSSWAP` ioctls. Each is a read-modify-write of CR1-CR3 inside a critical section that touches no state the properties read;
  - `pmprepare` and `pmnotify` are one step.
- In both serial models, the watermark variant of `rxflowcontrol` (`CONFIG_SERIAL_IFLOWCONTROL_WATERMARKS` with `CONFIG_STM32H5_FLOWCONTROL_BROKEN`) is left out. It drives nRTS as a GPIO, and its behaviour depends on the upper half's watermark arithmetic, which is not under `src/`.
- In the RX DMA model, the following are left out:
  - closing or opening the port while PM holds it in standby. The code leaves `suspended` and `rxdmasusp` stale there (hazard at line 2221);
  - a failed `stm32_dmachannel` (hazard at line 2163);
  - receive errors;
  - the idle-line interrupt. It runs the same callback as the DMA interrupt.
- Bytes that a port without flow control receives between `pmprepare` and `pmnotify` are not checked. `setsuspend`'s comment (lines 1755-1758) accepts their loss.
- In `SerialFormat`, the following are left out:
  - the order of the register writes, and the state UE is in when they happen;
  - the 16-bit range of the oversampling-by-16 BRR, and the 20-bit range of the LPUART BRR;
  - the uninitialized `cr1` that an LPUART port writes.
  These are recorded as hazards at lines 1577, 1478, 1597, 1571 and 2778.
- `sched_note.h`: `NOTE_PRINTF_TAG` packs the argument count into bits 28-31 and two type bits per argument below them; `NOTE_PRINTF_GET_COUNT` and `NOTE_PRINTF_GET_TYPE` unpack them. The `static_assert` of at most 14 arguments keeps the fields apart. Checking this layout would take a module and a run of its own, for a property the compiler's assertion already enforces; the project spends its runs on the serial driver, the ARP table and the block stream instead. The undefined signed shift is recorded as a hazard.
- The other components marked "not modelled" above have no state a model checker could explore.

--------------------------- MODULE SerialIntMask ---------------------------
(***************************************************************************)
(* The USART interrupt mask of arch/arm/src/stm32h5/stm32_serial.c, for    *)
(* the interrupt-driven (non-DMA) operations of one port, with the callers *)
(* that read and rewrite it:                                               *)
(*  - the upper half, drivers/serial/serial.c, which is not under src/:    *)
(*    a write queues a byte and calls txint(true); rxint(enable) opens or  *)
(*    closes the receiver; read takes received bytes; and the BSD break    *)
(*    ioctls TIOCSBRK and TIOCCBRK;                                        *)
(*  - the USART interrupt handler, which receives and transmits;           *)
(*  - up_putc, which saves the mask, disables it, writes one character     *)
(*    and restores the saved mask; it is two steps, because the character  *)
(*    is written with interrupts enabled;                                  *)
(*  - PM suspend (pmprepare, then pmnotify with PM_STANDBY or PM_SLEEP,    *)
(*    which calls setsuspend(true)) and PM resume (setsuspend(false)).     *)
(* Each upper-half call, and each call of the interrupt handler, is one    *)
(* step: they run inside enter_critical_section or in the handler.         *)
(*                                                                         *)
(* ie is priv->ie. Its bits are RXNEIE, TXEIE and BRK, where BRK is        *)
(* USART_CR1_IE_BREAK_INPROGRESS, a bit that is never written to the       *)
(* hardware. hw is the set of enables in CR1/CR3.                          *)
(*                                                                         *)
(* The port's configuration conf is fixed for a behaviour. Its interleave *)
(* field says whether upper-half calls may run while up_putc is between   *)
(* its two steps, or while the port is suspended.                          *)
(***************************************************************************)
EXTENDS Naturals

CONSTANTS
    MaxTx,      \* bytes the upper half writes in a behaviour
    MaxRx,      \* bytes that arrive on the line
    MaxPutc,    \* up_putc calls
    MaxPm,      \* suspend/resume cycles
    MaxOpen,    \* closes, each followed by a reopen
    RxBufSize,  \* bytes the upper half's receive buffer holds
    Confs       \* the configurations the port may have

\* brk: CONFIG_STM32H5_SERIALBRK_BSDCOMPAT; putc: up_putc is called on this
\* port (the console); pm: CONFIG_PM; interleave: see above; iflow:
\* CONFIG_SERIAL_IFLOWCONTROL without watermarks, and priv->iflow (RTS
\* driven by the USART, RTSE).
ASSUME Confs \subseteq [brk : BOOLEAN, putc : BOOLEAN, pm : BOOLEAN,
                        interleave : BOOLEAN, iflow : BOOLEAN]
ASSUME RxBufSize \in Nat \ {0}

VARIABLES
    ie, hw,           \* priv->ie; CR1/CR3 enables
    rxwant, txwant,   \* the upper half's last rxint / txint request
    throttled,        \* rxflowcontrol disabled the RX interrupt since
                      \* the last rxint call
    brk,              \* a BSD break is in progress: TX is a GPIO held low
    tdrFull,          \* the transmit data register holds a byte (~TXE)
    written, sent,    \* bytes queued by the upper half; bytes moved to TDR
    rxpend,           \* the receive data register holds a byte (RXNE)
    ore,              \* ISR.ORE: a byte arrived while RDR was full
    arrived, rxbuf,   \* bytes arrived; bytes in the upper half's buffer
    taken, flushed,   \* bytes uart_read returned; bytes a close discarded
    pc, putcie,       \* up_putc: "idle" or "lowputc"; its saved mask
    putcn,            \* characters up_putc has still to write
    putcs,            \* up_putc calls made
    suspended, suspie,\* priv->suspended; priv->suspended_ie
    pms,              \* suspend cycles made
    irq,              \* the handler is attached and the IRQ enabled
    initialized,      \* priv->initialized
    opens,            \* reopenings made
    conf              \* the port's configuration

vars == <<ie, hw, rxwant, throttled, txwant, brk, tdrFull, written, sent, rxpend, ore,
          arrived, rxbuf, taken, flushed, pc, putcie, putcn, putcs, suspended, suspie, pms, irq,
          initialized, opens, conf>>

BsdBreak == conf.brk
WithPutc == conf.putc
WithPm == conf.pm
Interleave == conf.interleave
Iflow == conf.iflow

Bits == {"RXNEIE", "TXEIE", "BRK"}
HwBits == {"RXNEIE", "TXEIE"}

\* The variables a driver routine rewrites, as a record, so that routines
\* that call each other compose as functions.
St == [ie |-> ie, hw |-> hw, txwant |-> txwant, tdrFull |-> tdrFull,
       written |-> written, sent |-> sent]

Commit(s) ==
    /\ ie' = s.ie /\ hw' = s.hw /\ txwant' = s.txwant
    /\ tdrFull' = s.tdrFull /\ written' = s.written /\ sent' = s.sent

-----------------------------------------------------------------------------
(* Driver routines, as functions of St.                                    *)

\* A plausible bug in setusartint, for mutation testing of TypeOK: the
\* whole mask, BRK included, is written to CR1.
SetUsartIntUnmasked(s, m) == [s EXCEPT !.ie = m, !.hw = m]

\* stm32serial_setusartint(priv, ie): priv->ie is the mask, and CR1/CR3
\* get its used-interrupt bits.
SetUsartInt(s, m) == [s EXCEPT !.ie = m, !.hw = m \cap HwBits]

\* stm32serial_restoreusartint: setusartint under the port's spinlock
\* with interrupts off, so one step.
RestoreUsartInt(s, m) == SetUsartInt(s, m)

\* txint(false): restoreusartint(priv, priv->ie & ~TXEIE).
TxIntOff(s) == [RestoreUsartInt(s, s.ie \ {"TXEIE"}) EXCEPT !.txwant = FALSE]

\* stm32serial_txready: ISR.TXE, the transmit data register is empty.
TxRegEmpty(s) == ~s.tdrFull

\* stm32serial_send: the next queued byte is written to TDR.
Send(s) == [s EXCEPT !.sent = @ + 1, !.tdrFull = TRUE]

\* A plausible bug, for mutation testing of TxDelivered: the TX interrupt
\* is disabled one byte early, while a byte is still queued.
XmitCharsEarlyOff(s) ==
    LET s1 == IF s.written > s.sent /\ TxRegEmpty(s) THEN Send(s) ELSE s
    IN  IF s1.written <= s1.sent + 1 THEN TxIntOff(s1) ELSE s1

\* uart_xmitchars (serial.c): move a queued byte to TDR while TXE, and
\* disable the TX interrupt once the queue is empty.
XmitChars(s) ==
    LET s1 == IF s.written > s.sent /\ TxRegEmpty(s) THEN Send(s) ELSE s
    IN  IF s1.written = s1.sent THEN TxIntOff(s1) ELSE s1

\* A plausible bug in txint, for mutation testing of NoTxDuringBreak: the
\* BREAK_INPROGRESS test is left out.
TxIntOnNoBreakCheck(s) ==
    XmitChars([SetUsartInt(s, s.ie \cup {"TXEIE"}) EXCEPT !.txwant = TRUE])

\* txint(true): nothing while a BSD break is in progress; otherwise enable
\* TXEIE and fake a TX interrupt with uart_xmitchars.
TxIntOn(s) ==
    IF BsdBreak /\ "BRK" \in s.ie THEN [s EXCEPT !.txwant = TRUE]
    ELSE XmitChars([RestoreUsartInt(s, s.ie \cup {"TXEIE"}) EXCEPT !.txwant = TRUE])

\* The mask disableusartint returns: the used-interrupt bits of CR1/CR3.
SavedMask == hw

-----------------------------------------------------------------------------
(* The upper half.                                                         *)

\* Upper-half calls are made when the environment allows them, and, but
\* for open, on an open port.
UpperCtx == Interleave \/ (pc = "idle" /\ ~suspended)

UpperMay == irq /\ UpperCtx

\* uart_write of one byte: queue it, then uart_enabletxint.
UartWrite ==
    /\ UpperMay
    /\ written < MaxTx
    /\ Commit(TxIntOn([St EXCEPT !.written = @ + 1]))
    /\ UNCHANGED <<rxwant, throttled, brk, rxpend, ore, arrived, rxbuf, taken, flushed, pc, putcie, putcn, putcs,
                   suspended, suspie, pms, irq, initialized, opens, conf>>

\* stm32serial_rxint(dev, enable).
RxIntOf(s, en) ==
    RestoreUsartInt(s, IF en THEN s.ie \cup {"RXNEIE"} ELSE s.ie \ {"RXNEIE"})

RxIntSt(en) == RxIntOf(St, en)

RxInt(en) ==
    /\ UpperMay
    /\ rxwant' = en /\ throttled' = FALSE
    /\ Commit(RxIntSt(en))
    /\ UNCHANGED <<brk, rxpend, ore, arrived, rxbuf, taken, flushed, pc, putcie, putcn, putcs,
                   suspended, suspie, pms, irq, initialized, opens, conf>>

\* A plausible bug, for mutation testing of ThrottleOnlyWhileBuffered:
\* uart_read's "buffer read empty" call is left out.
RxFlowControlLowerNone(empty) == FALSE

\* A plausible bug, for mutation testing of RxNoLossWithIflow: the upper
\* watermark is ignored and the caller goes on reading, as the
\* FLOWCONTROL_BROKEN variant of rxflowcontrol answers.
RxFlowControlUpperNone == FALSE

\* stm32serial_rxflowcontrol(dev, nbuffered, true), without watermarks,
\* called by uart_recvchars when the receive buffer is full: with
\* priv->iflow it disables the RX interrupt (uart_disablerxint) and
\* answers true, so that the byte stays in RDR and RTSE holds nRTS high.
\* Without iflow it answers false.
RxFlowControlUpper == Iflow

\* stm32serial_rxflowcontrol(dev, 0, false), called by uart_read once the
\* buffer is read empty: with priv->iflow, uart_enablerxint, which gives
\* back an RX interrupt a full buffer disabled.
RxFlowControlLower(empty) == Iflow /\ empty

\* uart_read of one byte from the receive buffer; the buffer read empty
\* is reported to rxflowcontrol.
UartRead ==
    /\ UpperMay
    /\ rxbuf > 0
    /\ rxbuf' = rxbuf - 1 /\ taken' = taken + 1
    /\ IF RxFlowControlLower(rxbuf = 1)
       THEN rxwant' = TRUE /\ throttled' = FALSE /\ Commit(RxIntSt(TRUE))
       ELSE UNCHANGED <<rxwant, throttled, ie, hw, txwant, tdrFull, written, sent>>
    /\ UNCHANGED <<brk, rxpend, ore, arrived, flushed, pc, putcie, putcn, putcs,
                   suspended, suspie, pms, irq, initialized, opens, conf>>

\* ioctl TIOCSBRK (BSD): mark the break, txint(false), TX pin to GPIO low.
TiocSBrk ==
    /\ BsdBreak /\ UpperMay
    /\ brk' = TRUE
    /\ Commit(TxIntOff([St EXCEPT !.ie = @ \cup {"BRK"}]))
    /\ UNCHANGED <<rxwant, throttled, rxpend, ore, arrived, rxbuf, taken, flushed, pc, putcie, putcn, putcs,
                   suspended, suspie, pms, irq, initialized, opens, conf>>

\* ioctl TIOCCBRK (BSD): TX pin back to the USART, clear the mark, and
\* txint(true).
ClearBreak(s) == TxIntOn([s EXCEPT !.ie = @ \ {"BRK"}])

TiocCBrk ==
    /\ BsdBreak /\ UpperMay
    /\ brk' = FALSE
    /\ Commit(ClearBreak(St))
    /\ UNCHANGED <<rxwant, throttled, rxpend, ore, arrived, rxbuf, taken, flushed, pc, putcie, putcn, putcs,
                   suspended, suspie, pms, irq, initialized, opens, conf>>

-----------------------------------------------------------------------------
(* The line, the transmitter and the interrupt handler.                    *)

\* A byte arrives in an empty receive data register.
Arrive ==
    /\ arrived < MaxRx /\ ~rxpend
    /\ rxpend' = TRUE /\ arrived' = arrived + 1
    /\ UNCHANGED <<ie, hw, rxwant, throttled, txwant, brk, tdrFull, written, sent, ore,
                   rxbuf, taken, flushed, pc, putcie, putcn, putcs, suspended, suspie, pms, irq, initialized, opens, conf>>

\* A byte arrives while RDR still holds the previous one: the USART sets
\* ORE and the new byte is lost. This happens whenever the handler cannot
\* run in time: inside up_putc, while suspended, or with RXNEIE off.
\* With RTSE, nRTS is high while RDR is full and the sender waits.
Overrun ==
    /\ arrived < MaxRx /\ rxpend /\ ~Iflow
    /\ ore' = TRUE /\ arrived' = arrived + 1
    /\ UNCHANGED <<ie, hw, rxwant, throttled, txwant, brk, tdrFull, written, sent,
                   rxpend, rxbuf, taken, flushed, pc, putcie, putcn, putcs, suspended, suspie, pms,
                   irq, initialized, opens, conf>>

\* The transmitter takes the byte in TDR (TXE is set again).
Shift ==
    /\ tdrFull /\ tdrFull' = FALSE
    /\ UNCHANGED <<ie, hw, rxwant, throttled, txwant, brk, written, sent, rxpend, ore,
                   arrived, rxbuf, taken, flushed, pc, putcie, putcn, putcs, suspended, suspie, pms,
                   irq, initialized, opens, conf>>

\* stm32serial_rxavailable: ISR.RXNE.
RxAvailable == rxpend

\* A plausible bug, for mutation testing of RxServed: the receive test of
\* the handler checks TXEIE, copied from the transmit test.
RxReadyTxeie == RxAvailable /\ "TXEIE" \in ie

\* The handler's receive test: RXNE and priv->ie has RXNEIE.
RxReady == RxAvailable /\ "RXNEIE" \in ie

\* A plausible bug, for mutation testing of NoInterruptStorm: the
\* handler has no error branch, so nothing writes ICR.
ErrorBranchDropped == FALSE

\* The handler's error branch, taken when the receive test fails: ORE
\* (with NF and FE) is cleared by writing ICR. The receive branch does not
\* clear it.
ErrorBranch == ~RxReady /\ ore

\* The handler's transmit test: TXE and priv->ie has TXEIE.
TxReady == ~tdrFull /\ "TXEIE" \in ie

\* The USART requests its interrupt: RXNEIE with RXNE or ORE, or TXEIE
\* with TXE.
IrqPending ==
    \/ "RXNEIE" \in hw /\ (rxpend \/ ore)
    \/ "TXEIE" \in hw /\ ~tdrFull

\* stm32serial_receive: reading RDR clears RXNE.
Receive(read) == rxpend /\ ~read

\* The upper half's receive buffer is full (recv.head + 1 == recv.tail).
RxFull == rxbuf = RxBufSize

\* stm32serial_interrupt, one pass of its loop, taken while the interrupt
\* is requested. The receive branch runs uart_recvchars (serial.c): on a
\* full buffer it first asks rxflowcontrol, and stops if flow control is
\* now active, leaving the byte in RDR; otherwise it reads RDR with
\* stm32serial_receive and stores the byte, or discards it when the
\* buffer is full. Otherwise the error branch clears ORE. Then
\* uart_xmitchars runs when TXE and priv->ie has TXEIE. The loop's later
\* passes are later Isr steps.
Isr ==
    /\ irq /\ IrqPending
    /\ LET throttle == RxReady /\ RxFull /\ RxFlowControlUpper
           read     == RxReady /\ ~throttle
           s1       == IF throttle THEN RxIntSt(FALSE) ELSE St
       IN  /\ rxpend' = Receive(read)
           /\ rxbuf' = IF read /\ ~RxFull THEN rxbuf + 1 ELSE rxbuf
           /\ rxwant' = (rxwant /\ ~throttle)
           /\ throttled' = (throttled \/ throttle)
           /\ Commit(IF TxReady THEN XmitChars(s1) ELSE s1)
    /\ ore' = (ore /\ ~ErrorBranch)
    /\ UNCHANGED <<brk, arrived, taken, flushed, pc, putcie, putcn, putcs,
                   suspended, suspie, pms, irq, initialized, opens, conf>>

-----------------------------------------------------------------------------
(* up_putc and power management.                                           *)

\* up_putc, first step: disableusartint(priv, &ie) saves the mask read
\* back from CR1/CR3 and sets the mask to 0. A '\n' is written as "\r\n",
\* two arm_lowputc calls.
PutcBegin ==
    /\ WithPutc /\ pc = "idle" /\ putcs < MaxPutc
    /\ Interleave \/ ~suspended
    /\ pc' = "lowputc" /\ putcs' = putcs + 1
    /\ putcie' = SavedMask
    /\ \E newline \in BOOLEAN : putcn' = IF newline THEN 2 ELSE 1
    /\ Commit(SetUsartInt(St, {}))
    /\ UNCHANGED <<rxwant, throttled, brk, rxpend, ore, arrived, rxbuf, taken, flushed, suspended, suspie,
                   pms, irq, initialized, opens, conf>>

\* up_putc, for a '\n': arm_lowputc('\r') waits for TXE and writes the
\* carriage return, with the mask still 0.
PutcCr ==
    /\ pc = "lowputc" /\ putcn = 2 /\ ~tdrFull
    /\ putcn' = 1 /\ tdrFull' = TRUE
    /\ UNCHANGED <<ie, hw, txwant, written, sent, rxwant, throttled, brk, rxpend, ore,
                   arrived, rxbuf, taken, flushed, pc, putcie, putcs,
                   suspended, suspie, pms, irq, initialized, opens, conf>>

\* up_putc, last step: arm_lowputc waits for TXE and writes the
\* character, then restoreusartint(priv, ie).
PutcEnd ==
    /\ pc = "lowputc" /\ putcn = 1 /\ ~tdrFull
    /\ pc' = "idle" /\ putcn' = 0
    /\ Commit([RestoreUsartInt(St, putcie) EXCEPT !.tdrFull = TRUE])
    /\ UNCHANGED <<rxwant, throttled, brk, rxpend, ore, arrived, rxbuf, taken, flushed, putcie, putcs,
                   suspended, suspie, pms, irq, initialized, opens, conf>>

\* pmprepare for PM_STANDBY/PM_SLEEP: the port has no data pending in its
\* transmit or receive buffer.
PmPrepareOk == written = sent /\ rxbuf = 0

\* pmnotify(PM_STANDBY or PM_SLEEP) after a successful prepare:
\* setsuspend(true) saves the mask with disableusartint into suspended_ie
\* and waits for TC. PM changes state from the idle thread, which runs only
\* when no task is ready, so not while a task is inside up_putc.
Suspend ==
    /\ WithPm /\ initialized /\ ~suspended /\ pms < MaxPm /\ pc = "idle"
    /\ PmPrepareOk /\ ~tdrFull
    /\ suspended' = TRUE /\ pms' = pms + 1
    /\ suspie' = SavedMask
    /\ Commit(SetUsartInt(St, {}))
    /\ UNCHANGED <<rxwant, throttled, brk, rxpend, ore, arrived, rxbuf, taken, flushed, pc, putcie, putcn, putcs,
                   irq, initialized, opens, conf>>

\* A plausible bug in setsuspend, for mutation testing of
\* MaskMatchesUpperHalf: resume leaves the mask disabled.
ResumeMaskNone == {}

\* The mask setsuspend(false) restores.
ResumeMask == suspie

\* pmnotify(PM_NORMAL or PM_IDLE): setsuspend(false) restores
\* suspended_ie.
Resume ==
    /\ initialized /\ suspended
    /\ suspended' = FALSE
    /\ Commit(RestoreUsartInt(St, ResumeMask))
    /\ UNCHANGED <<rxwant, throttled, brk, rxpend, ore, arrived, rxbuf, taken, flushed, pc, putcie, putcn, putcs,
                   suspie, pms, irq, initialized, opens, conf>>

-----------------------------------------------------------------------------
(* Open and close.                                                         *)

\* stm32serial_attach: irq_attach the handler, then up_enable_irq.
Attach == irq' = TRUE

\* stm32serial_detach: up_disable_irq, then irq_detach.
Detach == irq' = FALSE

\* stm32serial_setup, the mask: TE, RE and every interrupt enable of CR1
\* and CR3 cleared, and priv->ie = 0. The TX pin is configured for the
\* USART again, which ends a BSD break left by an earlier close.
SetupMask(s) == SetUsartInt(s, {})

\* stm32serial_shutdown: priv->initialized = false, then
\* disableusartint(priv, NULL) writes a zero mask; the TX pin is
\* unconfigured.
ShutdownMask(s) == SetUsartInt(s, {})

\* uart_open, first open (serial.c): setup unless the port is the console,
\* which stm32_serialinit set up at boot; attach; both buffers marked
\* empty; rxint(true).
Open ==
    /\ ~irq /\ UpperCtx
    /\ Attach /\ initialized' = TRUE
    /\ brk' = (brk /\ WithPutc)
    /\ rxwant' = TRUE /\ throttled' = FALSE /\ rxbuf' = 0
    /\ Commit(RxIntOf(IF WithPutc THEN St ELSE SetupMask(St), TRUE))
    /\ UNCHANGED <<rxpend, ore, arrived, taken, flushed, pc, putcie, putcn, putcs, suspended, suspie,
                   pms, opens, conf>>

\* uart_close, last close: rxint(false); uart_tcdrain waits until the
\* transmit buffer and the transmitter are empty; detach, and shutdown
\* unless the port is the console; both buffers emptied.
Close ==
    /\ UpperMay /\ opens < MaxOpen
    /\ written = sent /\ ~tdrFull
    /\ Detach /\ opens' = opens + 1
    /\ initialized' = WithPutc
    /\ brk' = (brk /\ WithPutc)
    /\ rxwant' = FALSE /\ throttled' = FALSE
    /\ rxbuf' = 0 /\ flushed' = flushed + rxbuf
    /\ LET s1 == RxIntOf(St, FALSE)
       IN  Commit(IF WithPutc THEN s1 ELSE ShutdownMask(s1))
    /\ UNCHANGED <<rxpend, ore, arrived, taken, pc, putcie, putcn, putcs, suspended,
                   suspie, pms, conf>>

-----------------------------------------------------------------------------

\* stm32serial_setup: priv->ie = 0 with the receiver enabled by the upper
\* half's open (rxint(true)) once setup is done.
Init ==
    /\ ie = {"RXNEIE"} /\ hw = {"RXNEIE"}
    /\ rxwant = TRUE /\ throttled = FALSE /\ txwant = FALSE /\ brk = FALSE
    /\ tdrFull = FALSE /\ written = 0 /\ sent = 0
    /\ rxpend = FALSE /\ ore = FALSE /\ arrived = 0 /\ rxbuf = 0
    /\ taken = 0 /\ flushed = 0
    /\ pc = "idle" /\ putcie = {} /\ putcn = 0 /\ putcs = 0
    /\ suspended = FALSE /\ suspie = {} /\ pms = 0
    /\ irq = TRUE /\ initialized = TRUE /\ opens = 0
    /\ conf \in Confs

Next ==
    \/ UartWrite
    \/ \E en \in BOOLEAN : RxInt(en)
    \/ UartRead
    \/ TiocSBrk
    \/ TiocCBrk
    \/ Arrive
    \/ Overrun
    \/ Shift
    \/ Isr
    \/ PutcBegin
    \/ PutcCr
    \/ PutcEnd
    \/ Suspend
    \/ Resume
    \/ Open
    \/ Close

\* The hardware takes an interrupt that stays enabled and pending, and
\* shifts a byte out of TDR; arm_lowputc's wait for TXE ends. The upper
\* half, the line and PM owe nothing.
Fairness ==
    WF_vars(Isr) /\ WF_vars(Shift) /\ WF_vars(PutcCr) /\ WF_vars(PutcEnd)

Spec == Init /\ [][Next]_vars /\ Fairness


-----------------------------------------------------------------------------
(* Properties.                                                             *)

TypeOK ==
    /\ ie \subseteq Bits /\ hw \subseteq HwBits /\ putcie \subseteq HwBits
    /\ suspie \subseteq HwBits
    /\ {rxwant, throttled, txwant, brk, tdrFull, rxpend, ore, suspended} \subseteq BOOLEAN
    /\ written \in 0..MaxTx /\ sent \in 0..written
    /\ arrived \in 0..MaxRx /\ rxbuf \in 0..RxBufSize
    /\ taken \in 0..MaxRx /\ flushed \in 0..MaxRx
    /\ pc \in {"idle", "lowputc"} /\ putcn \in 0..2 /\ putcs \in 0..MaxPutc /\ pms \in 0..MaxPm
    /\ {irq, initialized} \subseteq BOOLEAN /\ opens \in 0..MaxOpen

\* The mask the upper half's calls ask for: RXNEIE after rxint(true),
\* TXEIE after txint(true) unless a break is in progress, and the break
\* mark while it is.
Expected ==
    {b \in Bits : \/ b = "RXNEIE" /\ rxwant
                  \/ b = "TXEIE" /\ txwant /\ ~brk
                  \/ b = "BRK" /\ brk}

\* When up_putc is not between its two steps and the port is not
\* suspended, priv->ie and CR1/CR3 hold exactly what the upper half last
\* asked for: up_putc and suspend/resume save and restore the mask without
\* losing or adding an enable.
MaskMatchesUpperHalf ==
    pc = "idle" /\ ~suspended =>
        /\ ie = Expected
        /\ hw = Expected \cap HwBits

\* While a BSD break holds the TX line low, no byte is moved to TDR: the
\* break ioctl disables the TX interrupt and txint(true) refuses to
\* re-enable it.
NoTxDuringBreak == [][brk /\ brk' => sent' = sent]_vars

\* setsuspend(true) disables the interrupts "to prevent Tx": while the
\* port is suspended, no byte is moved to TDR.
NoTxWhileSuspended == [][suspended /\ suspended' => sent' = sent]_vars

\* Every byte the upper half queues is eventually moved to TDR, unless a
\* break is left in progress for good: txint(true), the interrupt handler
\* and uart_xmitchars keep TXEIE enabled while bytes are queued.
TxDelivered == <>[]~brk => (written > sent ~> written = sent)

\* While the upper half keeps the receiver enabled and PM leaves the port
\* running, a received byte is eventually taken from RDR by the interrupt
\* handler: up_putc and resume give RXNEIE back.
RxServed == <>[](rxwant /\ ~suspended) => (rxpend ~> ~rxpend)

\* With input flow control, no received byte is lost: when the buffer is
\* full, rxflowcontrol stops the handler's reads and disables RXNEIE, so
\* the byte waits in RDR while RTSE holds the sender off, and uart_read
\* enables RXNEIE again once it has read the buffer empty. Every byte that
\* arrived has been returned by uart_read, waits in the buffer or in RDR,
\* or was discarded by a close.
RxNoLossWithIflow ==
    Iflow => arrived = taken + rxbuf + (IF rxpend THEN 1 ELSE 0) + flushed

\* The RX interrupt that rxflowcontrol disables for a full buffer is off
\* exactly while the buffer still holds data: up_putc's restore and PM
\* resume never turn it back on behind flow control, and the uart_read
\* that empties the buffer turns it on again. Otherwise the port either
\* overruns the buffer or stops receiving for good.
ThrottleOnlyWhileBuffered ==
    throttled => rxbuf > 0 /\ "RXNEIE" \notin ie /\ "RXNEIE" \notin hw

\* The handler never leaves the interrupt it was taken for requested for
\* good: each pass reads RDR, clears ORE in the error branch, fills TDR
\* or disables TXEIE, so a requested USART interrupt is eventually no
\* longer requested, whatever up_putc and PM did to the mask meanwhile.
\* Otherwise the CPU would re-enter the handler forever.
NoInterruptStorm == IrqPending ~> ~IrqPending

=============================================================================

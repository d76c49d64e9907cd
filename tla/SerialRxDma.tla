----------------------------- MODULE SerialRxDma -----------------------------
(***************************************************************************)
(* Receive DMA of src/arch/arm/src/stm32h5/stm32_serial.c (the             *)
(* g_uart_dma_ops port), its input flow control, and the DMA half of PM    *)
(* suspend/resume.                                                         *)
(*                                                                         *)
(* The line sends bytes numbered 1, 2, ... in order. The GPDMA channel     *)
(* stores each byte at rxfifo[ndtr]; ndtr is what stm32serial_dmanextrx    *)
(* computes, RXDMA_BUFFER_SIZE minus the residual. In circular mode (the   *)
(* mode serial_rxdmacfg programs) the channel reloads and wraps to 0; in   *)
(* one-shot mode it stops at the end of the buffer, RDR stays full and the *)
(* USART's hardware RTS stops the sender.                                  *)
(*                                                                         *)
(* The upper half (drivers/serial/serial.c, outside this tree) appears     *)
(* through uart_recvchars, which the DMA callback runs, and uart_read.     *)
(* Its receive buffer recv holds at most RecvSize - 1 bytes, the ring's    *)
(* "head + 1 == tail" full test.                                           *)
(*                                                                         *)
(* Driver routines are functions of the record St, so that a routine that *)
(* calls another is their composition, as in the C.                        *)
(***************************************************************************)
EXTENDS Integers, Sequences, SerialFormat

CONSTANTS
    Size,        \* RXDMA_BUFFER_SIZE
    RecvSize,    \* CONFIG_<port>_RXBUFSIZE, the upper half's ring
    MaxBytes,    \* bytes the line sends
    MaxPm,       \* PM standby attempts
    MaxOpen,     \* times the port is opened again after a close
    Ports        \* the configurations the port may have

\* iflow: priv->iflow (CONFIG_SERIAL_IFLOWCONTROL, no watermarks);
\* circular: the DMA channel reloads at the end of rxfifo;
\* pmwindow: bytes may arrive between pmprepare and pmnotify;
\* lpuart, apbclock, baud, bits, cts, rts: priv->islpuart,
\* priv->apbclock, priv->baud (CONFIG_<port>_BAUD or the last TCSETS),
\* priv->bits (CONFIG_<port>_BITS) and whether priv->cts_gpio and
\* priv->rts_gpio are set.
ASSUME /\ Size \in Nat \ {0, 1} /\ RecvSize \in Nat \ {0, 1}
       /\ MaxBytes \in Nat /\ MaxPm \in Nat /\ MaxOpen \in Nat
       /\ Ports \subseteq [iflow : BOOLEAN, circular : BOOLEAN, pmwindow : BOOLEAN,
                           lpuart : BOOLEAN, apbclock : Nat \ {0},
                           baud : Nat \ {0}, bits : {7, 8, 9},
                           cts : BOOLEAN, rts : BOOLEAN]
       /\ \A p \in Ports : p.iflow => p.rts

VARIABLES
    fifo,       \* rxfifo
    ndtr,       \* transfers done by the channel, stm32serial_dmanextrx
    dmaon,      \* the channel is started
    rxdmanext,  \* priv->rxdmanext
    rxenable,   \* priv->rxenable
    rxdmasusp,  \* priv->rxdmasusp
    recv,       \* dev->recv, the bytes between tail and head
    sent,       \* bytes the line has sent
    nread,      \* bytes uart_read has handed to the application
    pm,         \* "normal", "prepared" (pmprepare said OK) or "standby"
    pms,        \* standby attempts so far
    initialized,\* priv->initialized; priv->rxdma is allocated exactly then
    suspended,  \* priv->suspended
    opens,      \* opens after the first, each after a close
    port        \* the port's configuration, fixed for a behaviour

vars == <<fifo, ndtr, dmaon, rxdmanext, rxenable, rxdmasusp, recv, sent,
          nread, pm, pms, initialized, suspended, opens, port>>

Iflow == port.iflow
Circular == port.circular
PmWindowRx == port.pmwindow

\* What a read outside rxfifo returns: never a byte the line sent.
Garbage == 0

\* The bytes a non-flow-controlled sender has outstanding: what the
\* half/full callbacks have time to claim before the channel laps them,
\* and what the upper half's ring holds.
Window == (IF Size < RecvSize THEN Size ELSE RecvSize) - 1

St == [ndtr |-> ndtr, dmaon |-> dmaon, rxdmanext |-> rxdmanext,
       rxenable |-> rxenable, rxdmasusp |-> rxdmasusp, recv |-> recv,
       initialized |-> initialized]

Commit(s) ==
    /\ ndtr' = s.ndtr /\ dmaon' = s.dmaon /\ rxdmanext' = s.rxdmanext
    /\ rxenable' = s.rxenable /\ rxdmasusp' = s.rxdmasusp /\ recv' = s.recv
    /\ initialized' = s.initialized

-----------------------------------------------------------------------------
(* Driver routines, as functions of a state record s.                      *)

\* stm32serial_dmanextrx: RXDMA_BUFFER_SIZE minus stm32_dmaresidual, the
\* index the channel writes next. The residual is Size - ndtr; in
\* circular mode the reload makes it Size again at once.
DmaNextRx(s) == Size - (Size - s.ndtr)

\* stm32serial_dmarxavailable: the channel's position is not ours.
DmaRxAvailable(s) == DmaNextRx(s) # s.rxdmanext

\* stm32serial_dmareenable: serial_rxdmacfg, stm32_dmasetup (the channel
\* starts again at rxfifo[0]), rxdmanext = 0, stm32_dmastart, and
\* rxdmasusp cleared.
DmaReenable(s) ==
    [s EXCEPT !.ndtr = 0, !.dmaon = TRUE, !.rxdmanext = 0, !.rxdmasusp = FALSE]

\* stm32serial_dmaiflowrestart: restart only when reception is enabled and
\* either the buffer was read to its end or a suspended channel has
\* nothing left unread.
DmaIflowRestart(s) ==
    IF s.rxenable /\ (s.rxdmanext = Size \/ (s.rxdmasusp /\ ~DmaRxAvailable(s)))
    THEN DmaReenable(s) ELSE s

\* stm32serial_dmarxint(dev, enable).
DmaRxInt(s, en) ==
    LET s1 == [s EXCEPT !.rxenable = en]
    IN  IF Iflow THEN DmaIflowRestart(s1) ELSE s1

\* A plausible bug, for mutation testing of RxDelivered: the "buffer read
\* empty" call does not re-enable reception.
RxFlowControlNoEnable(s, upper) ==
    IF Iflow /\ upper THEN DmaRxInt(s, FALSE) ELSE s

\* stm32serial_rxflowcontrol(dev, n, upper) without watermarks:
\* uart_disablerxint or uart_enablerxint, that is dmarxint. It returns
\* Iflow /\ upper.
RxFlowControl(s, upper) == IF Iflow THEN DmaRxInt(s, ~upper) ELSE s

\* A plausible bug, for mutation testing of DeliveredInOrder: the byte is
\* read as rxfifo[++rxdmanext], after the index moves.
DmaReceiveChPreInc(s) ==
    IF s.rxdmanext + 1 < Size THEN fifo[s.rxdmanext + 1] ELSE Garbage

\* stm32serial_dmareceive, once dmarxavailable held: the byte it returns
\* (rxfifo[rxdmanext], read past the array once rxdmanext >= Size) ...
DmaReceiveCh(s) == IF s.rxdmanext < Size THEN fifo[s.rxdmanext] ELSE Garbage

\* ... and the state after it: at the end of the buffer a flow-controlled
\* port pauses (dmarxint(false), rxflowcontrol(upper)), any other wraps.
DmaReceive(s) ==
    LET s1 == [s EXCEPT !.rxdmanext = @ + 1]
    IN  IF s1.rxdmanext < Size THEN s1
        ELSE IF Iflow THEN RxFlowControl(DmaRxInt(s1, FALSE), TRUE)
        ELSE [s1 EXCEPT !.rxdmanext = 0]

\* A plausible bug, for mutation testing of TypeOK: the ring counts as
\* full one byte late, "head == tail" for "head + 1 == tail".
RingFullLate(s) == Len(s.recv) = RecvSize

\* uart_recvchars's full test, nexthead == tail.
RingFull(s) == Len(s.recv) = RecvSize - 1

\* uart_recvchars: while rxavailable, stop on a full ring if rxflowcontrol
\* says so, else receive a byte and keep it if the ring has room.
RECURSIVE RecvChars(_)
RecvChars(s) ==
    LET full == RingFull(s)
    IN  IF ~DmaRxAvailable(s) THEN s
        ELSE IF full /\ Iflow THEN RxFlowControl(s, TRUE)
        ELSE LET s1 == DmaReceive(s)
             IN  RecvChars(IF full THEN s1
                           ELSE [s1 EXCEPT !.recv = Append(@, DmaReceiveCh(s))])

\* stm32serial_dmarxcallback: pull what the buffer holds, then let a
\* flow-controlled port restart its channel.
DmaRxCallback(s) ==
    LET s1 == RecvChars(s) IN IF Iflow THEN DmaIflowRestart(s1) ELSE s1

\* The Rx DMA part of stm32serial_setsuspend(dev, true).
SuspendSt(s) ==
    IF s.rxdmasusp \/ (Iflow /\ s.rxdmanext = Size) THEN s
    ELSE [s EXCEPT !.dmaon = FALSE, !.rxdmasusp = TRUE]

\* The Rx DMA part of stm32serial_setsuspend(dev, false): restart the
\* channel, then the initial fetch through the callback.
ResumeSt(s) ==
    IF ~s.rxdmasusp THEN s
    ELSE DmaRxCallback(IF Iflow THEN DmaIflowRestart(s) ELSE DmaReenable(s))

\* stm32serial_setup: the line is programmed (setapbclock, pins, CR1-CR3,
\* setformat, UE/TE/RE) and the port marked initialized. The registers
\* are abstracted away.
Setup(s) == [s EXCEPT !.initialized = TRUE]

\* stm32serial_dmasetup: setup unless the port is the console, a channel
\* (the model assumes stm32_dmachannel finds one), serial_rxdmacfg,
\* stm32_dmasetup from rxfifo[0], rxdmanext = 0, CR3.DMAR, stm32_dmastart.
\* rxdmasusp and priv->suspended are left as they were.
DmaSetup(s) == [Setup(s) EXCEPT !.ndtr = 0, !.dmaon = TRUE, !.rxdmanext = 0]

\* stm32serial_shutdown: initialized = false, interrupts, clock, UE/TE/RE
\* and pins off.
Shutdown(s) == [s EXCEPT !.initialized = FALSE]

\* stm32serial_dmashutdown: shutdown, stm32_dmastop, rxenable = false,
\* stm32_dmafree and rxdma = NULL.
DmaShutdown(s) == [Shutdown(s) EXCEPT !.dmaon = FALSE, !.rxenable = FALSE]

-----------------------------------------------------------------------------
(* Actions.                                                                *)

\* The line sends byte sent + 1 and the channel stores it. A flow-
\* controlled sender sends only while RTS is asserted: the channel takes
\* RDR and setsuspend has not forced RTS high. Any other sender is paced
\* by time alone, at most Window bytes ahead of the application.
LineMaySend ==
    /\ dmaon /\ (Circular \/ ndtr < Size)
    /\ IF Iflow THEN ~suspended ELSE sent - nread < Window
    /\ pm = "prepared" => PmWindowRx

Arrive ==
    /\ sent < MaxBytes
    /\ LineMaySend
    /\ fifo' = [fifo EXCEPT ![ndtr] = sent + 1]
    /\ ndtr' = IF Circular THEN (ndtr + 1) % Size ELSE ndtr + 1
    /\ sent' = sent + 1
    /\ UNCHANGED <<dmaon, rxdmanext, rxenable, rxdmasusp, recv, nread, pm, pms,
                   initialized, suspended, opens, port>>

\* The half/full transfer interrupt of a started channel, or
\* stm32_serial_dma_poll, which skips a port whose rxdma is NULL.
Callback ==
    /\ initialized
    /\ Commit(DmaRxCallback(St))
    /\ UNCHANGED <<fifo, sent, nread, pm, pms, suspended, opens, port>>

\* uart_read takes one byte; a ring read empty is reported through
\* rxflowcontrol(dev, 0, false).
UartRead ==
    /\ recv # <<>>
    /\ LET s1 == [St EXCEPT !.recv = Tail(@)]
       IN  Commit(IF s1.recv = <<>> THEN RxFlowControl(s1, FALSE) ELSE s1)
    /\ nread' = nread + 1
    /\ UNCHANGED <<fifo, sent, pm, pms, suspended, opens, port>>

\* uart_open of a closed port: the ring is emptied, then dmasetup, attach
\* and uart_enablerxint, that is dmarxint(true). The upper half opens and
\* closes the port while PM keeps it running.
Open ==
    /\ ~initialized /\ opens < MaxOpen /\ pm = "normal"
    /\ Commit(DmaRxInt(DmaSetup([St EXCEPT !.recv = <<>>]), TRUE))
    /\ opens' = opens + 1
    /\ UNCHANGED <<fifo, sent, nread, pm, pms, suspended, port>>

\* uart_close of the last descriptor: uart_disablerxint (dmarxint(false)),
\* detach, dmashutdown. The bytes the application has not read are
\* discarded, so nread counts them as taken. Only closes that the port is
\* opened again after are explored (opens bounds both).
Close ==
    /\ initialized /\ pm = "normal" /\ opens < MaxOpen
    /\ Commit([DmaShutdown(DmaRxInt(St, FALSE)) EXCEPT !.recv = <<>>])
    /\ nread' = sent
    /\ UNCHANGED <<fifo, sent, pm, pms, suspended, opens, port>>

\* pm_changestate(PM_STANDBY), prepare: stm32serial_pmprepare polls the
\* DMA, then refuses while the receive ring of an initialized port that
\* is not suspended holds data.
PmPrepare ==
    /\ pm = "normal" /\ pms < MaxPm
    /\ LET s1 == IF initialized THEN DmaRxCallback(St) ELSE St
       IN  /\ Commit(s1)
           /\ pm' = IF initialized /\ ~suspended /\ s1.recv # <<>>
                    THEN "normal" ELSE "prepared"
    /\ pms' = pms + 1
    /\ UNCHANGED <<fifo, sent, nread, suspended, opens, port>>

\* Another driver refused: notify(PM_NORMAL) finds the ports not
\* suspended (g_serialpm.serial_suspended) and returns at once.
PmAbort ==
    /\ pm = "prepared"
    /\ pm' = "normal"
    /\ UNCHANGED <<fifo, ndtr, dmaon, rxdmanext, rxenable, rxdmasusp, recv,
                   sent, nread, pms, initialized, suspended, opens, port>>

\* pmnotify(PM_STANDBY): stm32serial_pm_setsuspend(true) calls
\* setsuspend(dev, true) for an initialized port, which returns at once if
\* priv->suspended is already set.
PmSuspend ==
    /\ pm = "prepared"
    /\ IF initialized /\ ~suspended
       THEN Commit(SuspendSt(St)) /\ suspended' = TRUE
       ELSE UNCHANGED <<ndtr, dmaon, rxdmanext, rxenable, rxdmasusp, recv,
                        initialized, suspended>>
    /\ pm' = "standby"
    /\ UNCHANGED <<fifo, sent, nread, pms, opens, port>>

\* pmnotify(PM_NORMAL): stm32serial_pm_setsuspend(false), the same way.
PmResume ==
    /\ pm = "standby"
    /\ IF initialized /\ suspended
       THEN Commit(ResumeSt(St)) /\ suspended' = FALSE
       ELSE UNCHANGED <<ndtr, dmaon, rxdmanext, rxenable, rxdmasusp, recv,
                        initialized, suspended>>
    /\ pm' = "normal"
    /\ UNCHANGED <<fifo, sent, nread, pms, opens, port>>

\* The port after its first open: stm32serial_dmasetup, then uart_open's
\* dmarxint(true).
Init ==
    /\ fifo = [i \in 0..(Size - 1) |-> Garbage]
    /\ ndtr = 0 /\ dmaon = TRUE /\ rxdmanext = 0
    /\ rxenable = TRUE /\ rxdmasusp = FALSE
    /\ recv = <<>> /\ sent = 0 /\ nread = 0
    /\ pm = "normal" /\ pms = 0
    /\ initialized = TRUE /\ suspended = FALSE /\ opens = 0
    /\ port \in Ports

Next ==
    \/ Arrive
    \/ Callback
    \/ UartRead
    \/ Open
    \/ Close
    \/ PmPrepare
    \/ PmAbort
    \/ PmSuspend
    \/ PmResume

\* The callback runs from the DMA half/full interrupt and from the
\* periodic stm32_serial_dma_poll.
Spec == Init /\ [][Next]_vars /\ WF_vars(Callback)

-----------------------------------------------------------------------------
(* Properties.                                                             *)

TypeOK ==
    /\ fifo \in [0..(Size - 1) -> 0..MaxBytes]
    /\ ndtr \in 0..Size /\ rxdmanext \in 0..Size
    /\ {dmaon, rxenable, rxdmasusp} \subseteq BOOLEAN
    /\ recv \in Seq(0..MaxBytes) /\ Len(recv) < RecvSize
    /\ sent \in 0..MaxBytes /\ nread \in 0..sent
    /\ pm \in {"normal", "prepared", "standby"} /\ pms \in 0..MaxPm
    /\ {initialized, suspended} \subseteq BOOLEAN /\ opens \in 0..MaxOpen

\* What uart_recvchars put into the ring is exactly the next bytes the
\* line sent, in order: dmareceive never hands up a byte twice, a byte
\* read outside rxfifo, or a byte after skipping one (a channel restart
\* by dmareenable dropping unread bytes, a lapped buffer).
DeliveredInOrder == \A i \in 1..Len(recv) : recv[i] = nread + i

\* Every byte the line sends reaches the receive ring, and the port goes
\* on accepting bytes, provided the application keeps reading and PM
\* eventually leaves the port open and running: a flow-controlled channel stopped at
\* the end of rxfifo is restarted, and a channel suspended with unread
\* bytes is drained and restarted.
RxDelivered ==
    (WF_vars(UartRead) /\ <>[](pm = "normal" /\ initialized))
        => /\ \A n \in 1..MaxBytes : (sent >= n) ~> (nread + Len(recv) >= n)
           /\ []<>(sent = MaxBytes \/ LineMaySend)

\* setformat on a USART port sending its divisor to oversampling by 8
\* (from 8, its DEBUGASSERT, to 2000): the "mysterious operations on bits
\* 0-3" write a BRR with bit 3 clear, from which the USART reads back
\* usartdiv8 with only its lowest bit lost.
Over8Encoding ==
    LET u == Usartdiv8(port.apbclock, port.baud)
        b == UsartBrr(u)
    IN  ~port.lpuart /\ u >= 8 /\ UseOver8(u) =>
            /\ (b & 8) = 0
            /\ Over8Divisor(b) = u - (u % 2)

\* setformat on an LPUART port whose clock-to-baud ratio the prescaler can
\* bring into range (at most 256 * 4096): the else-if chain writes the
\* PRESC value whose divider it applied to apbclock_whole, and the divided
\* clock is at most 4096 times the baud rate, so BRR is computed for the
\* clock the LPUART really receives.
LpuartPrescaler ==
    LET pr == LpuartPresc(port.apbclock, port.baud)
    IN  port.lpuart /\ port.apbclock \div port.baud <= 256 * 4096 =>
            /\ pr.whole = port.apbclock \div PrescDiv[pr.presc + 1]
            /\ pr.whole \div port.baud <= 4096

\* On this port, a TCSETS that passes its checks programs the frame it
\* asks for and TCGETS reads it back: setformat sets 8 data bits, parity
\* enabled and odd, two stop bits and each flow control exactly as the
\* termios asks, and TCGETS reports the same parity, stop bits, flow
\* controls, CS8 and speed (PARODD without PARENB asks for nothing).
TermiosRoundTrip ==
    LET pins == [cts |-> port.cts, rts |-> port.rts]
        p0 == [parity |-> 0, stopbits2 |-> FALSE, oflow |-> FALSE,
               iflow |-> port.iflow, baud |-> port.baud]
    IN  \A t \in Termios({port.baud, 115200}) :
            LET p1 == TcSets(p0, t, pins)
                f == FrameBits(p1, port.bits, pins)
                asked == IF "PARENB" \in t.cflag THEN t.cflag
                         ELSE t.cflag \ {"PARODD"}
            IN  TcSetsValid(t, pins) =>
                    /\ TcGets(p1) = [t EXCEPT !.cflag = asked]
                    /\ DataBits(f) = 8
                    /\ ("PCE" \in f) = ("PARENB" \in asked)
                    /\ ("PS" \in f) = ("PARODD" \in asked)
                    /\ ("STOP2" \in f) = ("CSTOPB" \in asked)
                    /\ ("RTSE" \in f) = ("CRTS_IFLOW" \in asked)
                    /\ ("CTSE" \in f) = ("CCTS_OFLOW" \in asked)

=============================================================================

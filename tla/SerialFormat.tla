---------------------------- MODULE SerialFormat ----------------------------
(***************************************************************************)
(* The arithmetic of stm32serial_setformat and the termios translation of  *)
(* the TCGETS and TCSETS ioctls in src/arch/arm/src/stm32h5/stm32_serial.c, *)
(* as pure operators, with the reference each is checked against.         *)
(*                                                                         *)
(* Registers are natural numbers; C's &, | and >> are Bitwise's &, | and   *)
(* shiftR. SerialRxDma states what these operators must satisfy for the    *)
(* apbclock, baud and pins of its port.                                    *)
(***************************************************************************)
EXTENDS Integers, Bitwise

-----------------------------------------------------------------------------
(* USART: oversampling by 8 or 16.                                         *)

\* usartdiv8 = ((apbclock << 1) + (baud >> 1)) / baud: 2 * fCK / baud,
\* rounded.
Usartdiv8(clk, baud) == (2 * clk + shiftR(baud, 1)) \div baud

\* setformat uses oversampling by 8 only for a divisor of at most 2000.
UseOver8(u) == u <= 2000

\* A plausible bug, for mutation testing of Over8Encoding: bits 0-3 of
\* usartdiv8 are copied without the shift.
UsartBrrNoShift(u) ==
    IF UseOver8(u) THEN (u & 65520) | (u & 15) ELSE shiftR(u + 1, 1)

\* The BRR value written: (usartdiv8 + 1) >> 1 with OVER8 clear, or
\* "mysterious operations on bits 0-3" with OVER8 set.
UsartBrr(u) ==
    IF UseOver8(u) THEN (u & 65520) | shiftR(u & 15, 1)
    ELSE shiftR(u + 1, 1)

\* Reference (RM0481, USART baud rate generation): with OVER8 = 1 the
\* USART reads USARTDIV[15:4] from BRR[15:4] and USARTDIV[3:1] from
\* BRR[2:0], with USARTDIV[0] = 0; BRR[3] must be kept cleared.
Over8Divisor(brr) == (brr & 65520) + 2 * (brr & 7)

-----------------------------------------------------------------------------
(* LPUART: prescaler, then BRR = 256 * fCK / baud.                         *)

\* The PRESC encodings of RM0481: PRESC = k divides the kernel clock by
\* PrescDiv[k].
PrescDiv == <<1, 2, 4, 6, 8, 10, 12, 16, 32, 64, 128, 256>>

\* A plausible bug, for mutation testing of LpuartPrescaler: the divide
\* by 6 of PRESC 3 done as a shift by 3.
LpuartPrescShift(clk, baud) ==
    LET r == clk \div baud
    IN  CASE r <= 4096                 -> [presc |-> 0,  whole |-> clk]
          [] r > 4096 /\ r <= 8192     -> [presc |-> 1,  whole |-> shiftR(clk, 1)]
          [] r > 8192 /\ r <= 16384    -> [presc |-> 2,  whole |-> shiftR(clk, 2)]
          [] r > 16384 /\ r <= 24576   -> [presc |-> 3,  whole |-> shiftR(clk, 3)]
          [] r > 24576 /\ r <= 32768   -> [presc |-> 4,  whole |-> shiftR(clk, 3)]
          [] r > 32768 /\ r <= 40960   -> [presc |-> 5,  whole |-> clk \div 10]
          [] r > 40960 /\ r <= 49152   -> [presc |-> 6,  whole |-> clk \div 12]
          [] r > 49152 /\ r <= 65536   -> [presc |-> 7,  whole |-> shiftR(clk, 4)]
          [] r > 65536 /\ r <= 131072  -> [presc |-> 8,  whole |-> shiftR(clk, 5)]
          [] r > 131072 /\ r <= 262144 -> [presc |-> 9,  whole |-> shiftR(clk, 6)]
          [] r > 262144 /\ r <= 524288 -> [presc |-> 10, whole |-> shiftR(clk, 7)]
          [] OTHER                     -> [presc |-> 11, whole |-> shiftR(clk, 8)]

\* The else-if chain on clock_baud_ratio: the PRESC value written and the
\* clock apbclock_whole divided as the code divides it. The code tests
\* PRESC 7 as 32768 < r <= 65536; the branches before it leave
\* 49152 < r <= 65536.
LpuartPresc(clk, baud) ==
    LET r == clk \div baud
    IN  CASE r <= 4096                 -> [presc |-> 0,  whole |-> clk]
          [] r > 4096 /\ r <= 8192     -> [presc |-> 1,  whole |-> shiftR(clk, 1)]
          [] r > 8192 /\ r <= 16384    -> [presc |-> 2,  whole |-> shiftR(clk, 2)]
          [] r > 16384 /\ r <= 24576   -> [presc |-> 3,  whole |-> clk \div 6]
          [] r > 24576 /\ r <= 32768   -> [presc |-> 4,  whole |-> shiftR(clk, 3)]
          [] r > 32768 /\ r <= 40960   -> [presc |-> 5,  whole |-> clk \div 10]
          [] r > 40960 /\ r <= 49152   -> [presc |-> 6,  whole |-> clk \div 12]
          [] r > 49152 /\ r <= 65536   -> [presc |-> 7,  whole |-> shiftR(clk, 4)]
          [] r > 65536 /\ r <= 131072  -> [presc |-> 8,  whole |-> shiftR(clk, 5)]
          [] r > 131072 /\ r <= 262144 -> [presc |-> 9,  whole |-> shiftR(clk, 6)]
          [] r > 262144 /\ r <= 524288 -> [presc |-> 10, whole |-> shiftR(clk, 7)]
          [] OTHER                     -> [presc |-> 11, whole |-> shiftR(clk, 8)]

-----------------------------------------------------------------------------
(* The frame.                                                              *)

\* The CR1, CR2 and CR3 bits the rest of setformat programs from priv and
\* the port's word size priv->bits: PCE and PS for odd or even parity, M0
\* for a 9-bit word (9 bits, or 8 with parity), M1 for a 7-bit word (7
\* without parity), STOP2 for two stop bits, RTSE and CTSE for a flow
\* control whose pin the port has.
FrameBits(p, bits, pins) ==
    LET m0 == bits = 9 \/ (bits = 8 /\ p.parity # 0)
    IN  {b \in {"PCE", "PS", "M0", "M1", "STOP2", "RTSE", "CTSE"} :
            \/ b = "PCE" /\ p.parity # 0
            \/ b = "PS" /\ p.parity = 1
            \/ b = "M0" /\ m0
            \/ b = "M1" /\ ~m0 /\ bits = 7 /\ p.parity = 0
            \/ b = "STOP2" /\ p.stopbits2
            \/ b = "RTSE" /\ p.iflow /\ pins.rts
            \/ b = "CTSE" /\ p.oflow /\ pins.cts}

\* Reference (RM0481, USART_CR1): M1:M0 select a 7-, 8- or 9-bit word,
\* and with PCE the parity bit takes the word's most significant bit.
DataBits(f) ==
    (IF "M0" \in f THEN 9 ELSE IF "M1" \in f THEN 7 ELSE 8)
        - (IF "PCE" \in f THEN 1 ELSE 0)

-----------------------------------------------------------------------------
(* TCGETS and TCSETS (CONFIG_SERIAL_TERMIOS, with both flow controls).     *)

\* The c_cflag bits the driver reads or reports, and the word sizes.
CFlags == {"PARENB", "PARODD", "CSTOPB", "CCTS_OFLOW", "CRTS_IFLOW"}
CSizes == {5, 6, 7, 8}

\* The termios fields the ioctls use: c_cflag as its set bits and CSIZE,
\* and the speed cfgetispeed/cfsetispeed access.
Termios(Speeds) == [cflag : SUBSET CFlags, csize : CSizes, speed : Speeds]

\* TCSETS's sanity checks: CS8 only, and a flow control only on a port
\* with its pin (priv->cts_gpio, priv->rts_gpio).
TcSetsValid(t, pins) ==
    /\ t.csize = 8
    /\ "CCTS_OFLOW" \in t.cflag => pins.cts
    /\ "CRTS_IFLOW" \in t.cflag => pins.rts

\* TCSETS: -EINVAL leaves the port as it was; otherwise parity (1 odd,
\* 2 even), stopbits2, oflow, iflow and baud are taken from the termios,
\* and setformat programs them.
TcSets(p, t, pins) ==
    IF ~TcSetsValid(t, pins) THEN p
    ELSE [parity    |-> IF "PARENB" \in t.cflag
                        THEN IF "PARODD" \in t.cflag THEN 1 ELSE 2
                        ELSE 0,
          stopbits2 |-> "CSTOPB" \in t.cflag,
          oflow     |-> "CCTS_OFLOW" \in t.cflag,
          iflow     |-> "CRTS_IFLOW" \in t.cflag,
          baud      |-> t.speed]

\* A plausible bug, for mutation testing of TermiosRoundTrip: TCGETS
\* reports PARODD for the even parity code.
TcGetsEvenOdd(p) ==
    [cflag |-> {f \in CFlags : \/ f = "PARENB" /\ p.parity # 0
                               \/ f = "PARODD" /\ p.parity = 2
                               \/ f = "CSTOPB" /\ p.stopbits2
                               \/ f = "CCTS_OFLOW" /\ p.oflow
                               \/ f = "CRTS_IFLOW" /\ p.iflow},
     csize |-> 8,
     speed |-> p.baud]

\* TCGETS: the speed, and c_cflag rebuilt from priv with CS8.
TcGets(p) ==
    [cflag |-> {f \in CFlags : \/ f = "PARENB" /\ p.parity # 0
                               \/ f = "PARODD" /\ p.parity = 1
                               \/ f = "CSTOPB" /\ p.stopbits2
                               \/ f = "CCTS_OFLOW" /\ p.oflow
                               \/ f = "CRTS_IFLOW" /\ p.iflow},
     csize |-> 8,
     speed |-> p.baud]

=============================================================================

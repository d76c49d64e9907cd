--------------------------- MODULE MC_SerialRxDma ---------------------------
(***************************************************************************)
(* Port configurations for checking SerialRxDma.                           *)
(***************************************************************************)
EXTENDS SerialRxDma

\* Kernel clocks: a 16 MHz-class clock (2^24 Hz, so that ratios fall on
\* the prescaler's boundaries) and the 250 MHz maximum PCLK.
MC_Clocks == {16777216, 250000000}

\* Baud rates that take every branch of setformat at those clocks: each
\* LPUART prescaler range and its upper bound, and USART divisors from 17
\* (oversampling by 8) to above 2000 (oversampling by 16).
MC_Bauds == {2, 64, 256, 380, 512, 683, 1024, 1500, 2048, 4096, 6500, 40000,
             115200, 921600, 2000000}

\* No flow control, on the circular channel serial_rxdmacfg programs, on
\* a USART or the LPUART without CTS/RTS pins, with 8-bit words (the
\* default CONFIG_<port>_BITS), at each clock and rate. The
\* sender keeps quiet between pmprepare and pmnotify: setsuspend's comment
\* already says such a port may lose bytes received before suspending.
MC_CircularPorts ==
    {[iflow |-> FALSE, circular |-> TRUE, pmwindow |-> FALSE, lpuart |-> l,
      apbclock |-> c, baud |-> b, bits |-> 8, cts |-> FALSE, rts |-> FALSE] :
        l \in BOOLEAN, c \in MC_Clocks, b \in MC_Bauds}

\* Flow control on the one-shot channel that serial_rxdmacfg's description
\* and dmasetup's comment assume; bytes may arrive in the PM window.
MC_IflowOneShot ==
    [iflow |-> TRUE, circular |-> FALSE, pmwindow |-> TRUE, lpuart |-> FALSE,
     apbclock |-> 250000000, baud |-> 115200, bits |-> 8, cts |-> TRUE, rts |-> TRUE]

\* Flow control on the circular channel serial_rxdmacfg programs.
MC_IflowCircular ==
    [iflow |-> TRUE, circular |-> TRUE, pmwindow |-> FALSE, lpuart |-> FALSE,
     apbclock |-> 250000000, baud |-> 115200, bits |-> 8, cts |-> TRUE, rts |-> TRUE]

MC_PassPorts == MC_CircularPorts \cup {MC_IflowOneShot}
MC_IflowCircularPorts == {MC_IflowCircular}

=============================================================================

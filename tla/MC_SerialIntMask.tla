-------------------------- MODULE MC_SerialIntMask --------------------------
(***************************************************************************)
(* Port configurations for checking SerialIntMask.                         *)
(***************************************************************************)
EXTENDS SerialIntMask

\* BSD breaks, no up_putc on this port and no PM.
MC_BreakOnly == [brk |-> TRUE, putc |-> FALSE, pm |-> FALSE, interleave |-> FALSE,
                 iflow |-> FALSE]

\* The console with PM; the upper half makes no call while up_putc is
\* between its steps or while the port is suspended.
MC_PmPutc == [brk |-> FALSE, putc |-> TRUE, pm |-> TRUE, interleave |-> FALSE,
                 iflow |-> FALSE]

\* A port other than the console with PM: closing it shuts it down, and
\* PM skips it until it is open again.
MC_PmPort == [brk |-> FALSE, putc |-> FALSE, pm |-> TRUE, interleave |-> FALSE,
                 iflow |-> FALSE]

\* A console with BSD breaks, up_putc between upper-half calls.
MC_BreakPutc == [brk |-> TRUE, putc |-> TRUE, pm |-> FALSE, interleave |-> FALSE,
                 iflow |-> FALSE]

\* Upper-half calls may run while up_putc is between its two steps.
MC_PutcRace == [brk |-> FALSE, putc |-> TRUE, pm |-> FALSE, interleave |-> TRUE,
                 iflow |-> FALSE]

\* Upper-half calls may run while the port is suspended.
MC_SuspendTx == [brk |-> FALSE, putc |-> FALSE, pm |-> TRUE, interleave |-> TRUE,
                 iflow |-> FALSE]

\* The console with PM and input flow control: RTS is driven by the
\* USART and a full receive buffer disables the RX interrupt.
MC_IflowConsole == [brk |-> FALSE, putc |-> TRUE, pm |-> TRUE,
                    interleave |-> FALSE, iflow |-> TRUE]

MC_PassConfs == {MC_BreakOnly, MC_PmPutc, MC_PmPort, MC_IflowConsole}
MC_BreakPutcConfs == {MC_BreakPutc}
MC_PutcRaceConfs == {MC_PutcRace}
MC_SuspendTxConfs == {MC_SuspendTx}

=============================================================================

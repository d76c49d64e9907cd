\* BSD breaks alone, up_putc with PM suspend/resume, and PM on a port that
\* is closed and reopened, and the console with input flow control.
CONSTANTS
    MaxTx = 3
    MaxRx = 3
    MaxPutc = 2
    MaxPm = 2
    MaxOpen = 1
    RxBufSize = 2
    Confs <- MC_PassConfs

SPECIFICATION Spec

INVARIANT TypeOK
INVARIANT MaskMatchesUpperHalf
INVARIANT RxNoLossWithIflow
INVARIANT ThrottleOnlyWhileBuffered
PROPERTY NoTxDuringBreak
PROPERTY TxDelivered
PROPERTY RxServed
PROPERTY NoInterruptStorm

\* A BSD break on the console port, with up_putc between upper-half calls.
CONSTANTS
    MaxTx = 2
    MaxRx = 1
    MaxPutc = 1
    MaxPm = 0
    MaxOpen = 1
    RxBufSize = 1
    Confs <- MC_BreakPutcConfs

SPECIFICATION Spec

PROPERTY NoTxDuringBreak

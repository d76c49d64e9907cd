\* Upper-half calls may run while up_putc is between its two steps.
CONSTANTS
    MaxTx = 2
    MaxRx = 1
    MaxPutc = 1
    MaxPm = 0
    MaxOpen = 1
    RxBufSize = 1
    Confs <- MC_PutcRaceConfs

SPECIFICATION Spec

PROPERTY TxDelivered

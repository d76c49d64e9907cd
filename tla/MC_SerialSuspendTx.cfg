\* Upper-half calls may run while the port is suspended.
CONSTANTS
    MaxTx = 2
    MaxRx = 1
    MaxPutc = 0
    MaxPm = 1
    MaxOpen = 1
    RxBufSize = 1
    Confs <- MC_SuspendTxConfs

SPECIFICATION Spec

PROPERTY NoTxWhileSuspended

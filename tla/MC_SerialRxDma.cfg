\* Ports without flow control at every clock and rate, and a flow-controlled
\* one-shot port.
CONSTANTS
    Size = 3
    RecvSize = 3
    MaxBytes = 5
    MaxPm = 2
    MaxOpen = 1
    Ports <- MC_PassPorts

SPECIFICATION Spec

INVARIANT TypeOK
INVARIANT DeliveredInOrder
PROPERTY RxDelivered
INVARIANT Over8Encoding
INVARIANT LpuartPrescaler
INVARIANT TermiosRoundTrip

\* A flow-controlled port on the circular channel.
CONSTANTS
    Size = 3
    RecvSize = 3
    MaxBytes = 5
    MaxPm = 2
    MaxOpen = 1
    Ports <- MC_IflowCircularPorts

SPECIFICATION Spec

INVARIANT DeliveredInOrder

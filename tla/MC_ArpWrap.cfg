CONSTANTS
    d1 = d1
    d2 = d2
    m1 = m1
    m2 = m2
    NoDev = NoDev
    ZeroMac = ZeroMac
    NullEth = NullEth
    N = 2
    Devs <- MC_Devs
    Macs <- MC_Macs
    Addrs = {1, 2}
    TickBits = 2
    IntBits = 2
    MaxAge = 1
    MaxClock = 5
    EthDevs = {d1}
    DevIp <- MC_DevIp
    DevMac <- MC_DevMac

SPECIFICATION Spec

INVARIANT FindAgreesWithCache

SPECIFICATION FairSpec
CONSTANTS
    m1 = m1
    m2 = m2
    Threads = {1}
    Macs = {m1, m2}
    Bufs = {1, 2, 3}
    UcMacs = {m1}
    MacLists <- Lists
    MaxVer = 2
INVARIANTS NoFreedUse HandlesAccounted EndpointsAccounted PacketByCurrentPolicy
PROPERTY ControlReturns

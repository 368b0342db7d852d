SPECIFICATION ConnectionSpec
CONSTANTS
    Rows <- MCRows
    Usable <- MCUsable
    WireGuard <- MCWireGuard
    PoolSize <- MCPoolSize
    Orders <- MCOrders
    Service = {TRUE}
    MaxInstalls = 1
    MaxDepth = 2
    MaxSignals = 3
    MaxCalls = 2
    MaxRequests = 2
INVARIANT DisplayAgrees
CHECK_DEADLOCK FALSE

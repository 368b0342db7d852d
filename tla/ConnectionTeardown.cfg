SPECIFICATION ConnectionSpec
CONSTANTS
    Rows <- MCRows
    Usable <- MCUsable
    WireGuard <- MCWireGuard
    PoolSize <- MCPoolSize
    Orders <- MCOrders
    Service = {TRUE}
    MaxInstalls = 0
    MaxDepth = 1
    MaxSignals = 3
    MaxCalls = 2
    MaxRequests = 2
PROPERTY TeardownIsNoFailure
CHECK_DEADLOCK FALSE

SPECIFICATION ConnectionSpec
CONSTANTS
    Rows <- MCRows
    Usable <- MCUsable
    WireGuard <- MCWireGuard
    PoolSize <- MCXrayPool
    Orders <- MCOrders
    Service = {TRUE}
    MaxInstalls = 0
    MaxDepth = 1
    MaxSignals = 3
    MaxCalls = 2
    MaxRequests = 1
PROPERTY WorkingTunnelKept
CHECK_DEADLOCK FALSE

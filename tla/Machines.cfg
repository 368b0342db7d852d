SPECIFICATION MachinesSpec
CONSTANTS
    Rows <- MCRows
    WireGuard <- MCWireGuard
    PoolSize <- MCPoolSize
    Orders <- MCOrders
    Service = {TRUE, FALSE}
    MaxInstalls = 2
    MaxRequests = 3
    MaxSockets = 3
    MaxLinks = 3
    LinkRetries = 3
    MaxPipe = 3
    MaxTunnels = 3
INVARIANTS
    WaitsWatched CancelIsFinal
     ConnectedIsReal NoOrphanTunnel
PROPERTIES
    ControllerSettles LinkSettles  DeadTunnelIsNoticed
CHECK_DEADLOCK FALSE

SPECIFICATION StateSpec
CONSTANTS
    Values = {"v1", "v2"}
    NoValue = "none"
    MaxKey = 4
    KeychainFaults = FALSE
    SiteNames = {"h"}
    SiteNets = {"n"}
    AddressesOf <- MCAddressesOf
    SettingsOps = 3
    MaxPublished = 2
    MaxFetches = 2
    Domains = {"s1"}
    Subnets = {"n1"}
    Addrs = {"a1", "a2"}
    Gateways = {"g1", "g2"}
    MaxEvents = 3
    WcmRows = 3
    Links = {"eth", "wifi"}
    MaxUpdates = 3
    Ips <- MCIps
    PrefixLengths = {0, 1, 8, 12, 24, 31, 32}
    Gates <- MCGates
    WfpPeers = {"p1", "p2"}
    WfpFaults = {"begin", "commit"}
    WrIfs <- MCWrIfs
    LanRange <- MCLanRange
    ServerPrefix <- MCServerPrefix
    SysPrefixes <- MCSysPrefixes
    QuickReconnect = FALSE
    StApps = {"a", "unc"}
    Unconvertible = {"unc"}
    StFaults = {"open", "reset", "init", "procs", "apps", "ips"}
    MacHops <- MCMacHops
    MacMessages = 1
INVARIANTS
    ListSurvives  
     SessionLeavesNothing  RequestIsServed
        MacRoutesFollow
PROPERTIES
    CleanupSparesNewSession
CHECK_DEADLOCK FALSE

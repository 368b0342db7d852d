SPECIFICATION Spec
CONSTANTS
    k1 = k1
    k2 = k2
    srv = srv
    sub = sub
    bad = bad
    p1 = p1
    None = None
    Default = Default
    Clients = {c1}
    Keys = {k1, k2}
    Addrs = {srv, sub, bad}
    Prefixes = {Default, p1, lan}
    Local = {lan}
    BadAddrs = {bad}
    Configs <- AllConfigs
    MaxRef = 3
INVARIANTS
    OneDeactivation
    NoRouteLeak
    ExclusionsHaveRoutes

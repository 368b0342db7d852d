SPECIFICATION FairSpec
CONSTANTS
    k1 = k1
    k2 = k2
    srv = srv
    sub = sub
    bad = bad
    p1 = p1
    None = None
    Default = Default
    Clients = {c1}
    Keys = {k1}
    Addrs = {srv}
    Prefixes = {Default}
    Local = {}
    BadAddrs = {}
    Configs <- Replaced
    MaxRef = 2
PROPERTIES
    HandlersReturn
    HandshakeNoticed

SPECIFICATION Spec
CONSTANTS
    srv = srv
    site = site
    net4 = net4
    net6 = net6
    gw = gw
    lan = lan
    bcast = bcast
    None = None
    Hosts <- MCHosts
    Hosts6 = {net6}
    Lan = {lan, bcast}
    Broadcast = {bcast}
    Gateways = {gw}
    Configs <- MCConfigs
    CrashInInstall = FALSE
INVARIANTS
    NoGapInShield
    StrictBlocks
    ArmedVerdicts
    DisableRestores

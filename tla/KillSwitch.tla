----------------------------- MODULE KillSwitch -----------------------------
(***************************************************************************)
(* The kill switch of the privileged service on Linux: KillSwitch          *)
(* (service/server/killswitch.cpp), the iptables anchors it drives         *)
(* (LinuxFirewall) and the anchors that WireguardUtilsLinux sets itself    *)
(* when it brings a WireGuard interface up.                                *)
(*                                                                         *)
(* A handler of the service is a sequence of iptables commands, each one a *)
(* process the service waits for.  The model executes them one at a time,  *)
(* so that a packet may be filtered between any two of them and the        *)
(* service may die between any two of them.  The rules live in the kernel  *)
(* and outlive the service, the strict flag lives in its settings file.    *)
(***************************************************************************)
EXTENDS Integers, Sequences, FiniteSets

CONSTANTS
    Hosts,      \* destination addresses
    Hosts6,     \* the ones that are IPv6
    Lan,        \* the ones inside the ranges of 300.allowLAN
    Broadcast,  \* the broadcast and multicast ones among those, where DHCP goes
    Gateways,   \* API gateways the client asks an exception for
    Configs,    \* the connection configurations the client may send
    CrashInInstall, \* may the service die while install() links the chains?
    None        \* "no configuration"

ASSUME HostsAssumption ==
    /\ Hosts6 \subseteq Hosts /\ Lan \subseteq Hosts /\ Broadcast \subseteq Lan
    /\ Gateways \subseteq Hosts \ Hosts6 /\ CrashInInstall \in BOOLEAN

(* A configuration: the protocol that applies it, the site split-tunnel    *)
(* type (0 off, 1 only the sites, 2 all but the sites), the VPN server,    *)
(* the sites, the local subnet exclusions, the resolvers of the tunnel and *)
(* the DNS exceptions of the user.                                         *)
ASSUME ConfigsAssumption ==
    /\ Configs \subseteq [kind: {"xray", "wg"}, split: 0..2, server: Hosts \ Hosts6, sites: SUBSET Hosts,
                          local: SUBSET Hosts, dns: SUBSET Hosts, allowedDns: SUBSET Hosts]
    /\ None \notin Configs

VARIABLES
    strict,         \* Conf/strictKillSwitchEnabled, persisted
    linked,         \* the IP families whose root chain is linked into OUTPUT
    enabled,        \* the anchors that jump to their rules, per IP family
    allowNets,      \* rules of 110.allowNets
    blockNets,      \* rules of 120.blockNets
    dnsServers,     \* rules of 320.allowDNS
    allowedRanges,  \* m_allowedRanges
    up,             \* the service runs
    todo,           \* the iptables commands the running handler has left
    goal,           \* what the last handler promises once it completes
    armed,          \* history: the configuration whose rules are applied
    shielded,       \* history: nothing may leave outside the tunnel ...
    granted         \* history: ... but to these hosts and the LAN

firewall == <<linked, enabled, allowNets, blockNets, dnsServers>>
promises == <<armed, shielded, granted>>
vars == <<strict, firewall, allowedRanges, up, todo, goal, promises>>
-----------------------------------------------------------------------------
MutRootChain == <<"000.allowLoopback", "320.allowDNS", "300.allowLAN", "310.blockDNS", "290.allowDHCP",
                  "250.blockIPv6", "200.allowVPN", "120.blockNets", "110.allowNets", "100.blockAll">>

(* The filter table.  The anchors are linked into the root chain in the    *)
(* order install() creates them, and that is the order packets meet them.  *)
RootChain == <<"000.allowLoopback", "320.allowDNS", "310.blockDNS", "300.allowLAN", "290.allowDHCP",
               "250.blockIPv6", "200.allowVPN", "120.blockNets", "110.allowNets", "100.blockAll">>

IPv4 == {4}
IPv6 == {6}
Both == {4, 6}

(* The families install() creates an anchor for; 400.allowPIA is switched  *)
(* on and off but never created.                                           *)
InstalledFor(anchor) ==
    CASE anchor \in {"320.allowDNS", "120.blockNets"} -> IPv4
      [] anchor = "250.blockIPv6" -> IPv6
      [] anchor = "400.allowPIA" -> {}
      [] OTHER -> Both

Packets == [dst: Hosts, out: {"lo", "vpn", "phys"}, port: {"dns", "dhcp", "other"}]
Family(p) == IF p.dst \in Hosts6 THEN 6 ELSE 4

Accepting == {"000.allowLoopback", "320.allowDNS", "300.allowLAN", "290.allowDHCP", "200.allowVPN", "110.allowNets"}

Matches(anchor, p) ==
    CASE anchor = "000.allowLoopback" -> p.out = "lo"
      [] anchor = "320.allowDNS" -> p.out = "vpn" /\ p.port = "dns" /\ p.dst \in dnsServers
      [] anchor = "310.blockDNS" -> p.port = "dns"
      [] anchor = "300.allowLAN" -> p.dst \in Lan
      [] anchor = "290.allowDHCP" -> p.port = "dhcp" /\ p.dst \in Broadcast
      [] anchor = "250.blockIPv6" -> p.out # "lo"
      [] anchor = "200.allowVPN" -> p.out = "vpn"
      [] anchor = "120.blockNets" -> p.dst \in blockNets
      [] anchor = "110.allowNets" -> p.dst \in allowNets
      [] anchor = "100.blockAll" -> TRUE

Hits(i, p) == <<RootChain[i], Family(p)>> \in enabled /\ Matches(RootChain[i], p)

(* The first rule that matches decides, and what no rule matches leaves.   *)
Rejected(p) ==
    /\ Family(p) \in linked
    /\ \E i \in 1..Len(RootChain) :
          /\ Hits(i, p) /\ RootChain[i] \notin Accepting
          /\ \A j \in 1..(i - 1) : Hits(j, p) => RootChain[j] \notin Accepting
-----------------------------------------------------------------------------
(* Commands.                                                               *)
SetAnchorEnabled(fams, anchor, on) == [op |-> "anchor", anchor |-> anchor, fams |-> fams, on |-> on]
(* The update functions flush the chain before they append the rules.      *)
UpdateAllowNets(nets) == <<[op |-> "allowNets", nets |-> {}], [op |-> "allowNets", nets |-> nets]>>
UpdateBlockNets(nets) == <<[op |-> "blockNets", nets |-> {}], [op |-> "blockNets", nets |-> nets]>>
UpdateDNSServers(nets) == <<[op |-> "dnsServers", nets |-> {}], [op |-> "dnsServers", nets |-> nets]>>
LinkRoot == <<[op |-> "link", fam |-> 4], [op |-> "link", fam |-> 6]>>
(* install() starts with uninstall(), creates the chains, which no packet  *)
(* meets yet, and links the root chains last; uninstall() unlinks them     *)
(* first.  So "wipe" stands for the commands no packet can tell apart.     *)
Uninstall == <<[op |-> "unlink", fam |-> 4], [op |-> "wipe"]>>
Install == Uninstall \o LinkRoot

(* isInstalled() asks iptables, and does not ask ip6tables.                *)
IsInstalled == 4 \in linked
EnsureInstalled == IF IsInstalled THEN <<>> ELSE Install

(* iptables refuses to switch a chain install() does not create.  Where    *)
(* nothing is installed every command fails; executing it here instead     *)
(* changes rules no packet meets, and the next install() wipes them.       *)
ExecAnchor(c) ==
    LET entries == {c.anchor} \X (c.fams \cap InstalledFor(c.anchor))
    IN  /\ enabled' = IF c.on THEN enabled \cup entries ELSE enabled \ entries
        /\ UNCHANGED <<linked, allowNets, blockNets, dnsServers>>

ExecNets(c) ==
    /\ allowNets' = IF c.op = "allowNets" THEN c.nets ELSE allowNets
    /\ blockNets' = IF c.op = "blockNets" THEN c.nets \ Hosts6 ELSE blockNets
    /\ dnsServers' = IF c.op = "dnsServers" THEN c.nets \ Hosts6 ELSE dnsServers
    /\ UNCHANGED <<linked, enabled>>

ExecLink(c) ==
    /\ linked' = IF c.op = "link" THEN linked \cup {c.fam} ELSE linked \ {c.fam}
    /\ UNCHANGED <<enabled, allowNets, blockNets, dnsServers>>

ExecWipe ==
    /\ linked' = {} /\ enabled' = {}
    /\ allowNets' = {} /\ blockNets' = {} /\ dnsServers' = {}

Exec(c) ==
    CASE c.op = "anchor" -> ExecAnchor(c)
      [] c.op \in {"allowNets", "blockNets", "dnsServers"} -> ExecNets(c)
      [] c.op \in {"link", "unlink"} -> ExecLink(c)
      [] c.op = "wipe" -> ExecWipe
-----------------------------------------------------------------------------
(* What each handler executes.                                             *)
MutDisableKillSwitchProgram(keepBlocked) ==
    << SetAnchorEnabled(Both, "000.allowLoopback", TRUE),
       SetAnchorEnabled(IPv4, "110.allowNets", FALSE),
       SetAnchorEnabled(IPv4, "200.allowVPN", FALSE),
       SetAnchorEnabled(IPv6, "250.blockIPv6", FALSE) >>
    \o (IF keepBlocked THEN <<SetAnchorEnabled(Both, "100.blockAll", TRUE)>> ELSE <<>>)

DisableKillSwitchProgram(keepBlocked) ==
    << SetAnchorEnabled(Both, "000.allowLoopback", TRUE),
       SetAnchorEnabled(Both, "100.blockAll", keepBlocked),
       SetAnchorEnabled(IPv4, "110.allowNets", FALSE),
       SetAnchorEnabled(IPv4, "120.blockNets", FALSE),
       SetAnchorEnabled(IPv4, "200.allowVPN", FALSE),
       SetAnchorEnabled(IPv6, "250.blockIPv6", keepBlocked),
       SetAnchorEnabled(Both, "290.allowDHCP", ~keepBlocked),
       SetAnchorEnabled(Both, "300.allowLAN", ~keepBlocked),
       SetAnchorEnabled(IPv4, "310.blockDNS", FALSE),
       SetAnchorEnabled(IPv4, "320.allowDNS", ~keepBlocked),
       SetAnchorEnabled(Both, "400.allowPIA", FALSE) >>
    \o (IF keepBlocked THEN <<>> ELSE Uninstall)

MutDisableAllTrafficProgram ==
    EnsureInstalled \o <<SetAnchorEnabled(Both, "000.allowLoopback", TRUE),
                         SetAnchorEnabled(IPv6, "250.blockIPv6", TRUE)>>

DisableAllTrafficProgram ==
    EnsureInstalled \o <<SetAnchorEnabled(Both, "100.blockAll", TRUE),
                         SetAnchorEnabled(Both, "000.allowLoopback", TRUE),
                         SetAnchorEnabled(IPv6, "250.blockIPv6", TRUE)>>

ResetAllowedRangeProgram(ranges) ==
    <<SetAnchorEnabled(IPv4, "110.allowNets", TRUE)>> \o UpdateAllowNets(ranges)

(* The commands enableKillSwitch() and applyFirewallRules() share, from    *)
(* 000.allowLoopback to 400.allowPIA.                                      *)
ArmProgram(blockAll, allowFams, allowOn, allow, blockOn, block, dns) ==
    << SetAnchorEnabled(Both, "000.allowLoopback", TRUE),
       SetAnchorEnabled(Both, "100.blockAll", blockAll),
       SetAnchorEnabled(allowFams, "110.allowNets", allowOn) >>
    \o UpdateAllowNets(allow)
    \o << SetAnchorEnabled(IPv4, "120.blockNets", blockOn) >>
    \o UpdateBlockNets(block)
    \o << SetAnchorEnabled(IPv4, "200.allowVPN", TRUE),
          SetAnchorEnabled(IPv6, "250.blockIPv6", TRUE),
          SetAnchorEnabled(Both, "290.allowDHCP", TRUE),
          SetAnchorEnabled(Both, "300.allowLAN", TRUE),
          SetAnchorEnabled(IPv4, "310.blockDNS", TRUE) >>
    \o UpdateDNSServers(dns)
    \o << SetAnchorEnabled(IPv4, "320.allowDNS", TRUE),
          SetAnchorEnabled(Both, "400.allowPIA", TRUE) >>

Full(cfg) == cfg.split # 1
ExcludedSites(cfg) == IF cfg.split = 2 THEN cfg.sites ELSE {}
TunnelledSites(cfg) == IF cfg.split = 1 THEN cfg.sites ELSE {}

(* enableKillSwitch(), which XrayProtocol calls.  It passes blockAll where *)
(* it switches 120.blockNets.                                              *)
EnableKillSwitchProgram(cfg) ==
    EnsureInstalled \o
    ArmProgram(Full(cfg), IPv4, Full(cfg), IF Full(cfg) THEN {cfg.server} \cup ExcludedSites(cfg) ELSE {},
               Full(cfg), TunnelledSites(cfg), cfg.dns \cup cfg.allowedDns)

(* The excludedAddresses of the activate message.                          *)
ExcludedAddresses(cfg) == {cfg.server} \cup cfg.local \cup ExcludedSites(cfg)

(* addInterface() and applyFirewallRules() of WireguardUtilsLinux; the     *)
(* allowed ranges hold 0.0.0.0/0 unless the split tunnel is of type 1.     *)
ApplyFirewallRulesProgram(cfg) ==
    EnsureInstalled \o LinkRoot \o
    ArmProgram(Full(cfg), Both, TRUE, ExcludedAddresses(cfg), ~Full(cfg), TunnelledSites(cfg), cfg.dns)

EnableProgram(cfg) == IF cfg.kind = "xray" THEN EnableKillSwitchProgram(cfg) ELSE ApplyFirewallRulesProgram(cfg)

(* The hosts a configuration leaves reachable outside the tunnel.          *)
Outside(cfg) == IF cfg.kind = "wg" THEN ExcludedAddresses(cfg) ELSE {cfg.server} \cup ExcludedSites(cfg)
-----------------------------------------------------------------------------
NoGoal == [arm |-> None, shield |-> FALSE, grant |-> {}, opens |-> FALSE]

Init ==
    /\ strict \in BOOLEAN
    /\ linked = {} /\ enabled = {} /\ allowNets = {} /\ blockNets = {} /\ dnsServers = {}
    /\ allowedRanges = {} /\ up = FALSE /\ todo = <<>> /\ goal = NoGoal
    /\ armed = None /\ shielded = FALSE /\ granted = {}

Idle == up /\ todo = <<>>

(* The service is single-threaded and waits for each command, so a handler *)
(* runs to its end before the next one.  A promise that the handler keeps  *)
(* holds while it runs, one that it makes holds once it is through.  What  *)
(* 110.allowNets held before is granted again until its rules are          *)
(* replaced, because the anchor is switched on first.                      *)
Start(program, kept, revived, g) ==
    /\ todo' = program
    /\ goal' = g
    /\ armed' = kept
    /\ shielded' = (shielded /\ g.shield)
    /\ granted' = granted \cup g.grant \cup revived
    /\ UNCHANGED firewall

Step ==
    /\ up /\ todo # <<>>
    /\ Exec(Head(todo))
    /\ todo' = Tail(todo)
    /\ IF Len(todo) = 1 THEN armed' = goal.arm /\ shielded' = goal.shield /\ granted' = goal.grant
       ELSE UNCHANGED promises
    /\ UNCHANGED <<strict, allowedRanges, up, goal>>

DisableAllTraffic ==
    /\ Start(DisableAllTrafficProgram, armed, {}, [arm |-> armed, shield |-> TRUE, grant |-> granted, opens |-> FALSE])
    /\ allowedRanges' = {}

DisableKillSwitch(keepBlocked) ==
    /\ Start(DisableKillSwitchProgram(keepBlocked), None, {},
             [arm |-> None, shield |-> keepBlocked, grant |-> {}, opens |-> ~keepBlocked])
    /\ allowedRanges' = {}

(* The service starts: init().                                             *)
InitService ==
    /\ ~up
    /\ up' = TRUE
    /\ IF strict THEN DisableAllTraffic
       ELSE allowedRanges' = {} /\ UNCHANGED <<firewall, todo, goal, promises>>
    /\ UNCHANGED strict

(* refresh(): the user switches the strict mode on or off.                 *)
Refresh(on) ==
    /\ Idle
    /\ strict' = on
    /\ IF on THEN DisableAllTraffic ELSE DisableKillSwitch(FALSE)
    /\ UNCHANGED up

Disable == Idle /\ DisableKillSwitch(strict) /\ UNCHANGED <<strict, up>>

Enable(cfg) ==
    /\ Idle
    /\ Start(EnableProgram(cfg), None, allowNets, [arm |-> cfg, shield |-> Full(cfg), grant |-> Outside(cfg), opens |-> FALSE])
    /\ UNCHANGED <<strict, allowedRanges, up>>

MutAddAllowedRange(h) ==
    /\ Idle /\ strict
    /\ allowedRanges' = allowedRanges \cup {h}
    /\ Start(<<SetAnchorEnabled(IPv4, "110.allowNets", TRUE),
               [op |-> "allowNets", nets |-> allowNets \cup allowedRanges']>>, armed, allowNets,
             [arm |-> armed, shield |-> shielded, grant |-> allowedRanges', opens |-> FALSE])
    /\ UNCHANGED <<strict, up>>

(* addAllowedRange(), which the client calls for its API gateways in the   *)
(* strict mode: the list of the kill switch replaces the chain's rules.    *)
AddAllowedRange(h) ==
    /\ Idle /\ strict
    /\ allowedRanges' = allowedRanges \cup {h}
    /\ Start(ResetAllowedRangeProgram(allowedRanges'), armed, allowNets,
             [arm |-> armed, shield |-> shielded, grant |-> allowedRanges', opens |-> FALSE])
    /\ UNCHANGED <<strict, up>>

Installing == \E i \in 1..Len(todo) : todo[i].op = "link"

(* The service dies; the rules stay in the kernel.                         *)
Crash ==
    /\ up
    /\ CrashInInstall \/ ~Installing
    /\ up' = FALSE /\ todo' = <<>> /\ allowedRanges' = {}
    /\ goal' = IF todo = <<>> THEN goal ELSE NoGoal
    /\ UNCHANGED <<strict, firewall, promises>>

(* The machine restarts; the rules are gone, the settings file stays.      *)
Reboot ==
    /\ up' = FALSE /\ todo' = <<>> /\ allowedRanges' = {} /\ goal' = NoGoal
    /\ linked' = {} /\ enabled' = {} /\ allowNets' = {} /\ blockNets' = {} /\ dnsServers' = {}
    /\ armed' = None /\ shielded' = FALSE /\ granted' = {}
    /\ UNCHANGED strict

Next ==
    \/ Step \/ InitService \/ Disable \/ Crash \/ Reboot
    \/ \E on \in BOOLEAN : Refresh(on)
    \/ \E cfg \in Configs : Enable(cfg)
    \/ \E h \in Gateways : AddAllowedRange(h)

Spec == Init /\ [][Next]_vars
-----------------------------------------------------------------------------
Anchors == {RootChain[i] : i \in 1..Len(RootChain)}
CreatedChains == {e \in Anchors \X Both : e[2] \in InstalledFor(e[1])}
Goals == [arm: Configs \cup {None}, shield: BOOLEAN, grant: SUBSET Hosts, opens: BOOLEAN]

(* Type correctness: iptables only ever holds chains install() created.    *)
TypeOK ==
    /\ strict \in BOOLEAN /\ up \in BOOLEAN /\ shielded \in BOOLEAN
    /\ linked \subseteq Both
    /\ enabled \subseteq CreatedChains
    /\ allowNets \subseteq Hosts /\ blockNets \subseteq Hosts \ Hosts6 /\ dnsServers \subseteq Hosts \ Hosts6
    /\ allowedRanges \subseteq Gateways /\ granted \subseteq Hosts
    /\ armed \in Configs \cup {None}
    /\ goal \in Goals

(* The packets of the machine itself to the internet, outside the tunnel.  *)
Bypassing == {p \in Packets : p.out = "phys" /\ p.dst \notin Lan}

(* Once a full-tunnel kill switch or the strict block is in place, no      *)
(* packet leaves outside the tunnel but to the hosts granted: not between  *)
(* two commands of any handler that keeps it in place (arming again,       *)
(* the strict disableKillSwitch, refresh, an API gateway exception), not   *)
(* while the service is dead, and not after it restarts.                   *)
NoGapInShield == shielded => \A p \in Bypassing : p.dst \notin granted => Rejected(p)

(* In the strict mode an idle service blocks the internet outside the      *)
(* tunnel, whatever crashes and restarts came before (init, refresh and    *)
(* the strict branch of disableKillSwitch), unless a connection that only  *)
(* tunnels chosen sites is up.                                             *)
StrictBlocks ==
    (Idle /\ strict /\ (armed = None \/ Full(armed))) => \A p \in Bypassing : p.dst \notin granted => Rejected(p)

(* The kill switch never cuts off the VPN server it protects the           *)
(* connection to (the vpnServer of allownets, outside the strict mode),    *)
(* unless WireGuard is told to tunnel the server itself as a site.         *)
ServerReachable ==
    (armed # None /\ ~strict /\ (armed.kind = "wg" => armed.server \notin TunnelledSites(armed))) =>
        \A p \in Bypassing : (p.dst = armed.server /\ p.port = "other") => ~Rejected(p)

(* With an armed kill switch an IPv4 DNS query passes only inside the      *)
(* tunnel and only to a resolver of the configuration (310.blockDNS comes  *)
(* before 300.allowLAN, 320.allowDNS before both).                         *)
NoDnsLeak ==
    armed # None =>
        \A p \in Packets : (p.port = "dns" /\ p.out # "lo" /\ p.dst \notin Hosts6 /\ ~Rejected(p))
                           => p.out = "vpn" /\ p.dst \in armed.dns \cup armed.allowedDns

(* With WireGuard and a split tunnel of only chosen sites, no packet to an *)
(* IPv4 site leaves outside the tunnel (120.blockNets).                    *)
WgSitesStayInTunnel ==
    (armed # None /\ armed.kind = "wg") =>
        \A p \in Bypassing : p.dst \in TunnelledSites(armed) \ Hosts6 => Rejected(p)

(* The verdicts of an armed kill switch, whatever came before: the server  *)
(* is reached, DNS goes to the tunnel's resolvers only, and the chosen     *)
(* sites stay in the tunnel (enableKillSwitch, applyFirewallRules).        *)
ArmedVerdicts == ServerReachable /\ NoDnsLeak /\ WgSitesStayInTunnel

(* A disableKillSwitch outside the strict mode that ran to its end leaves  *)
(* nothing blocked, whatever earlier handlers died half way.               *)
DisableRestores == (todo = <<>> /\ goal.opens) => \A p \in Packets : ~Rejected(p)

(* "Local subnet exclusions must win over 120.blockNets: an explicitly     *)
(* excluded subnet keeps working even when it overlaps the tunnel ranges." *)
(* (applyFirewallRules of wireguardutilslinux.cpp)                         *)
ExcludedSubnetWins ==
    (armed # None /\ armed.kind = "wg" /\ ~strict) =>
        \A p \in Packets : (p.dst \in armed.local /\ p.out = "phys" /\ p.port = "other") => ~Rejected(p)
=============================================================================

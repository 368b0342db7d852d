---------------------------- MODULE MCKillSwitch ----------------------------
(* Instances of KillSwitch: one server, one site, one API gateway, one     *)
(* other internet host per family, one LAN host, the broadcast address.    *)
EXTENDS KillSwitch

CONSTANTS srv, site, net4, net6, gw, lan, bcast

MCHosts == {srv, site, net4, net6, gw, lan, bcast}

Cfg(kind, split, local, exc) ==
    [kind |-> kind, split |-> split, server |-> srv, sites |-> {site}, local |-> local,
     dns |-> {net4}, allowedDns |-> exc]

XrayConfigs == {Cfg("xray", s, {}, {site}) : s \in 1..2}
WgConfigs == {Cfg("wg", s, {lan}, {}) : s \in 0..2}
MCConfigs == XrayConfigs \cup WgConfigs
WgOverlap == {Cfg("wg", 1, {site}, {})}
=============================================================================

-------------------------- MODULE WindowsFirewall --------------------------
(***************************************************************************)
(* The Windows firewall of the service: the filters WindowsFirewall adds   *)
(* to the Windows Filtering Platform (WFP), driven by KillSwitch (the IPC  *)
(* calls of the client) and by WireguardUtilsWindows (the WireGuard        *)
(* daemon).  Every call runs to completion on the service's main thread,   *)
(* so one call is one action; packets are judged between calls.            *)
(*                                                                         *)
(* A filter is what it matches, its action and its weight.  A packet gets  *)
(* the verdict of the heaviest filter that matches it; when filters of one *)
(* weight disagree the platform's own tie-break decides, and the model     *)
(* allows both verdicts.  Filter ids that belong to an aborted transaction *)
(* stay in m_activeRules and m_peerRules but name no filter: deleting them *)
(* has no effect, so they are left out.                                    *)
(***************************************************************************)
EXTENDS Naturals, FiniteSets

CONSTANTS WfpPeers,   \* public keys of the WireGuard peers
          WfpFaults   \* failures of a WFP call: subset of {"begin", "rule", "commit", "block", "forget"}

\* A public key is none of the other names of an address or of an owner of rules.
ASSUME WfpPeersAssumption ==
    WfpPeers \cap {"site", "lan", "dnsServer", "gateway", "net", "openvpn", "", "killswitch"} = {}

VARIABLE wf

Low == 0
Med == 7
High == 13
Heaviest == 15

\* A peer's name also stands for its server's address.
Dsts == {"site", "lan", "dnsServer", "gateway", "net", "openvpn"} \cup WfpPeers
DstPorts == {"dns", "dhcp", "any"}
Vias == {"vpn", "phys", "loop", "vm"}
Packets == [dst : Dsts, port : DstPorts, via : Vias, app : {"self", "other"}, fam : {4, 6}]

\* Split tunnelling: 0 everything through the tunnel, 1 only the sites, 2 everything but the sites.
SplitModes == 0 .. 2

-----------------------------------------------------------------------------
(* The filters. *)

Filter(act, w, dsts, ports, vias, peer) ==
    [act |-> act, w |-> w, dsts |-> dsts, ports |-> ports, vias |-> vias, apps |-> {"self", "other"},
     fams |-> {4, 6}, peer |-> peer]

allowTrafficOfAdapter(via) == Filter("permit", Med, Dsts, DstPorts, {via}, "")
allowDHCPTraffic == Filter("permit", Med, Dsts, {"dhcp"}, Vias, "")
allowHyperVTraffic == Filter("permit", Heaviest, Dsts, DstPorts, {"vm"}, "")

\* Only the two IPv4 layers get this rule.
allowTrafficForAppOnAll == [Filter("permit", Heaviest, Dsts, DstPorts, Vias, "") EXCEPT !.apps = {"self"}, !.fams = {4}]
blockTrafficOnPort == Filter("block", Med, Dsts, {"dns"}, Vias, "")
blockTrafficTo(dsts, w, peer) == Filter("block", w, dsts, DstPorts, Vias, peer)
allowTrafficTo(dsts, w, peer) == Filter("permit", w, dsts, DstPorts, Vias, peer)
allowTrafficToPort(dsts, peer) == Filter("permit", High, dsts, {"dns"}, Vias, peer)

BlockAll == blockTrafficTo(Dsts, Med, "killswitch")

AllowedRanges(mode) == IF mode = 1 THEN {"site"} ELSE Dsts
ExcludedAddresses(p, mode) == {p} \cup (IF mode = 2 THEN {"site"} ELSE {})

PeerRules(p, mode) ==
    { blockTrafficTo(AllowedRanges(mode), Low, p),
      allowTrafficToPort({"dnsServer"}, p),
      allowTrafficTo(ExcludedAddresses(p, mode), High, p) }

Engine(s) == s.active \cup s.peers \cup s.orphans

MatchesPacket(f, p) ==
    /\ p.dst \in f.dsts
    /\ p.port \in f.ports
    /\ p.via \in f.vias
    /\ p.app \in f.apps
    /\ p.fam \in f.fams

\* WFP arbitration inside the product's sublayer: no match permits.
Verdicts(s, p) ==
    LET hit == {f \in Engine(s) : MatchesPacket(f, p)}
        top == {f \in hit : \A g \in hit : g.w <= f.w}
    IN  IF hit = {} THEN {"permit"} ELSE {f.act : f \in top}

-----------------------------------------------------------------------------
(* The calls.  A fault names the transaction of the call that fails.       *)

NoFault == [at |-> 0, kind |-> "none"]
FaultsUpTo(n) == {NoFault} \cup [at : 1 .. n, kind : WfpFaults \cap {"begin", "rule", "commit"}]

\* Mutant: only the rules that belong to no peer are removed.
MutAllowAllTraffic(s, flt) == [s EXCEPT !.active = {}, !.let = {}, !.clean = TRUE]

\* The deletes' results are ignored; a failed begin or commit keeps every filter and both lists.
allowAllTraffic(s, flt) ==
    IF flt.kind \in {"begin", "commit"} THEN [s EXCEPT !.clean = FALSE]
    ELSE [s EXCEPT !.active = {}, !.peers = {}, !.let = {}, !.clean = TRUE]

BaseRules(iface) ==
    << IF iface = "none" THEN {} ELSE {allowTrafficOfAdapter(iface)}, {allowDHCPTraffic}, {allowHyperVTraffic},
       {allowTrafficForAppOnAll}, {blockTrafficOnPort}, {allowTrafficOfAdapter("loop")} >>

\* The rules enableInterface has committed after its first k steps; with no
\* adapter (index -1) the first step is the block of everything.
CommittedRules(s, iface, k) ==
    [s EXCEPT !.active = @ \cup UNION {BaseRules(iface)[i] : i \in 1 .. k},
              !.peers = @ \cup (IF iface = "none" /\ k > 0 THEN {BlockAll} ELSE {})]

disableAllTraffic(s) == [CommittedRules(s, "none", 6) EXCEPT !.ranges = {}]

\* disableKillSwitch as the cleanup of a failed call (it does not fail a second time).
CleanupKillSwitch(s) == IF s.strict THEN [disableAllTraffic(s) EXCEPT !.clean = FALSE] ELSE allowAllTraffic(s, NoFault)

\* Six transactions.  A failed begin or rule switches the whole kill switch
\* off; a failed commit only returns false.  Without an adapter the first step
\* is no transaction, and its failure ("block") returns at once.
enableInterface(s, iface, flt) ==
    IF flt.at = 0 \/ (iface = "none" /\ flt.at = 1 /\ "block" \notin WfpFaults) THEN CommittedRules(s, iface, 6)
    ELSE IF iface = "none" /\ flt.at = 1 THEN [s EXCEPT !.clean = FALSE]
    ELSE IF flt.kind = "commit" THEN [CommittedRules(s, iface, flt.at - 1) EXCEPT !.clean = FALSE]
    ELSE CleanupKillSwitch(CommittedRules(s, iface, flt.at - 1))

\* The early return on Windows skips m_allowedRanges.clear() when the kill switch is not strict.
disableKillSwitch(s, flt) ==
    IF s.strict THEN [enableInterface(s, "none", flt) EXCEPT !.ranges = {}]
                ELSE allowAllTraffic(s, flt)

\* One transaction around a set of rules, with the scope guard that aborts it and disables the kill switch.
InTransaction(s, rules, flt) ==
    IF flt.at # 0 THEN CleanupKillSwitch(s)
    ELSE [s EXCEPT !.active = @ \cup {f \in rules : f.peer = ""},
                   !.peers = @ \cup {f \in rules : f.peer # ""}]

\* The addresses the session is told to let out, until all filters are removed (history).
Let(s, dsts) == [s EXCEPT !.let = @ \cup dsts]

enableLanBypass(s, flt) == InTransaction(Let(s, {"lan"}), {allowTrafficTo({"lan"}, Low + 1, "")}, flt)
allowTrafficRange(s, ranges, flt) == InTransaction(Let(s, ranges), {allowTrafficTo({r}, High, "") : r \in ranges}, flt)
enablePeerTraffic(s, p, mode, flt) == InTransaction(Let(s, ExcludedAddresses(p, mode)), PeerRules(p, mode), flt)

\* Mutant: the old peer's rules are dropped with everybody else's.
MutDisablePeerTraffic(s, p, flt) ==
    IF flt.kind = "begin" THEN s ELSE [s EXCEPT !.peers = {}]

\* The ids leave m_peerRules before the commit: when it fails the filters
\* stay in the engine and no list remembers them.
disablePeerTraffic(s, p, flt) ==
    LET mine == {f \in s.peers : f.peer = p}
    IN  IF flt.kind = "begin" THEN [s EXCEPT !.clean = FALSE]
        ELSE [s EXCEPT !.peers = @ \ mine,
                       !.orphans = IF flt.kind = "commit" THEN @ \cup mine ELSE @]

-----------------------------------------------------------------------------
(* The callers.  History: clean, no call failed since all filters were     *)
(* removed; ok, nor did one of this session; sealed, the peers whose rules *)
(* were reported on; opened, the last call removed all filters.            *)

FirewallInit ==
    wf = [strict |-> FALSE, alive |-> TRUE, sess |-> "none", mode |-> 0, cur |-> {}, active |-> {}, peers |-> {},
          orphans |-> {}, ranges |-> {}, ok |-> FALSE, sealed |-> {}, opened |-> TRUE,
          let |-> {}, clean |-> TRUE]

Failed(flt) == flt.at # 0

\* KillSwitch::refresh: the mode is written, then the traffic closed or opened.  The
\* settings page refuses a change during a connection.
Refresh ==
    /\ wf.alive /\ wf.sess = "none"
    /\ \E on \in BOOLEAN, flt \in FaultsUpTo(6) :
        LET s == [wf EXCEPT !.strict = on]
        IN  wf' = [disableKillSwitch(s, flt) EXCEPT !.opened = ~on /\ ~Failed(flt)]

\* KillSwitch::addAllowedRange, then resetAllowedRange with the joined list.
AddAllowedRange ==
    /\ wf.alive
    /\ \E flt \in FaultsUpTo(1) :
        LET s == [wf EXCEPT !.ranges = @ \cup {"gateway"}]
            t == IF s.strict THEN enableInterface(s, "none", NoFault) ELSE s
        IN  wf' = [allowTrafficRange(t, s.ranges, flt) EXCEPT
                     !.opened = IF Failed(flt) THEN ~wf.strict ELSE FALSE,
                     !.ok = @ /\ ~Failed(flt), !.sealed = IF Failed(flt) THEN {} ELSE @]

\* WireguardUtilsWindows::addInterface with the kill switch on; the results are not looked at.
AddInterface ==
    /\ wf.alive /\ wf.sess = "none"
    /\ \E mode \in SplitModes, flt \in FaultsUpTo(6) :
        wf' = [enableInterface(allowAllTraffic(wf, NoFault), "vpn", flt) EXCEPT
                 !.sess = "wg", !.mode = mode, !.ok = ~Failed(flt), !.sealed = {}, !.opened = FALSE]

\* WireguardUtilsWindows::updatePeer
UpdatePeer ==
    /\ wf.alive /\ wf.sess = "wg"
    /\ \E p \in WfpPeers \ wf.cur, flt \in FaultsUpTo(1) :
        wf' = [enablePeerTraffic(wf, p, wf.mode, flt) EXCEPT
                 !.cur = @ \cup {p}, !.ok = @ /\ ~Failed(flt), !.opened = FALSE,
                 !.sealed = IF Failed(flt) THEN {} ELSE @ \cup {p}]

\* WireguardUtilsWindows::excludeLocalNetworks
ExcludeLocalNetworks ==
    /\ wf.alive /\ wf.sess = "wg"
    /\ \E flt \in FaultsUpTo(1) :
        wf' = [enableLanBypass(wf, flt) EXCEPT
                 !.opened = FALSE, !.ok = @ /\ ~Failed(flt), !.sealed = IF Failed(flt) THEN {} ELSE @]

\* WireguardUtilsWindows::deletePeer
DeletePeer ==
    /\ wf.alive /\ wf.sess = "wg"
    /\ \E p \in wf.cur, kind \in {"none"} \cup (WfpFaults \cap {"begin"}) \cup (IF "forget" \in WfpFaults THEN {"commit"} ELSE {}) :
        wf' = [disablePeerTraffic(wf, p, [at |-> IF kind = "none" THEN 0 ELSE 1, kind |-> kind]) EXCEPT
                 !.let = IF kind # "none" THEN @
                         ELSE (@ \ ExcludedAddresses(p, wf.mode)) \cup UNION {ExcludedAddresses(q, wf.mode) : q \in wf.cur \ {p}},
                 !.ok = @ /\ kind = "none", !.cur = @ \ {p}, !.opened = FALSE, !.sealed = @ \ {p}]

\* WireguardUtilsWindows::deleteInterface, after the daemon deleted the peers.
DeleteInterface ==
    /\ wf.alive /\ wf.sess = "wg" /\ wf.cur = {}
    /\ \E flt \in FaultsUpTo(6) :
        wf' = [disableKillSwitch(wf, flt) EXCEPT
                 !.sess = "none", !.ok = FALSE, !.sealed = {}, !.opened = ~wf.strict /\ ~Failed(flt)]

\* KillSwitch::enableKillSwitch followed by enablePeerTraffic, the Xray session's calls.
EnableKillSwitch ==
    /\ wf.alive /\ wf.sess = "none"
    /\ \E mode \in SplitModes, flt \in FaultsUpTo(6) :
        LET s == IF mode # 0 THEN allowAllTraffic(wf, NoFault) ELSE wf
        IN  wf' = [enableInterface(s, "vpn", flt) EXCEPT
                     !.sess = "xray", !.mode = mode, !.ok = ~Failed(flt) /\ s.clean, !.sealed = {}, !.opened = FALSE]

KillSwitchPeerTraffic ==
    /\ wf.alive /\ wf.sess = "xray" /\ "openvpn" \notin wf.cur
    /\ \E flt \in FaultsUpTo(1) :
        wf' = [enablePeerTraffic(wf, "openvpn", wf.mode, flt) EXCEPT
                 !.cur = @ \cup {"openvpn"}, !.ok = @ /\ ~Failed(flt), !.opened = FALSE,
                 !.sealed = IF Failed(flt) THEN {} ELSE {"openvpn"}]

\* KillSwitch::disableKillSwitch at the end of an Xray session.
EndXray ==
    /\ wf.alive /\ wf.sess = "xray"
    /\ \E flt \in FaultsUpTo(6) :
        wf' = [disableKillSwitch(wf, flt) EXCEPT
                 !.sess = "none", !.cur = {}, !.ok = FALSE, !.sealed = {}, !.opened = ~wf.strict /\ ~Failed(flt)]

\* The session is dynamic: the filters go with the process.
ServiceDies ==
    /\ wf.alive
    /\ wf' = [wf EXCEPT !.alive = FALSE, !.sess = "none", !.cur = {}, !.active = {}, !.peers = {}, !.orphans = {},
                        !.ranges = {}, !.let = {}, !.clean = TRUE, !.ok = FALSE, !.sealed = {}, !.opened = FALSE]

\* WindowsFirewall::create and KillSwitch::init
ServiceStarts ==
    /\ ~wf.alive
    /\ LET s == [wf EXCEPT !.alive = TRUE, !.opened = ~wf.strict]
       IN  wf' = IF wf.strict THEN disableAllTraffic(s) ELSE s

FirewallNext ==
    \/ Refresh \/ AddAllowedRange
    \/ AddInterface \/ UpdatePeer \/ ExcludeLocalNetworks \/ DeletePeer \/ DeleteInterface
    \/ EnableKillSwitch \/ KillSwitchPeerTraffic \/ EndXray
    \/ ServiceDies \/ ServiceStarts

FirewallSpec == FirewallInit /\ [][FirewallNext]_wf

-----------------------------------------------------------------------------
(* Properties. *)

Outside == {p \in Packets : p.via = "phys" /\ p.app = "other" /\ p.port # "dhcp"}

\* While every firewall call of a session succeeded, another program's
\* packet for an address the tunnel should carry never leaves over the
\* physical adapter, unless it was told to be let out: not during a server switch, when the rules of two
\* peers are in force, and not for DNS, which reaches only the configured
\* DNS server (enablePeerTraffic, disablePeerTraffic, enableInterface).
SealedTunnel ==
    wf.ok => \A q \in wf.sealed : \A p \in Outside :
        /\ p.dst \in AllowedRanges(wf.mode) \ wf.let
        /\ p.port = "dns" => p.dst # "dnsServer"
        => Verdicts(wf, p) = {"block"}

\* Between sessions a strict kill switch lets no other program's packet out
\* to the internet, whichever call failed on the way there: after a session
\* ended, after the mode was switched on, after a failed activation and after
\* the service was restarted (KillSwitch::disableKillSwitch, init).
StrictClosed ==
    wf.strict /\ wf.alive /\ wf.sess = "none" =>
        \A p \in Outside : p.dst = "net" => Verdicts(wf, p) = {"block"}

\* A kill switch that was switched off with success judges no packet any
\* more: no filter of an ended session, of a replaced peer or of an aborted
\* call is left in the engine (allowAllTraffic).
DisabledOpens == wf.opened => Engine(wf) = {}

\* A session whose calls succeeded can use its tunnel: nothing blocks the
\* packets on the VPN adapter except DNS to a server that was not configured
\* (enableInterface's weights).  A strict kill switch's block of everything
\* has the weight of the adapter's permit, and with both in force the verdict
\* is the platform's.
TunnelUsable ==
    wf.ok /\ BlockAll \notin Engine(wf) => \A q \in wf.sealed : \A p \in Packets :
        p.via = "vpn" /\ (p.port = "dns" => p.dst = "dnsServer") => Verdicts(wf, p) = {"permit"}

\* What must not leave does not: in a session whose calls succeeded, and
\* between sessions of the strict mode whichever call failed.
ClosedWhereAsked == SealedTunnel /\ StrictClosed

\* What must pass passes: everything after a disable, and the tunnel's own
\* packets in a session whose calls succeeded.
OpenWhereAsked == DisabledOpens /\ TunnelUsable

=============================================================================

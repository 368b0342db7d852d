----------------------------- MODULE MacRoutes -----------------------------
(***************************************************************************)
(* Routes around the tunnel on macOS.  MacosRouteMonitor listens on a      *)
(* routing socket: it learns the default routes from the messages of the   *)
(* kernel (external), which arrive after the fact, and moves the exclusion *)
(* routes after them.  WireguardUtilsMacos owns the monitor and the        *)
(* wireguard-go process; Daemon::activate calls them and runs the event    *)
(* loop while it waits for the process, so messages are handled between    *)
(* its steps.  How handlers of the daemon nest is the subject of Daemon.   *)
(***************************************************************************)
EXTENDS Naturals, Sequences, FiniteSets

CONSTANTS
    MacHops,      \* the <<link, gateway>> that can be the default route of each family
    MacMessages   \* bound on the messages waiting on a routing socket

VARIABLE mr

Families == {"v4", "v6"}
NoHop == <<"none", 0>>
LinkOf(h) == h[1]
MacLinks == {LinkOf(h) : h \in MacHops["v4"] \cup MacHops["v6"]}

\* No link has the name that stands for none.
ASSUME MacLinksAssumption == "none" \notin MacLinks

\* The server's address, and a subnet the user excluded.
Excluded == {"server", "x6"}
FamilyOf(p) == IF p = "x6" THEN "v6" ELSE "v4"

NoMac == [def |-> [f \in Families |-> NoHop], excl |-> {}, q |-> <<>>, live |-> FALSE]

\* up: links; sys: the kernel's default routes; rt: its routes to excluded
\* addresses; half: it routes 0/1 and 128/1 (and the IPv6 halves) into the
\* tunnel; mon: m_rtmonitor; old: a monitor replaced without being deleted;
\* set: m_excludedAddrSet; fw: applyFirewallRules.
MacInit ==
    mr = [up |-> MacLinks, sys |-> [f \in Families |-> NoHop], rt |-> [p \in Excluded |-> NoHop], half |-> FALSE,
          mon |-> NoMac, old |-> NoMac, proc |-> FALSE, pc |-> "idle", conn |-> FALSE, set |-> {}, fw |-> FALSE]

-----------------------------------------------------------------------------
(* The kernel's routing table, through rtmSendRoute. *)

\* RTM_ADD: EEXIST counts as success, an unreachable gateway is refused.
\* RTM_CHANGE: ESRCH without a route.  RTM_DELETE: ESRCH counts as success.
NewMacRoute(s, action, p, hop) ==
    IF action = "delete" THEN NoHop
    ELSE IF LinkOf(hop) \in s.up /\ ((action = "add") = (s.rt[p] = NoHop)) THEN hop
    ELSE s.rt[p]

\* rtmSendRoute of every prefix in ps.
rtmSendRoute(s, action, ps, hop) ==
    [s EXCEPT !.rt = [p \in Excluded |-> IF p \in ps THEN NewMacRoute(s, action, p, hop) ELSE s.rt[p]]]

\* The result of an RTM_ADD.
AddSent(s, p, hop) == s.rt[p] # NoHop \/ LinkOf(hop) \in s.up

\* The kernel tells every open routing socket.
Tell(s, msg) ==
    [s EXCEPT !.mon.q = IF s.mon.live THEN Append(@, msg) ELSE @, !.old.q = IF s.old.live THEN Append(@, msg) ELSE @]

MonitorMsg(type, f, hop, scoped) == [type |-> type, fam |-> f, hop |-> hop, scoped |-> scoped]

-----------------------------------------------------------------------------
(* MacosRouteMonitor. *)

\* rtmFetchRoutes of both families: a default route that is there is reported.
rtmFetchRoutes(s) ==
    LET get(f) == IF s.sys[f] = NoHop THEN <<>> ELSE <<MonitorMsg("get", f, s.sys[f], FALSE)>>
    IN  get("v4") \o get("v6")

NewMonitor(s) == [NoMac EXCEPT !.live = TRUE, !.q = rtmFetchRoutes(s)]

OfFamily(m, f) == {p \in m.excl : FamilyOf(p) = f}

\* Mutant: an update is always sent as an addition.
MuthandleRtmUpdate(s, which, msg) ==
    IF msg.scoped THEN s
    ELSE rtmSendRoute([s EXCEPT ![which].def[msg.fam] = msg.hop], "add", OfFamily(s[which], msg.fam), msg.hop)

\* handleRtmUpdate: RTM_ADD, RTM_CHANGE and RTM_GET of an unscoped default
\* route.  (Messages about the tunnel or other destinations, and the ones the
\* process caused itself, are ignored before they matter.)
handleRtmUpdate(s, which, msg) ==
    IF msg.scoped THEN s
    ELSE rtmSendRoute([s EXCEPT ![which].def[msg.fam] = msg.hop], IF s[which].def[msg.fam] # NoHop THEN "change" ELSE "add",
                      OfFamily(s[which], msg.fam), msg.hop)

handleRtmDelete(s, which, msg) ==
    IF msg.scoped THEN s
    ELSE rtmSendRoute([s EXCEPT ![which].def[msg.fam] = NoHop], "delete", OfFamily(s[which], msg.fam), NoHop)

\* addExclusionRoute: the daemon counts it when the result is success.
\* The list has it even when the route could not be added.
addExclusionRoute(s, p) ==
    LET hop == s.mon.def[FamilyOf(p)]
        t   == [s EXCEPT !.mon.excl = @ \cup {p}]
    IN  IF p \in s.mon.excl THEN [s |-> s, ok |-> FALSE]
        ELSE IF hop = NoHop THEN [s |-> t, ok |-> TRUE]
        ELSE [s |-> rtmSendRoute(t, "add", {p}, hop), ok |-> AddSent(t, p, hop)]

deleteExclusionRoute(s, ps) == IF s.mon.live THEN rtmSendRoute([s EXCEPT !.mon.excl = @ \ ps], "delete", ps, NoHop) ELSE s

flushExclusionRoutes(s) == rtmSendRoute(s, "delete", s.mon.excl, NoHop)

-----------------------------------------------------------------------------
(* WireguardUtilsMacos and Daemon. *)

\* Daemon::addExclusionRoute of an excluded address.
Exclude(s, p) ==
    IF p \in s.set \/ ~s.mon.live THEN s    \* one reference more, or refused
    ELSE LET r == addExclusionRoute(s, p) IN [r.s EXCEPT !.set = IF r.ok THEN @ \cup {p} ELSE @]

\* Daemon::activate after the interface: the excluded addresses (the client
\* puts the server among them), then updatePeer excludes the server again
\* and waits for the process.
ConfigurePeer(s) ==
    LET t == Exclude(Exclude(s, "server"), "x6")
    IN  [IF t.mon.live THEN addExclusionRoute(t, "server").s ELSE t EXCEPT !.pc = "peer"]

\* addInterfaceIPs and setMTUAndUp: IPv4, IPv6, MTU, flags; the first ioctl
\* that fails ends the activation, whose interface keeps what it has.
AddressSteps == {"v4", "v6", "mtu", "up"}
AddressInterface(s, fails) == IF fails \cap AddressSteps = {} THEN ConfigurePeer(s) ELSE [s EXCEPT !.pc = "idle"]

\* Daemon::activate without a connection until it first waits.  A process
\* that does not start or gives no name fails the activation.
MacActivate ==
    /\ mr.pc = "idle" /\ ~mr.conn
    /\ IF mr.proc THEN \E fails \in SUBSET AddressSteps : mr' = AddressInterface(mr, fails)
       ELSE /\ ~mr.old.live
            /\ mr' = [mr EXCEPT !.proc = TRUE, !.old = mr.mon, !.mon = NewMonitor(mr), !.pc = "iface"]

\* The process answers the private key; the kill switch and the addresses follow.
InterfaceConfigured ==
    /\ mr.pc = "iface" /\ mr.proc
    /\ \E fails \in SUBSET AddressSteps : mr' = AddressInterface([mr EXCEPT !.fw = TRUE], fails)

\* updateRoutePrefix of 0.0.0.0/0 and ::/0: the halves, never the default.
PeerConfigured ==
    /\ mr.pc = "peer" /\ mr.proc
    /\ mr' = [mr EXCEPT !.half = TRUE, !.conn = TRUE, !.pc = "idle"]

\* The process refuses or the wait of 5 s ends: everything done so far stays.
ActivationFails ==
    /\ mr.pc \in {"iface", "peer"}
    /\ mr' = [mr EXCEPT !.pc = "idle"]

\* deleteInterface: without the process it ends before the kill switch.
deleteInterface(s) ==
    LET t == [IF s.mon.live THEN flushExclusionRoutes(s) ELSE s EXCEPT !.mon = NoMac]
    IN  IF s.proc THEN [t EXCEPT !.proc = FALSE, !.half = FALSE, !.fw = FALSE] ELSE t

\* Daemon::deactivate: deleteRoutePrefix, deletePeer, the exclusions, the interface.
MacDeactivate ==
    /\ mr.pc = "idle"
    /\ LET s == IF mr.conn THEN deleteExclusionRoute([mr EXCEPT !.half = FALSE], {"server"}) ELSE mr
       IN  mr' = deleteInterface([deleteExclusionRoute(s, s.set) EXCEPT !.set = {}, !.conn = FALSE])

\* rtsockReady of the monitor, or of one that was never deleted.
rtsockReady(which) ==
    /\ mr[which].q # <<>>
    /\ LET msg == Head(mr[which].q)
           s   == [mr EXCEPT ![which].q = Tail(@)]
       IN  mr' = IF msg.type = "delete" THEN handleRtmDelete(s, which, msg) ELSE handleRtmUpdate(s, which, msg)

-----------------------------------------------------------------------------
(* The environment. *)

ProcessDies ==
    /\ mr.proc
    /\ mr' = [mr EXCEPT !.proc = FALSE, !.half = FALSE]

HasRoom == Len(mr.mon.q) < MacMessages /\ Len(mr.old.q) < MacMessages

DefaultAppears(f, h) ==
    /\ HasRoom /\ mr.sys[f] = NoHop /\ LinkOf(h) \in mr.up
    /\ mr' = Tell([mr EXCEPT !.sys[f] = h], MonitorMsg("add", f, h, FALSE))

\* Another gateway of the same link.
GatewayChanges(f, h) ==
    /\ HasRoom /\ mr.sys[f] # NoHop /\ mr.sys[f] # h /\ LinkOf(mr.sys[f]) = LinkOf(h)
    /\ mr' = Tell([mr EXCEPT !.sys[f] = h], MonitorMsg("change", f, h, FALSE))

\* The link stays and loses its router.
DefaultLost(f) ==
    /\ HasRoom /\ mr.sys[f] # NoHop
    /\ mr' = Tell([mr EXCEPT !.sys[f] = NoHop], MonitorMsg("delete", f, mr.sys[f], FALSE))

\* A link goes: the kernel drops the routes over it.
LinkDown(l) ==
    /\ HasRoom /\ l \in mr.up
    /\ LET gone == {f \in Families : LinkOf(mr.sys[f]) = l}
           s    == [mr EXCEPT !.up = @ \ {l}, !.sys = [f \in Families |-> IF f \in gone THEN NoHop ELSE mr.sys[f]],
                              !.rt = [p \in Excluded |-> IF LinkOf(mr.rt[p]) = l THEN NoHop ELSE mr.rt[p]]]
           t    == IF "v4" \in gone THEN Tell(s, MonitorMsg("delete", "v4", mr.sys["v4"], FALSE)) ELSE s
       IN  /\ Cardinality(gone) = 2 => Len(mr.mon.q) + 1 < MacMessages /\ Len(mr.old.q) + 1 < MacMessages
           /\ mr' = IF "v6" \in gone THEN Tell(t, MonitorMsg("delete", "v6", mr.sys["v6"], FALSE)) ELSE t

LinkUp(l) ==
    /\ l \notin mr.up
    /\ mr' = [mr EXCEPT !.up = @ \cup {l}]

\* The default route of a secondary link, scoped to it, comes and goes.
ScopedChange(f, h) ==
    /\ HasRoom /\ LinkOf(h) \in mr.up /\ LinkOf(h) # LinkOf(mr.sys[f])
    /\ \E type \in {"add", "delete"} : mr' = Tell(mr, MonitorMsg(type, f, h, TRUE))

MacSystem ==
    \/ \E f \in Families : \E h \in MacHops[f] : DefaultAppears(f, h) \/ GatewayChanges(f, h) \/ ScopedChange(f, h)
    \/ \E f \in Families : DefaultLost(f)
    \/ \E l \in MacLinks : LinkDown(l) \/ LinkUp(l)

MacNext ==
    \/ MacActivate \/ InterfaceConfigured \/ PeerConfigured \/ ActivationFails \/ MacDeactivate
    \/ \E which \in {"mon", "old"} : rtsockReady(which)
    \/ ProcessDies
    \/ MacSystem

MacSpec == MacInit /\ [][MacNext]_mr

-----------------------------------------------------------------------------
(* Properties. *)

\* No message is waiting.
CaughtUp == mr.mon.q = <<>> /\ mr.old.q = <<>>

\* Once the messages are handled, every address of the monitor's list leaves
\* over the kernel's default route of its family, and has no route when there
\* is none, however the network changed, links failed, activations broke off
\* and messages lagged behind (handleRtmUpdate, handleRtmDelete,
\* addExclusionRoute).
ExclusionsFollowDefault ==
    CaughtUp => \A p \in mr.mon.excl : mr.rt[p] = mr.sys[FamilyOf(p)]

\* A connected tunnel that captures all traffic never captures the packets to
\* its own server: they would be encapsulated again and again (updatePeer,
\* updateRoutePrefix).
ServerAroundTunnel ==
    CaughtUp /\ mr.conn /\ mr.half => "server" \in mr.mon.excl /\ mr.rt["server"] = mr.sys["v4"]

\* When no monitor is left to remove them there are no routes around the
\* tunnel (deactivate, ~MacosRouteMonitor).
MacRoutesRemoved == ~mr.mon.live /\ ~mr.old.live => \A p \in Excluded : mr.rt[p] = NoHop

\* Routes around the tunnel follow the default route, keep the server out of
\* its own tunnel, and go with their monitor.
MacRoutesFollow == ExclusionsFollowDefault /\ ServerAroundTunnel /\ MacRoutesRemoved
=============================================================================

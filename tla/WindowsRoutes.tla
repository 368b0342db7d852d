--------------------------- MODULE WindowsRoutes ---------------------------
(***************************************************************************)
(* The routes of a WireGuard session on Windows: WindowsRouteMonitor keeps *)
(* the exclusion routes (addresses that must not enter the tunnel) in step *)
(* with the system's routing table and clones the table's other routes     *)
(* into the tunnel while the tunnel is the default route, and              *)
(* WireguardUtilsWindows adds the tunnel's own prefixes.                   *)
(*                                                                         *)
(* A prefix is the sequence of its bits, so that one prefix contains       *)
(* another when it is an initial part of it.  Route changes are reported   *)
(* by the kernel and handled later on the daemon's thread (pending).  A    *)
(* monitor is deleted with deleteLater, so that an old one can outlive the *)
(* interface it was made for.                                              *)
(***************************************************************************)
EXTENDS Naturals, Sequences, FiniteSets, Functions

CONSTANTS WrIfs,          \* the network interfaces, best metric first
          LanRange,       \* the local networks' range, excluded before the tunnel takes the default route
          ServerPrefix,   \* the server's address, excluded at any time
          SysPrefixes,    \* the prefixes the system has routes for, <<>> among them
          QuickReconnect  \* an activate may run before the old monitor's deferred deletion

\* There is an interface, the tunnel's own is not among them, and prefixes are bits.
ASSUME WrAssumption ==
    /\ 1 \in DOMAIN WrIfs /\ Range(WrIfs) \cap {"none", "vpn"} = {}
    /\ {LanRange, ServerPrefix} \cup SysPrefixes \subseteq Seq({0, 1}) /\ LanRange # <<>>

VARIABLE wr

MetricOf(via) == CHOOSE n \in 1 .. Len(WrIfs) : WrIfs[n] = via

\* Gateways can change for the default route; the other routes are on-link.
SysRows == [dst : {<<>>}, via : Range(WrIfs), hop : {1, 2}] \cup [dst : SysPrefixes \ {<<>>}, via : Range(WrIfs), hop : {1}]

\* The exclusion row of a destination the table already routes exactly, or not at all.
Unrouted(hop) == [via |-> "none", hop |-> hop]

NoMonitor == [live |-> FALSE, excl |-> <<>>, clones |-> {}, capture |-> FALSE, ifs |-> {}]

WrInit ==
    wr = [sys |-> {[dst |-> <<>>, via |-> WrIfs[1], hop |-> 1]}, conn |-> Range(WrIfs), kern |-> {},
          mon |-> NoMonitor, old |-> NoMonitor, pending |-> FALSE, synced |-> FALSE]

-----------------------------------------------------------------------------
(* The monitor's helpers; w is the whole state, w.mon the monitor.         *)

OwnRow(dst, r) == [dst |-> dst, via |-> r.via, hop |-> r.hop]
routeContainsDest(route, dest) ==
    Len(route) <= Len(dest) /\ SubSeq(dest, 1, Len(route)) = route

\* The best row of the table for a destination: the longest prefix, then the
\* lowest metric, over the interfaces that were connected at the last refresh.
BestRows(rows, ifs, dst) ==
    LET match == {r \in rows : r.via \in ifs /\ routeContainsDest(r.dst, dst)}
    IN  {r \in match : \A q \in match :
            \/ Len(q.dst) < Len(r.dst)
            \/ Len(q.dst) = Len(r.dst) /\ MetricOf(q.via) >= MetricOf(r.via)}

\* Mutant: the list of usable interfaces is read once, when the monitor has none.
MutUpdateInterfaceMetrics(w) == IF w.mon.ifs = {} THEN [w EXCEPT !.mon.ifs = w.conn] ELSE w

updateInterfaceMetrics(w) == [w EXCEPT !.mon.ifs = w.conn]

\* The wanted row; an exact match of the table is left alone.
ExclusionTarget(rows, ifs, dst) ==
    LET best == BestRows(rows, ifs, dst)
        row == CHOOSE r \in best : TRUE
    IN  IF best = {} THEN Unrouted(0)
        ELSE IF Len(row.dst) = Len(dst) THEN Unrouted(row.hop)
        ELSE [via |-> row.via, hop |-> row.hop]

\* The rows of the kernel's table that stand for some of the exclusions.
RowsOf(excl, dsts) == {OwnRow(d, excl[d]) : d \in {e \in dsts : excl[e].via # "none"}}

\* updateExclusionRoute of each of some exclusions; what has not changed is not touched.
updateExclusionRoute(w, dsts) ==
    LET excl == [d \in DOMAIN w.mon.excl |-> IF d \in dsts THEN ExclusionTarget(w.sys, w.mon.ifs, d) ELSE w.mon.excl[d]]
        changed == {d \in DOMAIN excl : excl[d] # w.mon.excl[d]}
    IN  [w EXCEPT !.mon.excl = excl,
                  !.kern = (@ \ RowsOf(w.mon.excl, changed)) \cup RowsOf(excl, changed)]

isRouteExcluded(mon, dst) == \E e \in DOMAIN mon.excl : routeContainsDest(e, dst)
CloneRow(dst) == [dst |-> dst, via |-> "vpn", hop |-> 0]
ClonedRows(mon) == {CloneRow(d) : d \in mon.clones}

\* The default route and excluded destinations are not captured.
RoutesToCapture(w) == {d \in {r.dst : r \in w.sys} : d # <<>> /\ ~isRouteExcluded(w.mon, d)}

updateCapturedRoutes(w) ==
    IF ~w.mon.capture THEN w
    ELSE [w EXCEPT !.mon.clones = RoutesToCapture(w),
                   !.kern = (@ \ ClonedRows(w.mon)) \cup {CloneRow(d) : d \in RoutesToCapture(w)}]

\* The rows a monitor has in the kernel's table.
OwnRows(mon) == RowsOf(mon.excl, DOMAIN mon.excl)

-----------------------------------------------------------------------------
(* The daemon's calls. *)

\* WireguardUtilsWindows::addInterface; the previous monitor is forgotten, not deleted.
WrAddInterface ==
    /\ ~wr.mon.live
    /\ QuickReconnect \/ ~wr.old.live
    /\ wr' = [wr EXCEPT !.mon = [NoMonitor EXCEPT !.live = TRUE], !.pending = FALSE, !.synced = FALSE]

\* addExclusionRoute: the table is read and everything refreshed, then the row is recorded.
AddExclusionRoute(dst) ==
    /\ wr.mon.live
    /\ dst \notin DOMAIN wr.mon.excl
    /\ dst = LanRange => ~wr.mon.capture
    /\ LET v == updateCapturedRoutes(updateInterfaceMetrics(wr))
           w == [v EXCEPT !.mon.excl = [d \in DOMAIN @ \cup {dst} |-> IF d = dst THEN Unrouted(0) ELSE @[d]]]
       IN  wr' = [updateExclusionRoute(w, {dst}) EXCEPT !.synced = FALSE]

\* deleteExclusionRoute; the refresh of the captures that follows runs only when the
\* table could not be read, so that a successful call leaves them as they are.
DeleteExclusionRoute(dst) ==
    /\ wr.mon.live
    /\ dst \in DOMAIN wr.mon.excl
    /\ wr' = [wr EXCEPT !.kern = @ \ {OwnRow(dst, wr.mon.excl[dst])},
                        !.mon.excl = [d \in DOMAIN @ \ {dst} |-> @[d]],
                        !.synced = FALSE]

\* updateRoutePrefix for the default route: the capture begins with the next look at the table.
UpdateRoutePrefix ==
    /\ wr.mon.live /\ ~wr.mon.capture
    /\ wr' = [wr EXCEPT !.mon.capture = TRUE, !.kern = @ \cup {CloneRow(<<>>)}, !.synced = FALSE]

DeleteRoutePrefix ==
    /\ wr.mon.live /\ wr.mon.capture
    /\ wr' = [wr EXCEPT !.mon.capture = FALSE, !.mon.clones = {},
                        !.kern = @ \ (ClonedRows(wr.mon) \cup {CloneRow(<<>>)}), !.synced = FALSE]

\* WireguardUtilsWindows::deleteInterface: the daemon has deleted its prefixes
\* and the addresses it excluded one by one; deleteLater leaves the rest to the destructor.
WrDeleteInterface ==
    /\ wr.mon.live /\ ~wr.mon.capture
    /\ DOMAIN wr.mon.excl \subseteq {LanRange}
    /\ wr' = [wr EXCEPT !.old = wr.mon, !.mon = NoMonitor, !.pending = FALSE, !.synced = FALSE]

\* ~WindowsRouteMonitor: both tables are flushed.
DestroyMonitor ==
    /\ wr.old.live
    /\ wr' = [wr EXCEPT !.old = NoMonitor, !.kern = @ \ (OwnRows(wr.old) \cup ClonedRows(wr.old))]

\* The queued routeChanged slot.
RouteChanged ==
    /\ wr.mon.live /\ wr.pending
    /\ LET w == updateCapturedRoutes(updateInterfaceMetrics(wr))
       IN  wr' = [updateExclusionRoute(w, DOMAIN w.mon.excl) EXCEPT !.pending = FALSE, !.synced = TRUE]

\* routeChangeCallback: a row of the system's own changed.
SysRouteChanges ==
    \E r \in SysRows :
        /\ r.via \in wr.conn
        /\ \A q \in wr.sys : q # r => (q.dst # r.dst \/ q.via # r.via)
        /\ wr' = [wr EXCEPT !.sys = IF r \in @ THEN @ \ {r} ELSE @ \cup {r}, !.pending = wr.mon.live]

\* An interface comes up without routes, or goes down with its routes; both change the table.
InterfaceChanges ==
    \E i \in Range(WrIfs) :
        wr' = [wr EXCEPT !.conn = IF i \in @ THEN @ \ {i} ELSE @ \cup {i},
                         !.sys = IF i \in wr.conn THEN {r \in @ : r.via # i}
                                                  ELSE @ \cup {[dst |-> <<>>, via |-> i, hop |-> 1]},
                         !.pending = wr.mon.live]

WrNext ==
    \/ WrAddInterface
    \/ \E dst \in {LanRange, ServerPrefix} : AddExclusionRoute(dst) \/ DeleteExclusionRoute(dst)
    \/ UpdateRoutePrefix \/ DeleteRoutePrefix
    \/ WrDeleteInterface \/ DestroyMonitor
    \/ RouteChanged \/ SysRouteChanges \/ InterfaceChanges

WrSpec == WrInit /\ [][WrNext]_wr

-----------------------------------------------------------------------------
(* Properties. *)

\* Once the reported changes are handled, every excluded destination leaves
\* by the route the system would use without the tunnel: the row the monitor
\* keeps for it has the interface and next hop of the best row over the
\* interfaces connected now, and is really in the kernel's table; there is
\* none where the system has an exact route or no route at all
\* (updateExclusionRoute, updateInterfaceMetrics, routeChanged).
ExclusionsFollowSystem ==
    wr.mon.live /\ ~wr.pending => \A dst \in DOMAIN wr.mon.excl :
        LET best == BestRows(wr.sys, wr.conn, dst)
            mine == {r \in wr.kern : r.dst = dst /\ r.via # "vpn"}
        IN  \/ mine = {} /\ (best = {} \/ \E r \in best : r.dst = dst)
            \/ \E r \in best : r.dst # dst /\ mine = {OwnRow(dst, r)}

\* A local network the session excluded is never captured: for every route
\* of the system inside an excluded range, the kernel's longest match is not
\* the tunnel, even while changes wait to be handled (isRouteExcluded).
LanStaysLocal ==
    wr.mon.live => \A r \in wr.sys : LanRange \in DOMAIN wr.mon.excl /\ routeContainsDest(LanRange, r.dst) =>
        ~\E k \in wr.kern : k.via = "vpn" /\ Len(k.dst) >= Len(r.dst) /\ routeContainsDest(k.dst, r.dst)

\* While the tunnel is the default route, a handled change leaves in the
\* tunnel exactly the system's more specific routes that are not excluded:
\* no such network bypasses the tunnel and no capture outlives its route
\* (updateCapturedRoutes).
CapturesFollowSystem ==
    wr.mon.capture /\ wr.synced /\ ~wr.pending =>
        {k.dst : k \in {q \in wr.kern : q.via = "vpn"}} =
            {<<>>} \cup {d \in {r.dst : r \in wr.sys} : d # <<>> /\ ~\E e \in DOMAIN wr.mon.excl : routeContainsDest(e, d)}

\* When the session's interface and its monitor are gone, none of their
\* routes is left in the kernel's table (~WindowsRouteMonitor, deleteRoutePrefix).
NoRoutesLeft == ~wr.mon.live /\ ~wr.old.live => wr.kern = {}

\* The monitor's rows follow the system: exclusions leave as without the
\* tunnel, local networks stay local, captures match the system's routes, and
\* nothing outlives the monitor.
RowsFollowSystem == ExclusionsFollowSystem /\ LanStaysLocal /\ CapturesFollowSystem /\ NoRoutesLeft

=============================================================================

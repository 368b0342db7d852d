---------------------------- MODULE RouteSession ----------------------------
(***************************************************************************)
(* The routes of an Xray session on the desktop: what VpnConnection asks   *)
(* of the privileged service (split tunnelling, its periodic refresh, the  *)
(* clean-up after a session), what the service's Router does with it on    *)
(* each platform and remembers of it, and how the service releases the     *)
(* session of a client process that has died.                              *)
(*                                                                         *)
(* A call that waits for the service runs the client's event loop, so that *)
(* timers and look-ups are handled inside it.  "calls" is the stack of the *)
(* waiting handlers.  The service answers calls in the order they were     *)
(* made: when an inner handler goes on, the outer ones have their answers  *)
(* and go on before any new event ("due").  Handlers of user commands that *)
(* nest in each other are the subject of the module VpnConnection; here a  *)
(* command waits until no other command is under way.                      *)
(***************************************************************************)
EXTENDS Integers, Sequences, FiniteSets

CONSTANTS
    Domains,      \* host names of the user's site list
    Subnets,      \* entries of the list that are addresses with a mask
    Addrs,        \* addresses the host names can resolve to
    WcmRows,      \* rows above which the service suspends wcmSvc (500)
    Gateways,     \* gateways of the physical networks
    MaxEvents     \* bound on commands, losses of tun2socks, deaths of the client
                  \* process and changes of the physical network, together

VARIABLES
    vc,       \* VpnConnection and its protocol object
    calls,    \* waiting handlers, the innermost first
    lookups,  \* QHostInfo look-ups under way
    first,    \* generations whose 60 s single shot has not fired
    known,    \* the address stored with every host name in the settings
    rt,       \* the service: routing table, Router and session resources
    link,     \* the client's socket and the service's orphan timer
    env,      \* platform, route mode, physical network and the bounds' counters
    late      \* history: a look-up of addSitesRoutes() was answered after its session

routesVars == <<vc, calls, lookups, first, known, rt, link, env, late>>

NoGw == "none"
Tun == "tun"
None == "unresolved"
Modes == {"all", "forward", "except"}
Platforms == {"linux", "mac", "windows"}

\* The eight subnets of setupRouting(), the two halves of the address space,
\* the DNS servers and the VPN server are one destination each.
Fixed == {"everything", "halves", "dns", "server"}
Dests == Fixed \cup Subnets \cup Addrs

\* There is a network; the device and the lack of a gateway are no gateways.
ASSUME GatewaysAssumption == Gateways # {} /\ {NoGw, Tun} \cap Gateways = {}

\* The list is finite, and its entries are none of the fixed destinations.
ASSUME SitesAssumption ==
    IsFiniteSet(Domains) /\ Fixed \cap (Subnets \cup Addrs) = {} /\ WcmRows \in Nat

---------------------------------------------------------------------------
(* Router of the service. *)

Reachable(r, gw) == IF gw = Tun THEN r.tun ELSE gw \in env.gws

\* A route to an unreachable gateway is refused by every system.
Accepted(r, gw, dests) == IF Reachable(r, gw) THEN {<<d, gw>> : d \in dests} ELSE {}

Installed(r, done) ==
    [r EXCEPT !.kernel = @ \cup done,
              !.mixed = @ \/ \E p \in r.kernel, q \in done : p[1] = q[1] /\ p[2] # q[2]]

\* SIOCADDRT: a route that exists is refused, and a refused one not remembered.
RouteAddLinux(r, gw, dests) ==
    LET done == Accepted(r, gw, dests)
    IN  [Installed(r, done) EXCEPT !.saved = @ \cup (done \ r.kernel)]

\* mainRouteIface() has no result that counts: every route is remembered.
RouteAddMac(r, gw, dests) ==
    [Installed(r, Accepted(r, gw, dests)) EXCEPT !.saved = @ \cup {<<d, gw>> : d \in dests}]

\* suspendWcmSvc(): many routes make the connection manager of Windows slow, so
\* that it is suspended while there are.
SuspendWcmSvc(r, suspend) == [r EXCEPT !.wcm = suspend]

\* CreateIpForwardEntry: a route that exists counts as added.
RouteAddWindows(r, gw, dests) ==
    LET done == Accepted(r, gw, dests)
        q == [Installed(r, done) EXCEPT !.saved = @ \cup done]
    IN  IF Cardinality(q.saved) > WcmRows THEN SuspendWcmSvc(q, TRUE) ELSE q

RouteAddList(r, gw, dests) ==
    CASE env.platform = "linux" -> RouteAddLinux(r, gw, dests)
      [] env.platform = "mac" -> RouteAddMac(r, gw, dests)
      [] env.platform = "windows" -> RouteAddWindows(r, gw, dests)

\* The number that routeAddList() returns says whether all were added.
AllAdded(r, gw, dests) ==
    \/ env.platform = "mac"
    \/ /\ Reachable(r, gw)
       /\ env.platform = "linux" => {<<d, gw>> : d \in dests} \cap r.kernel = {}

Deleted(r, gw, dests) == {<<d, gw>> : d \in dests} \cap r.kernel

\* SIOCDELRT and route(8): what was remembered stays so.
RouteDeleteLinux(r, gw, dests) == [r EXCEPT !.kernel = @ \ Deleted(r, gw, dests)]

RouteDeleteMac(r, gw, dests) == [r EXCEPT !.kernel = @ \ Deleted(r, gw, dests)]

\* Windows forgets a deleted route, and with it every other row that has the same
\* address as its key; rows of subnets have another key than the entry.
RouteDeleteWindows(r, gw, dests) ==
    LET gone == Deleted(r, gw, dests)
        keys == {p[1] : p \in gone} \ (Subnets \cup Fixed)
    IN  [r EXCEPT !.kernel = @ \ gone, !.saved = {p \in @ : p[1] \notin keys}]

RouteDeleteList(r, gw, dests) ==
    CASE env.platform = "linux" -> RouteDeleteLinux(r, gw, dests)
      [] env.platform = "mac" -> RouteDeleteMac(r, gw, dests)
      [] env.platform = "windows" -> RouteDeleteWindows(r, gw, dests)

ClearSavedLinux(r) == [r EXCEPT !.kernel = @ \ r.saved, !.saved = {}]

ClearSavedMac(r) == [r EXCEPT !.kernel = @ \ r.saved, !.saved = {}]

\* Without rows it returns at once, before suspendWcmSvc(false).
ClearSavedWindows(r) ==
    IF r.saved = {} THEN r
    ELSE SuspendWcmSvc([r EXCEPT !.kernel = @ \ r.saved, !.saved = {}], FALSE)

ClearSavedRoutes(r) ==
    CASE env.platform = "linux" -> ClearSavedLinux(r)
      [] env.platform = "mac" -> ClearSavedMac(r)
      [] env.platform = "windows" -> ClearSavedWindows(r)

\* Routes through a device that goes away go with it.
DeleteTun(r) ==
    IF env.platform = "windows" THEN r
    ELSE [r EXCEPT !.tun = FALSE, !.kernel = {p \in @ : p[2] # Tun}]

\* The device of tun2socks goes with its process.
KillTun2Socks(r) ==
    [r EXCEPT !.t2s = FALSE, !.tun = FALSE, !.kernel = {p \in @ : p[2] # Tun}]

\* StartRoutingIpv6() and restoreResolvers()
StartRoutingIpv6(r) == [r EXCEPT !.ipv6 = TRUE]

RestoreResolvers(r) == [r EXCEPT !.dns = FALSE]

MutStopSession(r) ==
    KillTun2Socks([RestoreResolvers(DeleteTun(r)) EXCEPT !.ks = FALSE, !.xray = FALSE])

\* XrayProtocol::stop() as the service sees it, tun2socks included
StopSession(r) ==
    KillTun2Socks([RestoreResolvers(DeleteTun(StartRoutingIpv6(r)))
                   EXCEPT !.ks = FALSE, !.xray = FALSE])

\* IpcServer::releaseOrphanSession
ReleaseOrphanSession(r) ==
    KillTun2Socks([DeleteTun(ClearSavedRoutes(RestoreResolvers(StartRoutingIpv6(
        [r EXCEPT !.ks = FALSE])))) EXCEPT !.xray = FALSE])

CreateTun(r) == [r EXCEPT !.tun = TRUE]

UpdateResolvers(r) == [r EXCEPT !.dns = TRUE]

StopRoutingIpv6(r) == [r EXCEPT !.ipv6 = FALSE]

\* The steps of XrayProtocol::setupRouting() in their order; step n is the
\* n-th call to the service.
SetupStep(r, n) ==
    CASE n = 1 -> CreateTun(r)
      [] n = 2 -> UpdateResolvers(r)
      [] n = 3 -> [r EXCEPT !.ks = TRUE]
      [] n = 4 -> IF env.mode = "all" THEN RouteAddList(r, Tun, {"everything"}) ELSE r
      [] n = 5 -> StopRoutingIpv6(r)

SetupUpTo(n) ==
    LET after[k \in 0 .. n] == IF k = 0 THEN rt ELSE SetupStep(after[k - 1], k)
    IN  after[n]

Idle == [kernel |-> {}, saved |-> {}, tun |-> FALSE, dns |-> FALSE, ks |-> FALSE,
         ipv6 |-> TRUE, xray |-> FALSE, t2s |-> FALSE, mixed |-> FALSE, wcm |-> FALSE]

---------------------------------------------------------------------------
(* VpnConnection. *)

NewClient ==
    [state |-> "Disconnected", proto |-> NoGw, pstate |-> "Unknown", run |-> "idle",
     gen |-> 0, pending |-> 0, resolved |-> {}, installed |-> {}, gw |-> NoGw,
     timer |-> FALSE, shots |-> 0, posted |-> 0, conn |-> 0]

MutSetConnectionState(v, state) ==
    [v EXCEPT !.timer = FALSE, !.gen = @ + 1, !.resolved = {}, !.installed = {},
              !.posted = @ + (IF state \in {"Disconnected", "Error"} THEN 1 ELSE 0),
              !.state = IF state = "Disconnected" /\ @ = "Reconnecting" THEN @ ELSE state]

\* setConnectionState for the states whose handler does not wait
SetConnectionState(v, state) ==
    [v EXCEPT !.timer = FALSE, !.gen = @ + 1, !.pending = 0, !.resolved = {},
              !.installed = {},
              !.posted = @ + (IF state \in {"Disconnected", "Error"} THEN 1 ELSE 0),
              !.state = IF state = "Disconnected" /\ @ = "Reconnecting" THEN @ ELSE state]

\* VpnProtocol::setConnectionState drops a repeated state.
SetProtocolStateTo(v, state) ==
    IF v.pstate = state THEN v
    ELSE SetConnectionState([v EXCEPT !.pstate = state], state)

NewProtocol(v) ==
    [v EXCEPT !.proto = env.default, !.pstate = "Unknown", !.run = "idle", !.shots = 0]

Call(op) == [op |-> op, due |-> FALSE]
Enter(op) == calls' = <<Call(op)>> \o calls
\* The outer handlers have their answers.
Outer == [i \in 1 .. Len(calls) - 1 |-> [calls[i + 1] EXCEPT !.due = TRUE]]
MutTop(op) == calls # <<>> /\ calls[1].op = op

\* The innermost handler has its answer.  Posted events run before the event
\* loop looks for answers, so none is left.
Top(op) == calls # <<>> /\ calls[1].op = op /\ vc.posted = 0

Free == link.alive /\ IF calls = <<>> THEN TRUE ELSE ~calls[1].due
NoCommand == Free /\ \A i \in 1 .. Len(calls) : calls[i].op = "cleanup"
Command == NoCommand /\ env.events < MaxEvents
Counted == env' = [env EXCEPT !.events = @ + 1]

\* connectToVpn(): the old protocol is stopped, then a new one starts.
ConnectVpn ==
    /\ Command /\ Counted
    /\ LET v == SetConnectionState(vc, "Connecting")
       IN  IF vc.proto # NoGw
           THEN vc' = v /\ Enter("stop-connect")
           ELSE vc' = NewProtocol(v) /\ Enter("start")
    /\ UNCHANGED <<lookups, first, known, rt, link, late>>

DisconnectVpn ==
    /\ Command /\ Counted
    /\ IF vc.proto = NoGw
       THEN vc' = SetConnectionState(vc, "Disconnected") /\ UNCHANGED calls
       ELSE vc' = SetConnectionState(vc, "Disconnecting") /\ Enter("stop-disconnect")
    /\ UNCHANGED <<lookups, first, known, rt, link, late>>

ReconnectVpn ==
    /\ Command /\ Counted
    /\ vc.proto # NoGw /\ vc.state = "Connected"
    /\ vc' = SetConnectionState(vc, "Reconnecting")
    /\ Enter("stop-reconnect")
    /\ UNCHANGED <<lookups, first, known, rt, link, late>>

\* tun2socks ends: its finished() handler stops the session.
Tun2SocksLost ==
    /\ Command /\ Counted
    /\ vc.run \in {"started", "up"} /\ rt.t2s
    /\ rt' = KillTun2Socks(rt)
    /\ Enter("stop-error")
    /\ UNCHANGED <<vc, lookups, first, known, link, late>>

\* XrayProtocol::stop() has its answers; the caller goes on.
Stopped(op) ==
    /\ Top(op)
    /\ rt' = StopSession(rt)
    /\ LET v == SetProtocolStateTo([vc EXCEPT !.run = "idle"], "Disconnected")
       IN  CASE op = "stop-connect" ->
                   vc' = NewProtocol(v) /\ calls' = <<Call("start")>> \o Outer
             [] op = "stop-disconnect" ->
                   vc' = [v EXCEPT !.proto = NoGw, !.shots = 0] /\ calls' = Outer
             [] op = "stop-reconnect" ->
                   vc' = v /\ calls' = <<Call("start")>> \o Outer
             [] op = "stop-error" ->
                   vc' = SetProtocolStateTo(v, "Error") /\ calls' = Outer
    /\ UNCHANGED <<lookups, first, known, link, env, late>>

\* XrayProtocol::start() goes on: Xray failed, or the process for tun2socks
\* could not be had, or tun2socks starts, after IpcServerProcess::start() has
\* killed every other process of that name.
TunnelStarted ==
    /\ Top("start")
    /\ calls' = Outer
    /\ \/ vc' = SetConnectionState(vc, "Error") /\ rt' \in {rt, [rt EXCEPT !.xray = TRUE]}
       \/ /\ vc' = [vc EXCEPT !.run = "started"]
          /\ rt' = [KillTun2Socks(rt) EXCEPT !.xray = TRUE, !.t2s = TRUE]
    /\ UNCHANGED <<lookups, first, known, link, env, late>>

\* The first line of tun2socks.  It was sent after every clean-up was posted,
\* so those have run.
Tun2SocksReady ==
    /\ NoCommand /\ vc.run = "started" /\ rt.t2s /\ vc.posted = 0
    /\ vc' = [vc EXCEPT !.run = "up"]
    /\ Enter("setup")
    /\ UNCHANGED <<lookups, first, known, rt, link, env, late>>

\* setupRouting() fails at step n, or succeeds and announces Connected, whose
\* handler first waits for flushDns().
SetupDone ==
    /\ Top("setup")
    /\ \/ \E n \in 1 .. 5 :
            /\ n = 4 => env.mode = "all"
            /\ rt' = SetupUpTo(n - 1)
            /\ calls' = <<Call("stop-error")>> \o Outer
            /\ UNCHANGED vc
       \/ /\ env.mode = "all" => AllAdded(SetupUpTo(3), Tun, {"everything"})
          /\ rt' = SetupUpTo(5)
          /\ vc' = [vc EXCEPT !.pstate = "Connected"]
          /\ calls' = <<Call("connected")>> \o Outer
    /\ UNCHANGED <<lookups, first, known, link, env, late>>

---------------------------------------------------------------------------
(* Split tunnelling by sites. *)

\* addSitesRoutes(): subnets and stored addresses get their routes at once, and
\* a look-up of every host name starts.
AddSitesRoutes(v, r, gw) ==
    LET ips == Subnets \cup {known[d] : d \in {e \in Domains : known[e] # None}}
    IN  [vc |-> [v EXCEPT !.gw = gw, !.installed = ips],
         rt |-> RouteAddList(r, gw, ips),
         lookups |-> lookups \cup {[kind |-> "add", site |-> d, gw |-> gw, ips |-> ips,
                                    gen |-> 0, conn |-> v.conn, known |-> None]
                                   : d \in Domains}]

\* The Connected branch of onConnectionStateChanged() after flushDns(), and the
\* end of setConnectionState().
ConnectedDone ==
    /\ Top("connected")
    /\ calls' = Outer
    /\ LET v == [vc EXCEPT !.state = "Connected", !.conn = @ + 1]
           dns == RouteAddList(rt, Tun, {"dns"})
           w == [v EXCEPT !.gen = @ + 1]
       IN  CASE env.mode = "all" ->
                   vc' = v /\ rt' = dns /\ UNCHANGED <<lookups, first>>
             [] env.mode = "forward" ->
                   /\ vc' = [w EXCEPT !.shots = @ + 1]
                   /\ rt' = dns
                   /\ first' = first \cup {w.gen}
                   /\ UNCHANGED lookups
             [] env.mode = "except" ->
                   LET server == RouteAddList(RouteAddList(dns, Tun, {"halves"}),
                                              vc.proto, {"server"})
                       added == AddSitesRoutes(w, server, vc.proto)
                   IN  /\ vc' = added.vc /\ rt' = added.rt /\ lookups' = added.lookups
                       /\ first' = first \cup {w.gen}
    /\ UNCHANGED <<known, link, env, late>>

\* The 1 s single shot of "forward" mode, which dies with its protocol object
SitesShot ==
    /\ Free /\ vc.shots > 0
    /\ LET added == AddSitesRoutes([vc EXCEPT !.shots = @ - 1], rt, Tun)
       IN  vc' = added.vc /\ rt' = added.rt /\ lookups' = added.lookups
    /\ UNCHANGED <<calls, first, known, link, env, late>>

\* The answer to a look-up of addSitesRoutes(); nothing ties it to its session.
RouteLookupDone(l, ip) ==
    /\ Free /\ l \in lookups /\ l.kind = "add"
    /\ lookups' = lookups \ {l}
    /\ IF ip # None /\ ip \notin l.ips
       THEN /\ rt' = RouteAddList(rt, l.gw, {ip})
            /\ known' = [known EXCEPT ![l.site] = ip]
            /\ vc' = [vc EXCEPT !.installed = @ \cup {ip}]
            /\ late' = (late \/ l.conn # vc.conn \/ vc.state # "Connected")
       ELSE UNCHANGED <<rt, known, vc, late>>
    /\ UNCHANGED <<calls, first, link, env>>

\* applySplitRefreshDelta()
ApplyDelta(v, r, resolved) ==
    IF v.state # "Connected" THEN [vc |-> v, rt |-> r]
    ELSE LET added == resolved \ v.installed
             removed == v.installed \ resolved
         IN  [vc |-> [v EXCEPT !.installed = resolved],
              rt |-> RouteDeleteList(RouteAddList(r, v.gw, added), v.gw, removed)]

\* refreshSitesRoutes()
RefreshSitesRoutes(v) ==
    IF v.state # "Connected" \/ v.proto = NoGw \/ v.pending > 0
    THEN vc' = v /\ UNCHANGED <<rt, lookups>>
    ELSE IF Domains = {}
    THEN LET d == ApplyDelta([v EXCEPT !.resolved = {}], rt, Subnets)
         IN  vc' = d.vc /\ rt' = d.rt /\ UNCHANGED lookups
    ELSE /\ vc' = [v EXCEPT !.resolved = Subnets, !.pending = Cardinality(Domains)]
         /\ lookups' = lookups \cup
                {[kind |-> "refresh", site |-> d, gw |-> NoGw, ips |-> {}, gen |-> v.gen,
                  conn |-> v.conn, known |-> known[d]] : d \in Domains}
         /\ UNCHANGED rt

\* The 60 s single shot of a generation, after the 1 s shots of the same handler
FirstRefresh(g) ==
    /\ Free /\ g \in first /\ vc.shots = 0
    /\ first' = first \ {g}
    /\ IF g = vc.gen /\ vc.state = "Connected"
       THEN RefreshSitesRoutes([vc EXCEPT !.timer = TRUE])
       ELSE UNCHANGED <<vc, rt, lookups>>
    /\ UNCHANGED <<calls, known, link, env, late>>

RefreshTick ==
    /\ Free /\ vc.timer
    /\ RefreshSitesRoutes(vc)
    /\ UNCHANGED <<calls, first, known, link, env, late>>

\* The answer to a look-up of the refresh: one of an older generation is dropped.
RefreshResolved(l, ip) ==
    /\ Free /\ l \in lookups /\ l.kind = "refresh"
    /\ lookups' = lookups \ {l}
    /\ IF l.gen # vc.gen \/ vc.state # "Connected"
       THEN UNCHANGED <<vc, rt, known>>
       ELSE LET keep == IF ip # None THEN {ip} ELSE {l.known} \ {None}
                v == [vc EXCEPT !.resolved = @ \cup keep, !.pending = @ - 1]
                d == IF v.pending = 0
                     THEN ApplyDelta([v EXCEPT !.resolved = {}], rt, v.resolved)
                     ELSE [vc |-> v, rt |-> rt]
            IN  /\ vc' = d.vc /\ rt' = d.rt
                /\ known' = IF ip # None THEN [known EXCEPT ![l.site] = ip] ELSE known
    /\ UNCHANGED <<calls, first, link, env, late>>

\* The posted clean-up after Disconnected and Error: flushDns() is waited for,
\* then the saved routes are cleared.
CleanupStart ==
    /\ Free /\ vc.posted > 0
    /\ vc' = [vc EXCEPT !.posted = @ - 1]
    /\ Enter("cleanup")
    /\ UNCHANGED <<lookups, first, known, rt, link, env, late>>

CleanupDone ==
    /\ Top("cleanup")
    /\ calls' = Outer
    /\ rt' = ClearSavedRoutes(rt)
    /\ UNCHANGED <<vc, lookups, first, known, link, env, late>>

---------------------------------------------------------------------------
(* The network and the life of the client process. *)

\* Other gateways are up and another one is the default.
NetworkMoves ==
    /\ env.events < MaxEvents
    /\ \E gws \in SUBSET Gateways \ {{}} : \E d \in gws :
         /\ <<gws, d>> # <<env.gws, env.default>>
         /\ env' = [env EXCEPT !.gws = gws, !.default = d, !.moved = TRUE, !.events = @ + 1]
         /\ rt' = [rt EXCEPT !.kernel = {p \in @ : p[2] = Tun \/ p[2] \in gws}]
    /\ UNCHANGED <<vc, calls, lookups, first, known, link, late>>

\* The process dies; what it had asked of the service may still be carried out.
ClientDies ==
    /\ link.alive /\ env.events < MaxEvents
    /\ env' = [env EXCEPT !.died = TRUE, !.events = @ + 1]
    /\ link' = [alive |-> FALSE, orphan |-> TRUE]
    /\ rt' \in {rt} \cup (IF Top("setup") THEN {SetupUpTo(5)} ELSE {})
                    \cup (IF Top("start") THEN {[rt EXCEPT !.xray = TRUE]} ELSE {})
    /\ vc' = NewClient /\ calls' = <<>> /\ lookups' = {} /\ first' = {}
    /\ UNCHANGED <<known, late>>

ClientStarts ==
    /\ ~link.alive
    /\ link' = [link EXCEPT !.alive = TRUE]
    /\ UNCHANGED <<vc, calls, lookups, first, known, rt, env, late>>

\* The 1 s timer of LocalServer after the last socket closed
OrphanTimer ==
    /\ link.orphan
    /\ link' = [link EXCEPT !.orphan = FALSE]
    /\ rt' = IF link.alive THEN rt ELSE ReleaseOrphanSession(rt)
    /\ UNCHANGED <<vc, calls, lookups, first, known, env, late>>

RoutesInit ==
    /\ \E m \in Modes, p \in Platforms :
         env = [mode |-> m, platform |-> p, gws |-> Gateways,
                default |-> CHOOSE g \in Gateways : TRUE,
                events |-> 0, died |-> FALSE, moved |-> FALSE]
    /\ vc = NewClient /\ calls = <<>> /\ lookups = {} /\ first = {}
    /\ known = [d \in Domains |-> None]
    /\ rt = Idle /\ link = [alive |-> TRUE, orphan |-> FALSE] /\ late = FALSE

StopOps == {"stop-connect", "stop-disconnect", "stop-reconnect", "stop-error"}

RoutesNext ==
    \/ ConnectVpn \/ DisconnectVpn \/ ReconnectVpn \/ Tun2SocksLost
    \/ \E op \in StopOps : Stopped(op)
    \/ TunnelStarted \/ Tun2SocksReady \/ SetupDone \/ ConnectedDone
    \/ SitesShot
    \/ \E l \in lookups, ip \in Addrs \cup {None} : RouteLookupDone(l, ip) \/ RefreshResolved(l, ip)
    \/ \E g \in first : FirstRefresh(g)
    \/ RefreshTick \/ CleanupStart \/ CleanupDone
    \/ NetworkMoves \/ ClientDies \/ ClientStarts \/ OrphanTimer

RoutesSpec == RoutesInit /\ [][RoutesNext]_routesVars

---------------------------------------------------------------------------
(* Properties. *)

Routes == Dests \X (Gateways \cup {Tun})

\* A route that the service has put into the table is one it will take out
\* again: clearSavedRoutes() knows it.  On Windows a deleted route takes the
\* memory of another route to the same address with it, which needs routes of
\* two sessions in the table ("mixed").
NothingForgotten ==
    (env.platform = "windows" /\ rt.mixed) \/ rt.kernel \subseteq rt.saved

\* m_splitRefreshPending counts the look-ups of the current refresh exactly, so
\* that the last one applies the delta and no later cycle is skipped for ever.
RefreshNeverStuck ==
    vc.pending = Cardinality({l \in lookups : l.kind = "refresh" /\ l.gen = vc.gen})

\* The clean-up that a Disconnected or an Error posts never clears the routes of
\* a session that began after it: when it clears, no session is up.
CleanupSparesNewSession ==
    [][Top("cleanup") /\ calls' # calls /\ Len(calls') < Len(calls)
        => vc.state # "Connected" \/ vc.run # "up"]_routesVars

Quiet == calls = <<>> /\ vc.posted = 0
Released == ~rt.ks /\ ~rt.dns /\ ~rt.tun /\ ~rt.xray /\ ~rt.t2s /\ rt.ipv6

\* After a disconnect nothing of the session is left: no firewall, no resolvers,
\* no device, no Xray, IPv6 routed again, and no route unless a look-up was
\* answered after its session had ended.
DisconnectedIsClean ==
    Quiet /\ link.alive /\ ~env.died /\ vc.proto = NoGw
        => Released /\ (~late => rt.kernel = {})

\* While a session is up, the routes that the client believes installed are in
\* the table through the gateway the refresh uses, unless an answer of an older
\* session came late or the network has moved.
InstalledAreInTable ==
    Quiet /\ vc.state = "Connected" /\ vc.run = "up" /\ vc.shots = 0 /\ ~late /\ ~env.moved /\ ~env.died
        => \A ip \in vc.installed : <<ip, vc.gw>> \in rt.kernel

\* wcmSvc is never left suspended without saved rows: the next clearSavedRoutes(),
\* which returns early without rows, would not resume it.
WcmResumed == rt.wcm => rt.saved # {}

\* What client and service remember of the routes is right through late
\* answers, refreshes and clean-ups: the service knows what it has to remove,
\* the client what it has installed and waits for, and wcmSvc is resumed.
RoutesAreKnown == NothingForgotten /\ RefreshNeverStuck /\ InstalledAreInTable /\ WcmResumed

\* A dead client's session does not outlive the orphan timer.
OrphanRoutesReleased ==
    ~link.alive /\ ~link.orphan
        => Released /\ ((env.platform = "windows" /\ rt.mixed) \/ rt.kernel = {})

\* A session leaves nothing behind, whether the client ends it or dies.
SessionLeavesNothing == DisconnectedIsClean /\ OrphanRoutesReleased
=============================================================================

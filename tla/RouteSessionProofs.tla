------------------------- MODULE RouteSessionProofs -------------------------
(***************************************************************************)
(* What TLAPS proves of RouteSession, for any sites, addresses, gateways,  *)
(* limit of suspendWcmSvc and number of events: the clean-ups of Xray      *)
(* sessions come before the next session, client and service know the      *)
(* routes they have installed, and a session leaves nothing behind.        *)
(***************************************************************************)
EXTENDS RouteSession, FiniteSetTheorems, TLAPS

\* A CASE with a true guard has its value.  The translation for the SMT solver infers no
\* types for a step that may use a CASE expression; for the large records of these
\* steps, inferring them would take it longer than it is given.
LEMMA Untyped == (CASE TRUE -> 0) = 0
  OBVIOUS
USE Untyped

(* Clean-ups and the handlers that wait. *)


\* The handlers that wait for the service.
CallOps == StopOps \cup {"start", "setup", "connected", "cleanup"}
WaitingCall == [op : CallOps, due : BOOLEAN]

\* The members of VpnConnection that the order of clean-ups depends on: while a
\* protocol object has started, no clean-up is posted.
ClientSound(v) ==
    /\ {"state", "proto", "pstate", "run", "posted", "shots"} \subseteq DOMAIN v
    /\ v.run \in {"idle", "started", "up"}
    /\ v.posted \in Nat
    /\ v.run # "idle" => v.posted = 0 /\ v.proto # NoGw

\* At most one command waits, the others are clean-ups.  Those below a protocol
\* object that has started have their answers.
StackSound(c, run, proto) ==
    /\ c \in Seq(WaitingCall)
    /\ \A i, j \in 1 .. Len(c) : c[i].op # "cleanup" /\ c[j].op # "cleanup" => i = j
    /\ \A i \in 1 .. Len(c) :
         /\ c[i].op = "start" => run = "idle"
         /\ c[i].op \in {"start", "stop-reconnect"} => proto # NoGw
         /\ run = "started" /\ c[i].op = "cleanup" => c[i].due
         /\ run = "up" => c[i].op # "cleanup"

\* The inductive invariant.
CleanupInv ==
    /\ ClientSound(vc) /\ StackSound(calls, vc.run, vc.proto)
    /\ {"default", "mode"} \subseteq DOMAIN env /\ env.default # NoGw /\ env.mode \in Modes

\* setConnectionState posts a clean-up only for Disconnected and Error.
LEMMA SetStateSound ==
    ASSUME NEW v, NEW s, ClientSound(v), s \in {"Disconnected", "Error"} => v.run = "idle"
    PROVE  /\ ClientSound(SetConnectionState(v, s))
           /\ SetConnectionState(v, s).run = v.run
           /\ SetConnectionState(v, s).proto = v.proto
  BY DEF ClientSound, SetConnectionState

\* The same through VpnProtocol::setConnectionState.
LEMMA SetProtocolStateSound ==
    ASSUME NEW v, NEW s, ClientSound(v), s \in {"Disconnected", "Error"} => v.run = "idle"
    PROVE  /\ ClientSound(SetProtocolStateTo(v, s))
           /\ SetProtocolStateTo(v, s).run = v.run
           /\ SetProtocolStateTo(v, s).proto = v.proto
<1> DEFINE w == [v EXCEPT !.pstate = s]
<1>1. ClientSound(w) /\ w.run = v.run /\ w.proto = v.proto
  BY DEF ClientSound
<1>2. CASE v.pstate = s
  BY <1>2 DEF SetProtocolStateTo
<1>3. CASE v.pstate # s
  <2>1. SetProtocolStateTo(v, s) = SetConnectionState(w, s)
    BY <1>3 DEF SetProtocolStateTo
  <2> HIDE DEF w
  <2> QED BY <1>1, <2>1, SetStateSound
<1> QED BY <1>2, <1>3

\* A new protocol object has not started.
LEMMA NewProtocolSound ==
    ASSUME NEW v, ClientSound(v)
    PROVE  /\ ClientSound(NewProtocol(v)) /\ NewProtocol(v).run = "idle"
           /\ NewProtocol(v).proto = env.default
  BY DEF ClientSound, NewProtocol

\* A handler begins to wait: a clean-up only while no protocol object has
\* started, a command only over clean-ups.
LEMMA EnterSound ==
    ASSUME NEW run, NEW proto, NEW op \in CallOps, NEW c, StackSound(c, run, proto),
           op = "start" => run = "idle",
           op \in {"start", "stop-reconnect"} => proto # NoGw,
           op = "cleanup" => run = "idle",
           op # "cleanup" => \A i \in 1 .. Len(c) : c[i].op = "cleanup"
    PROVE  StackSound(<<Call(op)>> \o c, run, proto)
<1> DEFINE d == <<Call(op)>> \o c
<1>1. c \in Seq(WaitingCall) /\ Len(c) \in Nat
  BY DEF StackSound
<1>2. Call(op) \in WaitingCall /\ Call(op).op = op /\ Call(op).due = FALSE
  BY DEF Call, WaitingCall
<1>3. /\ d \in Seq(WaitingCall) /\ Len(d) = Len(c) + 1 /\ d[1] = Call(op)
      /\ \A i \in 1 .. Len(d) : i # 1 => i - 1 \in 1 .. Len(c) /\ d[i] = c[i - 1]
  BY <1>1, <1>2
<1> HIDE DEF d
<1>4. \A i, j \in 1 .. Len(d) : d[i].op # "cleanup" /\ d[j].op # "cleanup" => i = j
  <2> SUFFICES ASSUME NEW i \in 1 .. Len(d), NEW j \in 1 .. Len(d),
                      d[i].op # "cleanup", d[j].op # "cleanup"
               PROVE  i = j
    OBVIOUS
  <2>1. CASE op = "cleanup"
    <3>1. i # 1 /\ j # 1
      BY <2>1, <1>2, <1>3
    <3>2. i - 1 = j - 1
      BY <3>1, <1>3 DEF StackSound
    <3> QED BY <3>2, <1>1, <1>3
  <2>2. CASE op # "cleanup"
    BY <2>2, <1>3
  <2> QED BY <2>1, <2>2
<1>5. \A i \in 1 .. Len(d) :
         /\ d[i].op = "start" => run = "idle"
         /\ d[i].op \in {"start", "stop-reconnect"} => proto # NoGw
         /\ run = "started" /\ d[i].op = "cleanup" => d[i].due
         /\ run = "up" => d[i].op # "cleanup"
  BY <1>2, <1>3 DEF StackSound
<1> QED BY <1>3, <1>4, <1>5 DEF StackSound, d

\* The innermost handler returns: the others have their answers.  Below a command
\* are clean-ups only, which run before any new event.
LEMMA OuterSound ==
    ASSUME NEW run, NEW proto, calls # <<>>, StackSound(calls, run, proto)
    PROVE  /\ StackSound(Outer, run, proto)
           /\ StackSound(Outer, "idle", proto)
           /\ calls[1].op # "cleanup" =>
                /\ \A i \in 1 .. Len(Outer) : Outer[i].op = "cleanup"
                /\ \A p : StackSound(Outer, "idle", p)
                /\ StackSound(Outer, "started", proto)
<1>1. /\ calls \in Seq(WaitingCall) /\ Len(calls) \in Nat \ {0}
      /\ \A i \in 1 .. Len(calls) : calls[i] \in WaitingCall
  BY DEF StackSound
<1>2. /\ Len(Outer) = Len(calls) - 1 /\ Outer \in Seq(WaitingCall)
      /\ \A i \in 1 .. Len(Outer) :
           /\ i + 1 \in 1 .. Len(calls) /\ Outer[i].op = calls[i + 1].op
           /\ Outer[i].due = TRUE
  <2>1. \A i \in 1 .. Len(calls) - 1 :
           /\ [calls[i + 1] EXCEPT !.due = TRUE] \in WaitingCall
           /\ [calls[i + 1] EXCEPT !.due = TRUE].op = calls[i + 1].op
           /\ [calls[i + 1] EXCEPT !.due = TRUE].due = TRUE
    <3> SUFFICES ASSUME NEW i \in 1 .. Len(calls) - 1
                 PROVE  /\ [calls[i + 1] EXCEPT !.due = TRUE] \in WaitingCall
                        /\ [calls[i + 1] EXCEPT !.due = TRUE].op = calls[i + 1].op
                        /\ [calls[i + 1] EXCEPT !.due = TRUE].due = TRUE
      OBVIOUS
    <3>1. i + 1 \in 1 .. Len(calls)
      BY <1>1
    <3>2. calls[i + 1] \in WaitingCall
      BY <1>1, <3>1
    <3> QED BY <3>2, Zenon DEF WaitingCall
  <2>2. Len(calls) - 1 \in Nat
    BY <1>1
  <2>3. Outer \in Seq(WaitingCall) /\ Len(Outer) = Len(calls) - 1
    BY <2>1, <2>2 DEF Outer
  <2> QED BY <2>1, <2>3, <1>1 DEF Outer
<1>3. \A i, j \in 1 .. Len(Outer) : Outer[i].op # "cleanup" /\ Outer[j].op # "cleanup" => i = j
  <2> SUFFICES ASSUME NEW i \in 1 .. Len(Outer), NEW j \in 1 .. Len(Outer),
                      Outer[i].op # "cleanup", Outer[j].op # "cleanup"
               PROVE  i = j
    OBVIOUS
  <2>1. i + 1 = j + 1
    BY <1>2, Zenon DEF StackSound
  <2> QED BY <2>1, <1>1, <1>2
<1>4. ASSUME calls[1].op # "cleanup"
      PROVE  \A i \in 1 .. Len(Outer) : Outer[i].op = "cleanup"
  <2> SUFFICES ASSUME NEW i \in 1 .. Len(Outer), Outer[i].op # "cleanup"
               PROVE  FALSE
    OBVIOUS
  <2>1. i + 1 = 1
    BY <1>1, <1>2, <1>4, SMTT(30) DEF StackSound
  <2> QED BY <2>1, <1>1, <1>2
<1>5. StackSound(Outer, run, proto) /\ StackSound(Outer, "idle", proto)
  <2>1. \A i \in 1 .. Len(Outer) :
          /\ Outer[i].op = "start" => run = "idle"
          /\ Outer[i].op \in {"start", "stop-reconnect"} => proto # NoGw
          /\ run = "up" => Outer[i].op # "cleanup"
    BY <1>2 DEF StackSound
  <2> QED BY <1>2, <1>3, <2>1 DEF StackSound
<1>6. ASSUME calls[1].op # "cleanup"
      PROVE  (\A p : StackSound(Outer, "idle", p)) /\ StackSound(Outer, "started", proto)
  BY <1>2, <1>3, <1>4, <1>6 DEF StackSound
<1> QED BY <1>4, <1>5, <1>6

\* Waiting clean-ups do not depend on the protocol object before it starts.
LEMMA IdleStack ==
    ASSUME NEW run, NEW proto, NEW c, StackSound(c, run, proto),
           \A i \in 1 .. Len(c) : c[i].op = "cleanup"
    PROVE  \A p : StackSound(c, "idle", p)
  BY DEF StackSound

\* What leaves the protocol object's course and the posted clean-ups alone.
Alike(v, w) ==
    /\ DOMAIN w = DOMAIN v /\ w.run = v.run /\ w.posted = v.posted /\ w.proto = v.proto

\* A step that leaves these members and the stack alone keeps the invariant.
LEMMA AlikeSound ==
    ASSUME CleanupInv, Alike(vc, vc'), calls' = calls,
           {"default", "mode"} \subseteq DOMAIN env', env'.default # NoGw, env'.mode \in Modes
    PROVE  CleanupInv'
  BY DEF CleanupInv, Alike, ClientSound, StackSound

\* addSitesRoutes leaves them alone,
LEMMA SitesAlike ==
    ASSUME NEW v, ClientSound(v), NEW r, NEW gw
    PROVE  Alike(v, AddSitesRoutes(v, r, gw).vc)
  BY Zenon DEF AddSitesRoutes, Alike, ClientSound

\* and applySplitRefreshDelta,
LEMMA DeltaAlike ==
    ASSUME NEW v, ClientSound(v), NEW r, NEW res
    PROVE  Alike(v, ApplyDelta(v, r, res).vc)
  BY DEF ApplyDelta, Alike

\* and refreshSitesRoutes.
LEMMA RefreshAlike ==
    ASSUME NEW v, ClientSound(v), RefreshSitesRoutes(v)
    PROVE  Alike(v, vc')
<1>1. CASE v.state # "Connected" \/ v.proto = NoGw \/ v.pending > 0
  BY <1>1 DEF RefreshSitesRoutes, Alike
<1>2. CASE ~(v.state # "Connected" \/ v.proto = NoGw \/ v.pending > 0) /\ Domains = {}
  <2> DEFINE w == [v EXCEPT !.resolved = {}]
  <2>1. ClientSound(w) /\ Alike(v, w)
    BY DEF ClientSound, Alike
  <2>2. vc' = ApplyDelta(w, rt, Subnets).vc
    BY <1>2 DEF RefreshSitesRoutes
  <2>3. Alike(w, vc')
    BY <2>1, <2>2, DeltaAlike
  <2> QED BY <2>1, <2>3 DEF Alike
<1>3. CASE ~(v.state # "Connected" \/ v.proto = NoGw \/ v.pending > 0) /\ Domains # {}
  BY <1>3, Zenon DEF RefreshSitesRoutes, Alike, ClientSound
<1> QED BY <1>1, <1>2, <1>3

\* The invariant holds when the client starts.
LEMMA CleanupInvInit == RoutesInit => CleanupInv
  BY GatewaysAssumption DEF RoutesInit, CleanupInv, ClientSound, StackSound, NewClient, WaitingCall, Modes

\* A command finds clean-ups only, and none once the protocol object has started.
LEMMA OnlyCleanups ==
    ASSUME CleanupInv, NoCommand
    PROVE  /\ \A i \in 1 .. Len(calls) : calls[i].op = "cleanup"
           /\ vc.run \in {"started", "up"} => calls = <<>>
<1>1. \A i \in 1 .. Len(calls) : calls[i].op = "cleanup"
  BY DEF NoCommand
<1>2. ASSUME vc.run \in {"started", "up"}, calls # <<>> PROVE FALSE
  <2>1. 1 \in 1 .. Len(calls)
    BY <1>2 DEF CleanupInv, StackSound
  <2>2. ~calls[1].due
    BY <1>2 DEF NoCommand, Free
  <2> QED BY <1>1, <1>2, <2>1, <2>2 DEF CleanupInv, StackSound
<1> QED BY <1>1, <1>2

\* Every step keeps the invariant.
LEMMA CleanupInvStep == CleanupInv /\ [RoutesNext]_routesVars => CleanupInv'
<1> SUFFICES ASSUME CleanupInv, [RoutesNext]_routesVars
             PROVE  CleanupInv'
  OBVIOUS
<1>i. ClientSound(vc) /\ StackSound(calls, vc.run, vc.proto)
  BY DEF CleanupInv
<1>n. env.default # NoGw
  BY DEF CleanupInv
<1>d. {"default", "mode"} \subseteq DOMAIN env' /\ env'.default # NoGw /\ env'.mode \in Modes
  <2>1. CASE env' = env
    BY <2>1 DEF CleanupInv
  <2>2. CASE NetworkMoves
    <3>1. PICK gws \in SUBSET Gateways \ {{}} : \E x \in gws :
            env' = [env EXCEPT !.gws = gws, !.default = x, !.moved = TRUE, !.events = @ + 1]
      BY <2>2, Zenon DEF NetworkMoves
    <3> QED BY <3>1, GatewaysAssumption, SMTT(30) DEF CleanupInv
  <2>3. CASE Counted
    BY <2>3 DEF Counted, CleanupInv
  <2>4. CASE ClientDies
    BY <2>4, SMTT(30) DEF ClientDies, CleanupInv
  <2>5. \/ env' = env \/ Counted \/ NetworkMoves \/ ClientDies
    BY ZenonT(40) DEF RoutesNext, routesVars, ConnectVpn, DisconnectVpn, ReconnectVpn, Tun2SocksLost, Stopped,
           TunnelStarted, Tun2SocksReady, SetupDone, ConnectedDone, SitesShot, RouteLookupDone,
           RefreshResolved, FirstRefresh, RefreshTick, CleanupStart, CleanupDone, ClientStarts,
           OrphanTimer
  <2> QED BY <2>1, <2>2, <2>3, <2>4, <2>5
<1>a. ASSUME Alike(vc, vc'), calls' = calls PROVE CleanupInv'
  BY <1>a, <1>d, AlikeSound
<1>e. ASSUME ClientSound(vc'), StackSound(calls', vc'.run, vc'.proto)
      PROVE  CleanupInv'
  BY <1>d, <1>e DEF CleanupInv
<1>k. {"stop-connect", "stop-disconnect", "stop-reconnect", "stop-error",
       "start", "setup", "connected", "cleanup"} \subseteq CallOps
  BY DEF CallOps, StopOps
<1>0. CASE UNCHANGED routesVars
  BY <1>0, <1>a DEF routesVars, Alike
<1>1. CASE ConnectVpn
  <2> DEFINE v == SetConnectionState(vc, "Connecting")
  <2>1. NoCommand
    BY <1>1 DEF ConnectVpn, Command
  <2>2. ClientSound(v) /\ v.run = vc.run /\ v.proto = vc.proto
    BY <1>i, SetStateSound
  <2>3. ClientSound(NewProtocol(v)) /\ NewProtocol(v).run = "idle" /\ NewProtocol(v).proto = env.default
    BY <2>2, NewProtocolSound
  <2>4. \/ vc' = v /\ calls' = <<Call("stop-connect")>> \o calls
        \/ vc' = NewProtocol(v) /\ calls' = <<Call("start")>> \o calls
    BY <1>1 DEF ConnectVpn, Enter
  <2> HIDE DEF v
  <2>5. StackSound(<<Call("stop-connect")>> \o calls, vc.run, vc.proto)
    BY <1>i, <1>k, <2>1, OnlyCleanups, EnterSound
  <2>6. StackSound(calls, "idle", env.default)
    BY <1>i, <2>1, OnlyCleanups, IdleStack
  <2>7. StackSound(<<Call("start")>> \o calls, "idle", env.default)
    BY <1>k, <1>n, <2>1, <2>6, OnlyCleanups, EnterSound
  <2> QED BY <2>2, <2>3, <2>4, <2>5, <2>7, <1>e, Zenon
<1>2. CASE DisconnectVpn
  <2>1. NoCommand
    BY <1>2 DEF DisconnectVpn, Command
  <2>2. CASE vc.proto = NoGw
    <3>1. vc' = SetConnectionState(vc, "Disconnected") /\ calls' = calls
      BY <1>2, <2>2 DEF DisconnectVpn
    <3>2. vc.run = "idle"
      BY <1>i, <2>2 DEF ClientSound
    <3>3. ClientSound(vc') /\ vc'.run = vc.run /\ vc'.proto = vc.proto
      BY <1>i, <3>1, <3>2, SetStateSound
    <3> QED BY <1>i, <3>1, <3>3, <1>e
  <2>3. CASE vc.proto # NoGw
    <3>1. vc' = SetConnectionState(vc, "Disconnecting")
          /\ calls' = <<Call("stop-disconnect")>> \o calls
      BY <1>2, <2>3 DEF DisconnectVpn, Enter
    <3>2. ClientSound(vc') /\ vc'.run = vc.run /\ vc'.proto = vc.proto
      BY <1>i, <3>1, SetStateSound
    <3>3. StackSound(<<Call("stop-disconnect")>> \o calls, vc.run, vc.proto)
      BY <1>i, <1>k, <2>1, OnlyCleanups, EnterSound
    <3> QED BY <3>1, <3>2, <3>3, <1>e
  <2> QED BY <2>2, <2>3
<1>3. CASE ReconnectVpn
  <2>1. NoCommand /\ vc.proto # NoGw /\ vc' = SetConnectionState(vc, "Reconnecting")
        /\ calls' = <<Call("stop-reconnect")>> \o calls
    BY <1>3 DEF ReconnectVpn, Command, Enter
  <2>2. ClientSound(vc') /\ vc'.run = vc.run /\ vc'.proto = vc.proto
    BY <1>i, <2>1, SetStateSound
  <2>3. StackSound(<<Call("stop-reconnect")>> \o calls, vc.run, vc.proto)
    BY <1>i, <1>k, <2>1, OnlyCleanups, EnterSound
  <2> QED BY <2>1, <2>2, <2>3, <1>e
<1>4. CASE Tun2SocksLost
  <2>1. NoCommand /\ vc' = vc /\ calls' = <<Call("stop-error")>> \o calls
    BY <1>4 DEF Tun2SocksLost, Command, Enter
  <2>2. StackSound(<<Call("stop-error")>> \o calls, vc.run, vc.proto)
    BY <1>i, <1>k, <2>1, OnlyCleanups, EnterSound
  <2> QED BY <1>i, <2>1, <2>2, <1>e
<1>5. ASSUME NEW op \in StopOps, Stopped(op) PROVE CleanupInv'
  <2> DEFINE u == [vc EXCEPT !.run = "idle"]
             v == SetProtocolStateTo(u, "Disconnected")
  <2>1. calls # <<>> /\ calls[1].op # "cleanup" /\ calls[1].op = op
    BY <1>5 DEF Stopped, Top, StopOps
  <2>2. ClientSound(u) /\ u.run = "idle" /\ u.proto = vc.proto
    BY <1>i DEF ClientSound
  <2>3. ClientSound(v) /\ v.run = "idle" /\ v.proto = vc.proto
    <3> HIDE DEF u
    <3> QED BY <2>2, SetProtocolStateSound
  <2>4. /\ \A p : StackSound(Outer, "idle", p)
        /\ \A i \in 1 .. Len(Outer) : Outer[i].op = "cleanup"
    BY <1>i, <2>1, OuterSound
  <2>5. \A p : p # NoGw => StackSound(<<Call("start")>> \o Outer, "idle", p)
    BY <1>k, <2>4, EnterSound
  <2>6. \/ vc' = NewProtocol(v) /\ calls' = <<Call("start")>> \o Outer
        \/ vc' = [v EXCEPT !.proto = NoGw, !.shots = 0] /\ calls' = Outer
        \/ op = "stop-reconnect" /\ vc' = v /\ calls' = <<Call("start")>> \o Outer
        \/ vc' = SetProtocolStateTo(v, "Error") /\ calls' = Outer
    BY <1>5, Zenon DEF Stopped, StopOps
  <2> HIDE DEF v, u
  <2>7. CASE vc' = NewProtocol(v) /\ calls' = <<Call("start")>> \o Outer
    BY <2>3, <2>5, <2>7, <1>n, NewProtocolSound, <1>e
  <2>8. CASE vc' = [v EXCEPT !.proto = NoGw, !.shots = 0] /\ calls' = Outer
    <3>1. ClientSound(vc') /\ vc'.run = "idle"
      BY <2>3, <2>8 DEF ClientSound
    <3> QED BY <2>4, <2>8, <3>1, <1>e
  <2>9. CASE op = "stop-reconnect" /\ vc' = v /\ calls' = <<Call("start")>> \o Outer
    <3>1. vc.proto # NoGw
      BY <1>i, <2>1, <2>9 DEF StackSound
    <3> QED BY <2>3, <2>5, <2>9, <3>1, <1>e
  <2>10. CASE vc' = SetProtocolStateTo(v, "Error") /\ calls' = Outer
    <3>1. ClientSound(vc') /\ vc'.run = "idle"
      BY <2>3, <2>10, SetProtocolStateSound
    <3> QED BY <2>4, <2>10, <3>1, <1>e
  <2> QED BY <2>6, <2>7, <2>8, <2>9, <2>10
<1>6. CASE TunnelStarted
  <2>1. calls # <<>> /\ calls[1].op = "start" /\ vc.posted = 0 /\ calls' = Outer
    BY <1>6 DEF TunnelStarted, Top
  <2>2. vc.run = "idle" /\ vc.proto # NoGw
    BY <1>i, <2>1 DEF StackSound
  <2>3. StackSound(Outer, "idle", vc.proto) /\ StackSound(Outer, "started", vc.proto)
    BY <1>i, <2>1, OuterSound
  <2>4. CASE vc' = SetConnectionState(vc, "Error")
    <3>1. ClientSound(vc') /\ vc'.run = "idle" /\ vc'.proto = vc.proto
      BY <1>i, <2>2, <2>4, SetStateSound
    <3> QED BY <2>1, <2>3, <3>1, <1>e
  <2>5. CASE vc' = [vc EXCEPT !.run = "started"]
    <3>1. ClientSound(vc') /\ vc'.run = "started" /\ vc'.proto = vc.proto
      BY <1>i, <2>1, <2>2, <2>5 DEF ClientSound
    <3> QED BY <2>1, <2>3, <3>1, <1>e
  <2> QED BY <1>6, <2>4, <2>5 DEF TunnelStarted
<1>7. CASE Tun2SocksReady
  <2>1. /\ NoCommand /\ vc.run = "started" /\ vc.posted = 0
        /\ vc' = [vc EXCEPT !.run = "up"] /\ calls' = <<Call("setup")>> \o calls
    BY <1>7 DEF Tun2SocksReady, Enter
  <2>2. calls = <<>>
    BY <2>1, OnlyCleanups
  <2>3. StackSound(<<>>, "up", vc.proto)
    BY DEF StackSound
  <2>4. StackSound(<<Call("setup")>> \o calls, "up", vc.proto)
    <3>1. StackSound(calls, "up", vc.proto) /\ \A i \in 1 .. Len(calls) : calls[i].op = "cleanup"
      BY <2>2, <2>3
    <3> QED BY <1>k, <3>1, EnterSound
  <2>5. ClientSound(vc') /\ vc'.run = "up" /\ vc'.proto = vc.proto
    BY <1>i, <2>1 DEF ClientSound
  <2> QED BY <2>1, <2>4, <2>5, <1>e
<1>8. CASE SetupDone
  <2>1. calls # <<>> /\ calls[1].op = "setup"
    BY <1>8 DEF SetupDone, Top
  <2>2. /\ StackSound(Outer, vc.run, vc.proto)
        /\ \A i \in 1 .. Len(Outer) : Outer[i].op = "cleanup"
    BY <1>i, <2>1, OuterSound
  <2>3. /\ StackSound(<<Call("stop-error")>> \o Outer, vc.run, vc.proto)
        /\ StackSound(<<Call("connected")>> \o Outer, vc.run, vc.proto)
    BY <1>k, <2>2, EnterSound
  <2>4. \/ vc' = vc /\ calls' = <<Call("stop-error")>> \o Outer
        \/ vc' = [vc EXCEPT !.pstate = "Connected"] /\ calls' = <<Call("connected")>> \o Outer
    BY <1>8 DEF SetupDone
  <2>5. ClientSound(vc') /\ vc'.run = vc.run /\ vc'.proto = vc.proto
    BY <1>i, <2>4 DEF ClientSound
  <2> QED BY <2>3, <2>4, <2>5, <1>e, Zenon
<1>9. CASE ConnectedDone
  <2>1. calls # <<>> /\ calls' = Outer
    BY <1>9 DEF ConnectedDone, Top
  <2>2. StackSound(Outer, vc.run, vc.proto)
    BY <1>i, <2>1, OuterSound
  <2>3. Alike(vc, vc')
    <3> DEFINE v == [vc EXCEPT !.state = "Connected", !.conn = @ + 1]
               w == [v EXCEPT !.gen = @ + 1]
    <3>1. ClientSound(w) /\ Alike(vc, v) /\ Alike(vc, w)
      BY <1>i DEF ClientSound, Alike
    <3>2. \/ vc' = v \/ vc' = [w EXCEPT !.shots = @ + 1]
          \/ \E r : vc' = AddSitesRoutes(w, r, vc.proto).vc
      BY <1>9, Zenon DEF ConnectedDone, CleanupInv, Modes
    <3>3. Alike(w, [w EXCEPT !.shots = @ + 1])
      BY <3>1 DEF ClientSound, Alike
    <3> HIDE DEF v, w
    <3>4. ASSUME NEW r PROVE Alike(w, AddSitesRoutes(w, r, vc.proto).vc)
      BY <3>1, SitesAlike
    <3>5. vc' = v \/ Alike(w, vc')
      BY <3>2, <3>3, <3>4, Zenon
    <3> QED BY <3>1, <3>5 DEF Alike
  <2>4. ClientSound(vc') /\ vc'.run = vc.run /\ vc'.proto = vc.proto
    BY <1>i, <2>3 DEF ClientSound, Alike
  <2> QED BY <2>1, <2>2, <2>4, <1>e
<1>10. CASE SitesShot
  <2> DEFINE v == [vc EXCEPT !.shots = @ - 1]
  <2>1. ClientSound(v) /\ Alike(vc, v)
    BY <1>i DEF ClientSound, Alike
  <2>2. vc' = AddSitesRoutes(v, rt, Tun).vc /\ calls' = calls
    BY <1>10 DEF SitesShot
  <2> HIDE DEF v
  <2>3. Alike(vc, vc')
    BY <2>1, <2>2, SitesAlike DEF Alike
  <2> QED BY <2>2, <2>3, <1>a
<1>11. ASSUME NEW l \in lookups, NEW ip, RouteLookupDone(l, ip) PROVE CleanupInv'
  <2>1. Alike(vc, vc') /\ calls' = calls
    BY <1>11, <1>i DEF RouteLookupDone, Alike, ClientSound
  <2> QED BY <2>1, <1>a
<1>12. ASSUME NEW l \in lookups, NEW ip, RefreshResolved(l, ip) PROVE CleanupInv'
  <2>1. CASE l.gen # vc.gen \/ vc.state # "Connected"
    BY <1>12, <2>1, <1>a DEF RefreshResolved, Alike
  <2>2. CASE ~(l.gen # vc.gen \/ vc.state # "Connected")
    <3> DEFINE keep == IF ip # None THEN {ip} ELSE {l.known} \ {None}
               v == [vc EXCEPT !.resolved = @ \cup keep, !.pending = @ - 1]
               w == [v EXCEPT !.resolved = {}]
    <3>1. ClientSound(v) /\ Alike(vc, v) /\ ClientSound(w) /\ Alike(vc, w)
      BY <1>i DEF ClientSound, Alike
    <3>2. vc' = v \/ vc' = ApplyDelta(w, rt, v.resolved).vc
      BY <1>12, <2>2 DEF RefreshResolved
    <3>3. calls' = calls
      BY <1>12 DEF RefreshResolved
    <3>4. Alike(w, ApplyDelta(w, rt, v.resolved).vc)
      <4> HIDE DEF w
      <4> QED BY <3>1, DeltaAlike
    <3> HIDE DEF v, w
    <3>5. Alike(vc, vc')
      BY <3>1, <3>2, <3>4 DEF Alike
    <3> QED BY <3>3, <3>5, <1>a
  <2> QED BY <2>1, <2>2
<1>13. ASSUME NEW g \in first, FirstRefresh(g) PROVE CleanupInv'
  <2> DEFINE v == [vc EXCEPT !.timer = TRUE]
  <2>1. ClientSound(v) /\ Alike(vc, v)
    BY <1>i DEF ClientSound, Alike
  <2>2. calls' = calls /\ (vc' = vc \/ RefreshSitesRoutes(v))
    BY <1>13 DEF FirstRefresh
  <2> HIDE DEF v
  <2>3. Alike(vc, vc')
    BY <2>1, <2>2, RefreshAlike DEF Alike
  <2> QED BY <2>2, <2>3, <1>a
<1>14. CASE RefreshTick
  BY <1>14, <1>i, <1>a, RefreshAlike DEF RefreshTick
<1>15. CASE CleanupStart
  <2>1. vc.posted > 0 /\ vc' = [vc EXCEPT !.posted = @ - 1] /\ calls' = <<Call("cleanup")>> \o calls
    BY <1>15 DEF CleanupStart, Enter
  <2>2. vc.run = "idle" /\ ClientSound(vc') /\ vc'.run = "idle" /\ vc'.proto = vc.proto
    BY <1>i, <2>1 DEF ClientSound
  <2>3. StackSound(<<Call("cleanup")>> \o calls, "idle", vc.proto)
    BY <1>i, <1>k, <2>2, EnterSound
  <2> QED BY <2>1, <2>2, <2>3, <1>e
<1>16. CASE CleanupDone
  <2>1. calls # <<>> /\ calls' = Outer /\ vc' = vc
    BY <1>16 DEF CleanupDone, Top
  <2> QED BY <1>i, <2>1, OuterSound, <1>e
<1>17. CASE NetworkMoves
  BY <1>17, <1>a DEF NetworkMoves, Alike
<1>18. CASE ClientDies
  <2>1. vc' = NewClient /\ calls' = <<>>
    BY <1>18 DEF ClientDies
  <2>2. ClientSound(NewClient) /\ NewClient.run = "idle"
    BY DEF ClientSound, NewClient
  <2>3. StackSound(<<>>, "idle", NewClient.proto)
    BY DEF StackSound
  <2> QED BY <2>1, <2>2, <2>3, <1>e
<1>19. CASE ClientStarts \/ OrphanTimer
  BY <1>19, <1>a DEF ClientStarts, OrphanTimer, Alike
<1> QED
  BY SMTT(30), <1>0, <1>1, <1>2, <1>3, <1>4, <1>5, <1>6, <1>7, <1>8, <1>9, <1>10, <1>11, <1>12,
     <1>13, <1>14, <1>15, <1>16, <1>17, <1>18, <1>19 DEF RoutesNext

\* CleanupSparesNewSession for any sites, gateways and number of events: when
\* onConnectionStateChanged clears the saved routes in its posted call, no later
\* session is up.  XrayProtocol reports the first line of tun2socks only after
\* start() has returned, and every clean-up that waited below it has run by then.
THEOREM SessionIsSpared == RoutesSpec => CleanupSparesNewSession
<1>1. CleanupInv =>
        (Top("cleanup") /\ calls' # calls /\ Len(calls') < Len(calls)
           => vc.state # "Connected" \/ vc.run # "up")
  BY DEF CleanupInv, StackSound, Top
<1> QED BY <1>1, CleanupInvInit, CleanupInvStep, PTL DEF RoutesSpec, CleanupSparesNewSession

-----------------------------------------------------------------------------
(* The routes: the invariant. *)

\* The members of VpnConnection, of the service and of the environment.
ClientFields ==
    {"state", "proto", "pstate", "run", "gen", "pending", "resolved", "installed", "gw",
     "timer", "shots", "posted", "conn"}
ServiceFields == {"kernel", "saved", "tun", "dns", "ks", "ipv6", "xray", "t2s", "mixed", "wcm"}
EnvFields == {"mode", "platform", "gws", "default", "events", "died", "moved"}
\* What the routes of the sites go to.
Sites == Subnets \cup Addrs

\* The types.
ClientTyped(v) ==
    /\ DOMAIN v = ClientFields
    /\ v.gen \in Nat /\ v.pending \in Nat /\ v.conn \in Nat /\ v.shots \in Nat /\ v.posted \in Nat
    /\ v.timer \in BOOLEAN
    /\ v.resolved \subseteq Sites /\ v.installed \subseteq Sites
    /\ v.proto \in Gateways \cup {NoGw}

ServiceTyped(r) ==
    /\ DOMAIN r = ServiceFields
    /\ {r.tun, r.dns, r.ks, r.ipv6, r.xray, r.t2s, r.mixed, r.wcm} \subseteq BOOLEAN

LookupTyped(l) ==
    /\ l.kind \in {"add", "refresh"} /\ l.site \in Domains
    /\ l.gen \in Nat /\ l.conn \in Nat /\ l.known \in Addrs \cup {None}

Typed ==
    /\ ClientTyped(vc) /\ ServiceTyped(rt)
    /\ known \in [Domains -> Addrs \cup {None}]
    /\ DOMAIN env = EnvFields
    /\ env.mode \in Modes /\ env.platform \in Platforms
    /\ env.gws \subseteq Gateways /\ env.default \in Gateways
    /\ env.died \in BOOLEAN /\ env.moved \in BOOLEAN /\ late \in BOOLEAN
    /\ ~env.moved => env.gws = Gateways
    /\ DOMAIN link = {"alive", "orphan"} /\ link.alive \in BOOLEAN /\ link.orphan \in BOOLEAN
    /\ \A l \in lookups : LookupTyped(l)

\* The handlers that wait.
OpsOf(c) == {c[i].op : i \in 1 .. Len(c)}
Ops == OpsOf(calls)
Starting == {"stop-connect", "stop-disconnect", "stop-reconnect", "start", "setup", "connected"}

\* The states of VpnConnection and of its protocol object, and the handler that
\* waits.
StateInv ==
    /\ vc.state = "Connected" => vc.pstate = "Connected" /\ vc.run = "up"
    /\ Ops \cap Starting # {} => vc.state # "Connected"
    /\ "setup" \in Ops \/ "connected" \in Ops => vc.run = "up"
    /\ "connected" \in Ops => vc.pstate = "Connected" /\ rt.tun
    /\ Ops \subseteq {"cleanup"} \/ vc.proto # NoGw
    /\ vc.run = "up" /\ vc.pstate # "Connected" => "setup" \in Ops \/ "stop-error" \in Ops
    /\ vc.state = "Connected" /\ "stop-error" \notin Ops => rt.tun
    /\ ~link.alive => calls = <<>> /\ vc = NewClient
    /\ ~env.died => link.alive /\ ~link.orphan

\* The look-ups that m_splitRefreshPending counts.
Counting(ls, gen) == {l \in ls : l.kind = "refresh" /\ l.gen = gen}

\* The count is exact, and no look-up is of a later generation.
RefreshInv ==
    /\ IsFiniteSet(lookups)
    /\ \A l \in lookups : l.kind = "refresh" => l.gen <= vc.gen
    /\ vc.state # "Connected" => vc.pending = 0
    /\ vc.pending = Cardinality(Counting(lookups, vc.gen))

\* The table and what the Router remembers of it.  Two routes to one address are
\* "mixed"; wcmSvc is suspended only with a row to resume it by.
TableSound(r, platform) ==
    /\ \A p \in r.kernel : p = <<p[1], p[2]>>
    /\ (\E p, q \in r.kernel : p[1] = q[1] /\ p[2] # q[2]) => r.mixed
    /\ (platform = "windows" /\ r.mixed) \/ r.kernel \subseteq r.saved
    /\ r.wcm => platform = "windows" /\ r.saved # {}

\* A session on Windows has a saved row that no refresh deletes.
RowInv ==
    vc.state = "Connected" /\ env.platform = "windows" => <<"dns", Tun>> \in rt.saved

\* The gateway of the sites, by route mode, for the client and for look-ups of the
\* same session.
SitesInv ==
    /\ env.mode = "all" => lookups = {} /\ first = {} /\ ~vc.timer /\ vc.installed = {}
    /\ env.mode # "forward" => vc.shots = 0
    /\ env.mode = "forward" =>
         (vc.timer \/ lookups # {} \/ (vc.state = "Connected" /\ vc.shots = 0) => vc.gw = Tun)
    /\ env.mode = "except" /\ vc.state = "Connected" => vc.gw = vc.proto
    /\ \A l \in lookups : l.kind = "add" =>
         /\ l.conn <= vc.conn
         /\ env.mode = "forward" => l.gw = Tun
         /\ env.mode = "except" /\ l.conn = vc.conn /\ vc.state = "Connected" => l.gw = vc.gw

\* The routes that the client believes installed are in the table.
TableInv ==
    vc.state = "Connected" /\ "stop-error" \notin Ops /\ vc.shots = 0 /\ ~late /\ ~env.moved /\ ~env.died
        => \A ip \in vc.installed : <<ip, vc.gw>> \in rt.kernel

\* The gateway that a session uses for a destination.
Via(d, proto) ==
    IF d \in {"everything", "halves", "dns"} \/ (env.mode = "forward" /\ d # "server") THEN Tun
    ELSE proto

\* What is left of a session: routes only with a clean-up to come, and while it is
\* up every route has its session's gateway.
CleanInv ==
    ~env.died =>
      /\ vc.proto = NoGw => Released
      /\ vc.run # "up" => ~rt.tun
      /\ ~late => ~rt.mixed
      /\ ~late /\ vc.run = "up" => \A p \in rt.kernel : p[2] = Via(p[1], vc.proto)
      /\ ~late /\ vc.run # "up" /\ vc.posted = 0 /\ "cleanup" \notin Ops => rt.kernel = {}

\* The invariant, with the one of the clean-ups.
Rest ==
    /\ Typed /\ StateInv /\ RefreshInv /\ TableSound(rt, env.platform) /\ RowInv
    /\ SitesInv /\ TableInv /\ CleanInv /\ OrphanRoutesReleased

SessionInv == CleanupInv /\ Rest

-----------------------------------------------------------------------------
(* The service. *)

\* The service's members that the Router leaves alone.
Untouched(r, s) ==
    /\ s.tun = r.tun /\ s.dns = r.dns /\ s.ks = r.ks /\ s.ipv6 = r.ipv6
    /\ s.xray = r.xray /\ s.t2s = r.t2s

\* Routes were added.
Adds(r, s, gw, dests) ==
    /\ ServiceTyped(s) /\ Untouched(r, s)
    /\ s.kernel = r.kernel \cup Accepted(r, gw, dests)
    /\ r.saved \subseteq s.saved
    /\ env.platform = "windows" => Accepted(r, gw, dests) \subseteq s.saved
    /\ s.mixed = (r.mixed \/ \E p \in r.kernel, q \in Accepted(r, gw, dests) : p[1] = q[1] /\ p[2] # q[2])

\* Router::routeAddList on any platform: what is added is in the table, and the
\* memory of it stays sound.
LEMMA AddsRoutes ==
    ASSUME NEW r, ServiceTyped(r), NEW gw, NEW dests, env.platform \in Platforms,
           TableSound(r, env.platform)
    PROVE  /\ Adds(r, RouteAddList(r, gw, dests), gw, dests)
           /\ TableSound(RouteAddList(r, gw, dests), env.platform)
<1> DEFINE done == Accepted(r, gw, dests)
           mix == \E p \in r.kernel, q \in done : p[1] = q[1] /\ p[2] # q[2]
           s == RouteAddList(r, gw, dests)
<1>1. \A q \in done : q = <<q[1], gw>> /\ q[2] = gw
  BY DEF Accepted
<1>2. done \subseteq {<<d, gw>> : d \in dests}
  BY DEF Accepted
<1> HIDE DEF done
<1>3. /\ ServiceTyped(Installed(r, done)) /\ Untouched(r, Installed(r, done))
      /\ Installed(r, done).kernel = r.kernel \cup done
      /\ Installed(r, done).mixed = (r.mixed \/ mix)
      /\ Installed(r, done).saved = r.saved /\ Installed(r, done).wcm = r.wcm
  BY SMTT(30) DEF Installed, ServiceTyped, ServiceFields, Untouched
<1>4. /\ ServiceTyped(s) /\ Untouched(r, s) /\ s.kernel = r.kernel \cup done
      /\ s.mixed = (r.mixed \/ mix)
      /\ r.saved \subseteq s.saved /\ r.kernel \cup done \subseteq s.saved \cup r.kernel
      /\ env.platform = "windows" => done \subseteq s.saved
      /\ s.wcm => r.wcm \/ (env.platform = "windows" /\ s.saved # {})
  <2> DEFINE i == Installed(r, done)
  <2> HIDE DEF mix
  <2>1. CASE env.platform = "linux"
    <3>1. s = [i EXCEPT !.saved = i.saved \cup (done \ r.kernel)]
      BY <2>1 DEF RouteAddList, RouteAddLinux, done
    <3> HIDE DEF i, s
    <3> QED BY <2>1, <1>3, <3>1, Zenon DEF ServiceTyped, ServiceFields, Untouched, i
  <2>2. CASE env.platform = "mac"
    <3>1. s = [i EXCEPT !.saved = i.saved \cup {<<d, gw>> : d \in dests}]
      BY <2>2 DEF RouteAddList, RouteAddMac, done
    <3> HIDE DEF i, s
    <3> QED BY <2>2, <1>2, <1>3, <3>1, Zenon DEF ServiceTyped, ServiceFields, Untouched, i
  <2>3. CASE env.platform = "windows"
    <3> DEFINE q == [i EXCEPT !.saved = i.saved \cup done]
    <3>1. s = IF Cardinality(q.saved) > WcmRows THEN SuspendWcmSvc(q, TRUE) ELSE q
      BY <2>3 DEF RouteAddList, RouteAddWindows, done
    <3>2. /\ ServiceTyped(q) /\ Untouched(r, q) /\ q.kernel = r.kernel \cup done
          /\ q.mixed = (r.mixed \/ mix) /\ q.saved = r.saved \cup done /\ q.wcm = r.wcm
      BY <1>3, Zenon DEF ServiceTyped, ServiceFields, Untouched
    <3>3. Cardinality(q.saved) > WcmRows => q.saved # {}
      BY FS_EmptySet, SitesAssumption, SMTT(30)
    <3> HIDE DEF q, s
    <3> QED BY <2>3, <3>1, <3>2, <3>3, ZenonT(40) DEF ServiceTyped, ServiceFields, Untouched, SuspendWcmSvc
  <2> QED BY <2>1, <2>2, <2>3 DEF Platforms
<1> HIDE DEF s
<1>5. Adds(r, s, gw, dests)
  BY <1>4 DEF Adds, done
<1>6. TableSound(s, env.platform)
  <2>1. \A p \in s.kernel : p = <<p[1], p[2]>>
    BY <1>1, <1>4 DEF TableSound
  <2>2. ASSUME NEW p \in s.kernel, NEW q \in s.kernel, p[1] = q[1], p[2] # q[2] PROVE s.mixed
    <3>1. CASE p \in r.kernel /\ q \in r.kernel
      BY <2>2, <3>1, <1>4, Zenon DEF TableSound
    <3>2. CASE p \in done /\ q \in done
      BY <2>2, <3>2, <1>1
    <3>3. CASE (p \in r.kernel /\ q \in done) \/ (q \in r.kernel /\ p \in done)
      BY <2>2, <3>3, <1>4, Zenon
    <3> QED BY <3>1, <3>2, <3>3, <1>4
  <2>3. (env.platform = "windows" /\ s.mixed) \/ s.kernel \subseteq s.saved
    BY <1>4, Zenon DEF TableSound
  <2>4. s.wcm => env.platform = "windows" /\ s.saved # {}
    BY <1>4 DEF TableSound
  <2> QED BY <2>1, <2>2, <2>3, <2>4 DEF TableSound
<1> QED BY <1>5, <1>6 DEF s

\* Routes were deleted.
Deletes(r, s, gw, dests) ==
    /\ ServiceTyped(s) /\ Untouched(r, s)
    /\ s.kernel = r.kernel \ Deleted(r, gw, dests)
    /\ s.mixed = r.mixed
    /\ \A p \in r.saved : p[1] \in Fixed => p \in s.saved

\* Router::routeDeleteList: only the rows of the deleted addresses are forgotten,
\* and on Windows one row is left for suspendWcmSvc to be undone by.
LEMMA DeletesRoutes ==
    ASSUME NEW r, ServiceTyped(r), NEW gw, NEW dests, env.platform \in Platforms,
           TableSound(r, env.platform), env.platform = "windows" => <<"dns", Tun>> \in r.saved
    PROVE  /\ Deletes(r, RouteDeleteList(r, gw, dests), gw, dests)
           /\ TableSound(RouteDeleteList(r, gw, dests), env.platform)
<1> DEFINE s == RouteDeleteList(r, gw, dests)
           gone == Deleted(r, gw, dests)
           keys == {p[1] : p \in gone} \ (Subnets \cup Fixed)
<1>1. gone \subseteq r.kernel /\ \A p \in gone : p[2] = gw
  BY DEF Deleted
<1>2. CASE env.platform \in {"linux", "mac"}
  <2>1. s = [r EXCEPT !.kernel = r.kernel \ gone]
    BY <1>2 DEF RouteDeleteList, RouteDeleteLinux, RouteDeleteMac
  <2>2. /\ ServiceTyped(s) /\ Untouched(r, s) /\ s.kernel = r.kernel \ gone
        /\ s.mixed = r.mixed /\ s.saved = r.saved /\ s.wcm = r.wcm
    BY <2>1 DEF ServiceTyped, ServiceFields, Untouched
  <2> HIDE DEF s, gone
  <2>3. TableSound(s, env.platform)
    BY <2>2 DEF TableSound
  <2> QED BY <2>2, <2>3 DEF Deletes, s, gone
<1>3. CASE env.platform = "windows"
  <2>1. s = [r EXCEPT !.kernel = r.kernel \ gone, !.saved = {p \in r.saved : p[1] \notin keys}]
    BY <1>3 DEF RouteDeleteList, RouteDeleteWindows
  <2>2. /\ ServiceTyped(s) /\ Untouched(r, s) /\ s.kernel = r.kernel \ gone
        /\ s.mixed = r.mixed /\ s.saved = {p \in r.saved : p[1] \notin keys} /\ s.wcm = r.wcm
    BY <2>1 DEF ServiceTyped, ServiceFields, Untouched
  <2> HIDE DEF s, gone
  <2>3. \A p \in r.saved : p[1] \in Fixed => p \in s.saved
    BY <2>2
  <2>4. s.saved # {}
    BY <1>3, <2>3 DEF Fixed
  <2>5. s.mixed \/ s.kernel \subseteq s.saved
    <3> SUFFICES ASSUME ~s.mixed, NEW p \in s.kernel PROVE p \in s.saved
      OBVIOUS
    <3>1. p \in r.saved /\ p \in r.kernel /\ p \notin gone
      BY <2>2 DEF TableSound
    <3>2. ASSUME p[1] \in keys PROVE FALSE
      <4>1. PICK q \in gone : q[1] = p[1]
        BY <3>2
      <4>2. q \in r.kernel /\ q = <<q[1], q[2]>> /\ p = <<p[1], p[2]>> /\ q[2] = gw
        BY <1>1, <3>1 DEF TableSound
      <4>3. q[2] # p[2]
        BY <3>1, <4>1, <4>2
      <4> QED BY <2>2, <3>1, <4>1, <4>2, <4>3 DEF TableSound
    <3> QED BY <2>2, <3>1, <3>2
  <2>6. TableSound(s, env.platform)
    BY <1>3, <2>2, <2>4, <2>5 DEF TableSound
  <2> QED BY <2>2, <2>3, <2>6 DEF Deletes, s, gone
<1> QED BY <1>2, <1>3 DEF Platforms

\* Routes that go by themselves.
LEMMA ShrinkSound ==
    ASSUME NEW r, NEW s, NEW platform, TableSound(r, platform), s.kernel \subseteq r.kernel,
           s.saved = r.saved, s.mixed = r.mixed, s.wcm = r.wcm
    PROVE  TableSound(s, platform)
  BY DEF TableSound

\* Router::clearSavedRoutes removes what is saved.
LEMMA ClearsSaved ==
    ASSUME NEW r, ServiceTyped(r), env.platform \in Platforms, TableSound(r, env.platform)
    PROVE  /\ ServiceTyped(ClearSavedRoutes(r)) /\ Untouched(r, ClearSavedRoutes(r))
           /\ TableSound(ClearSavedRoutes(r), env.platform)
           /\ ClearSavedRoutes(r).kernel = r.kernel \ r.saved
           /\ ClearSavedRoutes(r).mixed = r.mixed
<1> DEFINE s == ClearSavedRoutes(r)
<1>1. /\ ServiceTyped(s) /\ Untouched(r, s) /\ s.kernel = r.kernel \ r.saved
      /\ s.mixed = r.mixed /\ s.saved = {} /\ ~s.wcm
  <2>1. CASE env.platform \in {"linux", "mac"}
    <3>1. s = [r EXCEPT !.kernel = r.kernel \ r.saved, !.saved = {}]
      BY <2>1 DEF ClearSavedRoutes, ClearSavedLinux, ClearSavedMac
    <3>2. ~r.wcm
      BY <2>1 DEF TableSound
    <3> QED BY <3>1, <3>2 DEF ServiceTyped, ServiceFields, Untouched
  <2>2. CASE env.platform = "windows" /\ r.saved = {}
    <3>1. s = r
      BY <2>2 DEF ClearSavedRoutes, ClearSavedWindows
    <3> QED BY <2>2, <3>1 DEF TableSound, ServiceTyped, Untouched
  <2>3. CASE env.platform = "windows" /\ r.saved # {}
    <3>1. s = [[r EXCEPT !.kernel = r.kernel \ r.saved, !.saved = {}] EXCEPT !.wcm = FALSE]
      BY <2>3 DEF ClearSavedRoutes, ClearSavedWindows, SuspendWcmSvc
    <3> QED BY <3>1 DEF ServiceTyped, ServiceFields, Untouched
  <2> QED BY <2>1, <2>2, <2>3 DEF Platforms
<1> HIDE DEF s
<1>2. TableSound(s, env.platform)
  BY <1>1 DEF TableSound
<1> QED BY <1>1, <1>2, SMTT(30) DEF s

\* The tunnel's device goes, and what the session had.
LEMMA KillsTun ==
    ASSUME NEW r, ServiceTyped(r)
    PROVE  LET s == KillTun2Socks(r)
           IN  /\ ServiceTyped(s) /\ s.kernel = {p \in r.kernel : p[2] # Tun} /\ s.saved = r.saved
               /\ s.mixed = r.mixed /\ s.wcm = r.wcm /\ ~s.tun /\ ~s.t2s
               /\ s.dns = r.dns /\ s.ks = r.ks /\ s.ipv6 = r.ipv6 /\ s.xray = r.xray
  BY DEF KillTun2Socks, ServiceTyped, ServiceFields

\* deleteTun removes nothing but the device and its routes.
LEMMA DeletesTun ==
    ASSUME NEW r, ServiceTyped(r)
    PROVE  LET s == DeleteTun(r)
           IN  /\ ServiceTyped(s) /\ s.kernel \subseteq r.kernel /\ s.saved = r.saved
               /\ s.mixed = r.mixed /\ s.wcm = r.wcm
               /\ s.dns = r.dns /\ s.ks = r.ks /\ s.ipv6 = r.ipv6 /\ s.xray = r.xray
  BY ZenonT(40) DEF DeleteTun, ServiceTyped, ServiceFields

\* The six things that Released asks for
Bare(r) == ~r.ks /\ ~r.dns /\ ~r.tun /\ ~r.xray /\ ~r.t2s /\ r.ipv6

\* XrayProtocol::stop leaves nothing of the session but routes.
LEMMA StopsSession ==
    ASSUME NEW r, ServiceTyped(r)
    PROVE  LET s == StopSession(r)
           IN  /\ ServiceTyped(s) /\ s.kernel \subseteq r.kernel /\ s.saved = r.saved
               /\ s.mixed = r.mixed /\ s.wcm = r.wcm /\ Bare(s)
<1> DEFINE a == StartRoutingIpv6(r)
           b == DeleteTun(a)
           c == [RestoreResolvers(b) EXCEPT !.ks = FALSE, !.xray = FALSE]
<1>1. /\ ServiceTyped(a) /\ a.kernel = r.kernel /\ a.saved = r.saved /\ a.mixed = r.mixed
      /\ a.wcm = r.wcm /\ a.ipv6
  BY DEF StartRoutingIpv6, ServiceTyped, ServiceFields
<1> HIDE DEF a
<1>2. /\ ServiceTyped(b) /\ b.kernel \subseteq r.kernel /\ b.saved = r.saved /\ b.mixed = r.mixed
      /\ b.wcm = r.wcm /\ b.ipv6
  BY <1>1, DeletesTun
<1> HIDE DEF b
<1>3. /\ ServiceTyped(c) /\ c.kernel \subseteq r.kernel /\ c.saved = r.saved /\ c.mixed = r.mixed
      /\ c.wcm = r.wcm /\ c.ipv6 /\ ~c.dns /\ ~c.ks /\ ~c.xray
  BY <1>2, ZenonT(40) DEF RestoreResolvers, ServiceTyped, ServiceFields
<1>4. StopSession(r) = KillTun2Socks(c)
  BY DEF StopSession, a, b
<1> HIDE DEF c
<1> QED BY <1>3, <1>4, KillsTun DEF Bare

\* IpcServer::releaseOrphanSession leaves nothing that was saved either.
LEMMA ReleasesSession ==
    ASSUME NEW r, ServiceTyped(r), env.platform \in Platforms, TableSound(r, env.platform)
    PROVE  LET s == ReleaseOrphanSession(r)
           IN  /\ ServiceTyped(s) /\ TableSound(s, env.platform) /\ Bare(s) /\ s.mixed = r.mixed
               /\ s.kernel \subseteq r.kernel \ r.saved
<1> DEFINE a == RestoreResolvers(StartRoutingIpv6([r EXCEPT !.ks = FALSE]))
           b == ClearSavedRoutes(a)
           c == DeleteTun(b)
           d == [c EXCEPT !.xray = FALSE]
<1>1. /\ ServiceTyped(a) /\ a.kernel = r.kernel /\ a.saved = r.saved /\ a.mixed = r.mixed
      /\ a.wcm = r.wcm /\ a.ipv6 /\ ~a.ks /\ ~a.dns
  BY DEF RestoreResolvers, StartRoutingIpv6, ServiceTyped, ServiceFields
<1> HIDE DEF a
<1>2. TableSound(a, env.platform)
  BY <1>1, ShrinkSound, SMTT(30)
<1>3. /\ ServiceTyped(b) /\ TableSound(b, env.platform) /\ b.kernel = r.kernel \ r.saved
      /\ b.mixed = r.mixed /\ b.ipv6 /\ ~b.ks /\ ~b.dns
  BY <1>1, <1>2, ClearsSaved, SMTT(30) DEF Untouched
<1> HIDE DEF b
<1>4. /\ ServiceTyped(c) /\ c.kernel \subseteq r.kernel \ r.saved /\ c.saved = b.saved
      /\ c.kernel \subseteq b.kernel
      /\ c.mixed = r.mixed /\ c.wcm = b.wcm /\ c.ipv6 /\ ~c.ks /\ ~c.dns
  BY <1>3, DeletesTun
<1> HIDE DEF c
<1>5. /\ ServiceTyped(d) /\ d.kernel \subseteq r.kernel \ r.saved /\ d.saved = b.saved
      /\ d.kernel \subseteq b.kernel
      /\ d.mixed = r.mixed /\ d.wcm = b.wcm /\ d.ipv6 /\ ~d.ks /\ ~d.dns /\ ~d.xray
  BY <1>4, Zenon DEF ServiceTyped, ServiceFields
<1>6. ReleaseOrphanSession(r) = KillTun2Socks(d)
  BY DEF ReleaseOrphanSession, a, b, c
<1> HIDE DEF d
<1> DEFINE s == ReleaseOrphanSession(r)
<1>7. /\ ServiceTyped(s) /\ Bare(s) /\ s.kernel \subseteq r.kernel \ r.saved /\ s.saved = b.saved
      /\ s.kernel \subseteq b.kernel /\ s.mixed = r.mixed /\ s.wcm = b.wcm
  BY <1>5, <1>6, KillsTun DEF Bare
<1> HIDE DEF s
<1>8. TableSound(s, env.platform)
  BY <1>3, <1>7, ShrinkSound
<1> QED BY <1>7, <1>8 DEF s

\* The first n steps of setupRouting().
SetUp(n) ==
    CASE n = 0 -> rt
      [] n = 1 -> SetupStep(rt, 1)
      [] n = 2 -> SetupStep(SetupStep(rt, 1), 2)
      [] n = 3 -> SetupStep(SetupStep(SetupStep(rt, 1), 2), 3)
      [] n = 4 -> SetupStep(SetupStep(SetupStep(SetupStep(rt, 1), 2), 3), 4)
      [] n = 5 -> SetupStep(SetupStep(SetupStep(SetupStep(SetupStep(rt, 1), 2), 3), 4), 5)

\* setupRouting() is its five steps.
LEMMA SetupUnfolds == ASSUME NEW n \in 0 .. 5 PROVE SetupUpTo(n) = SetUp(n)
<1> DEFINE Sat(f) == f = [k \in 0 .. n |-> IF k = 0 THEN rt ELSE SetupStep(f[k - 1], k)]
           g == CHOOSE f : Sat(f)
           w == [k \in 0 .. n |-> SetUp(k)]
<1>1. SetUp(0) = rt /\ \A k \in 1 .. 5 : SetUp(k) = SetupStep(SetUp(k - 1), k)
  BY DEF SetUp
<1>2. Sat(w)
  <2>1. \A k \in 0 .. n : w[k] = IF k = 0 THEN rt ELSE SetupStep(w[k - 1], k)
    BY <1>1
  <2> QED BY <2>1
<1>3. Sat(g)
  <2> HIDE DEF Sat, w
  <2> QED BY <1>2
<1>4. SetupUpTo(n) = g[n]
  BY DEF SetupUpTo
<1>5. \A k \in 0 .. n : g[k] = IF k = 0 THEN rt ELSE SetupStep(g[k - 1], k)
  <2> HIDE DEF g
  <2> QED BY <1>3
<1>6. g[n] = SetUp(n)
  <2> HIDE Untyped DEF g
  <2> QED BY <1>1, <1>5, SMTT(30)
<1> QED BY <1>4, <1>6

\* What n steps of setupRouting() leave: the device, and in the mode "all" the
\* routes into it.
LEMMA SetsUp ==
    ASSUME NEW n \in 0 .. 5, ServiceTyped(rt), env.platform \in Platforms,
           TableSound(rt, env.platform)
    PROVE  LET s == SetupUpTo(n)
           IN  /\ ServiceTyped(s) /\ TableSound(s, env.platform)
               /\ n > 0 => s.tun
               /\ \A p \in s.kernel : p \in rt.kernel \/ p = <<"everything", Tun>>
               /\ s.mixed => rt.mixed \/ \E p \in rt.kernel : p[1] = "everything" /\ p[2] # Tun
<1> DEFINE Fine(s) ==
             /\ ServiceTyped(s) /\ TableSound(s, env.platform)
             /\ \A p \in s.kernel : p \in rt.kernel \/ p = <<"everything", Tun>>
             /\ s.mixed => rt.mixed \/ \E p \in rt.kernel : p[1] = "everything" /\ p[2] # Tun
<1>0. Fine(SetUp(0)) /\ SetUp(0) = rt
  BY DEF SetUp
<1>1. Fine(SetUp(1)) /\ SetUp(1).tun
  <2>0. SetUp(1) = SetupStep(rt, 1)
    BY SMTT(30) DEF SetUp
  <2>1. SetUp(1) = [rt EXCEPT !.tun = TRUE]
    BY <2>0, SMTT(30) DEF SetupStep, CreateTun
  <2>2. /\ ServiceTyped(SetUp(1)) /\ SetUp(1).kernel = rt.kernel /\ SetUp(1).saved = rt.saved
        /\ SetUp(1).mixed = rt.mixed /\ SetUp(1).wcm = rt.wcm /\ SetUp(1).tun
    BY <2>1, ZenonT(40) DEF ServiceTyped, ServiceFields
  <2>3. TableSound(SetUp(1), env.platform)
    BY <2>2, ShrinkSound
  <2> QED BY <2>2, <2>3
<1>2. ASSUME NEW k \in {2, 3, 5}, Fine(SetUp(k - 1)), SetUp(k - 1).tun
      PROVE  Fine(SetUp(k)) /\ SetUp(k).tun
  <2> DEFINE s == SetUp(k - 1)
             t == SetUp(k)
  <2>1. t = SetupStep(s, k)
    BY DEF SetUp
  <2> HIDE DEF s, t
  <2>2. \/ t = [s EXCEPT !.dns = TRUE] \/ t = [s EXCEPT !.ks = TRUE] \/ t = [s EXCEPT !.ipv6 = FALSE]
    BY <2>1 DEF SetupStep, UpdateResolvers, StopRoutingIpv6
  <2>3. ServiceTyped(s) /\ TableSound(s, env.platform) /\ s.tun
    BY <1>2 DEF s
  <2>4. /\ ServiceTyped(t) /\ t.kernel = s.kernel /\ t.saved = s.saved
        /\ t.mixed = s.mixed /\ t.wcm = s.wcm /\ t.tun
    BY <2>2, <2>3, ZenonT(40) DEF ServiceTyped, ServiceFields
  <2>5. TableSound(t, env.platform)
    BY <2>3, <2>4, ShrinkSound
  <2> QED BY <1>2, <2>4, <2>5 DEF s, t
<1>3. Fine(SetUp(2)) /\ SetUp(2).tun
  <2> HIDE DEF Fine
  <2> QED BY <1>1, <1>2
<1>4. Fine(SetUp(3)) /\ SetUp(3).tun
  <2> HIDE DEF Fine
  <2> QED BY <1>3, <1>2
<1>5. Fine(SetUp(4)) /\ SetUp(4).tun
  <2> DEFINE s == SetUp(3)
             t == SetUp(4)
  <2>0. t = SetupStep(s, 4)
    BY DEF SetUp
  <2>1. t = IF env.mode = "all" THEN RouteAddList(s, Tun, {"everything"}) ELSE s
    <3> HIDE DEF s, t
    <3> QED BY <2>0 DEF SetupStep
  <2>2. CASE env.mode = "all"
    <3>0. /\ ServiceTyped(s) /\ TableSound(s, env.platform) /\ s.tun
          /\ \A p \in s.kernel : p \in rt.kernel \/ p = <<"everything", Tun>>
          /\ s.mixed => rt.mixed \/ \E p \in rt.kernel : p[1] = "everything" /\ p[2] # Tun
      BY <1>4
    <3> HIDE DEF s, t
    <3>1. Adds(s, t, Tun, {"everything"}) /\ TableSound(t, env.platform)
      BY <2>1, <2>2, <3>0, AddsRoutes
    <3>2. \A q \in Accepted(s, Tun, {"everything"}) : q = <<"everything", Tun>>
      BY DEF Accepted
    <3>3. ASSUME t.mixed PROVE rt.mixed \/ \E p \in rt.kernel : p[1] = "everything" /\ p[2] # Tun
      <4>1. CASE s.mixed
        BY <3>0, <4>1
      <4>2. CASE ~s.mixed
        <5>1. PICK p \in s.kernel : \E q \in Accepted(s, Tun, {"everything"}) : p[1] = q[1] /\ p[2] # q[2]
          BY <3>1, <3>3, <4>2, Zenon DEF Adds
        <5>2. p[1] = "everything" /\ p[2] # Tun
          BY <3>2, <5>1
        <5>3. p \in rt.kernel
          BY <3>0, <5>2
        <5> QED BY <5>2, <5>3, SMTT(30)
      <4> QED BY <4>1, <4>2, SMTT(30)
    <3>4. \A p \in t.kernel : p \in rt.kernel \/ p = <<"everything", Tun>>
      BY <3>0, <3>1, <3>2 DEF Adds
    <3> QED BY <3>0, <3>1, <3>3, <3>4, Zenon DEF t, Adds, Untouched
  <2>3. CASE env.mode # "all"
    <3> HIDE DEF Fine, s
    <3> QED BY <1>4, <2>1, <2>3 DEF s
  <2> QED BY <2>2, <2>3
<1>6. Fine(SetUp(5)) /\ SetUp(5).tun
  <2> HIDE DEF Fine
  <2> QED BY <1>5, <1>2
<1>7. Fine(SetUp(n)) /\ (n > 0 => SetUp(n).tun)
  <2> HIDE DEF Fine
  <2> QED BY <1>0, <1>1, <1>3, <1>4, <1>5, <1>6, SMTT(30)
<1> QED BY <1>7, SetupUnfolds

-----------------------------------------------------------------------------
(* The client. *)

\* setConnectionState: a new generation, nothing pending, and a clean-up posted for
\* Disconnected and Error.
LEMMA SetsState ==
    ASSUME NEW v, NEW s, ClientTyped(v)
    PROVE  LET w == SetConnectionState(v, s)
           IN  /\ ClientTyped(w)
               /\ ~w.timer /\ w.gen = v.gen + 1 /\ w.pending = 0 /\ w.installed = {}
               /\ w.posted = v.posted + (IF s \in {"Disconnected", "Error"} THEN 1 ELSE 0)
               /\ w.state = IF s = "Disconnected" /\ v.state = "Reconnecting" THEN "Reconnecting" ELSE s
               /\ w.proto = v.proto /\ w.pstate = v.pstate /\ w.run = v.run /\ w.gw = v.gw
               /\ w.shots = v.shots /\ w.conn = v.conn
  BY SMTT(30) DEF SetConnectionState, ClientTyped, ClientFields

\* The same for a protocol object that changes its state.
LEMMA SetsProtocolState ==
    ASSUME NEW v, NEW s, ClientTyped(v), v.pstate # s
    PROVE  LET w == SetProtocolStateTo(v, s)
           IN  /\ ClientTyped(w)
               /\ ~w.timer /\ w.gen = v.gen + 1 /\ w.pending = 0 /\ w.installed = {}
               /\ w.posted = v.posted + (IF s \in {"Disconnected", "Error"} THEN 1 ELSE 0)
               /\ w.state = IF s = "Disconnected" /\ v.state = "Reconnecting" THEN "Reconnecting" ELSE s
               /\ w.proto = v.proto /\ w.pstate = s /\ w.run = v.run /\ w.gw = v.gw
               /\ w.shots = v.shots /\ w.conn = v.conn
<1> DEFINE u == [v EXCEPT !.pstate = s]
<1>1. /\ ClientTyped(u) /\ u.gen = v.gen /\ u.posted = v.posted /\ u.state = v.state
      /\ u.proto = v.proto /\ u.pstate = s /\ u.run = v.run /\ u.gw = v.gw
      /\ u.shots = v.shots /\ u.conn = v.conn
  BY DEF ClientTyped, ClientFields
<1>2. SetProtocolStateTo(v, s) = SetConnectionState(u, s)
  BY DEF SetProtocolStateTo
<1> HIDE DEF u
<1> QED BY <1>1, <1>2, SetsState

\* connectToVpn makes a new protocol object.
LEMMA MakesProtocol ==
    ASSUME NEW v, ClientTyped(v), env.default \in Gateways
    PROVE  LET w == NewProtocol(v)
           IN  /\ ClientTyped(w) /\ w.proto = env.default /\ w.proto # NoGw /\ w.pstate = "Unknown"
               /\ w.run = "idle" /\ w.shots = 0
               /\ w.state = v.state /\ w.gen = v.gen /\ w.pending = v.pending /\ w.posted = v.posted
               /\ w.installed = v.installed /\ w.timer = v.timer /\ w.gw = v.gw /\ w.conn = v.conn
  BY GatewaysAssumption DEF NewProtocol, ClientTyped, ClientFields

\* A handler begins to wait.
LEMMA OpsEntered ==
    ASSUME NEW op \in CallOps, NEW c \in Seq(WaitingCall)
    PROVE  OpsOf(<<Call(op)>> \o c) = OpsOf(c) \cup {op}
<1> DEFINE d == <<Call(op)>> \o c
<1>1. Len(c) \in Nat
  OBVIOUS
<1>2. Call(op) \in WaitingCall /\ Call(op).op = op
  BY DEF Call, WaitingCall
<1>3. /\ Len(d) = Len(c) + 1 /\ d[1] = Call(op)
      /\ \A i \in 1 .. Len(d) : i # 1 => i - 1 \in 1 .. Len(c) /\ d[i] = c[i - 1]
      /\ \A i \in 1 .. Len(c) : d[i + 1] = c[i] /\ i + 1 \in 1 .. Len(d)
  BY <1>1, <1>2
<1> HIDE DEF d
<1>4. 1 \in 1 .. Len(d)
  BY <1>1, <1>3
<1>5. ASSUME NEW x \in OpsOf(d) PROVE x \in OpsOf(c) \cup {op}
  BY <1>2, <1>3, <1>5, SMTT(30) DEF OpsOf
<1>6. ASSUME NEW x \in OpsOf(c) \cup {op} PROVE x \in OpsOf(d)
  BY <1>2, <1>3, <1>4, <1>6, SMTT(30) DEF OpsOf
<1> QED BY <1>5, <1>6 DEF d

\* The innermost handler returns.
LEMMA OpsLeft ==
    ASSUME calls # <<>>, StackSound(calls, vc.run, vc.proto)
    PROVE  /\ calls[1].op \in Ops /\ OpsOf(Outer) \subseteq Ops /\ Ops \subseteq OpsOf(Outer) \cup {calls[1].op}
           /\ calls[1].op # "cleanup" => OpsOf(Outer) \subseteq {"cleanup"}
<1>1. /\ calls \in Seq(WaitingCall) /\ Len(calls) \in Nat \ {0}
      /\ \A i \in 1 .. Len(calls) : calls[i] \in WaitingCall
  BY DEF StackSound
<1>2. /\ Len(Outer) = Len(calls) - 1
      /\ \A i \in 1 .. Len(Outer) : i + 1 \in 1 .. Len(calls) /\ Outer[i].op = calls[i + 1].op
  <2>1. Len(calls) - 1 \in Nat
    BY <1>1
  <2>2. Len(Outer) = Len(calls) - 1
    BY <2>1 DEF Outer
  <2>3. ASSUME NEW i \in 1 .. Len(Outer)
        PROVE  i + 1 \in 1 .. Len(calls) /\ Outer[i].op = calls[i + 1].op
    <3>1. i + 1 \in 1 .. Len(calls)
      BY <1>1, <2>2
    <3>2. calls[i + 1] \in WaitingCall
      BY <1>1, <3>1
    <3> QED BY <2>2, <3>1, <3>2 DEF Outer, WaitingCall
  <2> QED BY <2>2, <2>3
<1>3. \A i \in 1 .. Len(calls) : i # 1 => i - 1 \in 1 .. Len(Outer) /\ Outer[i - 1].op = calls[i].op
  BY <1>1, <1>2
<1>4. calls[1].op \in Ops
  BY <1>1 DEF Ops, OpsOf
<1>5. OpsOf(Outer) \subseteq Ops
  BY <1>2, SMTT(30) DEF Ops, OpsOf
<1>6. ASSUME NEW x \in Ops, x # calls[1].op PROVE x \in OpsOf(Outer)
  BY <1>3, <1>6, SMTT(30) DEF Ops, OpsOf
<1>7. ASSUME calls[1].op # "cleanup" PROVE OpsOf(Outer) \subseteq {"cleanup"}
  BY <1>7, OuterSound DEF OpsOf
<1> QED BY <1>4, <1>5, <1>6, <1>7, SMTT(30)

-----------------------------------------------------------------------------
(* Commands. *)

\* The parts of the invariant.
LEMMA Parts ==
    ASSUME SessionInv
    PROVE  /\ ClientSound(vc) /\ StackSound(calls, vc.run, vc.proto) /\ env.default # NoGw
           /\ Typed /\ StateInv /\ RefreshInv /\ TableSound(rt, env.platform) /\ RowInv
           /\ SitesInv /\ TableInv /\ CleanInv /\ OrphanRoutesReleased
           /\ calls \in Seq(WaitingCall) /\ vc.run \in {"idle", "started", "up"}
           /\ vc.run # "idle" => vc.posted = 0 /\ vc.proto # NoGw
           /\ vc.run = "up" => "cleanup" \notin Ops
  BY DEF SessionInv, Rest, CleanupInv, ClientSound, StackSound, Ops, OpsOf

\* Nothing but clean-ups waits when a command begins.
LEMMA CommandOps ==
    ASSUME SessionInv, NoCommand
    PROVE  /\ Ops \subseteq {"cleanup"} /\ link.alive
           /\ vc.run # "idle" => calls = <<>> /\ Ops = {}
<1>1. CleanupInv
  BY DEF SessionInv
<1>2. \A i \in 1 .. Len(calls) : calls[i].op = "cleanup"
  BY <1>1, OnlyCleanups, SMTT(30)
<1>3. vc.run # "idle" => calls = <<>>
  BY <1>1, OnlyCleanups, Parts, SMTT(30)
<1> QED BY <1>2, <1>3 DEF NoCommand, Free, Ops, OpsOf

\* A handler begins to wait.
LEMMA Entered ==
    ASSUME SessionInv, NEW op \in CallOps, Enter(op)
    PROVE  Ops' = Ops \cup {op}
  BY Parts, OpsEntered, SMTT(30) DEF Enter, Ops

\* The innermost handler goes on; below a command there are clean-ups only.
LEMMA Returned ==
    ASSUME SessionInv, NEW op, Top(op)
    PROVE  /\ op \in Ops /\ OpsOf(Outer) \subseteq Ops /\ Ops \subseteq OpsOf(Outer) \cup {op}
           /\ op # "cleanup" => OpsOf(Outer) \subseteq {"cleanup"}
           /\ vc.posted = 0 /\ link.alive /\ Outer \in Seq(WaitingCall)
<1>1. calls # <<>> /\ calls[1].op = op /\ vc.posted = 0
  BY DEF Top
<1>2. Outer \in Seq(WaitingCall)
  <2>1. StackSound(calls, vc.run, vc.proto)
    BY Parts, SMTT(30)
  <2>2. StackSound(Outer, vc.run, vc.proto)
    BY <1>1, <2>1, OuterSound, SMTT(30)
  <2> QED BY <2>2 DEF StackSound
<1>3. link.alive
  BY <1>1, Parts DEF StateInv, Typed
<1> QED BY <1>1, <1>2, <1>3, Parts, OpsLeft, SMTT(30)

\* The environment as far as the invariant looks at it.
SameEnv ==
    /\ DOMAIN env' = DOMAIN env /\ env'.mode = env.mode /\ env'.platform = env.platform
    /\ env'.gws = env.gws /\ env'.default = env.default /\ env'.died = env.died
    /\ env'.moved = env.moved

\* Counting an event changes nothing that the invariant looks at.
LEMMA CountedSame == ASSUME Typed, Counted \/ env' = env PROVE SameEnv
  BY SMTT(30) DEF Typed, EnvFields, Counted, SameEnv

\* A step that starts no look-up keeps the types.
LEMMA TypedKept ==
    ASSUME Typed, SameEnv, ClientTyped(vc'), ServiceTyped(rt'), lookups' \subseteq lookups,
           UNCHANGED <<known, link, late>>
    PROVE  Typed'
  BY ZenonT(40) DEF Typed, SameEnv

\* A client that is not connected follows no routes.
LEMMA Unfollowed ==
    ASSUME SessionInv, ClientTyped(vc'), vc'.state # "Connected", UNCHANGED <<lookups, first>>,
           env'.mode = env.mode, vc'.conn = vc.conn, vc'.gw = vc.gw,
           vc'.installed \in {vc.installed, {}}, vc'.timer => vc.timer, vc'.shots \in {0, vc.shots},
           \/ vc'.gen = vc.gen /\ vc'.pending = vc.pending /\ vc.state # "Connected"
           \/ vc'.gen > vc.gen /\ vc'.pending = 0
    PROVE  RefreshInv' /\ SitesInv' /\ TableInv' /\ RowInv'
<1>1. RefreshInv'
  <2>1. CASE vc'.gen = vc.gen /\ vc'.pending = vc.pending /\ vc.state # "Connected"
    BY <2>1, Parts, SMTT(30) DEF RefreshInv
  <2>2. CASE vc'.gen > vc.gen /\ vc'.pending = 0
    <3>0. /\ IsFiniteSet(lookups) /\ vc.gen \in Nat /\ vc'.gen \in Nat
          /\ \A l \in lookups : l.gen \in Nat /\ (l.kind = "refresh" => l.gen <= vc.gen)
      BY Parts, ZenonT(40) DEF RefreshInv, Typed, LookupTyped, ClientTyped
    <3>1. Counting(lookups', vc'.gen) = {}
      BY <2>2, <3>0, SMTT(30) DEF Counting
    <3>2. \A l \in lookups' : l.kind = "refresh" => l.gen <= vc'.gen
      BY <2>2, <3>0, SMTT(30)
    <3> QED BY <2>2, <3>0, <3>1, <3>2, FS_EmptySet, SMTT(30) DEF RefreshInv
  <2> QED BY <2>1, <2>2, SMTT(30)
<1>2. SitesInv'
  BY Parts, ZenonT(40) DEF SitesInv, Typed, ClientTyped
<1>3. TableInv' /\ RowInv'
  BY SMTT(30) DEF TableInv, RowInv
<1> QED BY <1>1, <1>2, <1>3, SMTT(30)

\* The client is not concerned.
LEMMA Unconcerned ==
    ASSUME SessionInv, UNCHANGED <<vc, lookups, first>>, env'.mode = env.mode
    PROVE  RefreshInv' /\ SitesInv'
  BY Parts, ZenonT(40) DEF RefreshInv, SitesInv

\* connectToVpn keeps the invariant.
LEMMA ConnectKeeps == ASSUME SessionInv, ConnectVpn PROVE Rest'
<1> DEFINE v == SetConnectionState(vc, "Connecting")
<1>1. NoCommand /\ Counted /\ UNCHANGED <<lookups, first, known, rt, link, late>>
  BY SMTT(30) DEF ConnectVpn, Command
<1>2. SameEnv
  BY <1>1, Parts, CountedSame, SMTT(30)
<1>3. Ops \subseteq {"cleanup"} /\ link.alive
  BY <1>1, CommandOps, SMTT(30)
<1>4. /\ ClientTyped(v) /\ ~v.timer /\ v.gen = vc.gen + 1 /\ v.pending = 0 /\ v.installed = {}
      /\ v.posted = vc.posted /\ v.state = "Connecting"
      /\ v.proto = vc.proto /\ v.pstate = vc.pstate /\ v.run = vc.run /\ v.gw = vc.gw
      /\ v.shots = vc.shots /\ v.conn = vc.conn
  BY Parts, SetsState, SMTT(30) DEF Typed, ClientTyped
<1>5. \/ vc.proto # NoGw /\ vc' = v /\ Enter("stop-connect")
      \/ vc.proto = NoGw /\ vc' = NewProtocol(v) /\ Enter("start")
  BY DEF ConnectVpn
<1> HIDE DEF v
<1>6. /\ ClientTyped(vc') /\ vc'.state = "Connecting" /\ ~vc'.timer /\ vc'.gen = vc.gen + 1
      /\ vc'.pending = 0 /\ vc'.installed = {} /\ vc'.posted = vc.posted /\ vc'.gw = vc.gw
      /\ vc'.conn = vc.conn /\ vc'.shots \in {0, vc.shots} /\ vc'.run = vc.run /\ vc'.proto # NoGw
      /\ vc.proto # NoGw => vc'.pstate = vc.pstate /\ vc'.proto = vc.proto
  BY <1>4, <1>5, Parts, MakesProtocol, SMTT(30) DEF Typed
<1>7. Ops' \subseteq {"cleanup", "start", "stop-connect"} /\ ("cleanup" \in Ops' <=> "cleanup" \in Ops)
  <2>1. "start" \in CallOps /\ "stop-connect" \in CallOps
    BY DEF CallOps, StopOps
  <2>2. Ops' = Ops \cup {"stop-connect"} \/ Ops' = Ops \cup {"start"}
    BY <2>1, <1>5, Entered
  <2> QED BY <1>3, <2>2, ZenonT(40)
<1>8. Typed'
  BY <1>1, <1>2, <1>6, Parts, TypedKept, ZenonT(40) DEF Typed
<1>9. vc'.gen > vc.gen
  BY <1>6, Parts, SMTT(30) DEF Typed, ClientTyped
<1>10. RefreshInv' /\ SitesInv' /\ TableInv' /\ RowInv'
  BY <1>1, <1>2, <1>6, <1>9, Unfollowed, SMTT(30) DEF SameEnv
<1>11. StateInv'
  BY <1>1, <1>2, <1>3, <1>6, <1>7, Parts, SMTT(30) DEF StateInv, SameEnv
<1>12. TableSound(rt', env'.platform) /\ OrphanRoutesReleased'
  BY <1>1, <1>2, <1>3, Parts, ZenonT(40) DEF SameEnv, OrphanRoutesReleased
<1>13. CleanInv'
  BY <1>1, <1>2, <1>6, <1>7, Parts, SMTT(30) DEF CleanInv, SameEnv, Via
<1> QED BY <1>8, <1>10, <1>11, <1>12, <1>13, SMTT(30) DEF Rest

\* disconnectFromVpn keeps the invariant.
LEMMA DisconnectKeeps == ASSUME SessionInv, DisconnectVpn PROVE Rest'
<1>1. NoCommand /\ Counted /\ UNCHANGED <<lookups, first, known, rt, link, late>>
  BY SMTT(30) DEF DisconnectVpn, Command
<1>2. SameEnv
  BY <1>1, Parts, CountedSame
<1>3. Ops \subseteq {"cleanup"} /\ link.alive
  BY <1>1, CommandOps
<1>4. \/ vc.proto = NoGw /\ vc' = SetConnectionState(vc, "Disconnected") /\ calls' = calls
      \/ vc.proto # NoGw /\ vc' = SetConnectionState(vc, "Disconnecting") /\ Enter("stop-disconnect")
  BY SMTT(30) DEF DisconnectVpn
<1>5. /\ ClientTyped(vc') /\ vc'.state # "Connected" /\ ~vc'.timer /\ vc'.gen = vc.gen + 1
      /\ vc'.pending = 0 /\ vc'.installed = {} /\ vc'.gw = vc.gw /\ vc'.pstate = vc.pstate
      /\ vc'.conn = vc.conn /\ vc'.shots = vc.shots /\ vc'.run = vc.run /\ vc'.proto = vc.proto
      /\ vc'.posted = vc.posted + (IF vc.proto = NoGw THEN 1 ELSE 0)
  BY <1>4, Parts, SetsState, SMTT(30) DEF Typed
<1>6. /\ Ops' \subseteq {"cleanup", "stop-disconnect"} /\ ("cleanup" \in Ops' <=> "cleanup" \in Ops)
      /\ vc.proto = NoGw => Ops' \subseteq {"cleanup"}
  <2>1. CASE calls' = calls
    BY <2>1, <1>3 DEF Ops
  <2>2. CASE vc.proto # NoGw /\ Enter("stop-disconnect")
    <3>1. "stop-disconnect" \in CallOps
      BY DEF CallOps, StopOps
    <3>2. Ops' = Ops \cup {"stop-disconnect"}
      BY <2>2, <3>1, Entered, SMTT(30)
    <3> QED BY <2>2, <1>3, <3>2, SMTT(30)
  <2> QED BY <1>4, <2>1, <2>2, SMTT(30)
<1>7. Typed'
  BY <1>1, <1>2, <1>5, Parts, TypedKept, ZenonT(40) DEF Typed
<1>8. vc'.gen > vc.gen /\ vc.posted \in Nat
  BY <1>5, Parts, SMTT(30) DEF Typed, ClientTyped
<1>9. RefreshInv' /\ SitesInv' /\ TableInv' /\ RowInv'
  BY <1>1, <1>2, <1>5, <1>8, Unfollowed, SMTT(30) DEF SameEnv
<1>10. StateInv'
  BY <1>1, <1>2, <1>3, <1>5, <1>6, Parts, SMTT(30) DEF StateInv, SameEnv
<1>11. TableSound(rt', env'.platform) /\ OrphanRoutesReleased'
  BY <1>1, <1>2, <1>3, Parts DEF SameEnv, OrphanRoutesReleased
<1>12. CleanInv'
  BY <1>1, <1>2, <1>5, <1>6, <1>8, Parts, SMTT(30) DEF CleanInv, SameEnv, Via, Released
<1> QED BY <1>7, <1>9, <1>10, <1>11, <1>12 DEF Rest

\* reconnectToVpn keeps the invariant.
LEMMA ReconnectKeeps == ASSUME SessionInv, ReconnectVpn PROVE Rest'
<1>1. /\ NoCommand /\ Counted /\ UNCHANGED <<lookups, first, known, rt, link, late>>
      /\ vc.proto # NoGw /\ vc' = SetConnectionState(vc, "Reconnecting") /\ Enter("stop-reconnect")
  BY SMTT(30) DEF ReconnectVpn, Command
<1>2. SameEnv
  BY <1>1, Parts, CountedSame, SMTT(30)
<1>3. Ops \subseteq {"cleanup"} /\ link.alive
  BY <1>1, CommandOps, SMTT(30)
<1>5. /\ ClientTyped(vc') /\ vc'.state = "Reconnecting" /\ ~vc'.timer /\ vc'.gen = vc.gen + 1
      /\ vc'.pending = 0 /\ vc'.installed = {} /\ vc'.gw = vc.gw /\ vc'.pstate = vc.pstate
      /\ vc'.conn = vc.conn /\ vc'.shots = vc.shots /\ vc'.run = vc.run /\ vc'.proto = vc.proto
      /\ vc'.posted = vc.posted
  BY <1>1, Parts, SetsState, SMTT(30) DEF Typed, ClientTyped
<1>6. Ops' = Ops \cup {"stop-reconnect"}
  BY <1>1, Entered DEF CallOps, StopOps
<1>7. Typed'
  BY <1>1, <1>2, <1>5, Parts, TypedKept, ZenonT(40) DEF Typed
<1>8. vc'.gen > vc.gen
  BY <1>5, Parts, SMTT(30) DEF Typed, ClientTyped
<1>9. RefreshInv' /\ SitesInv' /\ TableInv' /\ RowInv'
  BY <1>1, <1>2, <1>5, <1>8, Unfollowed, SMTT(30) DEF SameEnv
<1>10. StateInv'
  BY <1>1, <1>2, <1>3, <1>5, <1>6, Parts, ZenonT(40) DEF StateInv, SameEnv
<1>11. TableSound(rt', env'.platform) /\ OrphanRoutesReleased'
  BY <1>1, <1>2, <1>3, Parts, ZenonT(40) DEF SameEnv, OrphanRoutesReleased
<1>12. CleanInv'
  BY <1>1, <1>2, <1>5, <1>6, Parts, ZenonT(40) DEF CleanInv, SameEnv, Via
<1> QED BY <1>7, <1>9, <1>10, <1>11, <1>12 DEF Rest

\* The end of tun2socks keeps the invariant: its routes went with the device.
LEMMA LostKeeps == ASSUME SessionInv, Tun2SocksLost PROVE Rest'
<1>1. /\ NoCommand /\ Counted /\ UNCHANGED <<vc, lookups, first, known, link, late>>
      /\ vc.run \in {"started", "up"} /\ rt' = KillTun2Socks(rt) /\ Enter("stop-error")
  BY DEF Tun2SocksLost, Command
<1>2. SameEnv
  BY <1>1, Parts, CountedSame, SMTT(30)
<1>3. Ops = {} /\ link.alive
  BY <1>1, CommandOps
<1>4. Ops' = {"stop-error"}
  BY <1>1, <1>3, Entered, SMTT(30) DEF CallOps, StopOps
<1>5. /\ ServiceTyped(rt') /\ rt'.kernel \subseteq rt.kernel /\ rt'.saved = rt.saved
      /\ rt'.mixed = rt.mixed /\ rt'.wcm = rt.wcm /\ ~rt'.tun
  BY <1>1, Parts, KillsTun, SMTT(30) DEF Typed
<1>6. Typed'
  BY <1>1, <1>2, <1>5, Parts, TypedKept, ZenonT(40) DEF Typed
<1>7. RefreshInv' /\ SitesInv'
  BY <1>1, <1>2, Unconcerned, SMTT(30) DEF SameEnv
<1>8. TableInv' /\ RowInv'
  BY <1>1, <1>2, <1>4, <1>5, Parts, SMTT(30) DEF TableInv, RowInv, SameEnv
<1>9. StateInv'
  BY <1>1, <1>2, <1>3, <1>4, Parts, ZenonT(40) DEF StateInv, SameEnv, Starting
<1>10. TableSound(rt', env'.platform) /\ OrphanRoutesReleased'
  BY <1>1, <1>2, <1>3, <1>5, Parts, ShrinkSound, ZenonT(40) DEF SameEnv, OrphanRoutesReleased
<1>11. CleanInv'
  BY <1>1, <1>2, <1>3, <1>4, <1>5, Parts, SMTT(30) DEF CleanInv, SameEnv, Via
<1> QED BY <1>6, <1>7, <1>8, <1>9, <1>10, <1>11, SMTT(30) DEF Rest

-----------------------------------------------------------------------------
(* The end and the start of a session. *)

\* What XrayProtocol::stop() leaves of the client.
LEMMA StoppedClient ==
    ASSUME SessionInv, NEW op \in StopOps, Stopped(op)
    PROVE  /\ ClientTyped(vc') /\ vc'.state # "Connected" /\ vc'.run = "idle"
           /\ vc'.conn = vc.conn /\ vc'.gw = vc.gw /\ vc'.installed \in {vc.installed, {}}
           /\ vc'.timer => vc.timer
           /\ vc'.shots \in {0, vc.shots}
           /\ \/ vc'.gen = vc.gen /\ vc'.pending = vc.pending /\ vc.state # "Connected"
              \/ vc'.gen > vc.gen /\ vc'.pending = 0
           /\ vc'.posted = 0 => vc.pstate = "Disconnected" /\ op # "stop-error"
           /\ Ops' \subseteq {"cleanup", "start"} /\ ("cleanup" \in Ops' <=> "cleanup" \in Ops)
           /\ Ops' \subseteq {"cleanup"} \/ vc'.proto # NoGw
<1> DEFINE u == [vc EXCEPT !.run = "idle"]
           v == SetProtocolStateTo(u, "Disconnected")
<1>0. Top(op) /\ op \in CallOps /\ "start" \in CallOps
  BY DEF Stopped, CallOps
<1>1. /\ op \in Ops /\ OpsOf(Outer) \subseteq {"cleanup"} /\ OpsOf(Outer) \subseteq Ops
      /\ Ops \subseteq OpsOf(Outer) \cup {op} /\ vc.posted = 0 /\ Outer \in Seq(WaitingCall)
  BY <1>0, Returned, SMTT(30) DEF StopOps
<1>2. vc.proto # NoGw
  BY <1>1, Parts, ZenonT(40) DEF StateInv, StopOps
<1>3. /\ ClientTyped(u) /\ u.run = "idle" /\ u.state = vc.state /\ u.gen = vc.gen /\ u.gw = vc.gw
      /\ u.pending = vc.pending /\ u.conn = vc.conn /\ u.installed = vc.installed
      /\ u.timer = vc.timer /\ u.shots = vc.shots /\ u.posted = 0 /\ u.proto = vc.proto
      /\ u.pstate = vc.pstate /\ vc.gen \in Nat
  BY <1>1, Parts, SMTT(30) DEF Typed, ClientTyped, ClientFields
<1> HIDE DEF u
<1>4. /\ ClientTyped(v) /\ v.run = "idle" /\ v.state # "Connected" /\ v.gw = vc.gw
      /\ v.conn = vc.conn /\ v.installed \in {vc.installed, {}} /\ (v.timer => vc.timer)
      /\ v.shots = vc.shots /\ v.proto = vc.proto /\ v.pstate = "Disconnected"
      /\ \/ v.gen = vc.gen /\ v.pending = vc.pending /\ vc.state # "Connected"
         \/ v.gen > vc.gen /\ v.pending = 0
      /\ v.posted \in Nat
      /\ v.posted = 0 => vc.pstate = "Disconnected"
  <2>1. CASE vc.pstate = "Disconnected"
    <3>1. v = u
      BY <2>1, <1>3, SMTT(30) DEF SetProtocolStateTo
    <3>2. vc.state # "Connected"
      BY <2>1, Parts, SMTT(30) DEF StateInv
    <3> QED BY <3>1, <3>2, <2>1, <1>3, SMTT(30)
  <2>2. CASE vc.pstate # "Disconnected"
    <3>1. /\ ClientTyped(v) /\ ~v.timer /\ v.gen = u.gen + 1 /\ v.pending = 0 /\ v.installed = {}
          /\ v.posted = 1 /\ v.state # "Connected" /\ v.proto = u.proto
          /\ v.pstate = "Disconnected" /\ v.run = u.run /\ v.gw = u.gw
          /\ v.shots = u.shots /\ v.conn = u.conn
      BY <2>2, <1>3, SetsProtocolState, SMTT(30)
    <3> QED BY <3>1, <2>2, <1>3, SMTT(30)
  <2> QED BY <2>1, <2>2, ZenonT(40)
<1>5. v.gen \in Nat
  BY <1>4, ZenonT(40) DEF ClientTyped
<1>6. /\ op = "stop-connect" => vc' = NewProtocol(v) /\ calls' = <<Call("start")>> \o Outer
      /\ op = "stop-disconnect" => vc' = [v EXCEPT !.proto = NoGw, !.shots = 0] /\ calls' = Outer
      /\ op = "stop-reconnect" => vc' = v /\ calls' = <<Call("start")>> \o Outer
      /\ op = "stop-error" => vc' = SetProtocolStateTo(v, "Error") /\ calls' = Outer
  BY Zenon DEF Stopped, StopOps, u
<1> HIDE DEF v
<1>7. OpsOf(<<Call("start")>> \o Outer) = OpsOf(Outer) \cup {"start"}
  BY <1>0, <1>1, OpsEntered
<1>8. /\ Ops' \subseteq {"cleanup", "start"} /\ ("cleanup" \in Ops' <=> "cleanup" \in Ops)
      /\ op \in {"stop-disconnect", "stop-error"} => Ops' \subseteq {"cleanup"}
  <2>1. Ops' = OpsOf(Outer) \cup {"start"} \/ Ops' = OpsOf(Outer)
    BY <1>6, <1>7, ZenonT(40) DEF StopOps, Ops
  <2>2. op \in {"stop-disconnect", "stop-error"} => Ops' = OpsOf(Outer)
    BY <1>6 DEF Ops
  <2> QED BY <2>1, <2>2, <1>1 DEF StopOps
<1>9. CASE op = "stop-connect"
  BY <1>9, <1>4, <1>6, <1>8, Parts, MakesProtocol DEF Typed
<1>10. CASE op = "stop-disconnect"
  <2>1. vc' = [v EXCEPT !.proto = NoGw, !.shots = 0]
    BY <1>10, <1>6
  <2>2. /\ ClientTyped(vc') /\ vc'.run = v.run /\ vc'.state = v.state /\ vc'.gen = v.gen /\ vc'.gw = v.gw
        /\ vc'.pending = v.pending /\ vc'.conn = v.conn /\ vc'.installed = v.installed
        /\ vc'.timer = v.timer /\ vc'.shots = 0 /\ vc'.posted = v.posted
    BY <2>1, <1>4, SMTT(30) DEF ClientTyped, ClientFields
  <2> QED BY <2>2, <1>4, <1>8, <1>10, SMTT(30)
<1>11. CASE op = "stop-reconnect"
  BY <1>11, <1>2, <1>4, <1>6, <1>8, SMTT(30)
<1>12. CASE op = "stop-error"
  <2>1. /\ ClientTyped(vc') /\ ~vc'.timer /\ vc'.gen = v.gen + 1 /\ vc'.pending = 0
        /\ vc'.installed = {} /\ vc'.posted = v.posted + 1 /\ vc'.state = "Error"
        /\ vc'.proto = v.proto /\ vc'.run = v.run /\ vc'.gw = v.gw
        /\ vc'.shots = v.shots /\ vc'.conn = v.conn
    BY <1>12, <1>4, <1>6, SetsProtocolState, SMTT(30)
  <2>2. vc'.gen > vc.gen /\ vc'.posted # 0
    BY <2>1, <1>3, <1>4, <1>5, SMTT(30)
  <2> QED BY <2>1, <2>2, <1>4, <1>8, <1>12, SMTT(30)
<1> QED BY <1>9, <1>10, <1>11, <1>12, ZenonT(40) DEF StopOps

\* What follows XrayProtocol::stop keeps the invariant: routes are left only with a
\* clean-up posted, because a session that was up reports Disconnected or Error.
LEMMA StoppedKeeps == ASSUME SessionInv, NEW op \in StopOps, Stopped(op) PROVE Rest'
<1>1. /\ Top(op) /\ rt' = StopSession(rt) /\ UNCHANGED <<lookups, first, known, link, env, late>>
  BY SMTT(30) DEF Stopped
<1>2. SameEnv
  BY <1>1, Parts, CountedSame, ZenonT(40)
<1>3. /\ Ops \subseteq {"cleanup", op} /\ link.alive /\ vc.posted = 0
  BY <1>1, Returned, ZenonT(40) DEF StopOps
<1>4. /\ ServiceTyped(rt') /\ rt'.kernel \subseteq rt.kernel /\ rt'.saved = rt.saved
      /\ rt'.mixed = rt.mixed /\ rt'.wcm = rt.wcm /\ Bare(rt')
  BY <1>1, Parts, StopsSession, SMTT(30) DEF Typed
<1>5. Typed'
  BY <1>1, <1>2, <1>4, Parts, StoppedClient, TypedKept, ZenonT(40) DEF Typed
<1>6. RefreshInv' /\ SitesInv' /\ TableInv' /\ RowInv'
  BY <1>1, StoppedClient, Unfollowed, ZenonT(40)
<1>7. StateInv'
  BY <1>1, <1>3, Parts, StoppedClient, SMTT(30) DEF StateInv
<1>8. TableSound(rt', env'.platform) /\ OrphanRoutesReleased'
  BY <1>1, <1>3, <1>4, Parts, ShrinkSound, ZenonT(40) DEF OrphanRoutesReleased
<1>9. CleanInv'
  <2>1. Released'
    BY <1>4, SMTT(30) DEF Bare, Released
  <2>2. ASSUME ~env.died, ~late, vc'.posted = 0, "cleanup" \notin Ops' PROVE rt'.kernel = {}
    <3>1. vc.pstate = "Disconnected" /\ op # "stop-error" /\ "cleanup" \notin Ops
      BY <2>2, StoppedClient, SMTT(30)
    <3>2. vc.run # "up"
      BY <3>1, <1>3, Parts, SMTT(30) DEF StateInv, StopOps
    <3>3. rt.kernel = {}
      BY <2>2, <3>1, <3>2, <1>3, Parts, SMTT(30) DEF CleanInv
    <3> QED BY <3>3, <1>4, SMTT(30)
  <2> QED BY <2>1, <2>2, <1>1, <1>4, Parts, StoppedClient, ZenonT(40) DEF CleanInv, Bare
<1> QED BY <1>5, <1>6, <1>7, <1>8, <1>9, SMTT(30) DEF Rest

\* What follows XrayProtocol::start keeps the invariant.
LEMMA StartedKeeps == ASSUME SessionInv, TunnelStarted PROVE Rest'
<1>1. /\ Top("start") /\ calls' = Outer /\ UNCHANGED <<lookups, first, known, link, env, late>>
      /\ \/ vc' = SetConnectionState(vc, "Error") /\ rt' \in {rt, [rt EXCEPT !.xray = TRUE]}
         \/ /\ vc' = [vc EXCEPT !.run = "started"]
            /\ rt' = [KillTun2Socks(rt) EXCEPT !.xray = TRUE, !.t2s = TRUE]
  BY DEF TunnelStarted
<1>2. SameEnv
  BY <1>1, Parts, CountedSame, SMTT(30)
<1>3. /\ "start" \in Ops /\ Ops' \subseteq {"cleanup"} /\ ("cleanup" \in Ops' <=> "cleanup" \in Ops)
      /\ link.alive /\ vc.posted = 0
  <2>1. Ops' = OpsOf(Outer)
    BY <1>1, SMTT(30) DEF Ops
  <2> QED BY <1>1, <2>1, Returned, SMTT(30)
<1>4. vc.run = "idle" /\ vc.proto # NoGw /\ vc.state # "Connected"
  BY <1>3, Parts DEF StackSound, Ops, OpsOf, StateInv, Starting
<1>5. /\ ServiceTyped(rt') /\ rt'.kernel \subseteq rt.kernel /\ rt'.saved = rt.saved
      /\ rt'.mixed = rt.mixed /\ rt'.wcm = rt.wcm /\ (rt'.tun => rt.tun)
  <2>1. CASE rt' \in {rt, [rt EXCEPT !.xray = TRUE]}
    BY <2>1, Parts, ZenonT(40) DEF Typed, ServiceTyped, ServiceFields
  <2>2. CASE rt' = [KillTun2Socks(rt) EXCEPT !.xray = TRUE, !.t2s = TRUE]
    <3> DEFINE k == KillTun2Socks(rt)
    <3>1. /\ ServiceTyped(k) /\ k.kernel \subseteq rt.kernel /\ k.saved = rt.saved
          /\ k.mixed = rt.mixed /\ k.wcm = rt.wcm /\ ~k.tun
      BY Parts, KillsTun, ZenonT(40) DEF Typed
    <3> HIDE DEF k
    <3>2. rt' = [k EXCEPT !.xray = TRUE, !.t2s = TRUE]
      BY <2>2 DEF k
    <3> QED BY <3>1, <3>2 DEF ServiceTyped, ServiceFields
  <2> QED BY <1>1, <2>1, <2>2, SMTT(30)
<1>6. /\ ClientTyped(vc') /\ vc'.state # "Connected" /\ vc'.conn = vc.conn /\ vc'.gw = vc.gw
      /\ vc'.installed \in {vc.installed, {}} /\ (vc'.timer => vc.timer) /\ vc'.shots \in {0, vc.shots}
      /\ \/ vc'.gen = vc.gen /\ vc'.pending = vc.pending /\ vc.state # "Connected"
         \/ vc'.gen > vc.gen /\ vc'.pending = 0
      /\ vc'.proto = vc.proto /\ vc'.run # "up"
  <2>1. CASE vc' = SetConnectionState(vc, "Error")
    <3>1. /\ ClientTyped(vc') /\ ~vc'.timer /\ vc'.gen = vc.gen + 1 /\ vc'.pending = 0
          /\ vc'.installed = {} /\ vc'.state = "Error"
          /\ vc'.proto = vc.proto /\ vc'.run = vc.run /\ vc'.gw = vc.gw
          /\ vc'.shots = vc.shots /\ vc'.conn = vc.conn
      BY <2>1, Parts, SetsState, ZenonT(40) DEF Typed
    <3>2. vc'.gen > vc.gen
      BY <3>1, Parts, SMTT(30) DEF Typed, ClientTyped
    <3> QED BY <3>1, <3>2, <1>4, SMTT(30)
  <2>2. CASE vc' = [vc EXCEPT !.run = "started"]
    BY <2>2, <1>4, Parts, SMTT(30) DEF Typed, ClientTyped, ClientFields
  <2> QED BY <1>1, <2>1, <2>2
<1>7. Typed'
  BY <1>1, <1>2, <1>5, <1>6, Parts, TypedKept, SMTT(30) DEF Typed
<1>8. RefreshInv' /\ SitesInv' /\ TableInv' /\ RowInv'
  BY <1>1, <1>6, Unfollowed, SMTT(30)
<1>9. StateInv'
  BY <1>1, <1>3, <1>6, Parts, SMTT(30) DEF StateInv
<1>10. TableSound(rt', env'.platform) /\ OrphanRoutesReleased'
  BY <1>1, <1>3, <1>5, Parts, ShrinkSound, SMTT(30) DEF OrphanRoutesReleased
<1>11. CleanInv'
  BY <1>1, <1>3, <1>4, <1>5, <1>6, Parts, SMTT(30) DEF CleanInv
<1> QED BY <1>7, <1>8, <1>9, <1>10, <1>11 DEF Rest

\* The first line of tun2socks finds no routes of an earlier session.
LEMMA ReadyKeeps == ASSUME SessionInv, Tun2SocksReady PROVE Rest'
<1>1. /\ NoCommand /\ vc.run = "started" /\ vc.posted = 0 /\ vc' = [vc EXCEPT !.run = "up"]
      /\ Enter("setup") /\ UNCHANGED <<lookups, first, known, rt, link, env, late>>
  BY DEF Tun2SocksReady
<1>2. SameEnv
  BY <1>1, Parts, CountedSame
<1>3. Ops = {} /\ link.alive
  BY <1>1, CommandOps
<1>4. Ops' = {"setup"}
  BY <1>1, <1>3, Entered, SMTT(30) DEF CallOps
<1>5. /\ ClientTyped(vc') /\ vc'.state = vc.state /\ vc'.conn = vc.conn /\ vc'.gw = vc.gw
      /\ vc'.installed = vc.installed /\ vc'.timer = vc.timer /\ vc'.shots = vc.shots
      /\ vc'.gen = vc.gen /\ vc'.pending = vc.pending /\ vc'.proto = vc.proto /\ vc'.run = "up"
      /\ vc'.pstate = vc.pstate /\ vc'.posted = 0
  BY <1>1, Parts DEF Typed, ClientTyped, ClientFields
<1>6. vc.state # "Connected" /\ vc.proto # NoGw
  BY <1>1, Parts, SMTT(30) DEF StateInv
<1>7. Typed'
  BY <1>1, <1>2, <1>5, Parts, TypedKept, SMTT(30) DEF Typed
<1>8. RefreshInv' /\ SitesInv' /\ TableInv' /\ RowInv'
  BY <1>1, <1>5, <1>6, Unfollowed, SMTT(30)
<1>9. StateInv'
  BY <1>1, <1>3, <1>4, <1>5, <1>6, Parts, SMTT(30) DEF StateInv
<1>10. TableSound(rt', env'.platform) /\ OrphanRoutesReleased'
  BY <1>1, <1>3, Parts, SMTT(30) DEF OrphanRoutesReleased
<1>11. CleanInv'
  BY <1>1, <1>3, <1>4, <1>5, <1>6, Parts, SMTT(30) DEF CleanInv
<1> QED BY <1>7, <1>8, <1>9, <1>10, <1>11 DEF Rest

-----------------------------------------------------------------------------
(* Set-up, clean-ups, the network and the life of the client process. *)

\* setupRouting() keeps the invariant, at whichever step it fails.
LEMMA SetupKeeps == ASSUME SessionInv, SetupDone PROVE Rest'
<1>1. Top("setup") /\ UNCHANGED <<lookups, first, known, link, env, late>>
  BY SMTT(30) DEF SetupDone
<1>2. SameEnv
  BY <1>1, Parts, CountedSame, SMTT(30)
<1>3. /\ "setup" \in Ops /\ link.alive /\ vc.posted = 0 /\ Outer \in Seq(WaitingCall)
      /\ OpsOf(Outer) \subseteq {"cleanup"} /\ OpsOf(Outer) \subseteq Ops
  BY <1>1, Returned, SMTT(30)
<1>4. vc.run = "up" /\ vc.state # "Connected" /\ vc.proto # NoGw /\ OpsOf(Outer) = {}
  BY <1>3, Parts, SMTT(30) DEF StateInv, Starting
<1>5. \E n \in 0 .. 5 :
        /\ rt' = SetupUpTo(n)
        /\ \/ calls' = <<Call("stop-error")>> \o Outer /\ vc' = vc
           \/ n = 5 /\ calls' = <<Call("connected")>> \o Outer /\ vc' = [vc EXCEPT !.pstate = "Connected"]
  <2>1. \A n \in 1 .. 5 : n - 1 \in 0 .. 5
    OBVIOUS
  <2>2. 5 \in 0 .. 5
    OBVIOUS
  <2>3. CASE \E n \in 1 .. 5 : /\ rt' = SetupUpTo(n - 1)
                               /\ calls' = <<Call("stop-error")>> \o Outer /\ vc' = vc
    BY <2>1, <2>3
  <2>4. CASE /\ rt' = SetupUpTo(5)
             /\ vc' = [vc EXCEPT !.pstate = "Connected"]
             /\ calls' = <<Call("connected")>> \o Outer
    BY <2>2, <2>4
  <2> QED BY <2>3, <2>4, SMTT(30) DEF SetupDone
<1>6. PICK n \in 0 .. 5 :
        /\ rt' = SetupUpTo(n)
        /\ \/ calls' = <<Call("stop-error")>> \o Outer /\ vc' = vc
           \/ n = 5 /\ calls' = <<Call("connected")>> \o Outer /\ vc' = [vc EXCEPT !.pstate = "Connected"]
  BY <1>5, Zenon
<1>7. /\ ServiceTyped(rt') /\ TableSound(rt', env.platform) /\ (n > 0 => rt'.tun)
      /\ \A p \in rt'.kernel : p \in rt.kernel \/ p = <<"everything", Tun>>
      /\ rt'.mixed => rt.mixed \/ \E p \in rt.kernel : p[1] = "everything" /\ p[2] # Tun
  BY <1>6, Parts, SetsUp DEF Typed
<1>8. /\ ClientTyped(vc') /\ vc'.state = vc.state /\ vc'.conn = vc.conn /\ vc'.gw = vc.gw
      /\ vc'.installed = vc.installed /\ vc'.timer = vc.timer /\ vc'.shots = vc.shots
      /\ vc'.gen = vc.gen /\ vc'.pending = vc.pending /\ vc'.proto = vc.proto /\ vc'.run = "up"
      /\ vc'.posted = 0
  BY <1>3, <1>4, <1>6, Parts, Zenon DEF Typed, ClientTyped, ClientFields
<1>9. \/ Ops' = {"stop-error"}
      \/ Ops' = {"connected"} /\ vc'.pstate = "Connected" /\ rt'.tun
  <2>1. "stop-error" \in CallOps /\ "connected" \in CallOps
    BY DEF CallOps, StopOps
  <2>2. CASE calls' = <<Call("stop-error")>> \o Outer
    BY <2>1, <2>2, <1>3, <1>4, OpsEntered, SMTT(30) DEF Ops
  <2>3. CASE n = 5 /\ calls' = <<Call("connected")>> \o Outer /\ vc' = [vc EXCEPT !.pstate = "Connected"]
    <3>1. Ops' = {"connected"}
      BY <2>1, <2>3, <1>3, <1>4, OpsEntered, SMTT(30) DEF Ops
    <3>2. vc'.pstate = "Connected"
      BY <2>3, Parts, SMTT(30) DEF Typed, ClientTyped, ClientFields
    <3> QED BY <2>3, <3>1, <3>2, <1>7, SMTT(30)
  <2> QED BY <1>6, <2>2, <2>3
<1>10. Typed'
  BY <1>1, <1>2, <1>7, <1>8, Parts, TypedKept, ZenonT(40) DEF Typed
<1>11. RefreshInv' /\ SitesInv' /\ TableInv' /\ RowInv'
  BY <1>1, <1>4, <1>8, Unfollowed, ZenonT(40)
<1>12. StateInv'
  BY <1>1, <1>3, <1>4, <1>8, <1>9, Parts, ZenonT(40) DEF StateInv
<1>13. TableSound(rt', env'.platform) /\ OrphanRoutesReleased'
  BY <1>1, <1>3, <1>7, SMTT(30) DEF OrphanRoutesReleased
<1>14. CleanInv'
  <2>1. ASSUME ~env.died, ~late
        PROVE  ~rt'.mixed /\ \A p \in rt'.kernel : p[2] = Via(p[1], vc.proto)
    <3>1. ~rt.mixed /\ \A p \in rt.kernel : p[2] = Via(p[1], vc.proto)
      BY <2>1, <1>4, Parts, SMTT(30) DEF CleanInv
    <3>2. Via("everything", vc.proto) = Tun
      BY SMTT(30) DEF Via
    <3> QED BY <3>1, <3>2, <1>7, SMTT(30)
  <2> QED BY <2>1, <1>1, <1>4, <1>8, SMTT(30) DEF CleanInv, Via
<1> QED BY <1>10, <1>11, <1>12, <1>13, <1>14, SMTT(30) DEF Rest

\* The posted clean-up begins.
LEMMA CleanupStartKeeps == ASSUME SessionInv, CleanupStart PROVE Rest'
<1>1. /\ Free /\ vc.posted > 0 /\ vc' = [vc EXCEPT !.posted = vc.posted - 1]
      /\ Enter("cleanup") /\ UNCHANGED <<lookups, first, known, rt, link, env, late>>
  BY DEF CleanupStart
<1>2. SameEnv
  BY <1>1, Parts, CountedSame
<1>3. Ops' = Ops \cup {"cleanup"} /\ link.alive
  BY <1>1, Entered DEF CallOps, Free
<1>4. /\ ClientTyped(vc') /\ vc'.state = vc.state /\ vc'.conn = vc.conn /\ vc'.gw = vc.gw
      /\ vc'.installed = vc.installed /\ vc'.timer = vc.timer /\ vc'.shots = vc.shots
      /\ vc'.gen = vc.gen /\ vc'.pending = vc.pending /\ vc'.proto = vc.proto /\ vc'.run = vc.run
      /\ vc'.pstate = vc.pstate
  BY <1>1, Parts DEF Typed, ClientTyped, ClientFields
<1>5. vc.run = "idle" /\ vc.state # "Connected"
  BY <1>1, Parts, SMTT(30) DEF StateInv
<1>6. Typed'
  BY <1>1, <1>2, <1>4, Parts, TypedKept, SMTT(30) DEF Typed
<1>7. RefreshInv' /\ SitesInv' /\ TableInv' /\ RowInv'
  BY <1>1, <1>4, <1>5, Unfollowed, SMTT(30)
<1>8. StateInv'
  BY <1>1, <1>3, <1>4, <1>5, Parts, SMTT(30) DEF StateInv
<1>9. TableSound(rt', env'.platform) /\ OrphanRoutesReleased'
  BY <1>1, <1>3, Parts, SMTT(30) DEF OrphanRoutesReleased
<1>10. CleanInv'
  BY <1>1, <1>3, <1>4, <1>5, Parts, SMTT(30) DEF CleanInv, Released
<1> QED BY <1>6, <1>7, <1>8, <1>9, <1>10 DEF Rest

\* clearSavedRoutes keeps the invariant: no session is up.
LEMMA CleanupDoneKeeps == ASSUME SessionInv, CleanupDone PROVE Rest'
<1>1. /\ Top("cleanup") /\ calls' = Outer /\ rt' = ClearSavedRoutes(rt)
      /\ UNCHANGED <<vc, lookups, first, known, link, env, late>>
  BY SMTT(30) DEF CleanupDone
<1>2. SameEnv
  BY <1>1, Parts, CountedSame, SMTT(30)
<1>3. Ops' \subseteq Ops /\ "cleanup" \in Ops /\ link.alive
  <2>1. Ops' = OpsOf(Outer)
    BY <1>1, SMTT(30) DEF Ops
  <2> QED BY <2>1, <1>1, Returned, SMTT(30)
<1>4. vc.run # "up" /\ vc.state # "Connected"
  BY <1>3, Parts, SMTT(30) DEF StateInv
<1>5. /\ ServiceTyped(rt') /\ TableSound(rt', env.platform) /\ Untouched(rt, rt')
      /\ rt'.kernel = rt.kernel \ rt.saved /\ rt'.mixed = rt.mixed
  BY <1>1, Parts, ClearsSaved, ZenonT(40) DEF Typed
<1>6. Typed'
  BY <1>1, <1>2, <1>5, Parts, TypedKept, ZenonT(40) DEF Typed
<1>7. RefreshInv' /\ SitesInv' /\ TableInv' /\ RowInv'
  BY <1>1, <1>4, <1>6, Unfollowed, ZenonT(40) DEF Typed
<1>8. StateInv'
  BY <1>1, <1>3, <1>4, <1>5, Parts, ZenonT(40) DEF StateInv, Untouched
<1>9. TableSound(rt', env'.platform) /\ OrphanRoutesReleased'
  BY <1>1, <1>3, <1>5, ZenonT(40) DEF OrphanRoutesReleased
<1>10. CleanInv'
  <2>1. ASSUME ~rt.mixed PROVE rt'.kernel = {}
    BY <2>1, <1>5, Parts, SMTT(30) DEF TableSound
  <2> QED BY <2>1, <1>1, <1>4, <1>5, Parts, ZenonT(40) DEF CleanInv, Untouched, Released
<1> QED BY <1>6, <1>7, <1>8, <1>9, <1>10 DEF Rest

\* The physical network changes: the table shrinks.
LEMMA NetworkKeeps == ASSUME SessionInv, NetworkMoves PROVE Rest'
<1>1. UNCHANGED <<vc, calls, lookups, first, known, link, late>>
  BY SMTT(30) DEF NetworkMoves
<1>2. PICK gws \in SUBSET Gateways : \E d \in gws :
         /\ env' = [env EXCEPT !.gws = gws, !.default = d, !.moved = TRUE, !.events = @ + 1]
         /\ rt' = [rt EXCEPT !.kernel = {p \in @ : p[2] = Tun \/ p[2] \in gws}]
  BY ZenonT(40) DEF NetworkMoves
<1>3. PICK d \in gws :
         /\ env' = [env EXCEPT !.gws = gws, !.default = d, !.moved = TRUE, !.events = @ + 1]
         /\ rt' = [rt EXCEPT !.kernel = {p \in @ : p[2] = Tun \/ p[2] \in gws}]
  BY <1>2, Zenon
<1>4. /\ DOMAIN env' = DOMAIN env /\ env'.mode = env.mode /\ env'.platform = env.platform
      /\ env'.gws = gws /\ env'.default = d /\ env'.moved = TRUE /\ env'.died = env.died
  BY <1>3, Parts DEF Typed, EnvFields
<1>5. /\ ServiceTyped(rt') /\ rt'.kernel \subseteq rt.kernel /\ rt'.saved = rt.saved
      /\ rt'.mixed = rt.mixed /\ rt'.wcm = rt.wcm /\ Untouched(rt, rt')
  BY <1>3, Parts, SMTT(30) DEF Typed, ServiceTyped, ServiceFields, Untouched
<1>6. Typed'
  BY <1>1, <1>4, <1>5, Parts, ZenonT(40) DEF Typed
<1>7. RefreshInv' /\ SitesInv'
  BY <1>1, <1>4, Unconcerned, SMTT(30)
<1>8. TableInv' /\ RowInv'
  BY <1>1, <1>4, <1>5, Parts, ZenonT(40) DEF TableInv, RowInv
<1>9. Ops' = Ops
  BY <1>1, SMTT(30) DEF Ops
<1>10. StateInv'
  BY <1>1, <1>4, <1>5, <1>9, Parts, ZenonT(40) DEF StateInv, Untouched
<1>11. TableSound(rt', env'.platform) /\ OrphanRoutesReleased'
  BY <1>1, <1>4, <1>5, Parts, ShrinkSound, ZenonT(40) DEF OrphanRoutesReleased, Untouched, Released
<1>12. CleanInv'
  BY <1>1, <1>4, <1>5, <1>9, Parts, ZenonT(40) DEF CleanInv, Untouched, Released, Via
<1> QED BY <1>6, <1>7, <1>8, <1>10, <1>11, <1>12, SMTT(30) DEF Rest

\* The client process dies.
LEMMA DeathKeeps == ASSUME SessionInv, ClientDies PROVE Rest'
<1>1. /\ env' = [env EXCEPT !.died = TRUE, !.events = @ + 1]
      /\ link' = [alive |-> FALSE, orphan |-> TRUE]
      /\ rt' = rt \/ rt' = SetupUpTo(5) \/ rt' = [rt EXCEPT !.xray = TRUE]
      /\ vc' = NewClient /\ calls' = <<>> /\ lookups' = {} /\ first' = {}
      /\ UNCHANGED <<known, late>>
  BY DEF ClientDies
<1>2. /\ DOMAIN env' = DOMAIN env /\ env'.mode = env.mode /\ env'.platform = env.platform
      /\ env'.gws = env.gws /\ env'.default = env.default /\ env'.moved = env.moved /\ env'.died = TRUE
  BY <1>1, Parts DEF Typed, EnvFields
<1>3. ServiceTyped(rt') /\ TableSound(rt', env.platform)
  <2>1. CASE rt' = SetupUpTo(5)
    BY <2>1, Parts, SetsUp, SMTT(30) DEF Typed
  <2>2. CASE rt' = rt \/ rt' = [rt EXCEPT !.xray = TRUE]
    <3>1. /\ ServiceTyped(rt') /\ rt'.kernel = rt.kernel /\ rt'.saved = rt.saved
          /\ rt'.mixed = rt.mixed /\ rt'.wcm = rt.wcm
      BY <2>2, Parts, ZenonT(40) DEF Typed, ServiceTyped, ServiceFields
    <3> QED BY <3>1, Parts, ShrinkSound, Zenon
  <2> QED BY <1>1, <2>1, <2>2, SMTT(30)
<1>4. ClientTyped(NewClient)
  BY Zenon DEF ClientTyped, ClientFields, NewClient
<1>5. Typed'
  BY <1>1, <1>2, <1>3, <1>4, Parts DEF Typed
<1>6. Ops' = {}
  BY <1>1 DEF Ops, OpsOf
<1>7. StateInv'
  BY <1>1, <1>2, <1>6 DEF StateInv, NewClient
<1>8. RefreshInv'
  <2>1. Counting(lookups', vc'.gen) = {}
    BY <1>1 DEF Counting
  <2> QED BY <2>1, <1>1, FS_EmptySet, SMTT(30) DEF RefreshInv, NewClient
<1>9. SitesInv' /\ TableInv' /\ RowInv'
  BY <1>1 DEF SitesInv, TableInv, RowInv, NewClient
<1>10. CleanInv' /\ OrphanRoutesReleased'
  BY <1>1, <1>2, SMTT(30) DEF CleanInv, OrphanRoutesReleased
<1>11. TableSound(rt', env'.platform)
  BY <1>2, <1>3, SMTT(30)
<1> QED BY <1>5, <1>7, <1>8, <1>9, <1>10, <1>11, SMTT(30) DEF Rest

\* A new client process starts.
LEMMA StartKeeps == ASSUME SessionInv, ClientStarts PROVE Rest'
<1>1. /\ ~link.alive /\ link' = [link EXCEPT !.alive = TRUE]
      /\ UNCHANGED <<vc, calls, lookups, first, known, rt, env, late>>
  BY DEF ClientStarts
<1>2. /\ DOMAIN link' = {"alive", "orphan"} /\ link'.alive = TRUE /\ link'.orphan = link.orphan
      /\ env.died
  BY <1>1, Parts DEF Typed, StateInv
<1>3. Typed'
  BY <1>1, <1>2, Parts, SMTT(30) DEF Typed
<1>4. RefreshInv' /\ SitesInv'
  BY <1>1, Unconcerned
<1>5. Ops' = Ops
  BY <1>1 DEF Ops
<1>6. TableInv' /\ RowInv'
  BY <1>1, <1>5, Parts, SMTT(30) DEF TableInv, RowInv
<1>7. StateInv'
  BY <1>1, <1>2, <1>5, Parts, SMTT(30) DEF StateInv
<1>8. TableSound(rt', env'.platform) /\ OrphanRoutesReleased' /\ CleanInv'
  BY <1>1, <1>2, Parts, SMTT(30) DEF OrphanRoutesReleased, CleanInv
<1> QED BY <1>3, <1>4, <1>6, <1>7, <1>8 DEF Rest

\* The orphan timer of the service.
LEMMA OrphanKeeps == ASSUME SessionInv, OrphanTimer PROVE Rest'
<1>1. /\ link.orphan /\ link' = [link EXCEPT !.orphan = FALSE]
      /\ rt' = IF link.alive THEN rt ELSE ReleaseOrphanSession(rt)
      /\ UNCHANGED <<vc, calls, lookups, first, known, env, late>>
  BY DEF OrphanTimer
<1>2. /\ DOMAIN link' = {"alive", "orphan"} /\ link'.alive = link.alive /\ link'.orphan = FALSE
      /\ env.died
  BY <1>1, Parts DEF Typed, StateInv
<1>3. Ops' = Ops /\ (~link.alive => Ops = {} /\ vc.state # "Connected")
  BY <1>1, Parts, SMTT(30) DEF Ops, OpsOf, StateInv, NewClient
<1>4. ServiceTyped(rt') /\ TableSound(rt', env.platform)
  BY <1>1, Parts, ReleasesSession, SMTT(30) DEF Typed
<1>5. ASSUME ~link.alive
      PROVE  Bare(rt') /\ ((env.platform = "windows" /\ rt'.mixed) \/ rt'.kernel = {})
  <2>1. Bare(rt') /\ rt'.mixed = rt.mixed /\ rt'.kernel \subseteq rt.kernel \ rt.saved
    BY <1>1, <1>5, Parts, ReleasesSession, SMTT(30) DEF Typed
  <2> QED BY <2>1, Parts DEF TableSound
<1>6. Typed'
  BY <1>1, <1>2, <1>4, Parts, SMTT(30) DEF Typed
<1>7. RefreshInv' /\ SitesInv'
  BY <1>1, Unconcerned
<1>8. TableInv' /\ RowInv'
  BY <1>1, <1>3, Parts, SMTT(30) DEF TableInv, RowInv
<1>9. StateInv'
  BY <1>1, <1>2, <1>3, Parts DEF StateInv
<1>10. OrphanRoutesReleased' /\ CleanInv'
  BY <1>1, <1>2, <1>5, SMTT(30) DEF OrphanRoutesReleased, CleanInv, Bare, Released
<1> QED BY <1>1, <1>4, <1>6, <1>7, <1>8, <1>9, <1>10, SMTT(30) DEF Rest

-----------------------------------------------------------------------------
(* Routes and look-ups of the sites. *)

\* The routes of one session: none contradicts another.
Shaped(r, proto) == ~r.mixed /\ \A p \in r.kernel : p[2] = Via(p[1], proto)

\* Routes with the gateway of their destination keep the table in shape.
LEMMA AddsInShape ==
    ASSUME NEW r, NEW s, NEW gw, NEW dests, NEW proto, Shaped(r, proto), Adds(r, s, gw, dests),
           \A d \in dests : Via(d, proto) = gw
    PROVE  Shaped(s, proto)
<1>1. \A q \in Accepted(r, gw, dests) : q[1] \in dests /\ q[2] = gw
  BY SMTT(30) DEF Accepted
<1>2. \A q \in Accepted(r, gw, dests) : q[2] = Via(q[1], proto)
  BY <1>1, SMTT(30)
<1>3. \A p \in s.kernel : p[2] = Via(p[1], proto)
  BY <1>2, ZenonT(40) DEF Adds, Shaped
<1>4. ~s.mixed
  BY <1>2, ZenonT(40) DEF Adds, Shaped
<1> QED BY <1>3, <1>4, SMTT(30) DEF Shaped

\* The look-ups that addSitesRoutes() and refreshSitesRoutes() start.
AddLookups(gw, ips, conn) ==
    {[kind |-> "add", site |-> d, gw |-> gw, ips |-> ips, gen |-> 0, conn |-> conn, known |-> None]
     : d \in Domains}
RefreshLookups(gen, conn) ==
    {[kind |-> "refresh", site |-> d, gw |-> NoGw, ips |-> {}, gen |-> gen,
      conn |-> conn, known |-> known[d]] : d \in Domains}

\* The look-ups that addSitesRoutes() starts.
LEMMA AddLookupsFine ==
    ASSUME NEW gw, NEW ips, NEW conn \in Nat
    PROVE  /\ IsFiniteSet(AddLookups(gw, ips, conn))
           /\ \A l \in AddLookups(gw, ips, conn) :
                LookupTyped(l) /\ l.kind = "add" /\ l.gw = gw /\ l.conn = conn
<1> DEFINE T == AddLookups(gw, ips, conn)
           f == [d \in Domains |-> [kind |-> "add", site |-> d, gw |-> gw, ips |-> ips, gen |-> 0,
                                    conn |-> conn, known |-> None]]
<1>1. f \in Surjection(Domains, T)
  BY DEF Surjection, AddLookups
<1>2. IsFiniteSet(T)
  <2> HIDE DEF f, T
  <2> QED BY <1>1, SitesAssumption, FS_Surjection
<1>3. \A l \in T : LookupTyped(l) /\ l.kind = "add" /\ l.gw = gw /\ l.conn = conn
  BY DEF AddLookups, LookupTyped
<1> QED BY <1>2, <1>3

\* refreshSitesRoutes() starts one look-up for every host name.
LEMMA RefreshLookupsFine ==
    ASSUME NEW gen \in Nat, NEW conn \in Nat, known \in [Domains -> Addrs \cup {None}]
    PROVE  /\ IsFiniteSet(RefreshLookups(gen, conn))
           /\ Cardinality(RefreshLookups(gen, conn)) = Cardinality(Domains)
           /\ \A l \in RefreshLookups(gen, conn) : LookupTyped(l) /\ l.kind = "refresh" /\ l.gen = gen
<1> DEFINE T == RefreshLookups(gen, conn)
           f == [d \in Domains |-> [kind |-> "refresh", site |-> d, gw |-> NoGw, ips |-> {},
                                    gen |-> gen, conn |-> conn, known |-> known[d]]]
<1>1. f \in Surjection(Domains, T)
  BY ZenonT(40) DEF Surjection, RefreshLookups
<1>2. f \in Injection(Domains, T)
  <2>1. \A d, e \in Domains : f[d] = f[e] => d = e
    <3>1. \A d \in Domains : f[d].site = d
      BY SMTT(30)
    <3> QED BY <3>1, ZenonT(40)
  <2>2. f \in [Domains -> T]
    BY ZenonT(40) DEF RefreshLookups
  <2> HIDE DEF f, T
  <2> QED BY <2>1, <2>2 DEF Injection, IsInjective
<1>3. IsFiniteSet(T) /\ Cardinality(T) = Cardinality(Domains)
  <2> HIDE DEF f, T
  <2> QED BY <1>1, <1>2, SitesAssumption, FS_Surjection
<1>4. \A l \in T : LookupTyped(l) /\ l.kind = "refresh" /\ l.gen = gen
  BY DEF RefreshLookups, LookupTyped
<1> QED BY <1>3, <1>4, SMTT(30)

\* What addSitesRoutes() changes.
LEMMA AddsSites ==
    ASSUME Typed, NEW v, ClientTyped(v), NEW r, NEW gw
    PROVE  \E ips \in SUBSET Sites :
             LET a == AddSitesRoutes(v, r, gw)
             IN  /\ ClientTyped(a.vc) /\ a.vc.gw = gw /\ a.vc.installed = ips
                 /\ a.vc.state = v.state /\ a.vc.pstate = v.pstate /\ a.vc.run = v.run
                 /\ a.vc.proto = v.proto /\ a.vc.gen = v.gen /\ a.vc.pending = v.pending
                 /\ a.vc.conn = v.conn /\ a.vc.shots = v.shots /\ a.vc.posted = v.posted
                 /\ a.vc.timer = v.timer
                 /\ a.rt = RouteAddList(r, gw, ips)
                 /\ a.lookups = lookups \cup AddLookups(gw, ips, v.conn)
<1> DEFINE ips == Subnets \cup {known[d] : d \in {e \in Domains : known[e] # None}}
           w == [v EXCEPT !.gw = gw, !.installed = ips]
           a == AddSitesRoutes(v, r, gw)
<1>1. ips \in SUBSET Sites
  BY DEF Typed, Sites
<1>2. /\ a.vc = w /\ a.rt = RouteAddList(r, gw, ips)
      /\ a.lookups = lookups \cup AddLookups(gw, ips, v.conn)
  BY DEF AddSitesRoutes, AddLookups
<1> HIDE DEF ips, a
<1>3. /\ ClientTyped(w) /\ w.gw = gw /\ w.installed = ips
      /\ w.state = v.state /\ w.pstate = v.pstate /\ w.run = v.run
      /\ w.proto = v.proto /\ w.gen = v.gen /\ w.pending = v.pending
      /\ w.conn = v.conn /\ w.shots = v.shots /\ w.posted = v.posted
      /\ w.timer = v.timer
  BY <1>1 DEF ClientTyped, ClientFields
<1> QED BY <1>1, <1>2, <1>3 DEF a

\* Look-ups of added sites do not count for the refresh.
LEMMA AddLookupsUncounted ==
    ASSUME NEW ls, IsFiniteSet(ls), NEW gw, NEW ips, NEW conn \in Nat, NEW gen
    PROVE  /\ IsFiniteSet(ls \cup AddLookups(gw, ips, conn))
           /\ Counting(ls \cup AddLookups(gw, ips, conn), gen) = Counting(ls, gen)
<1>1. IsFiniteSet(ls \cup AddLookups(gw, ips, conn))
  BY AddLookupsFine, FS_Union, Zenon
<1>2. Counting(ls \cup AddLookups(gw, ips, conn), gen) = Counting(ls, gen)
  BY AddLookupsFine DEF Counting
<1> QED BY <1>1, <1>2, SMTT(30)

\* A host's address and a subnet are none of the fixed destinations.
LEMMA SitesVia ==
    ASSUME NEW d \in Sites, NEW proto
    PROVE  /\ env.mode = "forward" => Via(d, proto) = Tun
           /\ env.mode # "forward" => Via(d, proto) = proto
  BY SitesAssumption DEF Via, Sites, Fixed

\* The gateway of the sites' routes can be reached while the session is up.
LEMMA GatewayUp ==
    ASSUME SessionInv, NEW r, NEW gw, r.tun = rt.tun,
           gw = Tun => rt.tun,
           gw # Tun => gw = vc.proto /\ vc.proto # NoGw /\ ~env.moved
    PROVE  Reachable(r, gw)
<1>1. gw # Tun => gw \in env.gws
  BY Parts DEF Typed, ClientTyped
<1> QED BY <1>1 DEF Reachable

\* A reachable gateway takes every route.
LEMMA AcceptedAll ==
    ASSUME NEW r, NEW gw, NEW dests, Reachable(r, gw)
    PROVE  Accepted(r, gw, dests) = {<<d, gw>> : d \in dests}
  BY SMTT(30) DEF Accepted

\* onConnectionStateChanged(Connected) after flushDns(): the session is up and no
\* other handler waits.
LEMMA ConnectedClient ==
    ASSUME SessionInv, ConnectedDone
    PROVE  /\ UNCHANGED <<known, link, env, late>>
           /\ link.alive /\ vc.run = "up" /\ vc.pstate = "Connected" /\ rt.tun /\ vc.proto # NoGw
           /\ vc.state # "Connected" /\ vc.pending = 0 /\ vc.posted = 0 /\ Ops' = {}
<1>1. Top("connected") /\ calls' = Outer
  BY DEF ConnectedDone
<1>2. UNCHANGED <<known, link, env, late>>
  BY DEF ConnectedDone
<1>3. /\ "connected" \in Ops /\ link.alive /\ vc.posted = 0
      /\ OpsOf(Outer) \subseteq {"cleanup"} /\ OpsOf(Outer) \subseteq Ops
  BY <1>1, Returned, SMTT(30)
<1>4. Ops' = OpsOf(Outer)
  BY <1>1, SMTT(30) DEF Ops
<1>5. vc.run = "up" /\ vc.pstate = "Connected" /\ rt.tun /\ vc.proto # NoGw /\ vc.state # "Connected"
  BY <1>3, Parts, SMTT(30) DEF StateInv, Starting
<1>6. Ops' = {}
  BY <1>3, <1>4, <1>5, Parts, SMTT(30)
<1>7. vc.pending = 0
  BY <1>5, Parts, SMTT(30) DEF RefreshInv
<1> QED BY <1>2, <1>3, <1>5, <1>6, <1>7, SMTT(30)

\* The part of the session's start that all modes share.
LEMMA DnsRouted ==
    ASSUME SessionInv, vc.run = "up", rt.tun
    PROVE  LET dns == RouteAddList(rt, Tun, {"dns"})
           IN  /\ ServiceTyped(dns) /\ TableSound(dns, env.platform) /\ Untouched(rt, dns)
               /\ env.platform = "windows" => <<"dns", Tun>> \in dns.saved
               /\ ~env.died /\ ~late => Shaped(dns, vc.proto)
<1> DEFINE dns == RouteAddList(rt, Tun, {"dns"})
<1>1. Adds(rt, dns, Tun, {"dns"}) /\ TableSound(dns, env.platform)
  BY Parts, AddsRoutes, ZenonT(40) DEF Typed
<1> HIDE DEF dns
<1>2. <<"dns", Tun>> \in Accepted(rt, Tun, {"dns"})
  BY SMTT(30) DEF Accepted, Reachable
<1>3. ASSUME ~env.died, ~late PROVE Shaped(dns, vc.proto)
  <2>1. Shaped(rt, vc.proto)
    BY <1>3, Parts, ZenonT(40) DEF CleanInv, Shaped
  <2>2. \A d \in {"dns"} : Via(d, vc.proto) = Tun
    BY SMTT(30) DEF Via
  <2> QED BY <2>1, <2>2, <1>1, AddsInShape, SMTT(30)
<1> QED BY <1>1, <1>2, <1>3, ZenonT(40) DEF Adds, dns

\* What a session that has come up needs of the routes.
Up ==
    /\ ServiceTyped(rt') /\ TableSound(rt', env.platform) /\ Untouched(rt, rt')
    /\ env.platform = "windows" => <<"dns", Tun>> \in rt'.saved
    /\ ~env.died /\ ~late => Shaped(rt', vc.proto)

\* The conjuncts that depend on the routes only as far as "Up" says.
LEMMA UpKeeps ==
    ASSUME SessionInv, ConnectedDone, Up, ClientTyped(vc'), vc'.state = "Connected",
           vc'.proto = vc.proto, vc'.run = vc.run, vc'.pstate = vc.pstate,
           \A l \in lookups' : LookupTyped(l)
    PROVE  Typed' /\ StateInv' /\ TableSound(rt', env'.platform) /\ RowInv' /\ CleanInv'
           /\ OrphanRoutesReleased'
<1>1. /\ UNCHANGED <<known, link, env, late>> /\ link.alive /\ vc.run = "up" /\ rt.tun
      /\ vc.pstate = "Connected" /\ vc.proto # NoGw /\ Ops' = {}
  BY ConnectedClient, SMTT(30)
<1>2. Typed'
  BY <1>1, Parts, ZenonT(40) DEF Typed, Up
<1>3. StateInv'
  BY <1>1, Parts, ZenonT(40) DEF StateInv, Up, Untouched
<1>4. TableSound(rt', env'.platform) /\ RowInv' /\ OrphanRoutesReleased'
  BY <1>1, ZenonT(40) DEF Up, RowInv, OrphanRoutesReleased
<1>5. CleanInv'
  BY <1>1, Zenon DEF CleanInv, Up, Shaped, Via
<1> QED BY <1>2, <1>3, <1>4, <1>5, SMTT(30)

\* A new generation has no look-up under way.
LEMMA NothingCounted ==
    ASSUME SessionInv, NEW gen, gen = vc.gen + 1
    PROVE  Counting(lookups, gen) = {}
<1>1. vc.gen \in Nat /\ \A l \in lookups : l.gen \in Nat /\ (l.kind = "refresh" => l.gen <= vc.gen)
  BY Parts, ZenonT(40) DEF RefreshInv, Typed, LookupTyped, ClientTyped
<1> QED BY <1>1, SMTT(30) DEF Counting

\* onConnectionStateChanged(Connected) keeps the invariant in every route mode.
LEMMA ConnectedKeeps == ASSUME SessionInv, ConnectedDone PROVE Rest'
<1> DEFINE v == [vc EXCEPT !.state = "Connected", !.conn = @ + 1]
           dns == RouteAddList(rt, Tun, {"dns"})
           w == [v EXCEPT !.gen = @ + 1]
           halves == RouteAddList(dns, Tun, {"halves"})
           server == RouteAddList(halves, vc.proto, {"server"})
           added == AddSitesRoutes(w, server, vc.proto)
<1>0. /\ UNCHANGED <<known, link, env, late>> /\ link.alive /\ vc.run = "up" /\ rt.tun
      /\ vc.pstate = "Connected" /\ vc.proto # NoGw /\ Ops' = {} /\ vc.pending = 0
  BY ConnectedClient, SMTT(30)
<1>1. /\ env.mode = "all" => vc' = v /\ rt' = dns /\ UNCHANGED <<lookups, first>>
      /\ env.mode = "forward" => /\ vc' = [w EXCEPT !.shots = @ + 1] /\ rt' = dns
                                 /\ UNCHANGED lookups
      /\ env.mode = "except" => /\ vc' = added.vc /\ rt' = added.rt /\ lookups' = added.lookups
  BY Parts, ZenonT(40) DEF ConnectedDone, Typed, Modes
<1>2. /\ ClientTyped(v) /\ v.state = "Connected" /\ v.conn = vc.conn + 1 /\ v.gen = vc.gen
      /\ v.pending = 0 /\ v.proto = vc.proto /\ v.run = vc.run /\ v.pstate = vc.pstate
      /\ v.gw = vc.gw /\ v.installed = vc.installed /\ v.timer = vc.timer /\ v.shots = vc.shots
      /\ vc.conn \in Nat /\ vc.gen \in Nat
  BY <1>0, Parts DEF Typed, ClientTyped, ClientFields
<1> HIDE DEF v
<1>3. /\ ClientTyped(w) /\ w.state = "Connected" /\ w.conn = vc.conn + 1 /\ w.gen = vc.gen + 1
      /\ w.pending = 0 /\ w.proto = vc.proto /\ w.run = vc.run /\ w.pstate = vc.pstate
      /\ w.gw = vc.gw /\ w.installed = vc.installed /\ w.timer = vc.timer /\ w.shots = vc.shots
  BY <1>2 DEF ClientTyped, ClientFields
<1> HIDE DEF w
<1>4. /\ ServiceTyped(dns) /\ TableSound(dns, env.platform) /\ Untouched(rt, dns)
      /\ env.platform = "windows" => <<"dns", Tun>> \in dns.saved
      /\ ~env.died /\ ~late => Shaped(dns, vc.proto)
  BY <1>0, DnsRouted, ZenonT(40)
<1> HIDE DEF dns
<1>5. CASE env.mode = "all"
  <2>1. vc' = v /\ rt' = dns /\ UNCHANGED <<lookups, first>>
    BY <1>1, <1>5, SMTT(30)
  <2>2. Up
    BY <2>1, <1>4, SMTT(30) DEF Up
  <2>3. Typed' /\ StateInv' /\ TableSound(rt', env'.platform) /\ RowInv' /\ CleanInv' /\ OrphanRoutesReleased'
    BY <2>1, <2>2, <1>2, Parts, UpKeeps, ZenonT(40) DEF Typed
  <2>4. RefreshInv'
    BY <2>1, <1>0, <1>2, Parts, ZenonT(40) DEF RefreshInv
  <2>5. SitesInv'
    BY <2>1, <1>0, <1>2, <1>5, Parts, ZenonT(40) DEF SitesInv
  <2>6. TableInv'
    BY <2>1, <1>2, <1>5, Parts, ZenonT(40) DEF TableInv, SitesInv
  <2> QED BY <2>3, <2>4, <2>5, <2>6, SMTT(30) DEF Rest
<1>6. CASE env.mode = "forward"
  <2>1. vc' = [w EXCEPT !.shots = @ + 1] /\ rt' = dns /\ UNCHANGED lookups
    BY <1>1, <1>6, SMTT(30)
  <2>2. /\ ClientTyped(vc') /\ vc'.state = "Connected" /\ vc'.conn = vc.conn + 1 /\ vc'.gen = vc.gen + 1
        /\ vc'.pending = 0 /\ vc'.proto = vc.proto /\ vc'.run = vc.run /\ vc'.pstate = vc.pstate
        /\ vc'.gw = vc.gw /\ vc'.timer = vc.timer /\ vc'.shots # 0
    BY <2>1, <1>3, SMTT(30) DEF ClientTyped, ClientFields
  <2>3. Up
    BY <2>1, <1>4, SMTT(30) DEF Up
  <2>4. Typed' /\ StateInv' /\ TableSound(rt', env'.platform) /\ RowInv' /\ CleanInv' /\ OrphanRoutesReleased'
    BY <2>1, <2>2, <2>3, Parts, UpKeeps, SMTT(30) DEF Typed
  <2>5. RefreshInv'
    <3>1. Counting(lookups', vc'.gen) = {}
      BY <2>1, <2>2, NothingCounted
    <3>2. \A l \in lookups' : l.kind = "refresh" => l.gen <= vc'.gen
      BY <2>1, <2>2, <1>2, Parts DEF RefreshInv, Typed, LookupTyped
    <3> QED BY <2>1, <2>2, <3>1, <3>2, Parts, FS_EmptySet, ZenonT(40) DEF RefreshInv
  <2>6. SitesInv'
    <3>1. \A l \in lookups : l.conn \in Nat
      BY Parts, ZenonT(40) DEF Typed, LookupTyped
    <3> QED BY <2>1, <2>2, <3>1, <1>0, <1>2, <1>6, Parts, SMTT(30) DEF SitesInv
  <2>7. TableInv'
    BY <2>2, SMTT(30) DEF TableInv
  <2> QED BY <2>4, <2>5, <2>6, <2>7 DEF Rest
<1>7. CASE env.mode = "except"
  <2>1. PICK ips \in SUBSET Sites :
          /\ ClientTyped(vc') /\ vc'.gw = vc.proto /\ vc'.installed = ips
          /\ vc'.state = w.state /\ vc'.pstate = w.pstate /\ vc'.run = w.run
          /\ vc'.proto = w.proto /\ vc'.gen = w.gen /\ vc'.pending = w.pending
          /\ vc'.conn = w.conn /\ vc'.shots = w.shots /\ vc'.timer = w.timer
          /\ rt' = RouteAddList(server, vc.proto, ips)
          /\ lookups' = lookups \cup AddLookups(vc.proto, ips, w.conn)
    <3>1. vc' = added.vc /\ rt' = added.rt /\ lookups' = added.lookups
      BY <1>1, <1>7, SMTT(30)
    <3>2. Typed
      BY Parts, ZenonT(40)
    <3> HIDE DEF server
    <3> QED BY <3>1, <3>2, <1>3, AddsSites, SMTT(30)
  <2>2. Adds(dns, halves, Tun, {"halves"}) /\ TableSound(halves, env.platform)
    BY <1>4, Parts, AddsRoutes, ZenonT(40) DEF Typed
  <2> HIDE DEF halves
  <2>3. Adds(halves, server, vc.proto, {"server"}) /\ TableSound(server, env.platform)
    BY <2>2, Parts, AddsRoutes, ZenonT(40) DEF Typed, Adds
  <2> HIDE DEF server
  <2>4. Adds(server, rt', vc.proto, ips) /\ TableSound(rt', env.platform)
    BY <2>1, <2>3, Parts, AddsRoutes, SMTT(30) DEF Typed, Adds
  <2>5. ASSUME ~env.died, ~late PROVE Shaped(rt', vc.proto)
    <3>1. Shaped(halves, vc.proto)
      <4>1. \A d \in {"halves"} : Via(d, vc.proto) = Tun
        BY DEF Via
      <4> QED BY <4>1, <2>2, <2>5, <1>4, AddsInShape, SMTT(30)
    <3>2. Shaped(server, vc.proto)
      <4>1. \A d \in {"server"} : Via(d, vc.proto) = vc.proto
        BY DEF Via
      <4> QED BY <4>1, <3>1, <2>3, AddsInShape, SMTT(30)
    <3>3. \A d \in ips : Via(d, vc.proto) = vc.proto
      BY <1>7, SitesVia, SMTT(30)
    <3> QED BY <3>2, <3>3, <2>4, AddsInShape, SMTT(30)
  <2>6. Up
    BY <2>2, <2>3, <2>4, <2>5, <1>4, ZenonT(40) DEF Up, Adds, Untouched
  <2>7. w.conn \in Nat /\ w.conn > vc.conn /\ w.gen \in Nat
    BY <1>2, <1>3, SMTT(30)
  <2>8. Typed' /\ StateInv' /\ TableSound(rt', env'.platform) /\ RowInv' /\ CleanInv' /\ OrphanRoutesReleased'
    <3>1. \A l \in lookups' : LookupTyped(l)
      BY <2>1, <2>7, Parts, AddLookupsFine, ZenonT(40) DEF Typed
    <3> QED BY <2>1, <2>6, <3>1, <1>3, UpKeeps, ZenonT(40)
  <2>9. RefreshInv'
    <3>1. IsFiniteSet(lookups') /\ Counting(lookups', vc'.gen) = Counting(lookups, w.gen)
      <4>1. IsFiniteSet(lookups) /\ w.conn \in Nat
        BY <2>7, Parts, SMTT(30) DEF RefreshInv
      <4>2. lookups' = lookups \cup AddLookups(vc.proto, ips, w.conn) /\ vc'.gen = w.gen
        BY <2>1, ZenonT(40)
      <4> QED BY <4>1, <4>2, AddLookupsUncounted, SMTT(30)
    <3>2. Counting(lookups, w.gen) = {}
      BY <1>3, NothingCounted, SMTT(30)
    <3>3. \A l \in lookups' : l.kind = "refresh" => l.gen <= vc'.gen
      <4>1. \A l \in lookups : l.kind = "refresh" => l.gen \in Nat /\ l.gen <= vc.gen
        BY Parts, ZenonT(40) DEF RefreshInv, Typed, LookupTyped
      <4>2. \A l \in lookups' : l.kind = "refresh" => l \in lookups
        BY <2>1, <2>7, AddLookupsFine, ZenonT(40)
      <4> QED BY <2>1, <4>1, <4>2, <1>2, <1>3, SMTT(30)
    <3> QED BY <2>1, <1>3, <3>1, <3>2, <3>3, FS_EmptySet, ZenonT(40) DEF RefreshInv
  <2>10. SitesInv'
    <3>1. \A l \in lookups : l.conn \in Nat /\ (l.kind = "add" => l.conn <= vc.conn)
      BY Parts, ZenonT(40) DEF Typed, LookupTyped, SitesInv
    <3>2. \A l \in AddLookups(vc.proto, ips, w.conn) : l.gw = vc.proto /\ l.conn = w.conn
      BY <2>7, AddLookupsFine, SMTT(30)
    <3>3. \A l \in lookups' : l.kind = "add" =>
            l.conn <= vc'.conn /\ (l.conn = vc'.conn => l.gw = vc'.gw)
      BY <2>1, <2>7, <3>1, <3>2, <1>2, <1>3, SMTT(30)
    <3>4. vc'.shots = 0
      BY <2>1, <1>3, <1>7, Parts, ZenonT(40) DEF SitesInv
    <3> QED BY <2>1, <3>3, <3>4, <1>0, <1>3, <1>7, ZenonT(40) DEF SitesInv
  <2>11. TableInv'
    <3>1. ASSUME ~env.moved PROVE \A ip \in vc'.installed : <<ip, vc'.gw>> \in rt'.kernel
      <4>1. server.tun = rt.tun /\ vc.proto # Tun
        BY <2>2, <2>3, <1>0, <1>4, Parts, GatewaysAssumption, ZenonT(40) DEF Adds, Untouched, Typed, ClientTyped, NoGw, Tun
      <4>2. Reachable(server, vc.proto)
        BY <4>1, <3>1, <1>0, GatewayUp, ZenonT(40)
      <4>3. Accepted(server, vc.proto, ips) = {<<d, vc.proto>> : d \in ips}
        BY <4>2, AcceptedAll, SMTT(30)
      <4> QED BY <4>3, <2>1, <2>4, ZenonT(40) DEF Adds
    <3> QED BY <3>1, <1>0, ZenonT(40) DEF TableInv
  <2> QED BY <2>8, <2>9, <2>10, <2>11, SMTT(30) DEF Rest
<1> QED BY <1>5, <1>6, <1>7, Parts, ZenonT(40) DEF Typed, Modes

\* The 1 s shot keeps the invariant, also when it fires after its session ended:
\* the device is gone then and no route is taken.
LEMMA ShotKeeps == ASSUME SessionInv, SitesShot PROVE Rest'
<1> DEFINE v == [vc EXCEPT !.shots = @ - 1]
<1>1. Free /\ vc.shots > 0 /\ UNCHANGED <<calls, first, known, link, env, late>> /\ link.alive
  BY SMTT(30) DEF SitesShot, Free
<1>2. env.mode = "forward" /\ Ops' = Ops
  BY <1>1, Parts, SMTT(30) DEF SitesInv, Typed, Modes, Ops
<1>3. /\ ClientTyped(v) /\ v.state = vc.state /\ v.conn = vc.conn /\ v.gen = vc.gen
      /\ v.pending = vc.pending /\ v.proto = vc.proto /\ v.run = vc.run /\ v.pstate = vc.pstate
      /\ v.timer = vc.timer /\ v.posted = vc.posted /\ vc.conn \in Nat
  BY <1>1, Parts, SMTT(30) DEF Typed, ClientTyped, ClientFields
<1>4. PICK ips \in SUBSET Sites :
          /\ ClientTyped(vc') /\ vc'.gw = Tun /\ vc'.installed = ips
          /\ vc'.state = v.state /\ vc'.pstate = v.pstate /\ vc'.run = v.run
          /\ vc'.proto = v.proto /\ vc'.gen = v.gen /\ vc'.pending = v.pending
          /\ vc'.conn = v.conn /\ vc'.shots = v.shots /\ vc'.posted = v.posted
          /\ vc'.timer = v.timer
          /\ rt' = RouteAddList(rt, Tun, ips)
          /\ lookups' = lookups \cup AddLookups(Tun, ips, v.conn)
  <2>1. LET added == AddSitesRoutes(v, rt, Tun)
        IN  vc' = added.vc /\ rt' = added.rt /\ lookups' = added.lookups
    BY SMTT(30) DEF SitesShot
  <2>2. Typed
    BY Parts, SMTT(30)
  <2> HIDE DEF v
  <2> QED BY <2>1, <2>2, <1>3, AddsSites, SMTT(30)
<1> HIDE DEF v
<1>5. Adds(rt, rt', Tun, ips) /\ TableSound(rt', env.platform)
  BY <1>4, Parts, AddsRoutes, ZenonT(40) DEF Typed
<1>6. IsFiniteSet(lookups') /\ Counting(lookups', vc'.gen) = Counting(lookups, vc.gen)
  <2>1. IsFiniteSet(lookups) /\ v.conn \in Nat
    BY <1>3, Parts, ZenonT(40) DEF RefreshInv
  <2>2. lookups' = lookups \cup AddLookups(Tun, ips, v.conn) /\ vc'.gen = vc.gen
    BY <1>3, <1>4, ZenonT(40)
  <2> DEFINE ls == lookups \cup AddLookups(Tun, ips, v.conn)
  <2>3. IsFiniteSet(ls) /\ Counting(ls, vc.gen) = Counting(lookups, vc.gen)
    BY <2>1, AddLookupsUncounted, SMTT(30)
  <2> QED BY <2>2, <2>3, SMTT(30)
<1>7. \A l \in lookups' : l \in lookups \/ (LookupTyped(l) /\ l.kind = "add" /\ l.gw = Tun /\ l.conn = vc.conn)
  BY <1>3, <1>4, AddLookupsFine, SMTT(30)
<1>8. Typed'
  <2>1. \A l \in lookups' : LookupTyped(l)
    BY <1>7, Parts, ZenonT(40) DEF Typed
  <2> QED BY <2>1, <1>1, <1>4, <1>5, Parts, ZenonT(40) DEF Typed, Adds
<1>9. StateInv'
  BY <1>1, <1>2, <1>3, <1>4, <1>5, Parts, ZenonT(40) DEF StateInv, Adds, Untouched
<1>10. RefreshInv'
  BY <1>3, <1>4, <1>6, <1>7, Parts, ZenonT(40) DEF RefreshInv
<1>11. RowInv'
  BY <1>1, <1>3, <1>4, <1>5, Parts, ZenonT(40) DEF RowInv, Adds
<1>12. SitesInv'
  <2>1. \A l \in lookups' : l.kind = "add" => l.conn <= vc'.conn /\ l.gw = Tun
    BY <1>2, <1>3, <1>4, <1>7, Parts, SMTT(30) DEF SitesInv
  <2> QED BY <2>1, <1>1, <1>2, <1>4, ZenonT(40) DEF SitesInv
<1>13. TableInv'
  <2>1. ASSUME vc.state = "Connected", "stop-error" \notin Ops
        PROVE  \A ip \in vc'.installed : <<ip, vc'.gw>> \in rt'.kernel
    <3>1. Reachable(rt, Tun)
      BY <2>1, Parts, ZenonT(40) DEF StateInv, Reachable
    <3>2. Accepted(rt, Tun, ips) = {<<d, Tun>> : d \in ips}
      BY <3>1, AcceptedAll, ZenonT(40)
    <3> QED BY <3>2, <1>4, <1>5, ZenonT(40) DEF Adds
  <2> QED BY <2>1, <1>2, <1>3, <1>4, ZenonT(40) DEF TableInv
<1>14. CleanInv'
  <2>1. ASSUME ~env.died, vc.run # "up" PROVE rt'.kernel = rt.kernel /\ rt'.mixed = rt.mixed
    <3>1. ~rt.tun
      BY <2>1, Parts, ZenonT(40) DEF CleanInv
    <3>2. Accepted(rt, Tun, ips) = {}
      BY <3>1, SMTT(30) DEF Accepted, Reachable
    <3> QED BY <3>2, <1>5, Parts, ZenonT(40) DEF Adds, Typed, ServiceTyped
  <2>2. ASSUME ~env.died, ~late, vc.run = "up" PROVE Shaped(rt', vc.proto)
    <3>1. Shaped(rt, vc.proto)
      BY <2>2, Parts, ZenonT(40) DEF CleanInv, Shaped
    <3>2. \A d \in ips : Via(d, vc.proto) = Tun
      BY <1>2, SitesVia, SMTT(30)
    <3> QED BY <3>1, <3>2, <1>5, AddsInShape, SMTT(30)
  <2> QED BY <2>1, <2>2, <1>1, <1>2, <1>3, <1>4, <1>5, Parts, ZenonT(60)
          DEF CleanInv, Shaped, Via, Adds, Untouched, Released
<1>15. TableSound(rt', env'.platform) /\ OrphanRoutesReleased'
  BY <1>1, <1>5, ZenonT(40) DEF OrphanRoutesReleased
<1> QED BY <1>8, <1>9, <1>10, <1>11, <1>12, <1>13, <1>14, <1>15, SMTT(30) DEF Rest

\* A look-up that is not one of the current refresh does not count.
LEMMA OtherLookup ==
    ASSUME SessionInv, NEW l \in lookups, lookups' = lookups \ {l},
           l.kind = "add" \/ l.gen # vc.gen \/ vc.state # "Connected",
           vc'.gen = vc.gen, vc'.pending = vc.pending, vc'.state = vc.state
    PROVE  RefreshInv'
<1>1. /\ IsFiniteSet(lookups) /\ vc.pending = Cardinality(Counting(lookups, vc.gen))
      /\ vc.state # "Connected" => vc.pending = 0
      /\ \A k \in lookups : k.kind = "refresh" => k.gen <= vc.gen
  BY Parts, ZenonT(40) DEF RefreshInv
<1>2. IsFiniteSet(lookups') /\ IsFiniteSet(Counting(lookups, vc.gen))
  BY <1>1, FS_Subset, SMTT(30) DEF Counting
<1>3. l \notin Counting(lookups, vc.gen)
  <2>1. CASE l.kind = "add" \/ l.gen # vc.gen
    BY <2>1, SMTT(30) DEF Counting
  <2>2. CASE vc.state # "Connected"
    BY <2>2, <1>1, <1>2, FS_EmptySet, SMTT(30)
  <2> QED BY <2>1, <2>2, SMTT(30)
<1>4. Counting(lookups', vc.gen) = Counting(lookups, vc.gen)
  BY <1>3, SMTT(30) DEF Counting
<1> QED BY <1>1, <1>2, <1>4, SMTT(30) DEF RefreshInv

\* Answers that change nothing but the set of look-ups.
LEMMA LookupDropped ==
    ASSUME SessionInv, NEW l \in lookups, lookups' = lookups \ {l}, RefreshInv',
           UNCHANGED <<vc, rt, known, calls, first, link, env, late>>
    PROVE  Rest'
<1>1. Ops' = Ops
  BY SMTT(30) DEF Ops
<1>2. Typed' /\ SitesInv'
  BY Parts, ZenonT(40) DEF Typed, SitesInv
<1>3. StateInv' /\ TableInv' /\ RowInv' /\ CleanInv' /\ OrphanRoutesReleased' /\ TableSound(rt', env'.platform)
  BY <1>1, Parts, ZenonT(40) DEF StateInv, TableInv, RowInv, CleanInv, OrphanRoutesReleased, Via, Released
<1> QED BY <1>2, <1>3, SMTT(30) DEF Rest

\* A late answer of addSitesRoutes() keeps the invariant.
LEMMA LookupKeeps ==
    ASSUME SessionInv, NEW l \in lookups, NEW ip \in Addrs \cup {None}, RouteLookupDone(l, ip)
    PROVE  Rest'
<1>1. /\ l.kind = "add" /\ lookups' = lookups \ {l} /\ link.alive
      /\ UNCHANGED <<calls, first, link, env>>
  BY SMTT(30) DEF RouteLookupDone, Free
<1>2. env.mode # "all" /\ Ops' = Ops
  BY <1>1, Parts, ZenonT(40) DEF SitesInv, Ops
<1>3. CASE ~(ip # None /\ ip \notin l.ips)
  <2>1. UNCHANGED <<rt, known, vc, late>>
    BY <1>3, SMTT(30) DEF RouteLookupDone
  <2>2. RefreshInv'
    BY <2>1, <1>1, OtherLookup, ZenonT(40)
  <2> QED BY <2>1, <2>2, <1>1, LookupDropped, SMTT(30)
<1>4. CASE ip # None /\ ip \notin l.ips
  <2>1. /\ rt' = RouteAddList(rt, l.gw, {ip}) /\ known' = [known EXCEPT ![l.site] = ip]
        /\ vc' = [vc EXCEPT !.installed = @ \cup {ip}]
        /\ late' = (late \/ l.conn # vc.conn \/ vc.state # "Connected")
    BY <1>4, SMTT(30) DEF RouteLookupDone
  <2>2. ip \in Addrs /\ ip \in Sites
    BY <1>4, SMTT(30) DEF Sites
  <2>3. /\ ClientTyped(vc') /\ vc'.state = vc.state /\ vc'.conn = vc.conn /\ vc'.gen = vc.gen
        /\ vc'.pending = vc.pending /\ vc'.proto = vc.proto /\ vc'.run = vc.run
        /\ vc'.pstate = vc.pstate /\ vc'.timer = vc.timer /\ vc'.posted = vc.posted
        /\ vc'.gw = vc.gw /\ vc'.shots = vc.shots /\ vc'.installed = vc.installed \cup {ip}
    BY <2>1, <2>2, Parts, SMTT(30) DEF Typed, ClientTyped, ClientFields
  <2>4. Adds(rt, rt', l.gw, {ip}) /\ TableSound(rt', env.platform)
    BY <2>1, Parts, AddsRoutes, SMTT(30) DEF Typed
  <2>5. Typed'
    <3>1. known' \in [Domains -> Addrs \cup {None}] /\ late' \in BOOLEAN
      BY <2>1, Parts, Zenon DEF Typed
    <3> QED BY <3>1, <2>3, <2>4, <1>1, Parts, ZenonT(40) DEF Typed, Adds
  <2>6. StateInv'
    BY <2>3, <2>4, <1>1, <1>2, Parts, ZenonT(40) DEF StateInv, Adds, Untouched
  <2>7. RefreshInv'
    BY <2>3, <1>1, OtherLookup, ZenonT(40)
  <2>8. RowInv'
    BY <2>3, <2>4, <1>1, Parts, ZenonT(40) DEF RowInv, Adds
  <2>9. SitesInv'
    BY <2>3, <1>1, <1>2, Parts, ZenonT(40) DEF SitesInv
  <2>10. ASSUME ~late'
         PROVE  /\ ~late /\ vc.state = "Connected" /\ vc.run = "up" /\ l.gw = vc.gw
                /\ Via(ip, vc.proto) = l.gw
                /\ l.gw # Tun => l.gw = vc.proto /\ vc.proto # NoGw
    <3>1. ~late /\ l.conn = vc.conn /\ vc.state = "Connected"
      BY <2>1, <2>10, Parts, ZenonT(40) DEF Typed
    <3>2. vc.run = "up" /\ vc.proto # NoGw
      BY <3>1, Parts DEF StateInv
    <3>3. CASE env.mode = "forward"
      <4>1. l.gw = Tun /\ vc.gw = Tun
        BY <3>3, <1>1, Parts, ZenonT(40) DEF SitesInv
      <4> QED BY <3>1, <3>2, <3>3, <4>1, <2>2, SitesVia, ZenonT(40)
    <3>4. CASE env.mode = "except"
      <4>1. l.gw = vc.gw /\ vc.gw = vc.proto
        BY <3>1, <3>4, <1>1, Parts, ZenonT(40) DEF SitesInv
      <4> QED BY <3>1, <3>2, <3>4, <4>1, <2>2, SitesVia, SMTT(30)
    <3> QED BY <3>3, <3>4, <1>2, Parts, ZenonT(40) DEF Typed, Modes
  <2>11. TableInv'
    <3>1. ASSUME ~late', vc.state = "Connected", "stop-error" \notin Ops, vc.shots = 0, ~env.moved, ~env.died
          PROVE  \A i \in vc'.installed : <<i, vc'.gw>> \in rt'.kernel
      <4>1. rt.tun
        BY <3>1, Parts, ZenonT(40) DEF StateInv
      <4>2. Reachable(rt, l.gw)
        BY <4>1, <3>1, <2>10, GatewayUp, ZenonT(40)
      <4>3. Accepted(rt, l.gw, {ip}) = {<<d, l.gw>> : d \in {ip}}
        BY <4>2, AcceptedAll, SMTT(30)
      <4>4. <<ip, vc.gw>> \in rt'.kernel /\ rt.kernel \subseteq rt'.kernel
        BY <4>3, <3>1, <2>4, <2>10, ZenonT(40) DEF Adds
      <4>5. \A i \in vc.installed : <<i, vc.gw>> \in rt.kernel
        BY <3>1, <2>10, Parts, ZenonT(40) DEF TableInv
      <4> QED BY <4>4, <4>5, <2>3, ZenonT(40)
    <3> QED BY <3>1, <2>3, <1>1, <1>2, ZenonT(40) DEF TableInv
  <2>12. CleanInv'
    <3>1. ASSUME ~env.died, ~late' PROVE Shaped(rt', vc.proto) /\ vc.run = "up"
      <4>1. Shaped(rt, vc.proto)
        BY <3>1, <2>10, Parts, ZenonT(40) DEF CleanInv, Shaped
      <4>2. \A d \in {ip} : Via(d, vc.proto) = l.gw
        BY <3>1, <2>10, SMTT(30)
      <4> QED BY <3>1, <4>1, <4>2, <2>4, <2>10, AddsInShape, SMTT(30)
    <3> QED BY ZenonT(40), <3>1, <2>3, <2>4, <1>1, <1>2, Parts
            DEF CleanInv, Shaped, Via, Adds, Untouched, Released
  <2>13. TableSound(rt', env'.platform) /\ OrphanRoutesReleased'
    BY <2>4, <1>1, ZenonT(40) DEF OrphanRoutesReleased
  <2> QED BY <2>5, <2>6, <2>7, <2>8, <2>9, <2>11, <2>12, <2>13, SMTT(30) DEF Rest
<1> QED BY <1>3, <1>4

-----------------------------------------------------------------------------
(* The refresh. *)

\* applySplitRefreshDelta() on the service's side: the routes of the resolved
\* addresses, and only the rows of others are forgotten.
LEMMA DeltaService ==
    ASSUME SessionInv, vc.state = "Connected", env.mode # "all",
           env.mode = "forward" => vc.gw = Tun,
           NEW resolved \in SUBSET Sites, NEW r,
           r = RouteDeleteList(RouteAddList(rt, vc.gw, resolved \ vc.installed),
                               vc.gw, vc.installed \ resolved)
    PROVE  /\ ServiceTyped(r) /\ TableSound(r, env.platform) /\ Untouched(rt, r)
           /\ env.platform = "windows" => <<"dns", Tun>> \in r.saved
           /\ ~env.died /\ ~late => Shaped(r, vc.proto)
           /\ "stop-error" \notin Ops /\ vc.shots = 0 /\ ~late /\ ~env.moved /\ ~env.died
                => \A ip \in resolved : <<ip, vc.gw>> \in r.kernel
<1> DEFINE added == resolved \ vc.installed
           removed == vc.installed \ resolved
           s == RouteAddList(rt, vc.gw, added)
<1>0. vc.run = "up" /\ vc.proto # NoGw
  BY Parts, ZenonT(40) DEF StateInv
<1>1. Adds(rt, s, vc.gw, added) /\ TableSound(s, env.platform)
  BY Parts, AddsRoutes, ZenonT(40) DEF Typed
<1>2. env.platform = "windows" => <<"dns", Tun>> \in s.saved
  BY <1>1, Parts, ZenonT(40) DEF RowInv, Adds
<1>3. r = RouteDeleteList(s, vc.gw, removed)
  BY ZenonT(40)
<1> HIDE DEF s
<1>4. Deletes(s, r, vc.gw, removed) /\ TableSound(r, env.platform)
  BY <1>1, <1>2, <1>3, Parts, DeletesRoutes, SMTT(30) DEF Typed, Adds
<1>5. env.platform = "windows" => <<"dns", Tun>> \in r.saved
  BY <1>2, <1>4, ZenonT(40) DEF Deletes, Fixed
<1>6. (env.mode = "forward" /\ vc.gw = Tun) \/ (env.mode = "except" /\ vc.gw = vc.proto)
  BY Parts, ZenonT(40) DEF Typed, Modes, SitesInv
<1>7. ASSUME ~env.died, ~late PROVE Shaped(r, vc.proto)
  <2>1. Shaped(rt, vc.proto)
    BY <1>0, <1>7, Parts, ZenonT(40) DEF CleanInv, Shaped
  <2>2. \A d \in added : Via(d, vc.proto) = vc.gw
    BY <1>6, SitesVia, ZenonT(40)
  <2>3. Shaped(s, vc.proto)
    BY <2>1, <2>2, <1>1, AddsInShape, SMTT(30)
  <2> QED BY <2>3, <1>4, ZenonT(40) DEF Shaped, Deletes
<1>8. ASSUME "stop-error" \notin Ops, vc.shots = 0, ~late, ~env.moved, ~env.died, NEW ip \in resolved
      PROVE  <<ip, vc.gw>> \in r.kernel
  <2>1. rt.tun
    BY <1>8, Parts, ZenonT(40) DEF StateInv
  <2>2. Reachable(rt, vc.gw)
    BY <2>1, <1>0, <1>6, <1>8, GatewayUp, ZenonT(40)
  <2>3. Accepted(rt, vc.gw, added) = {<<d, vc.gw>> : d \in added}
    BY <2>2, AcceptedAll, SMTT(30)
  <2>4. <<ip, vc.gw>> \in s.kernel
    <3>1. CASE ip \in vc.installed
      BY <3>1, <1>1, <1>8, Parts, ZenonT(40) DEF TableInv, Adds
    <3>2. CASE ip \notin vc.installed
      BY <3>2, <2>3, <1>1, ZenonT(40) DEF Adds
    <3> QED BY <3>1, <3>2, ZenonT(40)
  <2>5. <<ip, vc.gw>> \notin Deleted(s, vc.gw, removed)
    BY ZenonT(40) DEF Deleted
  <2> QED BY <2>4, <2>5, <1>4, ZenonT(40) DEF Deletes
<1> QED BY <1>1, <1>4, <1>5, <1>7, <1>8, ZenonT(40) DEF Adds, Deletes, Untouched

\* A step of the refresh: the routes stay or follow the resolved addresses.
Follows ==
    /\ \/ rt' = rt /\ vc'.installed = vc.installed
       \/ \E resolved \in SUBSET Sites :
            /\ vc.state = "Connected" /\ vc'.installed = resolved
            /\ rt' = RouteDeleteList(RouteAddList(rt, vc.gw, resolved \ vc.installed),
                                     vc.gw, vc.installed \ resolved)
    /\ ClientTyped(vc') /\ vc'.state = vc.state /\ vc'.conn = vc.conn /\ vc'.gen = vc.gen
    /\ vc'.proto = vc.proto /\ vc'.run = vc.run /\ vc'.pstate = vc.pstate
    /\ vc'.posted = vc.posted /\ vc'.gw = vc.gw /\ vc'.shots = vc.shots

\* A step of the refresh keeps the invariant.
LEMMA FollowsKeeps ==
    ASSUME SessionInv, Follows, link.alive, env.mode # "all", RefreshInv',
           env.mode = "forward" => vc.gw = Tun,
           \A l \in lookups' : LookupTyped(l) /\ (l.kind = "add" => l \in lookups),
           known' \in [Domains -> Addrs \cup {None}],
           UNCHANGED <<calls, link, env, late>>
    PROVE  Rest'
<1>1. Ops' = Ops
  BY SMTT(30) DEF Ops
<1>2. /\ ServiceTyped(rt') /\ TableSound(rt', env.platform) /\ Untouched(rt, rt')
      /\ vc.state = "Connected" /\ env.platform = "windows" => <<"dns", Tun>> \in rt'.saved
      /\ ~env.died /\ ~late /\ vc.run = "up" => Shaped(rt', vc.proto)
      /\ vc.run # "up" => rt' = rt
      /\ (/\ vc.state = "Connected" /\ "stop-error" \notin Ops
          /\ vc.shots = 0 /\ ~late /\ ~env.moved /\ ~env.died)
           => \A ip \in vc'.installed : <<ip, vc.gw>> \in rt'.kernel
  <2>1. CASE rt' = rt /\ vc'.installed = vc.installed
    BY <2>1, Parts, ZenonT(40) DEF Typed, Untouched, RowInv, CleanInv, Shaped, TableInv
  <2>2. CASE rt' # rt \/ vc'.installed # vc.installed
    <3>1. PICK resolved \in SUBSET Sites :
            /\ vc.state = "Connected" /\ vc'.installed = resolved
            /\ rt' = RouteDeleteList(RouteAddList(rt, vc.gw, resolved \ vc.installed),
                                     vc.gw, vc.installed \ resolved)
      BY <2>2, ZenonT(40) DEF Follows
    <3>2. vc.run = "up"
      BY <3>1, Parts, Zenon DEF StateInv
    <3> DEFINE r == rt'
    <3>3. /\ ServiceTyped(r) /\ TableSound(r, env.platform) /\ Untouched(rt, r)
          /\ env.platform = "windows" => <<"dns", Tun>> \in r.saved
          /\ ~env.died /\ ~late => Shaped(r, vc.proto)
          /\ "stop-error" \notin Ops /\ vc.shots = 0 /\ ~late /\ ~env.moved /\ ~env.died
                => \A ip \in resolved : <<ip, vc.gw>> \in r.kernel
      <4>1. r = RouteDeleteList(RouteAddList(rt, vc.gw, resolved \ vc.installed),
                                vc.gw, vc.installed \ resolved)
        BY <3>1, ZenonT(40)
      <4> HIDE DEF r
      <4> QED BY <3>1, <4>1, DeltaService, ZenonT(40)
    <3> QED BY <3>1, <3>2, <3>3, ZenonT(40)
  <2> QED BY <2>1, <2>2, ZenonT(40)
<1>3. Typed'
  BY <1>2, Parts, ZenonT(40) DEF Typed, Follows
<1>4. StateInv'
  BY <1>1, <1>2, Parts, ZenonT(40) DEF StateInv, Follows, Untouched
<1>5. RowInv' /\ TableInv'
  BY <1>1, <1>2, ZenonT(40) DEF RowInv, TableInv, Follows
<1>6. SitesInv'
  BY Parts, ZenonT(40) DEF SitesInv, Follows
<1>7. CleanInv'
  BY <1>1, <1>2, Parts, ZenonT(40) DEF CleanInv, Follows, Shaped, Via, Untouched, Released
<1>8. TableSound(rt', env'.platform) /\ OrphanRoutesReleased'
  BY <1>2, ZenonT(40) DEF OrphanRoutesReleased
<1> QED BY <1>3, <1>4, <1>5, <1>6, <1>7, <1>8, SMTT(30) DEF Rest

\* applySplitRefreshDelta() as a step of the refresh.
LEMMA DeltaFollows ==
    ASSUME SessionInv, vc.state = "Connected", NEW v, ClientTyped(v), NEW resolved \in SUBSET Sites,
           v.state = vc.state, v.conn = vc.conn, v.gen = vc.gen, v.proto = vc.proto, v.run = vc.run,
           v.pstate = vc.pstate, v.posted = vc.posted, v.gw = vc.gw, v.shots = vc.shots,
           v.installed = vc.installed,
           vc' = ApplyDelta(v, rt, resolved).vc, rt' = ApplyDelta(v, rt, resolved).rt
    PROVE  Follows /\ vc'.pending = v.pending
<1>1. /\ vc' = [v EXCEPT !.installed = resolved]
      /\ rt' = RouteDeleteList(RouteAddList(rt, vc.gw, resolved \ vc.installed),
                               vc.gw, vc.installed \ resolved)
  BY DEF ApplyDelta
<1>2. /\ ClientTyped(vc') /\ vc'.state = v.state /\ vc'.conn = v.conn /\ vc'.gen = v.gen
      /\ vc'.proto = v.proto /\ vc'.run = v.run /\ vc'.pstate = v.pstate
      /\ vc'.posted = v.posted /\ vc'.gw = v.gw /\ vc'.shots = v.shots
      /\ vc'.installed = resolved /\ vc'.pending = v.pending
  BY <1>1 DEF ClientTyped, ClientFields
<1> QED BY <1>1, <1>2, Zenon DEF Follows

\* refreshSitesRoutes() keeps the invariant.
LEMMA RefreshKeeps ==
    ASSUME SessionInv, NEW v, link.alive, env.mode # "all",
           v.state = "Connected" => (env.mode = "forward" => vc.gw = Tun),
           v = vc \/ (v = [vc EXCEPT !.timer = TRUE] /\ vc.state = "Connected"),
           RefreshSitesRoutes(v), UNCHANGED <<calls, known, link, env, late>>, first' \subseteq first
    PROVE  Rest'
<1>1. /\ ClientTyped(v) /\ v.state = vc.state /\ v.conn = vc.conn /\ v.gen = vc.gen
      /\ v.proto = vc.proto /\ v.run = vc.run /\ v.pstate = vc.pstate /\ v.posted = vc.posted
      /\ v.gw = vc.gw /\ v.shots = vc.shots /\ v.installed = vc.installed /\ v.pending = vc.pending
  BY Parts, Zenon DEF Typed, ClientTyped, ClientFields
<1>2. /\ known' \in [Domains -> Addrs \cup {None}] /\ known \in [Domains -> Addrs \cup {None}]
      /\ \A l \in lookups : LookupTyped(l)
  BY Parts DEF Typed
<1>3. CASE v.state # "Connected"
  <2>1. vc' = vc /\ UNCHANGED <<rt, lookups>>
    BY <1>1, <1>3 DEF RefreshSitesRoutes
  <2>2. Ops' = Ops
    BY DEF Ops
  <2>3. Typed' /\ RefreshInv'
    BY <2>1, Parts, Zenon DEF Typed, RefreshInv
  <2>4. SitesInv'
    BY <2>1, Parts DEF SitesInv
  <2>5. StateInv' /\ TableInv' /\ RowInv' /\ CleanInv' /\ OrphanRoutesReleased' /\ TableSound(rt', env'.platform)
    BY <2>1, <2>2, Parts DEF StateInv, TableInv, RowInv, CleanInv, OrphanRoutesReleased, Via, Released
  <2> QED BY <2>3, <2>4, <2>5 DEF Rest
<1>4. CASE v.state = "Connected" /\ (v.proto = NoGw \/ v.pending > 0)
  <2>1. vc' = v /\ UNCHANGED <<rt, lookups>>
    BY <1>4 DEF RefreshSitesRoutes
  <2>2. Follows
    BY <2>1, <1>1, SMTT(30) DEF Follows
  <2>3. RefreshInv'
    BY <2>1, <1>1, Parts, SMTT(30) DEF RefreshInv
  <2> QED BY <2>1, <2>2, <2>3, <1>2, <1>4, FollowsKeeps, SMTT(30)
<1>5. CASE v.state = "Connected" /\ v.proto # NoGw /\ ~(v.pending > 0) /\ Domains = {}
  <2> DEFINE u == [v EXCEPT !.resolved = {}]
  <2>1. vc' = ApplyDelta(u, rt, Subnets).vc /\ rt' = ApplyDelta(u, rt, Subnets).rt /\ UNCHANGED lookups
    BY <1>5 DEF RefreshSitesRoutes
  <2>2. /\ ClientTyped(u) /\ u.state = vc.state /\ u.conn = vc.conn /\ u.gen = vc.gen
        /\ u.proto = vc.proto /\ u.run = vc.run /\ u.pstate = vc.pstate /\ u.posted = vc.posted
        /\ u.gw = vc.gw /\ u.shots = vc.shots /\ u.installed = vc.installed /\ u.pending = vc.pending
    BY <1>1 DEF ClientTyped, ClientFields
  <2>3. Subnets \in SUBSET Sites
    BY DEF Sites
  <2> HIDE DEF u
  <2>4. Follows /\ vc'.pending = vc.pending
    BY <2>1, <2>2, <2>3, <1>1, <1>5, DeltaFollows, SMTT(30)
  <2>5. RefreshInv'
    BY <2>1, <2>4, Parts, SMTT(30) DEF RefreshInv, Follows
  <2> QED BY <2>1, <2>4, <2>5, <1>2, <1>5, FollowsKeeps, SMTT(30)
<1>6. CASE v.state = "Connected" /\ v.proto # NoGw /\ ~(v.pending > 0) /\ Domains # {}
  <2>0. v.gen \in Nat /\ v.conn \in Nat /\ v.pending = 0
    BY <1>1, <1>6, SMTT(30) DEF ClientTyped
  <2>1. /\ vc' = [v EXCEPT !.resolved = Subnets, !.pending = Cardinality(Domains)]
        /\ lookups' = lookups \cup RefreshLookups(v.gen, v.conn)
        /\ UNCHANGED rt
    BY <1>6 DEF RefreshSitesRoutes, RefreshLookups
  <2> DEFINE new == RefreshLookups(v.gen, v.conn)
  <2>2. /\ IsFiniteSet(new) /\ Cardinality(new) = Cardinality(Domains)
        /\ \A l \in new : LookupTyped(l) /\ l.kind = "refresh" /\ l.gen = v.gen
    BY <2>0, <1>2, RefreshLookupsFine, SMTT(30)
  <2>3. Cardinality(Domains) \in Nat
    BY SitesAssumption, FS_CardinalityType, SMTT(30)
  <2> HIDE DEF new
  <2>4. /\ ClientTyped(vc') /\ vc'.state = v.state /\ vc'.conn = v.conn /\ vc'.gen = v.gen
        /\ vc'.proto = v.proto /\ vc'.run = v.run /\ vc'.pstate = v.pstate /\ vc'.posted = v.posted
        /\ vc'.gw = v.gw /\ vc'.shots = v.shots /\ vc'.installed = v.installed
        /\ vc'.pending = Cardinality(Domains)
    BY <2>1, <2>3, <1>1, SMTT(30) DEF ClientTyped, ClientFields, Sites
  <2>5. Follows
    BY <2>1, <2>4, <1>1, SMTT(30) DEF Follows
  <2>6. RefreshInv'
    <3>1. IsFiniteSet(lookups) /\ \A l \in lookups : l.kind = "refresh" => l.gen <= vc.gen
      BY Parts DEF RefreshInv
    <3>2. lookups' = lookups \cup new
      BY <2>1 DEF new
    <3>3. IsFiniteSet(lookups')
      BY <2>2, <3>1, <3>2, FS_Union, ZenonT(40)
    <3>4. Counting(lookups, vc.gen) = {}
      <4>1. IsFiniteSet(Counting(lookups, vc.gen))
        BY <3>1, FS_Subset DEF Counting
      <4>2. Cardinality(Counting(lookups, vc.gen)) = 0
        BY <2>0, <1>1, Parts DEF RefreshInv
      <4> QED BY <4>1, <4>2, FS_EmptySet
    <3>5. Counting(lookups', vc'.gen) = new
      BY <2>2, <2>4, <3>2, <3>4, <1>1, SMTT(30) DEF Counting
    <3>6. \A l \in lookups' : l.kind = "refresh" => l.gen <= vc'.gen
      BY <2>0, <2>2, <2>4, <3>1, <3>2, <1>1, SMTT(30)
    <3> QED BY <2>2, <2>4, <3>3, <3>5, <3>6, <1>6, SMTT(30) DEF RefreshInv
  <2>7. \A l \in lookups' : LookupTyped(l) /\ (l.kind = "add" => l \in lookups)
    BY <2>1, <2>2, <1>2, SMTT(30) DEF new
  <2> QED BY <2>5, <2>6, <2>7, <1>2, <1>6, FollowsKeeps, SMTT(30)
<1> QED BY <1>3, <1>4, <1>5, <1>6

-----------------------------------------------------------------------------
(* The invariant and what it implies. *)

\* A stuttering step.
LEMMA Stutters == ASSUME SessionInv, UNCHANGED routesVars PROVE Rest'
<1>1. UNCHANGED <<vc, calls, lookups, first, known, rt, link, env, late>>
  BY DEF routesVars
<1>2. Ops' = Ops
  BY <1>1, SMTT(30) DEF Ops
<1>3. Typed' /\ RefreshInv' /\ SitesInv'
  BY <1>1, Parts, ZenonT(40) DEF Typed, RefreshInv, SitesInv
<1>4. StateInv' /\ TableInv' /\ RowInv' /\ CleanInv' /\ OrphanRoutesReleased' /\ TableSound(rt', env'.platform)
  BY <1>1, <1>2, Parts, ZenonT(40) DEF StateInv, TableInv, RowInv, CleanInv, OrphanRoutesReleased, Via, Released
<1> QED BY <1>3, <1>4, SMTT(30) DEF Rest

\* The 60 s shot keeps the invariant.
LEMMA FirstKeeps == ASSUME SessionInv, NEW g \in first, FirstRefresh(g) PROVE Rest'
<1>1. /\ link.alive /\ vc.shots = 0 /\ first' \subseteq first
      /\ UNCHANGED <<calls, known, link, env, late>>
  BY SMTT(30) DEF FirstRefresh, Free
<1>2. env.mode # "all"
  BY Parts, ZenonT(40) DEF SitesInv
<1>3. CASE g = vc.gen /\ vc.state = "Connected"
  <2> DEFINE v == [vc EXCEPT !.timer = TRUE]
  <2>1. RefreshSitesRoutes(v)
    BY <1>3, SMTT(30) DEF FirstRefresh
  <2>2. env.mode = "forward" => vc.gw = Tun
    BY <1>1, <1>3, Parts, ZenonT(40) DEF SitesInv
  <2>3. v = [vc EXCEPT !.timer = TRUE]
    BY SMTT(30)
  <2> HIDE DEF v
  <2> QED BY <2>1, <2>2, <2>3, <1>1, <1>2, <1>3, RefreshKeeps, SMTT(30)
<1>4. CASE ~(g = vc.gen /\ vc.state = "Connected")
  <2>1. UNCHANGED <<vc, rt, lookups>>
    BY <1>4, SMTT(30) DEF FirstRefresh
  <2>2. Ops' = Ops
    BY <1>1, SMTT(30) DEF Ops
  <2>3. Typed' /\ RefreshInv' /\ SitesInv'
    BY <2>1, <1>1, <1>2, Parts, ZenonT(40) DEF Typed, RefreshInv, SitesInv
  <2>4. StateInv' /\ TableInv' /\ RowInv' /\ CleanInv' /\ OrphanRoutesReleased' /\ TableSound(rt', env'.platform)
    BY <2>1, <2>2, <1>1, Parts, ZenonT(40) DEF StateInv, TableInv, RowInv, CleanInv, OrphanRoutesReleased, Via, Released
  <2> QED BY <2>3, <2>4, SMTT(30) DEF Rest
<1> QED BY <1>3, <1>4, SMTT(30)

\* The refresh timer keeps the invariant.
LEMMA TickKeeps == ASSUME SessionInv, RefreshTick PROVE Rest'
<1>1. /\ link.alive /\ vc.timer /\ RefreshSitesRoutes(vc) /\ first' \subseteq first
      /\ UNCHANGED <<calls, known, link, env, late>>
  BY SMTT(30) DEF RefreshTick, Free
<1>2. env.mode # "all" /\ (env.mode = "forward" => vc.gw = Tun)
  BY <1>1, Parts, ZenonT(40) DEF SitesInv
<1> QED BY <1>1, <1>2, RefreshKeeps, SMTT(30)

\* An answer of the refresh keeps the invariant: it takes one from the count of its
\* own generation only, and the last one applies the delta.
LEMMA ResolvedKeeps ==
    ASSUME SessionInv, NEW l \in lookups, NEW ip \in Addrs \cup {None}, RefreshResolved(l, ip)
    PROVE  Rest'
<1>1. /\ link.alive /\ l.kind = "refresh" /\ lookups' = lookups \ {l}
      /\ UNCHANGED <<calls, first, link, env, late>>
  BY SMTT(30) DEF RefreshResolved, Free
<1>2. CASE l.gen # vc.gen \/ vc.state # "Connected"
  <2>1. UNCHANGED <<vc, rt, known>>
    BY <1>2, SMTT(30) DEF RefreshResolved
  <2>2. RefreshInv'
    BY <2>1, <1>1, <1>2, OtherLookup, SMTT(30)
  <2> QED BY <2>1, <2>2, <1>1, LookupDropped, SMTT(30)
<1>3. CASE l.gen = vc.gen /\ vc.state = "Connected"
  <2> DEFINE keep == IF ip # None THEN {ip} ELSE {l.known} \ {None}
             v == [vc EXCEPT !.resolved = @ \cup keep, !.pending = @ - 1]
             u == [v EXCEPT !.resolved = {}]
  <2>1. /\ v.pending = 0 => vc' = ApplyDelta(u, rt, v.resolved).vc /\ rt' = ApplyDelta(u, rt, v.resolved).rt
        /\ v.pending # 0 => vc' = v /\ rt' = rt
        /\ known' = IF ip # None THEN [known EXCEPT ![l.site] = ip] ELSE known
    BY <1>3, SMTT(30) DEF RefreshResolved
  <2>2. /\ env.mode # "all" /\ (env.mode = "forward" => vc.gw = Tun)
    BY Parts, ZenonT(40) DEF SitesInv
  <2>3. known' \in [Domains -> Addrs \cup {None}] /\ \A k \in lookups' : LookupTyped(k) /\ k \in lookups
    BY <2>1, <1>1, Parts, ZenonT(40) DEF Typed
  <2>4. keep \subseteq Sites
    BY Parts, ZenonT(40) DEF Typed, LookupTyped, Sites
  <2>5. /\ IsFiniteSet(lookups) /\ vc.pending = Cardinality(Counting(lookups, vc.gen))
        /\ \A k \in lookups : k.kind = "refresh" => k.gen <= vc.gen
    BY Parts, ZenonT(40) DEF RefreshInv
  <2>6. IsFiniteSet(lookups') /\ IsFiniteSet(Counting(lookups, vc.gen))
    BY <1>1, <2>5, FS_Subset, SMTT(30) DEF Counting
  <2>7. l \in Counting(lookups, vc.gen) /\ Counting(lookups', vc.gen) = Counting(lookups, vc.gen) \ {l}
    BY <1>1, <1>3, SMTT(30) DEF Counting
  <2>8. /\ Cardinality(Counting(lookups', vc.gen)) = vc.pending - 1
        /\ Cardinality(Counting(lookups', vc.gen)) \in Nat
    <3>1. IsFiniteSet(Counting(lookups', vc.gen))
      BY <2>6, <2>7, FS_RemoveElement, SMTT(30)
    <3> QED BY <3>1, <2>5, <2>6, <2>7, FS_RemoveElement, FS_CardinalityType, SMTT(30)
  <2> HIDE DEF keep
  <2>9. /\ ClientTyped(v) /\ v.state = vc.state /\ v.conn = vc.conn /\ v.gen = vc.gen
        /\ v.proto = vc.proto /\ v.run = vc.run /\ v.pstate = vc.pstate /\ v.posted = vc.posted
        /\ v.gw = vc.gw /\ v.shots = vc.shots /\ v.installed = vc.installed
        /\ v.pending = vc.pending - 1 /\ v.resolved \in SUBSET Sites
    BY <2>4, <2>8, Parts, SMTT(30) DEF Typed, ClientTyped, ClientFields
  <2> HIDE DEF v
  <2>10. /\ ClientTyped(u) /\ u.state = vc.state /\ u.conn = vc.conn /\ u.gen = vc.gen
         /\ u.proto = vc.proto /\ u.run = vc.run /\ u.pstate = vc.pstate /\ u.posted = vc.posted
         /\ u.gw = vc.gw /\ u.shots = vc.shots /\ u.installed = vc.installed
         /\ u.pending = vc.pending - 1
    BY <2>9, SMTT(30) DEF ClientTyped, ClientFields
  <2> HIDE DEF u
  <2>11. Follows /\ vc'.pending = vc.pending - 1
    <3>1. CASE v.pending = 0
      BY <3>1, <2>1, <2>9, <2>10, <1>3, DeltaFollows, ZenonT(40)
    <3>2. CASE v.pending # 0
      BY <3>2, <2>1, <2>9, ZenonT(40) DEF Follows
    <3> QED BY <3>1, <3>2, SMTT(30)
  <2>12. RefreshInv'
    BY <2>5, <2>6, <2>8, <2>11, <1>1, <1>3, ZenonT(40) DEF RefreshInv, Follows
  <2> QED BY <2>2, <2>3, <2>11, <2>12, <1>1, FollowsKeeps, SMTT(30)
<1> QED BY <1>2, <1>3

\* The invariant holds at the start.
LEMMA SessionInvInit == ASSUME RoutesInit PROVE SessionInv
<1>1. PICK m \in Modes, p \in Platforms :
         env = [mode |-> m, platform |-> p, gws |-> Gateways,
                default |-> CHOOSE g \in Gateways : TRUE,
                events |-> 0, died |-> FALSE, moved |-> FALSE]
  BY ZenonT(40) DEF RoutesInit
<1>2. /\ vc = NewClient /\ calls = <<>> /\ lookups = {} /\ first = {}
      /\ known = [d \in Domains |-> None]
      /\ rt = Idle /\ link = [alive |-> TRUE, orphan |-> FALSE] /\ late = FALSE
  BY ZenonT(40) DEF RoutesInit
<1>3. (CHOOSE g \in Gateways : TRUE) \in Gateways
  BY GatewaysAssumption
<1>4. ClientTyped(vc) /\ ServiceTyped(rt)
  BY <1>2, Zenon DEF ClientTyped, ClientFields, NewClient, ServiceTyped, ServiceFields, Idle
<1>5. Typed
  BY <1>1, <1>2, <1>3, <1>4, ZenonT(40) DEF Typed, EnvFields
<1>6. Ops = {}
  BY <1>2 DEF Ops, OpsOf
<1>7. StateInv
  BY <1>1, <1>2, <1>6, Zenon DEF StateInv, NewClient
<1>8. RefreshInv
  <2>1. Counting(lookups, vc.gen) = {}
    BY <1>2, ZenonT(40) DEF Counting
  <2> QED BY <2>1, <1>2, FS_EmptySet, ZenonT(40) DEF RefreshInv, NewClient
<1>9. SitesInv /\ TableInv /\ RowInv /\ OrphanRoutesReleased
  BY <1>2, ZenonT(40) DEF SitesInv, TableInv, RowInv, NewClient, OrphanRoutesReleased
<1>10. TableSound(rt, env.platform) /\ CleanInv
  BY <1>2, ZenonT(40) DEF TableSound, CleanInv, NewClient, Idle, Released
<1>11. CleanupInv
  BY CleanupInvInit
<1> QED BY <1>5, <1>7, <1>8, <1>9, <1>10, <1>11, SMTT(30) DEF SessionInv, Rest

\* Every step keeps the invariant.
LEMMA SessionInvStep == ASSUME SessionInv, [RoutesNext]_routesVars PROVE SessionInv'
<1>1. CleanupInv'
  BY CleanupInvStep, SMTT(30) DEF SessionInv
<1>2. Rest'
  <2>1. CASE UNCHANGED routesVars
    BY <2>1, Stutters, SMTT(30)
  <2>2. CASE ConnectVpn \/ DisconnectVpn \/ ReconnectVpn \/ Tun2SocksLost
    BY <2>2, ConnectKeeps, DisconnectKeeps, ReconnectKeeps, LostKeeps, SMTT(30)
  <2>3. CASE \E op \in StopOps : Stopped(op)
    BY <2>3, StoppedKeeps, SMTT(30)
  <2>4. CASE TunnelStarted \/ Tun2SocksReady \/ SetupDone \/ ConnectedDone \/ SitesShot
    BY <2>4, StartedKeeps, ReadyKeeps, SetupKeeps, ConnectedKeeps, ShotKeeps, SMTT(30)
  <2>5. CASE \E l \in lookups, ip \in Addrs \cup {None} : RouteLookupDone(l, ip) \/ RefreshResolved(l, ip)
    BY <2>5, LookupKeeps, ResolvedKeeps, SMTT(30)
  <2>6. CASE \E g \in first : FirstRefresh(g)
    BY <2>6, FirstKeeps, SMTT(30)
  <2>7. CASE RefreshTick \/ CleanupStart \/ CleanupDone
    BY <2>7, TickKeeps, CleanupStartKeeps, CleanupDoneKeeps, SMTT(30)
  <2>8. CASE NetworkMoves \/ ClientDies \/ ClientStarts \/ OrphanTimer
    BY <2>8, NetworkKeeps, DeathKeeps, StartKeeps, OrphanKeeps
  <2> QED BY <2>1, <2>2, <2>3, <2>4, <2>5, <2>6, <2>7, <2>8, SMTT(30) DEF RoutesNext
<1> QED BY <1>1, <1>2, SMTT(30) DEF SessionInv

\* The invariant implies RoutesAreKnown,
LEMMA SessionInvKnows == ASSUME SessionInv PROVE RoutesAreKnown
<1>1. NothingForgotten
  BY Parts, SMTT(30) DEF TableSound, NothingForgotten
<1>2. RefreshNeverStuck
  BY Parts, SMTT(30) DEF RefreshInv, RefreshNeverStuck, Counting
<1>3. InstalledAreInTable
  BY Parts, SMTT(30) DEF TableInv, InstalledAreInTable, Quiet, Ops, OpsOf
<1>4. WcmResumed
  BY Parts, SMTT(30) DEF TableSound, WcmResumed
<1> QED BY <1>1, <1>2, <1>3, <1>4, SMTT(30) DEF RoutesAreKnown

\* and SessionLeavesNothing.
LEMMA SessionInvLeaves == ASSUME SessionInv PROVE SessionLeavesNothing
<1>1. Quiet => "cleanup" \notin Ops
  BY SMTT(30) DEF Quiet, Ops, OpsOf
<1>2. DisconnectedIsClean
  BY <1>1, Parts, ZenonT(40) DEF DisconnectedIsClean, CleanInv, Quiet
<1> QED BY <1>2, Parts, SMTT(30) DEF SessionLeavesNothing

\* RoutesAreKnown for any sites, addresses, gateways, limit of suspendWcmSvc and
\* number of events: the service remembers every route it has to remove, the
\* count of pending look-ups is exact (refreshSitesRoutes, applySplitRefreshDelta),
\* the routes the client believes installed are in the table, and wcmSvc is resumed.
THEOREM RoutesKnown == RoutesSpec => []RoutesAreKnown
<1>1. RoutesInit => SessionInv
  BY SessionInvInit, SMTT(30)
<1>2. SessionInv /\ [RoutesNext]_routesVars => SessionInv'
  BY SessionInvStep
<1>3. SessionInv => RoutesAreKnown
  BY SessionInvKnows, SMTT(30)
<1> QED BY <1>1, <1>2, <1>3, PTL DEF RoutesSpec

\* SessionLeavesNothing for any of them: after a disconnect, or a second after the
\* client died, no device, firewall, resolver, process or route of the session is
\* left (XrayProtocol::stop, clearSavedRoutes, releaseOrphanSession).
THEOREM NothingLeft == RoutesSpec => []SessionLeavesNothing
<1>1. RoutesInit => SessionInv
  BY SessionInvInit
<1>2. SessionInv /\ [RoutesNext]_routesVars => SessionInv'
  BY SessionInvStep
<1>3. SessionInv => SessionLeavesNothing
  BY SessionInvLeaves
<1> QED BY <1>1, <1>2, <1>3, PTL DEF RoutesSpec
=============================================================================

------------------------------- MODULE Daemon -------------------------------
(***************************************************************************)
(* The WireGuard daemon inside the service: Daemon (client/daemon) with    *)
(* WireguardUtilsLinux and LinuxRouteMonitor, for single-hop connections.  *)
(*                                                                         *)
(* The service has one thread, but two of its functions, uapiCommand() and *)
(* waitForTunnelName(), run the event loop while they wait for the         *)
(* wireguard-go process.  A request of another socket, a closing socket or *)
(* a timer then starts another handler on top of the waiting one, and the  *)
(* waiting one goes on only when that handler is through.  "stack" is this *)
(* call stack, with one frame per source of events; a frame either waits   *)
(* (its handler is inside such a loop) or runs.                            *)
(***************************************************************************)
EXTENDS Integers, Sequences, FiniteSets

CONSTANTS
    Clients,    \* the sockets of the clients
    Keys,       \* public keys of servers
    Addrs,      \* addresses that may be routed around the tunnel
    Prefixes,   \* address ranges that may be routed into the tunnel
    Default,    \* ... the one that stands for 0.0.0.0/0
    Local,      \* ... the ones excludeLocalNetworks() claims
    BadAddrs,   \* addresses the route monitor cannot parse
    Configs,    \* the configurations the clients send
    MaxRef,     \* bound on the reference counts of exclusion routes
    None

(* id stands for the private key, the device addresses and the gateways    *)
(* that supportServerSwitching() compares.  The client always puts the     *)
(* server among the excluded addresses.                                    *)
ASSUME ConfigsAssumption ==
    /\ \A c \in Configs :
          /\ c.key \in Keys /\ c.server \in Addrs /\ c.excluded \subseteq Addrs
          /\ c.server \in c.excluded
          /\ c.ranges \subseteq Prefixes /\ c.ranges # {} /\ c.killSwitch \in BOOLEAN
    /\ None \notin Configs
    /\ Default \in Prefixes /\ Local \subseteq Prefixes \ {Default} /\ BadAddrs \subseteq Addrs
    /\ MaxRef \in Nat \ {0}

VARIABLES
    conn,           \* m_connections: the configuration, or None
    dated,          \* whether its m_date is valid: the handshake was seen
    excl,           \* m_excludedAddrSet
    deactivating,   \* m_deactivating
    timer,          \* m_handshakeTimer is active
    rtm,            \* m_rtmonitor is not null
    stack, frames,  \* the handlers on the call stack, the newest first
    tun,            \* the wireguard-go process: "off", "starting", "up"
    ifid,           \* the identity its interface is configured with
    peers,          \* its peers: "absent", "fresh" or "shook" hands
    rts,            \* kernel routes into the tunnel
    exr,            \* kernel routes around the tunnel
    dns,            \* the resolvers of the tunnel are set
    fw,             \* the kill switch is armed
    open,           \* the sockets that are connected
    waiting,        \* history: clients whose activation is not answered yet
    asserted        \* history: a Q_ASSERT of a debug build has fired

daemonVars == <<conn, dated, excl, deactivating, timer, rtm>>
tunnelVars == <<tun, ifid, peers, rts>>
vars == <<daemonVars, stack, frames, tunnelVars, exr, dns, fw, open, waiting, asserted>>
-----------------------------------------------------------------------------
Timer == "timer"
Closing == "closing"
Sources == Clients \cup {Timer, Closing}

(* A frame: where its handler is, the configuration it activates, the one  *)
(* it replaces, whether the pending command was executed, what the pending *)
(* poll will report.                                                       *)
Command(pc, cfg, last, applied) == [pc |-> pc, cfg |-> cfg, last |-> last, applied |-> applied, seen |-> {}]
Poll(seen) == [pc |-> "poll", cfg |-> None, last |-> None, applied |-> FALSE, seen |-> seen]
Frame(pc, cfg) == Command(pc, cfg, None, FALSE)
NoFrame == Frame("idle", None)
Waits == {"name", "iface", "peer", "speer", "sdel", "del", "poll", "status"}

(* The event loop dispatches: nothing is running, or the running handler   *)
(* waits.  A source that is on the stack is not dispatched again.          *)
Dispatch(s) == frames[s].pc = "idle" /\ (stack # <<>> => frames[Head(stack)].pc \in Waits)
At(s, pc) == stack # <<>> /\ Head(stack) = s /\ frames[s].pc = pc

Push(s, f) == stack' = <<s>> \o stack /\ frames' = [frames EXCEPT ![s] = f]
Goto(s, f) == frames' = [frames EXCEPT ![s] = f] /\ UNCHANGED stack
Return(s) == frames' = [frames EXCEPT ![s] = NoFrame] /\ stack' = Tail(stack)
(* activate() returns false and the connection tells its client.           *)
Fail(s) == Return(s) /\ waiting' = waiting \ {s}

(* uapiCommand(): a socket that refuses fails at once, otherwise the       *)
(* handler waits.  The process may execute the command or not, and a       *)
(* command it executed may still time out.                                 *)
Reachable == tun = "up"

(* interfaceExists() *)
InterfaceExists == tun # "off"

NoPeers == [k \in Keys |-> "absent"]
SetPeer(k) == [peers EXCEPT ![k] = IF @ = "absent" THEN "fresh" ELSE @]
RemovePeer(k) == [peers EXCEPT ![k] = "absent"]

(* Mutant: the references are not counted.                                 *)
MutAddExclusions(cfg) == excl' = excl

(* addExclusionRoute() of every excluded address: one more reference where *)
(* there is one, otherwise a route, if there is a monitor that takes it.   *)
NewExclusions(cfg) == {a \in cfg.excluded \ BadAddrs : excl[a] = 0 /\ rtm}
AddExclusions(cfg) ==
    excl' = [a \in Addrs |-> IF a \in NewExclusions(cfg) THEN 1
                             ELSE IF a \in cfg.excluded /\ excl[a] > 0 THEN excl[a] + 1 ELSE excl[a]]

(* Mutants: the route goes with the first reference; the count is lowered  *)
(* without a look at it.                                                   *)
MutLastExclusions(cfg) == cfg.excluded
(* delExclusionRoute() of every excluded address; without a reference the  *)
(* assertion fires, and a release build deletes the route.                 *)
LastExclusions(cfg) == {a \in cfg.excluded : excl[a] <= 1}
DelExclusions(cfg) ==
    /\ excl' = [a \in Addrs |-> IF a \in cfg.excluded THEN IF excl[a] > 1 THEN excl[a] - 1 ELSE 0 ELSE excl[a]]
    /\ asserted' = (asserted \/ \E a \in cfg.excluded : excl[a] = 0)

(* The route of the server that updatePeer() adds and deletePeer() drops.  *)
ServerRoute(cfg) == IF rtm THEN {cfg.server} \ BadAddrs ELSE {}

(* deleteRoutePrefix() deletes the default prefix and inserts any other.   *)
DeleteRoutePrefixes(r, ps) == IF rtm /\ InterfaceExists THEN (r \ (ps \cap {Default})) \cup (ps \ {Default}) ELSE r

SupportServerSwitching(cfg) == conn # None /\ conn.id = cfg.id
-----------------------------------------------------------------------------
Init ==
    /\ conn = None /\ dated = FALSE /\ excl = [a \in Addrs |-> 0] /\ deactivating = FALSE /\ timer = FALSE /\ rtm = FALSE
    /\ stack = <<>> /\ frames = [s \in Sources |-> NoFrame]
    /\ tun = "off" /\ ifid = None /\ peers = NoPeers /\ rts = {}
    /\ exr = {} /\ dns = FALSE /\ fw = FALSE /\ open = {} /\ waiting = {} /\ asserted = FALSE

(* The counts stay within MaxRef: the ones of now and one for every        *)
(* activation on the stack.                                                *)
Activations == {s \in Sources : frames[s].cfg # None}
WithinMaxRef == \A a \in Addrs : excl[a] + Cardinality(Activations) < MaxRef

(* A client's "activate" arrives.                                          *)
Activate(c, cfg) ==
    /\ c \in open /\ Dispatch(c) /\ WithinMaxRef
    /\ Push(c, Frame("activate", cfg))
    /\ waiting' = waiting \cup {c}
    /\ UNCHANGED <<daemonVars, tunnelVars, exr, dns, fw, open, asserted>>

(* Connected, and the server can be switched: switchServer() until its     *)
(* updatePeer() waits.                                                     *)
SwitchServer(s) ==
    LET cfg == frames[s].cfg
    IN  /\ At(s, "activate") /\ SupportServerSwitching(cfg)
        /\ AddExclusions(cfg)
        /\ exr' = exr \cup NewExclusions(cfg) \cup ServerRoute(cfg)
        /\ \/ /\ Reachable
              /\ \E applied \in BOOLEAN :
                    /\ Goto(s, Command("speer", cfg, conn, applied))
                    /\ peers' = IF applied THEN SetPeer(cfg.key) ELSE peers
              /\ UNCHANGED waiting
           \/ ~Reachable /\ Fail(s) /\ UNCHANGED peers
        /\ UNCHANGED <<conn, dated, deactivating, timer, rtm, tun, ifid, rts, dns, fw, open, asserted>>

(* ... the answer: the routes, the old exclusions, the old peer.           *)
SwitchPeerAdded(s) ==
    LET cfg == frames[s].cfg
        last == frames[s].last
        routed == IF rtm /\ InterfaceExists THEN rts \cup cfg.ranges ELSE rts
    IN  /\ At(s, "speer")
        /\ \/ /\ frames[s].applied
              /\ DelExclusions(last)
              /\ rts' = DeleteRoutePrefixes(routed, last.ranges \ cfg.ranges)
              /\ IF cfg.key = last.key
                 THEN /\ Goto(s, Frame("sfinish", cfg))
                      /\ exr' = IF rtm THEN exr \ LastExclusions(last) ELSE exr
                      /\ UNCHANGED <<peers, waiting>>
                 ELSE /\ exr' = IF rtm THEN exr \ (LastExclusions(last) \cup ServerRoute(last)) ELSE exr
                      /\ \/ /\ Reachable
                            /\ \E applied \in BOOLEAN :
                                  /\ Goto(s, Command("sdel", cfg, None, applied))
                                  /\ peers' = IF applied THEN RemovePeer(last.key) ELSE peers
                            /\ UNCHANGED waiting
                         \/ ~Reachable /\ Fail(s) /\ UNCHANGED peers
           \/ Fail(s) /\ UNCHANGED <<excl, asserted, rts, exr, peers>>
        /\ UNCHANGED <<conn, dated, deactivating, timer, rtm, tun, ifid, dns, fw, open>>

SwitchPeerRemoved(s) ==
    /\ At(s, "sdel")
    /\ \/ frames[s].applied /\ Goto(s, Frame("sfinish", frames[s].cfg)) /\ UNCHANGED waiting
       \/ Fail(s)
    /\ UNCHANGED <<daemonVars, tunnelVars, exr, dns, fw, open, asserted>>

(* The end of switchServer() and of activate() around it.                  *)
FinishSwitch(s) ==
    /\ At(s, "sfinish")
    /\ conn' = frames[s].cfg /\ dated' = FALSE
    /\ dns' = InterfaceExists
    /\ IF InterfaceExists THEN timer' = TRUE /\ Return(s) /\ UNCHANGED waiting ELSE Fail(s) /\ UNCHANGED timer
    /\ UNCHANGED <<excl, deactivating, rtm, tunnelVars, exr, fw, open, asserted>>

(* Mutant: activate() calls itself whatever deactivate() did.              *)
MutReplaceConnection(s) ==
    /\ At(s, "activate") /\ conn # None /\ ~SupportServerSwitching(frames[s].cfg)
    /\ Goto(s, Frame(IF deactivating THEN "activate" ELSE "deactivate", frames[s].cfg))
    /\ UNCHANGED <<daemonVars, tunnelVars, exr, dns, fw, open, waiting, asserted>>

(* Connected, and the server cannot be switched: deactivate first, unless  *)
(* a deactivation is under way.                                            *)
ReplaceConnection(s) ==
    /\ At(s, "activate") /\ conn # None /\ ~SupportServerSwitching(frames[s].cfg)
    /\ IF deactivating THEN Fail(s) ELSE Goto(s, Frame("deactivate", frames[s].cfg)) /\ UNCHANGED waiting
    /\ UNCHANGED <<daemonVars, tunnelVars, exr, dns, fw, open, asserted>>

(* addInterface() starts the process and waits for its socket.             *)
StartTunnel(s) ==
    /\ At(s, "activate") /\ conn = None /\ ~InterfaceExists
    /\ \/ tun' = "starting" /\ Goto(s, Frame("name", frames[s].cfg)) /\ UNCHANGED waiting
       \/ Fail(s) /\ UNCHANGED tun
    /\ UNCHANGED <<daemonVars, ifid, peers, rts, exr, dns, fw, open, asserted>>

ReuseInterface(s) ==
    /\ At(s, "activate") /\ conn = None /\ InterfaceExists
    /\ Goto(s, Frame("config", frames[s].cfg))
    /\ UNCHANGED <<daemonVars, tunnelVars, exr, dns, fw, open, waiting, asserted>>

(* waitForTunnelName() returns: the route monitor, the private key.        *)
TunnelNamed(s) ==
    /\ At(s, "name")
    /\ \/ /\ Reachable
          /\ rtm' = TRUE
          /\ \E applied \in BOOLEAN :
                /\ Goto(s, Command("iface", frames[s].cfg, None, applied))
                /\ ifid' = IF applied THEN frames[s].cfg.id ELSE ifid
                /\ peers' = IF applied THEN NoPeers ELSE peers
          /\ UNCHANGED <<tun, rts, waiting>>
       \/ /\ Fail(s)
          /\ tun' = "off" /\ ifid' = None /\ peers' = NoPeers /\ rts' = {}
          /\ UNCHANGED rtm
    /\ UNCHANGED <<conn, dated, excl, deactivating, timer, exr, dns, fw, open, asserted>>

(* The answer to the private key: the kill switch.                         *)
InterfaceSet(s) ==
    /\ At(s, "iface")
    /\ \/ /\ frames[s].applied
          /\ Goto(s, Frame("config", frames[s].cfg))
          /\ fw' = (fw \/ frames[s].cfg.killSwitch)
          /\ UNCHANGED waiting
       \/ Fail(s) /\ UNCHANGED fw
    /\ UNCHANGED <<daemonVars, tunnelVars, exr, dns, open, asserted>>

(* activate() from addInterfaceIPs() to updatePeer().                      *)
ConfigureInterface(s) ==
    LET cfg == frames[s].cfg
    IN  /\ At(s, "config")
        /\ \/ /\ InterfaceExists
              /\ AddExclusions(cfg)
              /\ exr' = exr \cup NewExclusions(cfg) \cup ServerRoute(cfg)
              /\ rts' = IF rtm THEN rts \cup Local ELSE rts
              /\ \/ /\ Reachable
                    /\ \E applied \in BOOLEAN :
                          /\ Goto(s, Command("peer", cfg, None, applied))
                          /\ peers' = IF applied THEN SetPeer(cfg.key) ELSE peers
                    /\ UNCHANGED waiting
                 \/ ~Reachable /\ Fail(s) /\ UNCHANGED peers
           \/ Fail(s) /\ UNCHANGED <<excl, exr, rts, peers>>
        /\ UNCHANGED <<conn, dated, deactivating, timer, rtm, tun, ifid, dns, fw, open, asserted>>

(* The answer to updatePeer(): the resolvers, the routes, the connection.  *)
PeerAdded(s) ==
    LET cfg == frames[s].cfg
    IN  /\ At(s, "peer")
        /\ \/ /\ frames[s].applied /\ InterfaceExists
              /\ dns' = TRUE
              /\ IF rtm THEN /\ rts' = rts \cup cfg.ranges
                             /\ conn' = cfg /\ dated' = FALSE /\ timer' = TRUE
                             /\ Return(s) /\ UNCHANGED waiting
                        ELSE Fail(s) /\ UNCHANGED <<rts, conn, dated, timer>>
           \/ Fail(s) /\ UNCHANGED <<dns, rts, conn, dated, timer>>
        /\ UNCHANGED <<excl, deactivating, rtm, tun, ifid, peers, exr, fw, open, asserted>>
-----------------------------------------------------------------------------
(* Mutant: deactivate() does not look at m_deactivating.                   *)
MutDeactivate(c) ==
    /\ c \in open /\ Dispatch(c)
    /\ Push(c, Frame("deactivate", None))
    /\ UNCHANGED <<daemonVars, tunnelVars, exr, dns, fw, open, waiting, asserted>>

(* A client's "deactivate" arrives; it is dropped while one is under way.  *)
Deactivate(c) ==
    /\ c \in open /\ Dispatch(c) /\ ~deactivating
    /\ Push(c, Frame("deactivate", None))
    /\ UNCHANGED <<daemonVars, tunnelVars, exr, dns, fw, open, waiting, asserted>>

(* deactivate() until deletePeer() waits.  Only a client's own request     *)
(* emits disconnected.                                                     *)
BeginDeactivate(s) ==
    /\ At(s, "deactivate")
    /\ deactivating' = TRUE /\ timer' = FALSE /\ dns' = FALSE
    /\ waiting' = IF s \in Clients /\ frames[s].cfg = None THEN {} ELSE waiting
    /\ IF conn = None
       THEN Goto(s, Frame("teardown", frames[s].cfg)) /\ UNCHANGED <<rts, exr, peers>>
       ELSE /\ rts' = DeleteRoutePrefixes(rts, conn.ranges)
            /\ exr' = exr \ ServerRoute(conn)
            /\ \/ /\ Reachable
                  /\ Goto(s, Frame("del", frames[s].cfg))
                  /\ \E applied \in BOOLEAN : peers' = IF applied THEN RemovePeer(conn.key) ELSE peers
               \/ ~Reachable /\ Goto(s, Frame("teardown", frames[s].cfg)) /\ UNCHANGED peers
    /\ UNCHANGED <<conn, dated, excl, rtm, tun, ifid, fw, open, asserted>>

PeerRemoved(s) ==
    /\ At(s, "del")
    /\ Goto(s, Frame("teardown", frames[s].cfg))
    /\ UNCHANGED <<daemonVars, tunnelVars, exr, dns, fw, open, waiting, asserted>>

(* The rest of deactivate() with deleteInterface(), which disables the     *)
(* kill switch only when there is a process to stop; activate() goes on    *)
(* if the interface was removed.                                           *)
Teardown(s) ==
    /\ At(s, "teardown")
    /\ excl' = [a \in Addrs |-> 0]
    /\ exr' = IF rtm THEN exr \ {a \in Addrs : excl[a] > 0} ELSE exr
    /\ conn' = None /\ dated' = FALSE /\ rtm' = FALSE /\ deactivating' = FALSE
    /\ tun' = "off" /\ ifid' = None /\ peers' = NoPeers /\ rts' = {}
    /\ fw' = IF InterfaceExists THEN FALSE ELSE fw
    /\ IF frames[s].cfg = None THEN Return(s) /\ UNCHANGED waiting
       ELSE IF InterfaceExists THEN Goto(s, Frame("activate", frames[s].cfg)) /\ UNCHANGED waiting
       ELSE Fail(s)
    /\ UNCHANGED <<timer, dns, open, asserted>>

(* checkHandshake() asks for the peers and waits.                          *)
CheckHandshake ==
    /\ timer /\ Dispatch(Timer)
    /\ \/ /\ Reachable
          /\ timer' = FALSE
          /\ Push(Timer, Poll({k \in Keys : peers[k] = "shook"}))
       \/ ~Reachable /\ timer' = (conn # None /\ ~dated) /\ UNCHANGED <<stack, frames>>
    /\ UNCHANGED <<conn, dated, excl, deactivating, rtm, tunnelVars, exr, dns, fw, open, waiting, asserted>>

(* Mutant: the timer is not started again after a poll without a handshake. *)
MutHandshakeChecked ==
    /\ At(Timer, "poll")
    /\ \E seen \in {frames[Timer].seen, {}} :
          IF conn # None /\ ~dated /\ conn.key \in seen THEN dated' = TRUE /\ waiting' = {} ELSE UNCHANGED <<dated, waiting>>
    /\ Return(Timer)
    /\ UNCHANGED <<conn, excl, deactivating, timer, rtm, tunnelVars, exr, dns, fw, open, asserted>>

(* ... and compares the answer, or none, with the connection of now.       *)
HandshakeChecked ==
    /\ At(Timer, "poll")
    /\ \E seen \in {frames[Timer].seen, {}} :
          IF conn = None \/ dated THEN UNCHANGED <<dated, timer, waiting>>
          ELSE IF conn.key \in seen THEN dated' = TRUE /\ waiting' = {} /\ UNCHANGED timer
          ELSE timer' = TRUE /\ UNCHANGED <<dated, waiting>>
    /\ Return(Timer)
    /\ UNCHANGED <<conn, excl, deactivating, rtm, tunnelVars, exr, dns, fw, open, asserted>>

(* getStatus() waits for the peers; without a connection it answers.       *)
GetStatus(c) ==
    /\ c \in open /\ Dispatch(c) /\ conn # None /\ Reachable
    /\ Push(c, Frame("status", None))
    /\ UNCHANGED <<daemonVars, tunnelVars, exr, dns, fw, open, waiting, asserted>>

StatusAnswered(c) ==
    /\ At(c, "status")
    /\ Return(c)
    /\ UNCHANGED <<daemonVars, tunnelVars, exr, dns, fw, open, waiting, asserted>>

OpenSocket(c) ==
    /\ c \notin open /\ frames[c].pc = "idle"
    /\ open' = open \cup {c}
    /\ UNCHANGED <<daemonVars, stack, frames, tunnelVars, exr, dns, fw, waiting, asserted>>

(* A socket closes; the last one takes the session down.                   *)
CloseSocket(c) ==
    /\ c \in open /\ Dispatch(Closing)
    /\ open' = open \ {c} /\ waiting' = waiting \ {c}
    /\ IF open' = {} /\ ~deactivating THEN Push(Closing, Frame("deactivate", None)) ELSE UNCHANGED <<stack, frames>>
    /\ UNCHANGED <<daemonVars, tunnelVars, exr, dns, fw, asserted>>

(* One second after the last client left, LocalServer releases what it     *)
(* left behind.                                                            *)
ReleaseOrphanSession ==
    /\ open = {} /\ Dispatch(Closing)
    /\ fw' = FALSE /\ dns' = FALSE
    /\ IF ~deactivating THEN Push(Closing, Frame("deactivate", None)) ELSE UNCHANGED <<stack, frames>>
    /\ UNCHANGED <<daemonVars, tunnelVars, exr, open, waiting, asserted>>
-----------------------------------------------------------------------------
(* The wireguard-go process: it opens its socket, shakes hands, dies.      *)
TunnelReady ==
    /\ tun = "starting" /\ tun' = "up"
    /\ UNCHANGED <<daemonVars, stack, frames, ifid, peers, rts, exr, dns, fw, open, waiting, asserted>>

Handshake(k) ==
    /\ tun = "up" /\ peers[k] = "fresh"
    /\ peers' = [peers EXCEPT ![k] = "shook"]
    /\ UNCHANGED <<daemonVars, stack, frames, tun, ifid, rts, exr, dns, fw, open, waiting, asserted>>

TunnelDies ==
    /\ InterfaceExists
    /\ tun' = "off" /\ ifid' = None /\ peers' = NoPeers /\ rts' = {}
    /\ UNCHANGED <<daemonVars, stack, frames, exr, dns, fw, open, waiting, asserted>>

Segment(s) ==
    \/ SwitchServer(s) \/ SwitchPeerAdded(s) \/ SwitchPeerRemoved(s) \/ FinishSwitch(s)
    \/ ReplaceConnection(s) \/ StartTunnel(s) \/ ReuseInterface(s) \/ TunnelNamed(s) \/ InterfaceSet(s)
    \/ ConfigureInterface(s) \/ PeerAdded(s) \/ BeginDeactivate(s) \/ PeerRemoved(s) \/ Teardown(s)

Next ==
    \/ \E c \in Clients : \/ \E cfg \in Configs : Activate(c, cfg)
                          \/ Deactivate(c) \/ GetStatus(c) \/ StatusAnswered(c) \/ OpenSocket(c) \/ CloseSocket(c)
    \/ \E s \in Sources : Segment(s)
    \/ CheckHandshake \/ HandshakeChecked \/ ReleaseOrphanSession
    \/ TunnelReady \/ TunnelDies \/ \E k \in Keys : Handshake(k)

(* The process answers or the wait times out, and a loop that may end does *)
(* so when the handlers above it have returned, however often new ones are *)
(* started meanwhile; the same for the timer.  Not every poll fails.       *)
PollSucceeds ==
    /\ At(Timer, "poll") /\ HandshakeChecked
    /\ conn # None /\ conn.key \in frames[Timer].seen => dated'
Fairness ==
    /\ \A s \in Sources : SF_vars(Segment(s))
    /\ \A c \in Clients : SF_vars(StatusAnswered(c))
    /\ SF_vars(CheckHandshake) /\ SF_vars(PollSucceeds)

Spec == Init /\ [][Next]_vars
FairSpec == Spec /\ Fairness
-----------------------------------------------------------------------------
(* m_deactivating is set exactly while one handler is inside deactivate(): *)
(* however deactivate, activate, closing sockets and timers nest, the flag *)
(* is never left behind (which would disable every later deactivation) and *)
(* two deactivations never run at once.                                    *)
Deactivators == {s \in Sources : frames[s].pc \in {"del", "teardown"}}
OneDeactivation ==
    /\ deactivating <=> Deactivators # {}
    /\ \A s, t \in Deactivators : s = t

(* Without the route monitor, which alone can remove them, there are no    *)
(* routes around the tunnel: deactivate() drops all of them before         *)
(* deleteInterface() deletes the monitor, whatever nested switches,        *)
(* activations and failures counted or dropped before.                     *)
NoRouteLeak == ~rtm => exr = {}

Settled == stack = <<>> /\ tun = "up"
(* An excluded address that is no server's and has a reference in          *)
(* m_excludedAddrSet has its kernel route, whatever switches, failures and *)
(* deactivations came before or are under way.  (A server's route is also handled, without  *)
(* a count, by updatePeer() and deletePeer(), and may be lost.)            *)
Servers == {c.server : c \in Configs}
ExclusionsHaveRoutes == \A a \in Addrs \ Servers : excl[a] > 0 => a \in exr

(* Only the routes of the connection, and the local ones, lead into the    *)
(* tunnel: switchServer() removes the entries of the old peer.             *)
OldRoutesRemoved == (Settled /\ conn # None) => rts \subseteq conn.ranges \cup Local

(* A client that sent "activate" is told the outcome, unless the handshake *)
(* it waits for is still due: activate() ends in `connected` or in         *)
(* `activationFailure`.                                                    *)
Answered == (stack = <<>> /\ waiting # {}) => conn # None /\ ~dated

(* Every handler returns: none waits forever below others, and activate()  *)
(* does not call itself forever while a deactivation is under way.         *)
HandlersReturn == \A s \in Sources : frames[s].pc # "idle" ~> frames[s].pc = "idle"

(* A handshake that took place is noticed while its connection and its     *)
(* tunnel live: the poll timer is never lost.                              *)
HandshakeNoticed ==
    \A c \in Configs :
        (conn = c /\ peers[c.key] = "shook") ~> (dated \/ conn # c \/ peers[c.key] # "shook")
=============================================================================

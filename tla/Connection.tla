----------------------------- MODULE Connection -----------------------------
(***************************************************************************)
(* The ConnectionController of the main thread and the VpnConnection of    *)
(* the VPN thread together.  The controller's calls and the thread's       *)
(* signals are queued connections: each side acts on what the other did    *)
(* some time ago.                                                          *)
(***************************************************************************)
EXTENDS ConnectionController

CONSTANTS
    Usable,         \* the rows with a container that VpnProtocol::factory() knows
    MaxDepth,       \* bound on the handlers that wait in each other in the VPN thread
    MaxSignals,     \* bound on the signals that the main thread has not handled
    MaxCalls,       \* bound on the calls that the VPN thread has not begun
    MaxRequests     \* bound on what the user and the network ask for

VARIABLES
    commands,       \* calls queued for the VPN thread
    states,         \* signals queued for the main thread
    vpn,            \* the VPN thread
    asked           \* the number of requests so far

V == INSTANCE VpnConnection WITH defaultRow <- ctl.defaultRow

vars == <<ctl, commands, states, vpn, asked>>

\* The main thread handles an event: its calls join the queue.
Main(outcomes) ==
    /\ ~vpn.crashed
    /\ \E c \in outcomes :
          /\ Len(commands \o c.calls) <= MaxCalls
          /\ ctl' = [c EXCEPT !.calls = <<>>]
          /\ commands' = commands \o c.calls
    /\ UNCHANGED vpn

Request ==
    /\ asked < MaxRequests
    /\ asked' = asked + 1

UserRequest ==
    /\ Request
    /\ UNCHANGED states
    /\ \/ Main(ToggleConnection(ctl))
       \/ Main(ChooseServer(ctl))
       \/ Main(ChooseAuto(ctl))
       \/ Main(TrayConnect(ctl))
       \/ Main(TrayDisconnect(ctl))
       \/ Main(TranslationsUpdated(ctl))

MainEvent ==
    /\ UNCHANGED <<states, asked>>
    /\ \/ Main(HealthUpdated(ctl))
       \/ Main(ProbingFinished(ctl))
       \/ Main(InstallsDone(ctl))
       \/ Main(ProbeTimeout(ctl))
       \/ Main(AttemptTimeout(ctl))
       \/ Main(IpTrafficTimeout(ctl))
       \/ Main(ManualTimeout(ctl))

\* Only WireGuard reports its counters, and only if something gets through.
ReportBytes ==
    /\ vpn.protocol.run = "flowing" /\ ~V!IsXray(vpn.protocol)
    /\ Main(BytesReceived(ctl))
    /\ UNCHANGED <<states, asked>>

NextState ==
    /\ states # <<>>
    /\ Main({Announce(ctl, Head(states).state)})
    /\ states' = Tail(states)
    /\ UNCHANGED asked

VpnThread ==
    /\ V!RunCommand \/ V!Resume \/ V!TunnelUp \/ V!TunnelLost
    /\ UNCHANGED <<ctl, asked>>

NetworkChanged ==
    /\ Request
    /\ V!Reconnect
    /\ UNCHANGED ctl

ConnectionInit == Init /\ V!Init /\ asked = 0

ConnectionNext ==
    \/ UserRequest \/ MainEvent \/ ReportBytes \/ NextState
    \/ VpnThread \/ NetworkChanged

ConnectionSpec == ConnectionInit /\ [][ConnectionNext]_vars

---------------------------------------------------------------------------

Quiet == commands = <<>> /\ states = <<>> /\ vpn.stack = <<>> /\ ~vpn.crashed

\* When nothing is under way between the threads, onConnectionStateChanged() has
\* left the user with the truth of VpnConnection: the client shows Connected only
\* in that state, and always when a protocol object is in that state.
DisplayAgrees ==
    Quiet => /\ ctl.connected => vpn.state = "Connected"
             /\ vpn.state = "Connected" /\ vpn.protocol # V!NoProtocol => ctl.connected

\* "teardown states of a previous tunnel are neither a failure nor a user
\* cancel": the Disconnected of a tunnel that connectToVpn() has stopped makes
\* the controller neither try another address nor stop the watchdog.
TeardownIsNoFailure ==
    [][NextState /\ Head(states).teardown =>
         commands' = commands /\ ctl'.manualTimer = ctl.manualTimer]_vars

\* "a hard failure or a traffic-less Connected retries the next address": the
\* traffic timer never gives up an address whose tunnel moves traffic.
WorkingTunnelKept ==
    [][Quiet /\ ctl.ipAwaiting /\ Main(IpTrafficTimeout(ctl)) => vpn.protocol.run # "flowing"]_vars

=============================================================================

--------------------------- MODULE VpnConnection ---------------------------
(***************************************************************************)
(* The VPN thread of the desktop client: VpnConnection, which owns the     *)
(* current protocol object (WireguardProtocol or XrayProtocol) and tells   *)
(* the main thread of every change of the connection state.                *)
(*                                                                         *)
(* Two queues of Qt connect it with the main thread: "commands" holds the  *)
(* queued calls of connectToVpn() and disconnectFromVpn(), "states" the    *)
(* connectionStateChanged() signals not yet delivered.                     *)
(*                                                                         *)
(* A call of the service that waits for its answer runs the event loop of  *)
(* the thread meanwhile, so that other handlers run inside the waiting     *)
(* one.  "vpn.stack" holds the waiting handlers, the innermost first, and  *)
(* a handler is cut into one step per stretch between two waits.  Waits    *)
(* with nothing of this model between them (the five calls of              *)
(* XrayProtocol::stop()) are one wait.                                     *)
(***************************************************************************)
EXTENDS Integers, Sequences

CONSTANTS
    WireGuard,  \* the rows with a WireGuard or AmneziaWG container; the others run Xray
    Usable,     \* the rows with a container that VpnProtocol::factory() knows
    MaxDepth,   \* bound on the number of handlers that wait in each other
    MaxSignals  \* bound on the signals that the main thread has not handled

VARIABLES
    commands,   \* calls queued for the VPN thread
    states,     \* signals queued for the main thread
    vpn,        \* the VPN thread: m_connectionState, m_vpnProtocol, the waiting handlers
    defaultRow  \* the default server of the settings, which the main thread writes

---------------------------------------------------------------------------
(* A protocol object is known by a number, as by its address: a new object *)
(* has one that no waiting handler holds.                                  *)
(* "run" is what its tunnel does: nothing, "started" (WireGuard waits for  *)
(* the daemon's answer, Xray for the first line of tun2socks), "up" (but   *)
(* no traffic gets through), "flowing" (traffic gets through) or "ended"   *)
(* (tun2socks has ended and stop() is under way).                          *)

NoProtocol == [id |-> 0, row |-> 0, state |-> "Unknown", run |-> "idle"]

IsXray(protocol) == protocol # NoProtocol /\ protocol.row \notin WireGuard

\* What a waiting handler needs when it goes on: the object it is in, whether
\* that object will say that it is Disconnected, and the row that
\* connectToVpn() is to connect to.
Frame(op, protocol, row) ==
    [op |-> op, id |-> protocol.id, row |-> row,
     tells |-> protocol.state # "Disconnected"]

\* A queued call: the row to connect to, or 0 for disconnectFromVpn()
DisconnectCall == 0

Wait(t, frame) == [t EXCEPT !.stack = <<frame>> \o @]

\* VpnConnection::setConnectionState for the states whose handler does not wait.
SetState(t, state) ==
    IF state = "Disconnected" /\ t.state = "Reconnecting"
    THEN t
    ELSE [t EXCEPT !.state = state,
                   !.out = Append(@, [state |-> state, teardown |-> FALSE])]

\* VpnProtocol::setConnectionState of the current protocol.  Connected makes
\* VpnConnection flush the DNS cache first, and wait for it.
SetProtocolState(t, state) ==
    LET u == [t EXCEPT !.protocol.state = state]
    IN  IF t.protocol.state = state
        THEN t
        ELSE IF state = "Connected"
        THEN Wait(u, Frame("flush", u.protocol, defaultRow))
        ELSE SetState(u, state)

\* start(): WireGuard sends the activation to the daemon, Xray waits for xray
\* and tun2socks.
Start(t) ==
    IF t.protocol = NoProtocol
    THEN [t EXCEPT !.crashed = TRUE]
    ELSE IF IsXray(t.protocol)
    THEN Wait(t, Frame("start", t.protocol, 0))
    ELSE [t EXCEPT !.protocol.run = "started"]

\* The second half of connectToVpn(): the factory's object takes the place of
\* one that a nested connect may have put there, which is destroyed.
Launch(t) == IF t.protocol = NoProtocol THEN SetState(t, "Error") ELSE Start(t)

Create(t, row) ==
    LET old  == t.protocol
        held == {old.id} \cup {t.stack[i].id : i \in DOMAIN t.stack}
        id   == CHOOSE i \in 1 .. MaxDepth + 2 : i \notin held /\ 1 .. i - 1 \subseteq held
        new  == [id |-> id, row |-> row, state |-> "Unknown", run |-> "idle"]
        u    == [t EXCEPT !.protocol = IF row \in Usable THEN new ELSE NoProtocol]
    IN  IF IsXray(old) THEN Wait(u, Frame("destroyStart", old, row)) ELSE Launch(u)

\* What follows stop() in each of its callers.  A destructor stops the object
\* again; only Xray's waits.
AfterStop(t, frame) ==
    LET old == t.protocol
        u   == [t EXCEPT !.protocol = NoProtocol]
    IN  CASE frame.op = "stopConnect" ->
                IF IsXray(old) THEN Wait(u, Frame("destroyCreate", old, frame.row))
                               ELSE Create(u, frame.row)
          [] frame.op = "stopDisconnect" ->
                IF IsXray(old) THEN Wait(u, Frame("destroy", old, 0)) ELSE u
          [] frame.op = "stopReconnect" -> Start(t)
          [] frame.op = "stopError" ->
                IF old.id = frame.id THEN SetProtocolState(t, "Error") ELSE t

\* The end of stop(): the tunnel is gone.  "teardown" marks the signal of a
\* tunnel that connectToVpn() has stopped to make way for the next.
Stopped(t, op) ==
    LET u == SetProtocolState([t EXCEPT !.protocol.run = "idle"], "Disconnected")
    IN  [u EXCEPT !.out = [i \in DOMAIN @ |-> IF op = "stopConnect" /\ i > Len(t.out)
                                              THEN [@[i] EXCEPT !.teardown = TRUE] ELSE @[i]]]

\* stop() of the current protocol, called by the given caller
Stop(t, op, row) ==
    LET frame == Frame(op, t.protocol, row)
    IN  IF IsXray(t.protocol) THEN Wait(t, frame) ELSE AfterStop(Stopped(t, op), frame)

---------------------------------------------------------------------------
(* The handlers up to their first wait.                                    *)

ConnectToVpn(t, row) ==
    LET u == SetState(t, "Connecting")
    IN  IF t.protocol = NoProtocol THEN Create(u, row) ELSE Stop(u, "stopConnect", row)

DisconnectFromVpn(t) ==
    IF t.protocol = NoProtocol
    THEN SetState(t, "Disconnected")
    ELSE Stop(SetState(t, "Disconnecting"), "stopDisconnect", 0)

ReconnectToVpn(t) ==
    IF t.protocol = NoProtocol \/ t.state # "Connected"
    THEN t
    ELSE Stop(SetState(t, "Reconnecting"), "stopReconnect", 0)

---------------------------------------------------------------------------
(* How a waiting handler goes on.  "ok" is the service's answer.  A method *)
(* whose object has been deleted meanwhile either crashes the client or    *)
(* goes on with what is left of the object, whose destructor has stopped   *)
(* it: the set holds both outcomes.                                        *)

Resumed(t, frame, ok) ==
    LET stale == t.protocol.id # frame.id
        crash == IF stale THEN {[t EXCEPT !.crashed = TRUE]} ELSE {}
    IN  CASE frame.op = "flush" ->
                {IF t.protocol = NoProtocol /\ frame.row \notin WireGuard
                 THEN [t EXCEPT !.crashed = TRUE]
                 ELSE SetState(t, "Connected")}
          [] frame.op \in {"stopConnect", "stopDisconnect", "stopReconnect", "stopError"} ->
                crash \cup {AfterStop(IF stale THEN t ELSE Stopped(t, frame.op), frame)}
          [] frame.op = "start" ->
                crash \cup {IF ~ok THEN SetState(t, "Error")
                            ELSE IF stale THEN t ELSE [t EXCEPT !.protocol.run = "started"]}
          [] frame.op = "setup" ->
                crash \cup {IF stale THEN t
                            ELSE IF ok THEN SetProtocolState(t, "Connected")
                            ELSE Stop(t, "stopError", 0)}
          [] frame.op \in {"destroy", "destroyCreate", "destroyStart"} ->
                LET u == IF frame.tells THEN SetState(t, "Disconnected") ELSE t
                IN  {CASE frame.op = "destroy" -> u
                       [] frame.op = "destroyCreate" -> Create(u, frame.row)
                       [] frame.op = "destroyStart" -> Launch(u)}

---------------------------------------------------------------------------
(* The steps of the thread.                                                *)

\* The thread goes on as t, and its signals join the queue.
Becomes(t) ==
    /\ vpn' = [t EXCEPT !.out = <<>>]
    /\ states' = states \o t.out
    /\ Len(states') <= MaxSignals

\* A new handler starts: the thread is in its event loop, at the top or in a wait.
Free == ~vpn.crashed /\ Len(vpn.stack) < MaxDepth

RunCommand ==
    /\ Free
    /\ commands # <<>>
    /\ LET command == Head(commands)
       IN  Becomes(IF command = DisconnectCall THEN DisconnectFromVpn(vpn)
                                          ELSE ConnectToVpn(vpn, command))
    /\ commands' = Tail(commands)

Resume ==
    /\ ~vpn.crashed
    /\ vpn.stack # <<>>
    /\ \E ok \in BOOLEAN : \E t \in Resumed([vpn EXCEPT !.stack = Tail(@)], Head(vpn.stack), ok) :
            Becomes(t)
    /\ UNCHANGED commands

\* The network has changed or the machine has woken up.
Reconnect ==
    /\ Free
    /\ Becomes(ReconnectToVpn(vpn))
    /\ UNCHANGED commands

\* The daemon answers the activation, after a handshake, or tun2socks prints
\* its first line, whether or not the server can be reached.
TunnelUp ==
    /\ Free
    /\ vpn.protocol.run = "started"
    /\ \E run \in IF IsXray(vpn.protocol) THEN {"up", "flowing"} ELSE {"flowing"} :
          LET t == [vpn EXCEPT !.protocol.run = run]
          IN  Becomes(IF IsXray(t.protocol) THEN Wait(t, Frame("setup", t.protocol, 0))
                                            ELSE SetProtocolState(t, "Connected"))
    /\ UNCHANGED commands

\* The daemon's socket closes or the daemon says so, or tun2socks ends.
TunnelLost ==
    /\ Free
    /\ vpn.protocol.run \in {"started", "up", "flowing"}
    /\ Becomes(IF IsXray(vpn.protocol)
               THEN Stop([vpn EXCEPT !.protocol.run = "ended"], "stopError", 0)
               ELSE Stopped(vpn, "lost"))
    /\ UNCHANGED commands

Init ==
    /\ commands = <<>>
    /\ states = <<>>
    /\ vpn \in [state : {"Unknown", "Connected", "Reconnecting"}, protocol : {NoProtocol}, stack : {<<>>},
               out : {<<>>}, crashed : {FALSE}]

Next == RunCommand \/ Resume \/ Reconnect \/ TunnelUp \/ TunnelLost

=============================================================================

----------------------------- MODULE DaemonLink -----------------------------
(***************************************************************************)
(* The link between a WireGuard connection of the client and the daemon of *)
(* the service.  Every connection makes a LocalSocketController with a     *)
(* socket of its own; the daemon makes a DaemonLocalServerConnection for   *)
(* every socket, serves them all with one daemon and tells all of them of  *)
(* its signals.  Nothing orders the messages of two sockets, and either    *)
(* end can go away while messages are under way.  What activate() and      *)
(* deactivate() do inside the daemon is the subject of Daemon: here an     *)
(* activation is in force or not, and has seen its handshake or not.       *)
(***************************************************************************)
EXTENDS Naturals, Sequences

CONSTANTS
    MaxLinks,     \* bound on the connections the client makes
    LinkRetries,  \* MAX_CONNECTION_RETRY
    MaxPipe       \* bound on the messages under way on a socket

ASSUME LinkAssumption == MaxLinks \in Nat \ {0} /\ LinkRetries \in Nat

VARIABLE dl

LinkIds == 1 .. MaxLinks
NoLink == 0

\* A controller before initialize(): m_daemonState, m_initializingRetry,
\* m_initializingTimer and the client's end of the socket.
NewLink == [state |-> "initializing", retry |-> 0, timer |-> FALSE, sock |-> FALSE]

\* cur: the controller of the current protocol object; ends: the sockets that
\* the daemon holds, queued: the ones it is yet to accept; conn, shook: the activation in force and its handshake;
\* lost: history, the activation of cur was written to a socket that was not
\* connected, or went with the service.
LinkInit ==
    dl = [up |-> TRUE, made |-> 0, cur |-> NoLink, link |-> NewLink, ends |-> {}, queued |-> {}, toDaemon |-> [i \in LinkIds |-> <<>>],
          toClient |-> <<>>, shown |-> "Disconnected", conn |-> NoLink, shook |-> FALSE, lost |-> FALSE]

-----------------------------------------------------------------------------
(* LocalSocketController. *)

\* write(): a socket that is not connected, or whose other end is gone, drops
\* the message.
write(s, msg) == IF s.link.sock /\ s.cur \in s.ends \cup s.queued THEN [s EXCEPT !.toDaemon[s.cur] = Append(@, msg)] ELSE s

\* disconnectInternal, and the protocol object's handler of disconnected().
disconnectInternal(s) ==
    [s EXCEPT !.link.state = "ready", !.link.retry = 0, !.link.timer = FALSE, !.shown = "Disconnected"]

errorOccurred(s) ==
    IF s.link.state = "initializing" /\ s.link.retry < LinkRetries
    THEN [s EXCEPT !.link.retry = @ + 1, !.link.timer = TRUE]
    ELSE disconnectInternal(s)

\* checkStatus
checkStatus(s) == IF s.link.state \in {"ready", "initializing"} THEN write(s, "status") ELSE s

\* initializeInternal; connectToServer() succeeds or fails before it returns,
\* and daemonConnected() asks for the status.
initializeInternal(s) ==
    LET t == [s EXCEPT !.link.state = "initializing", !.link.timer = FALSE]
    IN  IF s.up THEN checkStatus([t EXCEPT !.link.sock = TRUE, !.queued = @ \cup {s.cur}]) ELSE errorOccurred(t)

\* deactivate
deactivate(s) == [IF s.link.state = "ready" THEN write(s, "deactivate") ELSE s EXCEPT !.shown = "Disconnected"]

\* The protocol object is destroyed: its destructor stops it again, without
\* listeners, and the socket is closed.
Destroy(s) == [deactivate(s) EXCEPT !.cur = NoLink, !.link = NewLink, !.toClient = <<>>]

\* connectToVpn(): the old object is stopped and destroyed, the new one
\* constructed and started at once, whatever the state of its link.
LinkConnect ==
    /\ dl.made < MaxLinks
    /\ LET old == IF dl.cur = NoLink THEN dl ELSE Destroy(deactivate(dl))
           new == initializeInternal([old EXCEPT !.made = @ + 1, !.cur = dl.made + 1, !.link = NewLink])
       IN  dl' = [write(new, "activate") EXCEPT !.shown = "Connecting", !.lost = ~new.link.sock]

LinkDisconnect ==
    /\ dl.cur # NoLink
    /\ dl' = Destroy(deactivate(dl))

\* m_initializingTimer
RetryTimeout ==
    /\ dl.cur # NoLink /\ dl.link.timer
    /\ dl' = initializeInternal(dl)

\* Mutant: a client that shows Connected takes "disconnected" for an old answer.
MutparseReply(s, msg) ==
    IF s.link.state = "initializing" /\ msg = "status" THEN [s EXCEPT !.link.state = "ready"]
    ELSE IF s.link.state # "ready" THEN s
    ELSE IF msg = "disconnected" THEN IF s.shown = "Connected" THEN s ELSE disconnectInternal(s)
    ELSE IF msg = "connected" THEN [checkStatus(s) EXCEPT !.shown = "Connected"]
    ELSE s

\* LocalSocketController::parseCommand
parseReply(s, msg) ==
    IF s.link.state = "initializing" /\ msg = "status" THEN [s EXCEPT !.link.state = "ready"]
    ELSE IF s.link.state # "ready" THEN s
    ELSE IF msg = "disconnected" THEN disconnectInternal(s)
    ELSE IF msg = "connected" THEN [checkStatus(s) EXCEPT !.shown = "Connected"]
    ELSE s

ClientReads ==
    /\ dl.cur # NoLink /\ dl.toClient # <<>>
    /\ dl' = parseReply([dl EXCEPT !.toClient = Tail(@)], Head(dl.toClient))

\* The daemon's end is gone: errorOccurred() by the error and by disconnected().
ClientSeesClose ==
    /\ dl.cur # NoLink /\ dl.link.sock /\ dl.cur \notin dl.ends \cup dl.queued /\ dl.toClient = <<>>
    /\ dl' = errorOccurred(errorOccurred([dl EXCEPT !.link.sock = FALSE]))

-----------------------------------------------------------------------------
(* DaemonLocalServer, DaemonLocalServerConnection. *)

\* A message to one connection; only the one of the current link is read.
LinkReply(s, i, msg) == IF i = s.cur /\ i \in s.ends THEN [s EXCEPT !.toClient = Append(@, msg)] ELSE s

\* The daemon's signals reach every connection.
Broadcast(s, msg) == IF s.cur \in s.ends THEN LinkReply(s, s.cur, msg) ELSE s

\* DaemonLocalServerConnection::parseCommand.  An activation that fails may
\* keep the one it was to replace or lose it.
parseCommand(s, i, msg) ==
    IF msg = "activate"
    THEN {[s EXCEPT !.conn = i, !.shook = FALSE], LinkReply(s, i, "disconnected"),
          LinkReply([s EXCEPT !.conn = NoLink, !.shook = FALSE], i, "disconnected")}
    ELSE IF msg = "deactivate" THEN {Broadcast([s EXCEPT !.conn = NoLink, !.shook = FALSE], "disconnected")}
    ELSE {LinkReply(s, i, "status")}

\* newConnection
DaemonAccepts(i) ==
    /\ i \in dl.queued
    /\ dl' = [dl EXCEPT !.queued = @ \ {i}, !.ends = @ \cup {i}]

\* What is written to a socket before the next one connects is read before
\* what is written to the next one: the next is first to be accepted.
DaemonReads(i) ==
    /\ \A j \in LinkIds : j < i => dl.toDaemon[j] = <<>>
    /\ i \in dl.ends /\ dl.toDaemon[i] # <<>> /\ Len(dl.toClient) < MaxPipe
    /\ dl' \in parseCommand([dl EXCEPT !.toDaemon[i] = Tail(@)], i, Head(dl.toDaemon[i]))

\* Mutant: a socket that closes leaves the session alone.
MutDaemonSeesClose(i) ==
    /\ i \in dl.ends /\ i # dl.cur /\ dl.toDaemon[i] = <<>>
    /\ dl' = [dl EXCEPT !.ends = @ \ {i}]

\* The client's end is closed and read: the last socket ends the session.
DaemonSeesClose(i) ==
    /\ i \in dl.ends /\ i # dl.cur /\ dl.toDaemon[i] = <<>>
    /\ LET left == dl.ends \ {i}
       IN  dl' = [dl EXCEPT !.ends = left, !.conn = IF left = {} THEN NoLink ELSE @, !.shook = IF left = {} THEN FALSE ELSE @]

\* checkHandshake: connected()
LinkHandshake ==
    /\ dl.conn # NoLink /\ ~dl.shook /\ Len(dl.toClient) < MaxPipe
    /\ dl' = Broadcast([dl EXCEPT !.shook = TRUE], "connected")

-----------------------------------------------------------------------------
(* The service goes and comes. *)

DaemonGone ==
    /\ dl.up
    /\ dl' = [dl EXCEPT !.up = FALSE, !.ends = {}, !.queued = {}, !.conn = NoLink, !.shook = FALSE,
                         !.toDaemon = [i \in LinkIds |-> <<>>], !.lost = @ \/ dl.shown = "Connecting"]

DaemonBack ==
    /\ ~dl.up
    /\ dl' = [dl EXCEPT !.up = TRUE]

LinkNext ==
    \/ LinkConnect \/ LinkDisconnect \/ RetryTimeout \/ ClientReads \/ ClientSeesClose
    \/ \E i \in LinkIds : DaemonAccepts(i) \/ DaemonReads(i) \/ DaemonSeesClose(i)
    \/ LinkHandshake \/ DaemonGone \/ DaemonBack

LinkSpec == LinkInit /\ [][LinkNext]_dl

\* Both event loops handle what is ready, and timers fire.
LinkFairness ==
    /\ WF_dl(RetryTimeout) /\ WF_dl(ClientReads) /\ WF_dl(ClientSeesClose)
    /\ \A i \in LinkIds : WF_dl(DaemonAccepts(i)) /\ WF_dl(DaemonReads(i)) /\ WF_dl(DaemonSeesClose(i))

FairLinkSpec == LinkSpec /\ LinkFairness

-----------------------------------------------------------------------------
(* Properties. *)

\* Nothing is under way.
Quiet ==
    /\ dl.toClient = <<>> /\ \A i \in LinkIds : dl.toDaemon[i] = <<>>
    /\ dl.link.sock => dl.cur \in dl.ends \cup dl.queued

\* When nothing is under way, a client that shows Connected has a session in
\* the daemon, whatever late messages of earlier sessions, restarts of the
\* service and failed activations came before (parseCommand on both ends).
ConnectedIsReal == Quiet /\ dl.cur # NoLink /\ dl.shown = "Connected" => dl.conn # NoLink

\* A disconnection takes effect in the daemon: by its message, or, when the
\* link was not ready to send it, by the socket that closes
\* (LocalSocketController::deactivate, DaemonLocalServer::initialize).
DisconnectTakesEffect == (dl.cur = NoLink /\ dl.conn # NoLink) ~> (dl.conn = NoLink \/ dl.cur # NoLink)

\* A link does not try forever: it gets its first status or gives up and says
\* so (errorOccurred, MAX_CONNECTION_RETRY).
RetriesEnd ==
    \A i \in LinkIds : (dl.cur = i /\ dl.link.state = "initializing") ~> (dl.cur # i \/ dl.link.state = "ready")

\* An activation that reaches the daemon is answered, unless it is in force
\* and waits for its handshake (DaemonLocalServerConnection::parseCommand).
ActivationAnswered ==
    \A i \in LinkIds : (dl.cur = i /\ dl.shown = "Connecting" /\ ~dl.lost) ~> (dl.cur # i \/ dl.shown # "Connecting" \/ dl.conn = i \/ dl.lost)

\* Whatever is asked of the link has an outcome: a disconnection takes effect,
\* a link that is being set up gets there or gives up, an activation is answered.
LinkSettles == DisconnectTakesEffect /\ RetriesEnd /\ ActivationAnswered
=============================================================================

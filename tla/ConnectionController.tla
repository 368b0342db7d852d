------------------------ MODULE ConnectionController ------------------------
(***************************************************************************)
(* The main thread's ConnectionController, with the handlers of            *)
(* CoreController that call it and the tray menu.                          *)
(*                                                                         *)
(* The controller connects to the selected server, walking the addresses   *)
(* of its pool (m_ipPool) until one works, or searches for a server        *)
(* (m_autoPhase): it probes, orders the candidates and tries them in turn. *)
(* Three watchdogs end attempts that produce no event.                     *)
(*                                                                         *)
(* Handlers call each other within one event, so an operator takes a       *)
(* controller to the controller after the call, or to the set of them when *)
(* the call has several outcomes; "calls" collects what is queued for the  *)
(* VPN thread.  All that is known of a timer is whether it runs; it may    *)
(* fire at any time while it does.                                         *)
(*                                                                         *)
(* This module leaves the VPN thread open: any state may arrive at any     *)
(* time.  Module Connection composes it with the thread itself.            *)
(***************************************************************************)
EXTENDS Integers, Sequences

CONSTANTS
    Rows,           \* rows of the server list
    WireGuard,      \* the rows with a WireGuard or AmneziaWG container; the others run Xray
    PoolSize,       \* the number of addresses of a row's pool
    Orders,         \* the orders of candidates a probe may lead to
    Service,        \* the possible answers to whether the service runs
    MaxInstalls     \* bound on the searches that wait for the gateway in each other

ASSUME RowsAssumption ==
    /\ Rows \subseteq Nat \ {0}
    /\ WireGuard \subseteq Rows
    /\ PoolSize \in [Rows -> Nat \ {0}]
    /\ Orders \subseteq Seq(Rows)
    /\ Service \subseteq BOOLEAN
    /\ MaxInstalls \in Nat

VARIABLE ctl

ConnectionState == {"Unknown", "Disconnected", "Preparing", "Connecting", "Connected",
                    "Disconnecting", "Reconnecting", "Error"}

\* A queued call for the VPN thread: the row to connect to, or this
DisconnectCall == 0

---------------------------------------------------------------------------
(* The address pool.  poolPos is m_ipPoolPos + 1, 0 without a pool;        *)
(* poolRow stands for the pool's entries, all of one protocol.             *)

\* connectToServerIndexWithIp()
ConnectWithIp(c, row) ==
    [c EXCEPT !.switching = TRUE,
              !.manualTimer = @ \/ c.phase = "None",
              !.calls = Append(@, row)]

ResetIpPool(c) ==
    [c EXCEPT !.poolRow = 0, !.poolPos = 0, !.ipAwaiting = FALSE, !.ipTimer = FALSE]

\* connectToServerIndex()
ConnectToServer(c, row) ==
    ConnectWithIp(IF PoolSize[row] > 1 THEN [c EXCEPT !.poolRow = row, !.poolPos = 1]
                                       ELSE ResetIpPool(c), row)

\* The guard of retryWithNextIp(), and its effect
CanRetry(c) == c.poolPos > 0 /\ c.poolPos < PoolSize[c.poolRow]

Retry(c) ==
    LET d == ConnectWithIp([c EXCEPT !.poolPos = @ + 1, !.ipAwaiting = FALSE, !.ipTimer = FALSE],
                           c.poolRow)
    IN  IF c.phase = "Connecting" THEN [d EXCEPT !.advancing = TRUE, !.attemptTimer = TRUE] ELSE d

Disconnect(c) == [c EXCEPT !.calls = Append(@, DisconnectCall)]

---------------------------------------------------------------------------
(* onConnectionStateChanged(): first the flags, then the search or the     *)
(* pool, which may take the event for themselves, then the display.        *)

Flags(c, state) ==
    CASE state = "Connected" -> [c EXCEPT !.advancing = FALSE, !.switching = FALSE]
      [] state \in {"Connecting", "Preparing"} -> [c EXCEPT !.switching = FALSE]
      [] OTHER -> c

\* Whether the manual watchdog runs after a state has been shown
Watchdog(c, state) ==
    CASE state \in {"Connected", "Error", "Unknown"} -> FALSE
      [] state = "Reconnecting" -> c.manualTimer \/ (c.phase = "None" /\ c.poolPos = 0)
      [] state = "Disconnected" -> c.manualTimer /\ c.switching
      [] OTHER -> c.manualTimer

InProgress == {"Connecting", "Reconnecting", "Disconnecting", "Preparing"}

\* Mutant: m_isConnected is not reset first.
MutDisplay(c, state) ==
    [c EXCEPT !.state = state, !.connected = @ \/ state = "Connected",
              !.inProgress = state \in InProgress, !.manualTimer = Watchdog(c, state)]

\* The switch at the end, without the error reports of Error and Unknown.
Display(c, state) ==
    [c EXCEPT !.state = state, !.connected = state = "Connected",
              !.inProgress = state \in InProgress, !.manualTimer = Watchdog(c, state)]

\* Disconnected outside the tries of a search
IdleDisconnected(c) ==
    IF c.poolPos > 0 /\ ~c.switching
    THEN IF CanRetry(c) THEN [Retry(c) EXCEPT !.state = "Disconnected"]
                        ELSE Display(ResetIpPool(c), "Disconnected")
    ELSE Display(c, "Disconnected")

\* connectionErrorOccurred() outside the tries of a search: CoreController shows
\* the error and announces Disconnected to the controller and the tray.
IdleError(c) == [IdleDisconnected(c) EXCEPT !.tray = "Disconnected"]

---------------------------------------------------------------------------
(* The search.  pos is m_autoCandidatePos, counted from 0.                 *)

\* connectCurrentAutoCandidate()
ConnectCurrent(c) ==
    IF c.pos >= Len(c.candidates)
    THEN IdleError(Disconnect([c EXCEPT !.phase = "None", !.advancing = FALSE,
                                        !.awaiting = FALSE, !.inProgress = FALSE]))
    ELSE [ConnectToServer([c EXCEPT !.advancing = TRUE, !.awaiting = FALSE],
                          c.candidates[c.pos + 1]) EXCEPT !.attemptTimer = TRUE]

\* The branches of onConnectionStateChanged() that give an attempt of the
\* search up: the next address, the next candidate, or the end of the search.
CandidateFailed(c, state) ==
    LET d    == [c EXCEPT !.attemptTimer = FALSE, !.awaiting = @ /\ state # "Reconnecting"]
        next == [d EXCEPT !.pos = @ + 1]
        over == [next EXCEPT !.phase = "None"]
        shut == [over EXCEPT !.advancing = FALSE, !.candidates = <<>>, !.inProgress = FALSE]
    IN  IF CanRetry(d) THEN [Retry(d) EXCEPT !.state = state]
        ELSE IF next.pos < Len(c.candidates) THEN ConnectCurrent([next EXCEPT !.state = state])
        ELSE IF state = "Reconnecting" THEN IdleError(Disconnect(shut))
        ELSE IF state = "Disconnected" THEN IdleError(shut)
        ELSE IdleError(Display(over, state))

FinalizeAutoSuccess(c) ==
    ResetIpPool([c EXCEPT !.attemptTimer = FALSE, !.awaiting = FALSE, !.phase = "None",
                          !.advancing = FALSE, !.candidates = <<>>,
                          !.defaultRow = IF c.pos < Len(c.candidates)
                                         THEN c.candidates[c.pos + 1] ELSE @])

\* Mutant: the attempt timer is stopped and not started for the traffic.
MutCandidateConnected(c) ==
    LET d == Display([c EXCEPT !.awaiting = TRUE, !.attemptTimer = FALSE], "Connected")
    IN  IF c.candidates[c.pos + 1] \in WireGuard THEN FinalizeAutoSuccess(d) ELSE d

\* Connected during the tries of a search: WireGuard has seen a handshake, Xray
\* has to move traffic first.
CandidateConnected(c) ==
    IF c.pos >= Len(c.candidates)
    THEN Display(FinalizeAutoSuccess(c), "Connected")
    ELSE LET d == Display([c EXCEPT !.awaiting = TRUE, !.attemptTimer = TRUE], "Connected")
         IN  IF c.candidates[c.pos + 1] \in WireGuard THEN FinalizeAutoSuccess(d) ELSE d

\* A state outside the tries of a search, with a pool
PoolState(c, state) ==
    LET quiet == [c EXCEPT !.ipAwaiting = FALSE, !.ipTimer = FALSE]
    IN  CASE state = "Connected" ->
                Display(IF c.poolRow \in WireGuard THEN ResetIpPool(c)
                        ELSE [c EXCEPT !.ipAwaiting = TRUE, !.ipTimer = TRUE], state)
          [] state = "Reconnecting" ->
                IF CanRetry(c) THEN [Retry(quiet) EXCEPT !.state = state]
                ELSE IdleError(Disconnect([ResetIpPool(c) EXCEPT !.manualTimer = FALSE,
                                                                 !.inProgress = FALSE]))
          [] state \in {"Error", "Unknown"} ->
                IF CanRetry(c) THEN [Retry(c) EXCEPT !.state = state]
                ELSE IdleError(Display(ResetIpPool(c), state))
          [] state = "Disconnected" -> IdleDisconnected(c)
          [] OTHER -> Display(c, state)

OnConnectionStateChanged(c0, state) ==
    LET c == Flags(c0, state)
    IN  IF c.phase = "Connecting"
        THEN IF state = "Connected" THEN CandidateConnected(c)
             ELSE IF \/ state \in {"Error", "Unknown", "Reconnecting"}
                     \/ state = "Disconnected" /\ ~c.advancing
             THEN CandidateFailed(c, state)
             ELSE Display(c, state)
        ELSE IF c.poolPos > 0 THEN PoolState(c, state)
        ELSE IF state \in {"Error", "Unknown"} THEN IdleError(Display(c, state))
        ELSE Display(c, state)

\* connectionErrorOccurred() at any other time
ReportError(c) == [OnConnectionStateChanged(c, "Disconnected") EXCEPT !.tray = "Disconnected"]

CancelAutoSelection(c) ==
    [c EXCEPT !.phase = "None", !.advancing = FALSE, !.awaiting = FALSE, !.candidates = <<>>,
              !.pos = 0, !.listening = FALSE, !.probeTimer = FALSE, !.attemptTimer = FALSE]

BeginAutoConnect(c, order) ==
    LET d == [c EXCEPT !.listening = FALSE, !.probeTimer = FALSE, !.candidates = order]
    IN  IF order = <<>>
        THEN ConnectToServer([d EXCEPT !.phase = "None"], c.defaultRow)
        ELSE ConnectCurrent([d EXCEPT !.phase = "Connecting", !.pos = 0])

\* tryEarlyAutoDecision() with a fast server, and onAutoProbeSettled()
EarlyDecision(c) == {BeginAutoConnect(c, order) : order \in Orders \ {<<>>}}

ProbeSettled(c) ==
    IF c.phase = "Probing"
    THEN {BeginAutoConnect([c EXCEPT !.probeTimer = FALSE], order) : order \in Orders}
    ELSE {c}

\* startAutoSelection() after installMissingConfigs(): results of a recent
\* probe decide, or a probe starts, which without targets is over at once.
Probe(c) ==
    LET d == [c EXCEPT !.listening = TRUE]
    IN  EarlyDecision(c) \cup ProbeSettled(d) \cup {[d EXCEPT !.probeTimer = TRUE]}

\* installMissingConfigs() waits for the gateway when a row has no configuration yet.
StartAutoSelection(c) ==
    LET d == [CancelAutoSelection(c) EXCEPT !.phase = "Probing"]
    IN  Probe(d) \cup (IF c.installs < MaxInstalls THEN {[d EXCEPT !.installs = @ + 1]} ELSE {})

OpenConnection(c) ==
    LET d == [c EXCEPT !.wanted = "yes"]
    IN  UNION {IF ~running THEN {ReportError(d)}
               ELSE IF c.auto THEN StartAutoSelection(d)
               ELSE {ConnectToServer(d, c.defaultRow)} : running \in Service}

\* Mutant: a cancel leaves the pool.
MutCloseConnection(c) ==
    LET d == [c EXCEPT !.manualTimer = FALSE,
                       !.wanted = IF c.installs > 0 THEN "late" ELSE "no"]
    IN  Disconnect(
            IF c.phase # "None" THEN [CancelAutoSelection(d) EXCEPT !.inProgress = FALSE] ELSE d)

\* "wanted" remembers, for the properties, whether the user still wants a
\* connection; "late" if not, but a search waits for the gateway's answer.
CloseConnection(c) ==
    LET d == [c EXCEPT !.manualTimer = FALSE,
                       !.wanted = IF c.installs > 0 THEN "late" ELSE "no"]
    IN  Disconnect(ResetIpPool(
            IF c.phase # "None" THEN [CancelAutoSelection(d) EXCEPT !.inProgress = FALSE] ELSE d))

\* A state reaches the controller and then the tray.
Announce(c, state) == [OnConnectionStateChanged(c, state) EXCEPT !.tray = state]

\* The prepareConfig handler
PrepareConfig(c) ==
    LET d == Announce(c, "Preparing")
    IN  OpenConnection(d) \cup (IF c.auto THEN {} ELSE {Announce(d, "Disconnected")})

---------------------------------------------------------------------------
(* The events of the main thread: the set of controllers each may lead to, *)
(* empty when it cannot happen.  While installMissingConfigs() waits its   *)
(* event loop leaves out the input of the window, not the tray menu.       *)

When(guard, outcomes) == IF guard THEN outcomes ELSE {}

ToggleConnection(c) ==
    When(c.installs = 0 /\ c.state # "Preparing",
         IF c.inProgress \/ c.phase # "None" \/ c.connected
         THEN {CloseConnection(c)} ELSE PrepareConfig(c))

\* The server list: with a tunnel up the choice takes effect at once.
ChooseServer(c) ==
    When(c.installs = 0,
         LET chosen == {[c EXCEPT !.auto = FALSE, !.defaultRow = row] : row \in Rows}
         IN  IF c.connected THEN UNION {OpenConnection(d) : d \in chosen} ELSE chosen)

ChooseAuto(c) ==
    When(c.installs = 0,
         LET d == [c EXCEPT !.auto = TRUE]
         IN  IF c.connected THEN OpenConnection(d) ELSE {d})

\* The tray menu; the connect at the start of the client is the first of them.
TrayConnect(c) == When(c.tray \in {"Disconnected", "Error"}, OpenConnection(c))

TrayDisconnect(c) == When(c.tray \notin {"Disconnected", "Error"}, {CloseConnection(c)})

\* A new language shows the state again.
TranslationsUpdated(c) == When(c.installs = 0, {OnConnectionStateChanged(c, c.state)})

InstallsDone(c) == When(c.installs > 0, Probe([c EXCEPT !.installs = @ - 1]))

\* A result of the probe, its end, and the timer that does not wait for its end
HealthUpdated(c) == When(c.listening /\ c.phase = "Probing", EarlyDecision(c))

ProbingFinished(c) == When(c.listening, ProbeSettled(c))

ProbeTimeout(c) == When(c.probeTimer, ProbeSettled([c EXCEPT !.probeTimer = FALSE]))

\* Mutant: a candidate that times out is tried again.
MutAttemptTimeout(c) ==
    LET d == [c EXCEPT !.attemptTimer = FALSE]
    IN  When(c.attemptTimer,
             {CASE c.phase # "Connecting" -> d
                [] c.phase = "Connecting" /\ CanRetry(d) -> [Retry(d) EXCEPT !.awaiting = FALSE]
                [] OTHER -> ConnectCurrent(d)})

AttemptTimeout(c) ==
    LET d == [c EXCEPT !.attemptTimer = FALSE]
    IN  When(c.attemptTimer,
             {CASE c.phase # "Connecting" -> d
                [] c.phase = "Connecting" /\ CanRetry(d) -> [Retry(d) EXCEPT !.awaiting = FALSE]
                [] OTHER -> ConnectCurrent([d EXCEPT !.pos = @ + 1])})

IpTrafficTimeout(c) ==
    LET d == [c EXCEPT !.ipTimer = FALSE, !.ipAwaiting = FALSE]
    IN  When(c.ipTimer,
             {CASE ~c.ipAwaiting -> d
                [] c.ipAwaiting /\ CanRetry(d) -> Retry(d)
                [] OTHER -> ReportError(Disconnect(ResetIpPool(d)))})

ManualTimeout(c) ==
    LET d == [c EXCEPT !.manualTimer = FALSE]
    IN  When(c.manualTimer,
             {IF CanRetry(d) THEN Retry(d)
              ELSE ReportError(Disconnect([ResetIpPool(d) EXCEPT !.inProgress = FALSE]))})

\* bytesChanged() with bytes received
BytesReceived(c) ==
    IF c.phase = "Connecting" /\ c.awaiting
    THEN {FinalizeAutoSuccess(c)}
    ELSE When(c.phase = "None" /\ c.ipAwaiting, {ResetIpPool(c)})

---------------------------------------------------------------------------
(* The specification.  "calls" holds what the last event has queued.       *)

Init ==
    ctl \in [phase : {"None"}, candidates : {<<>>}, pos : {0}, advancing : {FALSE},
             awaiting : {FALSE}, listening : {FALSE}, installs : {0},
             probeTimer : {FALSE}, attemptTimer : {FALSE},
             poolRow : {0}, poolPos : {0}, ipAwaiting : {FALSE}, ipTimer : {FALSE},
             switching : {FALSE}, manualTimer : {FALSE},
             state : {"Disconnected"}, connected : {FALSE}, inProgress : {FALSE},
             tray : {"Disconnected"}, auto : BOOLEAN, defaultRow : Rows,
             wanted : {"no"}, calls : {<<>>}]

Now == [ctl EXCEPT !.calls = <<>>]

Step(outcomes) == \E c \in outcomes : ctl' = c

User ==
    \/ Step(ToggleConnection(Now))
    \/ Step(ChooseServer(Now))
    \/ Step(ChooseAuto(Now))
    \/ Step(TrayConnect(Now))
    \/ Step(TrayDisconnect(Now))
    \/ Step(TranslationsUpdated(Now))

DeliverState == \E state \in ConnectionState \ {"Preparing"} : Step({Announce(Now, state)})

Next ==
    \/ User
    \/ DeliverState
    \/ Step(BytesReceived(Now))
    \/ Step(HealthUpdated(Now))
    \/ Step(ProbingFinished(Now))
    \/ Step(InstallsDone(Now))
    \/ Step(ProbeTimeout(Now))
    \/ Step(AttemptTimeout(Now))
    \/ Step(IpTrafficTimeout(Now))
    \/ Step(ManualTimeout(Now))

Spec == Init /\ [][Next]_ctl

\* Timers that run fire, and the gateway answers or its request times out.
FairSpec ==
    /\ Spec
    /\ WF_ctl(Step(InstallsDone(Now)))
    /\ WF_ctl(Step(ProbeTimeout(Now)))
    /\ WF_ctl(Step(AttemptTimeout(Now)))

---------------------------------------------------------------------------
(* Properties                                                              *)

Controllers ==
    [phase : {"None", "Probing", "Connecting"}, candidates : Seq(Rows), pos : Nat,
     advancing : BOOLEAN, awaiting : BOOLEAN, listening : BOOLEAN, installs : Nat,
     probeTimer : BOOLEAN, attemptTimer : BOOLEAN,
     poolRow : Rows \cup {0}, poolPos : Nat, ipAwaiting : BOOLEAN, ipTimer : BOOLEAN,
     switching : BOOLEAN, manualTimer : BOOLEAN,
     state : ConnectionState, connected : BOOLEAN, inProgress : BOOLEAN,
     tray : ConnectionState, auto : BOOLEAN, defaultRow : Rows,
     wanted : {"yes", "no", "late"}, calls : Seq(Rows \cup {DisconnectCall})]

\* Every field of the controller has its type, and the pool's position is one
\* of the pool, so that m_ipPool.at(m_ipPoolPos) is in range.
TypeOK ==
    /\ ctl \in Controllers
    /\ ctl.poolPos > 0 => ctl.poolRow \in Rows /\ ctl.poolPos <= PoolSize[ctl.poolRow]

\* Every wait is watched: while candidates are tried, one of them is current and
\* the attempt timer runs; while servers are probed, the probe timer runs or a
\* search still waits for the gateway; and while a pool's address has to prove
\* that traffic flows, the traffic timer runs.
WaitsWatched ==
    /\ ctl.phase = "Connecting" => ctl.attemptTimer /\ ctl.pos < Len(ctl.candidates)
    /\ ctl.phase = "Probing" => ctl.probeTimer \/ ctl.installs > 0
    /\ ctl.ipAwaiting => ctl.ipTimer

ConnectsNot(c) == \A i \in DOMAIN c.calls : c.calls[i] = DisconnectCall

\* Once the user has cancelled, no late state, timer, probe result or received
\* byte undoes closeConnection(): nothing connects until the user asks
\* again.  Excepted is a cancel while installMissingConfigs() waits.
CancelIsFinal == ctl.wanted = "no" => ConnectsNot(ctl)

\* Whatever the VPN thread reports, or if it reports nothing, a search comes to
\* an end, unless the user keeps asking for new ones.
SearchEnds == <>[][~User]_ctl => (ctl.phase # "None" ~> ctl.phase = "None")

\* The retries of pools and searches run out: whatever the VPN thread reports,
\* without the user the controller connects only finitely often.
RetriesRunOut == <>[][~User]_ctl => <>[][ConnectsNot(ctl')]_ctl

\* Without the user the controller comes to rest: searches end, and nothing
\* is retried for ever (onAttemptTimeout, advanceAutoCandidate, tryNextIp).
ControllerSettles == SearchEnds /\ RetriesRunOut

=============================================================================

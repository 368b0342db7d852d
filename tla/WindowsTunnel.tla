--------------------------- MODULE WindowsTunnel ---------------------------
(***************************************************************************)
(* The tunnel of a WireGuard session on Windows is a service of its own,   *)
(* created, watched and deleted by WindowsTunnelService through the        *)
(* service control manager (external), on behalf of Daemon::activate and   *)
(* Daemon::deactivate.  It is another process: it can die under the daemon *)
(* and it survives the daemon.  A deleted record disappears only when the  *)
(* tunnel has stopped and nobody holds a handle on it.                     *)
(***************************************************************************)
EXTENDS Naturals

CONSTANT MaxTunnels    \* bound on the tunnel services created

VARIABLE wt

NoRecord == "none"

\* rec: the record's status; marked: deleted but held; held: m_service;
\* conn: m_connections is not empty; told: the client was told of the failure;
\* gaveUp: waitForServiceStatus ran out of its thirty tries on this record.
TunnelInit ==
    wt = [up |-> FALSE, rec |-> NoRecord, marked |-> FALSE, held |-> FALSE, timer |-> FALSE, worker |-> FALSE,
          conn |-> FALSE, told |-> FALSE, gaveUp |-> FALSE, made |-> 0]

-----------------------------------------------------------------------------
(* The service control manager. *)

\* DeleteService on a stopped tunnel: gone, or marked while m_service is open.
DeleteService(s) == IF s.held THEN [s EXCEPT !.marked = TRUE] ELSE [s EXCEPT !.rec = NoRecord, !.marked = FALSE, !.gaveUp = FALSE]

\* CloseServiceHandle of m_service completes a deletion.
CloseHeld(s) == [s EXCEPT !.held = FALSE, !.rec = IF s.marked THEN NoRecord ELSE @, !.marked = FALSE]

-----------------------------------------------------------------------------
(* WindowsTunnelService. *)

\* stopAndDeleteTunnelService: a refused stop request is waited out.
stopAndDeleteTunnelService(s, inTime) ==
    IF s.rec = "stopped" THEN DeleteService(s)
    ELSE IF inTime THEN DeleteService([s EXCEPT !.rec = "stopped"])
    ELSE [s EXCEPT !.rec = "stopping", !.gaveUp = TRUE]

\* WindowsTunnelService::stop
stop(s, inTime) ==
    [IF s.held THEN CloseHeld(stopAndDeleteTunnelService(s, inTime)) ELSE s EXCEPT !.timer = FALSE, !.worker = FALSE]

\* isRunning: interfaceExists.
isRunning(s) == s.held /\ s.rec = "running"

\* Daemon::deactivate as far as it reaches the tunnel.
Deactivated(s, inTime) == [stop(s, inTime) EXCEPT !.conn = FALSE]

\* backendFailure -> WindowsDaemon::monitorBackendFailure, all in one call.
monitorBackendFailure(s, inTime) == [Deactivated(s, inTime) EXCEPT !.told = TRUE]

\* Mutant: the watch timer is not started.
MutStartNew(s, starts, inTime) ==
    IF s.rec # NoRecord THEN [s EXCEPT !.worker = FALSE]
    ELSE [s EXCEPT !.rec = "running", !.made = @ + 1, !.held = TRUE, !.worker = TRUE]

\* start after an earlier record was dealt with: a record that is still
\* marked refuses the new one, and a new tunnel may not start, or not in time.
\* The scope guard ends the log thread on every way out but the last.
StartNew(s, starts, inTime) ==
    IF s.rec # NoRecord THEN [s EXCEPT !.worker = FALSE]
    ELSE IF starts = "refused" THEN [s EXCEPT !.rec = "stopped", !.made = @ + 1, !.worker = FALSE]
    ELSE IF starts = "late" THEN [monitorBackendFailure([s EXCEPT !.rec = "starting", !.gaveUp = TRUE, !.made = @ + 1], inTime) EXCEPT !.worker = FALSE]
    ELSE IF starts = "exits" THEN [monitorBackendFailure([s EXCEPT !.rec = "stopped", !.made = @ + 1], inTime) EXCEPT !.worker = FALSE]
    ELSE [s EXCEPT !.rec = "running", !.made = @ + 1, !.held = TRUE, !.timer = TRUE, !.worker = TRUE]

Starts == {"refused", "exits", "late", "runs"}

\* WindowsTunnelService::start
start(s, starts, inTime) ==
    LET t == IF s.rec = NoRecord THEN s ELSE stopAndDeleteTunnelService(s, inTime)
    IN  IF t.rec = "stopping" THEN [t EXCEPT !.worker = FALSE] ELSE StartNew(t, starts, inTime)

-----------------------------------------------------------------------------
(* The daemon. *)

\* Mutant: the constructor does not look for a tunnel left behind.
MutConstruct ==
    /\ ~wt.up
    /\ wt' = [wt EXCEPT !.up = TRUE]

\* The constructor terminates a tunnel that an earlier daemon left.
Construct ==
    /\ ~wt.up
    /\ \E inTime \in BOOLEAN :
        wt' = [IF wt.rec = NoRecord THEN wt ELSE stopAndDeleteTunnelService(wt, inTime) EXCEPT !.up = TRUE]

\* Daemon::activate: a connected daemon deactivates first; a tunnel that is
\* still running is used again.  ok: what follows the interface's creation succeeds.
Activate ==
    /\ wt.up /\ wt.made < MaxTunnels
    /\ \E inTime \in BOOLEAN, starts \in Starts, ok \in BOOLEAN :
        LET s == IF wt.conn THEN Deactivated(wt, inTime) ELSE wt
            t == IF isRunning(s) THEN s ELSE start(s, starts, inTime)
        IN  wt' = [t EXCEPT !.conn = isRunning(t) /\ ok, !.told = ~(isRunning(t) /\ ok)]

Deactivate ==
    /\ wt.up
    /\ \E inTime \in BOOLEAN : wt' = [Deactivated(wt, inTime) EXCEPT !.told = TRUE]

\* timeout, each 2 s: a running tunnel needs nothing.
timeout ==
    /\ wt.up /\ wt.timer /\ ~isRunning(wt)
    /\ \E inTime \in BOOLEAN : wt' = monitorBackendFailure(wt, inTime)

-----------------------------------------------------------------------------
(* The environment. *)

TunnelExits ==
    /\ wt.rec \in {"running", "stopping"}
    /\ wt' = IF wt.marked /\ ~wt.held THEN [wt EXCEPT !.rec = NoRecord, !.marked = FALSE] ELSE [wt EXCEPT !.rec = "stopped"]

TunnelComesUpLate ==
    /\ wt.rec = "starting"
    /\ wt' = [wt EXCEPT !.rec = "running"]

\* The daemon dies; its handles are closed, the tunnel runs on.
DaemonDies ==
    /\ wt.up /\ wt.made < MaxTunnels
    /\ wt' = [CloseHeld(wt) EXCEPT !.up = FALSE, !.timer = FALSE, !.worker = FALSE, !.conn = FALSE, !.told = TRUE]

TunnelNext ==
    \/ Construct \/ Activate \/ Deactivate \/ timeout \/ TunnelExits \/ TunnelComesUpLate \/ DaemonDies

TunnelSpec == TunnelInit /\ [][TunnelNext]_wt

\* The 2 s timer of a running event loop fires again and again.
TunnelFairness == []<>(~(wt.up /\ wt.timer /\ ~isRunning(wt))) \/ []<><<timeout>>_wt

FairTunnelSpec == TunnelSpec /\ TunnelFairness

-----------------------------------------------------------------------------
(* Properties. *)

\* No tunnel runs that the daemon does not hold: whatever failed or died
\* before, a daemon that is up has either no tunnel running or one it
\* watches (constructor, start, stop).  The exception is a record on which a
\* wait of thirty seconds ran out; the next start deals with it.
NoOrphanTunnel == wt.up /\ wt.rec = "running" /\ ~wt.gaveUp => wt.held /\ wt.worker

\* A tunnel that dies under the daemon is noticed: the handle is given up and
\* the client told, so the next connection can create its tunnel (timeout,
\* monitorBackendFailure).
DeadTunnelIsNoticed == (wt.up /\ wt.held /\ wt.rec = "stopped") ~> (~wt.held \/ isRunning(wt))

=============================================================================

------------------------ MODULE WindowsSplitTunnel ------------------------
(***************************************************************************)
(* Application split tunnelling on Windows: WindowsSplitTunnel drives a    *)
(* kernel driver through a sequence of control calls, and WindowsDaemon    *)
(* starts and stops it with a session.  The driver outlives the service,   *)
(* and it enforces whatever it was told last between two control calls, so *)
(* every control call is a step of its own.                                *)
(*                                                                         *)
(* The driver is external: its states and the effect of a control call are *)
(* what the code expects of them.                                          *)
(***************************************************************************)
EXTENDS Naturals, FiniteSets

CONSTANTS StApps,        \* application paths of the user's list
          Unconvertible, \* the paths among them that have no device path
          StFaults       \* control calls that may fail: subset of {"open", "reset", "init", "procs", "apps", "ips", "clear"}

ASSUME StAssumption == Unconvertible \subseteq StApps

VARIABLE sp

Adapters == {"eth", "wifi", "tun"}
NoAdapter == "none"

\* DRIVER_STATE
STATE_STARTED == 1
STATE_INITIALIZED == 2
STATE_READY == 3
STATE_RUNNING == 4

SplitInit ==
    sp = [pc |-> "off", mgr |-> FALSE, own |-> FALSE, legacy |-> FALSE, mullvad |-> FALSE, device |-> FALSE,
          drv |-> STATE_STARTED, apps |-> {}, inet |-> NoAdapter, tunAddr |-> NoAdapter,
          best |-> "eth", links |-> {"eth", "tun"}, inetIdx |-> NoAdapter, asked |-> {}, reported |-> FALSE, spent |-> 0]

MayFail(call) == {TRUE} \cup (IF call \in StFaults THEN {FALSE} ELSE {})

-----------------------------------------------------------------------------
(* The driver. *)

IoctlInitialize(s) == IF s.drv = STATE_STARTED THEN [s EXCEPT !.drv = STATE_INITIALIZED] ELSE s
IoctlRegisterProcesses(s) == [s EXCEPT !.drv = STATE_READY]
IoctlSetConfiguration(s, apps) == [s EXCEPT !.apps = apps]
IoctlRegisterIps(s, tun, inet) == [s EXCEPT !.drv = STATE_RUNNING, !.tunAddr = tun, !.inet = inet]
IoctlClear(s) == [s EXCEPT !.apps = {}, !.drv = IF @ = STATE_RUNNING THEN STATE_READY ELSE @]
IoctlReset(s) == [s EXCEPT !.drv = STATE_STARTED, !.apps = {}, !.tunAddr = NoAdapter, !.inet = NoAdapter]

-----------------------------------------------------------------------------
(* WindowsSplitTunnel::create, on the service's start. *)

\* Another product owns the driver: Mullvad itself, or a device none of our registrations explains.
detectConflict(s) == s.mullvad \/ (s.device /\ ~s.own /\ ~s.legacy)

\* The device answers for the registration.
isInstalled(s) == s.device \/ s.own

\* installDriver: a registration for the driver image, if the image is there.
installDriver(s, image) == IF image THEN [s EXCEPT !.own = TRUE] ELSE s

\* removeLegacyDriverService: the old registration is marked for deletion,
\* and stays visible as long as its driver is loaded.
removeLegacyDriverService(s) == [s EXCEPT !.legacy = @ /\ s.device]

\* initDriver resets a driver that an earlier service left initialized.
initDriver(s, reset, init) ==
    LET t == IF s.drv >= STATE_INITIALIZED /\ reset THEN IoctlReset(s) ELSE s
    IN  IF t.drv < STATE_INITIALIZED /\ init THEN [IoctlInitialize(t) EXCEPT !.mgr = TRUE] ELSE t

create ==
    /\ sp.pc = "off"
    /\ \E image \in BOOLEAN, open \in MayFail("open"), reset \in MayFail("reset"), init \in MayFail("init") :
        LET s == [removeLegacyDriverService(sp) EXCEPT !.pc = "idle"]
            t == IF isInstalled(s) THEN s ELSE installDriver(s, image)
        IN  sp' = IF detectConflict(s) THEN s
                  ELSE IF ~t.own \/ ~open THEN t
                  ELSE initDriver([t EXCEPT !.device = TRUE], reset, init)

-----------------------------------------------------------------------------
(* A session starts: prepareActivation, then run(Up) or activateSplitTunnel. *)

\* prepareActivation looks the adapter up that routes to the server; while a
\* tunnel is the default route that can be the tunnel.
Prepare ==
    /\ sp.pc = "idle"
    /\ \E apps \in SUBSET StApps :
        sp' = [sp EXCEPT !.inetIdx = sp.best, !.asked = apps, !.reported = FALSE,
                         !.pc = IF sp.mgr THEN (IF apps = {} THEN "stop" ELSE "start")
                                ELSE IF apps = {} THEN "idle" ELSE "noDriver"]

ReportInitFailure ==
    /\ sp.pc = "noDriver"
    /\ sp' = [sp EXCEPT !.reported = TRUE, !.pc = "idle"]

\* start fails: WindowsDaemon puts the driver back into the passive state and reports.
StartFailed(s) == [s EXCEPT !.pc = "failed"]

StartInitialize ==
    /\ sp.pc = "start"
    /\ \E ok \in MayFail("init") :
        sp' = IF sp.drv # STATE_STARTED THEN [sp EXCEPT !.pc = "procs"]
              ELSE IF ok THEN [IoctlInitialize(sp) EXCEPT !.pc = "procs"] ELSE StartFailed(sp)

StartProcesses ==
    /\ sp.pc = "procs"
    /\ \E ok \in MayFail("procs") :
        sp' = IF sp.drv # STATE_INITIALIZED THEN [sp EXCEPT !.pc = "apps"]
              ELSE IF ok THEN [IoctlRegisterProcesses(sp) EXCEPT !.pc = "apps"] ELSE StartFailed(sp)

\* generateAppConfiguration drops what convertPath finds no device path for.
generateAppConfiguration(apps) == apps \ Unconvertible

\* Nothing left is a failure.
pushAppConfiguration ==
    /\ sp.pc = "apps"
    /\ \E ok \in MayFail("apps") :
        LET apps == generateAppConfiguration(sp.asked)
        IN  sp' = IF apps = {} \/ ~ok THEN StartFailed(sp)
                  ELSE [IoctlSetConfiguration(sp, apps) EXCEPT !.pc = "ips"]

\* The adapter snapshot knows an adapter, by index or by name.
Known(s, adapter) == adapter \in s.links

\* generateIPConfiguration: both adapters must be known, and must differ.
generateIPConfiguration(s) == Known(s, "tun") /\ Known(s, s.inetIdx) /\ s.inetIdx # "tun"

RegisterIps ==
    /\ sp.pc = "ips"
    /\ \E ok \in MayFail("ips") :
        sp' = IF generateIPConfiguration(sp) /\ ok THEN [IoctlRegisterIps(sp, "tun", sp.inetIdx) EXCEPT !.pc = "check"]
              ELSE StartFailed(sp)

\* isRunning after the start; a driver that is not running is only reported.
CheckRunning ==
    /\ sp.pc = "check"
    /\ sp' = [sp EXCEPT !.pc = "idle", !.reported = (sp.drv # STATE_RUNNING)]

\* Mutant: a failed start is reported and the driver left as it is.
MutStopAfterFailure ==
    /\ sp.pc = "failed"
    /\ sp' = [sp EXCEPT !.pc = "idle", !.reported = TRUE]

StopAfterFailure ==
    /\ sp.pc = "failed"
    /\ \E ok \in MayFail("clear") :
        sp' = [IF ok THEN IoctlClear(sp) ELSE sp EXCEPT !.pc = "idle", !.reported = TRUE]

\* stop: run(Down), or a session without applications.
StopDriver ==
    /\ sp.pc = "stop"
    /\ \E ok \in MayFail("clear") :
        sp' = [IF ok THEN IoctlClear(sp) ELSE sp EXCEPT !.pc = "idle"]

\* run(Down) at the end of a session.
Down ==
    /\ sp.pc = "idle" /\ sp.mgr
    /\ sp' = [sp EXCEPT !.pc = "stop", !.asked = {}, !.reported = FALSE]

-----------------------------------------------------------------------------
(* The environment. *)

\* Links come and go, and the route to the server moves, the tunnel included.
LinksChange ==
    \E links \in SUBSET Adapters, best \in Adapters \cup {NoAdapter} :
        /\ best \in links \cup {NoAdapter}
        /\ sp.pc \in {"idle", "apps", "ips"}
        /\ sp' = [sp EXCEPT !.links = links, !.best = best]

\* What an installation finds on the machine: an earlier product version's
\* driver with its registration, ours, Mullvad's, or none.
Machine ==
    /\ sp.pc = "off" /\ sp.spent = 0
    /\ \E own, legacy, mullvad, device \in BOOLEAN :
        sp' = [sp EXCEPT !.own = own, !.legacy = legacy, !.mullvad = mullvad, !.device = device, !.spent = 1]

\* The service dies; the driver keeps enforcing.
SplitServiceDies ==
    /\ sp.pc # "off" /\ sp.spent < 2
    /\ sp' = [sp EXCEPT !.pc = "off", !.mgr = FALSE, !.asked = {}, !.reported = FALSE, !.inetIdx = NoAdapter, !.spent = 2]

SplitNext ==
    \/ create \/ Prepare \/ ReportInitFailure \/ StartInitialize \/ StartProcesses \/ pushAppConfiguration
    \/ RegisterIps \/ CheckRunning \/ StopAfterFailure \/ StopDriver \/ Down
    \/ LinksChange \/ Machine \/ SplitServiceDies

SplitSpec == SplitInit /\ [][SplitNext]_sp

-----------------------------------------------------------------------------
(* Properties. *)

\* Whenever the driver enforces, between two control calls included, it knows
\* at least one application and two different adapters, the tunnel's as the
\* tunnel and a physical one as the internet: it never binds an excluded
\* program to an address that cannot route (start's order,
\* generateIPConfiguration's refusals).
EngagedIsComplete ==
    sp.drv = STATE_RUNNING => sp.apps # {} /\ sp.tunAddr = "tun" /\ sp.inet \in Adapters \ {"tun"}

\* A session that asked for exclusions either has the driver enforcing
\* exactly the paths that can be enforced, or a passive driver and a report
\* to the client; never a driver left half configured and never silence
\* (WindowsDaemon::run, activateSplitTunnel).  A service that could not open
\* the driver reports too, whatever a service before it left enforcing.
ExclusionsOrReport ==
    sp.pc = "idle" /\ sp.asked # {} =>
        \/ sp.drv = STATE_RUNNING /\ sp.apps = sp.asked \ Unconvertible /\ ~sp.reported
        \/ (sp.drv # STATE_RUNNING \/ ~sp.mgr) /\ sp.reported

\* No exclusion of an earlier session, or of a service that died while
\* enforcing, survives: while nothing is asked of a running service that has
\* the driver, the driver is passive (create's reset, stop).
NothingAskedIsPassive ==
    sp.pc = "idle" /\ sp.mgr /\ sp.asked = {} => sp.drv # STATE_RUNNING

\* The driver does what the session asked, completely, or nothing and the
\* client knows (WindowsDaemon::run, WindowsSplitTunnel::start and stop).
DriverFollowsSession == EngagedIsComplete /\ ExclusionsOrReport /\ NothingAskedIsPassive
=============================================================================

----------------------------- MODULE MCMachines -----------------------------
(***************************************************************************)
(* The machines driven by events and timers: the client's connection       *)
(* controller, its link to the daemon, the service under the Windows       *)
(* service manager and the tunnel's own service.  Their modules share no   *)
(* state, so one of them runs (part) and the others stay in their initial  *)
(* state: the behaviours are those of each on its own.                     *)
(***************************************************************************)
EXTENDS ConnectionController, ServiceHost, DaemonLink, WindowsTunnel

VARIABLE part

\* Two servers: a WireGuard one with two addresses, an Xray one with two.
MCRows == {1, 2}
MCWireGuard == {1}
MCPoolSize == <<2, 2>>
MCOrders == {<<>>, <<1, 2>>, <<2, 1>>}

machines == <<part, ctl, sh, dl, wt>>

IdleController == ctl.defaultRow = 1 /\ ctl.auto

MachinesInit ==
  /\ part \in {"controller", "host", "link", "tunnel"}
  /\ Init /\ (part # "controller" => IdleController)
  /\ HostInit /\ LinkInit /\ TunnelInit

MachinesNext ==
  \/ /\ part = "controller" /\ Next
     /\ UNCHANGED <<part, sh, dl, wt>>
  \/ /\ part = "host" /\ HostNext
     /\ UNCHANGED <<part, ctl, dl, wt>>
  \/ /\ part = "link" /\ LinkNext
     /\ UNCHANGED <<part, ctl, sh, wt>>
  \/ /\ part = "tunnel" /\ TunnelNext
     /\ UNCHANGED <<part, ctl, sh, dl>>

\* The fairness of the modules, where the component runs: one condition of the
\* component that runs in each of the three.  A thread or an event loop goes
\* from step to step, so its steps are collected.
HostLoop == HandleEvent \/ Wake \/ LoopEnds
ClientLoop == ClientReads \/ ClientSeesClose
DaemonLoop == \E i \in LinkIds : DaemonAccepts(i) \/ DaemonReads(i) \/ DaemonSeesClose(i)
Installed == Step(InstallsDone(Now))
Probed == Step(ProbeTimeout(Now))
Attempted == Step(AttemptTimeout(Now))

EventLoop ==
  CASE part = "controller" -> Installed
    [] part = "host"       -> HostLoop
    [] part = "link"       -> ClientLoop
    [] part = "tunnel"     -> timeout

EventPending ==
  CASE part = "controller" -> ctl.installs > 0
    [] part = "host"       -> ENABLED <<HostLoop>>_sh
    [] part = "link"       -> ENABLED <<ClientLoop>>_dl
    [] part = "tunnel"     -> wt.up /\ wt.timer /\ ~isRunning(wt)

Timeout ==
  CASE part = "controller" -> Probed
    [] part = "link"       -> RetryTimeout
    [] OTHER               -> FALSE

TimeoutPending ==
  CASE part = "controller" -> ctl.probeTimer
    [] part = "link"       -> ENABLED <<RetryTimeout>>_dl
    [] OTHER               -> FALSE

Other ==
  CASE part = "controller" -> Attempted
    [] part = "link"       -> DaemonLoop
    [] OTHER               -> FALSE

OtherPending ==
  CASE part = "controller" -> ctl.attemptTimer
    [] part = "link"       -> ENABLED <<DaemonLoop>>_dl
    [] OTHER               -> FALSE

ThreadSteps(th) ==
  HandlerPosts(th) \/ HandlerWaits(th) \/ HandlerReturns(th) \/ (th = "main2" /\ ServiceMain)

MachinesFairness ==
  /\ []<>(~EventPending) \/ []<><<EventLoop>>_machines
  /\ []<>(~TimeoutPending) \/ []<><<Timeout>>_machines
  /\ []<>(~OtherPending) \/ []<><<Other>>_machines
  /\ \A th \in Threads : SF_sh(part = "host" /\ ThreadSteps(th))
  /\ SF_sh(part = "host" /\ OrphanTimer)

MachinesSpec == MachinesInit /\ [][MachinesNext]_machines /\ MachinesFairness
=============================================================================

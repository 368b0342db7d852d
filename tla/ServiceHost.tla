---------------------------- MODULE ServiceHost ----------------------------
(***************************************************************************)
(* The Windows service process that hosts the daemon.  Three threads: the  *)
(* main thread (QtServiceBasePrivate::start and the event loop), the       *)
(* handler thread that blocks in the control dispatcher and runs handler() *)
(* for a control request, and the thread Windows calls serviceMain on.     *)
(* They meet in two semaphores, a mutex and a condition variable.  The     *)
(* service control manager is external; it passes a request on only when   *)
(* the last status reported is neither stopped nor pending.                *)
(*                                                                         *)
(* The event loop also serves LocalServer, which counts its client sockets *)
(* and releases the session of a client that is gone.                      *)
(***************************************************************************)
EXTENDS Naturals, Sequences

CONSTANTS MaxRequests,   \* bound on the control requests sent
          MaxSockets     \* bound on the client sockets opened

VARIABLE sh

Threads == {"handler", "main2"}      \* main2: the thread of serviceMain
IdleThread == [pc |-> "idle", code |-> "none"]

HostInit ==
    sh = [main |-> "start", con |-> FALSE, t |-> [th \in Threads |-> IdleThread], mutex |-> "free", queue |-> <<>>,
          sem |-> 0, sem2 |-> 0, status |-> "stopped", server |-> "none", daemon |-> FALSE, session |-> FALSE,
          deactivated |-> TRUE, sockets |-> 0, opened |-> 0, timers |-> 0, requests |-> 0]

-----------------------------------------------------------------------------
(* The main thread. *)

\* start: sysInit and the handler thread.  A process the service manager did
\* not start is told so by the dispatcher.
StartHandlerThread ==
    /\ sh.main = "start"
    /\ \E console \in BOOLEAN :
        sh' = [sh EXCEPT !.main = "acquire", !.con = console,
                         !.sem = IF console THEN 1 ELSE 0,
                         !.t["main2"] = IF console THEN IdleThread ELSE [pc |-> "begin", code |-> "startup"]]

\* tryAcquire: after 20 seconds without an answer the process gives up.
AcquireStart ==
    /\ sh.main = "acquire"
    /\ \/ sh.sem > 0 /\ sh' = [sh EXCEPT !.sem = @ - 1, !.main = IF sh.con THEN "exit" ELSE "loop", !.sem2 = IF sh.con THEN @ ELSE @ + 1]
       \/ sh.sem = 0 /\ sh' = [sh EXCEPT !.main = "exit"]

\* SystemService::start, stop; quit runs aboutToQuit, whose slot deactivates
\* the daemon that Daemon::instance finds.
Startup(s) == [s EXCEPT !.server = "live", !.daemon = TRUE]
Stop(s) == [s EXCEPT !.server = "deleted", !.daemon = FALSE]
AboutToQuit(s) == [s EXCEPT !.deactivated = s.daemon \/ @]

\* handleCustomEvent up to the wake-up.
HandleEvent ==
    /\ sh.main = "loop" /\ sh.queue # <<>>
    /\ sh' = LET s == [sh EXCEPT !.queue = Tail(@)]
             IN  CASE Head(sh.queue) = "startup" -> [Startup(s) EXCEPT !.main = "wake"]
                   [] Head(sh.queue) = "stop" -> [AboutToQuit(Stop(s)) EXCEPT !.main = "wakeQuit"]
                   [] OTHER -> [s EXCEPT !.main = "wake"]

\* Mutant: the waiters are woken without taking the mutex.
MutWake ==
    /\ sh.main \in {"wake", "wakeQuit"}
    /\ sh' = [sh EXCEPT !.main = IF @ = "wakeQuit" THEN "ended" ELSE "loop",
                        !.t = [th \in Threads |-> IF @[th].pc = "wait" THEN [@[th] EXCEPT !.pc = "woken"] ELSE @[th]]]

\* The wake-up, under the mutex; after a stop the loop returns.
Wake ==
    /\ sh.main \in {"wake", "wakeQuit"} /\ sh.mutex = "free"
    /\ sh' = [sh EXCEPT !.main = IF @ = "wakeQuit" THEN "ended" ELSE "loop",
                        !.t = [th \in Threads |-> IF @[th].pc = "wait" THEN [@[th] EXCEPT !.pc = "woken"] ELSE @[th]]]

\* executeApplication has returned: the stop is reported, the threads are
\* waited for and everything is deleted.
LoopEnds ==
    /\ sh.main = "ended"
    /\ sh' = [sh EXCEPT !.status = "stopped", !.main = "exit"]

-----------------------------------------------------------------------------
(* serviceMain and handler. *)

ServiceMain ==
    \/ /\ sh.t["main2"].pc = "begin"
       /\ sh' = [sh EXCEPT !.sem = @ + 1, !.t["main2"].pc = "sem2"]
    \/ /\ sh.t["main2"].pc = "sem2" /\ sh.sem2 > 0
       /\ sh' = [sh EXCEPT !.sem2 = @ - 1, !.t["main2"].pc = "lock"]

Pending(code, status) ==
    CASE code = "startup" -> "startPending" [] code = "stop" -> "stopPending" [] OTHER -> status

\* Mutant: the status says running before the application has started.
MutHandlerPosts(th) ==
    /\ sh.t[th].pc = "lock" /\ sh.mutex = "free"
    /\ sh' = [sh EXCEPT !.mutex = th, !.status = IF sh.t[th].code = "startup" THEN "running" ELSE Pending(sh.t[th].code, @),
                        !.queue = Append(@, sh.t[th].code), !.t[th].pc = "posted"]

\* handler: the pending status and the event, under the mutex.
HandlerPosts(th) ==
    /\ sh.t[th].pc = "lock" /\ sh.mutex = "free"
    /\ sh' = [sh EXCEPT !.mutex = th, !.status = Pending(sh.t[th].code, @),
                        !.queue = Append(@, sh.t[th].code), !.t[th].pc = "posted"]

\* condition.wait gives the mutex up.
HandlerWaits(th) ==
    /\ sh.t[th].pc = "posted"
    /\ sh' = [sh EXCEPT !.mutex = "free", !.t[th].pc = "wait"]

\* Woken, with the mutex again: the start is reported.  The last report, out
\* of the mutex, repeats the status as it is then.
HandlerReturns(th) ==
    /\ sh.t[th].pc = "woken" /\ sh.mutex = "free"
    /\ sh' = [sh EXCEPT !.status = IF sh.t[th].code = "startup" THEN "running" ELSE @, !.t[th] = IdleThread]

\* The service manager sends a stop request or a user command.
ControlRequest ==
    /\ sh.status = "running" /\ sh.t["handler"] = IdleThread /\ sh.requests < MaxRequests
    /\ \E code \in {"stop", "command"} :
        sh' = [sh EXCEPT !.t["handler"] = [pc |-> "lock", code |-> code], !.requests = @ + 1]

-----------------------------------------------------------------------------
(* LocalServer in the event loop. *)

\* newConnection
ClientConnects ==
    /\ sh.main = "loop" /\ sh.server = "live" /\ sh.opened < MaxSockets
    /\ sh' = [sh EXCEPT !.sockets = @ + 1, !.opened = @ + 1]

\* The client starts a session through its socket.
ClientActivates ==
    /\ sh.main = "loop" /\ sh.sockets > 0 /\ ~sh.session
    /\ sh' = [sh EXCEPT !.session = TRUE, !.deactivated = FALSE]

\* disconnected: the last socket starts a timer of one second.
ClientDisconnects ==
    /\ sh.main = "loop" /\ sh.sockets > 0
    /\ sh' = [sh EXCEPT !.sockets = @ - 1, !.timers = IF sh.sockets = 1 THEN @ + 1 ELSE @]

\* The timer: a client that is back keeps its session.
OrphanTimer ==
    /\ sh.main = "loop" /\ sh.timers > 0
    /\ sh' = IF sh.sockets > 0 THEN [sh EXCEPT !.timers = @ - 1]
             ELSE [sh EXCEPT !.timers = @ - 1, !.session = FALSE, !.deactivated = TRUE]

HostNext ==
    \/ StartHandlerThread \/ AcquireStart \/ HandleEvent \/ Wake \/ LoopEnds \/ ServiceMain
    \/ \E th \in Threads : HandlerPosts(th) \/ HandlerWaits(th) \/ HandlerReturns(th)
    \/ ControlRequest \/ ClientConnects \/ ClientActivates \/ ClientDisconnects \/ OrphanTimer

\* The operating system schedules every thread, and the timers of the event loop fire.
HostFairness ==
    /\ WF_sh(HandleEvent) /\ WF_sh(Wake) /\ WF_sh(LoopEnds) /\ WF_sh(ServiceMain)
    /\ \A th \in Threads : SF_sh(HandlerPosts(th)) /\ WF_sh(HandlerWaits(th)) /\ SF_sh(HandlerReturns(th))
    /\ SF_sh(OrphanTimer)

HostSpec == HostInit /\ [][HostNext]_sh

FairHostSpec == HostSpec /\ HostFairness

-----------------------------------------------------------------------------
(* Properties. *)

\* The status reported to the service manager tells the truth across the
\* three threads: "running" is reported only while LocalServer exists, and a
\* process that has ended after serving reports "stopped" (handler,
\* handleCustomEvent, start).
StatusIsTrue ==
    /\ sh.status = "running" => sh.server = "live"
    /\ sh.main = "exit" => sh.status \notin {"running", "stopPending"}

\* A start that the process began is completed: no wake-up is lost between
\* the thread that waits for the start and the event loop that performs it.
StartCompletes == (sh.main = "loop" /\ sh.status = "startPending") ~> (sh.status # "startPending")

\* A stop request ends the process.
StopCompletes == (sh.status = "stopPending") ~> (sh.main = "exit")

\* A session whose clients are all gone is released, unless a client comes
\* back or the process stops (LocalServer's socket count and timer).
OrphanReleased == (sh.main = "loop" /\ sh.session /\ sh.sockets = 0) ~> (~sh.session \/ sh.sockets > 0 \/ sh.main # "loop")

\* What the service was asked or left with is done: starts and stops complete
\* across the three threads, and an orphaned session is released.
HostSettles == StartCompletes /\ StopCompletes /\ OrphanReleased
=============================================================================

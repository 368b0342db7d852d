--------------------------- MODULE WindowsProofs ---------------------------
(***************************************************************************)
(* What TLAPS proves of the Windows service process (ServiceHost), of the  *)
(* tunnel service it creates (WindowsTunnel), of the split tunnelling      *)
(* driver it steers (WindowsSplitTunnel), of its filters (WindowsFirewall) *)
(* and of its route monitor (WindowsRoutes), for any bound on requests,    *)
(* sockets and tunnels, any list of applications, any set of peers, and    *)
(* any interfaces and prefixes.                                            *)
(***************************************************************************)
EXTENDS ServiceHost, WindowsTunnel, WindowsSplitTunnel, WindowsFirewall, WindowsRoutes, TLAPS

\* A CASE with a true guard has its value.  The translation for the SMT solver infers no
\* types for a step that may use a CASE expression; for the large records of these
\* steps, inferring them would take it longer than it is given.
LEMMA Untyped == (CASE TRUE -> 0) = 0
  OBVIOUS
USE Untyped

-----------------------------------------------------------------------------
(* ServiceHost: what the three threads are doing, by the status reported.  *)
ThreadSet == [pc : {"idle", "begin", "sem2", "lock", "posted", "wait", "woken"}, code : {"none", "startup", "stop", "command"}]
MainPoints == {"start", "acquire", "loop", "wake", "wakeQuit", "ended", "exit"}
Statuses == {"stopped", "startPending", "running", "stopPending"}
Codes == {"startup", "stop", "command"}
ServerStates == {"none", "live", "deleted"}
HostSet ==
    [main : MainPoints, con : BOOLEAN, t : [Threads -> ThreadSet], mutex : Threads \cup {"free"}, queue : Seq(Codes),
     sem : Nat, sem2 : Nat, status : Statuses, server : ServerStates, daemon : BOOLEAN, session : BOOLEAN,
     deactivated : BOOLEAN, sockets : Nat, opened : Nat, timers : Nat, requests : Nat]

Asleep == {"posted", "wait"}

(* The mutex is held between a post and the wait that follows it.          *)
MutexHeld(s) == s.mutex = IF s.t["main2"].pc = "posted" THEN "main2" ELSE IF s.t["handler"].pc = "posted" THEN "handler" ELSE "free"

(* Nothing was posted yet; a main thread that gave up lets nothing through. *)
NotStarted(s) ==
    /\ s.status = "stopped" /\ s.server = "none" /\ s.queue = <<>>
    /\ s.main \in {"start", "acquire", "loop", "exit"}
    /\ s.t["handler"].pc = "idle"
    /\ \/ s.t["main2"].pc = "idle"
       \/ s.t["main2"].code = "startup" /\ s.t["main2"].pc \in {"begin", "sem2", "lock"}
    /\ s.main # "loop" => s.sem2 = 0 /\ s.t["main2"].pc # "lock"

(* An event of a thread is posted, handled or answered by the wake-up.     *)
EventUnderWay(s, th, code, before) ==
    /\ s.t[th].code = code
    /\ \/ s.main = "loop" /\ s.queue = <<code>> /\ s.t[th].pc \in Asleep /\ s.server = before
       \/ s.main = "wake" /\ s.queue = <<>> /\ s.t[th].pc \in Asleep /\ s.server = "live"
       \/ s.main = "loop" /\ s.queue = <<>> /\ s.t[th].pc = "woken" /\ s.server = "live"

Starting(s) ==
    /\ s.status = "startPending" /\ s.t["handler"].pc = "idle"
    /\ EventUnderWay(s, "main2", "startup", "none")

Running(s) ==
    /\ s.status = "running" /\ s.t["main2"].pc = "idle" /\ s.server = "live"
    /\ \/ s.main = "loop" /\ s.queue = <<>> /\ s.t["handler"].pc = "idle"
       \/ s.main = "loop" /\ s.queue = <<>> /\ s.t["handler"].pc = "lock" /\ s.t["handler"].code \in {"stop", "command"}
       \/ EventUnderWay(s, "handler", "command", "live")

Stopping(s) ==
    /\ s.status = "stopPending" /\ s.t["main2"].pc = "idle"
    /\ \/ /\ s.t["handler"].code = "stop" /\ s.t["handler"].pc \in Asleep
          /\ \/ s.main = "loop" /\ s.queue = <<"stop">>
             \/ s.main = "wakeQuit" /\ s.queue = <<>>
       \/ /\ s.main = "ended" /\ s.queue = <<>>
          /\ s.t["handler"].pc = "idle" \/ (s.t["handler"].code = "stop" /\ s.t["handler"].pc = "woken")

Ended(s) ==
    /\ s.status = "stopped" /\ s.main = "exit" /\ s.t["main2"].pc = "idle"
    /\ s.t["handler"].pc = "idle" \/ (s.t["handler"].code = "stop" /\ s.t["handler"].pc = "woken")

InPhase(s) == NotStarted(s) \/ Starting(s) \/ Running(s) \/ Stopping(s) \/ Ended(s)
HostInv == sh \in HostSet /\ MutexHeld(sh) /\ InPhase(sh)

(* The components of the state, and the values the threads write to them.  *)
LEMMA HostParts ==
    /\ MainPoints = {"start", "acquire", "loop", "wake", "wakeQuit", "ended", "exit"}
    /\ Statuses = {"stopped", "startPending", "running", "stopPending"}
    /\ Codes = {"startup", "stop", "command"} /\ ServerStates = {"none", "live", "deleted"}
    /\ Threads = {"handler", "main2"} /\ 0 \in Nat /\ 1 \in Nat /\ FALSE \in BOOLEAN /\ TRUE \in BOOLEAN
    /\ "free" \in Threads \cup {"free"}
BY DEF MainPoints, Statuses, Codes, ServerStates, Threads

(* The process before it starts.                                           *)
LEMMA HostInitial == HostInit => HostInv
<1> SUFFICES ASSUME HostInit PROVE HostInv
  OBVIOUS
<1>1. [th \in Threads |-> IdleThread] \in [Threads -> ThreadSet] /\ <<>> \in Seq(Codes)
  BY DEF IdleThread, ThreadSet
<1>2. sh \in HostSet
  BY <1>1, HostParts DEF HostInit, HostSet
<1>3. \A th \in Threads : sh.t[th].pc = "idle"
  BY SMTT(30) DEF HostInit, IdleThread
<1> QED
  BY <1>2, <1>3, HostParts DEF HostInit, HostInv, MutexHeld, InPhase, NotStarted

(* A step that leaves the threads, the queue and the status alone.         *)
LEMMA ServingKeeps ==
    ASSUME HostInv, sh' \in HostSet, sh'.main = sh.main, sh'.t = sh.t, sh'.mutex = sh.mutex, sh'.queue = sh.queue,
           sh'.sem2 = sh.sem2, sh'.status = sh.status, sh'.server = sh.server
    PROVE  HostInv'
BY DEF HostInv, MutexHeld, InPhase, NotStarted, EventUnderWay, Starting, Running, Stopping, Ended

(* The steps of the event loop that serve clients. *)
LEMMA ClientsKeep ==
    ASSUME HostInv, ClientConnects \/ ClientActivates \/ ClientDisconnects \/ OrphanTimer
    PROVE  HostInv'
<1>0. sh \in HostSet /\ sh.sockets \in Nat /\ sh.timers \in Nat /\ sh.opened \in Nat
  BY DEF HostInv, HostSet
<1>1. CASE ClientConnects
  <2>1. sh.sockets + 1 \in Nat /\ sh.opened + 1 \in Nat
    BY <1>0
  <2>2. sh' \in HostSet
    BY <1>0, <1>1, <2>1, Zenon DEF ClientConnects, HostSet
  <2> QED
    BY <1>0, <1>1, <2>2, ServingKeeps, SMTT(30) DEF ClientConnects, HostSet
<1>2. CASE ClientActivates
  <2>2. sh' \in HostSet
    BY <1>0, <1>2, Zenon DEF ClientActivates, HostSet
  <2> QED
    BY <1>0, <1>2, <2>2, ServingKeeps DEF ClientActivates, HostSet
<1>3. CASE ClientDisconnects
  <2>1. sh.sockets - 1 \in Nat /\ (IF sh.sockets = 1 THEN sh.timers + 1 ELSE sh.timers) \in Nat
    BY <1>0, <1>3 DEF ClientDisconnects
  <2>2. sh' \in HostSet
    BY <1>0, <1>3, <2>1, Zenon DEF ClientDisconnects, HostSet
  <2> QED
    BY <1>0, <1>3, <2>2, ServingKeeps DEF ClientDisconnects, HostSet
<1>4. CASE OrphanTimer
  <2>1. sh.timers - 1 \in Nat
    BY <1>0, <1>4 DEF OrphanTimer
  <2>2. sh' \in HostSet
    BY <1>0, <1>4, <2>1, ZenonT(40) DEF OrphanTimer, HostSet
  <2> QED
    BY <1>0, <1>4, <2>2, ServingKeeps, Zenon DEF OrphanTimer, HostSet
<1> QED
  BY <1>1, <1>2, <1>3, <1>4, SMTT(30)

(* Starting the process.                                                   *)
LEMMA StartKeeps ==
    ASSUME HostInv, StartHandlerThread \/ AcquireStart
    PROVE  HostInv'
<1> USE DEF MutexHeld, InPhase, NotStarted, EventUnderWay, Starting, Running, Stopping, Ended
<1>0. sh \in HostSet /\ sh.sem \in Nat /\ sh.sem2 \in Nat /\ sh.t \in [Threads -> ThreadSet] /\ "main2" \in Threads /\ "handler" \in Threads
  BY HostParts DEF HostInv, HostSet
<1>1. CASE StartHandlerThread
  <2>1. PICK console \in BOOLEAN, n \in Nat, f \in ThreadSet :
          /\ sh' = [sh EXCEPT !.main = "acquire", !.con = console, !.sem = n, !.t["main2"] = f]
          /\ f.pc = "idle" \/ (f.code = "startup" /\ f.pc = "begin")
    <3>1. PICK console \in BOOLEAN :
        sh' = [sh EXCEPT !.main = "acquire", !.con = console,
                         !.sem = IF console THEN 1 ELSE 0,
                         !.t["main2"] = IF console THEN IdleThread ELSE [pc |-> "begin", code |-> "startup"]]
      BY <1>1, Zenon DEF StartHandlerThread
    <3>2. IdleThread \in ThreadSet /\ [pc |-> "begin", code |-> "startup"] \in ThreadSet /\ IdleThread.pc = "idle"
      BY SMTT(30) DEF IdleThread, ThreadSet
    <3>3. CASE console
      <4>1. sh' = [sh EXCEPT !.main = "acquire", !.con = console, !.sem = 1, !.t["main2"] = IdleThread]
        BY <3>1, <3>3, SMTT(30)
      <4> QED
        BY <3>2, <4>1, HostParts, Zenon
    <3>4. CASE ~console
      <4>1. sh' = [sh EXCEPT !.main = "acquire", !.con = console, !.sem = 0, !.t["main2"] = [pc |-> "begin", code |-> "startup"]]
        BY <3>1, <3>4, SMTT(30)
      <4> QED
        BY <3>2, <4>1, HostParts, Zenon
    <3> QED
      BY <3>3, <3>4, ZenonT(40)
  <2>2. [sh.t EXCEPT !["main2"] = f] \in [Threads -> ThreadSet]
    BY <1>0
  <2>3. sh' = [sh EXCEPT !.main = "acquire", !.con = console, !.sem = n, !.t = [sh.t EXCEPT !["main2"] = f]]
    BY <2>1
  <2>4. sh' \in HostSet
    BY <1>0, <2>2, <2>3, HostParts, ZenonT(40) DEF HostSet
  <2>5. /\ sh'.main = "acquire" /\ sh'.mutex = sh.mutex /\ sh'.queue = sh.queue /\ sh'.sem2 = sh.sem2
        /\ sh'.status = sh.status /\ sh'.server = sh.server /\ sh'.t = [sh.t EXCEPT !["main2"] = f]
    BY <1>0, <2>3 DEF HostSet
  <2>6. sh'.t["main2"] = f /\ sh'.t["handler"] = sh.t["handler"]
    BY <1>0, <2>5
  <2>7. sh.main = "start"
    BY <1>1, Zenon DEF StartHandlerThread
  <2> QED
    BY <2>1, <2>4, <2>5, <2>6, <2>7 DEF HostInv
<1>2. CASE AcquireStart
  <2>1. CASE /\ sh.sem > 0
             /\ sh' = [sh EXCEPT !.sem = @ - 1, !.main = IF sh.con THEN "exit" ELSE "loop", !.sem2 = IF sh.con THEN @ ELSE @ + 1]
    <3>1. PICK n \in Nat, main \in {"exit", "loop"}, m \in Nat :
            sh' = [sh EXCEPT !.sem = n, !.main = main, !.sem2 = m] /\ (main = "exit" => m = sh.sem2)
      <4>1. sh.sem - 1 \in Nat /\ sh.sem2 + 1 \in Nat
        BY <1>0, <2>1, SMTT(30)
      <4> QED
        BY <1>0, <2>1, <4>1, ZenonT(40)
    <3>2. sh' \in HostSet
      BY <1>0, <3>1, HostParts, ZenonT(40) DEF HostSet
    <3>3. /\ sh'.main = main /\ sh'.mutex = sh.mutex /\ sh'.queue = sh.queue /\ sh'.sem2 = m
          /\ sh'.status = sh.status /\ sh'.server = sh.server /\ sh'.t = sh.t
      BY <1>0, <3>1 DEF HostSet
    <3>4. sh.main = "acquire"
      BY <1>2 DEF AcquireStart
    <3> QED
      BY <3>1, <3>2, <3>3, <3>4, SMTT(30) DEF HostInv
  <2>2. CASE sh' = [sh EXCEPT !.main = "exit"]
    <3>2. sh' \in HostSet
      BY <1>0, <2>2, HostParts, SMTT(30) DEF HostSet
    <3>3. /\ sh'.main = "exit" /\ sh'.mutex = sh.mutex /\ sh'.queue = sh.queue /\ sh'.sem2 = sh.sem2
          /\ sh'.status = sh.status /\ sh'.server = sh.server /\ sh'.t = sh.t
      BY <1>0, <2>2 DEF HostSet
    <3>4. sh.main = "acquire"
      BY <1>2 DEF AcquireStart
    <3> QED
      BY <3>2, <3>3, <3>4 DEF HostInv
  <2> QED
    BY <1>2, <2>1, <2>2, SMTT(30) DEF AcquireStart
<1> QED
  BY <1>1, <1>2

(* The event loop: an event, the wake-up, the end.                         *)
LEMMA LoopKeeps ==
    ASSUME HostInv, HandleEvent \/ Wake \/ LoopEnds
    PROVE  HostInv'
<1> USE DEF MutexHeld, InPhase, NotStarted, EventUnderWay, Starting, Running, Stopping, Ended, Asleep
<1>0. sh \in HostSet /\ sh.queue \in Seq(Codes) /\ sh.t \in [Threads -> ThreadSet] /\ "main2" \in Threads /\ "handler" \in Threads
  BY HostParts DEF HostInv, HostSet
<1>1. CASE HandleEvent
  <2>1. sh.main = "loop" /\ sh.queue # <<>>
    BY <1>1, SMTT(30) DEF HandleEvent
  <2>2. PICK c \in Codes : sh.queue = <<c>>
    BY <2>1, HostParts, SMTT(30) DEF HostInv
  <2>3. Head(sh.queue) = c /\ Tail(sh.queue) = <<>> /\ <<>> \in Seq(Codes)
    BY <2>2, SMTT(30)
  <2>4. CASE c = "startup"
    <3>1. sh' = [sh EXCEPT !.queue = <<>>, !.server = "live", !.daemon = TRUE, !.main = "wake"]
      BY <1>1, <2>3, <2>4, Zenon DEF HandleEvent, Startup
    <3>2. sh' \in HostSet
      BY <1>0, <2>3, <3>1, HostParts, ZenonT(40) DEF HostSet
    <3>3. /\ sh'.main = "wake" /\ sh'.mutex = sh.mutex /\ sh'.queue = <<>> /\ sh'.server = "live"
          /\ sh'.status = sh.status /\ sh'.t = sh.t
      BY <1>0, <3>1 DEF HostSet
    <3> QED
      BY <2>1, <2>2, <2>4, <3>2, <3>3, SMTT(30) DEF HostInv
  <2>5. CASE c = "stop"
    <3>1. PICK b \in BOOLEAN : sh' = [sh EXCEPT !.queue = <<>>, !.server = "deleted", !.daemon = FALSE, !.deactivated = b, !.main = "wakeQuit"]
      <4> DEFINE s == [sh EXCEPT !.queue = <<>>]
      <4>1. sh' = [AboutToQuit(Stop(s)) EXCEPT !.main = "wakeQuit"]
        BY <1>1, <2>3, <2>5, Zenon DEF HandleEvent
      <4>2. PICK b \in BOOLEAN : b = (Stop(s).daemon \/ Stop(s).deactivated)
        BY Zenon
      <4>3. AboutToQuit(Stop(s)) = [Stop(s) EXCEPT !.deactivated = b]
        BY <4>2, Zenon DEF AboutToQuit
      <4> QED
        BY <4>1, <4>3, Zenon DEF Stop
    <3>2. sh' \in HostSet
      <4> DEFINE s == [sh EXCEPT !.queue = <<>>, !.daemon = FALSE, !.deactivated = b]
      <4>1. s \in HostSet
        BY <1>0, <2>3, Zenon DEF HostSet
      <4>2. sh' = [s EXCEPT !.server = "deleted", !.main = "wakeQuit"]
        BY <3>1, ZenonT(40)
      <4>3. "deleted" \in ServerStates /\ "wakeQuit" \in MainPoints
        BY HostParts
      <4> HIDE DEF s
      <4> QED
        BY <4>1, <4>2, <4>3, Zenon DEF HostSet
    <3>3. /\ sh'.main = "wakeQuit" /\ sh'.mutex = sh.mutex /\ sh'.queue = <<>>
          /\ sh'.status = sh.status /\ sh'.t = sh.t
      BY <1>0, <3>1 DEF HostSet
    <3> QED
      BY <2>1, <2>2, <2>5, <3>2, <3>3, SMTT(30) DEF HostInv
  <2>6. CASE c = "command"
    <3>1. sh' = [sh EXCEPT !.queue = <<>>, !.main = "wake"]
      BY <1>1, <2>3, <2>6, Zenon DEF HandleEvent
    <3>2. sh' \in HostSet
      BY <1>0, <2>3, <3>1, HostParts, ZenonT(40) DEF HostSet
    <3>3. /\ sh'.main = "wake" /\ sh'.mutex = sh.mutex /\ sh'.queue = <<>> /\ sh'.server = sh.server
          /\ sh'.status = sh.status /\ sh'.t = sh.t
      BY <1>0, <3>1 DEF HostSet
    <3> QED
      BY <2>1, <2>2, <2>6, <3>2, <3>3 DEF HostInv
  <2> QED
    BY <2>4, <2>5, <2>6, HostParts, SMTT(30)
<1>2. CASE Wake
  <2> DEFINE main == IF sh.main = "wakeQuit" THEN "ended" ELSE "loop"
             t == [th \in Threads |-> IF sh.t[th].pc = "wait" THEN [sh.t[th] EXCEPT !.pc = "woken"] ELSE sh.t[th]]
  <2>1. sh.main \in {"wake", "wakeQuit"} /\ sh.mutex = "free" /\ sh' = [sh EXCEPT !.main = main, !.t = t]
    BY <1>2, SMTT(30) DEF Wake
  <2>2. \A th \in Threads : t[th] \in ThreadSet /\ t[th].code = sh.t[th].code /\ t[th].pc = IF sh.t[th].pc = "wait" THEN "woken" ELSE sh.t[th].pc
    BY <1>0 DEF ThreadSet
  <2>3. t \in [Threads -> ThreadSet]
    BY <2>2
  <2> HIDE DEF t
  <2>4. sh' \in HostSet
    BY <1>0, <2>1, <2>3, HostParts, ZenonT(40) DEF HostSet
  <2>5. /\ sh'.main = main /\ sh'.mutex = sh.mutex /\ sh'.queue = sh.queue /\ sh'.server = sh.server
        /\ sh'.status = sh.status /\ sh'.t = t
    BY <1>0, <2>1 DEF HostSet
  <2> QED
    BY <1>0, <2>1, <2>2, <2>4, <2>5, SMTT(30) DEF HostInv
<1>3. CASE LoopEnds
  <2>1. sh.main = "ended" /\ sh' = [sh EXCEPT !.status = "stopped", !.main = "exit"]
    BY <1>3 DEF LoopEnds
  <2>2. sh' \in HostSet
    BY <1>0, <2>1, HostParts, ZenonT(40) DEF HostSet
  <2>3. sh'.main = "exit" /\ sh'.mutex = sh.mutex /\ sh'.status = "stopped" /\ sh'.t = sh.t
    BY <1>0, <2>1 DEF HostSet
  <2> QED
    BY <2>1, <2>2, <2>3 DEF HostInv
<1> QED
  BY <1>1, <1>2, <1>3, SMTT(30)

(* serviceMain() before it posts.                                          *)
LEMMA ServiceMainKeeps ==
    ASSUME HostInv, ServiceMain
    PROVE  HostInv'
<1> USE DEF MutexHeld, InPhase, NotStarted, EventUnderWay, Starting, Running, Stopping, Ended, Asleep
<1>0. sh \in HostSet /\ sh.sem \in Nat /\ sh.sem2 \in Nat /\ sh.t \in [Threads -> ThreadSet] /\ "main2" \in Threads /\ "handler" \in Threads
  BY HostParts, SMTT(30) DEF HostInv, HostSet
<1>1. PICK pc \in {"sem2", "lock"}, n \in Nat, m \in Nat :
         /\ sh' = [sh EXCEPT !.sem = n, !.sem2 = m, !.t["main2"].pc = pc]
         /\ sh.t["main2"].pc \in {"begin", "sem2"}
         /\ IF pc = "sem2" THEN m = sh.sem2 ELSE sh.sem2 > 0
  <2>1. CASE sh.t["main2"].pc = "begin" /\ sh' = [sh EXCEPT !.sem = @ + 1, !.t["main2"].pc = "sem2"]
    <3>1. sh.sem + 1 \in Nat
      BY <1>0
    <3>2. sh' = [sh EXCEPT !.sem = sh.sem + 1, !.sem2 = sh.sem2, !.t["main2"].pc = "sem2"]
      BY <1>0, <2>1, ZenonT(40) DEF HostSet
    <3> QED
      BY <1>0, <2>1, <3>1, <3>2, ZenonT(40)
  <2>2. CASE sh.t["main2"].pc = "sem2" /\ sh.sem2 > 0 /\ sh' = [sh EXCEPT !.sem2 = @ - 1, !.t["main2"].pc = "lock"]
    <3>1. sh.sem2 - 1 \in Nat
      BY <1>0, <2>2, SMTT(30)
    <3>2. sh' = [sh EXCEPT !.sem = sh.sem, !.sem2 = sh.sem2 - 1, !.t["main2"].pc = "lock"]
      BY <1>0, <2>2, Zenon DEF HostSet
    <3> QED
      BY <1>0, <2>2, <3>1, <3>2, Zenon
  <2> QED
    BY <2>1, <2>2, ZenonT(40) DEF ServiceMain
<1> DEFINE t == [sh.t EXCEPT !["main2"] = [sh.t["main2"] EXCEPT !.pc = pc]]
<1>2. sh' = [sh EXCEPT !.sem = n, !.sem2 = m, !.t = t]
  BY <1>1
<1>3. t \in [Threads -> ThreadSet] /\ t["main2"].pc = pc /\ t["main2"].code = sh.t["main2"].code /\ t["handler"] = sh.t["handler"]
  BY <1>0, <1>1 DEF ThreadSet
<1> HIDE DEF t
<1>4. sh' \in HostSet
  BY <1>0, <1>1, <1>2, <1>3, ZenonT(40) DEF HostSet
<1>5. /\ sh'.main = sh.main /\ sh'.mutex = sh.mutex /\ sh'.queue = sh.queue /\ sh'.server = sh.server
      /\ sh'.status = sh.status /\ sh'.t = t /\ sh'.sem2 = m
  BY <1>0, <1>2 DEF HostSet
<1> QED
  BY <1>1, <1>3, <1>4, <1>5 DEF HostInv

(* handler(), which serviceMain() calls too.                               *)
LEMMA HandlerKeeps ==
    ASSUME HostInv, NEW th \in Threads, HandlerPosts(th) \/ HandlerWaits(th) \/ HandlerReturns(th)
    PROVE  HostInv'
<1> USE DEF MutexHeld, InPhase, NotStarted, EventUnderWay, Starting, Running, Stopping, Ended, Asleep
<1>0. sh \in HostSet /\ sh.t \in [Threads -> ThreadSet] /\ sh.queue \in Seq(Codes) /\ Threads = {"handler", "main2"}
  BY HostParts DEF HostInv, HostSet
<1>1. CASE HandlerPosts(th)
  <2> DEFINE code == sh.t[th].code
             t == [sh.t EXCEPT ![th] = [sh.t[th] EXCEPT !.pc = "posted"]]
  <2>1. sh.t[th].pc = "lock" /\ sh.mutex = "free"
    BY <1>1, SMTT(30) DEF HandlerPosts
  <2>2. sh.queue = <<>> /\ sh.main = "loop" /\ code \in Codes /\ (code = "startup" <=> th = "main2")
    BY <1>0, <2>1, HostParts, SMTT(30) DEF HostInv
  <2>3. Append(sh.queue, code) = <<code>> /\ <<code>> \in Seq(Codes)
    BY <2>2
  <2>4. sh' = [sh EXCEPT !.mutex = th, !.status = Pending(code, sh.status), !.queue = <<code>>, !.t = t]
    BY <1>1, <2>3, SMTT(30) DEF HandlerPosts
  <2>5. t \in [Threads -> ThreadSet] /\ \A u \in Threads : t[u].code = sh.t[u].code /\ t[u].pc = IF u = th THEN "posted" ELSE sh.t[u].pc
    BY <1>0, SMTT(30) DEF ThreadSet
  <2>6. Pending(code, sh.status) = IF code = "startup" THEN "startPending" ELSE IF code = "stop" THEN "stopPending" ELSE sh.status
    BY <2>2, HostParts, SMTT(30) DEF Pending
  <2>7. Pending(code, sh.status) \in Statuses
    BY <1>0, <2>6, HostParts, SMTT(30) DEF HostSet
  <2> HIDE DEF t
  <2>8. sh' \in HostSet
    BY <1>0, <2>3, <2>4, <2>5, <2>7, ZenonT(40) DEF HostSet
  <2>9. /\ sh'.main = sh.main /\ sh'.mutex = th /\ sh'.queue = <<code>> /\ sh'.server = sh.server
        /\ sh'.status = Pending(code, sh.status) /\ sh'.t = t /\ sh'.sem2 = sh.sem2
    BY <1>0, <2>4 DEF HostSet
  <2> QED
    BY <1>0, <2>1, <2>2, <2>5, <2>6, <2>8, <2>9, HostParts, SMTT(30) DEF HostInv
<1>2. CASE HandlerWaits(th)
  <2> DEFINE t == [sh.t EXCEPT ![th] = [sh.t[th] EXCEPT !.pc = "wait"]]
  <2>1. sh.t[th].pc = "posted" /\ sh' = [sh EXCEPT !.mutex = "free", !.t = t]
    BY <1>2, SMTT(30) DEF HandlerWaits
  <2>2. t \in [Threads -> ThreadSet] /\ \A u \in Threads : t[u].code = sh.t[u].code /\ t[u].pc = IF u = th THEN "wait" ELSE sh.t[u].pc
    BY <1>0 DEF ThreadSet
  <2> HIDE DEF t
  <2>3. sh' \in HostSet
    BY <1>0, <2>1, <2>2, HostParts, ZenonT(40) DEF HostSet
  <2>4. /\ sh'.main = sh.main /\ sh'.mutex = "free" /\ sh'.queue = sh.queue /\ sh'.server = sh.server
        /\ sh'.status = sh.status /\ sh'.t = t /\ sh'.sem2 = sh.sem2
    BY <1>0, <2>1 DEF HostSet
  <2> QED
    BY <1>0, <2>1, <2>2, <2>3, <2>4 DEF HostInv
<1>3. CASE HandlerReturns(th)
  <2> DEFINE status == IF sh.t[th].code = "startup" THEN "running" ELSE sh.status
             t == [sh.t EXCEPT ![th] = IdleThread]
  <2>1. sh.t[th].pc = "woken" /\ sh.mutex = "free" /\ sh' = [sh EXCEPT !.status = status, !.t = t]
    BY <1>3 DEF HandlerReturns
  <2>2. t \in [Threads -> ThreadSet] /\ t[th].pc = "idle" /\ \A u \in Threads : u # th => t[u] = sh.t[u]
    BY <1>0, SMTT(30) DEF ThreadSet, IdleThread
  <2>3. status \in Statuses
    BY <1>0, HostParts, SMTT(30) DEF HostSet
  <2> HIDE DEF t
  <2>4. sh' \in HostSet
    BY <1>0, <2>1, <2>2, <2>3, ZenonT(40) DEF HostSet
  <2>5. /\ sh'.main = sh.main /\ sh'.mutex = sh.mutex /\ sh'.queue = sh.queue /\ sh'.server = sh.server
        /\ sh'.status = status /\ sh'.t = t /\ sh'.sem2 = sh.sem2
    BY <1>0, <2>1 DEF HostSet
  <2> QED
    BY <1>0, <2>1, <2>2, <2>4, <2>5 DEF HostInv
<1> QED
  BY <1>1, <1>2, <1>3

(* A control request finds the service running and the handler idle.       *)
LEMMA ControlKeeps ==
    ASSUME HostInv, ControlRequest
    PROVE  HostInv'
<1> USE DEF MutexHeld, InPhase, NotStarted, EventUnderWay, Starting, Running, Stopping, Ended, Asleep
<1>0. sh \in HostSet /\ sh.t \in [Threads -> ThreadSet] /\ sh.requests + 1 \in Nat /\ "main2" \in Threads /\ "handler" \in Threads
  BY HostParts DEF HostInv, HostSet
<1>1. PICK code \in {"stop", "command"} : sh' = [sh EXCEPT !.t["handler"] = [pc |-> "lock", code |-> code], !.requests = @ + 1]
  BY Zenon DEF ControlRequest
<1> DEFINE t == [sh.t EXCEPT !["handler"] = [pc |-> "lock", code |-> code]]
<1>2. sh' = [sh EXCEPT !.t = t, !.requests = sh.requests + 1]
  BY <1>1
<1>3. t \in [Threads -> ThreadSet] /\ t["handler"].pc = "lock" /\ t["handler"].code = code /\ t["main2"] = sh.t["main2"]
  BY <1>0 DEF ThreadSet
<1> HIDE DEF t
<1>4. sh' \in HostSet
  BY <1>0, <1>2, <1>3, Zenon DEF HostSet
<1>5. /\ sh'.main = sh.main /\ sh'.mutex = sh.mutex /\ sh'.queue = sh.queue /\ sh'.server = sh.server
      /\ sh'.status = sh.status /\ sh'.t = t /\ sh'.sem2 = sh.sem2
  BY <1>0, <1>2 DEF HostSet
<1>6. sh.status = "running" /\ sh.t["handler"].pc = "idle"
  BY DEF ControlRequest, IdleThread
<1> QED
  BY <1>3, <1>4, <1>5, <1>6 DEF HostInv

(* For any number of control requests and clients and any interleaving of  *)
(* the three threads: the service manager is told "running" only while     *)
(* LocalServer exists, and a process that has ended has reported it.       *)
THEOREM StatusTold == HostSpec => []StatusIsTrue
<1>1. HostInv /\ [HostNext]_sh => HostInv'
  <2> SUFFICES ASSUME HostInv, [HostNext]_sh PROVE HostInv'
    BY SMTT(30)
  <2>1. CASE UNCHANGED sh
    BY <2>1, SMTT(30) DEF HostInv, MutexHeld, InPhase, NotStarted, EventUnderWay, Starting, Running, Stopping, Ended
  <2> QED
    BY <2>1, StartKeeps, LoopKeeps, ServiceMainKeeps, HandlerKeeps, ControlKeeps, ClientsKeep, SMTT(30) DEF HostNext
<1>2. HostInv => StatusIsTrue
  BY SMTT(30) DEF HostInv, InPhase, NotStarted, EventUnderWay, Starting, Running, Stopping, Ended, StatusIsTrue
<1> QED
  BY <1>1, <1>2, HostInitial, PTL DEF HostSpec

-----------------------------------------------------------------------------
(* WindowsTunnel: who may be left with a tunnel that runs.                 *)

TunnelSet ==
    [up : BOOLEAN, rec : {NoRecord, "starting", "running", "stopping", "stopped"}, marked : BOOLEAN, held : BOOLEAN,
     timer : BOOLEAN, worker : BOOLEAN, conn : BOOLEAN, told : BOOLEAN, gaveUp : BOOLEAN, made : Nat]

(* A handle is held only on a record that no wait ran out on; a wait that  *)
(* ran out is forgotten with its record; a tunnel still on its way up or   *)
(* down is one such a wait was given up on.                                *)
Tracked(s) ==
    /\ s \in TunnelSet
    /\ s.held => s.up /\ ~s.gaveUp /\ s.rec \in {"running", "stopped"}
    /\ s.held /\ s.rec = "running" => s.worker
    /\ s.marked => s.held /\ s.rec = "stopped"
    /\ s.rec = NoRecord => ~s.gaveUp
    /\ s.rec \in {"starting", "stopping"} => s.gaveUp
    /\ s.up /\ s.rec = "running" => s.held \/ s.gaveUp

TunnelInv == Tracked(wt)

(* stop() gives the handle up, with the record or with a wait that ran out. *)
LEMMA StopTracked ==
    ASSUME NEW s, Tracked(s), NEW inTime \in BOOLEAN
    PROVE  LET t == stop(s, inTime) IN Tracked(t) /\ ~t.held /\ t.up = s.up
BY ZenonT(40) DEF stop, CloseHeld, stopAndDeleteTunnelService, DeleteService, Tracked, TunnelSet, NoRecord

(* What activate() and the watch write down does not matter.               *)
LEMMA FlagsTracked ==
    ASSUME NEW s, Tracked(s), NEW conn \in BOOLEAN, NEW told \in BOOLEAN
    PROVE  /\ Tracked([s EXCEPT !.conn = conn, !.told = told])
           /\ Tracked([s EXCEPT !.conn = conn]) /\ Tracked([s EXCEPT !.told = told])
           /\ [s EXCEPT !.conn = conn].held = s.held /\ [s EXCEPT !.conn = conn].up = s.up
           /\ [s EXCEPT !.told = told].held = s.held
BY ZenonT(40) DEF Tracked, TunnelSet

(* deactivate(), alone and as the answer to a tunnel that failed.          *)
LEMMA DeactivatedTracked ==
    ASSUME NEW s, Tracked(s), NEW inTime \in BOOLEAN
    PROVE  /\ Tracked(Deactivated(s, inTime)) /\ ~Deactivated(s, inTime).held /\ Deactivated(s, inTime).up = s.up
           /\ Tracked(monitorBackendFailure(s, inTime)) /\ ~monitorBackendFailure(s, inTime).held
<1> DEFINE t == stop(s, inTime)
<1>1. Tracked(t) /\ ~t.held /\ t.up = s.up
  BY StopTracked
<1>2. Deactivated(s, inTime) = [t EXCEPT !.conn = FALSE]
  BY SMTT(30) DEF Deactivated
<1> HIDE DEF t
<1>3. Tracked([t EXCEPT !.conn = FALSE]) /\ ~[t EXCEPT !.conn = FALSE].held /\ [t EXCEPT !.conn = FALSE].up = s.up
  BY <1>1, FlagsTracked, ZenonT(40)
<1> QED
  BY <1>2, <1>3, FlagsTracked, ZenonT(40) DEF monitorBackendFailure

(* A daemon that holds no handle cleans up what is left.                   *)
LEMMA StopAndDeleteTracked ==
    ASSUME NEW s, Tracked(s), NEW inTime \in BOOLEAN, s.rec # NoRecord, ~s.held \/ s.rec = "stopped"
    PROVE  LET t == stopAndDeleteTunnelService(s, inTime)
           IN  /\ Tracked(t) /\ t.up = s.up /\ t.held = s.held
               /\ t.held => t.rec = "stopped"
               /\ t.rec \in {NoRecord, "stopping", "stopped"}
BY ZenonT(40) DEF stopAndDeleteTunnelService, DeleteService, Tracked, TunnelSet, NoRecord

(* The constructor ends with no tunnel running.                            *)
LEMMA UpTracked ==
    ASSUME NEW s, Tracked(s), s.rec # "running"
    PROVE  Tracked([s EXCEPT !.up = TRUE])
BY Zenon DEF Tracked, TunnelSet, NoRecord

(* The log thread may end when no tunnel of this daemon runs.              *)
LEMMA WorkerTracked ==
    ASSUME NEW s, Tracked(s), s.rec # "running" \/ ~s.held
    PROVE  Tracked([s EXCEPT !.worker = FALSE])
BY ZenonT(40) DEF Tracked, TunnelSet, NoRecord

(* A new tunnel, in each of the ways its start can go.                     *)
LEMMA StartNewTracked ==
    ASSUME NEW s, Tracked(s), s.up, NEW inTime \in BOOLEAN, NEW starts \in Starts,
           s.rec \in {NoRecord, "stopped"}
    PROVE  Tracked(StartNew(s, starts, inTime))
<1>0. s \in TunnelSet /\ s.made + 1 \in Nat
  BY DEF Tracked, TunnelSet
<1>1. CASE s.rec # NoRecord
  BY <1>1, WorkerTracked DEF StartNew
<1>2. CASE s.rec = NoRecord /\ starts = "refused"
  BY <1>2, <1>0, Zenon DEF StartNew, Tracked, TunnelSet, NoRecord
<1>3. CASE s.rec = NoRecord /\ starts = "late"
  <2> DEFINE t == [s EXCEPT !.rec = "starting", !.gaveUp = TRUE, !.made = @ + 1]
  <2>1. Tracked(t)
    BY <1>0, <1>3, ZenonT(40) DEF Tracked, TunnelSet, NoRecord
  <2>2. StartNew(s, starts, inTime) = [monitorBackendFailure(t, inTime) EXCEPT !.worker = FALSE]
    BY <1>3 DEF StartNew
  <2> HIDE DEF t
  <2>3. Tracked(monitorBackendFailure(t, inTime)) /\ ~monitorBackendFailure(t, inTime).held
    BY <2>1, DeactivatedTracked
  <2> QED
    BY <2>2, <2>3, WorkerTracked
<1>4. CASE s.rec = NoRecord /\ starts = "exits"
  <2> DEFINE t == [s EXCEPT !.rec = "stopped", !.made = @ + 1]
  <2>1. Tracked(t)
    BY <1>0, <1>4, Zenon DEF Tracked, TunnelSet, NoRecord
  <2>2. StartNew(s, starts, inTime) = [monitorBackendFailure(t, inTime) EXCEPT !.worker = FALSE]
    BY <1>4 DEF StartNew
  <2> HIDE DEF t
  <2>3. Tracked(monitorBackendFailure(t, inTime)) /\ ~monitorBackendFailure(t, inTime).held
    BY <2>1, DeactivatedTracked
  <2> QED
    BY <2>2, <2>3, WorkerTracked
<1>5. CASE s.rec = NoRecord /\ starts = "runs"
  BY <1>5, <1>0, Zenon DEF StartNew, Tracked, TunnelSet, NoRecord
<1> QED
  BY <1>1, <1>2, <1>3, <1>4, <1>5 DEF Starts

(* start(), when no tunnel of this daemon runs.                            *)
LEMMA StartTracked ==
    ASSUME NEW s, Tracked(s), s.up, ~isRunning(s), NEW inTime \in BOOLEAN, NEW starts \in Starts
    PROVE  Tracked(start(s, starts, inTime))
<1> DEFINE t == IF s.rec = NoRecord THEN s ELSE stopAndDeleteTunnelService(s, inTime)
<1>1. Tracked(t) /\ t.up /\ t.rec \in {NoRecord, "stopping", "stopped"}
  BY StopAndDeleteTracked DEF isRunning, Tracked
<1>2. start(s, starts, inTime) = IF t.rec = "stopping" THEN [t EXCEPT !.worker = FALSE] ELSE StartNew(t, starts, inTime)
  BY DEF start
<1> HIDE DEF t
<1> QED
  BY <1>1, <1>2, WorkerTracked, StartNewTracked

(* A new installation.                                                     *)
LEMMA TunnelInitial == TunnelInit => TunnelInv
BY DEF TunnelInit, TunnelInv, Tracked, TunnelSet, NoRecord

(* Every operation of the daemon and everything that happens to the tunnel. *)
LEMMA TunnelStepKeeps ==
    ASSUME TunnelInv, [TunnelNext]_wt
    PROVE  TunnelInv'
<1> USE DEF TunnelInv
<1>1. CASE Construct
  <2>1. PICK inTime \in BOOLEAN :
           wt' = [IF wt.rec = NoRecord THEN wt ELSE stopAndDeleteTunnelService(wt, inTime) EXCEPT !.up = TRUE]
    BY <1>1, ZenonT(40) DEF Construct
  <2> DEFINE t == IF wt.rec = NoRecord THEN wt ELSE stopAndDeleteTunnelService(wt, inTime)
  <2>2. Tracked(t) /\ t.rec # "running"
    BY <1>1, StopAndDeleteTracked DEF Construct, Tracked, NoRecord
  <2> QED
    BY <2>1, <2>2, UpTracked, SMTT(30)
<1>2. CASE Activate
  <2>1. PICK inTime \in BOOLEAN, starts \in Starts, ok \in BOOLEAN :
        LET s == IF wt.conn THEN Deactivated(wt, inTime) ELSE wt
            t == IF isRunning(s) THEN s ELSE start(s, starts, inTime)
        IN  wt' = [t EXCEPT !.conn = isRunning(t) /\ ok, !.told = ~(isRunning(t) /\ ok)]
    BY <1>2, Zenon DEF Activate
  <2> DEFINE s == IF wt.conn THEN Deactivated(wt, inTime) ELSE wt
             t == IF isRunning(s) THEN s ELSE start(s, starts, inTime)
  <2>2. Tracked(s) /\ s.up
    BY <1>2, DeactivatedTracked, Zenon DEF Activate
  <2> HIDE DEF s
  <2>3. Tracked(t)
    BY <2>2, StartTracked
  <2> HIDE DEF t
  <2>4. PICK b \in BOOLEAN : b = (isRunning(t) /\ ok)
    BY Zenon
  <2>5. wt' = [t EXCEPT !.conn = b, !.told = ~b]
    BY <2>1, <2>4, Zenon DEF s, t
  <2>6. PICK c \in BOOLEAN : c = ~b
    BY ZenonT(40)
  <2> QED
    BY <2>3, <2>5, <2>6, FlagsTracked, Zenon
<1>3. CASE Deactivate
  <2>1. PICK inTime \in BOOLEAN : wt' = [Deactivated(wt, inTime) EXCEPT !.told = TRUE]
    BY <1>3, Zenon DEF Deactivate
  <2> QED
    BY <2>1, DeactivatedTracked, FlagsTracked, Zenon
<1>4. CASE timeout
  BY <1>4, DeactivatedTracked DEF timeout
<1>5. CASE TunnelExits
  BY <1>5 DEF TunnelExits, Tracked, TunnelSet, NoRecord
<1>6. CASE TunnelComesUpLate
  BY <1>6 DEF TunnelComesUpLate, Tracked, TunnelSet, NoRecord
<1>7. CASE DaemonDies
  BY <1>7, ZenonT(40) DEF DaemonDies, CloseHeld, Tracked, TunnelSet, NoRecord
<1>8. CASE UNCHANGED wt
  BY <1>8
<1> QED
  BY <1>1, <1>2, <1>3, <1>4, <1>5, <1>6, <1>7, <1>8, SMTT(30) DEF TunnelNext

(* For any number of tunnels, daemon deaths and failed waits: a daemon     *)
(* that is up has no tunnel running but the one it holds and watches, or   *)
(* one on which a wait of thirty seconds ran out (WindowsTunnelService).   *)
THEOREM TunnelIsHeld == TunnelSpec => []NoOrphanTunnel
<1>1. TunnelInv => NoOrphanTunnel
  BY DEF TunnelInv, Tracked, NoOrphanTunnel
<1> QED
  BY <1>1, TunnelInitial, TunnelStepKeeps, PTL DEF TunnelSpec

-----------------------------------------------------------------------------
(* WindowsSplitTunnel: what the driver knows at each control call.         *)

SplitPoints == {"off", "idle", "noDriver", "start", "procs", "apps", "ips", "check", "failed", "stop"}
DriverStates == {STATE_STARTED, STATE_INITIALIZED, STATE_READY, STATE_RUNNING}
AdapterRefs == Adapters \cup {NoAdapter}
SplitSet ==
    [pc : SplitPoints, mgr : BOOLEAN, own : BOOLEAN, legacy : BOOLEAN, mullvad : BOOLEAN, device : BOOLEAN,
     drv : DriverStates, apps : SUBSET StApps, inet : AdapterRefs, tunAddr : AdapterRefs, best : AdapterRefs,
     links : SUBSET Adapters, inetIdx : AdapterRefs, asked : SUBSET StApps, reported : BOOLEAN, spent : 0 .. 2]

(* What a driver must know that enforces, and what a session was promised. *)
Complete(s) == s.drv = STATE_RUNNING => s.apps # {} /\ s.tunAddr = "tun" /\ s.inet \in Adapters \ {"tun"}
Obeys(s) ==
    /\ s.pc = "idle" /\ s.asked # {} =>
        \/ s.drv = STATE_RUNNING /\ s.apps = s.asked \ Unconvertible /\ ~s.reported
        \/ (s.drv # STATE_RUNNING \/ ~s.mgr) /\ s.reported
    /\ s.pc = "idle" /\ s.mgr /\ s.asked = {} => s.drv # STATE_RUNNING

Steered(s) ==
    /\ s \in SplitSet
    /\ Complete(s)
    /\ "clear" \notin StFaults => Obeys(s)
    /\ s.pc \in {"ips", "check"} => s.apps = generateAppConfiguration(s.asked) /\ s.apps # {}
    /\ s.pc = "check" => s.drv = STATE_RUNNING
    /\ s.pc = "noDriver" => ~s.mgr
    /\ s.pc = "stop" => s.asked = {}
    /\ s.pc = "off" => ~s.mgr /\ s.asked = {}
SplitInv == Steered(sp)

(* The components of a state have the sets the code gives them.            *)
LEMMA SplitParts ==
    /\ SplitPoints = {"off", "idle", "noDriver", "start", "procs", "apps", "ips", "check", "failed", "stop"}
    /\ "off" \in SplitPoints
    /\ {} \in SUBSET StApps /\ NoAdapter \in AdapterRefs /\ "tun" \in AdapterRefs /\ "eth" \in AdapterRefs
    /\ TRUE \in BOOLEAN /\ FALSE \in BOOLEAN /\ 0 \in 0 .. 2 /\ 1 \in 0 .. 2 /\ 2 \in 0 .. 2
    /\ STATE_STARTED \in DriverStates /\ STATE_INITIALIZED \in DriverStates
    /\ STATE_READY \in DriverStates /\ STATE_RUNNING \in DriverStates
BY DEF SplitPoints, AdapterRefs, Adapters, NoAdapter, DriverStates, STATE_STARTED, STATE_INITIALIZED, STATE_READY, STATE_RUNNING

(* The driver's states are ordered.                                        *)
LEMMA StatesDiffer ==
    /\ STATE_STARTED # STATE_RUNNING /\ STATE_INITIALIZED # STATE_RUNNING /\ STATE_READY # STATE_RUNNING
    /\ \A d \in DriverStates : (d < STATE_INITIALIZED <=> d = STATE_STARTED) /\ (d >= STATE_INITIALIZED <=> d # STATE_STARTED)
BY SMTT(30) DEF DriverStates, STATE_STARTED, STATE_INITIALIZED, STATE_READY, STATE_RUNNING

(* The driver and the service at the start.                                *)
LEMMA SplitInitial == SplitInit => SplitInv
<1> SUFFICES ASSUME SplitInit PROVE SplitInv
  OBVIOUS
<1>1. {"eth", "tun"} \in SUBSET Adapters
  BY SMTT(30) DEF Adapters
<1>2. sp \in SplitSet
  BY <1>1, SplitParts, SMTT(30) DEF SplitInit, SplitSet
<1> QED
  BY <1>2, StatesDiffer, SMTT(30) DEF SplitInit, SplitInv, Steered, Complete, Obeys

(* A move to another point of the session without a control call.          *)
LEMMA MoveSteered ==
    ASSUME NEW s, Steered(s), NEW pc \in {"procs", "apps", "failed"}
    PROVE  Steered([s EXCEPT !.pc = pc])
<1> DEFINE t == [s EXCEPT !.pc = pc]
<1>1. t \in SplitSet
  BY SplitParts, SMTT(30) DEF Steered, SplitSet
<1>2. t.pc = pc /\ t.drv = s.drv /\ t.apps = s.apps /\ t.tunAddr = s.tunAddr /\ t.inet = s.inet
  BY DEF Steered, SplitSet
<1> QED
  BY <1>1, <1>2, SMTT(30) DEF Steered, Complete, Obeys

(* A service that starts: no session, and the driver not its own yet.      *)
Freed(s) == s \in SplitSet /\ Complete(s) /\ s.pc = "idle" /\ ~s.mgr /\ s.asked = {}

(* Such a service promises nothing.                                        *)
LEMMA FreedSteered == ASSUME NEW s, Freed(s) PROVE Steered(s)
BY DEF Freed, Steered, Obeys

(* Registrations and devices do not matter to the driver.                  *)
LEMMA InstallFreed ==
    ASSUME NEW s, Freed(s)
    PROVE  Freed([s EXCEPT !.own = TRUE]) /\ Freed([s EXCEPT !.device = TRUE])
<1>1. [s EXCEPT !.own = TRUE] \in SplitSet /\ [s EXCEPT !.device = TRUE] \in SplitSet
  BY ZenonT(40) DEF Freed, SplitSet
<1> QED
  BY <1>1, SMTT(30) DEF Freed, SplitSet, Complete

(* initDriver() takes the driver only from a state that enforces nothing.  *)
LEMMA InitDriverSteered ==
    ASSUME NEW s, Freed(s), NEW reset \in BOOLEAN, NEW init \in BOOLEAN
    PROVE  Steered(initDriver(s, reset, init))
<1> DEFINE t == IF s.drv >= STATE_INITIALIZED /\ reset THEN IoctlReset(s) ELSE s
<1>1. Freed(t)
  <2>1. IoctlReset(s) \in SplitSet
    BY SplitParts, ZenonT(40) DEF Freed, SplitSet, IoctlReset
  <2>2. IoctlReset(s).drv = STATE_STARTED /\ IoctlReset(s).pc = s.pc /\ IoctlReset(s).mgr = s.mgr /\ IoctlReset(s).asked = s.asked
    BY DEF Freed, SplitSet, IoctlReset
  <2> QED
    BY <2>1, <2>2, StatesDiffer DEF Freed, Complete
<1>2. initDriver(s, reset, init) = IF t.drv < STATE_INITIALIZED /\ init THEN [IoctlInitialize(t) EXCEPT !.mgr = TRUE] ELSE t
  BY DEF initDriver
<1> HIDE DEF t
<1>3. CASE t.drv < STATE_INITIALIZED /\ init
  <2> DEFINE u == [t EXCEPT !.drv = STATE_INITIALIZED, !.mgr = TRUE]
  <2>1. t \in SplitSet /\ t.drv = STATE_STARTED
    BY <1>1, <1>3, StatesDiffer DEF Freed, SplitSet
  <2>2. initDriver(s, reset, init) = u
    BY <1>2, <1>3, <2>1, SMTT(30) DEF IoctlInitialize
  <2>3. u \in SplitSet
    BY <2>1, SplitParts, ZenonT(40) DEF SplitSet
  <2>4. u.drv = STATE_INITIALIZED /\ u.pc = t.pc /\ u.asked = t.asked
    BY <2>1 DEF SplitSet
  <2> QED
    BY <1>1, <2>2, <2>3, <2>4, StatesDiffer DEF Freed, Steered, Complete, Obeys
<1> QED
  BY <1>1, <1>2, <1>3, FreedSteered

(* Every control call and every event around it.                           *)
LEMMA SplitStepKeeps ==
    ASSUME SplitInv, [SplitNext]_sp
    PROVE  SplitInv'
<1> USE DEF SplitInv
<1>0. sp \in SplitSet
  BY DEF Steered
<1>1. CASE create
  <2>1. PICK image \in BOOLEAN, open \in MayFail("open"), reset \in MayFail("reset"), init \in MayFail("init") :
        LET s == [removeLegacyDriverService(sp) EXCEPT !.pc = "idle"]
            t == IF isInstalled(s) THEN s ELSE installDriver(s, image)
        IN  sp' = IF detectConflict(s) THEN s
                  ELSE IF ~t.own \/ ~open THEN t
                  ELSE initDriver([t EXCEPT !.device = TRUE], reset, init)
    BY <1>1, Zenon DEF create
  <2>2. PICK b \in BOOLEAN : b = (sp.legacy /\ sp.device)
    BY Zenon
  <2> DEFINE s == [sp EXCEPT !.legacy = b, !.pc = "idle"]
             t == IF isInstalled(s) THEN s ELSE installDriver(s, image)
             u == [t EXCEPT !.device = TRUE]
  <2>3. [removeLegacyDriverService(sp) EXCEPT !.pc = "idle"] = s
    BY <2>2, Zenon DEF removeLegacyDriverService
  <2>4. sp' \in {s, t, initDriver(u, reset, init)}
    BY <2>1, <2>3, Zenon
  <2>5. sp.pc = "off"
    BY <1>1 DEF create
  <2>6. Freed(s)
    <3>1. s \in SplitSet
      BY <1>0, SplitParts, Zenon DEF SplitSet
    <3>2. s.pc = "idle" /\ s.asked = sp.asked /\ s.drv = sp.drv /\ s.apps = sp.apps /\ s.tunAddr = sp.tunAddr /\ s.inet = sp.inet
          /\ s.mgr = sp.mgr
      BY <1>0 DEF SplitSet
    <3> QED
      BY <2>5, <3>1, <3>2 DEF Freed, Steered, Complete
  <2> HIDE DEF s
  <2>7. Freed(t)
    BY <2>6, InstallFreed, Zenon DEF installDriver
  <2> HIDE DEF t
  <2>8. Freed(u)
    BY <2>7, InstallFreed, Zenon
  <2> HIDE DEF u
  <2>9. reset \in BOOLEAN /\ init \in BOOLEAN
    BY <2>1, ZenonT(40) DEF MayFail
  <2> QED
    BY <2>4, <2>6, <2>7, <2>8, <2>9, FreedSteered, InitDriverSteered, SMTT(30)
<1>2. CASE Prepare
  <2>1. PICK apps \in SUBSET StApps, pc \in {"stop", "start", "idle", "noDriver"} :
        /\ sp.pc = "idle" /\ sp' = [sp EXCEPT !.inetIdx = sp.best, !.asked = apps, !.reported = FALSE, !.pc = pc]
        /\ pc = IF sp.mgr THEN (IF apps = {} THEN "stop" ELSE "start")
                ELSE IF apps = {} THEN "idle" ELSE "noDriver"
    BY <1>2, Zenon DEF Prepare
  <2>2. sp' \in SplitSet
    BY <1>0, <2>1, SplitParts, ZenonT(40) DEF SplitSet
  <2>3. /\ sp'.pc = pc /\ sp'.asked = apps /\ sp'.drv = sp.drv /\ sp'.apps = sp.apps /\ sp'.tunAddr = sp.tunAddr
        /\ sp'.inet = sp.inet /\ sp'.mgr = sp.mgr
    BY <1>0, <2>1 DEF SplitSet
  <2> QED
    BY <2>1, <2>2, <2>3 DEF Steered, Complete, Obeys
<1>3. CASE ReportInitFailure
  <2>1. sp' \in SplitSet
    BY <1>0, <1>3, SplitParts, Zenon DEF ReportInitFailure, SplitSet
  <2>2. /\ sp.pc = "noDriver" /\ sp'.pc = "idle" /\ sp'.asked = sp.asked /\ sp'.drv = sp.drv /\ sp'.apps = sp.apps /\ sp'.tunAddr = sp.tunAddr
        /\ sp'.inet = sp.inet /\ sp'.mgr = sp.mgr /\ sp'.reported = TRUE
    BY <1>0, <1>3 DEF ReportInitFailure, SplitSet
  <2> QED
    BY <2>1, <2>2, SMTT(30) DEF Steered, Complete, Obeys
<1>4. CASE StartInitialize
  <2>1. CASE sp' = [IoctlInitialize(sp) EXCEPT !.pc = "procs"] /\ sp.drv = STATE_STARTED
    <3>1. sp' \in SplitSet
      BY <1>0, <2>1, SplitParts, Zenon DEF IoctlInitialize, SplitSet
    <3>2. sp'.pc = "procs" /\ sp'.drv = STATE_INITIALIZED
      BY <1>0, <2>1 DEF IoctlInitialize, SplitSet
    <3> QED
      BY <3>1, <3>2, StatesDiffer DEF Steered, Complete, Obeys
  <2> QED
    BY <1>4, <2>1, MoveSteered, ZenonT(40) DEF StartInitialize, StartFailed
<1>5. CASE StartProcesses
  <2>1. CASE sp' = [IoctlRegisterProcesses(sp) EXCEPT !.pc = "apps"]
    <3>1. sp' \in SplitSet
      BY <1>0, <2>1, SplitParts, Zenon DEF IoctlRegisterProcesses, SplitSet
    <3>2. sp'.pc = "apps" /\ sp'.drv = STATE_READY
      BY <1>0, <2>1 DEF IoctlRegisterProcesses, SplitSet
    <3> QED
      BY <3>1, <3>2, StatesDiffer DEF Steered, Complete, Obeys
  <2> QED
    BY <1>5, <2>1, MoveSteered, ZenonT(40) DEF StartProcesses, StartFailed
<1>6. CASE pushAppConfiguration
  <2> DEFINE apps == generateAppConfiguration(sp.asked)
  <2>1. CASE apps # {} /\ sp' = [IoctlSetConfiguration(sp, apps) EXCEPT !.pc = "ips"]
    <3>0. apps \in SUBSET StApps
      BY <1>0 DEF generateAppConfiguration, SplitSet
    <3> HIDE DEF apps
    <3>1. sp' \in SplitSet
      BY <1>0, <2>1, <3>0, SplitParts, Zenon DEF IoctlSetConfiguration, SplitSet
    <3>2. sp'.pc = "ips" /\ sp'.drv = sp.drv /\ sp'.apps = apps /\ sp'.asked = sp.asked /\ sp'.tunAddr = sp.tunAddr
          /\ sp'.inet = sp.inet
      BY <1>0, <2>1 DEF IoctlSetConfiguration, SplitSet
    <3> QED
      BY <2>1, <3>1, <3>2 DEF Steered, Complete, Obeys, apps
  <2> QED
    BY <1>6, <2>1, MoveSteered, ZenonT(40) DEF pushAppConfiguration, StartFailed
<1>7. CASE RegisterIps
  <2>1. CASE generateIPConfiguration(sp) /\ sp' = [IoctlRegisterIps(sp, "tun", sp.inetIdx) EXCEPT !.pc = "check"]
    <3>1. sp' \in SplitSet
      BY <1>0, <2>1, SplitParts, Zenon DEF IoctlRegisterIps, SplitSet
    <3>2. sp'.pc = "check" /\ sp'.drv = STATE_RUNNING /\ sp'.apps = sp.apps /\ sp'.asked = sp.asked /\ sp'.tunAddr = "tun"
          /\ sp'.inet = sp.inetIdx
      BY <1>0, <2>1 DEF IoctlRegisterIps, SplitSet
    <3>3. sp.inetIdx \in Adapters \ {"tun"}
      BY <1>0, <2>1 DEF generateIPConfiguration, Known, SplitSet
    <3> QED
      BY <1>7, <2>1, <3>1, <3>2, <3>3 DEF RegisterIps, Steered, Complete, Obeys
  <2> QED
    BY <1>7, <2>1, MoveSteered, ZenonT(40) DEF RegisterIps, StartFailed
<1>8. CASE CheckRunning
  <2>1. PICK b \in BOOLEAN : b = (sp.drv # STATE_RUNNING)
    BY Zenon
  <2>2. sp.pc = "check" /\ sp' = [sp EXCEPT !.pc = "idle", !.reported = b]
    BY <1>8, <2>1, Zenon DEF CheckRunning
  <2>3. sp' \in SplitSet
    BY <1>0, <2>2, SplitParts, Zenon DEF SplitSet
  <2>4. sp'.pc = "idle" /\ sp'.drv = sp.drv /\ sp'.apps = sp.apps /\ sp'.asked = sp.asked /\ sp'.tunAddr = sp.tunAddr
          /\ sp'.inet = sp.inet /\ sp'.reported = b
    BY <1>0, <2>2 DEF SplitSet
  <2> QED
    BY <2>1, <2>2, <2>3, <2>4, Zenon DEF Steered, Complete, Obeys, generateAppConfiguration
<1>9. CASE StopAfterFailure
  <2>1. CASE sp' = [IoctlClear(sp) EXCEPT !.pc = "idle", !.reported = TRUE]
    <3>1. sp' \in SplitSet
      BY <1>0, <2>1, SplitParts, ZenonT(40) DEF IoctlClear, SplitSet
    <3>2. sp'.pc = "idle" /\ sp'.drv # STATE_RUNNING /\ sp'.reported = TRUE
      BY <1>0, <2>1, StatesDiffer DEF IoctlClear, SplitSet
    <3> QED
      BY <3>1, <3>2 DEF Steered, Complete, Obeys
  <2>2. CASE sp' = [sp EXCEPT !.pc = "idle", !.reported = TRUE] /\ "clear" \in StFaults
    <3>1. sp' \in SplitSet
      BY <1>0, <2>2, SplitParts, Zenon DEF SplitSet
    <3>2. sp'.pc = "idle" /\ sp'.drv = sp.drv /\ sp'.apps = sp.apps /\ sp'.tunAddr = sp.tunAddr /\ sp'.inet = sp.inet
      BY <1>0, <2>2 DEF SplitSet
    <3> QED
      BY <2>2, <3>1, <3>2 DEF Steered, Complete
  <2> QED
    BY <1>9, <2>1, <2>2, Zenon DEF StopAfterFailure, MayFail
<1>10. CASE StopDriver
  <2>1. CASE sp' = [IoctlClear(sp) EXCEPT !.pc = "idle"]
    <3>1. sp' \in SplitSet
      BY <1>0, <2>1, SplitParts, ZenonT(40) DEF IoctlClear, SplitSet
    <3>2. sp'.pc = "idle" /\ sp'.drv # STATE_RUNNING /\ sp'.asked = sp.asked
      BY <1>0, <2>1, StatesDiffer DEF IoctlClear, SplitSet
    <3> QED
      BY <1>10, <3>1, <3>2 DEF StopDriver, Steered, Complete, Obeys
  <2>2. CASE sp' = [sp EXCEPT !.pc = "idle"] /\ "clear" \in StFaults
    <3>1. sp' \in SplitSet
      BY <1>0, <2>2, SplitParts, SMTT(30) DEF SplitSet
    <3>2. sp'.pc = "idle" /\ sp'.drv = sp.drv /\ sp'.apps = sp.apps /\ sp'.tunAddr = sp.tunAddr /\ sp'.inet = sp.inet
      BY <1>0, <2>2, SMTT(30) DEF SplitSet
    <3> QED
      BY <2>2, <3>1, <3>2 DEF Steered, Complete
  <2> QED
    BY <1>10, <2>1, <2>2, Zenon DEF StopDriver, MayFail
<1>11. CASE Down
  <2>1. sp' \in SplitSet
    BY <1>0, <1>11, SplitParts, ZenonT(40) DEF Down, SplitSet
  <2>2. sp'.pc = "stop" /\ sp'.asked = {} /\ sp'.drv = sp.drv /\ sp'.apps = sp.apps /\ sp'.tunAddr = sp.tunAddr /\ sp'.inet = sp.inet
    BY <1>0, <1>11 DEF Down, SplitSet
  <2> QED
    BY <2>1, <2>2, SMTT(30) DEF Steered, Complete, Obeys
<1>12. CASE LinksChange
  <2>1. PICK links \in SUBSET Adapters, best \in AdapterRefs : sp' = [sp EXCEPT !.links = links, !.best = best]
    BY <1>12, Zenon DEF LinksChange, AdapterRefs
  <2>2. sp' \in SplitSet
    BY <1>0, <2>1, SplitParts, ZenonT(40) DEF SplitSet
  <2>3. /\ sp'.pc = sp.pc /\ sp'.asked = sp.asked /\ sp'.drv = sp.drv /\ sp'.apps = sp.apps /\ sp'.tunAddr = sp.tunAddr
        /\ sp'.inet = sp.inet /\ sp'.mgr = sp.mgr /\ sp'.reported = sp.reported
    BY <1>0, <2>1 DEF SplitSet
  <2> QED
    BY <2>2, <2>3 DEF Steered, Complete, Obeys
<1>13. CASE Machine
  <2>1. PICK own \in BOOLEAN, legacy \in BOOLEAN, mullvad \in BOOLEAN, device \in BOOLEAN :
          sp' = [sp EXCEPT !.own = own, !.legacy = legacy, !.mullvad = mullvad, !.device = device, !.spent = 1]
    BY <1>13, Zenon DEF Machine
  <2>2. sp' \in SplitSet
    <3> DEFINE s == [sp EXCEPT !.own = own, !.legacy = legacy]
               t == [s EXCEPT !.mullvad = mullvad, !.device = device]
    <3>1. s \in SplitSet
      BY <1>0, Zenon DEF SplitSet
    <3>2. sp' = [t EXCEPT !.spent = 1]
      BY <2>1
    <3> HIDE DEF s
    <3>3. t \in SplitSet
      BY <3>1, ZenonT(40) DEF SplitSet
    <3> HIDE DEF t
    <3> QED
      BY <3>2, <3>3, SplitParts, SMTT(30) DEF SplitSet
  <2>3. /\ sp'.pc = sp.pc /\ sp'.asked = sp.asked /\ sp'.drv = sp.drv /\ sp'.apps = sp.apps /\ sp'.tunAddr = sp.tunAddr
        /\ sp'.inet = sp.inet /\ sp'.mgr = sp.mgr /\ sp'.reported = sp.reported
    BY <1>0, <2>1 DEF SplitSet
  <2> QED
    BY <2>2, <2>3 DEF Steered, Complete, Obeys
<1>14. CASE SplitServiceDies
  <2>1. sp' \in SplitSet
    BY <1>0, <1>14, SplitParts, ZenonT(40) DEF SplitServiceDies, SplitSet
  <2>2. sp'.pc = "off" /\ sp'.mgr = FALSE /\ sp'.asked = {} /\ sp'.drv = sp.drv /\ sp'.apps = sp.apps /\ sp'.tunAddr = sp.tunAddr /\ sp'.inet = sp.inet
    BY <1>0, <1>14 DEF SplitServiceDies, SplitSet
  <2> QED
    BY <2>1, <2>2, SMTT(30) DEF Steered, Complete, Obeys
<1>15. CASE UNCHANGED sp
  BY <1>15
<1> QED
  BY <1>1, <1>2, <1>3, <1>4, <1>5, <1>6, <1>7, <1>8, <1>9, <1>10, <1>11, <1>12, <1>13, <1>14, <1>15 DEF SplitNext

(* For any list of applications and whichever control call fails, between  *)
(* any two control calls and after any death of the service: a driver that *)
(* enforces knows an application and two different adapters.               *)
THEOREM EngagedDriverIsComplete == SplitSpec => []EngagedIsComplete
<1>1. SplitInv => EngagedIsComplete
  BY DEF SplitInv, Steered, Complete, EngagedIsComplete
<1> QED
  BY <1>1, SplitInitial, SplitStepKeeps, PTL DEF SplitSpec

(* For any list of applications, when a driver that is told to be passive  *)
(* obeys: a session has exactly the exclusions it asked for or a report,   *)
(* and nothing of an earlier session or service is enforced.               *)
THEOREM DriverObeysSession ==
    ASSUME "clear" \notin StFaults
    PROVE  SplitSpec => []DriverFollowsSession
<1>1. SplitInv => DriverFollowsSession
  BY SMTT(30) DEF SplitInv, Steered, Complete, Obeys, DriverFollowsSession, EngagedIsComplete, ExclusionsOrReport, NothingAskedIsPassive
<1> QED
  BY <1>1, SplitInitial, SplitStepKeeps, PTL DEF SplitSpec

-----------------------------------------------------------------------------
(* WindowsFirewall: the filters that are in force, by what was asked.       *)
\* The names that enablePeerTraffic files filters under.
PeerNames == WfpPeers \cup {"openvpn"}

\* The filters of enableInterface, and the two exceptions of no peer.
BaseFilters ==
    { allowTrafficOfAdapter("vpn"), allowTrafficOfAdapter("loop"), allowDHCPTraffic, allowHyperVTraffic,
      allowTrafficForAppOnAll, blockTrafficOnPort }
LanRule == allowTrafficTo({"lan"}, Low + 1, "")
RangeRule == allowTrafficTo({"gateway"}, High, "")

\* A peer's rule whose exceptions the session was told of; in a WireGuard
\* session the peer is one of its own.
Covered(s, q, m) ==
    s.clean => /\ ExcludedAddresses(q, m) \subseteq s.let
               /\ s.sess = "wg" => q \in s.cur /\ m = s.mode

\* m_activeRules holds filters of the fixed list and exceptions asked for.
ActiveKnown(s) ==
    \A f \in s.active :
        \/ f \in BaseFilters
        \/ f = LanRule /\ "lan" \in s.let
        \/ f = RangeRule /\ "gateway" \in s.let

\* m_peerRules holds filters of peers that were enabled, with their mode.
PeersKnown(s) ==
    \A f \in s.peers :
        f = BlockAll \/ \E q \in PeerNames, m \in SplitModes : f \in PeerRules(q, m) /\ Covered(s, q, m)

\* A session that came up has its filters.
SealHolds(s) ==
    s.ok => /\ s.clean /\ s.sess # "none"
            /\ allowTrafficOfAdapter("vpn") \in s.active
            /\ \A q \in s.sealed : PeerRules(q, s.mode) \subseteq s.peers

FwFields == {"strict", "alive", "sess", "mode", "cur", "active", "peers", "orphans", "ranges", "ok",
             "sealed", "opened", "let", "clean"}

\* What every intermediate state of a call satisfies.
FwBase(s) ==
    /\ DOMAIN s = FwFields
    /\ s.orphans = {}
    /\ s.ranges \subseteq {"gateway"}
    /\ s.mode \in SplitModes /\ s.cur \subseteq PeerNames /\ s.sealed \subseteq PeerNames
    /\ ActiveKnown(s)
    /\ PeersKnown(s)

\* The inductive invariant.
FwInv(s) ==
    /\ FwBase(s)
    /\ SealHolds(s)
    /\ s.strict /\ s.alive /\ s.sess = "none" => BlockAll \in s.peers
    /\ s.opened => s.active = {} /\ s.peers = {}
    /\ ~s.alive => s.active = {} /\ s.peers = {}

-----------------------------------------------------------------------------
(* The filters *)

\* The filters of a peer are filed under its public key (enablePeerTraffic).
LEMMA PeerRuleOwner ==
    \A q, m : \A f \in PeerRules(q, m) : f.peer = q
BY DEF PeerRules, blockTrafficTo, allowTrafficToPort, allowTrafficTo, Filter

\* The filter of disableAllTraffic is filed under its own name.
LEMMA BlockAllOwner == BlockAll.peer = "killswitch" /\ BlockAll.act = "block"
BY DEF BlockAll, blockTrafficTo, Filter

\* The exceptions for the LAN and for a range belong to no peer.
LEMMA ActiveOwners == LanRule.peer = "" /\ RangeRule.peer = ""
BY DEF LanRule, RangeRule, allowTrafficTo, Filter

\* However many steps of enableInterface were committed, they added filters of
\* the fixed list; all six with the adapter permit its traffic.
LEMMA BaseRulesKnown ==
    ASSUME NEW iface \in {"vpn", "none"}, NEW k \in 0 .. 6
    PROVE  /\ UNION {BaseRules(iface)[i] : i \in 1 .. k} \subseteq BaseFilters
           /\ iface = "vpn" /\ k = 6 => allowTrafficOfAdapter("vpn") \in UNION {BaseRules(iface)[i] : i \in 1 .. k}
<1>1. ASSUME NEW i \in 1 .. k PROVE BaseRules(iface)[i] \subseteq BaseFilters
  <2>1. i = 1 \/ i = 2 \/ i = 3 \/ i = 4 \/ i = 5 \/ i = 6
    OBVIOUS
  <2> QED BY <2>1, SMTT(30) DEF BaseRules, BaseFilters
<1>2. BaseRules("vpn")[1] = {allowTrafficOfAdapter("vpn")}
  BY SMTT(30) DEF BaseRules
<1> QED BY <1>1, <1>2, SMTT(30)

-----------------------------------------------------------------------------
(* The calls on the firewall *)

\* A call on the firewall leaves the fields of its callers alone.
Kept(s, t) ==
    /\ t.strict = s.strict /\ t.alive = s.alive /\ t.sess = s.sess /\ t.mode = s.mode /\ t.cur = s.cur
    /\ t.ok = s.ok /\ t.sealed = s.sealed /\ t.opened = s.opened

\* A call adds filters, of peers at most the one that blocks everything.
Grown(s, t) ==
    /\ Kept(s, t)
    /\ s.active \subseteq t.active /\ s.peers \subseteq t.peers
    /\ t.peers \subseteq s.peers \cup {BlockAll}

\* CommittedRules: what enableInterface has added when it stops after k steps.
LEMMA CommittedBase ==
    ASSUME NEW s, FwBase(s), NEW iface \in {"vpn", "none"}, NEW k \in 0 .. 6
    PROVE  LET t == CommittedRules(s, iface, k)
           IN  /\ FwBase(t) /\ Grown(s, t)
               /\ t.clean = s.clean /\ t.let = s.let /\ t.ranges = s.ranges
               /\ iface = "vpn" => t.peers = s.peers
               /\ iface = "vpn" /\ k = 6 => allowTrafficOfAdapter("vpn") \in t.active
               /\ iface = "none" /\ k > 0 => BlockAll \in t.peers
<1> DEFINE t == CommittedRules(s, iface, k)
           more == UNION {BaseRules(iface)[i] : i \in 1 .. k}
           wall == IF iface = "none" /\ k > 0 THEN {BlockAll} ELSE {}
<1>1. more \subseteq BaseFilters /\ (iface = "vpn" /\ k = 6 => allowTrafficOfAdapter("vpn") \in more)
  BY BaseRulesKnown, SMTT(30)
<1>2. t = [s EXCEPT !.active = @ \cup more, !.peers = @ \cup wall]
  BY SMTT(30) DEF CommittedRules
<1> HIDE DEF more, t
<1>3. DOMAIN s = FwFields
  BY DEF FwBase
<1>4. /\ DOMAIN t = FwFields /\ t.active = s.active \cup more /\ t.peers = s.peers \cup wall
      /\ t.strict = s.strict /\ t.alive = s.alive /\ t.sess = s.sess /\ t.mode = s.mode /\ t.cur = s.cur
      /\ t.ok = s.ok /\ t.sealed = s.sealed /\ t.opened = s.opened
      /\ t.clean = s.clean /\ t.let = s.let /\ t.ranges = s.ranges /\ t.orphans = s.orphans
  BY <1>2, <1>3, SMTT(30) DEF FwFields
<1>5. ActiveKnown(t)
  BY <1>1, <1>4, SMTT(30) DEF ActiveKnown, FwBase
<1>6. PeersKnown(t)
  BY <1>4, SMTT(30) DEF PeersKnown, FwBase, Covered
<1>7. FwBase(t)
  BY <1>4, <1>5, <1>6, SMTT(30) DEF FwBase
<1> HIDE DEF t
<1>8. Grown(s, t)
  BY <1>4, SMTT(30) DEF Grown, Kept
<1>9. /\ t.clean = s.clean /\ t.let = s.let /\ t.ranges = s.ranges
      /\ iface = "vpn" => t.peers = s.peers
      /\ iface = "vpn" /\ k = 6 => allowTrafficOfAdapter("vpn") \in t.active
      /\ iface = "none" /\ k > 0 => BlockAll \in t.peers
  BY <1>4, <1>1, SMTT(30)
<1> QED BY <1>7, <1>8, <1>9, SMTT(30) DEF t

\* Setting clean to FALSE only forgets.
LEMMA UncleanBase ==
    ASSUME NEW s, FwBase(s)
    PROVE  LET t == [s EXCEPT !.clean = FALSE]
           IN  /\ FwBase(t) /\ Kept(s, t) /\ t.active = s.active /\ t.peers = s.peers
               /\ t.let = s.let /\ t.ranges = s.ranges
<1> DEFINE t == [s EXCEPT !.clean = FALSE]
<1>3. DOMAIN s = FwFields
  BY DEF FwBase
<1>4. /\ DOMAIN t = FwFields /\ t.active = s.active /\ t.peers = s.peers
      /\ t.strict = s.strict /\ t.alive = s.alive /\ t.sess = s.sess /\ t.mode = s.mode /\ t.cur = s.cur
      /\ t.ok = s.ok /\ t.sealed = s.sealed /\ t.opened = s.opened
      /\ t.let = s.let /\ t.ranges = s.ranges /\ t.orphans = s.orphans
  BY <1>3, SMTT(30) DEF FwFields
<1>5. ~t.clean
  BY <1>3, SMTT(30) DEF FwFields
<1> HIDE DEF t
<1>6. ActiveKnown(t)
  BY <1>4, SMTT(30) DEF ActiveKnown, FwBase
<1>7. PeersKnown(t)
  BY <1>4, <1>5, SMTT(30) DEF PeersKnown, FwBase, Covered
<1>8. FwBase(t) /\ Kept(s, t)
  BY <1>4, <1>6, <1>7, SMTT(30) DEF FwBase, Kept
<1> QED BY <1>8, <1>4, SMTT(30) DEF t

\* allowAllTraffic
LEMMA AllowAllBase ==
    ASSUME NEW s, FwBase(s), NEW flt
    PROVE  LET t == allowAllTraffic(s, flt)
           IN  /\ FwBase(t) /\ Kept(s, t) /\ t.peers \subseteq s.peers
               /\ flt.kind \notin {"begin", "commit"} => t.active = {} /\ t.peers = {} /\ t.clean
<1> DEFINE t == allowAllTraffic(s, flt)
<1>1. CASE flt.kind \in {"begin", "commit"}
  BY <1>1, UncleanBase, SMTT(30) DEF allowAllTraffic
<1>2. CASE flt.kind \notin {"begin", "commit"}
  <2>1. t = [s EXCEPT !.active = {}, !.peers = {}, !.let = {}, !.clean = TRUE]
    BY <1>2, SMTT(30) DEF allowAllTraffic
  <2> HIDE DEF t
  <2>2. DOMAIN s = FwFields
    BY DEF FwBase
  <2>3. /\ DOMAIN t = FwFields /\ t.active = {} /\ t.peers = {} /\ t.clean
        /\ t.strict = s.strict /\ t.alive = s.alive /\ t.sess = s.sess /\ t.mode = s.mode /\ t.cur = s.cur
        /\ t.ok = s.ok /\ t.sealed = s.sealed /\ t.opened = s.opened
        /\ t.ranges = s.ranges /\ t.orphans = s.orphans
    BY <2>1, <2>2, SMTT(30) DEF FwFields
  <2>4. FwBase(t) /\ Kept(s, t)
    BY <2>3, SMTT(30) DEF FwBase, Kept, ActiveKnown, PeersKnown
  <2> QED BY <2>3, <2>4, SMTT(30) DEF t
<1> QED BY <1>1, <1>2, SMTT(30)

\* disableAllTraffic, and disableKillSwitch after a failed call
LEMMA DisableAllBase ==
    ASSUME NEW s, FwBase(s)
    PROVE  LET t == disableAllTraffic(s)
           IN  FwBase(t) /\ Grown(s, t) /\ BlockAll \in t.peers
<1> DEFINE c == CommittedRules(s, "none", 6)
           t == [c EXCEPT !.ranges = {}]
<1>1. FwBase(c) /\ Grown(s, c) /\ BlockAll \in c.peers
  BY CommittedBase, SMTT(30)
<1> HIDE DEF c
<1>2. DOMAIN c = FwFields
  BY <1>1, SMTT(30) DEF FwBase
<1>3. /\ DOMAIN t = FwFields /\ t.active = c.active /\ t.peers = c.peers /\ t.ranges = {}
      /\ t.strict = c.strict /\ t.alive = c.alive /\ t.sess = c.sess /\ t.mode = c.mode /\ t.cur = c.cur
      /\ t.ok = c.ok /\ t.sealed = c.sealed /\ t.opened = c.opened
      /\ t.let = c.let /\ t.orphans = c.orphans /\ t.clean = c.clean
  BY <1>2, SMTT(30) DEF FwFields
<1> HIDE DEF t
<1>4. ActiveKnown(t) /\ PeersKnown(t)
  BY <1>1, <1>3, SMTT(30) DEF ActiveKnown, PeersKnown, Covered, FwBase
<1>5. FwBase(t) /\ Grown(s, t) /\ BlockAll \in t.peers
  BY <1>1, <1>3, <1>4, SMTT(30) DEF FwBase, Grown, Kept
<1>6. disableAllTraffic(s) = t
  BY SMTT(30) DEF disableAllTraffic, t, c
<1> QED BY <1>5, <1>6, SMTT(30)

\* What a failed call does to the filters: strict mode blocks, else all go.
LEMMA CleanupBase ==
    ASSUME NEW s, FwBase(s)
    PROVE  LET t == CleanupKillSwitch(s)
           IN  /\ FwBase(t) /\ Kept(s, t)
               /\ t.peers \subseteq s.peers \cup {BlockAll}
               /\ s.strict => BlockAll \in t.peers
               /\ ~s.strict => t.active = {} /\ t.peers = {}
<1> DEFINE t == CleanupKillSwitch(s)
           d == disableAllTraffic(s)
<1>1. CASE s.strict
  <2>1. FwBase(d) /\ Grown(s, d) /\ BlockAll \in d.peers
    BY DisableAllBase, SMTT(30)
  <2>2. t = [d EXCEPT !.clean = FALSE]
    BY <1>1, SMTT(30) DEF CleanupKillSwitch
  <2> HIDE DEF d, t
  <2>3. FwBase(t) /\ Kept(d, t) /\ t.peers = d.peers
    BY <2>1, <2>2, UncleanBase, SMTT(30)
  <2>4. FwBase(t) /\ Kept(s, t) /\ t.peers \subseteq s.peers \cup {BlockAll} /\ BlockAll \in t.peers
    BY <2>1, <2>3, SMTT(30) DEF Grown, Kept
  <2> QED BY <2>4, <1>1, SMTT(30) DEF t
<1>2. CASE ~s.strict
  <2>1. t = allowAllTraffic(s, NoFault)
    BY <1>2, SMTT(30) DEF CleanupKillSwitch
  <2>2. NoFault.kind \notin {"begin", "commit"}
    BY SMTT(30) DEF NoFault
  <2> HIDE DEF t
  <2>3. FwBase(t) /\ Kept(s, t) /\ t.active = {} /\ t.peers = {}
    BY <2>1, <2>2, AllowAllBase, ZenonT(40)
  <2> QED BY <2>3, <1>2, SMTT(30) DEF t
<1> QED BY <1>1, <1>2, SMTT(30)

\* A fault of enableInterface happens at one of its steps.
LEMMA FaultParts ==
    ASSUME NEW n \in {1, 6}, NEW flt \in FaultsUpTo(n)
    PROVE  /\ flt.at \in 0 .. n
           /\ flt.at = 0 => flt.kind = "none"
BY DEF FaultsUpTo, NoFault

\* A call without a fault.
LEMMA NoFaultParts == NoFault.at = 0 /\ NoFault.kind = "none" /\ \A n : NoFault \in FaultsUpTo(n)
BY DEF FaultsUpTo, NoFault

\* enableInterface
LEMMA EnableBase ==
    ASSUME "block" \notin WfpFaults,
           NEW s, FwBase(s), NEW iface \in {"vpn", "none"}, NEW flt \in FaultsUpTo(6)
    PROVE  LET t == enableInterface(s, iface, flt)
           IN  /\ FwBase(t) /\ Kept(s, t)
               /\ t.peers \subseteq s.peers \cup {BlockAll}
               /\ flt.at = 0 => /\ Grown(s, t) /\ t.clean = s.clean
                                /\ iface = "vpn" => allowTrafficOfAdapter("vpn") \in t.active
               /\ iface = "none" /\ s.strict => BlockAll \in t.peers
<1> DEFINE t == enableInterface(s, iface, flt)
<1>0. flt.at \in 0 .. 6
  BY FaultParts, SMTT(30)
<1>1. CASE flt.at = 0 \/ (iface = "none" /\ flt.at = 1)
  <2>1. t = CommittedRules(s, iface, 6)
    BY <1>1, SMTT(30) DEF enableInterface
  <2>2. 6 \in 0 .. 6
    BY SMTT(30)
  <2> HIDE DEF t
  <2>3. FwBase(t) /\ Grown(s, t) /\ t.clean = s.clean
        /\ (iface = "vpn" => allowTrafficOfAdapter("vpn") \in t.active)
        /\ (iface = "none" => BlockAll \in t.peers)
    BY <2>1, <2>2, CommittedBase, SMTT(30)
  <2> QED BY <2>3, SMTT(30) DEF Grown, t
<1>2. CASE flt.at # 0 /\ ~(iface = "none" /\ flt.at = 1)
  <2> DEFINE c == CommittedRules(s, iface, flt.at - 1)
  <2>1. flt.at - 1 \in 0 .. 6 /\ (iface = "none" => flt.at - 1 > 0)
    BY <1>0, <1>2, SMTT(30)
  <2>2. FwBase(c) /\ Grown(s, c) /\ (iface = "none" => BlockAll \in c.peers)
    BY <2>1, CommittedBase, SMTT(30)
  <2> HIDE DEF c
  <2>3. CASE flt.kind = "commit"
    <3>1. t = [c EXCEPT !.clean = FALSE]
      BY <1>2, <2>3, SMTT(30) DEF enableInterface, c
    <3> HIDE DEF t
    <3>2. FwBase(t) /\ Kept(c, t) /\ t.peers = c.peers
      BY <2>2, <3>1, UncleanBase, SMTT(30)
    <3> QED BY <3>2, <2>2, <1>2, SMTT(30) DEF Grown, Kept, t
  <2>4. CASE flt.kind # "commit"
    <3>1. t = CleanupKillSwitch(c)
      BY <1>2, <2>4, SMTT(30) DEF enableInterface, c
    <3> HIDE DEF t
    <3>2. FwBase(t) /\ Kept(c, t) /\ t.peers \subseteq c.peers \cup {BlockAll}
          /\ (c.strict => BlockAll \in t.peers)
      BY <2>2, <3>1, CleanupBase, SMTT(30)
    <3> QED BY <3>2, <2>2, <1>2, SMTT(30) DEF Grown, Kept, t
  <2> QED BY <2>3, <2>4, SMTT(30)
<1> QED BY <1>1, <1>2

\* disableKillSwitch
LEMMA DisableBase ==
    ASSUME "block" \notin WfpFaults,
           NEW s, FwBase(s), NEW flt \in FaultsUpTo(6)
    PROVE  LET t == disableKillSwitch(s, flt)
           IN  /\ FwBase(t) /\ Kept(s, t)
               /\ t.peers \subseteq s.peers \cup {BlockAll}
               /\ s.strict => BlockAll \in t.peers
               /\ ~s.strict /\ flt.at = 0 => t.active = {} /\ t.peers = {}
<1> DEFINE t == disableKillSwitch(s, flt)
<1>1. CASE s.strict
  <2> DEFINE c == enableInterface(s, "none", flt)
  <2>1. /\ FwBase(c) /\ Kept(s, c) /\ c.peers \subseteq s.peers \cup {BlockAll} /\ BlockAll \in c.peers
    BY <1>1, EnableBase, SMTT(30)
  <2>2. t = [c EXCEPT !.ranges = {}]
    BY <1>1, SMTT(30) DEF disableKillSwitch
  <2> HIDE DEF c, t
  <2>3. DOMAIN c = FwFields
    BY <2>1, SMTT(30) DEF FwBase
  <2>4. /\ DOMAIN t = FwFields /\ t.active = c.active /\ t.peers = c.peers /\ t.ranges = {}
        /\ t.strict = c.strict /\ t.alive = c.alive /\ t.sess = c.sess /\ t.mode = c.mode /\ t.cur = c.cur
        /\ t.ok = c.ok /\ t.sealed = c.sealed /\ t.opened = c.opened
        /\ t.let = c.let /\ t.orphans = c.orphans /\ t.clean = c.clean
    BY <2>2, <2>3, SMTT(30) DEF FwFields
  <2>5. ActiveKnown(t) /\ PeersKnown(t)
    BY <2>1, <2>4, SMTT(30) DEF ActiveKnown, PeersKnown, Covered, FwBase
  <2>6. FwBase(t) /\ Kept(s, t)
    BY <2>1, <2>4, <2>5, SMTT(30) DEF FwBase, Kept
  <2> QED BY <2>1, <2>4, <2>6, <1>1, SMTT(30) DEF t
<1>2. CASE ~s.strict
  <2>1. t = allowAllTraffic(s, flt)
    BY <1>2, SMTT(30) DEF disableKillSwitch
  <2>2. flt.at = 0 => flt.kind \notin {"begin", "commit"}
    BY FaultParts, SMTT(30)
  <2> HIDE DEF t
  <2>3. /\ FwBase(t) /\ Kept(s, t) /\ t.peers \subseteq s.peers
        /\ flt.kind \notin {"begin", "commit"} => t.active = {} /\ t.peers = {}
    BY <2>1, AllowAllBase, Zenon
  <2> QED BY <2>2, <2>3, <1>2, SMTT(30) DEF t
<1> QED BY <1>1, <1>2, SMTT(30)

\* Letting more out
LEMMA LetBase ==
    ASSUME NEW s, FwBase(s), NEW dsts
    PROVE  LET t == Let(s, dsts)
           IN  /\ FwBase(t) /\ Grown(s, t) /\ t.peers = s.peers /\ t.active = s.active
               /\ t.let = s.let \cup dsts /\ t.clean = s.clean
<1> DEFINE t == Let(s, dsts)
<1>1. t = [s EXCEPT !.let = @ \cup dsts]
  BY DEF Let
<1> HIDE DEF t
<1>2. DOMAIN s = FwFields
  BY DEF FwBase
<1>3. /\ DOMAIN t = FwFields /\ t.active = s.active /\ t.peers = s.peers
      /\ t.strict = s.strict /\ t.alive = s.alive /\ t.sess = s.sess /\ t.mode = s.mode /\ t.cur = s.cur
      /\ t.ok = s.ok /\ t.sealed = s.sealed /\ t.opened = s.opened /\ t.ranges = s.ranges
      /\ t.let = s.let \cup dsts /\ t.orphans = s.orphans /\ t.clean = s.clean
  BY <1>1, <1>2, SMTT(30) DEF FwFields
<1>4. ActiveKnown(t)
  BY <1>3, SMTT(30) DEF ActiveKnown, FwBase
<1>5. PeersKnown(t)
  <2> SUFFICES ASSUME NEW f \in t.peers, f # BlockAll
               PROVE  \E q \in PeerNames, m \in SplitModes : f \in PeerRules(q, m) /\ Covered(t, q, m)
    BY SMTT(30) DEF PeersKnown
  <2>1. PICK q \in PeerNames, m \in SplitModes : f \in PeerRules(q, m) /\ Covered(s, q, m)
    BY <1>3, SMTT(30) DEF PeersKnown, FwBase
  <2>2. Covered(t, q, m)
    BY <1>3, <2>1, SMTT(30) DEF Covered
  <2> QED BY <2>1, <2>2, SMTT(30)
<1>6. FwBase(t) /\ Grown(s, t)
  BY <1>3, <1>4, <1>5, SMTT(30) DEF FwBase, Grown, Kept
<1> QED BY <1>3, <1>6 DEF t

-----------------------------------------------------------------------------
(* The callers *)

\* What a caller notes in its history leaves the filters known.
LEMMA NotedBase ==
    ASSUME NEW t, FwBase(t), NEW w, DOMAIN w = FwFields,
           w.active = t.active, w.peers = t.peers, w.orphans = t.orphans, w.ranges = t.ranges,
           w.let = t.let, w.clean = t.clean,
           w.mode \in SplitModes, w.cur \subseteq PeerNames, w.sealed \subseteq PeerNames,
           w.sess = "wg" => \/ t.sess = "wg" /\ w.mode = t.mode /\ t.cur \subseteq w.cur
                            \/ t.peers \subseteq {BlockAll}
    PROVE  FwBase(w)
<1>1. ActiveKnown(w)
  BY SMTT(30) DEF ActiveKnown, FwBase
<1>2. PeersKnown(w)
  <2> SUFFICES ASSUME NEW f \in w.peers, f # BlockAll
               PROVE  \E q \in PeerNames, m \in SplitModes : f \in PeerRules(q, m) /\ Covered(w, q, m)
    BY SMTT(30) DEF PeersKnown
  <2>1. PICK q \in PeerNames, m \in SplitModes : f \in PeerRules(q, m) /\ Covered(t, q, m)
    BY SMTT(30) DEF PeersKnown, FwBase
  <2>2. Covered(w, q, m)
    BY <2>1, SMTT(30) DEF Covered
  <2> QED BY <2>1, <2>2, SMTT(30)
<1> QED BY <1>1, <1>2, SMTT(30) DEF FwBase

\* The invariant holds when the service starts on a machine without filters.
LEMMA FirewallStarts == FirewallInit => FwInv(wf)
<1> SUFFICES ASSUME FirewallInit PROVE FwInv(wf)
  BY SMTT(30)
<1>1. /\ DOMAIN wf = FwFields /\ wf.orphans = {} /\ wf.ranges = {} /\ wf.mode = 0 /\ wf.cur = {} /\ wf.sealed = {}
      /\ wf.active = {} /\ wf.peers = {}
  BY SMTT(30) DEF FirewallInit, FwFields
<1>2. ~wf.ok /\ ~wf.strict
  BY ZenonT(40) DEF FirewallInit
<1> QED BY <1>1, <1>2, SMTT(30) DEF FwInv, FwBase, SealHolds, ActiveKnown, PeersKnown, SplitModes

\* KillSwitch::refresh keeps the invariant.
LEMMA RefreshKeeps ==
    ASSUME "block" \notin WfpFaults, FwInv(wf), Refresh PROVE FwInv(wf')
<1>1. PICK on \in BOOLEAN, flt \in FaultsUpTo(6) :
        wf' = [disableKillSwitch([wf EXCEPT !.strict = on], flt) EXCEPT !.opened = ~on /\ ~Failed(flt)]
  BY ZenonT(60) DEF Refresh
<1> DEFINE s == [wf EXCEPT !.strict = on]
           t == disableKillSwitch(s, flt)
<1>2. DOMAIN wf = FwFields /\ FwBase(wf) /\ wf.alive /\ wf.sess = "none"
  BY DEF FwInv, FwBase, Refresh
<1>3. /\ DOMAIN s = FwFields /\ s.strict = on
      /\ s.active = wf.active /\ s.peers = wf.peers /\ s.orphans = wf.orphans /\ s.ranges = wf.ranges
      /\ s.let = wf.let /\ s.clean = wf.clean /\ s.mode = wf.mode /\ s.cur = wf.cur /\ s.sealed = wf.sealed
      /\ s.sess = wf.sess /\ s.ok = wf.ok /\ s.alive = wf.alive
  BY <1>2, Zenon DEF FwFields
<1> HIDE DEF s
<1>4. FwBase(s)
  BY <1>2, <1>3, NotedBase, ZenonT(40) DEF FwBase
<1>5. /\ FwBase(t) /\ Kept(s, t)
      /\ t.peers \subseteq s.peers \cup {BlockAll}
      /\ s.strict => BlockAll \in t.peers
      /\ ~s.strict /\ flt.at = 0 => t.active = {} /\ t.peers = {}
  BY <1>4, DisableBase, SMTT(30)
<1>6. wf' = [t EXCEPT !.opened = ~on /\ ~Failed(flt)]
  BY <1>1, SMTT(30) DEF s, t
<1> HIDE DEF t
<1>7. DOMAIN t = FwFields
  BY <1>5, SMTT(30) DEF FwBase
<1>8. /\ DOMAIN wf' = FwFields /\ wf'.opened = (~on /\ ~Failed(flt))
      /\ wf'.active = t.active /\ wf'.peers = t.peers /\ wf'.orphans = t.orphans /\ wf'.ranges = t.ranges
      /\ wf'.let = t.let /\ wf'.clean = t.clean /\ wf'.mode = t.mode /\ wf'.cur = t.cur /\ wf'.sealed = t.sealed
      /\ wf'.sess = t.sess /\ wf'.ok = t.ok /\ wf'.alive = t.alive /\ wf'.strict = t.strict
  BY <1>6, <1>7, SMTT(30) DEF FwFields
<1>9. /\ wf'.sess = "none" /\ wf'.ok = wf.ok /\ wf'.alive = wf.alive /\ wf'.strict = on /\ t.strict = on
  BY <1>2, <1>3, <1>5, <1>8, SMTT(30) DEF Kept
<1>10. ~wf'.ok /\ wf'.alive
  BY <1>2, <1>9, SMTT(30) DEF FwInv, SealHolds
<1>11. FwBase(wf')
  BY <1>5, <1>8, <1>9, NotedBase, ZenonT(40) DEF FwBase
<1>12. on => BlockAll \in wf'.peers
  BY <1>3, <1>5, <1>8
<1>13. wf'.opened => ~on /\ flt.at = 0
  BY <1>8, ZenonT(40) DEF Failed
<1>14. wf'.opened => wf'.active = {} /\ wf'.peers = {}
  BY <1>3, <1>5, <1>8, <1>13
<1> QED BY <1>9, <1>10, <1>11, <1>12, <1>14, SMTT(30) DEF FwInv, SealHolds

\* WireguardUtilsWindows::addInterface
LEMMA AddInterfaceKeeps ==
    ASSUME "block" \notin WfpFaults, FwInv(wf), AddInterface PROVE FwInv(wf')
<1> DEFINE s == allowAllTraffic(wf, NoFault)
<1>1. PICK mode \in SplitModes, flt \in FaultsUpTo(6) :
        wf' = [enableInterface(s, "vpn", flt) EXCEPT
                 !.sess = "wg", !.mode = mode, !.ok = ~Failed(flt), !.sealed = {}, !.opened = FALSE]
  BY Zenon DEF AddInterface
<1> DEFINE t == enableInterface(s, "vpn", flt)
<1>2. FwBase(wf) /\ wf.alive
  BY SMTT(30) DEF FwInv, AddInterface
<1>3. FwBase(s) /\ Kept(wf, s) /\ s.active = {} /\ s.peers = {} /\ s.clean
  BY <1>2, AllowAllBase, NoFaultParts, Zenon
<1> HIDE DEF s
<1>4. /\ FwBase(t) /\ Kept(s, t)
      /\ t.peers \subseteq s.peers \cup {BlockAll}
      /\ flt.at = 0 => Grown(s, t) /\ t.clean = s.clean /\ allowTrafficOfAdapter("vpn") \in t.active
  BY <1>3, EnableBase, Zenon
<1>5. wf' = [t EXCEPT !.sess = "wg", !.mode = mode, !.ok = ~Failed(flt), !.sealed = {}, !.opened = FALSE]
  BY <1>1
<1> HIDE DEF t
<1>7. DOMAIN t = FwFields
  BY <1>4 DEF FwBase
<1>8. /\ DOMAIN wf' = FwFields /\ wf'.ok = ~Failed(flt) /\ wf'.sess = "wg" /\ wf'.mode = mode /\ wf'.sealed = {}
      /\ wf'.active = t.active /\ wf'.peers = t.peers /\ wf'.orphans = t.orphans /\ wf'.ranges = t.ranges
      /\ wf'.let = t.let /\ wf'.clean = t.clean /\ wf'.cur = t.cur
      /\ wf'.alive = t.alive /\ wf'.strict = t.strict
  BY <1>5, <1>7, SMTT(30) DEF FwFields
<1>9. ~wf'.opened
  BY <1>5, <1>7, SMTT(30) DEF FwFields
<1>10. wf'.alive
  BY <1>2, <1>3, <1>4, <1>8, SMTT(30) DEF Kept
<1>11. FwBase(wf')
  BY <1>3, <1>4, <1>8, NotedBase, Zenon DEF FwBase
<1>12. wf'.ok => flt.at = 0
  BY <1>8, Zenon DEF Failed
<1>13. SealHolds(wf')
  BY <1>3, <1>4, <1>8, <1>12, ZenonT(40) DEF SealHolds
<1> QED BY <1>8, <1>9, <1>10, <1>11, <1>13, SMTT(30) DEF FwInv

\* KillSwitch::enableKillSwitch of an Xray session
LEMMA EnableKillSwitchKeeps ==
    ASSUME "block" \notin WfpFaults, FwInv(wf), EnableKillSwitch PROVE FwInv(wf')
<1>1. PICK mode \in SplitModes, flt \in FaultsUpTo(6) :
        LET s == IF mode # 0 THEN allowAllTraffic(wf, NoFault) ELSE wf
        IN  wf' = [enableInterface(s, "vpn", flt) EXCEPT
                     !.sess = "xray", !.mode = mode, !.ok = ~Failed(flt) /\ s.clean, !.sealed = {}, !.opened = FALSE]
  BY Zenon DEF EnableKillSwitch
<1> DEFINE s == IF mode # 0 THEN allowAllTraffic(wf, NoFault) ELSE wf
           t == enableInterface(s, "vpn", flt)
<1>2. FwBase(wf) /\ wf.alive
  BY SMTT(30) DEF FwInv, EnableKillSwitch
<1>3. FwBase(s) /\ Kept(wf, s)
  BY <1>2, AllowAllBase, ZenonT(40) DEF Kept
<1> HIDE DEF s
<1>4. /\ FwBase(t) /\ Kept(s, t)
      /\ flt.at = 0 => Grown(s, t) /\ t.clean = s.clean /\ allowTrafficOfAdapter("vpn") \in t.active
  BY <1>3, EnableBase
<1>5. wf' = [t EXCEPT !.sess = "xray", !.mode = mode, !.ok = ~Failed(flt) /\ s.clean, !.sealed = {}, !.opened = FALSE]
  BY <1>1 DEF s, t
<1> HIDE DEF t
<1>7. DOMAIN t = FwFields
  BY <1>4, SMTT(30) DEF FwBase
<1>8. /\ DOMAIN wf' = FwFields /\ wf'.ok = (~Failed(flt) /\ s.clean)
      /\ wf'.sess = "xray" /\ wf'.mode = mode /\ wf'.sealed = {}
      /\ wf'.active = t.active /\ wf'.peers = t.peers /\ wf'.orphans = t.orphans /\ wf'.ranges = t.ranges
      /\ wf'.let = t.let /\ wf'.clean = t.clean /\ wf'.cur = t.cur
      /\ wf'.alive = t.alive /\ wf'.strict = t.strict
  BY <1>5, <1>7, SMTT(30) DEF FwFields
<1>9. ~wf'.opened
  BY <1>5, <1>7, SMTT(30) DEF FwFields
<1>10. wf'.alive
  BY <1>2, <1>3, <1>4, <1>8, SMTT(30) DEF Kept
<1>11. FwBase(wf')
  BY <1>3, <1>4, <1>8, NotedBase, Zenon DEF FwBase
<1>12. wf'.ok => flt.at = 0 /\ s.clean
  BY <1>8, ZenonT(40) DEF Failed
<1>13. SealHolds(wf')
  BY <1>3, <1>4, <1>8, <1>12 DEF SealHolds
<1> QED BY <1>8, <1>9, <1>10, <1>11, <1>13 DEF FwInv

\* The ends of the sessions: WireguardUtilsWindows::deleteInterface and KillSwitch::disableKillSwitch
LEMMA EndsKeep ==
    ASSUME "block" \notin WfpFaults, FwInv(wf), DeleteInterface \/ EndXray PROVE FwInv(wf')
<1>1. PICK flt \in FaultsUpTo(6) :
        \/ wf' = [disableKillSwitch(wf, flt) EXCEPT
                    !.sess = "none", !.ok = FALSE, !.sealed = {}, !.opened = ~wf.strict /\ ~Failed(flt)]
        \/ wf' = [disableKillSwitch(wf, flt) EXCEPT
                    !.sess = "none", !.cur = {}, !.ok = FALSE, !.sealed = {}, !.opened = ~wf.strict /\ ~Failed(flt)]
  BY ZenonT(40) DEF DeleteInterface, EndXray
<1> DEFINE t == disableKillSwitch(wf, flt)
<1>2. FwBase(wf) /\ wf.alive
  BY ZenonT(40) DEF FwInv, DeleteInterface, EndXray
<1>5. /\ FwBase(t) /\ Kept(wf, t)
      /\ wf.strict => BlockAll \in t.peers
      /\ ~wf.strict /\ flt.at = 0 => t.active = {} /\ t.peers = {}
  BY <1>2, DisableBase, SMTT(30)
<1>6. \/ wf' = [t EXCEPT !.sess = "none", !.ok = FALSE, !.sealed = {}, !.opened = ~wf.strict /\ ~Failed(flt)]
      \/ wf' = [t EXCEPT !.sess = "none", !.cur = {}, !.ok = FALSE, !.sealed = {},
                         !.opened = ~wf.strict /\ ~Failed(flt)]
  BY <1>1, SMTT(30)
<1> HIDE DEF t
<1>7. DOMAIN t = FwFields
  BY <1>5, SMTT(30) DEF FwBase
<1>8. /\ DOMAIN wf' = FwFields /\ wf'.opened = (~wf.strict /\ ~Failed(flt)) /\ wf'.cur \subseteq t.cur
      /\ wf'.active = t.active /\ wf'.peers = t.peers /\ wf'.orphans = t.orphans /\ wf'.ranges = t.ranges
      /\ wf'.let = t.let /\ wf'.clean = t.clean /\ wf'.mode = t.mode /\ wf'.sealed = {}
      /\ wf'.sess = "none" /\ wf'.alive = t.alive /\ wf'.strict = t.strict
  BY <1>6, <1>7, ZenonT(40) DEF FwFields
<1>9. ~wf'.ok
  BY <1>6, <1>7, Zenon DEF FwFields
<1>10. wf'.alive /\ wf'.strict = wf.strict
  BY <1>2, <1>5, <1>8, SMTT(30) DEF Kept
<1>11. FwBase(wf')
  BY <1>5, <1>8, NotedBase, Zenon DEF FwBase
<1>13. wf'.opened => ~wf.strict /\ flt.at = 0
  BY <1>8, ZenonT(40) DEF Failed
<1>14. wf'.opened => wf'.active = {} /\ wf'.peers = {}
  BY <1>5, <1>8, <1>13
<1> QED BY <1>5, <1>8, <1>9, <1>10, <1>11, <1>14, SMTT(30) DEF FwInv, SealHolds

\* A transaction that adds one filter of no peer, and one that fails
LEMMA TransactionBase ==
    ASSUME NEW s, FwBase(s), NEW f, f.peer = "", NEW flt \in FaultsUpTo(1),
           (f = LanRule /\ "lan" \in s.let) \/ (f = RangeRule /\ "gateway" \in s.let)
    PROVE  LET t == InTransaction(s, {f}, flt)
           IN  /\ FwBase(t) /\ Kept(s, t)
               /\ flt.at = 0 => Grown(s, t) /\ t.clean = s.clean
               /\ flt.at # 0 => /\ s.strict => BlockAll \in t.peers
                                /\ ~s.strict => t.active = {} /\ t.peers = {}
<1> DEFINE t == InTransaction(s, {f}, flt)
<1>1. CASE flt.at # 0
  <2>1. t = CleanupKillSwitch(s)
    BY <1>1, ZenonT(40) DEF InTransaction
  <2> HIDE DEF t
  <2>2. FwBase(t) /\ Kept(s, t) /\ (s.strict => BlockAll \in t.peers)
        /\ (~s.strict => t.active = {} /\ t.peers = {})
    BY <2>1, CleanupBase, ZenonT(40)
  <2> QED BY <1>1, <2>2, ZenonT(40) DEF t
<1>2. CASE flt.at = 0
  <2>1. {g \in {f} : g.peer = ""} = {f} /\ {g \in {f} : g.peer # ""} = {}
    BY Zenon
  <2>2. t = [s EXCEPT !.active = @ \cup {f}, !.peers = @ \cup {}]
    BY <1>2, <2>1, ZenonT(40) DEF InTransaction
  <2> HIDE DEF t
  <2>3. DOMAIN s = FwFields
    BY Zenon DEF FwBase
  <2>4. /\ DOMAIN t = FwFields /\ t.active = s.active \cup {f} /\ t.peers = s.peers
        /\ t.strict = s.strict /\ t.alive = s.alive /\ t.sess = s.sess /\ t.mode = s.mode /\ t.cur = s.cur
        /\ t.ok = s.ok /\ t.sealed = s.sealed /\ t.opened = s.opened /\ t.ranges = s.ranges
        /\ t.let = s.let /\ t.orphans = s.orphans /\ t.clean = s.clean
    BY <2>2, <2>3, ZenonT(40) DEF FwFields
  <2>5. ActiveKnown(t)
    BY <2>4, ZenonT(40) DEF ActiveKnown, FwBase
  <2>6. PeersKnown(t)
    BY <2>4, ZenonT(40) DEF PeersKnown, Covered, FwBase
  <2>7. FwBase(t) /\ Grown(s, t)
    BY <2>4, <2>5, <2>6, ZenonT(40) DEF FwBase, Grown, Kept
  <2> QED BY <1>2, <2>4, <2>7, ZenonT(40) DEF t, Grown
<1> QED BY <1>1, <1>2, ZenonT(40)

\* KillSwitch::addAllowedRange
LEMMA AddAllowedRangeKeeps ==
    ASSUME "block" \notin WfpFaults, FwInv(wf), AddAllowedRange PROVE FwInv(wf')
<1> DEFINE s == [wf EXCEPT !.ranges = @ \cup {"gateway"}]
           t == IF s.strict THEN enableInterface(s, "none", NoFault) ELSE s
<1>1. PICK flt \in FaultsUpTo(1) :
        wf' = [allowTrafficRange(t, s.ranges, flt) EXCEPT
                 !.opened = IF Failed(flt) THEN ~wf.strict ELSE FALSE,
                 !.ok = @ /\ ~Failed(flt), !.sealed = IF Failed(flt) THEN {} ELSE @]
  BY Zenon DEF AddAllowedRange
<1> DEFINE l == Let(t, {"gateway"})
           u == InTransaction(l, {RangeRule}, flt)
<1>2. DOMAIN wf = FwFields /\ FwBase(wf) /\ wf.alive
  BY DEF FwInv, FwBase, AddAllowedRange
<1>3. /\ DOMAIN s = FwFields /\ s.ranges = {"gateway"}
      /\ s.active = wf.active /\ s.peers = wf.peers /\ s.orphans = wf.orphans
      /\ s.let = wf.let /\ s.clean = wf.clean /\ s.mode = wf.mode /\ s.cur = wf.cur /\ s.sealed = wf.sealed
      /\ s.sess = wf.sess /\ s.ok = wf.ok /\ s.alive = wf.alive /\ s.strict = wf.strict
      /\ s.opened = wf.opened
  BY <1>2, ZenonT(40) DEF FwFields, FwBase
<1> HIDE DEF s
<1>4. FwBase(s)
  <2>1. ActiveKnown(s) /\ PeersKnown(s)
    BY <1>2, <1>3 DEF FwBase, ActiveKnown, PeersKnown, Covered
  <2> QED BY <1>2, <1>3, <2>1 DEF FwBase
<1>5. /\ FwBase(t) /\ Grown(s, t) /\ t.clean = s.clean
      /\ s.strict => BlockAll \in t.peers
  <2>1. CASE s.strict
    BY <1>4, <2>1, EnableBase, NoFaultParts, SMTT(30)
  <2>2. CASE ~s.strict
    BY <1>4, <2>2, SMTT(30) DEF Grown, Kept
  <2> QED BY <2>1, <2>2, SMTT(30)
<1> HIDE DEF t
<1>6. /\ FwBase(l) /\ Grown(t, l) /\ l.peers = t.peers /\ l.active = t.active /\ "gateway" \in l.let
      /\ l.clean = t.clean
  BY <1>5, LetBase, SMTT(30)
<1>7. {allowTrafficTo({r}, High, "") : r \in s.ranges} = {RangeRule}
  BY <1>3, SMTT(30) DEF RangeRule
<1>8. allowTrafficRange(t, s.ranges, flt) = u
  BY <1>3, <1>7, ZenonT(40) DEF allowTrafficRange
<1> HIDE DEF l
<1>9. /\ FwBase(u) /\ Kept(l, u)
      /\ flt.at = 0 => Grown(l, u) /\ u.clean = l.clean
      /\ flt.at # 0 => /\ l.strict => BlockAll \in u.peers
                       /\ ~l.strict => u.active = {} /\ u.peers = {}
  BY <1>6, ActiveOwners, TransactionBase, ZenonT(40)
<1> HIDE DEF u
<1>10. Kept(wf, u) /\ l.strict = wf.strict
  BY <1>3, <1>5, <1>6, <1>9, SMTT(30) DEF Grown, Kept
<1>11. wf' = [u EXCEPT !.opened = IF Failed(flt) THEN ~wf.strict ELSE FALSE,
                       !.ok = @ /\ ~Failed(flt), !.sealed = IF Failed(flt) THEN {} ELSE @]
  BY <1>1, <1>8, SMTT(30)
<1>12. DOMAIN u = FwFields
  BY <1>9, SMTT(30) DEF FwBase
<1>13. /\ DOMAIN wf' = FwFields /\ wf'.opened = (IF Failed(flt) THEN ~wf.strict ELSE FALSE)
       /\ wf'.ok = (u.ok /\ ~Failed(flt)) /\ wf'.sealed = (IF Failed(flt) THEN {} ELSE u.sealed)
       /\ wf'.active = u.active /\ wf'.peers = u.peers /\ wf'.orphans = u.orphans /\ wf'.ranges = u.ranges
       /\ wf'.let = u.let /\ wf'.clean = u.clean /\ wf'.mode = u.mode /\ wf'.cur = u.cur
       /\ wf'.sess = u.sess /\ wf'.alive = u.alive /\ wf'.strict = u.strict
  BY <1>11, <1>12, SMTT(30) DEF FwFields
<1>14. FwBase(wf')
  BY <1>9, <1>13, NotedBase, ZenonT(40) DEF FwBase
<1>15. wf'.ok => wf.ok /\ flt.at = 0 /\ wf'.sealed = wf.sealed
  BY <1>10, <1>13, ZenonT(40) DEF Failed, Kept
<1>16. flt.at = 0 => wf.active \subseteq wf'.active /\ wf.peers \subseteq wf'.peers /\ wf'.clean = wf.clean
  BY <1>3, <1>5, <1>6, <1>9, <1>13, SMTT(30) DEF Grown
<1>17. wf'.sess = wf.sess /\ wf'.mode = wf.mode /\ wf'.strict = wf.strict /\ wf'.alive = wf.alive
  BY <1>10, <1>13, SMTT(30) DEF Kept
<1>18. SealHolds(wf')
  BY <1>15, <1>16, <1>17, SMTT(30) DEF SealHolds, FwInv
<1>19. wf.strict => BlockAll \in wf'.peers
  BY <1>3, <1>5, <1>6, <1>9, <1>10, <1>13, SMTT(30) DEF Grown, Failed
<1>20. wf'.opened => ~wf.strict /\ flt.at # 0
  BY <1>13, Zenon DEF Failed
<1>21. wf'.opened => wf'.active = {} /\ wf'.peers = {}
  BY <1>9, <1>10, <1>13, <1>20, ZenonT(40)
<1>22. wf'.alive
  BY <1>2, <1>17
<1> QED BY <1>14, <1>17, <1>18, <1>19, <1>21, <1>22, SMTT(30) DEF FwInv

\* WindowsFirewall::enablePeerTraffic
LEMMA PeerTrafficKeeps ==
    ASSUME FwInv(wf), wf.alive, wf.sess # "none", NEW p \in PeerNames, NEW flt \in FaultsUpTo(1),
           NEW seal, seal \subseteq (IF Failed(flt) THEN {} ELSE wf.sealed \cup {p}),
           wf' = [enablePeerTraffic(wf, p, wf.mode, flt) EXCEPT
                    !.cur = @ \cup {p}, !.ok = @ /\ ~Failed(flt), !.opened = FALSE, !.sealed = seal]
    PROVE  FwInv(wf')
<1> DEFINE l == Let(wf, ExcludedAddresses(p, wf.mode))
           u == enablePeerTraffic(wf, p, wf.mode, flt)
<1>1. FwBase(wf)
  BY SMTT(30) DEF FwInv
<1>2. /\ FwBase(l) /\ Grown(wf, l) /\ l.peers = wf.peers /\ l.active = wf.active
      /\ l.let = wf.let \cup ExcludedAddresses(p, wf.mode) /\ l.clean = wf.clean
  BY <1>1, LetBase, SMTT(30)
<1>3. u = InTransaction(l, PeerRules(p, wf.mode), flt)
  BY DEF enablePeerTraffic
<1>4. wf' = [u EXCEPT !.cur = @ \cup {p}, !.ok = @ /\ ~Failed(flt), !.opened = FALSE, !.sealed = seal]
  BY SMTT(30)
<1> HIDE DEF l, u
<1>5. CASE flt.at # 0
  <2>1. u = CleanupKillSwitch(l)
    BY <1>3, <1>5 DEF InTransaction
  <2>2. FwBase(u) /\ Kept(l, u)
    BY <1>2, <2>1, CleanupBase
  <2>3. DOMAIN u = FwFields
    BY <2>2, SMTT(30) DEF FwBase
  <2>4. /\ DOMAIN wf' = FwFields /\ wf'.sealed = seal /\ wf'.cur = u.cur \cup {p}
        /\ wf'.active = u.active /\ wf'.peers = u.peers /\ wf'.orphans = u.orphans /\ wf'.ranges = u.ranges
        /\ wf'.let = u.let /\ wf'.clean = u.clean /\ wf'.mode = u.mode
        /\ wf'.sess = u.sess /\ wf'.alive = u.alive /\ wf'.strict = u.strict
    BY <1>4, <2>3, Zenon DEF FwFields
  <2>5. wf'.ok = (u.ok /\ ~Failed(flt)) /\ ~wf'.opened
    BY <1>4, <2>3, Zenon DEF FwFields
  <2>6. ~wf'.ok
    BY <1>5, <2>5, Zenon DEF Failed
  <2>7. wf'.sess = wf.sess /\ wf'.alive = wf.alive
    BY <1>2, <2>2, <2>4, Zenon DEF Kept, Grown
  <2>8. seal = {}
    BY <1>5 DEF Failed
  <2>9. FwBase(wf')
    <3>1. wf'.mode \in SplitModes /\ wf'.cur \subseteq PeerNames /\ wf'.sealed \subseteq PeerNames
      BY <2>2, <2>4, <2>8, SMTT(30) DEF FwBase
    <3>2. u.cur \subseteq wf'.cur
      BY <2>4, SMTT(30)
    <3>3. wf'.sess = "wg" => u.sess = "wg" /\ wf'.mode = u.mode /\ u.cur \subseteq wf'.cur
      BY <2>4, <3>2, SMTT(30)
    <3> QED BY <2>2, <2>4, <3>1, <3>3, NotedBase, ZenonT(40)
  <2> QED BY <2>5, <2>6, <2>7, <2>9, ZenonT(40) DEF FwInv, SealHolds
<1>6. CASE flt.at = 0
  <2>1. p # ""
    BY WfpPeersAssumption, Zenon DEF PeerNames
  <2> DEFINE rules == PeerRules(p, wf.mode)
  <2>2. \A f \in rules : f.peer = p
    BY PeerRuleOwner
  <2>3. u = [l EXCEPT !.active = @ \cup {f \in rules : f.peer = ""}, !.peers = @ \cup {f \in rules : f.peer # ""}]
    BY <1>3, <1>6, SMTT(30) DEF InTransaction
  <2> HIDE DEF rules
  <2>4. {f \in rules : f.peer = ""} = {} /\ {f \in rules : f.peer # ""} = rules
    BY <2>1, <2>2, ZenonT(40)
  <2>5. DOMAIN l = FwFields
    BY <1>2, SMTT(30) DEF FwBase
  <2>6. u = [l EXCEPT !.active = @ \cup {}, !.peers = @ \cup rules]
    BY <2>3, <2>4, ZenonT(40)
  <2>u. /\ DOMAIN u = FwFields /\ u.cur = l.cur /\ u.ok = l.ok
        /\ u.active = l.active /\ u.peers = l.peers \cup rules /\ u.orphans = l.orphans /\ u.ranges = l.ranges
        /\ u.let = l.let /\ u.clean = l.clean /\ u.mode = l.mode
        /\ u.sess = l.sess /\ u.alive = l.alive /\ u.strict = l.strict
    BY <2>5, <2>6, SMTT(30) DEF FwFields
  <2>7. /\ DOMAIN wf' = FwFields /\ wf'.sealed = seal /\ wf'.cur = l.cur \cup {p}
        /\ wf'.active = l.active /\ wf'.peers = l.peers \cup rules /\ wf'.orphans = l.orphans /\ wf'.ranges = l.ranges
        /\ wf'.let = l.let /\ wf'.clean = l.clean /\ wf'.mode = l.mode
        /\ wf'.sess = l.sess /\ wf'.alive = l.alive /\ wf'.strict = l.strict
    BY <1>4, <2>u, ZenonT(40) DEF FwFields
  <2>8. wf'.ok = (l.ok /\ ~Failed(flt)) /\ ~wf'.opened
    BY <1>4, <2>u, Zenon DEF FwFields
  <2>9. wf'.sess = wf.sess /\ wf'.alive = wf.alive /\ wf'.mode = wf.mode /\ wf'.cur = wf.cur \cup {p}
        /\ l.ok = wf.ok
    BY <1>2, <2>7, ZenonT(40) DEF Kept, Grown
  <2>10. ActiveKnown(wf')
    BY <1>2, <2>7 DEF ActiveKnown, FwBase
  <2>11. PeersKnown(wf')
    <3> SUFFICES ASSUME NEW f \in wf'.peers, f # BlockAll
                 PROVE  \E q \in PeerNames, m \in SplitModes : f \in PeerRules(q, m) /\ Covered(wf', q, m)
      BY DEF PeersKnown
    <3>1. CASE f \in rules
      <4>1. Covered(wf', p, wf.mode)
        BY <1>2, <2>7, <2>9, SMTT(30) DEF Covered
      <4>2. wf.mode \in SplitModes
        BY <1>1, SMTT(30) DEF FwBase
      <4> QED BY <3>1, <4>1, <4>2, SMTT(30) DEF rules
    <3>2. CASE f \in l.peers
      <4>1. PICK q \in PeerNames, m \in SplitModes : f \in PeerRules(q, m) /\ Covered(l, q, m)
        BY <1>2, <3>2, SMTT(30) DEF PeersKnown, FwBase
      <4>2. Covered(wf', q, m)
        BY <2>7, <4>1, SMTT(30) DEF Covered
      <4> QED BY <4>1, <4>2, SMTT(30)
    <3> QED BY <2>7, <3>1, <3>2
  <2>12. FwBase(wf')
    BY <1>1, <1>2, <2>7, <2>9, <2>10, <2>11, SMTT(30) DEF FwBase
  <2>13. wf'.ok => wf.ok
    BY <2>8, <2>9, ZenonT(40)
  <2>14. \A q \in seal : q \in wf.sealed \/ q = p
    OBVIOUS
  <2>15. SealHolds(wf')
    <3> SUFFICES ASSUME wf'.ok
                 PROVE  /\ wf'.clean /\ wf'.sess # "none" /\ allowTrafficOfAdapter("vpn") \in wf'.active
                        /\ \A q \in wf'.sealed : PeerRules(q, wf'.mode) \subseteq wf'.peers
      BY DEF SealHolds
    <3>1. /\ wf.clean /\ allowTrafficOfAdapter("vpn") \in wf.active
          /\ \A q \in wf.sealed : PeerRules(q, wf.mode) \subseteq wf.peers
      BY <2>13, SMTT(30) DEF FwInv, SealHolds
    <3>2. wf'.clean /\ wf'.sess # "none" /\ allowTrafficOfAdapter("vpn") \in wf'.active
      BY <1>2, <2>7, <2>9, <3>1, ZenonT(40)
    <3>3. \A q \in wf'.sealed : PeerRules(q, wf'.mode) \subseteq wf'.peers
      BY <1>2, <2>7, <2>9, <2>14, <3>1 DEF rules
    <3> QED BY <3>2, <3>3
  <2> QED BY <2>8, <2>9, <2>12, <2>15, ZenonT(40) DEF FwInv
<1> QED BY <1>5, <1>6, SMTT(30)

\* WireguardUtilsWindows::updatePeer and KillSwitch::enablePeerTraffic keep it.
LEMMA UpdatePeerKeeps ==
    ASSUME FwInv(wf), UpdatePeer \/ KillSwitchPeerTraffic PROVE FwInv(wf')
<1>1. CASE UpdatePeer
  <2>1. PICK p \in WfpPeers \ wf.cur, flt \in FaultsUpTo(1) :
        wf' = [enablePeerTraffic(wf, p, wf.mode, flt) EXCEPT
                 !.cur = @ \cup {p}, !.ok = @ /\ ~Failed(flt), !.opened = FALSE,
                 !.sealed = IF Failed(flt) THEN {} ELSE @ \cup {p}]
    BY <1>1, Zenon DEF UpdatePeer
  <2> DEFINE u == enablePeerTraffic(wf, p, wf.mode, flt)
             seal == IF Failed(flt) THEN {} ELSE u.sealed \cup {p}
  <2>2. wf' = [u EXCEPT !.cur = @ \cup {p}, !.ok = @ /\ ~Failed(flt), !.opened = FALSE, !.sealed = seal]
    BY <2>1, SMTT(30)
  <2>3. wf.alive /\ wf.sess = "wg" /\ p \in PeerNames
    BY <1>1, ZenonT(40) DEF UpdatePeer, PeerNames
  <2>4. flt.at = 0 => u.sealed = wf.sealed
    <3>1. flt.at = 0 => u.sealed = Let(wf, ExcludedAddresses(p, wf.mode)).sealed
      <4> DEFINE l == Let(wf, ExcludedAddresses(p, wf.mode))
      <4>1. DOMAIN l = FwFields
        BY LetBase, SMTT(30) DEF FwBase, FwInv
      <4>2. u = InTransaction(l, PeerRules(p, wf.mode), flt)
        BY DEF enablePeerTraffic
      <4> HIDE DEF l, u
      <4>3. flt.at = 0 => u.sealed = l.sealed
        BY <4>1, <4>2, SMTT(30) DEF InTransaction, FwFields
      <4> QED BY <4>3, SMTT(30) DEF l
    <3>2. Let(wf, ExcludedAddresses(p, wf.mode)).sealed = wf.sealed
      BY LetBase, SMTT(30) DEF FwInv, Grown, Kept
    <3> QED BY <3>1, <3>2, SMTT(30)
  <2> HIDE DEF u
  <2>5. seal \subseteq (IF Failed(flt) THEN {} ELSE wf.sealed \cup {p})
    BY <2>4, SMTT(30) DEF Failed
  <2> HIDE DEF seal
  <2>6. wf' = [enablePeerTraffic(wf, p, wf.mode, flt) EXCEPT
                    !.cur = @ \cup {p}, !.ok = @ /\ ~Failed(flt), !.opened = FALSE, !.sealed = seal]
    BY <2>2, SMTT(30) DEF u
  <2> QED BY <2>3, <2>5, <2>6, PeerTrafficKeeps, ZenonT(40)
<1>2. CASE KillSwitchPeerTraffic
  <2>1. PICK flt \in FaultsUpTo(1) :
        wf' = [enablePeerTraffic(wf, "openvpn", wf.mode, flt) EXCEPT
                 !.cur = @ \cup {"openvpn"}, !.ok = @ /\ ~Failed(flt), !.opened = FALSE,
                 !.sealed = IF Failed(flt) THEN {} ELSE {"openvpn"}]
    BY <1>2, ZenonT(40) DEF KillSwitchPeerTraffic
  <2> DEFINE seal == IF Failed(flt) THEN {} ELSE {"openvpn"}
  <2>2. wf.alive /\ wf.sess = "xray" /\ "openvpn" \in PeerNames
    BY <1>2, ZenonT(40) DEF KillSwitchPeerTraffic, PeerNames
  <2>3. seal \subseteq (IF Failed(flt) THEN {} ELSE wf.sealed \cup {"openvpn"})
    OBVIOUS
  <2>4. wf' = [enablePeerTraffic(wf, "openvpn", wf.mode, flt) EXCEPT
                    !.cur = @ \cup {"openvpn"}, !.ok = @ /\ ~Failed(flt), !.opened = FALSE, !.sealed = seal]
    BY <2>1, SMTT(30)
  <2> HIDE DEF seal
  <2> QED BY <2>2, <2>3, <2>4, PeerTrafficKeeps, ZenonT(40)
<1> QED BY <1>1, <1>2, SMTT(30)

\* WireguardUtilsWindows::excludeLocalNetworks
LEMMA ExcludeLocalNetworksKeeps ==
    ASSUME FwInv(wf), ExcludeLocalNetworks PROVE FwInv(wf')
<1>1. PICK flt \in FaultsUpTo(1) :
        wf' = [enableLanBypass(wf, flt) EXCEPT
                 !.opened = FALSE, !.ok = @ /\ ~Failed(flt), !.sealed = IF Failed(flt) THEN {} ELSE @]
  BY Zenon DEF ExcludeLocalNetworks
<1> DEFINE l == Let(wf, {"lan"})
           u == InTransaction(l, {LanRule}, flt)
<1>2. FwBase(wf) /\ wf.alive /\ wf.sess = "wg"
  BY SMTT(30) DEF FwInv, ExcludeLocalNetworks
<1>3. /\ FwBase(l) /\ Grown(wf, l) /\ "lan" \in l.let /\ l.clean = wf.clean
  BY <1>2, LetBase, SMTT(30)
<1>4. wf' = [u EXCEPT !.opened = FALSE, !.ok = @ /\ ~Failed(flt), !.sealed = IF Failed(flt) THEN {} ELSE @]
  BY <1>1, SMTT(30) DEF enableLanBypass, LanRule
<1> HIDE DEF l
<1>5. /\ FwBase(u) /\ Kept(l, u)
      /\ flt.at = 0 => Grown(l, u) /\ u.clean = l.clean
      /\ flt.at # 0 => /\ l.strict => BlockAll \in u.peers
                       /\ ~l.strict => u.active = {} /\ u.peers = {}
  BY <1>3, ActiveOwners, TransactionBase, ZenonT(40)
<1> HIDE DEF u
<1>6. DOMAIN u = FwFields
  BY <1>5, SMTT(30) DEF FwBase
<1>7. /\ DOMAIN wf' = FwFields
      /\ wf'.ok = (u.ok /\ ~Failed(flt)) /\ wf'.sealed = (IF Failed(flt) THEN {} ELSE u.sealed)
      /\ wf'.active = u.active /\ wf'.peers = u.peers /\ wf'.orphans = u.orphans /\ wf'.ranges = u.ranges
      /\ wf'.let = u.let /\ wf'.clean = u.clean /\ wf'.mode = u.mode /\ wf'.cur = u.cur
      /\ wf'.sess = u.sess /\ wf'.alive = u.alive
  BY <1>4, <1>6, SMTT(30) DEF FwFields
<1>8. ~wf'.opened
  BY <1>4, <1>6, SMTT(30) DEF FwFields
<1>9. FwBase(wf')
  BY <1>5, <1>7, NotedBase, ZenonT(40) DEF FwBase
<1>10. Kept(wf, u)
  BY <1>3, <1>5 DEF Grown, Kept
<1>11. wf'.ok => wf.ok /\ flt.at = 0 /\ wf'.sealed = wf.sealed
  BY <1>7, <1>10, ZenonT(40) DEF Failed, Kept
<1>12. flt.at = 0 => wf.active \subseteq wf'.active /\ wf.peers \subseteq wf'.peers /\ wf'.clean = wf.clean
  BY <1>3, <1>5, <1>7 DEF Grown
<1>13. wf'.sess = "wg" /\ wf'.mode = wf.mode /\ wf'.alive
  BY <1>2, <1>7, <1>10, SMTT(30) DEF Kept
<1>14. SealHolds(wf')
  BY <1>11, <1>12, <1>13, SMTT(30) DEF SealHolds, FwInv
<1> QED BY <1>8, <1>9, <1>13, <1>14, SMTT(30) DEF FwInv

\* WireguardUtilsWindows::deletePeer
LEMMA DeletePeerKeeps ==
    ASSUME "forget" \notin WfpFaults, FwInv(wf), DeletePeer PROVE FwInv(wf')
<1>1. PICK p \in wf.cur, kind \in {"none", "begin"} :
        wf' = [disablePeerTraffic(wf, p, [at |-> IF kind = "none" THEN 0 ELSE 1, kind |-> kind]) EXCEPT
                 !.let = IF kind # "none" THEN @
                         ELSE (@ \ ExcludedAddresses(p, wf.mode)) \cup UNION {ExcludedAddresses(q, wf.mode) : q \in wf.cur \ {p}},
                 !.ok = @ /\ kind = "none", !.cur = @ \ {p}, !.opened = FALSE, !.sealed = @ \ {p}]
  BY ZenonT(40) DEF DeletePeer
<1> DEFINE flt == [at |-> IF kind = "none" THEN 0 ELSE 1, kind |-> kind]
           u == disablePeerTraffic(wf, p, flt)
<1>2. /\ FwBase(wf) /\ wf.alive /\ wf.sess = "wg" /\ DOMAIN wf = FwFields
      /\ wf.cur \subseteq PeerNames /\ wf.sealed \subseteq PeerNames
  BY DEF FwInv, FwBase, DeletePeer
<1>3. flt.kind = kind
  OBVIOUS
<1>4. CASE kind = "begin"
  <2>1. u = [wf EXCEPT !.clean = FALSE]
    BY <1>3, <1>4, SMTT(30) DEF disablePeerTraffic
  <2> HIDE DEF flt, u
  <2>2. wf' = [u EXCEPT !.let = @, !.ok = FALSE, !.cur = @ \ {p}, !.opened = FALSE, !.sealed = @ \ {p}]
    BY <1>1, <1>4, Zenon DEF u, flt
  <2>3. /\ DOMAIN u = FwFields /\ ~u.clean
        /\ u.active = wf.active /\ u.peers = wf.peers /\ u.orphans = wf.orphans /\ u.ranges = wf.ranges
        /\ u.let = wf.let /\ u.mode = wf.mode /\ u.cur = wf.cur /\ u.sealed = wf.sealed
        /\ u.sess = wf.sess /\ u.alive = wf.alive
    BY <1>2, <2>1, ZenonT(40) DEF FwFields
  <2>4. /\ DOMAIN wf' = FwFields /\ wf'.cur = wf.cur \ {p} /\ wf'.sealed = wf.sealed \ {p}
        /\ wf'.active = wf.active /\ wf'.peers = wf.peers /\ wf'.orphans = wf.orphans /\ wf'.ranges = wf.ranges
        /\ wf'.let = wf.let /\ wf'.mode = wf.mode /\ wf'.sess = wf.sess /\ wf'.alive = wf.alive
    BY <2>2, <2>3 DEF FwFields
  <2>5. ~wf'.ok /\ ~wf'.opened /\ ~wf'.clean
    BY <2>2, <2>3, SMTT(30) DEF FwFields
  <2>6. ActiveKnown(wf') /\ PeersKnown(wf')
    BY <1>2, <2>4, <2>5, SMTT(30) DEF FwBase, ActiveKnown, PeersKnown, Covered
  <2>7. FwBase(wf')
    BY <1>2, <2>4, <2>6, SMTT(30) DEF FwBase
  <2> QED BY <1>2, <2>4, <2>5, <2>7, SMTT(30) DEF FwInv, SealHolds
<1>5. CASE kind = "none"
  <2> DEFINE mine == {f \in wf.peers : f.peer = p}
             others == UNION {ExcludedAddresses(q, wf.mode) : q \in wf.cur \ {p}}
             let == (wf.let \ ExcludedAddresses(p, wf.mode)) \cup others
  <2>1. u = [wf EXCEPT !.peers = @ \ mine, !.orphans = @]
    BY <1>3, <1>5, SMTT(30) DEF disablePeerTraffic
  <2> HIDE DEF flt, u, mine
  <2>2. wf' = [u EXCEPT !.let = (@ \ ExcludedAddresses(p, wf.mode)) \cup others,
                        !.ok = @ /\ kind = "none", !.cur = @ \ {p}, !.opened = FALSE, !.sealed = @ \ {p}]
    BY <1>1, <1>5, SMTT(30) DEF u, flt
  <2> HIDE DEF others
  <2>3. /\ DOMAIN u = FwFields /\ u.clean = wf.clean /\ u.ok = wf.ok
        /\ u.active = wf.active /\ u.peers = wf.peers \ mine /\ u.orphans = wf.orphans /\ u.ranges = wf.ranges
        /\ u.let = wf.let /\ u.mode = wf.mode /\ u.cur = wf.cur /\ u.sealed = wf.sealed
        /\ u.sess = wf.sess /\ u.alive = wf.alive
    BY <1>2, <2>1, Zenon DEF FwFields
  <2>4. /\ DOMAIN wf' = FwFields /\ wf'.cur = wf.cur \ {p} /\ wf'.sealed = wf.sealed \ {p}
        /\ wf'.active = wf.active /\ wf'.peers = wf.peers \ mine /\ wf'.orphans = wf.orphans /\ wf'.ranges = wf.ranges
        /\ wf'.let = let /\ wf'.mode = wf.mode /\ wf'.sess = wf.sess /\ wf'.alive = wf.alive
        /\ wf'.clean = wf.clean /\ wf'.ok = (wf.ok /\ kind = "none")
    BY <2>2, <2>3 DEF FwFields
  <2>5. ~wf'.opened /\ (wf'.ok => wf.ok)
    BY <2>2, <2>3, <2>4, ZenonT(40) DEF FwFields
  <2>6. ExcludedAddresses(p, wf.mode) \subseteq {p, "site"} /\ p \notin {"lan", "gateway"}
    BY <1>2, WfpPeersAssumption, Zenon DEF ExcludedAddresses, PeerNames
  <2>7. ActiveKnown(wf')
    BY <1>2, <2>4, <2>6, SMTT(30) DEF FwBase, ActiveKnown
  <2>8. PeersKnown(wf')
    <3> SUFFICES ASSUME NEW f \in wf'.peers, f # BlockAll
                 PROVE  \E q \in PeerNames, m \in SplitModes : f \in PeerRules(q, m) /\ Covered(wf', q, m)
      BY SMTT(30) DEF PeersKnown
    <3>1. PICK q \in PeerNames, m \in SplitModes : f \in PeerRules(q, m) /\ Covered(wf, q, m)
      BY <1>2, <2>4, SMTT(30) DEF PeersKnown, FwBase
    <3>2. f.peer = q /\ f.peer # p
      BY <2>4, <3>1, PeerRuleOwner, SMTT(30) DEF mine
    <3>3. wf.clean => q \in wf.cur \ {p} /\ m = wf.mode
      BY <1>2, <3>1, <3>2, SMTT(30) DEF Covered
    <3>4. wf.clean => ExcludedAddresses(q, m) \subseteq let
      BY <3>3, SMTT(30) DEF others
    <3>5. Covered(wf', q, m)
      BY <2>4, <3>3, <3>4, SMTT(30) DEF Covered
    <3> QED BY <3>1, <3>5, SMTT(30)
  <2>9. FwBase(wf')
    BY <1>2, <2>4, <2>7, <2>8, SMTT(30) DEF FwBase
  <2>10. \A q \in wf.sealed \ {p} : PeerRules(q, wf.mode) \cap mine = {}
    BY PeerRuleOwner, SMTT(30) DEF mine
  <2>11. SealHolds(wf')
    BY <1>2, <2>4, <2>5, <2>10, SMTT(30) DEF SealHolds, FwInv
  <2> QED BY <1>2, <2>4, <2>5, <2>9, <2>11, SMTT(30) DEF FwInv
<1> QED BY <1>4, <1>5, SMTT(30)

\* The end of the service ends its dynamic session of the filter engine.
LEMMA ServiceKeeps ==
    ASSUME FwInv(wf), ServiceDies \/ ServiceStarts PROVE FwInv(wf')
<1>0. DOMAIN wf = FwFields /\ FwBase(wf)
  BY SMTT(30) DEF FwInv, FwBase
<1>1. CASE ServiceDies
  <2>1. wf' = [wf EXCEPT !.alive = FALSE, !.sess = "none", !.cur = {}, !.active = {}, !.peers = {}, !.orphans = {},
                        !.ranges = {}, !.let = {}, !.clean = TRUE, !.ok = FALSE, !.sealed = {}, !.opened = FALSE]
    BY <1>1, SMTT(30) DEF ServiceDies
  <2>2. /\ DOMAIN wf' = FwFields /\ wf'.active = {} /\ wf'.peers = {} /\ wf'.orphans = {} /\ wf'.ranges = {}
        /\ wf'.cur = {} /\ wf'.sealed = {} /\ wf'.mode = wf.mode
    BY <1>0, <2>1, ZenonT(40) DEF FwFields
  <2>3. ~wf'.alive /\ ~wf'.ok
    BY <1>0, <2>1, SMTT(30) DEF FwFields
  <2> QED BY <1>0, <2>2, <2>3, SMTT(30) DEF FwInv, FwBase, SealHolds, ActiveKnown, PeersKnown
<1>2. CASE ServiceStarts
  <2> DEFINE s == [wf EXCEPT !.alive = TRUE, !.opened = ~wf.strict]
  <2>1. wf' = IF wf.strict THEN disableAllTraffic(s) ELSE s
    BY <1>2, SMTT(30) DEF ServiceStarts
  <2>2. wf.active = {} /\ wf.peers = {}
    BY <1>2, SMTT(30) DEF ServiceStarts, FwInv
  <2>3. /\ DOMAIN s = FwFields /\ s.strict = wf.strict /\ s.opened = ~wf.strict
        /\ s.active = wf.active /\ s.peers = wf.peers /\ s.orphans = wf.orphans /\ s.ranges = wf.ranges
        /\ s.let = wf.let /\ s.clean = wf.clean /\ s.mode = wf.mode /\ s.cur = wf.cur /\ s.sealed = wf.sealed
        /\ s.sess = wf.sess /\ s.ok = wf.ok
    BY <1>0, SMTT(30) DEF FwFields
  <2>4. s.alive
    BY <1>0, SMTT(30) DEF FwFields
  <2> HIDE DEF s
  <2>5. FwBase(s)
    BY <1>0, <2>2, <2>3, SMTT(30) DEF FwBase, ActiveKnown, PeersKnown
  <2>6. ~s.ok
    BY <2>2, <2>3, SMTT(30) DEF FwInv, SealHolds
  <2>7. CASE wf.strict
    <3>1. wf' = disableAllTraffic(s)
      BY <2>1, <2>7, SMTT(30)
    <3>2. FwBase(wf') /\ Grown(s, wf') /\ BlockAll \in wf'.peers
      BY <2>5, <3>1, DisableAllBase, SMTT(30)
    <3>3. ~s.opened
      BY <2>3, <2>7, ZenonT(40)
    <3>4. ~wf'.ok /\ ~wf'.opened /\ wf'.alive
      BY <2>4, <2>6, <3>2, <3>3 DEF Grown, Kept
    <3> QED BY <3>2, <3>4, SMTT(30) DEF FwInv, SealHolds
  <2>8. CASE ~wf.strict
    <3>1. wf' = s
      BY <2>1, <2>8, SMTT(30)
    <3>2. ~s.strict
      BY <2>3, <2>8, SMTT(30)
    <3> QED BY <2>2, <2>3, <2>4, <2>5, <2>6, <3>1, <3>2, SMTT(30) DEF FwInv, SealHolds
  <2> QED BY <2>7, <2>8, SMTT(30)
<1> QED BY <1>1, <1>2

\* Every step keeps the invariant.
LEMMA FirewallStep ==
    ASSUME {"block", "forget"} \cap WfpFaults = {}, FwInv(wf), [FirewallNext]_wf
    PROVE  FwInv(wf')
<1>0. "block" \notin WfpFaults /\ "forget" \notin WfpFaults
  OBVIOUS
<1>1. CASE wf' = wf
  BY <1>1, SMTT(30)
<1>2. CASE FirewallNext
  BY SMTT(30), <1>0, <1>2, RefreshKeeps, AddAllowedRangeKeeps, AddInterfaceKeeps, UpdatePeerKeeps, ExcludeLocalNetworksKeeps,
     DeletePeerKeeps, EndsKeep, EnableKillSwitchKeeps, ServiceKeeps DEF FirewallNext
<1> QED BY <1>1, <1>2, SMTT(30)

-----------------------------------------------------------------------------
(* What the filters do to a packet *)

\* The weights that the code gives its filters.
FilterWeights == {Low, Low + 1, Med, High, Heaviest}

\* Of the filters that match a packet one is heaviest.
LEMMA TopExists ==
    ASSUME NEW hit, hit # {}, \A f \in hit : f.w \in FilterWeights
    PROVE  \E f \in hit : \A g \in hit : g.w <= f.w
<1> USE DEF FilterWeights, Low, Med, High, Heaviest
<1>1. CASE \E f \in hit : f.w = 15
  BY <1>1, SMTT(30)
<1>2. CASE (\A f \in hit : f.w # 15) /\ \E f \in hit : f.w = 13
  BY <1>2, SMTT(30)
<1>3. CASE (\A f \in hit : f.w \notin {13, 15}) /\ \E f \in hit : f.w = 7
  BY <1>3, SMTT(30)
<1>4. CASE (\A f \in hit : f.w \notin {7, 13, 15}) /\ \E f \in hit : f.w = 1
  BY <1>4, SMTT(30)
<1>5. CASE \A f \in hit : f.w = 0
  BY <1>5, SMTT(30)
<1> QED BY <1>1, <1>2, <1>3, <1>4, <1>5, SMTT(30)

\* A filter that belongs to no peer: its weight, and what it can match.
LEMMA BaseFilterActs ==
    ASSUME NEW f \in BaseFilters
    PROVE  /\ f.w \in FilterWeights
           /\ f.act \in {"permit", "block"}
           /\ f.act = "block" => f.w = Med /\ f.ports = {"dns"}
           /\ \A p \in Outside : MatchesPacket(f, p) => f.act = "block"
<1>0. \A p \in Outside : p.via = "phys" /\ p.app = "other" /\ p.port # "dhcp"
  BY SMTT(30) DEF Outside
<1> USE DEF Filter, FilterWeights, MatchesPacket
<1>1. CASE f = blockTrafficOnPort
  BY <1>1, ZenonT(40) DEF blockTrafficOnPort
<1>2. ASSUME NEW via \in {"vpn", "loop"}, f = allowTrafficOfAdapter(via)
      PROVE  f.w \in FilterWeights /\ f.act = "permit" /\ \A p \in Outside : ~MatchesPacket(f, p)
  BY <1>0, <1>2, ZenonT(40) DEF allowTrafficOfAdapter
<1>3. CASE f = allowDHCPTraffic
  BY <1>0, <1>3, ZenonT(40) DEF allowDHCPTraffic
<1>4. CASE f = allowHyperVTraffic
  BY <1>0, <1>4, ZenonT(40) DEF allowHyperVTraffic
<1>5. CASE f = allowTrafficForAppOnAll
  BY <1>0, <1>5, SMTT(30) DEF allowTrafficForAppOnAll
<1>6. CASE f = allowTrafficOfAdapter("vpn") \/ f = allowTrafficOfAdapter("loop")
  BY <1>2, <1>6, SMTT(30)
<1> QED BY <1>1, <1>3, <1>4, <1>5, <1>6, SMTT(30) DEF BaseFilters

\* What the exceptions for the LAN and for a range match.
LEMMA ExceptionActs ==
    /\ LanRule.w \in FilterWeights /\ LanRule.act = "permit" /\ LanRule.dsts = {"lan"}
    /\ RangeRule.w \in FilterWeights /\ RangeRule.act = "permit" /\ RangeRule.dsts = {"gateway"}
BY SMTT(30) DEF LanRule, RangeRule, allowTrafficTo, Filter, FilterWeights

\* disableAllTraffic blocks every packet, at medium weight.
LEMMA BlockAllActs ==
    /\ BlockAll.w = Med /\ BlockAll.act = "block" /\ BlockAll.w \in FilterWeights
    /\ \A p \in Packets : MatchesPacket(BlockAll, p)
BY SMTT(30) DEF BlockAll, blockTrafficTo, Filter, FilterWeights, MatchesPacket, Packets

\* The filters of a peer: one that blocks at the lowest weight, and permits for
\* its resolver and for the addresses it leaves out.
LEMMA PeerRuleActs ==
    ASSUME NEW q, NEW m, NEW f \in PeerRules(q, m)
    PROVE  /\ f.w \in FilterWeights
           /\ \/ f.act = "block" /\ f.w = Low
              \/ f.act = "permit" /\ f.dsts = {"dnsServer"} /\ f.ports = {"dns"}
              \/ f.act = "permit" /\ f.dsts = ExcludedAddresses(q, m)
BY SMTT(30) DEF PeerRules, blockTrafficTo, allowTrafficToPort, allowTrafficTo, Filter, FilterWeights

\* allowTrafficOfAdapter permits what leaves through the tunnel.
LEMMA VpnRuleActs ==
    /\ allowTrafficOfAdapter("vpn").act = "permit" /\ allowTrafficOfAdapter("vpn").w = Med
    /\ \A p \in Packets : p.via = "vpn" => MatchesPacket(allowTrafficOfAdapter("vpn"), p)
BY SMTT(30) DEF allowTrafficOfAdapter, Filter, MatchesPacket, Packets

\* A packet to the ranges of a peer meets a filter of the peer.
LEMMA PeerBlocks ==
    ASSUME NEW q, NEW m, NEW p \in Packets, p.dst \in AllowedRanges(m)
    PROVE  \E f \in PeerRules(q, m) : MatchesPacket(f, p)
<1> DEFINE f == blockTrafficTo(AllowedRanges(m), Low, q)
<1>1. f \in PeerRules(q, m)
  BY SMTT(30) DEF PeerRules
<1>2. MatchesPacket(f, p)
  BY SMTT(30) DEF blockTrafficTo, Filter, MatchesPacket, Packets
<1> QED BY <1>1, <1>2, SMTT(30)

\* A query to the resolver of a peer is permitted at high weight.
LEMMA PeerResolves ==
    ASSUME NEW q, NEW m, NEW p \in Packets, p.port = "dns", p.dst = "dnsServer"
    PROVE  \E f \in PeerRules(q, m) : MatchesPacket(f, p) /\ f.w = High
<1> DEFINE f == allowTrafficToPort({"dnsServer"}, q)
<1>1. f \in PeerRules(q, m)
  BY SMTT(30) DEF PeerRules
<1>2. MatchesPacket(f, p) /\ f.w = High
  BY SMTT(30) DEF allowTrafficToPort, Filter, MatchesPacket, Packets
<1> QED BY <1>1, <1>2, SMTT(30)

\* Every filter of the engine is one of the catalogue.
LEMMA EngineKnown ==
    ASSUME FwInv(wf), NEW f \in Engine(wf)
    PROVE  /\ f.w \in FilterWeights
           /\ \/ f \in BaseFilters
              \/ f = LanRule /\ "lan" \in wf.let
              \/ f = RangeRule /\ "gateway" \in wf.let
              \/ f = BlockAll
              \/ \E q \in PeerNames, m \in SplitModes : f \in PeerRules(q, m) /\ Covered(wf, q, m)
<1>1. f \in wf.active \/ f \in wf.peers
  BY SMTT(30) DEF FwInv, FwBase, Engine
<1>2. \/ f \in BaseFilters
      \/ f = LanRule /\ "lan" \in wf.let
      \/ f = RangeRule /\ "gateway" \in wf.let
      \/ f = BlockAll
      \/ \E q \in PeerNames, m \in SplitModes : f \in PeerRules(q, m) /\ Covered(wf, q, m)
  BY <1>1, SMTT(30) DEF FwInv, FwBase, ActiveKnown, PeersKnown
<1>3. f.w \in FilterWeights
  BY <1>2, BaseFilterActs, ExceptionActs, BlockAllActs, PeerRuleActs, SMTT(30)
<1> QED BY <1>2, <1>3, SMTT(30)

\* A packet that only blocks match, and one at least, is blocked.
LEMMA OnlyBlocks ==
    ASSUME FwInv(wf), NEW p, \E f \in Engine(wf) : MatchesPacket(f, p),
           \A f \in Engine(wf) : MatchesPacket(f, p) => f.act = "block"
    PROVE  Verdicts(wf, p) = {"block"}
<1> DEFINE hit == {f \in Engine(wf) : MatchesPacket(f, p)}
           top == {f \in hit : \A g \in hit : g.w <= f.w}
<1>1. hit # {} /\ \A f \in hit : f.w \in FilterWeights
  BY EngineKnown, SMTT(30)
<1>2. \A f \in hit : f.act = "block"
  BY SMTT(30)
<1> HIDE DEF hit
<1>3. top # {}
  BY <1>1, TopExists, SMTT(30)
<1>4. {f.act : f \in top} = {"block"}
  BY <1>2, <1>3, SMTT(30)
<1>5. Verdicts(wf, p) = {f.act : f \in top}
  BY <1>1, SMTT(30) DEF Verdicts, hit
<1> QED BY <1>4, <1>5, SMTT(30)

\* A packet is let through when a permit that is heavier than every block matches it.
LEMMA PermitWins ==
    ASSUME FwInv(wf), NEW p, NEW h \in Engine(wf), MatchesPacket(h, p),
           \A f \in Engine(wf) : MatchesPacket(f, p) => f.act = "permit" \/ f.w < h.w
    PROVE  Verdicts(wf, p) = {"permit"}
<1> DEFINE hit == {f \in Engine(wf) : MatchesPacket(f, p)}
           top == {f \in hit : \A g \in hit : g.w <= f.w}
<1>1. hit # {} /\ h \in hit /\ \A f \in hit : f.w \in FilterWeights
  BY EngineKnown, SMTT(30)
<1>2. \A f \in hit : f.act = "permit" \/ f.w < h.w
  OBVIOUS
<1> HIDE DEF hit
<1>3. top # {}
  BY <1>1, TopExists, SMTT(30)
<1>4. \A f \in top : f.act = "permit"
  BY <1>1, <1>2, SMTT(30) DEF FilterWeights, Low, Med, High, Heaviest
<1>5. {f.act : f \in top} = {"permit"}
  BY <1>3, <1>4, SMTT(30)
<1>6. Verdicts(wf, p) = {f.act : f \in top}
  BY <1>1, SMTT(30) DEF Verdicts, hit
<1> QED BY <1>5, <1>6, SMTT(30)

\* The invariant keeps the traffic of a peer in the tunnel.
LEMMA Seals == FwInv(wf) => SealedTunnel
<1> SUFFICES ASSUME FwInv(wf), wf.ok, NEW q \in wf.sealed, NEW p \in Outside,
                    p.dst \in AllowedRanges(wf.mode) \ wf.let,
                    p.port = "dns" => p.dst # "dnsServer"
             PROVE  Verdicts(wf, p) = {"block"}
  BY SMTT(30) DEF SealedTunnel
<1>1. wf.clean /\ PeerRules(q, wf.mode) \subseteq wf.peers /\ p \in Packets
  BY SMTT(30) DEF FwInv, SealHolds, Outside
<1>2. \E f \in Engine(wf) : MatchesPacket(f, p)
  BY <1>1, PeerBlocks, SMTT(30) DEF Engine
<1>3. ASSUME NEW f \in Engine(wf), MatchesPacket(f, p) PROVE f.act = "block"
  <2>1. p.dst \in f.dsts /\ p.port \in f.ports /\ p.dst \notin wf.let
    BY <1>3, SMTT(30) DEF MatchesPacket
  <2>2. CASE f \in BaseFilters
    BY <1>3, <2>2, BaseFilterActs, SMTT(30)
  <2>3. CASE f = LanRule /\ "lan" \in wf.let
    BY <2>1, <2>3, ExceptionActs, SMTT(30)
  <2>4. CASE f = RangeRule /\ "gateway" \in wf.let
    BY <2>1, <2>4, ExceptionActs, SMTT(30)
  <2>5. CASE f = BlockAll
    BY <2>5, BlockAllActs, SMTT(30)
  <2>6. ASSUME NEW r \in PeerNames, NEW m \in SplitModes, f \in PeerRules(r, m), Covered(wf, r, m)
        PROVE  f.act = "block"
    <3>1. ExcludedAddresses(r, m) \subseteq wf.let
      BY <1>1, <2>6, SMTT(30) DEF Covered
    <3> QED BY <2>1, <2>6, <3>1, PeerRuleActs, SMTT(30)
  <2> QED BY <2>2, <2>3, <2>4, <2>5, <2>6, EngineKnown, SMTT(30)
<1> QED BY <1>2, <1>3, OnlyBlocks, SMTT(30)

\* The invariant blocks everything in strict mode without a session.
LEMMA Closes == FwInv(wf) => StrictClosed
<1> SUFFICES ASSUME FwInv(wf), wf.strict, wf.alive, wf.sess = "none", NEW p \in Outside, p.dst = "net"
             PROVE  Verdicts(wf, p) = {"block"}
  BY SMTT(30) DEF StrictClosed
<1>1. BlockAll \in Engine(wf) /\ p \in Packets
  BY SMTT(30) DEF FwInv, Engine, Outside
<1>2. \E f \in Engine(wf) : MatchesPacket(f, p)
  BY <1>1, BlockAllActs, SMTT(30)
<1>3. ASSUME NEW f \in Engine(wf), MatchesPacket(f, p) PROVE f.act = "block"
  <2>1. "net" \in f.dsts
    BY <1>3, SMTT(30) DEF MatchesPacket
  <2>2. CASE f \in BaseFilters
    BY <1>3, <2>2, BaseFilterActs, SMTT(30)
  <2>3. CASE f = LanRule \/ f = RangeRule
    BY <2>1, <2>3, ExceptionActs, SMTT(30)
  <2>5. CASE f = BlockAll
    BY <2>5, BlockAllActs, SMTT(30)
  <2>6. ASSUME NEW r \in PeerNames, NEW m \in SplitModes, f \in PeerRules(r, m)
        PROVE  f.act = "block"
    <3>1. "net" \notin ExcludedAddresses(r, m)
      BY WfpPeersAssumption, ZenonT(40) DEF ExcludedAddresses, PeerNames
    <3> QED BY <2>1, <2>6, <3>1, PeerRuleActs, SMTT(30)
  <2> QED BY <2>2, <2>3, <2>5, <2>6, EngineKnown, SMTT(30)
<1> QED BY <1>2, <1>3, OnlyBlocks, SMTT(30)

\* The invariant lets the tunnel and its resolver through.
LEMMA Passes == FwInv(wf) => TunnelUsable
<1> SUFFICES ASSUME FwInv(wf), wf.ok, BlockAll \notin Engine(wf), NEW q \in wf.sealed, NEW p \in Packets,
                    p.via = "vpn", p.port = "dns" => p.dst = "dnsServer"
             PROVE  Verdicts(wf, p) = {"permit"}
  BY SMTT(30) DEF TunnelUsable
<1> DEFINE vpn == allowTrafficOfAdapter("vpn")
<1>1. vpn \in Engine(wf) /\ PeerRules(q, wf.mode) \subseteq Engine(wf)
  BY SMTT(30) DEF FwInv, SealHolds, Engine
<1>2. ASSUME NEW f \in Engine(wf), f.act # "permit"
      PROVE  f.w < Med \/ (f.w = Med /\ f.ports = {"dns"})
  <2>0. f.w \in FilterWeights
    BY EngineKnown, SMTT(30)
  <2>1. CASE f \in BaseFilters
    <3>1. f.act = "block"
      BY <1>2, <2>1, BaseFilterActs, SMTT(30)
    <3> QED BY <2>1, <3>1, BaseFilterActs, SMTT(30)
  <2>2. CASE f = LanRule \/ f = RangeRule
    BY <1>2, <2>2, ExceptionActs, SMTT(30)
  <2>3. ASSUME NEW r \in PeerNames, NEW m \in SplitModes, f \in PeerRules(r, m)
        PROVE  f.w < Med
    BY <1>2, <2>3, PeerRuleActs, SMTT(30) DEF Low, Med
  <2> QED BY <2>1, <2>2, <2>3, EngineKnown, SMTT(30)
<1>3. CASE p.port # "dns"
  <2>1. MatchesPacket(vpn, p) /\ vpn.w = Med
    BY VpnRuleActs, SMTT(30)
  <2>2. ASSUME NEW f \in Engine(wf), MatchesPacket(f, p) PROVE f.act = "permit" \/ f.w < vpn.w
    BY <1>2, <1>3, <2>1, <2>2, SMTT(30) DEF MatchesPacket
  <2> HIDE DEF vpn
  <2> QED BY <1>1, <2>1, <2>2, PermitWins, SMTT(30)
<1>4. CASE p.port = "dns"
  <2>1. PICK h \in PeerRules(q, wf.mode) : MatchesPacket(h, p) /\ h.w = High
    BY <1>4, PeerResolves, SMTT(30)
  <2>2. ASSUME NEW f \in Engine(wf), MatchesPacket(f, p) PROVE f.act = "permit" \/ f.w < h.w
    <3>1. f.w \in FilterWeights
      BY EngineKnown, SMTT(30)
    <3> QED BY <1>2, <2>1, <3>1, SMTT(30) DEF Med, High, FilterWeights, Low, Heaviest
  <2> QED BY <1>1, <2>1, <2>2, PermitWins, SMTT(30)
<1> QED BY <1>3, <1>4, SMTT(30)

\* ClosedWhereAsked for any peers: traffic of a peer stays in the tunnel and
\* strict mode without a session blocks everything, whichever transactions of
\* enableInterface, enablePeerTraffic and addAllowedRange fail.  A failure of
\* the single filter of disableAllTraffic ("block") or of deletePeer
\* ("forget") is not tolerated by the code and is excluded.
THEOREM FirewallCloses ==
    ASSUME {"block", "forget"} \cap WfpFaults = {}
    PROVE  FirewallSpec => []ClosedWhereAsked
<1>1. FirewallInit => FwInv(wf)
  BY FirewallStarts, SMTT(30)
<1>2. FwInv(wf) /\ [FirewallNext]_wf => FwInv(wf)'
  BY FirewallStep, SMTT(30)
<1>3. FwInv(wf) => ClosedWhereAsked
  BY Seals, Closes, SMTT(30) DEF ClosedWhereAsked
<1> QED BY <1>1, <1>2, <1>3, PTL DEF FirewallSpec

\* OpenWhereAsked for any peers, from the same assumption: what the tunnel
\* sends and the queries to its resolver pass once a session has come up, and
\* everything passes after a session ended and strict mode is off.
THEOREM FirewallOpens ==
    ASSUME {"block", "forget"} \cap WfpFaults = {}
    PROVE  FirewallSpec => []OpenWhereAsked
<1>1. FirewallInit => FwInv(wf)
  BY FirewallStarts
<1>2. FwInv(wf) /\ [FirewallNext]_wf => FwInv(wf)'
  BY FirewallStep
<1>3. FwInv(wf) => OpenWhereAsked
  <2>1. FwInv(wf) => DisabledOpens
    BY DEF FwInv, FwBase, DisabledOpens, Engine
  <2> QED BY <2>1, Passes, SMTT(30) DEF OpenWhereAsked
<1> QED BY <1>1, <1>2, <1>3, PTL DEF FirewallSpec

-----------------------------------------------------------------------------
\* The route monitor of Windows, WindowsRoutes.tla.

\* The fields of the state and of a monitor.
WrFields == {"sys", "conn", "kern", "mon", "old", "pending", "synced"}
WrMonFields == {"live", "excl", "clones", "capture", "ifs"}
\* The rows of a monitor that lead into the tunnel.
TunnelRows(mon) == ClonedRows(mon) \cup (IF mon.capture THEN {CloneRow(<<>>)} ELSE {})
\* The parts of the state the proof reads.
WrTyped(w) ==
    /\ DOMAIN w = WrFields /\ DOMAIN w.mon = WrMonFields /\ DOMAIN w.old = WrMonFields
    /\ w.sys \subseteq SysRows /\ w.conn \subseteq Range(WrIfs)
    /\ DOMAIN w.mon.excl \subseteq {LanRange, ServerPrefix}
    /\ \A d \in DOMAIN w.mon.excl : w.mon.excl[d].via # "vpn"
    /\ \A d \in DOMAIN w.old.excl : w.old.excl[d].via # "vpn"
    /\ w.mon.clones \subseteq SysPrefixes \ {<<>>}
    /\ w.mon.live \in BOOLEAN /\ w.mon.capture \in BOOLEAN /\ w.old.live \in BOOLEAN
    /\ w.pending \in BOOLEAN /\ w.synced \in BOOLEAN
\* The row an exclusion should have.
Target(w, d) == ExclusionTarget(w.sys, w.conn, d)
\* The inductive invariant: the table holds the rows of the monitor and, until
\* deleteLater destroys it, of the last one; with no change left to report, every
\* exclusion has the row it should have and the capture is the table's.
WrInv(w) ==
    /\ WrTyped(w)
    /\ w.mon.live => w.old = NoMonitor
    /\ ~w.mon.live => w.mon = NoMonitor
    /\ ~w.old.live => w.old = NoMonitor
    /\ ~w.old.capture /\ w.old.clones = {}
    /\ ~w.mon.capture => w.mon.clones = {}
    /\ w.kern = OwnRows(w.mon) \cup OwnRows(w.old) \cup TunnelRows(w.mon)
    /\ LanRange \in DOMAIN w.mon.excl => \A d \in w.mon.clones : ~routeContainsDest(LanRange, d)
    /\ w.mon.live /\ ~w.pending => \A d \in DOMAIN w.mon.excl : w.mon.excl[d] = Target(w, d)
    /\ w.mon.capture /\ w.synced /\ ~w.pending => w.mon.clones = RoutesToCapture(w)

\* A prefix that is no shorter than what it is a prefix of is equal to it.
LEMMA SamePrefix ==
    ASSUME NEW s \in Seq({0, 1}), NEW t \in Seq({0, 1}), routeContainsDest(s, t), Len(s) >= Len(t)
    PROVE  s = t
  <1>1. s = SubSeq(t, 1, Len(t))
    BY SMTT(30) DEF routeContainsDest
  <1>2. SubSeq(t, 1, Len(t)) = t
    OBVIOUS
  <1> QED BY <1>1, <1>2, SMTT(30)

\* No other prefix covers the default route.
LEMMA NotInEmpty ==
    ASSUME NEW s \in Seq({0, 1}), s # <<>>
    PROVE  ~routeContainsDest(s, <<>>)
  BY SMTT(30) DEF routeContainsDest

\* A row of the system leaves by an interface that is not the tunnel.
LEMMA RowFacts ==
    ASSUME NEW r \in SysRows
    PROVE  /\ r.dst \in Seq({0, 1}) /\ r.via \in Range(WrIfs) /\ r.via # "none" /\ r.via # "vpn"
           /\ r.dst \in SysPrefixes \/ r.dst = <<>>
  <1>1. r.via \in Range(WrIfs) /\ (r.dst = <<>> \/ r.dst \in SysPrefixes)
    BY SMTT(30) DEF SysRows
  <1>2. r.via # "none" /\ r.via # "vpn"
    <2>1. r.via \notin {"none", "vpn"}
      BY <1>1, WrAssumption, Zenon
    <2> QED BY <2>1, SMTT(30)
  <1>3. r.dst \in Seq({0, 1})
    <2>1. <<>> \in Seq({0, 1}) /\ SysPrefixes \subseteq Seq({0, 1})
      BY WrAssumption, SMTT(30)
    <2> QED BY Zenon, <1>1, <2>1
  <1> QED BY <1>1, <1>2, <1>3, SMTT(30)

\* The exclusion e of d leaves by one of the best rows, unless the table routes d itself
LeavesAsWithout(e, best, d) ==
    /\ e.via # "vpn"
    /\ e.via = "none" => best = {} \/ \E r \in best : r.dst = d
    /\ e.via # "none" => \E r \in best : r.dst # d /\ OwnRow(d, e) = OwnRow(d, r)

\* updateExclusionRoute chooses a row that leaves as the traffic would without the tunnel.
LEMMA TargetFacts ==
    ASSUME NEW sys \in SUBSET SysRows, NEW ifs \in SUBSET Range(WrIfs), NEW d \in Seq({0, 1})
    PROVE  LeavesAsWithout(ExclusionTarget(sys, ifs, d), BestRows(sys, ifs, d), d)
  <1> DEFINE best == BestRows(sys, ifs, d)
             row == CHOOSE r \in best : TRUE
             e == ExclusionTarget(sys, ifs, d)
  <1>1. e = IF best = {} THEN Unrouted(0)
            ELSE IF Len(row.dst) = Len(d) THEN Unrouted(row.hop)
            ELSE [via |-> row.via, hop |-> row.hop]
    BY SMTT(30) DEF ExclusionTarget
  <1>2. \A r \in best : r \in SysRows /\ routeContainsDest(r.dst, d)
    BY SMTT(30) DEF BestRows
  <1>3. best # {} => row \in best
    BY SMTT(30)
  <1> HIDE DEF best, row, e
  <1>4. CASE best = {}
    BY <1>1, <1>4, SMTT(30) DEF Unrouted, best, e, LeavesAsWithout
  <1>5. CASE best # {} /\ Len(row.dst) = Len(d)
    <2>1. e.via = "none"
      BY <1>1, <1>5, SMTT(30) DEF Unrouted
    <2>2. row \in best /\ row.dst \in Seq({0, 1}) /\ routeContainsDest(row.dst, d)
      BY <1>2, <1>3, <1>5, RowFacts, SMTT(30)
    <2>3. row.dst = d
      BY <2>2, <1>5, SamePrefix, SMTT(30)
    <2> QED BY <2>1, <2>2, <2>3, SMTT(30) DEF best, e, LeavesAsWithout
  <1>6. CASE best # {} /\ Len(row.dst) # Len(d)
    <2>1. e = [via |-> row.via, hop |-> row.hop]
      BY <1>1, <1>6, SMTT(30)
    <2>2. row \in best /\ row.via # "none" /\ row.via # "vpn"
      BY <1>2, <1>3, <1>6, RowFacts, SMTT(30)
    <2>3. row.dst # d /\ OwnRow(d, e) = OwnRow(d, row) /\ e.via # "none" /\ e.via # "vpn"
      BY <2>1, <2>2, <1>6, SMTT(30) DEF OwnRow
    <2> QED BY <2>2, <2>3, SMTT(30) DEF best, e, LeavesAsWithout
  <1> QED BY <1>4, <1>5, <1>6, SMTT(30)

\* The kernel's table when the exclusions change
TableAfter(kern, was, now) ==
    LET changed == {d \in DOMAIN now : now[d] # was[d]}
    IN  (kern \ RowsOf(was, changed)) \cup RowsOf(now, changed)

\* Refreshing exclusions moves in the table exactly the rows that changed.
LEMMA RefreshKeepsRows ==
    ASSUME NEW kern, NEW was, NEW now, DOMAIN now = DOMAIN was,
           NEW rest, \A k \in rest : k.via = "vpn",
           \A d \in DOMAIN was : was[d].via # "vpn" /\ now[d].via # "vpn",
           kern = RowsOf(was, DOMAIN was) \cup rest
    PROVE  TableAfter(kern, was, now) = RowsOf(now, DOMAIN now) \cup rest
  <1> DEFINE changed == {d \in DOMAIN now : now[d] # was[d]}
             l == (kern \ RowsOf(was, changed)) \cup RowsOf(now, changed)
             r == RowsOf(now, DOMAIN now) \cup rest
  <1>1. \A k : k \in RowsOf(was, DOMAIN was) <=> \E d \in DOMAIN was : was[d].via # "none" /\ k = OwnRow(d, was[d])
    BY SMTT(30) DEF RowsOf
  <1>2. \A k : k \in RowsOf(was, changed) <=> \E d \in changed : was[d].via # "none" /\ k = OwnRow(d, was[d])
    BY SMTT(30) DEF RowsOf
  <1>3. \A k : k \in RowsOf(now, changed) <=> \E d \in changed : now[d].via # "none" /\ k = OwnRow(d, now[d])
    BY SMTT(30) DEF RowsOf
  <1>4. \A k : k \in RowsOf(now, DOMAIN now) <=> \E d \in DOMAIN now : now[d].via # "none" /\ k = OwnRow(d, now[d])
    BY SMTT(30) DEF RowsOf
  <1>5. \A d, e : OwnRow(d, e).via = e.via /\ OwnRow(d, e).dst = d
    BY SMTT(30) DEF OwnRow
  <1>6. \A k : k \in l => k \in r
    BY <1>1, <1>2, <1>3, <1>4, SMTT(30)
  <1>7. \A k : k \in r => k \in l
    <2> SUFFICES ASSUME NEW k \in r PROVE k \in l
      BY SMTT(30)
    <2>1. CASE k \in rest
      <3>1. k \notin RowsOf(was, changed)
        BY <1>2, <1>5, <2>1, SMTT(30)
      <3> QED BY <2>1, <3>1, SMTT(30)
    <2>2. ASSUME NEW d \in DOMAIN now, now[d].via # "none", k = OwnRow(d, now[d])
          PROVE  k \in l
      <3>1. CASE d \in changed
        BY <1>3, <2>2, <3>1, SMTT(30)
      <3>2. CASE d \notin changed
        <4>1. now[d] = was[d]
          BY <3>2, SMTT(30)
        <4>2. k \in kern
          BY <1>1, <2>2, <4>1, SMTT(30)
        <4>3. k \notin RowsOf(was, changed)
          <5> SUFFICES ASSUME NEW c \in changed, k = OwnRow(c, was[c]) PROVE FALSE
            BY <1>2, SMTT(30)
          <5>1. OwnRow(c, was[c]).dst = c /\ OwnRow(d, now[d]).dst = d
            BY <1>5, SMTT(30)
          <5>2. c = d
            BY <5>1, <2>2, SMTT(30)
          <5> QED BY <5>2, <3>2, SMTT(30)
        <4> QED BY <4>2, <4>3, SMTT(30)
      <3> QED BY <3>1, <3>2, SMTT(30)
    <2> QED BY <2>1, <2>2, <1>4, SMTT(30)
  <1> HIDE DEF l, r
  <1> QED BY <1>6, <1>7, SMTT(30) DEF l, r, TableAfter

\* Without a monitor there is no row.
LEMMA NoMonitorFacts ==
    /\ DOMAIN NoMonitor = WrMonFields /\ DOMAIN NoMonitor.excl = {} /\ NoMonitor.clones = {}
    /\ NoMonitor.live = FALSE /\ NoMonitor.capture = FALSE
    /\ OwnRows(NoMonitor) = {} /\ TunnelRows(NoMonitor) = {}
  <1>1. /\ DOMAIN NoMonitor = WrMonFields /\ NoMonitor.excl = <<>> /\ NoMonitor.clones = {}
        /\ NoMonitor.live = FALSE /\ NoMonitor.capture = FALSE
    BY SMTT(30) DEF NoMonitor, WrMonFields
  <1>2. DOMAIN NoMonitor.excl = {}
    BY <1>1, SMTT(30)
  <1>3. OwnRows(NoMonitor) = {}
    BY <1>2, SMTT(30) DEF OwnRows, RowsOf
  <1>4. TunnelRows(NoMonitor) = {}
    BY <1>1, SMTT(30) DEF TunnelRows, ClonedRows
  <1> QED BY <1>1, <1>2, <1>3, <1>4, SMTT(30)

\* The rows of the capture lead into the tunnel.
LEMMA RowsInTunnel == ASSUME NEW mon PROVE \A k \in TunnelRows(mon) : k.via = "vpn"
  BY SMTT(30) DEF TunnelRows, ClonedRows, CloneRow

\* The rows of the exclusions do not.
LEMMA RowsOutside ==
    ASSUME NEW mon, \A d \in DOMAIN mon.excl : mon.excl[d].via # "vpn"
    PROVE  \A k \in OwnRows(mon) : k.via # "vpn" /\ k.via # "none"
  BY DEF OwnRows, RowsOf, OwnRow

\* The invariant gives the property of the runs.
LEMMA InvGivesRows == WrInv(wr) => RowsFollowSystem
  <1> SUFFICES ASSUME WrInv(wr) PROVE RowsFollowSystem
    BY SMTT(30)
  <1>0. WrTyped(wr)
    BY SMTT(30) DEF WrInv
  <1>1. /\ \A k \in OwnRows(wr.mon) : k.via # "vpn" /\ k.via # "none"
        /\ \A k \in TunnelRows(wr.mon) : k.via = "vpn"
    BY <1>0, RowsInTunnel, RowsOutside, SMTT(30) DEF WrTyped
  <1>2. wr.mon.live => wr.kern = OwnRows(wr.mon) \cup TunnelRows(wr.mon)
    BY NoMonitorFacts, SMTT(30) DEF WrInv
  <1>3. ExclusionsFollowSystem
    <2> SUFFICES ASSUME wr.mon.live, ~wr.pending, NEW dst \in DOMAIN wr.mon.excl
                 PROVE  LET best == BestRows(wr.sys, wr.conn, dst)
                            mine == {r \in wr.kern : r.dst = dst /\ r.via # "vpn"}
                        IN  \/ mine = {} /\ (best = {} \/ \E r \in best : r.dst = dst)
                            \/ \E r \in best : r.dst # dst /\ mine = {OwnRow(dst, r)}
      BY SMTT(30) DEF ExclusionsFollowSystem
    <2> DEFINE best == BestRows(wr.sys, wr.conn, dst)
               mine == {r \in wr.kern : r.dst = dst /\ r.via # "vpn"}
               e == wr.mon.excl[dst]
    <2>1. dst \in Seq({0, 1}) /\ wr.sys \in SUBSET SysRows /\ wr.conn \in SUBSET Range(WrIfs)
      BY <1>0, WrAssumption, SMTT(30) DEF WrTyped
    <2>2. e = Target(wr, dst)
      BY SMTT(30) DEF WrInv
    <2>3. /\ e.via # "vpn"
          /\ e.via = "none" => best = {} \/ \E r \in best : r.dst = dst
          /\ e.via # "none" => \E r \in best : r.dst # dst /\ OwnRow(dst, e) = OwnRow(dst, r)
      <3>1. LeavesAsWithout(Target(wr, dst), best, dst)
        BY <2>1, TargetFacts, SMTT(30) DEF Target
      <3> QED BY <2>2, <3>1, SMTT(30) DEF LeavesAsWithout
    <2>4. \A k : k \in mine <=> k \in OwnRows(wr.mon) /\ k.dst = dst
      BY <1>1, <1>2, SMTT(30)
    <2>5. \A k : k \in OwnRows(wr.mon) <=> \E d \in DOMAIN wr.mon.excl : wr.mon.excl[d].via # "none" /\ k = OwnRow(d, wr.mon.excl[d])
      BY SMTT(30) DEF OwnRows, RowsOf
    <2>6. \A d, x : OwnRow(d, x).dst = d
      BY SMTT(30) DEF OwnRow
    <2>7. \A k : k \in mine <=> e.via # "none" /\ k = OwnRow(dst, e)
      BY <2>4, <2>5, <2>6, SMTT(30)
    <2> HIDE DEF best, mine, e
    <2>8. CASE e.via = "none"
      BY <2>3, <2>7, <2>8, SMTT(30) DEF best, mine
    <2>9. CASE e.via # "none"
      <3>1. mine = {OwnRow(dst, e)}
        BY <2>7, <2>9, SMTT(30)
      <3> QED BY <2>3, <2>9, <3>1, SMTT(30) DEF best, mine
    <2> QED BY <2>8, <2>9, SMTT(30)
  <1>4. \A k \in wr.kern : k.via = "vpn" => k.dst \in wr.mon.clones \/ (wr.mon.capture /\ k.dst = <<>>)
    <2>1. \A k \in TunnelRows(wr.mon) : k.dst \in wr.mon.clones \/ (wr.mon.capture /\ k.dst = <<>>)
      BY SMTT(30) DEF TunnelRows, ClonedRows, CloneRow
    <2>2. \A k \in OwnRows(wr.old) : k.via = "vpn" => FALSE
      BY <1>0, RowsOutside, SMTT(30) DEF WrTyped
    <2> QED BY <1>1, <2>1, <2>2, SMTT(30) DEF WrInv
  <1>5. LanStaysLocal
    <2> SUFFICES ASSUME wr.mon.live, NEW r \in wr.sys, LanRange \in DOMAIN wr.mon.excl,
                        routeContainsDest(LanRange, r.dst), NEW k \in wr.kern, k.via = "vpn",
                        Len(k.dst) >= Len(r.dst), routeContainsDest(k.dst, r.dst)
                 PROVE  FALSE
      BY SMTT(30) DEF LanStaysLocal
    <2>1. k.dst \in Seq({0, 1}) /\ r.dst \in Seq({0, 1})
      BY <1>0, <1>4, RowFacts, WrAssumption, SMTT(30) DEF WrTyped
    <2>2. k.dst = r.dst
      BY <2>1, SamePrefix, SMTT(30)
    <2>3. routeContainsDest(LanRange, k.dst)
      BY <2>2, SMTT(30)
    <2>4. k.dst # <<>>
      BY <2>3, NotInEmpty, WrAssumption, SMTT(30)
    <2> QED BY <1>4, <2>3, <2>4, SMTT(30) DEF WrInv
  <1>6. CapturesFollowSystem
    <2> SUFFICES ASSUME wr.mon.capture, wr.synced, ~wr.pending
                 PROVE  {k.dst : k \in {q \in wr.kern : q.via = "vpn"}} =
                          {<<>>} \cup {d \in {r.dst : r \in wr.sys} : d # <<>> /\ ~\E e \in DOMAIN wr.mon.excl : routeContainsDest(e, d)}
      BY ZenonT(40) DEF CapturesFollowSystem
    <2>1. wr.mon.clones = RoutesToCapture(wr)
      BY SMTT(30) DEF WrInv
    <2>2. RoutesToCapture(wr) = {d \in {r.dst : r \in wr.sys} : d # <<>> /\ ~\E e \in DOMAIN wr.mon.excl : routeContainsDest(e, d)}
      BY SMTT(30) DEF RoutesToCapture, isRouteExcluded
    <2>3. wr.mon.live
      BY NoMonitorFacts, SMTT(30) DEF WrInv
    <2>4. TunnelRows(wr.mon) \subseteq wr.kern
      BY DEF WrInv
    <2>5. \A d \in wr.mon.clones \cup {<<>>} : \E k \in TunnelRows(wr.mon) : k.dst = d /\ k.via = "vpn"
      <3>1. \A d \in wr.mon.clones \cup {<<>>} : CloneRow(d) \in TunnelRows(wr.mon)
        BY SMTT(30) DEF TunnelRows, ClonedRows
      <3> QED BY <3>1, Zenon DEF CloneRow
    <2>6. {k.dst : k \in {q \in wr.kern : q.via = "vpn"}} = wr.mon.clones \cup {<<>>}
      BY <1>4, <2>4, <2>5, SMTT(30)
    <2> QED BY ZenonT(40), <2>1, <2>2, <2>6
  <1>7. NoRoutesLeft
    BY NoMonitorFacts, SMTT(30) DEF NoRoutesLeft, WrInv
  <1> QED BY <1>3, <1>5, <1>6, <1>7, SMTT(30) DEF RowsFollowSystem

-----------------------------------------------------------------------------
(* The steps *)

\* v is w after the monitor has looked at the interfaces and the captures.
Looked(w, v) ==
    /\ DOMAIN v = WrFields /\ DOMAIN v.mon = WrMonFields
    /\ v.sys = w.sys /\ v.conn = w.conn /\ v.old = w.old /\ v.pending = w.pending /\ v.synced = w.synced
    /\ v.mon.live = w.mon.live /\ v.mon.excl = w.mon.excl /\ v.mon.capture = w.mon.capture
    /\ v.mon.ifs = w.conn
    /\ v.mon.clones = IF w.mon.capture THEN RoutesToCapture(w) ELSE w.mon.clones
    /\ v.kern = OwnRows(v.mon) \cup TunnelRows(v.mon)

\* Reading the interfaces and the table (updateInterfaceMetrics, updateCapturedRoutes)
\* keeps the table at the rows of the monitor.
LEMMA LookKeeps ==
    ASSUME NEW w, WrInv(w), w.mon.live
    PROVE  Looked(w, updateCapturedRoutes(updateInterfaceMetrics(w)))
  <1> DEFINE u == updateInterfaceMetrics(w)
             v == updateCapturedRoutes(u)
  <1>0. WrTyped(w) /\ w.old = NoMonitor /\ w.kern = OwnRows(w.mon) \cup TunnelRows(w.mon)
    BY NoMonitorFacts, SMTT(30) DEF WrInv
  <1>1. /\ DOMAIN u = WrFields /\ DOMAIN u.mon = WrMonFields
        /\ u.sys = w.sys /\ u.conn = w.conn /\ u.old = w.old /\ u.pending = w.pending /\ u.synced = w.synced
        /\ u.mon.live = w.mon.live /\ u.mon.excl = w.mon.excl /\ u.mon.capture = w.mon.capture
        /\ u.mon.ifs = w.conn /\ u.mon.clones = w.mon.clones /\ u.kern = w.kern
    BY <1>0, ZenonT(40) DEF updateInterfaceMetrics, WrTyped, WrFields, WrMonFields
  <1>2. RoutesToCapture(u) = RoutesToCapture(w) /\ ClonedRows(u.mon) = ClonedRows(w.mon)
    BY <1>1, SMTT(30) DEF RoutesToCapture, isRouteExcluded, ClonedRows
  <1>3. \A mon : mon.excl = w.mon.excl => OwnRows(mon) = OwnRows(w.mon)
    BY SMTT(30) DEF OwnRows
  <1> HIDE DEF u
  <1>4. CASE ~w.mon.capture
    <2>1. v = u
      BY <1>1, <1>4, SMTT(30) DEF updateCapturedRoutes
    <2>2. TunnelRows(u.mon) = TunnelRows(w.mon)
      BY <1>1, <1>2, SMTT(30) DEF TunnelRows
    <2>3. Looked(w, u)
      BY <1>0, <1>1, <1>3, <1>4, <2>2, SMTT(30) DEF Looked
    <2> QED BY <2>1, <2>3, SMTT(30) DEF u
  <1>5. CASE w.mon.capture
    <2> DEFINE new == {CloneRow(d) : d \in RoutesToCapture(w)}
    <2>1. v = [u EXCEPT !.mon.clones = RoutesToCapture(w), !.kern = (@ \ ClonedRows(w.mon)) \cup new]
      BY <1>1, <1>2, <1>5, SMTT(30) DEF updateCapturedRoutes
    <2> HIDE DEF v, new
    <2>2. /\ DOMAIN v = WrFields /\ DOMAIN v.mon = WrMonFields
          /\ v.sys = w.sys /\ v.conn = w.conn /\ v.old = w.old /\ v.pending = w.pending /\ v.synced = w.synced
          /\ v.mon.live = w.mon.live /\ v.mon.excl = w.mon.excl /\ v.mon.capture = w.mon.capture
          /\ v.mon.ifs = w.conn /\ v.mon.clones = RoutesToCapture(w)
          /\ v.kern = (w.kern \ ClonedRows(w.mon)) \cup new
      BY <1>1, <2>1, ZenonT(40) DEF WrFields, WrMonFields
    <2>3. ClonedRows(v.mon) = new
      BY <2>2, SMTT(30) DEF ClonedRows, new
    <2>4. TunnelRows(w.mon) = ClonedRows(w.mon) \cup {CloneRow(<<>>)} /\ TunnelRows(v.mon) = new \cup {CloneRow(<<>>)}
      BY <1>5, <2>2, <2>3, SMTT(30) DEF TunnelRows
    <2>5. CloneRow(<<>>) \notin ClonedRows(w.mon)
      <3>1. \A d \in w.mon.clones : d # <<>>
        BY <1>0, SMTT(30) DEF WrTyped
      <3>2. \A d : CloneRow(d).dst = d
        BY SMTT(30) DEF CloneRow
      <3> QED BY <3>1, <3>2, SMTT(30) DEF ClonedRows
    <2>6. OwnRows(w.mon) \cap ClonedRows(w.mon) = {}
      <3>1. \A k \in OwnRows(w.mon) : k.via # "vpn"
        BY <1>0, RowsOutside, SMTT(30) DEF WrTyped
      <3>2. \A k \in TunnelRows(w.mon) : k.via = "vpn"
        BY RowsInTunnel, SMTT(30)
      <3> QED BY <3>1, <3>2, <2>4, SMTT(30)
    <2>7. v.kern = OwnRows(w.mon) \cup new \cup {CloneRow(<<>>)}
      BY <1>0, <2>2, <2>4, <2>5, <2>6, SMTT(30)
    <2>8. v.kern = OwnRows(v.mon) \cup TunnelRows(v.mon)
      BY <1>3, <2>2, <2>4, <2>7, SMTT(30)
    <2>9. Looked(w, v)
      BY <1>5, <2>2, <2>8, SMTT(30) DEF Looked
    <2> QED BY <2>9, SMTT(30) DEF u, v
  <1> QED BY <1>0, <1>4, <1>5, SMTT(30) DEF WrTyped

\* t is w when the exclusions dsts have been looked up again.
Refreshed(w, t, dsts) ==
    /\ DOMAIN t = WrFields /\ DOMAIN t.mon = WrMonFields
    /\ t.sys = w.sys /\ t.conn = w.conn /\ t.old = w.old /\ t.pending = w.pending /\ t.synced = w.synced
    /\ t.mon.live = w.mon.live /\ t.mon.capture = w.mon.capture /\ t.mon.ifs = w.mon.ifs
    /\ t.mon.clones = w.mon.clones
    /\ t.mon.excl = [d \in DOMAIN w.mon.excl |-> IF d \in dsts THEN ExclusionTarget(w.sys, w.mon.ifs, d) ELSE w.mon.excl[d]]
    /\ t.kern = OwnRows(t.mon) \cup TunnelRows(t.mon)

\* Refreshing exclusions keeps the table at the rows of the monitor.
LEMMA RefreshKeepsTable ==
    ASSUME NEW w, DOMAIN w = WrFields, DOMAIN w.mon = WrMonFields, NEW dsts,
           w.sys \subseteq SysRows, w.mon.ifs \subseteq Range(WrIfs),
           DOMAIN w.mon.excl \subseteq {LanRange, ServerPrefix},
           \A d \in DOMAIN w.mon.excl : w.mon.excl[d].via # "vpn",
           w.kern = OwnRows(w.mon) \cup TunnelRows(w.mon)
    PROVE  Refreshed(w, updateExclusionRoute(w, dsts), dsts)
  <1> DEFINE was == w.mon.excl
             now == [d \in DOMAIN was |-> IF d \in dsts THEN ExclusionTarget(w.sys, w.mon.ifs, d) ELSE was[d]]
             changed == {d \in DOMAIN now : now[d] # was[d]}
             t == updateExclusionRoute(w, dsts)
             kern == (w.kern \ RowsOf(was, changed)) \cup RowsOf(now, changed)
             rest == TunnelRows(w.mon)
  <1>1. t = [w EXCEPT !.mon.excl = now, !.kern = kern]
    BY DEF updateExclusionRoute
  <1> HIDE DEF t, now, kern
  <1>2. /\ DOMAIN t = WrFields /\ DOMAIN t.mon = WrMonFields
        /\ t.sys = w.sys /\ t.conn = w.conn /\ t.old = w.old /\ t.pending = w.pending /\ t.synced = w.synced
        /\ t.mon.live = w.mon.live /\ t.mon.capture = w.mon.capture /\ t.mon.ifs = w.mon.ifs
        /\ t.mon.clones = w.mon.clones /\ t.mon.excl = now /\ t.kern = kern
    BY <1>1, SMTT(30) DEF WrFields, WrMonFields
  <1>3. \A d \in DOMAIN was : ExclusionTarget(w.sys, w.mon.ifs, d).via # "vpn"
    <2> SUFFICES ASSUME NEW d \in DOMAIN was PROVE ExclusionTarget(w.sys, w.mon.ifs, d).via # "vpn"
      BY SMTT(30)
    <2>1. d \in Seq({0, 1})
      BY WrAssumption, SMTT(30)
    <2>2. LeavesAsWithout(ExclusionTarget(w.sys, w.mon.ifs, d), BestRows(w.sys, w.mon.ifs, d), d)
      BY <2>1, TargetFacts, SMTT(30)
    <2> QED BY <2>2, SMTT(30) DEF LeavesAsWithout
  <1>4. DOMAIN now = DOMAIN was /\ \A d \in DOMAIN was : was[d].via # "vpn" /\ now[d].via # "vpn"
    BY <1>3, SMTT(30) DEF now
  <1>5. \A k \in rest : k.via = "vpn"
    BY RowsInTunnel, SMTT(30)
  <1>6. w.kern = RowsOf(was, DOMAIN was) \cup rest
    BY SMTT(30) DEF OwnRows
  <1> HIDE DEF was, rest
  <1>7. kern = RowsOf(now, DOMAIN now) \cup rest
    <2>1. kern = TableAfter(w.kern, was, now)
      BY SMTT(30) DEF kern, TableAfter
    <2> QED BY ONLY <1>4, <1>5, <1>6, <2>1, RefreshKeepsRows, SMTT(30)
  <1>8. rest = TunnelRows(t.mon) /\ OwnRows(t.mon) = RowsOf(now, DOMAIN now)
    BY <1>2, SMTT(30) DEF rest, TunnelRows, ClonedRows, OwnRows
  <1> QED BY <1>2, <1>7, <1>8, ZenonT(40) DEF Refreshed, t, now, was

\* The rows to choose depend on the system's table and the connected interfaces only.
LEMMA TargetSame ==
    ASSUME NEW w, NEW v, NEW d, v.sys = w.sys, v.conn = w.conn
    PROVE  Target(v, d) = Target(w, d)
  BY SMTT(30) DEF Target

\* The routes to capture depend on the table and on which addresses are excluded.
LEMMA CapturesRead ==
    ASSUME NEW w, NEW v, v.sys = w.sys, DOMAIN v.mon.excl = DOMAIN w.mon.excl
    PROVE  RoutesToCapture(v) = RoutesToCapture(w)
  BY SMTT(30) DEF RoutesToCapture, isRouteExcluded

\* The routes to capture are routes of the system that the excluded LAN does not cover.
LEMMA CapturesAreRoutes ==
    ASSUME NEW w, w.sys \subseteq SysRows
    PROVE  /\ RoutesToCapture(w) \subseteq SysPrefixes \ {<<>>}
           /\ LanRange \in DOMAIN w.mon.excl => \A d \in RoutesToCapture(w) : ~routeContainsDest(LanRange, d)
  BY RowFacts, SMTT(30) DEF RoutesToCapture, isRouteExcluded

\* Before the first tunnel the invariant holds.
LEMMA WrInitOk == WrInit => WrInv(wr)
  <1> SUFFICES ASSUME WrInit PROVE WrInv(wr)
    OBVIOUS
  <1> DEFINE row == [dst |-> <<>>, via |-> WrIfs[1], hop |-> 1]
  <1>1. /\ DOMAIN wr = WrFields /\ wr.sys = {row} /\ wr.conn = Range(WrIfs) /\ wr.kern = {}
        /\ wr.mon = NoMonitor /\ wr.old = NoMonitor /\ wr.pending = FALSE /\ wr.synced = FALSE
    BY SMTT(30) DEF WrInit, WrFields
  <1>2. WrIfs[1] \in Range(WrIfs)
    BY WrAssumption, SMTT(30) DEF Range
  <1>3. row \in SysRows
    BY <1>2, SMTT(30) DEF SysRows
  <1>4. WrTyped(wr)
    BY <1>1, <1>3, NoMonitorFacts, ZenonT(40) DEF WrTyped
  <1> HIDE DEF row
  <1> QED BY <1>1, <1>4, NoMonitorFacts, SMTT(30) DEF WrInv

\* A tunnel whose predecessor's monitor is destroyed keeps the invariant.
LEMMA MonitorBegins == ASSUME WrInv(wr), ~QuickReconnect, WrAddInterface PROVE WrInv(wr')
  <1> DEFINE m == [NoMonitor EXCEPT !.live = TRUE]
  <1>0. WrTyped(wr) /\ ~wr.mon.live /\ wr.mon = NoMonitor /\ wr.old = NoMonitor
    BY DEF WrInv, WrAddInterface
  <1>1. /\ DOMAIN wr' = WrFields /\ wr'.sys = wr.sys /\ wr'.conn = wr.conn /\ wr'.kern = wr.kern
        /\ wr'.mon = m /\ wr'.old = NoMonitor /\ wr'.pending = FALSE /\ wr'.synced = FALSE
    BY <1>0, SMTT(30) DEF WrAddInterface, WrTyped, WrFields
  <1>2. /\ DOMAIN m = WrMonFields /\ DOMAIN m.excl = {} /\ m.clones = {} /\ m.live = TRUE /\ m.capture = FALSE
        /\ m.excl = NoMonitor.excl
    BY NoMonitorFacts, SMTT(30) DEF WrMonFields
  <1> HIDE DEF m
  <1>3. OwnRows(m) = {} /\ TunnelRows(m) = {}
    BY <1>2, SMTT(30) DEF OwnRows, RowsOf, TunnelRows, ClonedRows
  <1>4. WrTyped(wr')
    BY <1>0, <1>1, <1>2, NoMonitorFacts, ZenonT(40) DEF WrTyped
  <1>5. wr.kern = {}
    BY <1>0, NoMonitorFacts, SMTT(30) DEF WrInv
  <1> QED BY <1>0, <1>1, <1>2, <1>3, <1>4, <1>5, NoMonitorFacts, ZenonT(40) DEF WrInv

\* addExclusionRoute keeps the invariant.
LEMMA AddExclusionKeeps ==
    ASSUME WrInv(wr), NEW dst \in {LanRange, ServerPrefix}, AddExclusionRoute(dst)
    PROVE  WrInv(wr')
  <1> DEFINE v == updateCapturedRoutes(updateInterfaceMetrics(wr))
             excl == [d \in DOMAIN v.mon.excl \cup {dst} |-> IF d = dst THEN Unrouted(0) ELSE v.mon.excl[d]]
             w == [v EXCEPT !.mon.excl = excl]
             t == updateExclusionRoute(w, {dst})
  <1>0. /\ WrTyped(wr) /\ wr.mon.live /\ dst \notin DOMAIN wr.mon.excl /\ (dst = LanRange => ~wr.mon.capture)
        /\ wr.old = NoMonitor /\ (~wr.mon.capture => wr.mon.clones = {})
    BY SMTT(30) DEF AddExclusionRoute, WrInv
  <1>1. Looked(wr, v)
    BY <1>0, LookKeeps, SMTT(30)
  <1>2. wr' = [t EXCEPT !.synced = FALSE]
    BY SMTT(30) DEF AddExclusionRoute
  <1> HIDE DEF v, t
  <1>3. DOMAIN excl = DOMAIN wr.mon.excl \cup {dst} /\ excl[dst].via = "none"
        /\ \A d \in DOMAIN wr.mon.excl : excl[d] = wr.mon.excl[d]
    BY <1>0, <1>1, ZenonT(40) DEF Unrouted, Looked
  <1> HIDE DEF excl
  <1>4. /\ DOMAIN w = WrFields /\ DOMAIN w.mon = WrMonFields
        /\ w.sys = wr.sys /\ w.conn = wr.conn /\ w.old = wr.old /\ w.pending = wr.pending
        /\ w.mon.live = wr.mon.live /\ w.mon.excl = excl /\ w.mon.capture = wr.mon.capture
        /\ w.mon.ifs = wr.conn /\ w.mon.clones = v.mon.clones /\ w.kern = v.kern
    BY <1>1, SMTT(30) DEF Looked, WrFields, WrMonFields
  <1> HIDE DEF w
  <1>5. OwnRows(w.mon) = OwnRows(v.mon) /\ TunnelRows(w.mon) = TunnelRows(v.mon)
    <2>1. v.mon.excl = wr.mon.excl /\ v.mon.capture = wr.mon.capture
      BY <1>1, SMTT(30) DEF Looked
    <2>2. \A k : k \in OwnRows(w.mon) <=> \E d \in DOMAIN excl : excl[d].via # "none" /\ k = OwnRow(d, excl[d])
      BY <1>4, SMTT(30) DEF OwnRows, RowsOf
    <2>3. \A k : k \in OwnRows(v.mon) <=> \E d \in DOMAIN wr.mon.excl : wr.mon.excl[d].via # "none" /\ k = OwnRow(d, wr.mon.excl[d])
      BY <2>1, SMTT(30) DEF OwnRows, RowsOf
    <2>4. \A k : k \in OwnRows(w.mon) <=> k \in OwnRows(v.mon)
      BY <1>3, <2>2, <2>3, SMTT(30)
    <2> QED BY <1>4, <2>1, <2>4, ZenonT(40) DEF TunnelRows, ClonedRows
  <1>6. Refreshed(w, t, {dst})
    <2>1. w.kern = OwnRows(w.mon) \cup TunnelRows(w.mon)
      BY <1>1, <1>4, <1>5, SMTT(30) DEF Looked
    <2>2. /\ w.sys \subseteq SysRows /\ w.mon.ifs \subseteq Range(WrIfs)
          /\ DOMAIN w.mon.excl \subseteq {LanRange, ServerPrefix}
          /\ \A d \in DOMAIN w.mon.excl : w.mon.excl[d].via # "vpn"
      BY <1>0, <1>3, <1>4, SMTT(30) DEF WrTyped
    <2> QED BY <1>4, <2>1, <2>2, RefreshKeepsTable, SMTT(30) DEF t
  <1>7. /\ DOMAIN wr' = WrFields /\ wr'.mon = t.mon /\ wr'.sys = wr.sys /\ wr'.conn = wr.conn
        /\ wr'.old = NoMonitor /\ wr'.pending = wr.pending /\ wr'.synced = FALSE /\ wr'.kern = t.kern
    BY <1>0, <1>2, <1>4, <1>6, SMTT(30) DEF Refreshed, WrFields
  <1>8. /\ DOMAIN t.mon.excl = DOMAIN wr.mon.excl \cup {dst} /\ t.mon.excl[dst] = Target(wr, dst)
        /\ \A d \in DOMAIN wr.mon.excl : t.mon.excl[d] = wr.mon.excl[d]
    <2>1. t.mon.excl = [d \in DOMAIN excl |-> IF d \in {dst} THEN ExclusionTarget(w.sys, w.mon.ifs, d) ELSE excl[d]]
      BY <1>4, <1>6, SMTT(30) DEF Refreshed
    <2>2. ExclusionTarget(w.sys, w.mon.ifs, dst) = Target(wr, dst)
      BY <1>4, ZenonT(40) DEF Target
    <2> QED BY <1>0, <1>3, <2>1, <2>2, SMTT(30)
  <1>9. Target(wr, dst).via # "vpn"
    <2>1. dst \in Seq({0, 1}) /\ w.sys \in SUBSET SysRows /\ w.mon.ifs \in SUBSET Range(WrIfs)
      BY <1>0, <1>4, WrAssumption, SMTT(30) DEF WrTyped
    <2>2. LeavesAsWithout(ExclusionTarget(w.sys, w.mon.ifs, dst), BestRows(w.sys, w.mon.ifs, dst), dst)
      BY <2>1, TargetFacts, ZenonT(40)
    <2>3. ExclusionTarget(w.sys, w.mon.ifs, dst) = Target(wr, dst)
      BY <1>4, SMTT(30) DEF Target
    <2> QED BY <2>2, <2>3, SMTT(30) DEF LeavesAsWithout
  <1>10. /\ t.mon.live = wr.mon.live /\ t.mon.capture = wr.mon.capture /\ DOMAIN t.mon = WrMonFields
         /\ t.mon.clones = IF wr.mon.capture THEN RoutesToCapture(wr) ELSE wr.mon.clones
         /\ t.kern = OwnRows(t.mon) \cup TunnelRows(t.mon)
    BY <1>1, <1>4, <1>6, ZenonT(40) DEF Looked, Refreshed
  <1>11. /\ t.mon.clones \subseteq SysPrefixes \ {<<>>}
         /\ LanRange \in DOMAIN wr.mon.excl => \A d \in t.mon.clones : ~routeContainsDest(LanRange, d)
    <2>1. CASE wr.mon.capture
      BY <1>0, <1>10, <2>1, CapturesAreRoutes, SMTT(30) DEF WrTyped
    <2>2. CASE ~wr.mon.capture
      BY <1>0, <1>10, <2>2, SMTT(30)
    <2> QED BY <2>1, <2>2, ZenonT(40)
  <1>12. WrTyped(wr')
    <2>1. DOMAIN wr'.mon.excl \subseteq {LanRange, ServerPrefix} /\ \A d \in DOMAIN wr'.mon.excl : wr'.mon.excl[d].via # "vpn"
      BY <1>0, <1>7, <1>8, <1>9 DEF WrTyped
    <2>2. wr'.sys \subseteq SysRows /\ wr'.conn \subseteq Range(WrIfs) /\ wr'.pending \in BOOLEAN /\ wr'.synced \in BOOLEAN
      BY <1>0, <1>7, ZenonT(40) DEF WrTyped
    <2>3. wr'.mon.live \in BOOLEAN /\ wr'.mon.capture \in BOOLEAN /\ DOMAIN wr'.mon = WrMonFields
      BY <1>0, <1>7, <1>10, SMTT(30) DEF WrTyped
    <2> QED BY <1>7, <1>11, <2>1, <2>2, <2>3, NoMonitorFacts, ZenonT(40) DEF WrTyped
  <1>13. LanRange \in DOMAIN wr'.mon.excl => \A d \in wr'.mon.clones : ~routeContainsDest(LanRange, d)
    BY <1>0, <1>7, <1>8, <1>10, <1>11, ZenonT(40)
  <1>14. wr'.kern = OwnRows(wr'.mon) \cup OwnRows(wr'.old) \cup TunnelRows(wr'.mon)
    BY <1>7, <1>10, NoMonitorFacts, SMTT(30)
  <1>15. wr'.mon.live /\ ~wr'.pending => \A d \in DOMAIN wr'.mon.excl : wr'.mon.excl[d] = Target(wr', d)
    <2>1. \A d : Target(wr', d) = Target(wr, d)
      BY <1>7, TargetSame, SMTT(30)
    <2>2. wr.mon.live /\ ~wr.pending => \A d \in DOMAIN wr.mon.excl : wr.mon.excl[d] = Target(wr, d)
      BY SMTT(30) DEF WrInv
    <2> QED BY <1>7, <1>8, <1>10, <2>1, <2>2, SMTT(30)
  <1>16. ~wr'.mon.capture => wr'.mon.clones = {}
    BY <1>0, <1>7, <1>10, SMTT(30)
  <1> QED BY <1>0, <1>7, <1>10, <1>12, <1>13, <1>14, <1>15, <1>16, NoMonitorFacts, ZenonT(40) DEF WrInv

\* deleteExclusionRoute takes its row and no other out of the table.
LEMMA DeleteExclusionKeeps ==
    ASSUME WrInv(wr), NEW dst \in {LanRange, ServerPrefix}, DeleteExclusionRoute(dst)
    PROVE  WrInv(wr')
  <1> DEFINE was == wr.mon.excl
             now == [d \in DOMAIN was \ {dst} |-> was[d]]
  <1>0. /\ WrTyped(wr) /\ wr.mon.live /\ dst \in DOMAIN was /\ wr.old = NoMonitor
        /\ wr.kern = OwnRows(wr.mon) \cup TunnelRows(wr.mon)
    BY NoMonitorFacts, SMTT(30) DEF DeleteExclusionRoute, WrInv
  <1>1. wr' = [wr EXCEPT !.kern = @ \ {OwnRow(dst, was[dst])}, !.mon.excl = now, !.synced = FALSE]
    BY SMTT(30) DEF DeleteExclusionRoute
  <1>2. DOMAIN now = DOMAIN was \ {dst} /\ \A d \in DOMAIN now : now[d] = was[d]
    OBVIOUS
  <1> HIDE DEF now
  <1>3. /\ DOMAIN wr' = WrFields /\ DOMAIN wr'.mon = WrMonFields
        /\ wr'.sys = wr.sys /\ wr'.conn = wr.conn /\ wr'.old = NoMonitor /\ wr'.pending = wr.pending
        /\ wr'.synced = FALSE /\ wr'.mon.live = wr.mon.live /\ wr'.mon.excl = now
        /\ wr'.mon.capture = wr.mon.capture /\ wr'.mon.clones = wr.mon.clones
        /\ wr'.kern = wr.kern \ {OwnRow(dst, was[dst])}
    BY <1>0, <1>1, ZenonT(40) DEF WrTyped, WrFields, WrMonFields
  <1>4. wr'.kern = OwnRows(wr'.mon) \cup TunnelRows(wr'.mon)
    <2>1. TunnelRows(wr'.mon) = TunnelRows(wr.mon)
      BY <1>3, SMTT(30) DEF TunnelRows, ClonedRows
    <2>2. \A k : k \in OwnRows(wr.mon) <=> \E d \in DOMAIN was : was[d].via # "none" /\ k = OwnRow(d, was[d])
      BY SMTT(30) DEF OwnRows, RowsOf
    <2>3. \A k : k \in OwnRows(wr'.mon) <=> \E d \in DOMAIN now : now[d].via # "none" /\ k = OwnRow(d, now[d])
      BY <1>3, SMTT(30) DEF OwnRows, RowsOf
    <2>4. \A d, e : OwnRow(d, e).via = e.via /\ OwnRow(d, e).dst = d
      BY SMTT(30) DEF OwnRow
    <2>5. was[dst].via # "vpn" /\ \A k \in TunnelRows(wr.mon) : k.via = "vpn"
      BY <1>0, RowsInTunnel, SMTT(30) DEF WrTyped
    <2>6. OwnRow(dst, was[dst]) \notin TunnelRows(wr.mon)
      BY <2>4, <2>5, SMTT(30)
    <2>7. \A k : k \in OwnRows(wr'.mon) <=> k \in OwnRows(wr.mon) /\ k # OwnRow(dst, was[dst])
      <3> SUFFICES ASSUME NEW k PROVE k \in OwnRows(wr'.mon) <=> k \in OwnRows(wr.mon) /\ k # OwnRow(dst, was[dst])
        BY SMTT(30)
      <3>1. ASSUME k \in OwnRows(wr'.mon) PROVE k \in OwnRows(wr.mon) /\ k # OwnRow(dst, was[dst])
        <4>1. PICK d \in DOMAIN now : now[d].via # "none" /\ k = OwnRow(d, now[d])
          BY <2>3, <3>1, SMTT(30)
        <4>2. OwnRow(d, now[d]).dst = d /\ OwnRow(dst, was[dst]).dst = dst
          BY <2>4, SMTT(30)
        <4> QED BY <1>2, <2>2, <4>1, <4>2, SMTT(30)
      <3>2. ASSUME k \in OwnRows(wr.mon), k # OwnRow(dst, was[dst]) PROVE k \in OwnRows(wr'.mon)
        BY <1>2, <2>2, <2>3, <3>2, SMTT(30)
      <3> QED BY <3>1, <3>2, SMTT(30)
    <2> QED BY <1>0, <1>3, <2>1, <2>6, <2>7, ZenonT(40)
  <1>5. WrTyped(wr')
    <2>1. DOMAIN wr'.mon.excl \subseteq {LanRange, ServerPrefix} /\ \A d \in DOMAIN wr'.mon.excl : wr'.mon.excl[d].via # "vpn"
      BY <1>0, <1>2, <1>3 DEF WrTyped
    <2>2. /\ wr'.sys \subseteq SysRows /\ wr'.conn \subseteq Range(WrIfs) /\ wr'.pending \in BOOLEAN /\ wr'.synced \in BOOLEAN
          /\ wr'.mon.live \in BOOLEAN /\ wr'.mon.capture \in BOOLEAN /\ wr'.mon.clones \subseteq SysPrefixes \ {<<>>}
      BY <1>0, <1>3, ZenonT(40) DEF WrTyped
    <2> QED BY <1>3, <2>1, <2>2, NoMonitorFacts, ZenonT(40) DEF WrTyped
  <1>6. wr'.mon.live /\ ~wr'.pending => \A d \in DOMAIN wr'.mon.excl : wr'.mon.excl[d] = Target(wr', d)
    <2>1. \A d : Target(wr', d) = Target(wr, d)
      BY <1>3, TargetSame, SMTT(30)
    <2>2. wr.mon.live /\ ~wr.pending => \A d \in DOMAIN was : was[d] = Target(wr, d)
      BY SMTT(30) DEF WrInv
    <2> QED BY <1>2, <1>3, <2>1, <2>2, SMTT(30)
  <1>7. LanRange \in DOMAIN wr'.mon.excl => \A d \in wr'.mon.clones : ~routeContainsDest(LanRange, d)
    BY <1>2, <1>3, ZenonT(40) DEF WrInv
  <1>8. ~wr'.mon.capture => wr'.mon.clones = {}
    BY <1>3, ZenonT(40) DEF WrInv
  <1> QED BY <1>0, <1>3, <1>4, <1>5, <1>6, <1>7, <1>8, NoMonitorFacts, ZenonT(40) DEF WrInv

\* The calls that begin and end the capture keep the invariant.
LEMMA PrefixKeeps ==
    ASSUME WrInv(wr), UpdateRoutePrefix \/ DeleteRoutePrefix
    PROVE  WrInv(wr')
  <1>0. /\ WrTyped(wr) /\ wr.mon.live /\ wr.old = NoMonitor
        /\ wr.kern = OwnRows(wr.mon) \cup TunnelRows(wr.mon)
    BY NoMonitorFacts, SMTT(30) DEF UpdateRoutePrefix, DeleteRoutePrefix, WrInv
  <1>1. /\ DOMAIN wr' = WrFields /\ DOMAIN wr'.mon = WrMonFields
        /\ wr'.sys = wr.sys /\ wr'.conn = wr.conn /\ wr'.old = NoMonitor /\ wr'.pending = wr.pending
        /\ wr'.synced = FALSE /\ wr'.mon.live = wr.mon.live /\ wr'.mon.excl = wr.mon.excl
    <2>1. CASE UpdateRoutePrefix
      <3>1. wr' = [wr EXCEPT !.mon.capture = TRUE, !.kern = @ \cup {CloneRow(<<>>)}, !.synced = FALSE]
        BY <2>1, SMTT(30) DEF UpdateRoutePrefix
      <3> QED BY <1>0, <3>1, Zenon DEF WrTyped, WrFields, WrMonFields
    <2>2. CASE DeleteRoutePrefix
      <3>1. wr' = [wr EXCEPT !.mon.capture = FALSE, !.mon.clones = {},
                             !.kern = @ \ (ClonedRows(wr.mon) \cup {CloneRow(<<>>)}), !.synced = FALSE]
        BY <2>2, SMTT(30) DEF DeleteRoutePrefix
      <3> QED BY <1>0, <3>1, Zenon DEF WrTyped, WrFields, WrMonFields
    <2> QED BY Zenon, <2>1, <2>2
  <1>2. OwnRows(wr'.mon) = OwnRows(wr.mon)
    BY <1>1, SMTT(30) DEF OwnRows
  <1>3. /\ wr'.mon.capture \in BOOLEAN /\ wr'.mon.clones = {}
        /\ wr'.kern = OwnRows(wr'.mon) \cup TunnelRows(wr'.mon)
    <2>1. CASE UpdateRoutePrefix
      <3>1. wr.mon.capture = FALSE /\ wr.mon.clones = {}
        BY <1>0, <2>1, SMTT(30) DEF UpdateRoutePrefix, WrInv, WrTyped
      <3>2. wr'.mon.capture = TRUE /\ wr'.mon.clones = {} /\ wr'.kern = wr.kern \cup {CloneRow(<<>>)}
        BY <1>0, <2>1, <3>1, SMTT(30) DEF UpdateRoutePrefix, WrTyped, WrFields, WrMonFields
      <3>3. TunnelRows(wr.mon) = {} /\ TunnelRows(wr'.mon) = {CloneRow(<<>>)}
        BY <3>1, <3>2, SMTT(30) DEF TunnelRows, ClonedRows
      <3> QED BY ZenonT(40), <1>0, <1>2, <3>2, <3>3
    <2>2. CASE DeleteRoutePrefix
      <3>1. wr.mon.capture = TRUE
        BY <1>0, <2>2, SMTT(30) DEF DeleteRoutePrefix, WrTyped
      <3>2. /\ wr'.mon.capture = FALSE /\ wr'.mon.clones = {}
            /\ wr'.kern = wr.kern \ (ClonedRows(wr.mon) \cup {CloneRow(<<>>)})
        BY <1>0, <2>2, ZenonT(40) DEF DeleteRoutePrefix, WrTyped, WrFields, WrMonFields
      <3>3. TunnelRows(wr.mon) = ClonedRows(wr.mon) \cup {CloneRow(<<>>)} /\ TunnelRows(wr'.mon) = {}
        BY <3>1, <3>2, SMTT(30) DEF TunnelRows, ClonedRows
      <3>4. OwnRows(wr.mon) \cap TunnelRows(wr.mon) = {}
        <4>1. \A k \in OwnRows(wr.mon) : k.via # "vpn"
          BY <1>0, RowsOutside, SMTT(30) DEF WrTyped
        <4>2. \A k \in TunnelRows(wr.mon) : k.via = "vpn"
          BY RowsInTunnel, SMTT(30)
        <4> QED BY <4>1, <4>2, SMTT(30)
      <3> QED BY ZenonT(40), <1>0, <1>2, <3>2, <3>3, <3>4
    <2> QED BY <2>1, <2>2, SMTT(30)
  <1>4. WrTyped(wr')
    BY <1>0, <1>1, <1>3, NoMonitorFacts, ZenonT(40) DEF WrTyped
  <1>5. wr'.mon.live /\ ~wr'.pending => \A d \in DOMAIN wr'.mon.excl : wr'.mon.excl[d] = Target(wr', d)
    <2>1. \A d : Target(wr', d) = Target(wr, d)
      BY <1>1, TargetSame, SMTT(30)
    <2> QED BY <1>1, <2>1, ZenonT(40) DEF WrInv
  <1> QED BY <1>0, <1>1, <1>3, <1>4, <1>5, NoMonitorFacts, ZenonT(40) DEF WrInv

\* deleteInterface leaves the monitor, with nothing captured, to deleteLater.
LEMMA DeleteInterfaceKeeps == ASSUME WrInv(wr), WrDeleteInterface PROVE WrInv(wr')
  <1>0. WrTyped(wr) /\ wr.mon.live /\ wr.mon.capture = FALSE /\ wr.mon.clones = {} /\ wr.old = NoMonitor
    BY SMTT(30) DEF WrDeleteInterface, WrInv, WrTyped
  <1>1. /\ DOMAIN wr' = WrFields /\ wr'.sys = wr.sys /\ wr'.conn = wr.conn /\ wr'.kern = wr.kern
        /\ wr'.mon = NoMonitor /\ wr'.old = wr.mon /\ wr'.pending = FALSE /\ wr'.synced = FALSE
    BY <1>0, SMTT(30) DEF WrDeleteInterface, WrTyped, WrFields
  <1>2. TunnelRows(wr.mon) = {}
    BY <1>0, SMTT(30) DEF TunnelRows, ClonedRows
  <1>3. WrTyped(wr')
    BY <1>0, <1>1, NoMonitorFacts, ZenonT(40) DEF WrTyped
  <1>4. wr'.kern = OwnRows(wr'.mon) \cup OwnRows(wr'.old) \cup TunnelRows(wr'.mon)
    BY <1>0, <1>1, <1>2, NoMonitorFacts, ZenonT(40) DEF WrInv
  <1> QED BY <1>0, <1>1, <1>3, <1>4, NoMonitorFacts, ZenonT(40) DEF WrInv

\* The destructor takes the last rows out of the table.
LEMMA DestroyKeeps == ASSUME WrInv(wr), DestroyMonitor PROVE WrInv(wr')
  <1>0. WrTyped(wr) /\ wr.old.live /\ wr.mon = NoMonitor /\ wr.old.clones = {}
    BY NoMonitorFacts, SMTT(30) DEF DestroyMonitor, WrInv, WrTyped
  <1>1. /\ DOMAIN wr' = WrFields /\ wr'.sys = wr.sys /\ wr'.conn = wr.conn
        /\ wr'.kern = wr.kern \ (OwnRows(wr.old) \cup ClonedRows(wr.old))
        /\ wr'.mon = NoMonitor /\ wr'.old = NoMonitor /\ wr'.pending = wr.pending /\ wr'.synced = wr.synced
    BY <1>0, SMTT(30) DEF DestroyMonitor, WrTyped, WrFields
  <1>2. wr'.kern = {}
    BY <1>0, <1>1, NoMonitorFacts, ZenonT(40) DEF WrInv
  <1>3. WrTyped(wr')
    BY <1>0, <1>1, NoMonitorFacts, SMTT(30) DEF WrTyped
  <1> QED BY <1>1, <1>2, <1>3, NoMonitorFacts, ZenonT(40) DEF WrInv

\* A route change callback captures and excludes by the table it reads.
LEMMA RouteChangedKeeps == ASSUME WrInv(wr), RouteChanged PROVE WrInv(wr')
  <1> DEFINE w == updateCapturedRoutes(updateInterfaceMetrics(wr))
             t == updateExclusionRoute(w, DOMAIN w.mon.excl)
  <1>0. /\ WrTyped(wr) /\ wr.mon.live /\ wr.old = NoMonitor /\ (~wr.mon.capture => wr.mon.clones = {})
        /\ (LanRange \in DOMAIN wr.mon.excl => \A d \in wr.mon.clones : ~routeContainsDest(LanRange, d))
    BY SMTT(30) DEF RouteChanged, WrInv
  <1>1. Looked(wr, w)
    BY <1>0, LookKeeps, SMTT(30)
  <1>2. wr' = [t EXCEPT !.pending = FALSE, !.synced = TRUE]
    BY SMTT(30) DEF RouteChanged
  <1> HIDE DEF w
  <1>3. Refreshed(w, t, DOMAIN w.mon.excl)
    <2>1. /\ DOMAIN w = WrFields /\ DOMAIN w.mon = WrMonFields /\ w.sys = wr.sys /\ w.mon.ifs = wr.conn
          /\ w.mon.excl = wr.mon.excl /\ w.kern = OwnRows(w.mon) \cup TunnelRows(w.mon)
      BY <1>1, SMTT(30) DEF Looked
    <2>2. /\ w.sys \subseteq SysRows /\ w.mon.ifs \subseteq Range(WrIfs)
          /\ DOMAIN w.mon.excl \subseteq {LanRange, ServerPrefix}
          /\ \A d \in DOMAIN w.mon.excl : w.mon.excl[d].via # "vpn"
      BY <1>0, <2>1, SMTT(30) DEF WrTyped
    <2> QED BY <2>1, <2>2, RefreshKeepsTable, SMTT(30)
  <1> HIDE DEF t
  <1>4. /\ DOMAIN wr' = WrFields /\ wr'.mon = t.mon /\ wr'.sys = wr.sys /\ wr'.conn = wr.conn
        /\ wr'.old = NoMonitor /\ wr'.pending = FALSE /\ wr'.synced = TRUE /\ wr'.kern = t.kern
    BY <1>0, <1>1, <1>2, <1>3, SMTT(30) DEF Refreshed, Looked, WrFields
  <1>5. /\ t.mon.live = wr.mon.live /\ t.mon.capture = wr.mon.capture /\ DOMAIN t.mon = WrMonFields
        /\ t.mon.clones = IF wr.mon.capture THEN RoutesToCapture(wr) ELSE wr.mon.clones
        /\ t.kern = OwnRows(t.mon) \cup TunnelRows(t.mon)
    BY <1>1, <1>3, ZenonT(40) DEF Looked, Refreshed
  <1>6. DOMAIN t.mon.excl = DOMAIN wr.mon.excl /\ \A d \in DOMAIN wr.mon.excl : t.mon.excl[d] = Target(wr, d)
    <2>1. w.sys = wr.sys /\ w.mon.ifs = wr.conn /\ w.mon.excl = wr.mon.excl
      BY <1>1, SMTT(30) DEF Looked
    <2>2. t.mon.excl = [d \in DOMAIN w.mon.excl |-> IF d \in DOMAIN w.mon.excl THEN ExclusionTarget(w.sys, w.mon.ifs, d) ELSE w.mon.excl[d]]
      BY <1>3, SMTT(30) DEF Refreshed
    <2> QED BY <2>1, <2>2, SMTT(30) DEF Target
  <1>7. \A d \in DOMAIN wr.mon.excl : Target(wr, d).via # "vpn"
    <2> SUFFICES ASSUME NEW d \in DOMAIN wr.mon.excl PROVE Target(wr, d).via # "vpn"
      BY SMTT(30)
    <2>1. d \in Seq({0, 1}) /\ wr.sys \in SUBSET SysRows /\ wr.conn \in SUBSET Range(WrIfs)
      BY <1>0, WrAssumption, SMTT(30) DEF WrTyped
    <2>2. LeavesAsWithout(Target(wr, d), BestRows(wr.sys, wr.conn, d), d)
      BY <2>1, TargetFacts, SMTT(30) DEF Target
    <2> QED BY <2>2, SMTT(30) DEF LeavesAsWithout
  <1>8. /\ t.mon.clones \subseteq SysPrefixes \ {<<>>}
        /\ LanRange \in DOMAIN wr.mon.excl => \A d \in t.mon.clones : ~routeContainsDest(LanRange, d)
    <2>1. CASE wr.mon.capture
      BY <1>0, <1>5, <2>1, CapturesAreRoutes, SMTT(30) DEF WrTyped
    <2>2. CASE ~wr.mon.capture
      BY <1>0, <1>5, <2>2, SMTT(30)
    <2> QED BY <2>1, <2>2, SMTT(30)
  <1>9. WrTyped(wr')
    <2>1. DOMAIN wr'.mon.excl \subseteq {LanRange, ServerPrefix} /\ \A d \in DOMAIN wr'.mon.excl : wr'.mon.excl[d].via # "vpn"
      BY <1>0, <1>4, <1>6, <1>7 DEF WrTyped
    <2>2. wr'.sys \subseteq SysRows /\ wr'.conn \subseteq Range(WrIfs) /\ wr'.pending \in BOOLEAN /\ wr'.synced \in BOOLEAN
      BY <1>0, <1>4, Zenon DEF WrTyped
    <2>3. wr'.mon.live \in BOOLEAN /\ wr'.mon.capture \in BOOLEAN /\ DOMAIN wr'.mon = WrMonFields
      BY <1>0, <1>4, <1>5, SMTT(30) DEF WrTyped
    <2> QED BY <1>4, <1>8, <2>1, <2>2, <2>3, NoMonitorFacts, ZenonT(40) DEF WrTyped
  <1>10. \A d \in DOMAIN wr'.mon.excl : wr'.mon.excl[d] = Target(wr', d)
    <2>1. \A d : Target(wr', d) = Target(wr, d)
      BY <1>4, TargetSame, SMTT(30)
    <2> QED BY <1>4, <1>6, <2>1, SMTT(30)
  <1>11. wr'.mon.capture => wr'.mon.clones = RoutesToCapture(wr')
    <2>1. RoutesToCapture(wr') = RoutesToCapture(wr)
      BY <1>4, <1>6, CapturesRead, SMTT(30)
    <2> QED BY <1>4, <1>5, <2>1, SMTT(30)
  <1>12. wr'.kern = OwnRows(wr'.mon) \cup OwnRows(wr'.old) \cup TunnelRows(wr'.mon)
    BY <1>4, <1>5, NoMonitorFacts, SMTT(30)
  <1>13. LanRange \in DOMAIN wr'.mon.excl => \A d \in wr'.mon.clones : ~routeContainsDest(LanRange, d)
    BY <1>4, <1>6, <1>8, SMTT(30)
  <1>14. ~wr'.mon.capture => wr'.mon.clones = {}
    BY <1>0, <1>4, <1>5, SMTT(30)
  <1> QED BY <1>0, <1>4, <1>5, <1>9, <1>10, <1>11, <1>12, <1>13, <1>14, NoMonitorFacts, ZenonT(40) DEF WrInv

\* The system's own changes touch no row of the monitor, and are reported to it.
LEMMA SystemKeeps == ASSUME WrInv(wr), SysRouteChanges \/ InterfaceChanges PROVE WrInv(wr')
  <1>0. WrTyped(wr)
    BY SMTT(30) DEF WrInv
  <1>1. /\ DOMAIN wr' = WrFields /\ wr'.kern = wr.kern /\ wr'.mon = wr.mon /\ wr'.old = wr.old
        /\ wr'.pending = wr.mon.live /\ wr'.synced = wr.synced
        /\ wr'.sys \subseteq SysRows /\ wr'.conn \subseteq Range(WrIfs)
    <2>1. CASE SysRouteChanges
      <3>1. PICK r \in SysRows : wr' = [wr EXCEPT !.sys = IF r \in @ THEN @ \ {r} ELSE @ \cup {r}, !.pending = wr.mon.live]
        BY <2>1, ZenonT(40) DEF SysRouteChanges
      <3> QED BY <1>0, <3>1, SMTT(30) DEF WrTyped, WrFields
    <2>2. CASE InterfaceChanges
      <3>1. PICK i \in Range(WrIfs) :
              wr' = [wr EXCEPT !.conn = IF i \in @ THEN @ \ {i} ELSE @ \cup {i},
                               !.sys = IF i \in wr.conn THEN {r \in @ : r.via # i}
                                                        ELSE @ \cup {[dst |-> <<>>, via |-> i, hop |-> 1]},
                               !.pending = wr.mon.live]
        BY <2>2, Zenon DEF InterfaceChanges
      <3> DEFINE row == [dst |-> <<>>, via |-> i, hop |-> 1]
      <3>2. row \in SysRows
        BY DEF SysRows
      <3> HIDE DEF row
      <3>3. wr'.sys = (IF i \in wr.conn THEN {r \in wr.sys : r.via # i} ELSE wr.sys \cup {row})
        BY <1>0, <3>1, SMTT(30) DEF WrTyped, WrFields, row
      <3>4. wr'.conn = IF i \in wr.conn THEN wr.conn \ {i} ELSE wr.conn \cup {i}
        BY <1>0, <3>1, SMTT(30) DEF WrTyped, WrFields
      <3>5. /\ DOMAIN wr' = WrFields /\ wr'.kern = wr.kern /\ wr'.mon = wr.mon /\ wr'.old = wr.old
            /\ wr'.pending = wr.mon.live /\ wr'.synced = wr.synced
        BY <1>0, <3>1, SMTT(30) DEF WrTyped, WrFields
      <3>6. wr'.sys \subseteq SysRows /\ wr'.conn \subseteq Range(WrIfs)
        BY <1>0, <3>2, <3>3, <3>4, SMTT(30) DEF WrTyped
      <3> QED BY <3>5, <3>6, SMTT(30)
    <2> QED BY <2>1, <2>2, SMTT(30)
  <1>2. WrTyped(wr')
    BY <1>0, <1>1, SMTT(30) DEF WrTyped
  <1>3. ~(wr'.mon.live /\ ~wr'.pending)
    BY <1>1, SMTT(30)
  <1>4. ~(wr'.mon.capture /\ wr'.synced /\ ~wr'.pending)
    BY <1>1, NoMonitorFacts, ZenonT(40) DEF WrInv
  <1> QED BY <1>1, <1>2, <1>3, <1>4, ZenonT(40) DEF WrInv

\* Every step keeps the invariant.
LEMMA WrStep == ASSUME ~QuickReconnect PROVE WrInv(wr) /\ [WrNext]_wr => WrInv(wr')
  <1> SUFFICES ASSUME WrInv(wr), [WrNext]_wr PROVE WrInv(wr')
    BY SMTT(30)
  <1>1. CASE UNCHANGED wr
    BY <1>1, SMTT(30)
  <1>2. CASE WrAddInterface
    BY <1>2, MonitorBegins, SMTT(30)
  <1>3. ASSUME NEW dst \in {LanRange, ServerPrefix}, AddExclusionRoute(dst) PROVE WrInv(wr')
    BY <1>3, AddExclusionKeeps, SMTT(30)
  <1>4. ASSUME NEW dst \in {LanRange, ServerPrefix}, DeleteExclusionRoute(dst) PROVE WrInv(wr')
    BY <1>4, DeleteExclusionKeeps, SMTT(30)
  <1>5. CASE UpdateRoutePrefix \/ DeleteRoutePrefix
    BY <1>5, PrefixKeeps, SMTT(30)
  <1>6. CASE WrDeleteInterface
    BY <1>6, DeleteInterfaceKeeps, SMTT(30)
  <1>7. CASE DestroyMonitor
    BY <1>7, DestroyKeeps, SMTT(30)
  <1>8. CASE RouteChanged
    BY <1>8, RouteChangedKeeps
  <1>9. CASE SysRouteChanges \/ InterfaceChanges
    BY <1>9, SystemKeeps
  <1> QED BY <1>1, <1>2, <1>3, <1>4, <1>5, <1>6, <1>7, <1>8, <1>9, SMTT(30) DEF WrNext

\* Once no route change is left to report, the traffic to an excluded address leaves
\* by the interface it would use without the tunnel and captured routes are the
\* system's: for any interfaces and prefixes, when a tunnel is not brought up again
\* before deleteLater has destroyed the monitor of the last one.
THEOREM RowsFollow == ASSUME ~QuickReconnect PROVE WrSpec => []RowsFollowSystem
  <1>1. WrInit => WrInv(wr)
    BY WrInitOk, SMTT(30)
  <1>2. WrInv(wr) /\ [WrNext]_wr => WrInv(wr)'
    BY WrStep, SMTT(30)
  <1>3. WrInv(wr) => RowsFollowSystem
    BY InvGivesRows
  <1> QED BY <1>1, <1>2, <1>3, PTL DEF WrSpec

=============================================================================

---------------------------- MODULE HealthCheck ----------------------------
(***************************************************************************)
(* The probe of the servers' latency: class HealthCheckController          *)
(* (client/ui/controllers/healthCheckController.cpp) and the badges it     *)
(* writes into ServersModel (setHealthResult).                             *)
(*                                                                         *)
(* A run has three queues: connections of sockets ("tcp", or "https" for a *)
(* server behind a CDN), WireGuard handshakes and Hysteria2 pings, the     *)
(* latter two on worker threads that cannot be cancelled: stopProbe        *)
(* detaches them (loose).  Rows that share an address and port share one   *)
(* probe.                                                                  *)
(***************************************************************************)
EXTENDS Integers, Sequences, FiniteSets, Functions, FiniteSetsExt

CONSTANTS
  ProbeLists,     \* lists of servers: sequences of [id, kind, eps]
  KMaxParallel, KWgMaxParallel,
  Latencies,      \* round trip times of a probe that succeeds
  MaxRuns,        \* bound: calls of startProbe that start a run
  MaxEdits        \* bound: removals of servers

ASSUME HealthAssumption == KMaxParallel > 0 /\ KWgMaxParallel > 0 /\ Latencies \subseteq Nat

VARIABLES hp      \* the controller, the badges and the list of servers

Queues == {"tcp", "wg", "h2"}
QueueOf(kind) == IF kind = "https" THEN "tcp" ELSE kind
Parallel(q) == CASE q = "tcp" -> KMaxParallel [] q = "wg" -> KWgMaxParallel [] OTHER -> 1
Flying(h, q) == {t \in h.fly : QueueOf(t.kind) = q}

\* The probe of one address of row i: a new target, or one more row of the target there is.
AddTarget(queue, i, kind, ep) ==
  LET same == {k \in DOMAIN queue : queue[k].ep = ep}
  IN  IF same # {} THEN [queue EXCEPT ![Min(same)].rows = Append(@, i)]
      ELSE Append(queue, [kind |-> kind, rows |-> <<i>>, ep |-> ep, attempts |-> 1])

\* startProbe collects the targets of a queue row by row.
Collect(list, q) ==
  LET upTo[i \in 0 .. Len(list)] ==
        IF i = 0 THEN <<>>
        ELSE IF QueueOf(list[i].kind) # q THEN upTo[i - 1]
        ELSE LET row[k \in 0 .. Len(list[i].eps)] ==
                   IF k = 0 THEN upTo[i - 1] ELSE AddTarget(row[k - 1], i, list[i].kind, list[i].eps[k])
             IN  row[Len(list[i].eps)]
  IN  upTo[Len(list)]

TcpTargets(list) == Collect(list, "tcp")   \* vless: every address of the node, or the CDN's front
WgTargets(list)  == Collect(list, "wg")    \* awg and wireguard with complete keys
H2Targets(list)  == Collect(list, "h2")    \* hysteria2

\* startNext, startNextWg and startNextH2 for the queue q.
StartNext(h, q) ==
  LET free == Parallel(q) - Cardinality(Flying(h, q))
      n    == IF free < Len(h.queue[q]) THEN free ELSE Len(h.queue[q])
  IN  [h EXCEPT !.fly = @ \cup {h.queue[q][k] : k \in 1..n},
                !.queue[q] = SubSeq(@, n + 1, Len(@))]

MaybeFinishProbe(h) ==
  IF h.active /\ h.fly = {} /\ \A q \in Queues : h.queue[q] = <<>>
  THEN [h EXCEPT !.active = FALSE, !.signals = @ + 1] ELSE h

MutStopProbe(h) ==
  [h EXCEPT !.fly = {}, !.queue = [q \in Queues |-> <<>>],
            !.loose = @ \cup {t \in h.fly : t.kind \in {"wg", "h2"}}, !.active = FALSE]

\* stopProbe: sockets are aborted, workers detached, waiters woken up.
StopProbe(h) ==
  [h EXCEPT !.fly = {}, !.queue = [q \in Queues |-> <<>>],
            !.loose = @ \cup {t \in h.fly : t.kind \in {"wg", "h2"}},
            !.active = FALSE, !.signals = @ + IF h.active THEN 1 ELSE 0]

\* setHealthResult of one row keeps the best; 0 is "no result", -1 "offline".
SetHealthResult(old, ms) ==
  IF old # 0 /\ ((old > 0 /\ (ms < 0 \/ ms >= old)) \/ (old < 0 /\ ms < 0)) THEN old ELSE ms

Apply(h, t, ms) ==
  [h EXCEPT !.badge = [i \in DOMAIN @ |-> IF i \in Range(t.rows) THEN SetHealthResult(@[i], ms) ELSE @[i]],
            !.seen[t.ep] = @ \cup {ms}]

\* finishSocket, finishWatcher and finishH2Watcher after the result.
Finish(h, t, ms) ==
  LET q == QueueOf(t.kind)
  IN  MaybeFinishProbe(StartNext(Apply([h EXCEPT !.fly = @ \ {t}], t, ms), q))

-----------------------------------------------------------------------------
(* Steps *)

\* startProbe; a run within kThrottleMs of the last one is only made by force.
StartProbe(force) ==
  /\ hp.runs < MaxRuns
  /\ force \/ ~hp.recent
  /\ LET s == [StopProbe(hp) EXCEPT !.recent = TRUE, !.runs = @ + 1, !.moved = FALSE,
                                    !.badge = [i \in DOMAIN @ |-> 0],
                                    !.seen = [e \in DOMAIN @ |-> {}],
                                    !.queue = [tcp |-> TcpTargets(hp.list), wg |-> WgTargets(hp.list), h2 |-> H2Targets(hp.list)]]
         n == StartNext(StartNext(StartNext(s, "tcp"), "wg"), "h2")
     IN  hp' = MaybeFinishProbe([n EXCEPT !.active = TRUE])

\* External: kThrottleMs pass.
ThrottleEnds == hp.recent /\ hp' = [hp EXCEPT !.recent = FALSE]

\* A connection (coreController: Connecting or Connected) ends the run and clears the badges.
Stopped ==
  hp' = [StopProbe(hp) EXCEPT !.badge = [i \in DOMAIN @ |-> 0], !.seen = [e \in DOMAIN @ |-> {}]]

\* A socket connected; behind a CDN a status of 500 and more is the edge's.
SocketDone(t) ==
  /\ t.kind \in {"tcp", "https"}
  /\ \/ \E ms \in Latencies : hp' = Finish(hp, t, ms)
     \/ t.kind = "https" /\ hp' = Finish(hp, t, -1)

\* errorOccurred: one retry with a timer of its own.
SocketError(t) ==
  /\ t.kind \in {"tcp", "https"}
  /\ hp' = IF t.attempts < 2 THEN [hp EXCEPT !.fly = (@ \ {t}) \cup {[t EXCEPT !.attempts = @ + 1]}]
           ELSE Finish(hp, t, -1)

\* The timer of the attempt.
SocketTimeout(t) == t.kind \in {"tcp", "https"} /\ hp' = Finish(hp, t, -1)

\* A handshake that timed out goes to the end of the queue once.
WatcherDone(t) ==
  /\ t.kind = "wg"
  /\ \/ \E ms \in Latencies : hp' = Finish(hp, t, ms)
     \/ IF t.attempts < 2
        THEN hp' = MaybeFinishProbe(StartNext([hp EXCEPT !.fly = @ \ {t},
                                       !.queue["wg"] = Append(@, [t EXCEPT !.attempts = @ + 1])], "wg"))
        ELSE hp' = Finish(hp, t, -1)

H2Done(t) == t.kind = "h2" /\ \E ms \in Latencies \cup {-1} : hp' = Finish(hp, t, ms)

\* A detached worker returns; nothing listens.
LooseEnds(t) == hp' = [hp EXCEPT !.loose = @ \ {t}]

\* removeServer of the model: the badges are cleared, the targets keep their row numbers.
RemoveProbed(i) ==
  /\ hp.edits < MaxEdits
  /\ hp' = [hp EXCEPT !.edits = @ + 1, !.list = SubSeq(@, 1, i - 1) \o SubSeq(@, i + 1, Len(@)), !.moved = TRUE,
                      !.badge = [k \in DOMAIN @ |-> 0], !.seen = [e \in DOMAIN @ |-> {}]]

HealthInit ==
  \E list \in ProbeLists :
    hp = [list |-> list, queue |-> [q \in Queues |-> <<>>], fly |-> {}, loose |-> {}, active |-> FALSE,
          signals |-> 0, runs |-> 0, recent |-> FALSE, edits |-> 0, moved |-> FALSE,
          badge |-> [i \in DOMAIN list |-> 0],
          seen |-> [e \in UNION {Range(list[i].eps) : i \in DOMAIN list} |-> {}]]

ProbeEnds ==
  \E t \in hp.fly : SocketDone(t) \/ SocketError(t) \/ SocketTimeout(t) \/ WatcherDone(t) \/ H2Done(t)

HealthNext ==
  \/ \E force \in BOOLEAN : StartProbe(force)
  \/ ThrottleEnds
  \/ Stopped
  \/ ProbeEnds
  \/ \E t \in hp.loose : LooseEnds(t)
  \/ \E i \in DOMAIN hp.list : RemoveProbed(i)

\* Every probe of a run ends by its own timeout.
HealthFairness == WF_hp(ProbeEnds)
HealthSpec == HealthInit /\ [][HealthNext]_hp /\ HealthFairness

-----------------------------------------------------------------------------
(* Properties *)

Best(ms) == IF \E x \in ms : x > 0 THEN Min({x \in ms : x > 0}) ELSE IF ms = {} THEN 0 ELSE -1

\* A badge shows the best of what this run measured at the addresses of its row, also
\* for rows that share an address, until a removal moves the rows (setHealthResult).
BadgeIsBest ==
  hp.moved \/ \A i \in DOMAIN hp.list :
                hp.badge[i] = Best(UNION {hp.seen[hp.list[i].eps[k]] : k \in DOMAIN hp.list[i].eps})

\* probingFinished is emitted once for every run, finished, stopped or superseded, and
\* not before its last probe: automatic selection takes the badges when it comes.
FinishedOncePerRun ==
  /\ hp.signals = hp.runs - (IF hp.active THEN 1 ELSE 0)
  /\ ~hp.active => hp.fly = {} /\ \A q \in Queues : hp.queue[q] = <<>>

\* A run reports what it measured, once (setHealthResult, finishRun).
RunIsReported == BadgeIsBest /\ FinishedOncePerRun

\* A run that began ends: whoever waits for probingFinished gets it.
RunEnds == \A n \in 1..MaxRuns : (hp.runs >= n) ~> (hp.signals >= n)
=============================================================================

---------------------------- MODULE Subscriptions ----------------------------
(***************************************************************************)
(* The subscriptions of the client: class ApiConfigsController             *)
(* (client/ui/controllers/api/apiConfigsController.cpp) and the import flow *)
(* of client/core/controllers/coreController.cpp, over the list of servers. *)
(*                                                                         *)
(* A feed is one run of fetchSubscriptionFeed: POST v1/services, then one   *)
(* POST v1/config for every connection whose stored revision is not the     *)
(* announced one, at most Concurrency at a time, every answer handled in an *)
(* event of its own.  Two feeds may be under way: the background or manual  *)
(* reload, which walks through all subscriptions, and an import.            *)
(*                                                                         *)
(* call is a request made with executeRequest: the caller's stack waits in  *)
(* a nested event loop that shuts out the user but runs timers and the      *)
(* answers of the feeds.                                                   *)
(***************************************************************************)
EXTENDS ServersModel, FiniteSetsExt

CONSTANTS
  RankOf,         \* Conns -> the rank of the node's protocol in the list
  Concurrency,    \* kFetchConcurrency
  MaxUser,        \* bound: what the user and the timers start
  MaxChanges,     \* bound: changes of the gateway's catalog
  OverlapCalls    \* whether a nested request that edits a row may overlap a feed

VARIABLES
  rl,      \* the reload: m_subscriptionReloadRunning and the captures of its steps
  feeds,   \* the feeds under way
  call,    \* the nested request
  cv,      \* catalog version: known, pending, the poll under way, the env filter
  gw,      \* external: the gateway's catalog and its version
  budget   \* the bounds

subsVars == <<sm, rl, feeds, call, cv, gw, budget>>

NoFeed == [st |-> "idle", sub |-> "", items |-> <<>>, inFlight |-> {}, next |-> 1,
           pending |-> 0, fails |-> {}]
NoCall == [kind |-> "none", row |-> 0, server |-> [owner |-> "manual", conn |-> NoConn, rev |-> 0, cfg |-> 0, renamed |-> FALSE]]
Idle   == [running |-> FALSE, notify |-> FALSE, remaining |-> <<>>, any |-> FALSE, prev |-> NoConn]

-----------------------------------------------------------------------------
(* Installing what a feed brought *)

\* applyDisplayIndexAndSort: a stable sort by protocol.
SortByProtocol(rows) ==
  LET ranks == {RankOf[rows[i].conn] : i \in DOMAIN rows}
  IN  FoldLeft(LAMBDA acc, k : acc \o SelectSeq(rows, LAMBDA r : RankOf[r.conn] = k), <<>>,
               SetToSortSeq(ranks, <))

MutMatches(m, s) ==
  {i \in DOMAIN m.rows : /\ SubscriptionIdForServer(m.rows[i]) = SubscriptionIdForServer(s)
                         /\ m.rows[i].conn = s.conn /\ m.rows[i].rev = s.rev}

Matches(m, s) ==
  {i \in DOMAIN m.rows : /\ SubscriptionIdForServer(m.rows[i]) = SubscriptionIdForServer(s)
                         /\ m.rows[i].conn = s.conn}

\* installSubscriptionConfigObject: the name the user gave outlives the edit.
InstallSubscriptionConfigObject(m, s) ==
  IF s.conn # NoConn /\ Matches(m, s) # {}
  THEN LET i == Min(Matches(m, s))
       IN  EditServer(m, [s EXCEPT !.renamed = m.rows[i].renamed, !.owner = m.rows[i].owner], i)
  ELSE AddServer(m, s)

InstallAll(m, rows) == FoldLeft(InstallSubscriptionConfigObject, m, rows)

\* reconcileSubscription: from the last row to the first, then install.
Vanished(m, sub, fresh, fails) ==
  {i \in DOMAIN m.rows : /\ SubscriptionIdForServer(m.rows[i]) = sub
                         /\ m.rows[i].conn \notin fresh \cup fails}
ReconcileSubscription(m, sub, rows, fails) ==
  LET sorted  == SortByProtocol(rows)
      fresh   == {rows[i].conn : i \in DOMAIN rows}
      gone    == Reverse(SetToSortSeq(Vanished(m, sub, fresh, fails), <))
  IN  InstallAll(FoldLeft(RemoveServerAt, m, gone), sorted)

-----------------------------------------------------------------------------
(* A feed *)

\* The servers of this subscription that may be reused while their revision stands.
StoredByKey(m, sub, c) ==
  LET is == {i \in DOMAIN m.rows : SubscriptionIdForServer(m.rows[i]) = sub /\ m.rows[i].conn = c}
  IN  IF is = {} THEN NoCall.server ELSE m.rows[Min(is)]

\* decorate: what v1/services says of the connection over a configuration.
Decorate(sub, c, rev, cfg) == [owner |-> sub, conn |-> c, rev |-> rev, cfg |-> cfg, renamed |-> FALSE]

\* One work item for every connection announced; ok when nothing is to be fetched.
WorkItem(m, sub, c, rev) ==
  LET s == StoredByKey(m, sub, c)
      same == Usable(s) /\ rev = s.rev
  IN  [rev |-> rev, ok |-> same, row |-> [Decorate(sub, c, rev, IF same THEN s.cfg ELSE 0) EXCEPT !.renamed = same /\ s.renamed]]

WorkItems(m, sub) ==
  LET cs == SetToSeq({c \in Conns : gw.cat[sub][c] > 0})
  IN  [i \in DOMAIN cs |-> WorkItem(m, sub, cs[i], gw.cat[sub][cs[i]])]

\* pump: requests in the order of the items while fewer than Concurrency are under way.
Pump(f) ==
  LET todo == SetToSortSeq({i \in f.next..Len(f.items) : ~f.items[i].ok}, <)
      free == Concurrency - Cardinality(f.inFlight)
      sent == SubSeq(todo, 1, IF free < Len(todo) THEN free ELSE Len(todo))
  IN  [f EXCEPT !.inFlight = @ \cup ToSet(sent),
                !.next = IF Len(sent) = free /\ sent # <<>> THEN Last(sent) + 1
                         ELSE IF free = 0 THEN @ ELSE Len(f.items) + 1]

Finished(f) == f.pending = 0 /\ f.inFlight = {}
Fetched(f)  == [k \in 1..Cardinality({i \in DOMAIN f.items : f.items[i].ok}) |->
                  f.items[SetToSortSeq({i \in DOMAIN f.items : f.items[i].ok}, <)[k]].row]

-----------------------------------------------------------------------------
(* The reload *)

CollectSubscriptionIds(m) ==
  LET ids == SelectSeq([i \in DOMAIN m.rows |-> SubscriptionIdForServer(m.rows[i])], LAMBDA x : x # "")
  IN  FoldLeft(LAMBDA acc, x : IF Contains(acc, x) THEN acc ELSE Append(acc, x), <<>>, ids)

\* The selection is restored by connection and node, or falls back to the first row.
RestoreSelection(m, prev) ==
  LET same == {i \in DOMAIN m.rows : prev # NoConn /\ m.rows[i].conn = prev}
  IN  IF m.rows = <<>> THEN m
      ELSE SetDefaultServerIndex(m, IF same = {} THEN 1 ELSE Min(same))

EnvAfterReload(m) ==
  IF "premium" \in m.envs THEN "premium" ELSE IF "private" \in m.envs THEN "private" ELSE "all"

\* The last step: selection, filters, the catalog version, the flags.
ReloadLastStep(m, r) ==
  /\ sm' = RestoreSelection(m, r.prev)
  /\ cv' = [cv EXCEPT !.env = EnvAfterReload(m),
                      !.known = IF cv.pending = 0 THEN @ ELSE cv.pending, !.pending = 0]
  /\ rl' = Idle
  /\ feeds' = [feeds EXCEPT !["reload"] = NoFeed]

\* The lambda step: the next subscription's feed, or the last step.
ReloadStep(m, r) ==
  IF r.remaining = <<>> THEN ReloadLastStep(m, r)
  ELSE /\ rl' = [r EXCEPT !.remaining = Tail(@)]
       /\ feeds' = [feeds EXCEPT !["reload"] = [NoFeed EXCEPT !.st = "services", !.sub = Head(r.remaining)]]
       /\ sm' = m
       /\ UNCHANGED cv

MutCallback(f, success, rows, fails) ==
  IF f = "reload"
  THEN ReloadStep(ReconcileSubscription(sm, feeds[f].sub, rows, fails), rl)
  ELSE /\ sm' = InstallAll(sm, SortByProtocol(rows))
       /\ feeds' = [feeds EXCEPT ![f] = NoFeed]
       /\ UNCHANGED <<rl, cv>>

\* What a feed reports to whoever started it.
Callback(f, success, rows, fails) ==
  IF f = "reload"
  THEN IF success
       THEN ReloadStep(ReconcileSubscription(sm, feeds[f].sub, rows, fails), [rl EXCEPT !.any = TRUE])
       ELSE ReloadStep(sm, rl)
  ELSE /\ sm' = IF success THEN InstallAll(sm, SortByProtocol(rows)) ELSE sm
       /\ feeds' = [feeds EXCEPT ![f] = NoFeed]
       /\ UNCHANGED <<rl, cv>>

\* reloadSubscriptionConfigs, from the button (not silent) or from the catalog poll.
StartReload(silent, v) ==
  IF rl.running
  THEN /\ rl' = [rl EXCEPT !.notify = @ \/ ~silent]
       /\ cv' = v
       /\ UNCHANGED <<sm, feeds>>
  ELSE IF CollectSubscriptionIds(sm) = <<>>
  THEN /\ cv' = v
       /\ UNCHANGED <<sm, rl, feeds>>
  ELSE LET ids == CollectSubscriptionIds(sm)
       IN  /\ rl' = [running |-> TRUE, notify |-> ~silent, remaining |-> Tail(ids), any |-> FALSE,
                     prev |-> IF sm.def \in DOMAIN sm.rows THEN sm.rows[sm.def].conn ELSE NoConn]
           /\ feeds' = [feeds EXCEPT !["reload"] = [NoFeed EXCEPT !.st = "services", !.sub = Head(ids)]]
           /\ cv' = v
           /\ UNCHANGED sm

-----------------------------------------------------------------------------
(* The steps *)

UserMay == call.kind = "none" /\ budget.user > 0
SpendUser == budget' = [budget EXCEPT !.user = @ - 1]

Reload == UserMay /\ SpendUser /\ StartReload(FALSE, cv) /\ UNCHANGED <<call, gw>>

\* A link or an activation key: fetchSubscriptionConfigs, then install all.  "share" is
\* the link of a shared region, which authenticates by its token.
Import(sub) ==
  /\ UserMay /\ feeds["import"].st = "idle"
  /\ SpendUser
  /\ feeds' = [feeds EXCEPT !["import"] = [NoFeed EXCEPT !.st = "services", !.sub = sub]]
  /\ UNCHANGED <<sm, rl, call, cv, gw>>

\* The answer to v1/services: an error, no service at all, or the catalog.
ServicesFail(f) ==
  /\ feeds[f].st = "services"
  /\ Callback(f, FALSE, <<>>, {})
  /\ UNCHANGED <<call, gw, budget>>

ServicesAnswer(f) ==
  /\ feeds[f].st = "services"
  /\ LET items == WorkItems(sm, feeds[f].sub)
         g == Pump([feeds[f] EXCEPT !.st = "configs", !.items = items,
                                    !.pending = Cardinality({i \in DOMAIN items : ~items[i].ok})])
     IN  IF items = <<>> THEN Callback(f, FALSE, <<>>, {})
         ELSE IF Finished(g) THEN Callback(f, TRUE, Fetched(g), {})
         ELSE feeds' = [feeds EXCEPT ![f] = g] /\ UNCHANGED <<sm, rl, cv>>
  /\ UNCHANGED <<call, gw, budget>>

MutConfigDone(f, g) ==
  LET h == [g EXCEPT !.pending = @ - 1]
  IN  IF Finished(h)
      THEN Callback(f, \E i \in DOMAIN h.items : h.items[i].ok, Fetched(h), h.fails)
      ELSE feeds' = [feeds EXCEPT ![f] = h] /\ UNCHANGED <<sm, rl, cv>>

\* The rest of the answer's handler: counters, pump, and the end of the feed.
ConfigDone(f, g) ==
  LET h == Pump([g EXCEPT !.pending = @ - 1])
  IN  IF Finished(h)
      THEN Callback(f, \E i \in DOMAIN h.items : h.items[i].ok, Fetched(h), h.fails)
      ELSE feeds' = [feeds EXCEPT ![f] = h] /\ UNCHANGED <<sm, rl, cv>>

ConfigFail(f, i) ==
  /\ i \in feeds[f].inFlight
  /\ ConfigDone(f, [feeds[f] EXCEPT !.inFlight = @ \ {i}, !.fails = @ \cup {feeds[f].items[i].row.conn}])
  /\ UNCHANGED <<call, gw, budget>>

MutConfigAnswer(f, i, r) ==
  /\ i \in feeds[f].inFlight
  /\ LET c == feeds[f].items[i].row.conn
     IN  /\ r > 0 /\ r \in {gw.cat[feeds[f].sub][c], gw.cat[feeds[f].sub][c] - 1}
         /\ ConfigDone(f, [feeds[f] EXCEPT !.inFlight = @ \ {i}, !.items[i].ok = TRUE,
                                           !.items[i].row = Decorate(feeds[f].sub, c, feeds[f].items[i].rev, r)])
  /\ UNCHANGED <<call, gw, budget>>

\* The revision is the one of the answer, which may lag behind v1/services.
ConfigAnswer(f, i, r) ==
  /\ i \in feeds[f].inFlight
  /\ LET c == feeds[f].items[i].row.conn
     IN  /\ r > 0 /\ r \in {gw.cat[feeds[f].sub][c], gw.cat[feeds[f].sub][c] - 1}
         /\ ConfigDone(f, [feeds[f] EXCEPT !.inFlight = @ \ {i}, !.items[i].ok = TRUE,
                                           !.items[i].row = Decorate(feeds[f].sub, c, r, r)])
  /\ UNCHANGED <<call, gw, budget>>

\* checkCatalogVersion, every thirty minutes: the request and its answer.
CatalogPoll ==
  /\ budget.user > 0 /\ cv.poll = 0 /\ CollectSubscriptionIds(sm) # <<>>
  /\ SpendUser
  /\ cv' = [cv EXCEPT !.poll = gw.version]
  /\ UNCHANGED <<sm, rl, feeds, call, gw>>

CatalogFail ==
  /\ cv.poll # 0
  /\ cv' = [cv EXCEPT !.poll = 0]
  /\ UNCHANGED <<sm, rl, feeds, call, gw, budget>>

CatalogAnswer ==
  /\ cv.poll # 0
  /\ IF cv.known = 0
     THEN cv' = [cv EXCEPT !.known = cv.poll, !.poll = 0] /\ UNCHANGED <<sm, rl, feeds>>
     ELSE IF cv.known = cv.poll
     THEN cv' = [cv EXCEPT !.poll = 0] /\ UNCHANGED <<sm, rl, feeds>>
     ELSE StartReload(TRUE, [cv EXCEPT !.pending = cv.poll, !.poll = 0])
  /\ OverlapCalls \/ call.kind \notin {"update", "deactivate"}
  /\ UNCHANGED <<call, gw, budget>>

\* External: the gateway adds, drops or changes a node of a subscription.
CatalogChange(sub, c) ==
  /\ budget.changes > 0
  /\ \E r \in {0, gw.cat[sub][c] + 1} :
       r # gw.cat[sub][c] /\ r <= MaxRev /\ gw' = [cat |-> [gw.cat EXCEPT ![sub][c] = r], version |-> gw.version + 1]
  /\ budget' = [budget EXCEPT !.changes = @ - 1]
  /\ UNCHANGED <<sm, rl, feeds, call, cv>>

-----------------------------------------------------------------------------
(* Requests in a nested event loop *)

FeedUnderWay == \E f \in DOMAIN feeds : feeds[f].st # "idle"
MayEditLater == OverlapCalls \/ (~FeedUnderWay /\ cv.poll = 0)

\* updateServiceFromGateway, from the server's page or before an auto selection:
\* the row number and the server are read now.
UpdateServiceFromGateway(i) ==
  /\ UserMay /\ MayEditLater /\ i \in DOMAIN sm.rows /\ sm.rows[i].owner # "manual"
  /\ call' = [kind |-> "update", row |-> i, server |-> sm.rows[i]]
  /\ SpendUser
  /\ UNCHANGED <<sm, rl, feeds, cv, gw>>

\* deactivateDevice of the processed server.
DeactivateDevice ==
  /\ UserMay /\ MayEditLater /\ sm.proc \in DOMAIN sm.rows /\ sm.rows[sm.proc].owner \in Subs
  /\ call' = [kind |-> "deactivate", row |-> sm.proc, server |-> sm.rows[sm.proc]]
  /\ SpendUser
  /\ UNCHANGED <<sm, rl, feeds, cv, gw>>

\* importSharedConnection: the link is known already, or its configuration is requested.
ImportSharedConnection ==
  /\ UserMay /\ ~\E i \in DOMAIN sm.rows : sm.rows[i].owner = "share" /\ sm.rows[i].conn = NoConn
  /\ call' = [NoCall EXCEPT !.kind = "share"]
  /\ SpendUser
  /\ UNCHANGED <<sm, rl, feeds, cv, gw>>

\* importServiceForCountry: not when the subscription has a server there already.
ImportServiceForCountry(sub) ==
  /\ UserMay /\ ~\E i \in DOMAIN sm.rows : sm.rows[i].owner = sub
  /\ call' = [NoCall EXCEPT !.kind = "country", !.server.owner = sub]
  /\ SpendUser
  /\ UNCHANGED <<sm, rl, feeds, cv, gw>>

\* finishGatewayConfigUpdate: an error keeps what is stored, and so does an answer
\* without host or containers; a good one is written to the row number read before.
FinishGatewayConfigUpdate(r) ==
  LET s == call.server
      fresh == [s EXCEPT !.rev = r, !.cfg = r]
  IN  IF fresh = s THEN sm ELSE EditServer(sm, fresh, call.row)

\* The nested loop ends with an answer (0: an error or a useless one).
CallReturns(r) ==
  /\ call.kind # "none"
  /\ LET c == call.server.conn
         cur == IF c # NoConn THEN gw.cat[call.server.owner][c] ELSE 1
     IN  r \in {0, cur}
  /\ sm' = CASE call.kind = "update" -> IF r = 0 THEN sm ELSE FinishGatewayConfigUpdate(r)
             [] call.kind = "deactivate" -> IF r = 0 THEN sm ELSE EditServer(sm, [call.server EXCEPT !.cfg = 0], call.row)
             [] call.kind = "share" -> IF r = 0 THEN sm ELSE AddServer(sm, [NoCall.server EXCEPT !.owner = "share", !.cfg = r])
             [] OTHER -> IF r = 0 THEN sm ELSE AddServer(sm, [call.server EXCEPT !.cfg = r])
  /\ cv' = IF r # 0 /\ call.kind = "share" THEN [cv EXCEPT !.env = "all"] ELSE cv
  /\ call' = NoCall
  /\ UNCHANGED <<rl, feeds, gw, budget>>

-----------------------------------------------------------------------------
(* The user and the list *)

SelectServer(i) ==
  /\ UserMay /\ i \in DOMAIN sm.rows
  /\ sm' = SetDefaultServerIndex(sm, i)
  /\ SpendUser
  /\ UNCHANGED <<rl, feeds, call, cv, gw>>

RenameServer(i) ==
  /\ UserMay /\ i \in DOMAIN sm.rows /\ ~sm.rows[i].renamed
  /\ sm' = Rename([sm EXCEPT !.proc = i], i)
  /\ SpendUser
  /\ UNCHANGED <<rl, feeds, call, cv, gw>>

\* InstallController::removeServer of the row the page was opened for.
RemoveServer(i) ==
  /\ UserMay /\ i \in DOMAIN sm.rows
  /\ sm' = RemoveServerAt([sm EXCEPT !.proc = i], i)
  /\ SpendUser
  /\ UNCHANGED <<rl, feeds, call, cv, gw>>

\* An import that replaces everything (ImportController, "replace" mode).
RemoveAll ==
  /\ UserMay /\ sm.rows # <<>>
  /\ sm' = RemoveAllServers(sm)
  /\ SpendUser
  /\ UNCHANGED <<rl, feeds, call, cv, gw>>

-----------------------------------------------------------------------------

SubsInit ==
  /\ \E def \in 1..3 :
       sm = LET A == CHOOSE s \in Subs : TRUE
                B == CHOOSE s \in Subs : s # A
                c == CHOOSE c \in Conns : TRUE
            IN  Loaded(<<Decorate(A, c, 1, 1), Decorate(B, c, 1, 1), NoCall.server>>, def)
  /\ rl = Idle
  /\ feeds = [f \in {"reload", "import"} |-> NoFeed]
  /\ call = NoCall
  /\ cv = [known |-> 1, pending |-> 0, poll |-> 0, env |-> "all"]
  /\ gw = [cat |-> [s \in Subs \cup {"share"} |-> [c \in Conns |-> 1]], version |-> 1]
  /\ budget = [user |-> MaxUser, changes |-> MaxChanges]

Answers ==
  \/ \E f \in DOMAIN feeds :
       \/ ServicesFail(f)
       \/ ServicesAnswer(f)
       \/ \E i \in feeds[f].inFlight : ConfigFail(f, i) \/ \E r \in 1..MaxRev : ConfigAnswer(f, i, r)
  \/ CatalogFail
  \/ CatalogAnswer
  \/ \E r \in 0..MaxRev : CallReturns(r)

UserSteps ==
  \/ Reload
  \/ \E sub \in Subs : ImportServiceForCountry(sub)
  \/ \E sub \in Subs \cup {"share"} : Import(sub)
  \/ \E i \in DOMAIN sm.rows : SelectServer(i) \/ RenameServer(i) \/ RemoveServer(i) \/ UpdateServiceFromGateway(i)
  \/ RemoveAll
  \/ DeactivateDevice
  \/ ImportSharedConnection

SubsNext ==
  \/ Answers
  \/ UserSteps
  \/ CatalogPoll
  \/ \E sub \in Subs, c \in Conns : CatalogChange(sub, c)

\* Every request ends: with an answer, or with the transfer timeout.  (Weak fairness of
\* Answers, which are possible exactly while a request is under way.)
Requested == (\E f \in DOMAIN feeds : feeds[f].st = "services" \/ feeds[f].inFlight # {}) \/ cv.poll # 0 \/ call.kind # "none"
SubsFairness == []<>(~Requested) \/ []<><<Answers>>_subsVars

SubsSpec == SubsInit /\ [][SubsNext]_subsVars /\ SubsFairness

-----------------------------------------------------------------------------
(* Properties *)

\* The revision kept with a server is that of the configuration it holds (a later
\* feed fetches nothing when the announced revision equals it): it is taken from the
\* answer to v1/config, never from the v1/services that preceded it.
RevDescribesConfig ==
  \A i \in DOMAIN sm.rows :
    (IsFrknSubscriptionServer(sm.rows[i]) /\ Usable(sm.rows[i])) => sm.rows[i].rev = sm.rows[i].cfg

ReloadFeedSteps == feeds["reload"].st # "idle" /\ feeds'["reload"] # feeds["reload"] /\ budget' = budget
RowsNotOf(m, sub) == SelectSeq(m.rows, LAMBDA r : SubscriptionIdForServer(r) # sub)

\* Refreshing one subscription touches no server of another one, no share and no
\* hand-made server, whatever answers failed (reconcileSubscription).
OthersUntouched ==
  ReloadFeedSteps => RowsNotOf(sm', feeds["reload"].sub) = RowsNotOf(sm, feeds["reload"].sub)

\* A server disappears in a reload only when the gateway's answer to v1/services did
\* not announce its connection: a failed v1/config, a failed v1/services or an empty
\* one keeps it (the failures list of fetchSubscriptionFeed).
RemovedOnlyWhenGone ==
  ReloadFeedSteps =>
    LET f == feeds["reload"]
        announced == IF f.st = "services" THEN {c \in Conns : gw.cat[f.sub][c] > 0}
                     ELSE {f.items[i].row.conn : i \in DOMAIN f.items}
    IN  \A i \in DOMAIN sm.rows :
          (SubscriptionIdForServer(sm.rows[i]) = f.sub /\ (sm.rows[i].conn \in announced \/ announced = {}))
            => \E j \in DOMAIN sm'.rows : sm'.rows[j].owner = f.sub /\ sm'.rows[j].conn = sm.rows[i].conn

\* The name the user gave a server outlives every refresh, import and update of it.
RenameSurvives ==
  \A i \in DOMAIN sm.rows, j \in DOMAIN sm'.rows :
    (/\ sm.rows[i].renamed /\ sm.rows[i].owner = sm'.rows[j].owner /\ sm.rows[i].conn = sm'.rows[j].conn
     /\ IsFrknSubscriptionServer(sm.rows[i])) => sm'.rows[j].renamed

\* No step of a refresh loses what the gateway did not take back: servers of others,
\* servers still announced, names of the user.
RefreshLosesNothing == [][OthersUntouched /\ RemovedOnlyWhenGone /\ RenameSurvives]_subsVars

\* A reload that began ends, with every subscription tried: the spinner of the list
\* stops and the next reload is not refused (m_subscriptionReloadRunning).
ReloadEnds == rl.running ~> ~rl.running
=============================================================================

----------------------------- MODULE MCRequests -----------------------------
(***************************************************************************)
(* The components of the client that ask something of the network and must *)
(* deal with every answer: subscriptions, the gateway, the probes of the   *)
(* servers and downloads of configurations.  Their modules share no state, *)
(* so one of them runs (part) and the others stay in an initial state: the *)
(* behaviours are those of each component on its own, all in one run.      *)
(***************************************************************************)
EXTENDS Subscriptions, Gateway, HealthCheck, WgProbe, ImportFlow

VARIABLE part

requestVars == <<part, subsVars, req, hp, probeVars, imp>>

MCEnvOf == [c \in Conns |-> IF c = "n1" THEN "premium" ELSE "private"]
MCRankOf == [c \in Conns |-> IF c = "n1" THEN 3 ELSE 1]

Probed(id, kind, eps) == [id |-> id, kind |-> kind, eps |-> eps]
MCProbeLists ==
  {<<Probed(1, "tcp", <<"a", "b">>), Probed(2, "https", <<"c">>), Probed(3, "tcp", <<"b">>)>>,
   <<Probed(1, "wg", <<"a", "b">>), Probed(2, "wg", <<"b">>), Probed(3, "h2", <<"c">>)>>,
   <<Probed(1, "h2", <<"a">>), Probed(2, "none", <<>>), Probed(3, "h2", <<"b">>)>>}

MCResponses == {<<"A", "B">>, <<"ss", "B">>, <<"A", "A", "">>, <<"ss">>, <<"html">>}
MCQrSeries == [s \in {"q2", "q3"} |-> IF s = "q2" THEN 2 ELSE 3]

\* A component that runs starts in any of its initial states, another in one of
\* them.  (Of the values m_configType may have, ImportFlow tells two apart.)
Frozen(p, state) == part = p \/ state

RequestsInit ==
  /\ part \in {"subscriptions", "gateway", "health", "probe", "import"}
  /\ SubsInit /\ GatewayInit /\ HealthInit /\ ProbeInit /\ ImportInit
  /\ Frozen("subscriptions", sm.def = 1)
  /\ Frozen("health", hp.list = CHOOSE list \in ProbeLists : TRUE)
  /\ Frozen("probe", /\ ~server.up
                    /\ \A x \in {wp, server} : x.psk = (CHOOSE p \in Psks : TRUE) /\ x.shape = (CHOOSE s \in Shapes : TRUE))
  /\ imp.type \in {"invalid", "shadowsocks"}
  /\ Frozen("import", imp.type = "invalid")

RequestsNext ==
  \/ /\ part = "subscriptions" /\ SubsNext
     /\ UNCHANGED <<part, req, hp, probeVars, imp>>
  \/ /\ part = "gateway" /\ GatewayNext
     /\ UNCHANGED <<part, subsVars, hp, probeVars, imp>>
  \/ /\ part = "health" /\ HealthNext
     /\ UNCHANGED <<part, subsVars, req, probeVars, imp>>
  \/ /\ part = "probe" /\ ProbeNext
     /\ UNCHANGED <<part, subsVars, req, hp, imp>>
  \/ /\ part = "import" /\ ImportNext
     /\ UNCHANGED <<part, subsVars, req, hp, probeVars>>

\* The fairness of the modules, where the component runs.  Waiting is when the
\* answers are possible; it is written out where it is simpler than ENABLED.
Answering ==
  CASE part = "subscriptions" -> Answers
    [] part = "gateway"       -> GatewaySteps
    [] part = "health"        -> ProbeEnds
    [] part = "import"        -> DownloadEnds
    [] part = "probe"         -> ProbeFails \/ ProbeSend

Waiting ==
  CASE part = "subscriptions" -> Requested
    [] part = "gateway"       -> req.pc \notin {"idle", "done", "lost"}
    [] part = "health"        -> hp.fly # {}
    [] part = "import"        -> imp.loads # <<>>
    [] part = "probe"         -> ENABLED <<ProbeFails \/ ProbeSend>>_probeVars

RequestsFairness ==
  /\ []<>(~Waiting) \/ []<><<Answering>>_requestVars
  /\ WF_probeVars(part = "probe" /\ Retransmit)
  /\ WF_probeVars(part = "probe" /\ Deadline)

RequestsSpec == RequestsInit /\ [][RequestsNext]_requestVars /\ RequestsFairness

\* Whatever fails to answer, what the user waits for ends: a reload, a request to the
\* gateway, a run of probes, a handshake probe and a download.
RequestsEnd == ReloadEnds /\ RequestAnswered /\ RunEnds /\ ProbeReturns /\ DownloadAnswered

=============================================================================

------------------------------ MODULE Gateway ------------------------------
(***************************************************************************)
(* One request to the API gateway: class GatewayController                 *)
(* (client/core/controllers/gatewayController.cpp) with                    *)
(* apiUtils::checkNetworkReplyErrors (client/core/api/apiUtils.cpp).       *)
(*                                                                         *)
(* post() waits in a nested event loop, postAsync() answers through a      *)
(* promise.  Both ask the primary gateway, the fallback gateway and, when  *)
(* the answer looks forged or is missing, the proxies that a storage       *)
(* lists.  A controller object serves one request of ApiConfigsController. *)
(*                                                                         *)
(* A reply is what the code tells apart in it: SSL errors, the network     *)
(* error, whether the body decrypts with the keys of this request, and the *)
(* status the body carries.                                                *)
(***************************************************************************)
EXTENDS Integers, Sequences

CONSTANTS
  NStorages,     \* addresses of the list of proxies
  MaxProxies     \* length of that list

ASSUME GatewayAssumption == NStorages \in Nat /\ MaxProxies \in Nat

VARIABLES req    \* the request and its controller

Reply(ssl, err, dec, status, known) ==
  [ssl |-> ssl, err |-> err, dec |-> dec, status |-> status, known |-> known]

\* External: what the network can deliver.
NetworkReplies ==
  {Reply(FALSE, "none", TRUE, "none", FALSE),            \* an answer
   Reply(FALSE, "none", FALSE, "none", FALSE),           \* someone else's page
   Reply(FALSE, "none", TRUE, "html", FALSE),
   Reply(FALSE, "timeout", FALSE, "none", FALSE),
   Reply(FALSE, "refused", FALSE, "none", FALSE),
   Reply(TRUE, "refused", FALSE, "none", FALSE),         \* a failed handshake
   Reply(FALSE, "http", TRUE, "409", FALSE),
   Reply(FALSE, "http", TRUE, "404", TRUE), Reply(FALSE, "http", TRUE, "404", FALSE),
   Reply(FALSE, "notimpl", TRUE, "501", TRUE), Reply(FALSE, "notimpl", TRUE, "501", FALSE),
   Reply(FALSE, "http", TRUE, "none", FALSE), Reply(FALSE, "http", FALSE, "none", FALSE)}

\* shouldBypassProxy
ShouldBypassProxy(r) ==
  \/ ~r.dec
  \/ r.err = "timeout"
  \/ r.status = "html"
  \/ r.status \in {"404", "501"} /\ ~r.known
  \/ r.status = "none" /\ r.err # "none"

\* checkNetworkReplyErrors
CheckNetworkReplyErrors(r) ==
  IF r.ssl THEN "SslError"
  ELSE IF r.err = "none" THEN "NoError"
  ELSE IF r.err = "timeout" THEN "Timeout"
  ELSE IF r.err = "notimpl" THEN "UpdateRequest"
  ELSE IF r.dec /\ r.status = "409" THEN "Limit"
  ELSE IF r.dec /\ r.status = "404" THEN "NotFound"
  ELSE "Download"

\* The end of doPost and processResponse.
ErrorCodeOf(r) ==
  LET e == CheckNetworkReplyErrors(r)
  IN  IF e = "NoError" /\ ~r.dec THEN "Decryption" ELSE e

NoReply == Reply(FALSE, "refused", FALSE, "none", FALSE)

Answer(q, e) == [q EXCEPT !.pc = "done", !.result = e]

\* A post to the primary or the fallback gateway, or to the proxy found before
\* (prepareRequest), with fresh keys.
Send(q) == [q EXCEPT !.pc = "post", !.posts = @ + 1, !.idx = 1, !.proxies = <<>>]

MutPostDone(q) ==
  LET e == ErrorCodeOf([q.last EXCEPT !.ssl = q.ssl])
  IN  IF q.mode = "sync" /\ q.fallback /\ q.endpoint = "primary" /\ e # "NoError" THEN Send([q EXCEPT !.endpoint = "fallback", !.proxy = 0, !.ssl = FALSE])
      ELSE Answer(q, e)

\* The end of doPost and what post() makes of it; processResponse of postAsync.
PostDone(q) ==
  LET e == ErrorCodeOf([q.last EXCEPT !.ssl = q.ssl])
  IN  IF q.mode = "sync" /\ q.fallback /\ q.endpoint = "primary" /\ e \in {"Timeout", "Download"}
      THEN Send([q EXCEPT !.endpoint = "fallback", !.proxy = 0, !.ssl = FALSE])
      ELSE Answer(q, e)

\* The storages are exhausted or gave a list; the proxies are asked for their health
\* unless one is known (bypassProxy).  Without a proxy the asynchronous request ends in
\* an error of its own, the other one in the reply of the gateway.
HaveProxies(q, list) ==
  LET p == [q EXCEPT !.proxies = list, !.idx = 1]
  IN  IF q.mode = "sync" /\ q.proxy # 0 THEN [p EXCEPT !.pc = "proxy", !.posts = @ + 1]
      ELSE IF list # <<>> THEN [p EXCEPT !.pc = "health"]
      ELSE IF q.mode = "sync" THEN PostDone(p)
      ELSE PostDone([p EXCEPT !.last = Reply(FALSE, "http", FALSE, "none", FALSE)])

NextStorage(q) ==
  IF q.idx < NStorages THEN [q EXCEPT !.idx = @ + 1] ELSE HaveProxies(q, <<>>)

\* The rest of the list after a proxy did not do: only post() tries it.
NextProxy(q, i) ==
  IF i <= Len(q.proxies) THEN [q EXCEPT !.pc = "proxies", !.idx = i, !.posts = @ + 1] ELSE PostDone(q)

\* No proxy is in good health.
NoHealthy(q) ==
  IF q.mode = "sync" THEN NextProxy(q, 1)
  ELSE PostDone([q EXCEPT !.last = Reply(FALSE, "http", FALSE, "none", FALSE)])

\* replyProcessingFunction: SSL errors of the proxy before this one refuse this one.
Accepted(q, r) == ~q.ssl /\ ~ShouldBypassProxy(r)

-----------------------------------------------------------------------------
(* Steps *)

\* post and postAsync; prepareRequest may find no public key.
Post(mode, fallback) ==
  /\ req.pc = "idle"
  /\ LET q == [req EXCEPT !.mode = mode, !.fallback = fallback]
     IN  \/ req' = Send(q)
         \/ req' = Answer(q, "MissingKey")

\* The reply of the gateway.
PostReply(r) ==
  /\ req.pc = "post"
  /\ LET q == [req EXCEPT !.last = r, !.ssl = r.ssl, !.good = ~r.ssl /\ ~ShouldBypassProxy(r)]
     IN  req' = IF r.ssl \/ ~ShouldBypassProxy(r) THEN PostDone(q)
                ELSE IF /\ q.mode = "async" /\ q.fallback /\ q.endpoint = "primary"
                        /\ r.err \in {"timeout", "refused"}
                THEN [q EXCEPT !.pc = "retry"]
                ELSE IF NStorages = 0 THEN HaveProxies(q, <<>>)
                ELSE [q EXCEPT !.pc = "storage", !.idx = 1]

\* The queued retry of postAsync; its result is handed to the first promise.
Retry ==
  /\ req.pc = "retry"
  /\ req' = Send([req EXCEPT !.endpoint = "fallback", !.proxy = 0, !.ssl = FALSE])

\* A storage gives a list, something that does not decrypt, or an error.
StorageReply ==
  /\ req.pc = "storage"
  /\ \/ req' = NextStorage(req)
     \/ \E n \in 0..MaxProxies : req' = HaveProxies(req, [i \in 1..n |-> i])

HealthReply(ok) ==
  /\ req.pc = "health"
  /\ req' = IF ok THEN [req EXCEPT !.pc = "proxy", !.proxy = req.proxies[req.idx], !.posts = @ + 1]
            ELSE IF req.idx < Len(req.proxies) THEN [req EXCEPT !.idx = @ + 1]
            ELSE NoHealthy(req)

\* The reply of the proxy in good health.
ProxyReply(r) ==
  /\ req.pc = "proxy"
  /\ LET q == [req EXCEPT !.last = r, !.good = @ \/ (~r.ssl /\ ~ShouldBypassProxy(r)), !.sslSeen = @ \/ r.ssl]
     IN  req' = IF q.mode = "async" THEN PostDone([q EXCEPT !.ssl = r.ssl])
                ELSE IF Accepted(req, r) THEN PostDone(q)
                ELSE NextProxy([q EXCEPT !.ssl = r.ssl], 1)

\* The reply of a proxy of the list.
ProxiesReply(r) ==
  /\ req.pc = "proxies"
  /\ LET q == [req EXCEPT !.last = r, !.good = @ \/ (~r.ssl /\ ~ShouldBypassProxy(r)), !.sslSeen = @ \/ r.ssl]
     IN  req' = IF Accepted(req, r)
                THEN PostDone([q EXCEPT !.proxy = q.proxies[q.idx]])
                ELSE NextProxy([q EXCEPT !.ssl = r.ssl], req.idx + 1)

GatewayInit ==
  req = [pc |-> "idle", mode |-> "sync", fallback |-> FALSE, endpoint |-> "primary", proxy |-> 0,
         proxies |-> <<>>, idx |-> 1, last |-> NoReply, ssl |-> FALSE, posts |-> 0,
         result |-> "none", good |-> FALSE, sslSeen |-> FALSE]

GatewaySteps ==
  \/ Retry
  \/ StorageReply
  \/ \E ok \in BOOLEAN : HealthReply(ok)
  \/ \E r \in NetworkReplies : PostReply(r) \/ ProxyReply(r) \/ ProxiesReply(r)

GatewayNext ==
  \/ \E mode \in {"sync", "async"}, fallback \in BOOLEAN : Post(mode, fallback)
  \/ GatewaySteps

\* Every network request ends: each has a transfer timeout.
GatewayFairness == WF_req(GatewaySteps)
GatewaySpec == GatewayInit /\ [][GatewayNext]_req /\ GatewayFairness

-----------------------------------------------------------------------------
(* Properties *)

\* shouldBypassProxy and checkNetworkReplyErrors agree on which answers are final: once
\* a gateway or proxy gave an answer that need not be bypassed, the request is not sent
\* anywhere else, so the gateway does not carry it out twice.  The exception is the
\* reply that follows one with SSL errors in post(), which is refused (line 248).
\* And success is only reported for a body that decrypted with the keys of this very
\* request.
FinalAnswerHonoured ==
  [][/\ req'.posts # req.posts => (~req'.good \/ req'.sslSeen)
     /\ req'.result = "NoError" => req'.last.dec /\ ~req'.ssl]_req

\* Whatever the network does, the caller's wait ends.
RequestAnswered == (req.pc # "idle") ~> (req.pc = "done")
=============================================================================

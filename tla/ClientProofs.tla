---------------------------- MODULE ClientProofs ----------------------------
(***************************************************************************)
(* Machine-checked proofs about the client: the requests to the API        *)
(* gateway (Gateway.tla), the WireGuard probe (WgProbe.tla), the health    *)
(* check of the server list (HealthCheck.tla), the encrypted settings      *)
(* (SecureSettings.tla) and the import of connections (ImportFlow.tla).    *)
(***************************************************************************)
EXTENDS Gateway, WgProbe, HealthCheck, SecureSettings, ImportFlow, FiniteSetTheorems, TLAPS

\* A CASE with a true guard has its value.  The translation for the SMT solver infers no
\* types for a step that may use a CASE expression; for the large records of these
\* steps, inferring them would take it longer than it is given.
LEMMA Untyped == (CASE TRUE -> 0) = 0
  OBVIOUS
USE Untyped

(* Gateway: the values of a reply and of a request.                        *)

NetErrors == {"none", "timeout", "refused", "http", "notimpl"}
Statuses == {"none", "html", "409", "404", "501"}
ReplySet == [ssl : BOOLEAN, err : NetErrors, dec : BOOLEAN, status : Statuses, known : BOOLEAN]
RequestPhases == {"idle", "post", "retry", "storage", "health", "proxy", "proxies", "done"}
RequestResults == {"none", "MissingKey", "SslError", "NoError", "Timeout", "UpdateRequest", "Limit", "NotFound", "Download", "Decryption"}
Modes == {"sync", "async"}
Endpoints == {"primary", "fallback"}
RequestSet ==
    [pc : RequestPhases, mode : Modes, fallback : BOOLEAN, endpoint : Endpoints, proxy : Nat, proxies : Seq(Nat), idx : Nat,
     last : NetworkReplies, ssl : BOOLEAN, posts : Nat, result : RequestResults, good : BOOLEAN, sslSeen : BOOLEAN]

(* No final answer and no SSL error so far, or an SSL error of a proxy.    *)
Unanswered(q) == (q.good => q.sslSeen) /\ (q.ssl => q.sslSeen)

(* A request under way has no final answer; one that is over succeeded     *)
(* with what it decrypted; the list of proxies is not left.                *)
Answerable(q) ==
    /\ q \in RequestSet
    /\ q.pc # "done" => q.result = "none" /\ Unanswered(q)
    /\ q.result = "NoError" => q.last.dec /\ ~q.ssl
    /\ q.pc \in {"health", "proxies"} => q.idx \in 1 .. Len(q.proxies)

GatewayInv == Answerable(req)
(* One step on the way from q to t: what ends the request does not send it. *)
Onward(q, t) == Answerable(t) /\ (t.pc = "done" => t.posts = q.posts)

(* What the network delivers: an error with a body that decrypts is one of *)
(* the gateway's own, and nothing decrypts after a failed handshake.       *)
Delivered(r) ==
    /\ r \in ReplySet
    /\ r.dec => ~r.ssl /\ (r.err = "none" \/ r.err = "notimpl" \/ (r.err = "http" /\ r.status \in {"409", "404", "none"}))

(* One kind of reply.                                                      *)
LEMMA ReplyDelivered ==
    ASSUME NEW ssl \in BOOLEAN, NEW err \in NetErrors, NEW dec \in BOOLEAN, NEW status \in Statuses, NEW known \in BOOLEAN,
           dec => ~ssl /\ (err = "none" \/ err = "notimpl" \/ (err = "http" /\ status \in {"409", "404", "none"}))
    PROVE  Delivered(Reply(ssl, err, dec, status, known))
<1>1. Reply(ssl, err, dec, status, known) \in ReplySet
  BY DEF Reply, ReplySet
<1> QED
  BY <1>1 DEF Reply, Delivered

(* Every reply of the network is one that is delivered so.                 *)
LEMMA NetworkDelivers == ASSUME NEW r \in NetworkReplies PROVE Delivered(r)
<1>1. Delivered(Reply(FALSE, "none", TRUE, "none", FALSE))
  BY ReplyDelivered, Zenon DEF NetErrors, Statuses
<1>2. Delivered(Reply(FALSE, "none", FALSE, "none", FALSE))
  BY ReplyDelivered, Zenon DEF NetErrors, Statuses
<1>3. Delivered(Reply(FALSE, "none", TRUE, "html", FALSE))
  BY ReplyDelivered, Zenon DEF NetErrors, Statuses
<1>4. Delivered(Reply(FALSE, "timeout", FALSE, "none", FALSE))
  BY ReplyDelivered, Zenon DEF NetErrors, Statuses
<1>5. Delivered(Reply(FALSE, "refused", FALSE, "none", FALSE))
  BY ReplyDelivered, Zenon DEF NetErrors, Statuses
<1>6. Delivered(Reply(TRUE, "refused", FALSE, "none", FALSE))
  BY ReplyDelivered, Zenon DEF NetErrors, Statuses
<1>7. Delivered(Reply(FALSE, "http", TRUE, "409", FALSE))
  BY ReplyDelivered, Zenon DEF NetErrors, Statuses
<1>8. Delivered(Reply(FALSE, "http", TRUE, "404", TRUE))
  BY ReplyDelivered, Zenon DEF NetErrors, Statuses
<1>9. Delivered(Reply(FALSE, "http", TRUE, "404", FALSE))
  BY ReplyDelivered, Zenon DEF NetErrors, Statuses
<1>10. Delivered(Reply(FALSE, "notimpl", TRUE, "501", TRUE))
  BY ReplyDelivered, Zenon DEF NetErrors, Statuses
<1>11. Delivered(Reply(FALSE, "notimpl", TRUE, "501", FALSE))
  BY ReplyDelivered, Zenon DEF NetErrors, Statuses
<1>12. Delivered(Reply(FALSE, "http", TRUE, "none", FALSE))
  BY ReplyDelivered, Zenon DEF NetErrors, Statuses
<1>13. Delivered(Reply(FALSE, "http", FALSE, "none", FALSE))
  BY ReplyDelivered, Zenon DEF NetErrors, Statuses
<1> QED
  BY <1>1, <1>2, <1>3, <1>4, <1>5, <1>6, <1>7, <1>8, <1>9, <1>10, <1>11, <1>12, <1>13, ZenonT(40) DEF NetworkReplies

(* shouldBypassProxy and checkNetworkReplyErrors agree.                    *)
LEMMA FinalIsNoFailure ==
    ASSUME NEW r \in NetworkReplies
    PROVE  /\ ~ShouldBypassProxy(r) => ErrorCodeOf([r EXCEPT !.ssl = FALSE]) \notin {"Timeout", "Download"}
           /\ ErrorCodeOf([r EXCEPT !.ssl = TRUE]) \notin {"Timeout", "Download", "NoError"}
           /\ ErrorCodeOf([r EXCEPT !.ssl = FALSE]) = "NoError" => r.dec
           /\ r.ssl \in BOOLEAN
<1>1. r \in ReplySet /\ Delivered(r)
  BY NetworkDelivers DEF Delivered
<1> DEFINE a == [r EXCEPT !.ssl = FALSE]
           b == [r EXCEPT !.ssl = TRUE]
<1>2. a.ssl = FALSE /\ b.ssl = TRUE /\ a.err = r.err /\ a.dec = r.dec /\ a.status = r.status
  BY <1>1 DEF ReplySet
<1> HIDE DEF a, b
<1>3. CheckNetworkReplyErrors(b) = "SslError"
  BY <1>2 DEF CheckNetworkReplyErrors
<1>4. ErrorCodeOf(b) = "SslError"
  BY <1>3 DEF ErrorCodeOf
<1>5. ErrorCodeOf(a) = "NoError" => r.dec
  BY <1>2, SMTT(30) DEF ErrorCodeOf
<1>6. ASSUME ~ShouldBypassProxy(r) PROVE ErrorCodeOf(a) \notin {"Timeout", "Download"}
  <2> QED
    BY <1>1, <1>2, <1>6, SMTT(30) DEF Delivered, ErrorCodeOf, CheckNetworkReplyErrors, ShouldBypassProxy
<1>7. r.ssl \in BOOLEAN
  BY <1>1 DEF ReplySet
<1> QED
  BY <1>7, <1>4, <1>5, <1>6 DEF a, b

(* The fields of a request.                                                *)
LEMMA RequestParts ==
    /\ RequestPhases = RequestPhases \cup {"idle", "post", "retry", "storage", "health", "proxy", "proxies", "done"}
    /\ Modes = Modes \cup {"sync", "async"} /\ Endpoints = Endpoints \cup {"primary", "fallback"}
    /\ "none" \in RequestResults /\ "MissingKey" \in RequestResults
BY DEF RequestPhases, Modes, Endpoints, RequestResults

(* The end of doPost.                                                      *)
LEMMA PostDoneOnward ==
    ASSUME NEW q \in RequestSet, q.result = "none", Unanswered(q) \/ q.ssl \/ ~ShouldBypassProxy(q.last)
    PROVE  Onward(q, PostDone(q))
<1> DEFINE e == ErrorCodeOf([q.last EXCEPT !.ssl = q.ssl])
<1>0. q.last \in NetworkReplies /\ q.ssl \in BOOLEAN
  BY DEF RequestSet
<1>1. (e = "NoError" => q.last.dec /\ ~q.ssl) /\ (e \in {"Timeout", "Download"} => Unanswered(q) /\ ~q.ssl) /\ e \in RequestResults
  <2>0. e \in RequestResults
    BY DEF ErrorCodeOf, CheckNetworkReplyErrors, RequestResults
  <2>1. CASE q.ssl = TRUE
    BY <1>0, <2>0, <2>1, FinalIsNoFailure, Zenon
  <2>2. CASE q.ssl = FALSE
    BY <1>0, <2>0, <2>2, FinalIsNoFailure, Zenon
  <2> QED
    BY <1>0, <2>1, <2>2, Zenon
<1> DEFINE s == [q EXCEPT !.endpoint = "fallback", !.proxy = 0, !.ssl = FALSE]
<1>2. PostDone(q) = (IF q.mode = "sync" /\ q.fallback /\ q.endpoint = "primary" /\ e \in {"Timeout", "Download"} THEN Send(s) ELSE Answer(q, e))
  BY DEF PostDone
<1> HIDE DEF e
<1>3. CASE q.mode = "sync" /\ q.fallback /\ q.endpoint = "primary" /\ e \in {"Timeout", "Download"}
  <2>0. s \in RequestSet /\ s.ssl = FALSE /\ s.result = q.result /\ s.good = q.good /\ s.sslSeen = q.sslSeen
    BY RequestParts, Zenon DEF RequestSet
  <2> HIDE DEF s
  <2> DEFINE t == Send(s)
  <2>0a. s.posts + 1 \in Nat /\ <<>> \in Seq(Nat)
    BY <2>0 DEF RequestSet
  <2>1. t \in RequestSet /\ t.pc = "post" /\ t.result = s.result /\ t.good = s.good /\ t.ssl = s.ssl /\ t.sslSeen = s.sslSeen
    BY <2>0, <2>0a, RequestParts, ZenonT(40) DEF RequestSet, Send
  <2> HIDE DEF t
  <2>2. Onward(q, t)
    BY <1>1, <1>3, <2>0, <2>1 DEF Onward, Answerable, Unanswered
  <2> QED
    BY <1>2, <1>3, <2>2 DEF t
<1>4. CASE ~(q.mode = "sync" /\ q.fallback /\ q.endpoint = "primary" /\ e \in {"Timeout", "Download"})
  <2> DEFINE t == Answer(q, e)
  <2>1. t \in RequestSet /\ t.pc = "done" /\ t.result = e /\ t.last = q.last /\ t.ssl = q.ssl /\ t.posts = q.posts
    BY <1>1, RequestParts, ZenonT(40) DEF RequestSet, Answer
  <2> HIDE DEF t
  <2>2. Onward(q, t)
    BY <1>1, <2>1 DEF Onward, Answerable
  <2> QED
    BY <1>2, <1>4, <2>2, SMTT(30) DEF t
<1> QED
  BY <1>3, <1>4, SMTT(30)

(* bypassProxy, once it has a list.                                        *)
LEMMA HaveProxiesOnward ==
    ASSUME NEW q \in RequestSet, q.result = "none", Unanswered(q), NEW list \in Seq(Nat)
    PROVE  Onward(q, HaveProxies(q, list))
<1> DEFINE p == [q EXCEPT !.proxies = list, !.idx = 1]
           l == Reply(FALSE, "http", FALSE, "none", FALSE)
           n == [p EXCEPT !.last = l]
           a == [p EXCEPT !.pc = "proxy", !.posts = p.posts + 1]
           b == [p EXCEPT !.pc = "health"]
<1>1. p \in RequestSet /\ p.result = q.result /\ p.good = q.good /\ p.ssl = q.ssl /\ p.sslSeen = q.sslSeen /\ p.posts = q.posts
      /\ p.proxies = list /\ p.idx = 1
  BY Zenon DEF RequestSet
<1>2. HaveProxies(q, list) = IF q.mode = "sync" /\ q.proxy # 0 THEN a ELSE IF list # <<>> THEN b
                             ELSE IF q.mode = "sync" THEN PostDone(p) ELSE PostDone(n)
  BY <1>1 DEF HaveProxies
<1> HIDE DEF p
<1>3. Onward(q, a)
  <2>1. p.posts + 1 \in Nat
    BY <1>1 DEF RequestSet
  <2>2. a \in RequestSet /\ a.pc = "proxy" /\ a.result = p.result /\ a.good = p.good /\ a.ssl = p.ssl /\ a.sslSeen = p.sslSeen
    BY <1>1, <2>1, RequestParts, Zenon DEF RequestSet
  <2> HIDE DEF a
  <2> QED
    BY <1>1, <2>2 DEF Onward, Answerable, Unanswered
<1>4. list # <<>> => Onward(q, b)
  <2>1. b \in RequestSet /\ b.pc = "health" /\ b.result = p.result /\ b.good = p.good /\ b.ssl = p.ssl /\ b.sslSeen = p.sslSeen
        /\ b.proxies = p.proxies /\ b.idx = p.idx
    BY <1>1, RequestParts, Zenon DEF RequestSet
  <2>2. list # <<>> => 1 \in 1 .. Len(list)
    OBVIOUS
  <2> HIDE DEF b
  <2> QED
    BY <1>1, <2>1, <2>2 DEF Onward, Answerable, Unanswered
<1>5. Onward(q, PostDone(p))
  BY <1>1, PostDoneOnward DEF Onward, Unanswered
<1>6. Onward(q, PostDone(n))
  <2>1. l \in NetworkReplies
    BY DEF NetworkReplies
  <2> HIDE DEF l
  <2>2. n \in RequestSet /\ n.result = p.result /\ n.good = p.good /\ n.ssl = p.ssl /\ n.sslSeen = p.sslSeen /\ n.posts = p.posts
    BY <1>1, <2>1, SMTT(30) DEF RequestSet
  <2> HIDE DEF n
  <2> QED
    BY <1>1, <2>2, PostDoneOnward DEF Onward, Unanswered
<1> HIDE DEF a, b, n
<1> QED
  BY <1>2, <1>3, <1>4, <1>5, <1>6

(* The proxies of the list, from i on.                                     *)
LEMMA NextProxyOnward ==
    ASSUME NEW q \in RequestSet, q.result = "none", Unanswered(q), NEW i \in Nat \ {0}
    PROVE  Onward(q, NextProxy(q, i))
<1> DEFINE a == [q EXCEPT !.pc = "proxies", !.idx = i, !.posts = q.posts + 1]
<1>1. q.posts + 1 \in Nat
  BY DEF RequestSet
<1>2. a \in RequestSet /\ a.pc = "proxies" /\ a.result = q.result /\ a.good = q.good /\ a.ssl = q.ssl /\ a.sslSeen = q.sslSeen
      /\ a.idx = i /\ a.proxies = q.proxies
  BY <1>1, RequestParts, Zenon DEF RequestSet
<1>3. NextProxy(q, i) = IF i <= Len(q.proxies) THEN a ELSE PostDone(q)
  BY DEF NextProxy
<1> HIDE DEF a
<1>4. ASSUME i <= Len(q.proxies) PROVE Onward(q, a)
  <2>1. Len(q.proxies) \in Nat
    BY DEF RequestSet
  <2> QED
    BY <1>2, <1>4, <2>1 DEF Onward, Answerable, Unanswered
<1> QED
  BY <1>3, <1>4, PostDoneOnward, SMTT(30)

(* No proxy answered the health check.                                     *)
LEMMA NoHealthyOnward ==
    ASSUME NEW q \in RequestSet, q.result = "none", Unanswered(q)
    PROVE  Onward(q, NoHealthy(q))
<1> DEFINE l == Reply(FALSE, "http", FALSE, "none", FALSE)
           n == [q EXCEPT !.last = l]
<1>1. l \in NetworkReplies
  BY DEF NetworkReplies
<1>2. NoHealthy(q) = IF q.mode = "sync" THEN NextProxy(q, 1) ELSE PostDone(n)
  BY DEF NoHealthy
<1> HIDE DEF l
<1>3. n \in RequestSet /\ n.result = q.result /\ n.good = q.good /\ n.ssl = q.ssl /\ n.sslSeen = q.sslSeen /\ n.posts = q.posts
  BY <1>1, SMTT(30) DEF RequestSet
<1> HIDE DEF n
<1>4. Onward(q, PostDone(n))
  BY <1>3, PostDoneOnward DEF Onward, Unanswered
<1> QED
  BY <1>2, <1>4, NextProxyOnward, SMTT(30)

(* Every step keeps the invariant, and what ends the request sends nothing. *)
LEMMA PostOnward ==
    ASSUME Answerable(req), NEW mode \in {"sync", "async"}, NEW fallback \in BOOLEAN, Post(mode, fallback)
    PROVE  Onward(req, req')
<1> DEFINE q == [req EXCEPT !.mode = mode, !.fallback = fallback]
<1>0. mode \in Modes /\ req \in RequestSet /\ req.pc = "idle"
  BY DEF Modes, Answerable, Post
<1>1. q \in RequestSet /\ q.result = "none" /\ q.good = req.good /\ q.ssl = req.ssl /\ q.sslSeen = req.sslSeen /\ q.posts = req.posts /\ q.last = req.last
  BY <1>0, Zenon DEF RequestSet, Answerable
<1>2. req' = Send(q) \/ req' = Answer(q, "MissingKey")
  BY DEF Post
<1> HIDE DEF q
<1>3. Onward(req, Send(q))
  <2> DEFINE t == Send(q)
  <2>1. q.posts + 1 \in Nat /\ <<>> \in Seq(Nat)
    BY <1>1 DEF RequestSet
  <2>2. t \in RequestSet /\ t.pc = "post" /\ t.result = q.result /\ t.good = q.good /\ t.ssl = q.ssl /\ t.sslSeen = q.sslSeen
    BY <1>1, <2>1, RequestParts, Zenon DEF RequestSet, Send
  <2> HIDE DEF t
  <2>3. Onward(req, t)
    BY <1>0, <1>1, <2>2 DEF Onward, Answerable, Unanswered
  <2> QED
    BY <2>3 DEF t
<1>4. Onward(req, Answer(q, "MissingKey"))
  <2> DEFINE t == Answer(q, "MissingKey")
  <2>1. t \in RequestSet /\ t.pc = "done" /\ t.result = "MissingKey" /\ t.posts = q.posts
    BY <1>1, RequestParts, Zenon DEF RequestSet, Answer
  <2> HIDE DEF t
  <2>2. Onward(req, t)
    BY <1>1, <2>1 DEF Onward, Answerable
  <2> QED
    BY <2>2 DEF t
<1> QED
  BY <1>2, <1>3, <1>4

(* The reply to the first post.                                            *)
LEMMA PostReplyOnward ==
    ASSUME Answerable(req), NEW r \in NetworkReplies, PostReply(r)
    PROVE  Onward(req, req')
<1>0. req \in RequestSet /\ req.pc = "post" /\ req.result = "none" /\ r.ssl \in BOOLEAN
  BY FinalIsNoFailure, Zenon DEF Answerable, PostReply
<1>1. PICK g \in BOOLEAN : g = (~r.ssl /\ ~ShouldBypassProxy(r))
  BY Zenon
<1> DEFINE q == [req EXCEPT !.last = r, !.ssl = r.ssl, !.good = g]
<1>2. req' = IF r.ssl \/ ~ShouldBypassProxy(r) THEN PostDone(q)
             ELSE IF q.mode = "async" /\ q.fallback /\ q.endpoint = "primary" /\ r.err \in {"timeout", "refused"}
             THEN [q EXCEPT !.pc = "retry"]
             ELSE IF NStorages = 0 THEN HaveProxies(q, <<>>)
             ELSE [q EXCEPT !.pc = "storage", !.idx = 1]
  BY <1>1 DEF PostReply
<1>3. q \in RequestSet /\ q.result = "none" /\ q.good = g /\ q.ssl = r.ssl /\ q.sslSeen = req.sslSeen /\ q.posts = req.posts /\ q.last = r
  BY <1>0, ZenonT(40) DEF RequestSet
<1> HIDE DEF q
<1>4. CASE r.ssl \/ ~ShouldBypassProxy(r)
  <2>1. Onward(q, PostDone(q))
    BY <1>3, <1>4, PostDoneOnward
  <2> QED
    BY <1>2, <1>3, <1>4, <2>1 DEF Onward
<1>5. CASE ~(r.ssl \/ ~ShouldBypassProxy(r))
  <2>1. Unanswered(q)
    BY <1>1, <1>3, <1>5, Zenon DEF Unanswered
  <2> DEFINE a == [q EXCEPT !.pc = "retry"]
             b == [q EXCEPT !.pc = "storage", !.idx = 1]
  <2>2. a \in RequestSet /\ a.pc = "retry" /\ a.result = q.result /\ a.good = q.good /\ a.ssl = q.ssl /\ a.sslSeen = q.sslSeen
    BY <1>3, RequestParts, Zenon DEF RequestSet
  <2>3. b \in RequestSet /\ b.pc = "storage" /\ b.result = q.result /\ b.good = q.good /\ b.ssl = q.ssl /\ b.sslSeen = q.sslSeen
    BY <1>3, RequestParts, Zenon DEF RequestSet
  <2>4. Onward(q, HaveProxies(q, <<>>))
    <3>1. <<>> \in Seq(Nat)
      OBVIOUS
    <3> QED
      BY <1>3, <2>1, <3>1, HaveProxiesOnward, Zenon
  <2>5. req' \in {a, b, HaveProxies(q, <<>>)}
    BY <1>2, <1>5, SMTT(30)
  <2> HIDE DEF a, b
  <2>6. Onward(req, a)
    BY <1>3, <2>1, <2>2, SMTT(30) DEF Onward, Answerable, Unanswered
  <2>7. Onward(req, b)
    BY <1>3, <2>1, <2>3, SMTT(30) DEF Onward, Answerable, Unanswered
  <2>8. Onward(req, HaveProxies(q, <<>>))
    BY <1>3, <2>4, SMTT(30) DEF Onward
  <2> QED
    BY <2>5, <2>6, <2>7, <2>8, SMTT(30)
<1> QED
  BY <1>4, <1>5

(* The retry at the fallback endpoint.                                     *)
LEMMA RetryOnward ==
    ASSUME Answerable(req), Retry
    PROVE  Onward(req, req')
<1> DEFINE s == [req EXCEPT !.endpoint = "fallback", !.proxy = 0, !.ssl = FALSE]
           t == Send(s)
<1>1. req \in RequestSet /\ req.pc = "retry" /\ req' = t
  BY DEF Answerable, Retry
<1>2. s \in RequestSet /\ s.ssl = FALSE /\ s.result = req.result /\ s.good = req.good /\ s.sslSeen = req.sslSeen
  BY <1>1, RequestParts, Zenon DEF RequestSet
<1> HIDE DEF s
<1>3. s.posts + 1 \in Nat /\ <<>> \in Seq(Nat)
  BY <1>2 DEF RequestSet
<1>4. t \in RequestSet /\ t.pc = "post" /\ t.result = s.result /\ t.good = s.good /\ t.ssl = s.ssl /\ t.sslSeen = s.sslSeen
  BY <1>2, <1>3, RequestParts, Zenon DEF RequestSet, Send
<1> HIDE DEF t
<1> QED
  BY <1>1, <1>2, <1>4, SMTT(30) DEF Onward, Answerable, Unanswered

(* The reply of a storage of proxy lists.                                  *)
LEMMA StorageReplyOnward ==
    ASSUME Answerable(req), StorageReply
    PROVE  Onward(req, req')
<1>1. req \in RequestSet /\ req.pc = "storage" /\ req.result = "none" /\ Unanswered(req)
  BY DEF Answerable, StorageReply
<1>2. \A list \in Seq(Nat) : Onward(req, HaveProxies(req, list))
  BY <1>1, HaveProxiesOnward, SMTT(30)
<1>3. CASE \E n \in 0 .. MaxProxies : req' = HaveProxies(req, [i \in 1 .. n |-> i])
  <2>1. PICK n \in 0 .. MaxProxies : req' = HaveProxies(req, [i \in 1 .. n |-> i])
    BY <1>3, ZenonT(60)
  <2>2. [i \in 1 .. n |-> i] \in Seq(Nat)
    BY <2>1, GatewayAssumption, SMTT(30)
  <2> QED
    BY <1>2, <2>1, <2>2, SMTT(30)
<1>4. CASE req' = NextStorage(req)
  <2> DEFINE a == [req EXCEPT !.idx = req.idx + 1]
  <2>1. req.idx + 1 \in Nat
    BY <1>1 DEF RequestSet
  <2>2. a \in RequestSet /\ a.pc = req.pc /\ a.result = req.result /\ a.good = req.good /\ a.ssl = req.ssl /\ a.sslSeen = req.sslSeen
    BY <1>1, <2>1, Zenon DEF RequestSet
  <2>3. req' = a \/ req' = HaveProxies(req, <<>>)
    BY <1>4 DEF NextStorage
  <2> HIDE DEF a
  <2>4. Onward(req, a)
    BY <1>1, <2>2 DEF Onward, Answerable, Unanswered
  <2>5. <<>> \in Seq(Nat)
    OBVIOUS
  <2> QED
    BY <1>2, <2>3, <2>4, <2>5, Zenon
<1> QED
  BY <1>3, <1>4 DEF StorageReply

(* The reply to a health check.                                            *)
LEMMA HealthReplyOnward ==
    ASSUME Answerable(req), NEW ok \in BOOLEAN, HealthReply(ok)
    PROVE  Onward(req, req')
<1>1. req \in RequestSet /\ req.pc = "health" /\ req.result = "none" /\ Unanswered(req) /\ req.idx \in 1 .. Len(req.proxies)
  BY DEF Answerable, HealthReply
<1>2. req.proxies \in Seq(Nat) /\ req.idx \in Nat /\ req.posts \in Nat
  BY <1>1, SMTT(30) DEF RequestSet
<1> DEFINE x == req.proxies[req.idx]
           a == [req EXCEPT !.pc = "proxy", !.proxy = x, !.posts = req.posts + 1]
           b == [req EXCEPT !.idx = req.idx + 1]
<1>3. x \in Nat /\ req.posts + 1 \in Nat /\ req.idx + 1 \in Nat /\ Len(req.proxies) \in Nat
  BY <1>1, <1>2, SMTT(30)
<1>4. \/ req' = a
      \/ req.idx < Len(req.proxies) /\ req' = b
      \/ req' = NoHealthy(req)
  BY DEF HealthReply
<1> HIDE DEF x
<1>5. a \in RequestSet /\ a.pc = "proxy" /\ a.result = req.result /\ a.good = req.good /\ a.ssl = req.ssl /\ a.sslSeen = req.sslSeen
  BY <1>1, <1>3, RequestParts, Zenon DEF RequestSet
<1>6. b \in RequestSet /\ b.pc = req.pc /\ b.result = req.result /\ b.good = req.good /\ b.ssl = req.ssl /\ b.sslSeen = req.sslSeen
      /\ b.idx = req.idx + 1 /\ b.proxies = req.proxies
  BY <1>1, <1>3, ZenonT(40) DEF RequestSet
<1> HIDE DEF a, b
<1>7. Onward(req, a)
  BY <1>1, <1>5 DEF Onward, Answerable, Unanswered
<1>8. req.idx < Len(req.proxies) => Onward(req, b)
  BY <1>1, <1>3, <1>6, SMTT(30) DEF Onward, Answerable, Unanswered
<1> QED
  BY <1>1, <1>4, <1>7, <1>8, NoHealthyOnward, SMTT(30)

(* A reply of a proxy is noted in q: a final one that is refused comes     *)
(* after SSL errors.                                                       *)
LEMMA ProxyReplyNoted ==
    ASSUME Answerable(req), req.pc # "done", NEW r \in NetworkReplies,
           NEW q, q = [req EXCEPT !.last = r, !.good = @ \/ (~r.ssl /\ ~ShouldBypassProxy(r)), !.sslSeen = @ \/ r.ssl]
    PROVE  /\ q \in RequestSet /\ q.result = "none" /\ q.posts = req.posts /\ q.last = r /\ q.ssl = req.ssl /\ q.mode = req.mode
           /\ q.idx = req.idx /\ q.proxies = req.proxies
           /\ ~Accepted(req, r) => (q.good => q.sslSeen)
           /\ r.ssl => q.sslSeen
           /\ q.ssl => q.sslSeen
<1>0. req \in RequestSet /\ req.result = "none" /\ Unanswered(req) /\ r.ssl \in BOOLEAN
  BY FinalIsNoFailure, Zenon DEF Answerable
<1>1. PICK g \in BOOLEAN : g = (req.good \/ (~r.ssl /\ ~ShouldBypassProxy(r)))
  BY Zenon
<1>2. PICK s \in BOOLEAN : s = (req.sslSeen \/ r.ssl)
  BY Zenon
<1>3. q = [req EXCEPT !.last = r, !.good = g, !.sslSeen = s]
  BY <1>1, <1>2, Zenon
<1>4. q \in RequestSet
  BY <1>0, <1>3, ZenonT(40) DEF RequestSet
<1>5. q.result = "none" /\ q.posts = req.posts /\ q.last = r /\ q.ssl = req.ssl /\ q.mode = req.mode
      /\ q.idx = req.idx /\ q.proxies = req.proxies /\ q.good = g /\ q.sslSeen = s
  BY <1>0, <1>3, ZenonT(40) DEF RequestSet
<1> QED
  BY <1>0, <1>1, <1>2, <1>4, <1>5, Zenon DEF Accepted, Unanswered

(* The reply of the chosen proxy.                                          *)
LEMMA ProxyReplyOnward ==
    ASSUME Answerable(req), NEW r \in NetworkReplies, ProxyReply(r)
    PROVE  Onward(req, req')
<1> DEFINE q == [req EXCEPT !.last = r, !.good = @ \/ (~r.ssl /\ ~ShouldBypassProxy(r)), !.sslSeen = @ \/ r.ssl]
           s == [q EXCEPT !.ssl = r.ssl]
<1>1. req.pc = "proxy" /\ r.ssl \in BOOLEAN
      /\ req' = IF q.mode = "async" THEN PostDone(s) ELSE IF Accepted(req, r) THEN PostDone(q) ELSE NextProxy(s, 1)
  BY FinalIsNoFailure, Zenon DEF ProxyReply
<1>2. /\ q \in RequestSet /\ q.result = "none" /\ q.posts = req.posts /\ q.last = r /\ q.ssl = req.ssl
      /\ ~Accepted(req, r) => (q.good => q.sslSeen)
      /\ (r.ssl => q.sslSeen) /\ (q.ssl => q.sslSeen)
  BY <1>1, ProxyReplyNoted, ZenonT(40)
<1> HIDE DEF q
<1>3. s \in RequestSet /\ s.result = "none" /\ s.posts = req.posts /\ s.last = r /\ s.ssl = r.ssl /\ s.good = q.good /\ s.sslSeen = q.sslSeen
      /\ s.mode = q.mode
  BY <1>1, <1>2 DEF RequestSet
<1> HIDE DEF s
<1>4. q.mode = "async" => Onward(req, PostDone(s))
  <2> DEFINE e == ErrorCodeOf([s.last EXCEPT !.ssl = s.ssl])
             t == Answer(s, e)
  <2>1. q.mode = "async" => PostDone(s) = t
    BY <1>3, SMTT(30) DEF PostDone
  <2>2. e \in RequestResults
    BY DEF ErrorCodeOf, CheckNetworkReplyErrors, RequestResults
  <2>3. e = "NoError" => s.last.dec /\ ~s.ssl
    BY <1>1, <1>3, FinalIsNoFailure, Zenon
  <2> HIDE DEF e
  <2>4. t \in RequestSet /\ t.pc = "done" /\ t.result = e /\ t.last = s.last /\ t.ssl = s.ssl /\ t.posts = s.posts
    BY <1>3, <2>2, RequestParts, ZenonT(40) DEF RequestSet, Answer
  <2> HIDE DEF t
  <2> QED
    BY <1>3, <2>1, <2>3, <2>4, SMTT(30) DEF Onward, Answerable
<1>5. Accepted(req, r) => Onward(req, PostDone(q))
  BY <1>2, PostDoneOnward DEF Accepted, Onward
<1>6. ~Accepted(req, r) => Onward(req, NextProxy(s, 1))
  BY <1>2, <1>3, NextProxyOnward, SMTT(30) DEF Onward, Unanswered
<1> QED
  BY <1>1, <1>4, <1>5, <1>6, SMTT(30)

(* The reply of one proxy after the other.                                 *)
LEMMA ProxiesReplyOnward ==
    ASSUME Answerable(req), NEW r \in NetworkReplies, ProxiesReply(r)
    PROVE  Onward(req, req')
<1> DEFINE q == [req EXCEPT !.last = r, !.good = @ \/ (~r.ssl /\ ~ShouldBypassProxy(r)), !.sslSeen = @ \/ r.ssl]
           p == [q EXCEPT !.proxy = q.proxies[q.idx]]
           s == [q EXCEPT !.ssl = r.ssl]
<1>1. req.pc = "proxies" /\ r.ssl \in BOOLEAN /\ req.idx \in 1 .. Len(req.proxies) /\ req \in RequestSet
      /\ req' = IF Accepted(req, r) THEN PostDone(p) ELSE NextProxy(s, req.idx + 1)
  BY FinalIsNoFailure, Zenon DEF ProxiesReply, Answerable
<1>2. /\ q \in RequestSet /\ q.result = "none" /\ q.posts = req.posts /\ q.last = r /\ q.ssl = req.ssl
      /\ ~Accepted(req, r) => (q.good => q.sslSeen)
      /\ (r.ssl => q.sslSeen) /\ (q.ssl => q.sslSeen)
  BY <1>1, ProxyReplyNoted, ZenonT(40)
<1>2a. q.idx = req.idx /\ q.proxies = req.proxies
  BY <1>1, SMTT(30) DEF RequestSet
<1> HIDE DEF q
<1>3. s \in RequestSet /\ s.result = "none" /\ s.posts = req.posts /\ s.ssl = r.ssl /\ s.good = q.good /\ s.sslSeen = q.sslSeen
  BY <1>1, <1>2, Zenon DEF RequestSet
<1>4. p \in RequestSet /\ p.result = "none" /\ p.posts = req.posts /\ p.last = r /\ p.ssl = req.ssl
  <2>1. q.proxies[q.idx] \in Nat
    BY <1>1, <1>2, <1>2a, SMTT(30) DEF RequestSet
  <2> QED
    BY <1>2, <2>1, SMTT(30) DEF RequestSet
<1> HIDE DEF s, p
<1>5. Accepted(req, r) => Onward(req, PostDone(p))
  BY <1>4, PostDoneOnward, SMTT(30) DEF Accepted, Onward
<1>6. ~Accepted(req, r) => Onward(req, NextProxy(s, req.idx + 1))
  <2>1. req.idx + 1 \in Nat \ {0}
    BY <1>1, SMTT(30) DEF RequestSet
  <2> QED
    BY <1>2, <1>3, <2>1, NextProxyOnward, SMTT(30) DEF Onward, Unanswered
<1> QED
  BY <1>1, <1>5, <1>6, SMTT(30)

(* Every step leads onward.                                                *)
LEMMA GatewayOnward == GatewayInv /\ GatewayNext => Onward(req, req')
<1> SUFFICES ASSUME Answerable(req), GatewayNext PROVE Onward(req, req')
  BY DEF GatewayInv
<1> QED
  BY SMTT(30), PostOnward, PostReplyOnward, RetryOnward, StorageReplyOnward, HealthReplyOnward, ProxyReplyOnward, ProxiesReplyOnward
     DEF GatewayNext, GatewaySteps

(* A final answer is not asked for a second time, and success means that   *)
(* the answer decrypted.                                                   *)
THEOREM AnswersAreFinal == GatewaySpec => FinalAnswerHonoured
<1>1. GatewayInit => GatewayInv
  <2> SUFFICES ASSUME GatewayInit PROVE Answerable(req)
    BY SMTT(30) DEF GatewayInv
  <2>1. NoReply \in NetworkReplies
    BY SMTT(30) DEF NoReply, NetworkReplies
  <2>2. req \in RequestSet
    BY <2>1, RequestParts, SMTT(30) DEF GatewayInit, RequestSet
  <2> QED
    BY <2>2, SMTT(30) DEF GatewayInit, Answerable, Unanswered
<1>2. GatewayInv /\ [GatewayNext]_req => GatewayInv'
  BY GatewayOnward, SMTT(30) DEF Onward, GatewayInv
<1>3. GatewayInv /\ [GatewayNext]_req =>
        [/\ req'.posts # req.posts => (~req'.good \/ req'.sslSeen)
         /\ req'.result = "NoError" => req'.last.dec /\ ~req'.ssl]_req
  BY GatewayOnward, SMTT(30) DEF Onward, Answerable, Unanswered
<1> QED
  BY <1>1, <1>2, <1>3, PTL DEF GatewaySpec, FinalAnswerHonoured

-----------------------------------------------------------------------------
(* WgProbe.                                                                *)
(* The answer to this call, a request for a cookie, and the answer to an   *)
(* earlier call.                                                           *)
Fresh == Response(Initiation("e", wp.sender, wp.shape).msg, server.psk, "x", server.shape)
Cookie == [type |-> "cookie", sender |-> "srv", receiver |-> wp.sender, shape |-> server.shape]
Stale(id) == Response(Initiation("old", id, server.shape).msg, server.psk, "y", server.shape)


(* What may be on the wire.                                                *)
OnWire ==
    {d \in {Fresh, Cookie} : server.up /\ wp.answered > 0 /\ server.shape = wp.shape} \cup
    {d \in {Stale("i"), Stale("j")} : server.up}

ProbeInv ==
    /\ wire \in Seq(OnWire)
    /\ DOMAIN wp = {"pc", "sender", "psk", "shape", "sends", "answered", "retried", "rtt", "stale", "by", "state"}
    /\ wp.sender = "i"
    /\ wp.answered \in Nat /\ wp.sends \in Nat
    /\ wp.pc = "wait" => wp.state = Initiation("e", wp.sender, wp.shape).state
    /\ OnlineMeansAnswered

(* The last thing mixed into a key is in the key.                          *)
LEMMA KdfInjective ==
    ASSUME NEW S, NEW c \in Seq(S), NEW d \in Seq(S), NEW x \in S, NEW y \in S, Kdf(c, x) = Kdf(d, y)
    PROVE  c = d /\ x = y
BY DEF Kdf

(* What the key derivation returns is longer than what it is given.        *)
LEMMA KdfSeq ==
    ASSUME NEW S, NEW c \in Seq(S), NEW x \in S
    PROVE  Kdf(c, x) \in Seq(S)
BY DEF Kdf

(* The transcripts of both sides.                                          *)
LEMMA InitiationFields ==
    ASSUME NEW e, NEW id, NEW shape
    PROVE  LET i == Initiation(e, id, shape)
               h0 == MixHash(MixHash(<<"construction", "identifier">>, "S"), e)
           IN  /\ i.msg.sender = id /\ i.msg.shape = shape /\ i.msg.eph = e /\ i.msg.static.plain = "c" /\ i.state.eph = e
               /\ i.state.chainKey = Kdf(Kdf(Kdf(<<"construction">>, e), DH(e, "S")), DH("c", "S"))
               /\ i.state.hash = MixHash(MixHash(h0, i.msg.static), i.msg.time)
BY Zenon DEF Initiation, AeadSeal

(* The type and the addressees of an answer.                               *)
LEMMA ResponseKind ==
    ASSUME NEW msg, NEW psk, NEW x, NEW shape
    PROVE  /\ Response(msg, psk, x, shape).type = "response" /\ Response(msg, psk, x, shape).eph = x
           /\ Response(msg, psk, x, shape).shape = shape /\ Response(msg, psk, x, shape).receiver = msg.sender
BY Zenon DEF Response

(* The seal of an answer.                                                  *)
LEMMA ResponseSealed ==
    ASSUME NEW msg, NEW psk, NEW x, NEW shape
    PROVE  LET r == Response(msg, psk, x, shape)
               h0 == MixHash(MixHash(<<"construction", "identifier">>, "S"), msg.eph)
               h2 == MixHash(MixHash(h0, msg.static), msg.time)
               ck3 == Kdf(Kdf(Kdf(<<"construction">>, msg.eph), DH(msg.eph, "S")), DH(msg.static.plain, "S"))
               ck7 == Kdf(Kdf(Kdf(Kdf(ck3, x), DH(x, msg.eph)), DH(x, msg.static.plain)), psk)
           IN  /\ r.empty.key = ck7 /\ r.empty.ad = MixHash(MixHash(h2, x), <<"tau", ck7>>)
BY Zenon DEF Response, AeadSeal

(* The answer to an earlier call does not verify.                          *)
LEMMA StaleFails ==
    ASSUME NEW id, NEW p, NEW psk, NEW shape
    PROVE  ~VerifyResponse(Initiation("e", "i", shape).state, p, Response(Initiation("old", id, shape).msg, psk, "y", shape))
<1> DEFINE m == Initiation("old", id, shape).msg
           r == Response(m, psk, "y", shape)
           S == {"construction", "e", "old", "x", "y", p, psk, DH("e", "S"), DH("old", "S"), DH("c", "S"),
                 DH("y", "e"), DH("y", "old"), DH("y", "c")}
           c3 == Kdf(Kdf(Kdf(<<"construction">>, "e"), DH("e", "S")), DH("c", "S"))
           d3 == Kdf(Kdf(Kdf(<<"construction">>, "old"), DH("old", "S")), DH("c", "S"))
           c4 == Kdf(c3, "y")
           d4 == Kdf(d3, "y")
           c5 == Kdf(c4, DH("y", "e"))
           d5 == Kdf(d4, DH("y", "old"))
           c6 == Kdf(c5, DH("y", "c"))
           d6 == Kdf(d5, DH("y", "c"))
           st == Initiation("e", "i", shape).state
<1> SUFFICES ASSUME VerifyResponse(st, p, r) PROVE FALSE
  BY SMTT(30)
<1>1. Kdf(d6, psk) = Kdf(c6, p)
  <2>1. st.chainKey = c3 /\ st.eph = "e" /\ m.eph = "old" /\ m.static.plain = "c"
    BY InitiationFields, SMTT(30)
  <2> HIDE DEF st, m
  <2>2. r.eph = "y"
    BY ResponseKind, SMTT(30)
  <2>2a. r.empty.key = Kdf(Kdf(Kdf(Kdf(Kdf(Kdf(Kdf(<<"construction">>, m.eph), DH(m.eph, "S")), DH(m.static.plain, "S")), "y"), DH("y", m.eph)), DH("y", m.static.plain)), psk)
    BY ResponseSealed, ZenonT(40)
  <2> HIDE DEF r
  <2>3. r.empty.key = Kdf(Kdf(Kdf(Kdf(st.chainKey, r.eph), DH(r.eph, st.eph)), DH(r.eph, "c")), p)
    BY DEF VerifyResponse, AeadOpen
  <2> QED
    BY <2>1, <2>2, <2>2a, <2>3, SMTT(30)
<1>2. c3 \in Seq(S) /\ d3 \in Seq(S)
  BY DEF Kdf
<1>3. "y" \in S /\ DH("y", "e") \in S /\ DH("y", "old") \in S /\ DH("y", "c") \in S /\ p \in S /\ psk \in S
  OBVIOUS
<1> HIDE DEF S, c3, d3
<1>4. c4 \in Seq(S) /\ d4 \in Seq(S)
  BY <1>2, <1>3, KdfSeq
<1> HIDE DEF c4, d4
<1>5. c5 \in Seq(S) /\ d5 \in Seq(S)
  BY <1>3, <1>4, KdfSeq, SMTT(30)
<1>6. c6 \in Seq(S) /\ d6 \in Seq(S)
  BY <1>3, <1>5, KdfSeq, SMTT(30)
<1>7. c6 = d6
  BY <1>1, <1>3, <1>6, KdfInjective, SMTT(30)
<1>8. c5 = d5
  BY <1>3, <1>5, <1>7, KdfInjective, SMTT(30)
<1>9. DH("y", "e") = DH("y", "old")
  BY <1>3, <1>4, <1>8, KdfInjective, SMTT(30)
<1> QED
  BY <1>9, SMTT(30) DEF DH

(* The answer to this call verifies under the server's preshared key and   *)
(* under no other.                                                         *)
LEMMA FreshVerifies ==
    ASSUME NEW id, NEW psk, NEW shape, NEW other, NEW p
    PROVE  LET r == Response(Initiation("e", id, shape).msg, psk, "x", other)
           IN  VerifyResponse(Initiation("e", id, shape).state, p, r) <=> p = psk
<1> DEFINE st == Initiation("e", id, shape).state
           m == Initiation("e", id, shape).msg
           r == Response(m, psk, "x", other)
           S == {"construction", "e", "x", p, psk, DH("e", "S"), DH("c", "S"), DH("x", "e"), DH("x", "c")}
           c3 == Kdf(Kdf(Kdf(<<"construction">>, "e"), DH("e", "S")), DH("c", "S"))
           c6 == Kdf(Kdf(Kdf(c3, "x"), DH("x", "e")), DH("x", "c"))
           h0 == MixHash(MixHash(<<"construction", "identifier">>, "S"), "e")
           h3 == MixHash(MixHash(MixHash(h0, m.static), m.time), "x")
<1>1. /\ st.chainKey = c3 /\ st.eph = "e" /\ m.eph = "e" /\ m.static.plain = "c"
      /\ st.hash = MixHash(MixHash(h0, m.static), m.time)
  BY InitiationFields, SMTT(30)
<1>2. c6 \in Seq(S) /\ p \in S /\ psk \in S
  BY SMTT(30) DEF Kdf
<1> HIDE DEF st, m
<1>3. r.empty.key = Kdf(c6, psk) /\ r.empty.ad = MixHash(h3, <<"tau", Kdf(c6, psk)>>) /\ r.eph = "x"
  BY <1>1, ResponseSealed, ResponseKind, SMTT(30)
<1> HIDE DEF r
<1>4. VerifyResponse(st, p, r) <=> r.empty.key = Kdf(c6, p) /\ r.empty.ad = MixHash(h3, <<"tau", Kdf(c6, p)>>)
  BY <1>1, <1>3, SMTT(30) DEF VerifyResponse, AeadOpen
<1> HIDE DEF S, c6, h3
<1>5. Kdf(c6, p) = Kdf(c6, psk) => p = psk
  BY <1>2, KdfInjective, SMTT(30)
<1>6. VerifyResponse(st, p, r) <=> p = psk
  BY <1>3, <1>4, <1>5, SMTT(30)
<1> QED
  BY <1>6, SMTT(30) DEF st, m, r

(* A step that keeps the answers on the wire.                              *)
LEMMA WireKept ==
    ASSUME wire \in Seq(OnWire), server' = server, wire' = wire, wp'.sender = wp.sender, wp'.shape = wp.shape,
           wp.answered > 0 => wp'.answered > 0
    PROVE  wire' \in Seq(OnWire')
<1>1. OnWire \subseteq OnWire'
  BY SMTT(30) DEF OnWire, Fresh, Cookie, Stale
<1> QED
  BY <1>1, SMTT(30)

(* Nothing is on the wire at first.                                        *)
LEMMA ProbeInitOK == ProbeInit => ProbeInv
<1> SUFFICES ASSUME ProbeInit PROVE ProbeInv
  BY SMTT(30)
<1>1. PICK psk \in Psks, shape \in Shapes :
       wp = [pc |-> "start", sender |-> "i", psk |-> psk, shape |-> shape, sends |-> 0, answered |-> 0,
             retried |-> FALSE, rtt |-> -1, stale |-> TRUE, by |-> [type |-> "none"],
             state |-> [hash |-> <<>>, chainKey |-> <<>>, eph |-> "none"]]
  BY ZenonT(40) DEF ProbeInit
<1>2. wire \in Seq(OnWire)
  <2>1. wire = <<>>
    BY DEF ProbeInit
  <2> QED
    BY <2>1
<1>3. /\ DOMAIN wp = {"pc", "sender", "psk", "shape", "sends", "answered", "retried", "rtt", "stale", "by", "state"}
      /\ wp.sender = "i" /\ wp.answered = 0 /\ wp.sends = 0 /\ wp.pc = "start" /\ wp.rtt = -1
  BY <1>1
<1>4. OnlineMeansAnswered
  BY <1>3, SMTT(30) DEF OnlineMeansAnswered
<1> QED
  BY <1>2, <1>3, <1>4, SMTT(30) DEF ProbeInv

(* The probe fails or its deadline passes.                                 *)
LEMMA ProbeFailsKeeps == ProbeInv /\ (ProbeFails \/ Deadline) => ProbeInv'
<1> SUFFICES ASSUME ProbeInv, ProbeFails \/ Deadline PROVE ProbeInv'
  OBVIOUS
<1>1. wp' = [wp EXCEPT !.pc = "done"] /\ wire' = wire /\ server' = server
  BY DEF ProbeFails, Deadline
<1>2. /\ DOMAIN wp' = DOMAIN wp /\ wp'.pc = "done" /\ wp'.sender = wp.sender /\ wp'.psk = wp.psk /\ wp'.shape = wp.shape /\ wp'.sends = wp.sends
      /\ wp'.answered = wp.answered /\ wp'.rtt = wp.rtt /\ wp'.by = wp.by /\ wp'.state = wp.state
  BY <1>1, SMTT(30) DEF ProbeInv
<1>3. wire' \in Seq(OnWire')
  BY <1>1, <1>2, WireKept, SMTT(30) DEF ProbeInv
<1> QED
  BY <1>1, <1>2, <1>3, SMTT(30) DEF ProbeInv, OnlineMeansAnswered

(* The probe sends its initiation.                                         *)
LEMMA ProbeSendKeeps == ProbeInv /\ ProbeSend => ProbeInv'
<1> SUFFICES ASSUME ProbeInv, ProbeSend PROVE ProbeInv'
  OBVIOUS
<1> DEFINE s == Initiation("e", wp.sender, wp.shape).state
<1>1. wp' = [wp EXCEPT !.pc = "wait", !.state = s, !.sends = 1] /\ wire' = wire /\ server' = server
  BY DEF ProbeSend
<1> HIDE DEF s
<1>2. /\ DOMAIN wp' = DOMAIN wp /\ wp'.pc = "wait" /\ wp'.sender = wp.sender /\ wp'.psk = wp.psk /\ wp'.shape = wp.shape /\ wp'.sends = 1
      /\ wp'.answered = wp.answered /\ wp'.rtt = wp.rtt /\ wp'.by = wp.by /\ wp'.state = s
  BY <1>1, SMTT(30) DEF ProbeInv
<1>3. wire' \in Seq(OnWire')
  BY <1>1, <1>2, WireKept, SMTT(30) DEF ProbeInv
<1> QED
  BY <1>1, <1>2, <1>3, SMTT(30) DEF ProbeInv, OnlineMeansAnswered, s

(* ... and sends it again.                                                 *)
LEMMA RetransmitKeeps == ProbeInv /\ Retransmit => ProbeInv'
<1> SUFFICES ASSUME ProbeInv, Retransmit PROVE ProbeInv'
  OBVIOUS
<1>1. wp' = [wp EXCEPT !.retried = TRUE, !.sends = @ + 1] /\ wire' = wire /\ server' = server
  BY DEF Retransmit
<1>2. /\ DOMAIN wp' = DOMAIN wp /\ wp'.pc = wp.pc /\ wp'.sender = wp.sender /\ wp'.psk = wp.psk /\ wp'.shape = wp.shape /\ wp'.sends = wp.sends + 1
      /\ wp'.answered = wp.answered /\ wp'.rtt = wp.rtt /\ wp'.by = wp.by /\ wp'.state = wp.state
  BY <1>1, SMTT(30) DEF ProbeInv
<1>3. wire' \in Seq(OnWire')
  BY <1>1, <1>2, WireKept, SMTT(30) DEF ProbeInv
<1> QED
  BY <1>1, <1>2, <1>3, SMTT(30) DEF ProbeInv, OnlineMeansAnswered

(* What is accepted was made by the server for this call, and whatever it  *)
(* made for this call under the same preshared key is accepted.            *)
LEMMA AcceptedIsFresh ==
    ASSUME ProbeInv, wp.pc = "wait", NEW d \in OnWire
    PROVE  /\ Accepts(wp, d) => server.up /\ wp.answered > 0 /\ (d.type = "response" => server.psk = wp.psk /\ d.eph = "x")
           /\ d.type = "response" /\ d.eph = "x" /\ server.psk = wp.psk => Accepts(wp, d)
<1>1. wp.state = Initiation("e", wp.sender, wp.shape).state /\ wp.sender = "i"
  BY SMTT(30) DEF ProbeInv
<1>2. CASE d = Fresh /\ server.up /\ wp.answered > 0 /\ server.shape = wp.shape
  <2>1. d.type = "response" /\ d.eph = "x" /\ d.shape = wp.shape /\ d.receiver = wp.sender
    <3> DEFINE m == Initiation("e", wp.sender, wp.shape).msg
    <3>1. d = Response(m, server.psk, "x", server.shape) /\ m.sender = wp.sender
      BY <1>2, InitiationFields, SMTT(30) DEF Fresh
    <3> HIDE DEF m
    <3> QED
      BY <1>2, <3>1, ResponseKind, SMTT(30)
  <2>2. VerifyResponse(wp.state, wp.psk, d) <=> wp.psk = server.psk
    BY <1>1, <1>2, FreshVerifies, SMTT(30) DEF Fresh
  <2> QED
    BY <1>2, <2>1, <2>2, SMTT(30) DEF Accepts
<1>3. CASE d = Cookie /\ server.up /\ wp.answered > 0 /\ server.shape = wp.shape
  BY <1>3, SMTT(30) DEF Cookie
<1>4. ASSUME NEW id, d = Stale(id) PROVE d.type = "response" /\ d.eph = "y" /\ ~Accepts(wp, d)
  <2>1. d.type = "response" /\ d.eph = "y" /\ d.shape = server.shape
    <3> DEFINE m == Initiation("old", id, server.shape).msg
    <3>1. d = Response(m, server.psk, "y", server.shape)
      BY <1>4, SMTT(30) DEF Stale
    <3> HIDE DEF m
    <3> QED
      BY <3>1, ResponseKind, SMTT(30)
  <2>2. wp.shape = server.shape => ~VerifyResponse(wp.state, wp.psk, d)
    BY <1>1, <1>4, StaleFails, SMTT(30) DEF Stale
  <2> QED
    BY <2>1, <2>2, SMTT(30) DEF Accepts
<1> QED
  BY <1>2, <1>3, <1>4, SMTT(30) DEF OnWire

(* A datagram is received.                                                 *)
LEMMA RecvKeeps == ASSUME NEW k \in DOMAIN wire PROVE ProbeInv /\ Recv(k) => ProbeInv'
<1> SUFFICES ASSUME ProbeInv, Recv(k) PROVE ProbeInv'
  OBVIOUS
<1>1. wire \in Seq(OnWire) /\ wire[k] \in OnWire /\ wp.pc = "wait" /\ server' = server /\ k \in 1 .. Len(wire)
  BY SMTT(30) DEF ProbeInv, Recv
<1>2. wire' \in Seq(OnWire)
  <2> DEFINE a == SubSeq(wire, 1, k - 1)
             b == SubSeq(wire, k + 1, Len(wire))
  <2>1. a \in Seq(OnWire) /\ b \in Seq(OnWire)
    BY <1>1, SMTT(30)
  <2>2. wire' = a \o b
    BY SMTT(30) DEF Recv
  <2> QED
    BY <2>1, <2>2
<1>3. CASE Accepts(wp, wire[k])
  <2> DEFINE d == wire[k]
             r == IF wp.retried THEN 2 ELSE 1
  <2>1. wp' = [wp EXCEPT !.pc = "done", !.rtt = r, !.by = d]
    BY <1>3, SMTT(30) DEF Recv
  <2>1a. d \in OnWire /\ Accepts(wp, d)
    BY <1>1, <1>3, SMTT(30)
  <2> HIDE DEF r, d
  <2>2. server.up /\ wp.answered > 0 /\ (d.type = "response" => server.psk = wp.psk /\ d.eph = "x")
    BY <1>1, <2>1a, AcceptedIsFresh, SMTT(30)
  <2>3. /\ DOMAIN wp' = DOMAIN wp /\ wp'.pc = "done" /\ wp'.sender = wp.sender /\ wp'.psk = wp.psk /\ wp'.shape = wp.shape /\ wp'.sends = wp.sends
        /\ wp'.answered = wp.answered /\ wp'.by = d /\ wp'.state = wp.state
    BY <2>1, SMTT(30) DEF ProbeInv
  <2>4. OnWire' = OnWire
    <3>1. Fresh' = Fresh /\ Cookie' = Cookie /\ \A id : Stale(id)' = Stale(id)
      BY <1>1, <2>3, SMTT(30) DEF Fresh, Cookie, Stale
    <3> QED
      BY <1>1, <2>3, <3>1, SMTT(30) DEF OnWire
  <2> QED
    BY <1>1, <1>2, <2>2, <2>3, <2>4, SMTT(30) DEF ProbeInv, OnlineMeansAnswered
<1>4. CASE ~Accepts(wp, wire[k])
  <2>1. wp' = wp
    BY <1>4, SMTT(30) DEF Recv
  <2>2. OnWire' = OnWire
    BY <1>1, <2>1, SMTT(30) DEF OnWire, Fresh, Cookie, Stale
  <2> QED
    BY <1>1, <1>2, <2>1, <2>2, SMTT(30) DEF ProbeInv, OnlineMeansAnswered
<1> QED
  BY <1>3, <1>4, SMTT(30)

(* The server answers.                                                     *)
LEMMA ServerAnswersKeeps == ProbeInv /\ ServerAnswers => ProbeInv'
<1> SUFFICES ASSUME ProbeInv, ServerAnswers PROVE ProbeInv'
  OBVIOUS
<1>1. /\ wp' = [wp EXCEPT !.answered = @ + 1] /\ server' = server
      /\ server.up /\ server.shape = wp.shape
      /\ Deliver(Fresh) \/ Deliver(Cookie) \/ wire' = wire
  BY InitiationFields, SMTT(30) DEF ServerAnswers, Fresh, Cookie
<1>2. /\ DOMAIN wp' = DOMAIN wp /\ wp'.pc = wp.pc /\ wp'.sender = wp.sender /\ wp'.psk = wp.psk /\ wp'.shape = wp.shape /\ wp'.sends = wp.sends
      /\ wp'.answered = wp.answered + 1 /\ wp'.rtt = wp.rtt /\ wp'.by = wp.by /\ wp'.state = wp.state
  BY <1>1, SMTT(30) DEF ProbeInv
<1>3. wp.answered \in Nat /\ wp'.answered > 0
  BY <1>2, SMTT(30) DEF ProbeInv
<1>4. OnWire \subseteq OnWire' /\ Fresh \in OnWire' /\ Cookie \in OnWire'
  BY <1>1, <1>2, <1>3, SMTT(30) DEF OnWire, Fresh, Cookie, Stale
<1>5. wire' \in Seq(OnWire')
  <2>1. wire \in Seq(OnWire')
    BY <1>4, SMTT(30) DEF ProbeInv
  <2> QED
    BY <1>1, <1>4, <2>1, SMTT(30) DEF Deliver
<1> QED
  BY <1>1, <1>2, <1>3, <1>5, SMTT(30) DEF ProbeInv, OnlineMeansAnswered

(* The answer to an earlier call arrives late.                             *)
LEMMA StaleResponseKeeps == ProbeInv /\ StaleResponse => ProbeInv'
<1> SUFFICES ASSUME ProbeInv, StaleResponse PROVE ProbeInv'
  OBVIOUS
<1>1. /\ wp' = [wp EXCEPT !.stale = FALSE] /\ server' = server /\ server.up
      /\ Deliver(Stale("i")) \/ Deliver(Stale("j"))
  BY DEF StaleResponse, Stale
<1>2. /\ DOMAIN wp' = DOMAIN wp /\ wp'.pc = wp.pc /\ wp'.sender = wp.sender /\ wp'.psk = wp.psk /\ wp'.shape = wp.shape /\ wp'.sends = wp.sends
      /\ wp'.answered = wp.answered /\ wp'.rtt = wp.rtt /\ wp'.by = wp.by /\ wp'.state = wp.state
  BY <1>1, SMTT(30) DEF ProbeInv
<1>3. OnWire' = OnWire /\ Stale("i") \in OnWire /\ Stale("j") \in OnWire
  BY <1>1, <1>2, SMTT(30) DEF OnWire, Fresh, Cookie, Stale
<1>4. wire' \in Seq(OnWire')
  <2>1. wire \in Seq(OnWire)
    BY DEF ProbeInv
  <2> QED
    BY <1>1, <1>3, <2>1, SMTT(30) DEF Deliver
<1> QED
  BY <1>1, <1>2, <1>4, SMTT(30) DEF ProbeInv, OnlineMeansAnswered

(* A latency is shown exactly when the server answered this very call.     *)
THEOREM LatencyMeasured == ProbeSpec => LatencyIsGenuine
<1>1. ProbeInv /\ [ProbeNext]_probeVars => ProbeInv'
  <2> SUFFICES ASSUME ProbeInv, [ProbeNext]_probeVars PROVE ProbeInv'
    BY SMTT(30)
  <2>1. CASE UNCHANGED probeVars
    BY <2>1, SMTT(30) DEF probeVars, ProbeInv, OnlineMeansAnswered, OnWire, Fresh, Cookie, Stale
  <2> QED
    BY <2>1, ProbeFailsKeeps, ProbeSendKeeps, RetransmitKeeps, RecvKeeps, ServerAnswersKeeps, StaleResponseKeeps, SMTT(30) DEF ProbeNext, ProbeSteps
<1>2. ASSUME ProbeInv, NEW k \in DOMAIN wire, Recv(k), wire[k].type = "response", wire[k].eph = "x", server.psk = wp.psk
      PROVE  wp'.rtt > 0
  <2>1. wp.pc = "wait" /\ wire[k] \in OnWire
    BY <1>2, SMTT(30) DEF Recv, ProbeInv
  <2>2. Accepts(wp, wire[k])
    BY <1>2, <2>1, AcceptedIsFresh, SMTT(30)
  <2>3. wp'.rtt = IF wp.retried THEN 2 ELSE 1
    BY <1>2, <2>2, SMTT(30) DEF Recv, ProbeInv
  <2> QED
    BY <2>3, SMTT(30)
<1>3. ProbeInv /\ ProbeInv' =>
        [/\ OnlineMeansAnswered'
         /\ \A k \in DOMAIN wire :
              (Recv(k) /\ wire[k].type = "response" /\ wire[k].eph = "x" /\ server.psk = wp.psk) => wp'.rtt > 0]_probeVars
  BY <1>2, SMTT(30) DEF ProbeInv
<1> QED
  BY <1>1, <1>3, ProbeInitOK, PTL DEF ProbeSpec, LatencyIsGenuine

-----------------------------------------------------------------------------
(* HealthCheck: the fields of the record.                                  *)
CheckFields == {"list", "queue", "fly", "loose", "active", "signals", "runs", "recent", "edits", "moved", "badge", "seen"}

(* The fields that say how a run stands.                                   *)
Counted(h) == DOMAIN h = CheckFields /\ h.active \in BOOLEAN /\ h.signals \in Nat /\ h.runs \in Nat
SameRun(t, h) == Counted(t) /\ t.active = h.active /\ t.signals = h.signals /\ t.runs = h.runs
NothingInFlight(h) == h.fly = {} /\ \A q \in Queues : h.queue[q] = <<>>

HealthInv == Counted(hp) /\ FinishedOncePerRun

Reported(h) ==
    /\ Counted(h)
    /\ h.signals = h.runs - (IF h.active THEN 1 ELSE 0)
    /\ ~h.active => NothingInFlight(h)

(* startNext                                                               *)
LEMMA StartNextKeepsRun ==
    ASSUME NEW h, Counted(h), NEW q PROVE SameRun(StartNext(h, q), h)
BY DEF StartNext, SameRun, Counted, CheckFields

(* maybeFinishProbe                                                        *)
LEMMA MaybeFinishReports ==
    ASSUME NEW h, Counted(h), h.active, h.signals = h.runs - 1 PROVE Reported(MaybeFinishProbe(h))
<1>1. CASE NothingInFlight(h)
  <2> DEFINE t == [h EXCEPT !.active = FALSE, !.signals = @ + 1]
  <2>1. MaybeFinishProbe(h) = t
    BY <1>1, SMTT(30) DEF MaybeFinishProbe, NothingInFlight
  <2>2. Counted(t) /\ t.active = FALSE /\ t.signals = h.signals + 1 /\ t.runs = h.runs /\ t.fly = h.fly /\ t.queue = h.queue
    BY SMTT(30) DEF Counted, CheckFields
  <2> QED
    BY <1>1, <2>1, <2>2, SMTT(30) DEF Reported, NothingInFlight, Counted
<1>2. CASE ~NothingInFlight(h)
  BY <1>2, Zenon DEF MaybeFinishProbe, NothingInFlight, Reported, Counted
<1> QED
  BY <1>1, <1>2, SMTT(30)

(* finishSocket, finishWatcher, finishH2Watcher                            *)
LEMMA FinishReports ==
    ASSUME NEW h, Counted(h), h.active, h.signals = h.runs - 1, NEW t, NEW ms PROVE Reported(Finish(h, t, ms))
<1> DEFINE g == [h EXCEPT !.fly = @ \ {t}]
           a == Apply(g, t, ms)
           n == StartNext(a, QueueOf(t.kind))
<1>1. SameRun(g, h)
  BY Zenon DEF SameRun, Counted, CheckFields
<1>2. SameRun(a, g)
  <2> HIDE DEF g
  <2> QED
    BY <1>1, ZenonT(40) DEF Apply, SameRun, Counted, CheckFields
<1>3. SameRun(n, a)
  <2> HIDE DEF a
  <2> QED
    BY <1>2, StartNextKeepsRun DEF SameRun
<1>4. Finish(h, t, ms) = MaybeFinishProbe(n)
  BY Zenon DEF Finish
<1>5. Counted(n) /\ n.active /\ n.signals = n.runs - 1
  <2> HIDE DEF g, a, n
  <2> QED
    BY <1>1, <1>2, <1>3, SMTT(30) DEF SameRun
<1> HIDE DEF n
<1> QED
  BY <1>4, <1>5, MaybeFinishReports

(* stopProbe                                                               *)
LEMMA StopReports ==
    ASSUME NEW h, Reported(h) PROVE Reported(StopProbe(h)) /\ ~StopProbe(h).active /\ StopProbe(h).runs = h.runs
<1> DEFINE t == StopProbe(h)
<1>1. Counted(h)
  BY DEF Reported
<1>2. /\ Counted(t) /\ t.active = FALSE /\ t.signals = h.signals + (IF h.active THEN 1 ELSE 0) /\ t.runs = h.runs
      /\ t.fly = {} /\ t.queue = [q \in Queues |-> <<>>]
  BY <1>1, SMTT(30) DEF StopProbe, Counted, CheckFields
<1> HIDE DEF t
<1>3. h.signals = h.runs - (IF h.active THEN 1 ELSE 0)
  BY SMTT(30) DEF Reported
<1>4. t.signals = t.runs
  BY <1>1, <1>2, <1>3, SMTT(30) DEF Counted
<1>5. Reported(t)
  BY <1>2, <1>4, SMTT(30) DEF Reported, NothingInFlight, Counted
<1> QED
  BY <1>2, <1>5, SMTT(30) DEF t

(* The invariant on the record of the check.                               *)
LEMMA HealthInvReported == HealthInv <=> Reported(hp)
BY SMTT(30) DEF HealthInv, Reported, FinishedOncePerRun, NothingInFlight

(* No run at first.                                                        *)
LEMMA HealthInitOK == HealthInit => HealthInv
<1> SUFFICES ASSUME HealthInit PROVE HealthInv
  OBVIOUS
<1>1. PICK list \in ProbeLists :
    hp = [list |-> list, queue |-> [q \in Queues |-> <<>>], fly |-> {}, loose |-> {}, active |-> FALSE,
          signals |-> 0, runs |-> 0, recent |-> FALSE, edits |-> 0, moved |-> FALSE,
          badge |-> [i \in DOMAIN list |-> 0],
          seen |-> [e \in UNION {Range(list[i].eps) : i \in DOMAIN list} |-> {}]]
  BY ZenonT(40) DEF HealthInit
<1>2. /\ DOMAIN hp = CheckFields /\ hp.active = FALSE /\ hp.signals = 0 /\ hp.runs = 0 /\ hp.fly = {} /\ hp.queue = [q \in Queues |-> <<>>]
  BY <1>1 DEF CheckFields
<1>a. hp.active \in BOOLEAN /\ ~hp.active
  BY <1>2, Zenon
<1>b. hp.signals \in Nat /\ hp.runs \in Nat /\ hp.runs - 0 = 0
  BY <1>2, SMTT(30)
<1>3. Counted(hp)
  BY <1>2, <1>a, <1>b, ZenonT(40) DEF Counted
<1>4. hp.signals = hp.runs - (IF hp.active THEN 1 ELSE 0)
  BY <1>2, <1>a, <1>b, ZenonT(40)
<1>5. \A q \in Queues : hp.queue[q] = <<>>
  BY <1>2, SMTT(30)
<1> QED
  BY <1>2, <1>3, <1>4, <1>5, Zenon DEF HealthInv, FinishedOncePerRun

(* A run starts.                                                           *)
LEMMA StartProbeReports ==
    ASSUME HealthInv, NEW force \in BOOLEAN, StartProbe(force) PROVE HealthInv'
<1>1. Reported(hp)
  BY HealthInvReported, SMTT(30)
<1> DEFINE p == StopProbe(hp)
<1>2. Reported(p) /\ ~p.active /\ p.runs = hp.runs
  BY <1>1, StopReports, SMTT(30)
<1> DEFINE s == [p EXCEPT !.recent = TRUE, !.runs = @ + 1, !.moved = FALSE,
                           !.badge = [i \in DOMAIN @ |-> 0],
                           !.seen = [e \in DOMAIN @ |-> {}],
                           !.queue = [tcp |-> TcpTargets(hp.list), wg |-> WgTargets(hp.list), h2 |-> H2Targets(hp.list)]]
           a == StartNext(s, "tcp")
           b == StartNext(a, "wg")
           n == StartNext(b, "h2")
           m == [n EXCEPT !.active = TRUE]
<1>3. hp' = MaybeFinishProbe(m)
  BY Zenon DEF StartProbe
<1>4. Counted(s) /\ s.signals = s.runs - 1
  <2> HIDE DEF p
  <2> QED
    BY <1>2, SMTT(30) DEF Reported, Counted, CheckFields
<1>5. SameRun(a, s)
  <2> HIDE DEF s
  <2> QED BY <1>4, StartNextKeepsRun, SMTT(30)
<1>6. SameRun(b, a)
  <2> HIDE DEF a
  <2> QED BY <1>5, StartNextKeepsRun, SMTT(30) DEF SameRun
<1>7. SameRun(n, b)
  <2> HIDE DEF b
  <2> QED BY <1>6, StartNextKeepsRun, SMTT(30) DEF SameRun
<1> HIDE DEF s, a, b, n
<1>8. Counted(m) /\ m.active /\ m.signals = m.runs - 1
  BY <1>4, <1>5, <1>6, <1>7, SMTT(30) DEF SameRun, Counted, CheckFields
<1> HIDE DEF m
<1>9. Reported(MaybeFinishProbe(m))
  BY <1>8, MaybeFinishReports, SMTT(30)
<1> QED
  BY <1>3, <1>9, SMTT(30) DEF HealthInv, Reported, FinishedOncePerRun, NothingInFlight

(* A probe ends, the last one of a run included.                           *)
LEMMA ProbeEndsReports == ASSUME HealthInv, ProbeEnds PROVE HealthInv'
<1>1. PICK t \in hp.fly : SocketDone(t) \/ SocketError(t) \/ SocketTimeout(t) \/ WatcherDone(t) \/ H2Done(t)
  BY SMTT(30) DEF ProbeEnds
<1>2. Counted(hp) /\ hp.active /\ hp.signals = hp.runs - 1
  BY SMTT(30) DEF HealthInv, FinishedOncePerRun, Counted
<1>3. \A ms : Reported(Finish(hp, t, ms))
  BY <1>2, FinishReports, SMTT(30)
<1>4. SUFFICES Reported(hp')
  BY SMTT(30) DEF HealthInv, Reported, FinishedOncePerRun, NothingInFlight
<1>5. CASE SocketDone(t)
  BY <1>3, <1>5, SMTT(30) DEF SocketDone
<1>6. CASE SocketError(t)
  <2>1. CASE t.attempts < 2
    <3> DEFINE n == [hp EXCEPT !.fly = (@ \ {t}) \cup {[t EXCEPT !.attempts = @ + 1]}]
    <3>1. hp' = n
      BY <1>6, <2>1, SMTT(30) DEF SocketError
    <3>2. SameRun(n, hp)
      BY <1>2, ZenonT(40) DEF SameRun, Counted, CheckFields
    <3> HIDE DEF n
    <3> QED
      BY <1>2, <3>1, <3>2, SMTT(30) DEF SameRun, Reported, Counted
  <2> QED
    BY <1>3, <1>6, <2>1, SMTT(30) DEF SocketError
<1>7. CASE SocketTimeout(t)
  BY <1>3, <1>7 DEF SocketTimeout
<1>8. CASE WatcherDone(t)
  <2>1. CASE \E ms \in Latencies : hp' = Finish(hp, t, ms)
    BY <1>3, <2>1, SMTT(30)
  <2>2. CASE t.attempts < 2 /\ hp' = MaybeFinishProbe(StartNext([hp EXCEPT !.fly = @ \ {t},
                                       !.queue["wg"] = Append(@, [t EXCEPT !.attempts = @ + 1])], "wg"))
    <3> DEFINE n == [hp EXCEPT !.fly = @ \ {t}, !.queue["wg"] = Append(@, [t EXCEPT !.attempts = @ + 1])]
               m == StartNext(n, "wg")
    <3>1. hp' = MaybeFinishProbe(m)
      BY <2>2
    <3>2. SameRun(n, hp)
      BY <1>2, ZenonT(40) DEF SameRun, Counted, CheckFields
    <3> HIDE DEF n
    <3>3. SameRun(m, n)
      BY <3>2, StartNextKeepsRun DEF SameRun
    <3> HIDE DEF m
    <3> QED
      BY <1>2, <3>1, <3>2, <3>3, MaybeFinishReports, Zenon DEF SameRun
  <2>3. CASE hp' = Finish(hp, t, -1)
    BY <1>3, <2>3
  <2> QED
    BY <1>8, <2>1, <2>2, <2>3 DEF WatcherDone
<1>9. CASE H2Done(t)
  BY <1>3, <1>9, SMTT(30) DEF H2Done
<1> QED
  BY <1>1, <1>5, <1>6, <1>7, <1>8, <1>9, SMTT(30)

(* The steps that leave the run alone.                                     *)
LEMMA UntouchedRun ==
    ASSUME HealthInv, SameRun(hp', hp), hp'.fly = hp.fly, hp'.queue = hp.queue PROVE HealthInv'
BY SMTT(30) DEF HealthInv, SameRun, FinishedOncePerRun, Counted

(* Every step keeps the invariant.                                         *)
LEMMA HealthNextOK == HealthInv /\ [HealthNext]_hp => HealthInv'
<1> SUFFICES ASSUME HealthInv, [HealthNext]_hp PROVE HealthInv'
  OBVIOUS
<1>0. Counted(hp)
  BY DEF HealthInv
<1>1. CASE \E force \in BOOLEAN : StartProbe(force)
  BY <1>1, StartProbeReports, SMTT(30)
<1>2. CASE ThrottleEnds
  BY <1>0, <1>2, UntouchedRun, SMTT(30) DEF ThrottleEnds, SameRun, Counted, CheckFields
<1>3. CASE Stopped
  <2> DEFINE p == StopProbe(hp)
             t == [p EXCEPT !.badge = [i \in DOMAIN @ |-> 0], !.seen = [e \in DOMAIN @ |-> {}]]
  <2>1. Reported(p)
    BY StopReports, HealthInvReported, SMTT(30)
  <2>2. hp' = t
    BY <1>3, SMTT(30) DEF Stopped
  <2> HIDE DEF p
  <2>3. SameRun(t, p) /\ t.fly = p.fly /\ t.queue = p.queue
    BY <2>1, SMTT(30) DEF Reported, SameRun, Counted, CheckFields
  <2> HIDE DEF t
  <2> QED
    BY <2>1, <2>2, <2>3, SMTT(30) DEF Reported, SameRun, HealthInv, FinishedOncePerRun, NothingInFlight
<1>4. CASE ProbeEnds
  BY <1>4, ProbeEndsReports, SMTT(30)
<1>5. CASE \E t \in hp.loose : LooseEnds(t)
  BY <1>0, <1>5, UntouchedRun, SMTT(30) DEF LooseEnds, SameRun, Counted, CheckFields
<1>6. CASE \E i \in DOMAIN hp.list : RemoveProbed(i)
  BY <1>0, <1>6, UntouchedRun, SMTT(30) DEF RemoveProbed, SameRun, Counted, CheckFields
<1>7. CASE UNCHANGED hp
  BY <1>7, SMTT(30) DEF HealthInv, Counted, FinishedOncePerRun
<1> QED
  BY <1>1, <1>2, <1>3, <1>4, <1>5, <1>6, <1>7, SMTT(30) DEF HealthNext

(* Every run of the health check emits finished() once it is over and once *)
(* only, whatever lists are probed, replaced or stopped while it runs      *)
(* (maybeFinish, stop).                                                    *)
THEOREM RunsAreReportedOnce == HealthSpec => []FinishedOncePerRun
<1>1. HealthInv => FinishedOncePerRun
  BY SMTT(30) DEF HealthInv
<1> QED
  BY <1>1, HealthInitOK, HealthNextOK, PTL DEF HealthSpec

-----------------------------------------------------------------------------
(* SecureSettings: the list of servers survives every restart, for any     *)
(* values and any number of keys, when the key store neither hides an      *)
(* entry nor reorders writes.                                              *)

\* The first run of a new installation, or of an older version's file.
LEMMA SettingsInitial == SettingsInit => SettingsInv
<1> SUFFICES ASSUME SettingsInit PROVE SettingsInv
  OBVIOUS
<1>1. PICK v \in Values \cup {NoValue} : disk = (IF v = NoValue THEN Absent ELSE Plain(v)) /\ accepted = v
  BY SMTT(30) DEF SettingsInit
<1>2. disk \in Disks /\ disk.value = v /\ disk.kind # "enc"
  BY <1>1, SettingsAssumption, SMTT(30) DEF Absent, Plain, Disks, Bytes
<1>3. cache \in Caches /\ cache.hit = FALSE
  BY SMTT(30) DEF SettingsInit, Miss, Caches
<1>4. 0 \in Bytes /\ fresh \in 1..(MaxKey + 1)
  BY SettingsAssumption, SMTT(30) DEF SettingsInit, Bytes
<1>5. /\ mem \in [Tags -> Bytes] /\ store \in [Tags -> Bytes] /\ lateWrites \in [Tags -> Bytes]
      /\ \A t \in Tags : mem[t] = 0 /\ lateWrites[t] = 0
  BY <1>4, SMTT(30) DEF SettingsInit
<1>6. FALSE \in BOOLEAN /\ flag = FALSE /\ started = FALSE /\ backup = NoValue
  BY SMTT(30) DEF SettingsInit
<1>7. SettingsTypeOK
  BY <1>1, <1>2, <1>3, <1>4, <1>5, <1>6, ZenonT(40) DEF SettingsTypeOK
<1>8. disk.kind = "absent" => disk.value = NoValue
  BY <1>1, SMTT(30) DEF Absent, Plain
<1> QED
  BY <1>1, <1>2, <1>3, <1>5, <1>7, <1>8, SMTT(30) DEF SettingsInv, StoredIsReadable, ShowsWhatWasAccepted

\* Fetching a key, its answers in all orders the key store allows, keeps what is on
\* disk readable: an entry is generated only when there is none.
LEMMA LoadTagKeeps ==
  ASSUME SettingsInv, KeychainFaults = FALSE, NEW t \in Tags, LoadTag(t)
  PROVE  SettingsInv'
<1>1. /\ disk' = disk /\ flag' = flag /\ started' = started /\ cache' = cache
      /\ backup' = backup /\ accepted' = accepted
  BY SMTT(30) DEF LoadTag
<1>2. mem[t] = 0 /\ lateWrites[t] = 0 /\ GetSecTag(t)
  BY SMTT(30) DEF LoadTag
<1>3. CASE store[t] # 0 /\ mem' = [mem EXCEPT ![t] = store[t]] /\ UNCHANGED <<store, lateWrites, fresh>>
  BY SMTT(30), <1>1, <1>2, <1>3
  DEF SettingsInv, SettingsTypeOK, StoredIsReadable, ShowsWhatWasAccepted, Tags
<1>4. CASE /\ store[t] = 0 /\ fresh <= MaxKey /\ fresh' = fresh + 1
           /\ store' = [store EXCEPT ![t] = fresh] /\ mem' = [mem EXCEPT ![t] = fresh] /\ UNCHANGED lateWrites
  <2>1. fresh \in Bytes /\ fresh # 0 /\ fresh' \in 1..(MaxKey + 1)
    BY <1>4, SettingsAssumption, SMTT(30) DEF SettingsInv, SettingsTypeOK, Bytes
  <2>2. disk.kind # "enc"
    BY <1>4, SMTT(30) DEF SettingsInv, StoredIsReadable, Tags
  <2> QED
    BY SMTT(30), <1>1, <1>2, <1>4, <2>1, <2>2
    DEF SettingsInv, SettingsTypeOK, StoredIsReadable, ShowsWhatWasAccepted, Tags
<1>5. CASE /\ store[t] = 0 /\ fresh <= MaxKey /\ fresh' = fresh + 1
           /\ lateWrites' = [lateWrites EXCEPT ![t] = fresh] /\ mem' = [mem EXCEPT ![t] = store[t]] /\ UNCHANGED store
  <2>1. fresh \in Bytes /\ fresh # 0 /\ fresh' \in 1..(MaxKey + 1)
    BY <1>5, SettingsAssumption, SMTT(30) DEF SettingsInv, SettingsTypeOK, Bytes
  <2> QED
    BY SMTT(30), <1>1, <1>2, <1>5, <2>1
    DEF SettingsInv, SettingsTypeOK, StoredIsReadable, ShowsWhatWasAccepted, Tags
<1>6. CASE /\ store[t] = 0 /\ fresh <= MaxKey /\ fresh' = fresh + 1
           /\ mem' = [mem EXCEPT ![t] = store[t]] /\ UNCHANGED <<store, lateWrites>>
  <2>1. fresh' \in 1..(MaxKey + 1)
    BY <1>6, SettingsAssumption, SMTT(30) DEF SettingsInv, SettingsTypeOK
  <2> QED
    BY SMTT(30), <1>1, <1>2, <1>6, <2>1
    DEF SettingsInv, SettingsTypeOK, StoredIsReadable, ShowsWhatWasAccepted, Tags
<1> QED
  BY <1>2, <1>3, <1>4, <1>5, <1>6, SMTT(30) DEF GetSecTag

\* A write that lands late finds no newer one.
LEMMA LateWriteKeeps ==
  ASSUME SettingsInv, NEW t \in Tags, LateWrite(t)
  PROVE  SettingsInv'
<1>1. store[t] = 0 /\ disk.kind # "enc"
  BY DEF SettingsInv, LateWrite, StoredIsReadable, Tags
<1>2. 0 \in Bytes
  BY SettingsAssumption, SMTT(30) DEF Bytes
<1> QED
  BY <1>1, <1>2, SMTT(30) DEF LateWrite, SettingsInv, SettingsTypeOK, StoredIsReadable, ShowsWhatWasAccepted, Tags

\* setValue() with keys writes what the key store can decrypt; without keys it
\* leaves everything alone.
LEMMA SetValueKeeps ==
  ASSUME SettingsInv, NEW v \in Values \cup {NoValue}, SetValue(v),
         flag' \in BOOLEAN, started' \in BOOLEAN, UNCHANGED <<mem, store, lateWrites, fresh, backup>>
  PROVE  SettingsInv'
<1>1. CASE HaveKeys
  <2>1. /\ disk' = [kind |-> "enc", value |-> v, key |-> mem.key, iv |-> mem.iv]
        /\ cache' = [hit |-> TRUE, value |-> v] /\ accepted' = v
    BY <1>1, SMTT(30) DEF SetValue, Enc, Hit
  <2>2. mem.key \in Bytes /\ mem.iv \in Bytes /\ mem.key # 0 /\ mem.iv # 0
    BY <1>1, SMTT(30) DEF HaveKeys, SettingsInv, SettingsTypeOK, Tags
  <2>3. mem.key = store["key"] /\ mem.iv = store["iv"]
    BY <2>2, SMTT(30) DEF SettingsInv, Tags
  <2>4. disk' \in Disks /\ cache' \in Caches
    BY <2>1, <2>2, SMTT(30) DEF Disks, Caches
  <2> QED
    BY <2>1, <2>2, <2>3, <2>4, SMTT(30) DEF SettingsInv, SettingsTypeOK, StoredIsReadable, ShowsWhatWasAccepted
<1>2. CASE ~HaveKeys
  BY <1>2, SMTT(30) DEF SetValue, SettingsInv, SettingsTypeOK, StoredIsReadable, ShowsWhatWasAccepted
<1> QED
  BY <1>1, <1>2, SMTT(30)

\* What value() returns is the accepted list, if the keys at hand decrypt it.
LEMMA ValueIsAccepted ==
  ASSUME SettingsInv, cache.hit \/ disk.kind # "enc" \/ HaveKeys
  PROVE  Value = accepted /\ (~cache.hit => Decrypted = accepted) /\ accepted \in Values \cup {NoValue}
BY SMTT(30) DEF Value, Decrypted, HaveKeys, SettingsInv, SettingsTypeOK, StoredIsReadable, ShowsWhatWasAccepted, Tags

\* Every step keeps the invariant.
LEMMA SettingsStep ==
  ASSUME KeychainFaults = FALSE, SettingsInv, [SettingsNext]_settingsVars
  PROVE  SettingsInv'
<1> USE DEF SettingsInv, SettingsTypeOK, StoredIsReadable, ShowsWhatWasAccepted
<1>1. ASSUME NEW t \in Tags, LoadTag(t) PROVE SettingsInv'
  BY <1>1, LoadTagKeeps, ZenonT(40)
<1>2. ASSUME NEW t \in Tags, LateWrite(t) PROVE SettingsInv'
  BY <1>2, LateWriteKeeps, SMTT(30)
<1>3. ASSUME NEW v \in Values, WriteValue(v) PROVE SettingsInv'
  <2>1. SetValue(v) /\ UNCHANGED <<flag, started, mem, store, lateWrites, fresh, backup>>
    BY <1>3, SMTT(30) DEF WriteValue
  <2> QED
    BY <2>1, SetValueKeeps, SMTT(30)
<1>4. CASE Construct
  <2>1. flag' \in BOOLEAN /\ started' \in BOOLEAN /\ UNCHANGED <<mem, store, lateWrites, fresh, backup>>
    BY <1>4, SMTT(30) DEF Construct
  <2>2. CASE UNCHANGED <<disk, cache, accepted>>
    BY <2>1, <2>2, SMTT(30)
  <2>3. CASE HaveKeys /\ SetValue(Value)
    <3>1. Value \in Values \cup {NoValue}
      BY <2>3, ValueIsAccepted, SMTT(30)
    <3> QED
      BY <2>1, <2>3, <3>1, SetValueKeeps, SMTT(30)
  <2>4. CASE disk.kind # "enc" /\ cache' = Hit(Value) /\ UNCHANGED <<disk, accepted>>
    <3>1. Value = accepted
      BY <2>4, ValueIsAccepted, SMTT(30)
    <3>2. cache' \in Caches /\ cache'.value = accepted
      BY <2>4, <3>1, SMTT(30) DEF Caches, Hit
    <3> QED
      BY <2>1, <2>4, <3>2, SMTT(30)
  <2> QED
    BY <1>4, <2>2, <2>3, <2>4, SMTT(30) DEF Construct
<1>5. CASE ReadValue
  <2>1. Decrypted = accepted
    BY <1>5, ValueIsAccepted, SMTT(30) DEF ReadValue
  <2>2. cache' \in Caches /\ cache'.value = accepted
    BY <1>5, <2>1, SMTT(30) DEF ReadValue, Caches, Hit
  <2> QED
    BY <1>5, <2>2, SMTT(30) DEF ReadValue
<1>6. CASE Backup
  <2>1. Value = accepted
    BY <1>6, ValueIsAccepted, SMTT(30) DEF Backup
  <2>2. cache' \in Caches /\ cache'.value = accepted /\ backup' = accepted
    BY <1>6, <2>1, SMTT(30) DEF Backup, Caches, Hit
  <2> QED
    BY <1>6, <2>2, SMTT(30) DEF Backup
<1>7. CASE Restore
  <2>1. SetValue(backup) /\ UNCHANGED <<flag, started, mem, store, lateWrites, fresh, backup>>
    BY <1>7, SMTT(30) DEF Restore
  <2> QED
    BY <2>1, SetValueKeeps, ZenonT(40)
<1>8. CASE ClearSettings
  <2>1. disk' \in Disks /\ disk'.kind = "absent" /\ disk'.value = NoValue
    BY <1>8, SettingsAssumption, SMTT(30) DEF ClearSettings, Absent, Disks, Bytes
  <2>2. cache' \in Caches /\ cache'.hit = FALSE /\ flag' \in BOOLEAN
    BY <1>8, ZenonT(40) DEF ClearSettings, Miss, Caches
  <2> QED
    BY <1>8, <2>1, <2>2, SMTT(30) DEF ClearSettings
<1>9. CASE Restart
  <2>1. 0 \in Bytes
    BY SettingsAssumption, SMTT(30) DEF Bytes
  <2>2. cache' \in Caches /\ cache'.hit = FALSE /\ started' \in BOOLEAN
    BY <1>9, ZenonT(40) DEF Restart, Miss, Caches
  <2>3. mem' \in [Tags -> Bytes] /\ \A t \in Tags : mem'[t] = 0
    BY <1>9, <2>1 DEF Restart
  <2> QED
    BY <1>9, <2>2, <2>3 DEF Restart
<1>10. CASE UNCHANGED settingsVars
  BY <1>10, SMTT(30) DEF settingsVars
<1> QED
  BY <1>1, <1>2, <1>3, <1>4, <1>5, <1>6, <1>7, <1>8, <1>9, <1>10, ZenonT(40) DEF SettingsNext

\* The list of servers that setValue() accepted last outlives any restart or crash,
\* for any lists and any number of keys: it is on disk under the keys of the key
\* store, and neither a refused write nor a late key leaves a trace.  The key store
\* may drop or delay writes; it must not hide an entry or reorder writes.
THEOREM ServersSurvive ==
  ASSUME KeychainFaults = FALSE
  PROVE  SettingsSpec => []ListSurvives
<1>1. SettingsInit => SettingsInv
  BY SettingsInitial, SMTT(30)
<1>2. SettingsInv /\ [SettingsNext]_settingsVars => SettingsInv'
  BY SettingsStep, ZenonT(40)
<1>3. SettingsInv => ListSurvives
  BY DEF SettingsInv, ListSurvives
<1> QED
  BY <1>1, <1>2, <1>3, PTL DEF SettingsSpec

-----------------------------------------------------------------------------
\* The import of connections, ImportFlow.tla.

\* The fields of the state.
ImFields == {"config", "type", "pending", "offered", "drawer", "source", "view", "oneshot",
             "servers", "loads", "qr", "scanning", "scanned", "outcome", "ops"}

\* The chunks collected are those of one series, each under its number.
SeriesOf(qr, series) ==
  /\ qr.total = QrSeries[series]
  /\ DOMAIN qr.chunks \subseteq 0 .. qr.total - 1
  /\ \A n \in DOMAIN qr.chunks : qr.chunks[n] = <<series, n>>

\* The data of a scan is a whole series.
Whole(scanned) ==
  scanned # <<>> =>
    \E series \in DOMAIN QrSeries : scanned = [i \in 1 .. QrSeries[series] |-> <<series, i - 1>>]

\* No series is mixed with another.
OneSeries(qr) == qr = NoQr \/ \E series \in DOMAIN QrSeries : SeriesOf(qr, series)

\* The open drawer shows what would be added.
Offered(s) == s.drawer => s.pending \in {<<>>, s.offered}

\* The inductive invariant.
ImInv(s) ==
  /\ DOMAIN s = ImFields
  /\ Offered(s)
  /\ OneSeries(s.qr)
  /\ Whole(s.scanned)

\* What a step that only looks at a text leaves alone
SameLists(s, t) ==
  /\ DOMAIN t = ImFields
  /\ t.pending = s.pending /\ t.offered = s.offered /\ t.drawer = s.drawer
  /\ t.qr = s.qr /\ t.scanned = s.scanned

\* A step that leaves the lists and the codes alone keeps the invariant.
LEMMA SameListsKeeps == ASSUME NEW s, NEW t, ImInv(s), SameLists(s, t) PROVE ImInv(t)
  BY SMTT(30) DEF ImInv, SameLists, Offered

\* Two such steps are one.
LEMMA SameTrans == ASSUME NEW s, NEW t, NEW u, SameLists(s, t), SameLists(t, u) PROVE SameLists(s, u)
  BY DEF SameLists

\* The assignments that leave the lists and the codes alone.
LEMMA SmallSteps ==
    ASSUME NEW s, DOMAIN s = ImFields
    PROVE  /\ \A type, config : SameLists(s, Accept(s, type, config))
           /\ SameLists(s, Signal(s)) /\ SameLists(s, ImportError(s)) /\ SameLists(s, UserImports(s))
           /\ \A what : SameLists(s, StartLoad(s, what))
           /\ \A x : SameLists(s, [s EXCEPT !.type = x])
           /\ \A x : SameLists(s, [s EXCEPT !.config = x])
           /\ \A x : SameLists(s, [s EXCEPT !.oneshot = x])
           /\ \A x : SameLists(s, [s EXCEPT !.loads = x])
           /\ \A x : SameLists(s, [s EXCEPT !.scanning = x])
           /\ \A x, y : SameLists(s, [s EXCEPT !.view = x, !.oneshot = y])
           /\ \A x, y : SameLists(s, [s EXCEPT !.config = x, !.view = y])
           /\ \A x, y : SameLists(s, [s EXCEPT !.type = x, !.outcome = y])
           /\ \A x, y : SameLists(s, [s EXCEPT !.servers = x, !.outcome = y])
  BY SMTT(30) DEF SameLists, ImFields, Accept, Signal, ImportError, UserImports, StartLoad

\* What a text is taken for (extractConfigFromData) changes no list and no code.
LEMMA TextKeeps ==
    ASSUME NEW s, DOMAIN s = ImFields, NEW text
    PROVE  SameLists(s, extractConfigFromData(s, text))
  <1>0. \A t, u : SameLists(s, t) /\ SameLists(t, u) => SameLists(s, u)
    BY SameTrans, SMTT(30)
  <1>1. SameLists(s, ShareLink(s, text))
    BY SmallSteps, ZenonT(40) DEF ShareLink
  <1>2. SameLists(s, SsdLink(s, text))
    BY SmallSteps, ZenonT(40) DEF SsdLink
  <1>3. SameLists(s, StoredText(s, text))
    <2> DEFINE type == checkConfigFormat(text)
               wg   == extractWireGuardConfig(text)
               t    == [s EXCEPT !.type = type]
    <2>1. SameLists(s, t) /\ DOMAIN t = ImFields
      BY SmallSteps, SMTT(30) DEF SameLists
    <2>2. SameLists(t, [t EXCEPT !.config = wg]) /\ DOMAIN [t EXCEPT !.config = wg] = ImFields
      BY <2>1, SmallSteps, SMTT(30) DEF SameLists
    <2>3. SameLists(s, ImportError([t EXCEPT !.config = wg]))
      BY <2>1, <2>2, SmallSteps, SameTrans, ZenonT(40)
    <2>4. \A a, b : SameLists(s, Accept(t, a, b))
      BY <2>1, SmallSteps, SameTrans, ZenonT(40)
    <2>5. SameLists(s, Signal(t)) /\ SameLists(s, ImportError(t))
      BY <2>1, SmallSteps, SameTrans, ZenonT(40)
    <2>6. StoredText(s, text) =
            CASE type = "wireguard" ->
                   IF wg = NoConfig THEN ImportError([t EXCEPT !.config = wg]) ELSE Accept(t, wg.kind, wg)
              [] type = "xray"    -> Accept(t, type, extractXrayConfig(type, "A"))
              [] type = "amnezia" -> Accept(t, type, [kind |-> text, last |-> text])
              [] type = "backup"  -> IF s.servers = <<>> THEN Signal(t) ELSE ImportError(t)
              [] OTHER            -> ImportError(t)
      BY SMTT(30) DEF StoredText
    <2> HIDE DEF type, wg, t
    <2> QED BY <2>3, <2>4, <2>5, <2>6, SMTT(30)
  <1> QED BY <1>1, <1>2, <1>3, SmallSteps, ZenonT(40) DEF extractConfigFromData

\* subscriptionConfigsReady offers the list that would be added.
LEMMA ReadyKeeps ==
    ASSUME NEW s, DOMAIN s = ImFields, OneSeries(s.qr), Whole(s.scanned), NEW list
    PROVE  ImInv(Ready(s, list)) /\ Ready(s, list).pending = list
  <1> DEFINE t == Ready(s, list)
             shown == s.source \/ s.oneshot
  <1>1. /\ DOMAIN t = ImFields /\ t.pending = list /\ t.drawer = shown
        /\ t.offered = (IF shown THEN list ELSE s.offered)
        /\ t.qr = s.qr /\ t.scanned = s.scanned
    BY SMTT(30) DEF Ready, ImFields
  <1> HIDE DEF t
  <1>2. Offered(t)
    BY <1>1, ZenonT(40) DEF Offered
  <1> QED BY <1>1, <1>2, SMTT(30) DEF ImInv, t

\* queueConfigForConfirmation offers the one configuration it puts into the list.
LEMMA QueueKeeps ==
    ASSUME NEW s, ImInv(s) PROVE ImInv(queueConfigForConfirmation(s))
  <1> DEFINE t == [s EXCEPT !.config = NoConfig]
  <1>1. SameLists(s, t)
    BY SmallSteps, Zenon DEF ImInv
  <1>2. ImInv(t)
    BY <1>1, SameListsKeeps, SMTT(30)
  <1> HIDE DEF t
  <1>3. ImInv(Ready(t, <<s.config>>))
    BY <1>2, ReadyKeeps, SMTT(30) DEF ImInv
  <1> QED BY <1>3 DEF queueConfigForConfirmation, t

\* The end of a scan keeps the invariant.
LEMMA ScanDoneKeeps == ASSUME NEW s, ImInv(s) PROVE ImInv(ScanDone(s))
  <1>1. SameLists(s, [s EXCEPT !.scanning = FALSE])
    BY SmallSteps, ZenonT(40) DEF ImInv
  <1> QED BY <1>1, SameListsKeeps, QueueKeeps, SMTT(30) DEF ScanDone

\* handleSubscriptionResponse offers the list it has put in place of the last, or none.
LEMMA ResponseKeeps ==
    ASSUME NEW s, ImInv(s), NEW lines PROVE ImInv(handleSubscriptionResponse(s, lines))
  <1> DEFINE r == ParseLines(s, lines)
             t == [s EXCEPT !.type = r.type, !.pending = r.fresh]
             o == [t EXCEPT !.oneshot = FALSE]
             w == Ready(t, r.fresh)
  <1>1. /\ DOMAIN t = ImFields /\ t.pending = r.fresh /\ t.qr = s.qr /\ t.scanned = s.scanned
    BY SMTT(30) DEF ImInv, ImFields
  <1>2. handleSubscriptionResponse(s, lines)
          = CASE r.fresh # <<>>           -> [w EXCEPT !.outcome = "offered"]
              [] r.fresh = <<>> /\ r.dup  -> Signal(o)
              [] OTHER                   -> ImportError(o)
    BY SMTT(30) DEF handleSubscriptionResponse
  <1> HIDE DEF r, t
  <1>3. ImInv(w)
    BY <1>1, ReadyKeeps, SMTT(30) DEF ImInv
  <1>4. ImInv([w EXCEPT !.outcome = "offered"])
    <2> HIDE DEF w
    <2>1. SameLists(w, [w EXCEPT !.outcome = "offered"])
      BY <1>3, SMTT(30) DEF ImInv, SameLists, ImFields
    <2> QED BY <2>1, <1>3, SameListsKeeps, SMTT(30)
  <1>5. ASSUME r.fresh = <<>> PROVE ImInv(Signal(o)) /\ ImInv(ImportError(o))
    <2>1. ImInv(t)
      BY <1>1, <1>5, SMTT(30) DEF ImInv, Offered
    <2>2. SameLists(t, o)
      BY <2>1, SmallSteps, ZenonT(40) DEF ImInv
    <2>3. ImInv(o)
      BY <2>1, <2>2, SameListsKeeps, SMTT(30)
    <2> HIDE DEF o
    <2>4. SameLists(o, Signal(o)) /\ SameLists(o, ImportError(o))
      BY <2>3, SmallSteps, ZenonT(40) DEF ImInv
    <2> QED BY <2>3, <2>4, SameListsKeeps, SMTT(30)
  <1> HIDE DEF w, o
  <1> QED BY <1>2, <1>4, <1>5, SMTT(30)

\* A code joins the codes of its own series only.
LEMMA ChunkAdded ==
    ASSUME NEW qr, OneSeries(qr), NEW series \in DOMAIN QrSeries, NEW id \in 0 .. QrSeries[series] - 1
    PROVE  SeriesOf(addChunk(qr, series, id), series)
  <1> DEFINE kept == IF qr.total = QrSeries[series] THEN qr.chunks ELSE <<>>
             now == addChunk(qr, series, id)
  <1>0. QrSeries[series] \in Nat \ {0}
    BY ImportAssumption, SMTT(30)
  <1>1. DOMAIN kept \subseteq 0 .. QrSeries[series] - 1 /\ \A n \in DOMAIN kept : kept[n] = <<series, n>>
    <2>1. CASE qr.total # QrSeries[series]
      BY <2>1, SMTT(30)
    <2>2. CASE qr.total = QrSeries[series]
      <3>1. qr # NoQr
        BY <1>0, <2>2, SMTT(30) DEF NoQr
      <3>2. PICK other \in DOMAIN QrSeries : SeriesOf(qr, other)
        BY <3>1, SMTT(30) DEF OneSeries
      <3>3. other = series
        BY <2>2, <3>2, ImportAssumption, ZenonT(40) DEF SeriesOf
      <3> QED BY <2>2, <3>2, <3>3, SMTT(30) DEF SeriesOf
    <2> QED BY <2>1, <2>2, SMTT(30)
  <1>2. /\ now.total = QrSeries[series]
        /\ now.chunks = [n \in DOMAIN kept \cup {id} |-> IF n = id THEN <<series, id>> ELSE kept[n]]
    BY DEF addChunk
  <1> HIDE DEF kept, now
  <1>3. SeriesOf(now, series)
    BY <1>0, <1>1, <1>2, SMTT(30) DEF SeriesOf
  <1> QED BY <1>3, SMTT(30) DEF now

\* As many codes as the series has are all of its codes, and their data is in order.
LEMMA FullSeries ==
    ASSUME NEW qr, NEW series \in DOMAIN QrSeries, SeriesOf(qr, series),
           Cardinality(DOMAIN qr.chunks) = qr.total
    PROVE  Whole(assembled(qr))
  <1>0. qr.total \in Nat \ {0}
    BY ImportAssumption, SMTT(30) DEF SeriesOf
  <1>1. IsFiniteSet(0 .. qr.total - 1) /\ Cardinality(0 .. qr.total - 1) = qr.total
    <2>1. 0 \in Int /\ qr.total - 1 \in Int /\ ~(0 > qr.total - 1) /\ (qr.total - 1) - 0 + 1 = qr.total
      BY <1>0, SMTT(30)
    <2> QED BY <2>1, FS_Interval, ZenonT(60)
  <1>2. DOMAIN qr.chunks \in SUBSET (0 .. qr.total - 1)
    BY SMTT(30) DEF SeriesOf
  <1>3. DOMAIN qr.chunks = 0 .. qr.total - 1
    BY <1>1, <1>2, FS_Subset, ZenonT(40)
  <1>4. \A i \in 1 .. qr.total : i - 1 \in DOMAIN qr.chunks /\ qr.chunks[i - 1] = <<series, i - 1>>
    BY <1>0, <1>3 DEF SeriesOf
  <1>5. assembled(qr) = [i \in 1 .. qr.total |-> <<series, i - 1>>]
    BY <1>4, SMTT(30) DEF assembled
  <1> QED BY <1>5, SMTT(30) DEF Whole, SeriesOf

\* At the start there is nothing to add.
LEMMA ImInitOk == ImportInit => ImInv(imp)
  <1> SUFFICES ASSUME ImportInit PROVE ImInv(imp)
    BY SMTT(30)
  <1>1. DOMAIN imp = ImFields /\ imp.drawer = FALSE /\ imp.qr = NoQr /\ imp.scanned = <<>>
    BY SMTT(30) DEF ImportInit, ImFields
  <1> QED BY <1>1, SMTT(30) DEF ImInv, Offered, OneSeries, Whole

\* The data of a scan is judged without touching lists or codes.
LEMMA QrTextKeeps == ASSUME NEW s, ImInv(s), NEW data PROVE ImInv(extractConfigFromQr(s, data))
  <1>1. SameLists(s, extractConfigFromQr(s, data))
    BY TextKeeps, SmallSteps, ZenonT(40) DEF extractConfigFromQr, ImInv
  <1> QED BY <1>1, SameListsKeeps, SMTT(30)

\* A text that is judged keeps the invariant.
LEMMA TextInv == ASSUME NEW s, ImInv(s), NEW text PROVE ImInv(extractConfigFromData(s, text))
  BY TextKeeps, SameListsKeeps, SMTT(30) DEF ImInv

\* A message to the user keeps the invariant.
LEMMA CountKeeps == ASSUME NEW s, ImInv(s) PROVE ImInv(UserImports(s)) /\ ImInv(ImportError(s)) /\ ImInv(Signal(s))
  <1>1. SameLists(s, UserImports(s)) /\ SameLists(s, ImportError(s)) /\ SameLists(s, Signal(s))
    BY SmallSteps, ZenonT(40) DEF ImInv
  <1> QED BY <1>1, SameListsKeeps, SMTT(30)

\* With the drawer closed the list may be anything.
LEMMA ClosedKeeps == ASSUME NEW s, ImInv(s), NEW t, DOMAIN t = ImFields, t.drawer = FALSE, t.qr = s.qr, t.scanned = s.scanned
                     PROVE  ImInv(t)
  BY SMTT(30) DEF ImInv, Offered

\* Texts that are pasted, handed over or scanned keep the invariant.
LEMMA TextStepsKeep ==
    ASSUME ImInv(imp), NEW text, Paste(text) \/ OpenFromOutside(text) \/ ScanText(text)
    PROVE  ImInv(imp')
  <1> DEFINE s == extractConfigFromData(imp, text)
  <1>0. ImInv(s)
    BY TextInv, SMTT(30)
  <1>1. CASE Paste(text)
    <2>1. imp' = UserImports(IF s.outcome = "accepted" THEN queueConfigForConfirmation(s) ELSE s)
      BY <1>1, SMTT(30) DEF Paste
    <2> HIDE DEF s
    <2> QED BY <1>0, <2>1, QueueKeeps, CountKeeps, SMTT(30)
  <1>2. CASE OpenFromOutside(text)
    <2> DEFINE c == [imp EXCEPT !.source = FALSE, !.drawer = FALSE]
               d == extractConfigFromData(c, text)
               ok == d.outcome = "accepted"
               e == [d EXCEPT !.view = ok, !.oneshot = @ \/ ~ok]
    <2>1. imp' = UserImports(e)
      BY <1>2, SMTT(30) DEF OpenFromOutside
    <2>2. DOMAIN c = ImFields /\ c.drawer = FALSE /\ c.qr = imp.qr /\ c.scanned = imp.scanned
      BY SMTT(30) DEF ImInv, ImFields
    <2> HIDE DEF c
    <2>3. ImInv(c)
      BY <2>2, ClosedKeeps, ZenonT(40)
    <2>4. ImInv(d)
      BY <2>3, TextInv
    <2> HIDE DEF d
    <2>5. SameLists(d, e)
      BY <2>4, SmallSteps, ZenonT(40) DEF ImInv
    <2> HIDE DEF e
    <2> QED BY <2>1, <2>4, <2>5, SameListsKeeps, CountKeeps, SMTT(30)
  <1>3. CASE ScanText(text)
    <2>1. \/ imp' = UserImports(ScanDone(s))
          \/ imp' = UserImports([s EXCEPT !.scanning = FALSE])
          \/ \E data \in {"prose", "subscriber id"} : imp' = UserImports(extractConfigFromQr(s, data))
      BY <1>3, ZenonT(40) DEF ScanText
    <2> HIDE DEF s
    <2>2. ImInv(ScanDone(s))
      BY <1>0, ScanDoneKeeps, SMTT(30)
    <2>3. ImInv([s EXCEPT !.scanning = FALSE])
      <3>1. SameLists(s, [s EXCEPT !.scanning = FALSE])
        BY <1>0, SmallSteps, ZenonT(40) DEF ImInv
      <3> QED BY <1>0, <3>1, SameListsKeeps, SMTT(30)
    <2>4. \A data : ImInv(extractConfigFromQr(s, data))
      BY <1>0, QrTextKeeps, SMTT(30)
    <2> QED BY <2>1, <2>2, <2>3, <2>4, CountKeeps, ZenonT(40)
  <1> QED BY <1>1, <1>2, <1>3, SMTT(30)

\* Opening and leaving the page, and beginning a scan, keep it.
LEMMA PageStepsKeep ==
    ASSUME ImInv(imp), OpenPage \/ LeavePage \/ CancelDrawer \/ FileUnreadable \/ StartDecodingQr
    PROVE  ImInv(imp')
  <1>0. DOMAIN imp = ImFields
    BY SMTT(30) DEF ImInv
  <1>1. CASE OpenPage
    <2>1. /\ DOMAIN imp' = ImFields /\ imp'.pending = imp.pending /\ imp'.offered = imp.pending
          /\ imp'.qr = imp.qr /\ imp'.scanned = imp.scanned
      BY <1>0, <1>1, SMTT(30) DEF OpenPage, ImFields
    <2> QED BY <2>1, SMTT(30) DEF ImInv, Offered
  <1>2. CASE LeavePage \/ CancelDrawer
    <2>1. DOMAIN imp' = ImFields /\ imp'.drawer = FALSE /\ imp'.qr = imp.qr /\ imp'.scanned = imp.scanned
      BY <1>0, <1>2, ZenonT(40) DEF LeavePage, CancelDrawer, ImFields
    <2> QED BY <2>1, ClosedKeeps, Zenon
  <1>3. CASE FileUnreadable
    <2>1. ImInv(ImportError(imp))
      BY CountKeeps, SMTT(30)
    <2> QED BY <1>3, <2>1, CountKeeps DEF FileUnreadable
  <1>4. CASE StartDecodingQr
    <2> DEFINE t == [imp EXCEPT !.qr = NoQr, !.scanning = TRUE]
    <2>1. /\ DOMAIN t = ImFields /\ t.pending = imp.pending /\ t.offered = imp.offered
          /\ t.drawer = imp.drawer /\ t.qr = NoQr /\ t.scanned = imp.scanned
      BY <1>0, SMTT(30) DEF ImFields
    <2>2. imp' = UserImports(t)
      BY <1>4, SMTT(30) DEF StartDecodingQr
    <2> HIDE DEF t
    <2>3. ImInv(t)
      BY <2>1, SMTT(30) DEF ImInv, Offered, OneSeries
    <2> QED BY <2>2, <2>3, CountKeeps, SMTT(30)
  <1> QED BY <1>1, <1>2, <1>3, <1>4, SMTT(30)

\* Adding what is shown keeps it.
LEMMA AddStepsKeep ==
    ASSUME ImInv(imp), NEW asked, importConfig(asked) \/ Confirm(asked)
    PROVE  ImInv(imp')
  <1>0. DOMAIN imp = ImFields
    BY SMTT(30) DEF ImInv
  <1>1. CASE importConfig(asked)
    <2> DEFINE s == [imp EXCEPT !.config = NoConfig, !.view = FALSE]
    <2>1. imp' = ImportError(s) \/ \E x : imp' = [s EXCEPT !.servers = x, !.outcome = "added"]
      BY <1>1, ZenonT(40) DEF importConfig
    <2>2. SameLists(imp, s)
      BY <1>0, SmallSteps, ZenonT(40)
    <2>3. ImInv(s)
      BY <2>2, SameListsKeeps, SMTT(30)
    <2> HIDE DEF s
    <2>4. \A x : SameLists(s, [s EXCEPT !.servers = x, !.outcome = "added"])
      BY <2>3, SmallSteps, ZenonT(40) DEF ImInv
    <2> QED BY <2>1, <2>3, <2>4, SameListsKeeps, CountKeeps, ZenonT(40)
  <1>2. CASE Confirm(asked)
    <2>1. DOMAIN imp' = ImFields /\ imp'.drawer = FALSE /\ imp'.qr = imp.qr /\ imp'.scanned = imp.scanned
      <3>1. \/ imp' = [imp EXCEPT !.drawer = FALSE]
            \/ \E x : imp' = [imp EXCEPT !.servers = x, !.pending = <<>>, !.drawer = FALSE, !.source = FALSE]
        BY <1>2, ZenonT(40) DEF Confirm
      <3> QED BY <1>0, <3>1, ZenonT(40) DEF ImFields
    <2> QED BY <2>1, ClosedKeeps, Zenon
  <1> QED BY <1>1, <1>2, SMTT(30)

\* The end of a download keeps it, whatever else has happened since its start.
LEMMA DownloadKeeps == ASSUME ImInv(imp), NEW i, FetchEnds(i) \/ CodeEnds(i) PROVE ImInv(imp')
  <1> DEFINE s == Landed(i)
  <1>1. SameLists(imp, s)
    BY SmallSteps, ZenonT(40) DEF Landed, ImInv
  <1>2. ImInv(s)
    BY <1>1, SameListsKeeps, SMTT(30)
  <1>3. \/ imp' = LoadFails(s) \/ imp' = Signal(s) \/ imp' = StartLoad(s, "list")
        \/ \E lines \in Responses : imp' = handleSubscriptionResponse(s, lines)
    BY DEF FetchEnds, CodeEnds
  <1> HIDE DEF s
  <1>4. ImInv(LoadFails(s))
    <2>1. SameLists(s, [s EXCEPT !.oneshot = FALSE])
      BY <1>2, SmallSteps, ZenonT(40) DEF ImInv
    <2> QED BY <1>2, <2>1, SameListsKeeps, CountKeeps, SMTT(30) DEF LoadFails
  <1>5. ImInv(StartLoad(s, "list"))
    <2>1. SameLists(s, StartLoad(s, "list"))
      BY <1>2, SmallSteps, ZenonT(40) DEF ImInv
    <2> QED BY <1>2, <2>1, SameListsKeeps, SMTT(30)
  <1>6. \A lines : ImInv(handleSubscriptionResponse(s, lines))
    BY <1>2, ResponseKeeps, SMTT(30)
  <1> QED BY <1>2, <1>3, <1>4, <1>5, <1>6, CountKeeps, SMTT(30)

\* A code of a series keeps it.
LEMMA ChunkKeeps ==
    ASSUME ImInv(imp), NEW series \in DOMAIN QrSeries, NEW id \in 0 .. QrSeries[series] - 1,
           parseQrCodeChunk(series, id)
    PROVE  ImInv(imp')
  <1> DEFINE qr == addChunk(imp.qr, series, id)
             full == Cardinality(DOMAIN qr.chunks) = qr.total
             t == [imp EXCEPT !.qr = qr, !.scanned = assembled(qr)]
  <1>1. SeriesOf(qr, series)
    BY ChunkAdded, SMTT(30) DEF ImInv
  <1>2. CASE ~full
    <2>1. imp' = [imp EXCEPT !.qr = qr]
      BY <1>2, SMTT(30) DEF parseQrCodeChunk
    <2> HIDE DEF qr
    <2>2. /\ DOMAIN imp' = ImFields /\ imp'.pending = imp.pending /\ imp'.offered = imp.offered
          /\ imp'.drawer = imp.drawer /\ imp'.qr = qr /\ imp'.scanned = imp.scanned
      BY <2>1, SMTT(30) DEF ImInv, ImFields
    <2> QED BY <1>1, <2>2, SMTT(30) DEF ImInv, Offered, OneSeries
  <1>3. CASE full
    <2>1. PICK data \in {"object", "prose"} :
            LET s == extractConfigFromQr(t, data)
            IN  imp' = IF s.outcome = "accepted" THEN ScanDone(s) ELSE [s EXCEPT !.qr = NoQr]
      BY <1>3, SMTT(30) DEF parseQrCodeChunk
    <2> DEFINE s == extractConfigFromQr(t, data)
    <2>2. imp' = IF s.outcome = "accepted" THEN ScanDone(s) ELSE [s EXCEPT !.qr = NoQr]
      BY <2>1, SMTT(30)
    <2>3. Whole(assembled(qr))
      BY <1>1, <1>3, FullSeries, SMTT(30)
    <2>4. ImInv(t)
      <3> HIDE DEF qr
      <3>1. /\ DOMAIN t = ImFields /\ t.pending = imp.pending /\ t.offered = imp.offered
            /\ t.drawer = imp.drawer /\ t.qr = qr /\ t.scanned = assembled(qr)
        BY SMTT(30) DEF ImInv, ImFields
      <3> HIDE DEF t
      <3> QED BY <1>1, <2>3, <3>1, SMTT(30) DEF ImInv, Offered, OneSeries
    <2> HIDE DEF t
    <2>5. ImInv(s)
      BY <2>4, QrTextKeeps, SMTT(30)
    <2> HIDE DEF s
    <2>6. ImInv(ScanDone(s))
      BY <2>5, ScanDoneKeeps, SMTT(30)
    <2>7. ImInv([s EXCEPT !.qr = NoQr])
      <3> DEFINE u == [s EXCEPT !.qr = NoQr]
      <3>1. /\ DOMAIN u = ImFields /\ u.pending = s.pending /\ u.offered = s.offered
            /\ u.drawer = s.drawer /\ u.qr = NoQr /\ u.scanned = s.scanned
        BY <2>5, SMTT(30) DEF ImInv, ImFields
      <3> HIDE DEF u
      <3>2. ImInv(u)
        BY <2>5, <3>1, SMTT(30) DEF ImInv, Offered, OneSeries
      <3> QED BY <3>2, SMTT(30) DEF u
    <2> QED BY <2>2, <2>6, <2>7, SMTT(30)
  <1> QED BY <1>2, <1>3, SMTT(30)

\* Every step keeps the invariant.
LEMMA ImStep == ImInv(imp) /\ [ImportNext]_imp => ImInv(imp')
  <1> SUFFICES ASSUME ImInv(imp), [ImportNext]_imp PROVE ImInv(imp')
    OBVIOUS
  <1>1. CASE UNCHANGED imp
    BY <1>1, SMTT(30)
  <1>2. ASSUME NEW text \in ImportTexts, Paste(text) \/ OpenFromOutside(text) \/ ScanText(text)
        PROVE  ImInv(imp')
    BY <1>2, TextStepsKeep, SMTT(30)
  <1>3. CASE OpenPage \/ LeavePage \/ CancelDrawer \/ FileUnreadable \/ StartDecodingQr
    BY <1>3, PageStepsKeep, SMTT(30)
  <1>4. ASSUME NEW asked \in BOOLEAN, importConfig(asked) \/ Confirm(asked) PROVE ImInv(imp')
    BY <1>4, AddStepsKeep, SMTT(30)
  <1>5. CASE DownloadEnds
    BY <1>5, DownloadKeeps, SMTT(30) DEF DownloadEnds
  <1>6. ASSUME NEW series \in DOMAIN QrSeries, NEW id \in 0 .. QrSeries[series] - 1,
               parseQrCodeChunk(series, id)
        PROVE  ImInv(imp')
    BY <1>6, ChunkKeeps, SMTT(30)
  <1> QED BY <1>1, <1>2, <1>3, <1>4, <1>5, <1>6, SMTT(30) DEF ImportNext

\* What the drawer adds is what it was opened for, and a scan hands on one whole
\* series in order: for any answers, any number of downloads in flight that end in any
\* order, and any series that differ in length.
THEOREM ImportsAreWhole == ImportSpec => []ImportIsWhole
  <1>1. ImInv(imp) => ImportIsWhole
    BY DEF ImInv, ImportIsWhole, AddsOnlyWhatWasOffered, QrAssembled, Offered, Whole
  <1>2. ImInv(imp) /\ [ImportNext]_imp => ImInv(imp)'
    BY ImStep
  <1> QED BY <1>1, <1>2, ImInitOk, PTL DEF ImportSpec

=============================================================================

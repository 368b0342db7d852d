------------------------------ MODULE WgProbe ------------------------------
(***************************************************************************)
(* The handshake by which the client measures a WireGuard server:          *)
(* wgProbeHandshakeRTT (client/core/wgHandshakeProbe.cpp), Noise_IKpsk2    *)
(* with the obfuscation of AmneziaWG.                                      *)
(*                                                                         *)
(* Cryptography is symbolic: a hash or a chaining key is the sequence of   *)
(* what was mixed into it, a shared secret is the set of the two private   *)
(* keys, a sealed text opens under the same key and additional data only.  *)
(* A datagram is its type, its indices and its sealed fields; junk, junk   *)
(* prefix and header protection are the one fact whether the receiver's    *)
(* parameters are the sender's (shape).                                    *)
(***************************************************************************)
EXTENDS Integers, Sequences

CONSTANTS
  Psks,        \* preshared keys
  Shapes,      \* sets of obfuscation parameters
  MaxNet       \* bound: datagrams on their way to the client

ASSUME WgProbeAssumption == MaxNet \in Nat

VARIABLES wp,       \* the call
          wire,     \* datagrams on their way to the client
          server    \* external: [psk, shape] of the server, or absent

DH(a, b)         == {a, b}
MixHash(h, x)    == Append(h, x)
Kdf(ck, x)       == Append(ck, x)
AeadSeal(k, p, ad)  == [key |-> k, plain |-> p, ad |-> ad]
AeadOpen(k, c, ad)  == c.key = k /\ c.ad = ad

\* The initiation and the state it leaves.  "c" and "S" are the static keys, e is the
\* ephemeral key of the call.
Initiation(e, id, shape) ==
  LET ck0  == <<"construction">>
      h0   == MixHash(MixHash(<<"construction", "identifier">>, "S"), e)
      ck1  == Kdf(ck0, e)
      ck2  == Kdf(ck1, DH(e, "S"))
      stat == AeadSeal(ck2, "c", h0)
      h1   == MixHash(h0, stat)
      ck3  == Kdf(ck2, DH("c", "S"))
      time == AeadSeal(ck3, "now", h1)
      h2   == MixHash(h1, time)
  IN  [state |-> [hash |-> h2, chainKey |-> ck3, eph |-> e],
       msg |-> [type |-> "initiation", sender |-> id, eph |-> e, static |-> stat, time |-> time,
                mac1 |-> "S", shape |-> shape]]

\* External: what a WireGuard server computes of an initiation it could parse, and its
\* response with the ephemeral key x.
Response(msg, psk, x, shape) ==
  LET h0  == MixHash(MixHash(<<"construction", "identifier">>, "S"), msg.eph)
      h2  == MixHash(MixHash(h0, msg.static), msg.time)
      ck3 == Kdf(Kdf(Kdf(<<"construction">>, msg.eph), DH(msg.eph, "S")), DH(msg.static.plain, "S"))
      h3  == MixHash(h2, x)
      ck6 == Kdf(Kdf(Kdf(ck3, x), DH(x, msg.eph)), DH(x, msg.static.plain))
      ck7 == Kdf(ck6, psk)
      h4  == MixHash(h3, <<"tau", ck7>>)
  IN  [type |-> "response", sender |-> "srv", receiver |-> msg.sender, eph |-> x,
       empty |-> AeadSeal(ck7, "", h4), shape |-> shape]

VerifyResponse(state, psk, r) ==
  LET h3  == MixHash(state.hash, r.eph)
      ck6 == Kdf(Kdf(Kdf(state.chainKey, r.eph), DH(r.eph, state.eph)), DH(r.eph, "c"))
      ck7 == Kdf(ck6, psk)
  IN  AeadOpen(ck7, r.empty, MixHash(h3, <<"tau", ck7>>))

MutAccepts(p, d) == d.shape = p.shape /\ d.type = "response" /\ d.receiver = p.sender

\* The body of the receive loop: a cookie reply is taken for a sign of life, a response
\* must verify; both must carry the index of this call.
Accepts(p, d) ==
  /\ d.shape = p.shape
  /\ d.receiver = p.sender
  /\ d.type = "cookie" \/ (d.type = "response" /\ VerifyResponse(p.state, p.psk, d))

-----------------------------------------------------------------------------
(* Steps *)

Deliver(d) == wire' = IF Len(wire) < MaxNet THEN Append(wire, d) ELSE wire

\* Keys that do not decode, a host that does not resolve and a socket that does not
\* open end the call before anything is sent.
ProbeFails == wp.pc = "start" /\ wp' = [wp EXCEPT !.pc = "done"] /\ UNCHANGED <<wire, server>>

\* sendAll: junk and the initiation.
ProbeSend ==
  /\ wp.pc = "start"
  /\ wp' = [wp EXCEPT !.pc = "wait", !.state = Initiation("e", wp.sender, wp.shape).state, !.sends = 1]
  /\ UNCHANGED <<wire, server>>

\* Half of the time is over: the same datagrams again.
Retransmit ==
  /\ wp.pc = "wait" /\ ~wp.retried
  /\ wp' = [wp EXCEPT !.retried = TRUE, !.sends = @ + 1]
  /\ UNCHANGED <<wire, server>>

Deadline ==
  /\ wp.pc = "wait" /\ wp.retried
  /\ wp' = [wp EXCEPT !.pc = "done"]
  /\ UNCHANGED <<wire, server>>

\* A datagram arrives, in any order; what is not accepted is dropped.
Recv(k) ==
  /\ wp.pc = "wait"
  /\ wire' = SubSeq(wire, 1, k - 1) \o SubSeq(wire, k + 1, Len(wire))
  /\ wp' = IF Accepts(wp, wire[k])
           THEN [wp EXCEPT !.pc = "done", !.rtt = IF wp.retried THEN 2 ELSE 1, !.by = wire[k]]
           ELSE wp
  /\ UNCHANGED server

\* External: the server answers a copy of the initiation, or is busy and asks for a
\* cookie; a copy may be lost.
ServerAnswers ==
  /\ wp.answered < wp.sends
  /\ LET msg == Initiation("e", wp.sender, wp.shape).msg
     IN  /\ server.up /\ server.shape = msg.shape /\ msg.mac1 = "S"
         /\ \/ Deliver(Response(msg, server.psk, "x", server.shape))
            \/ Deliver([type |-> "cookie", sender |-> "srv", receiver |-> msg.sender, shape |-> server.shape])
            \/ UNCHANGED wire
  /\ wp' = [wp EXCEPT !.answered = @ + 1]
  /\ UNCHANGED server

\* External: the response to a call that is over, addressed to the same port.
StaleResponse ==
  /\ wp.pc = "wait" /\ server.up /\ wp.stale
  /\ \E id \in {"i", "j"} :
       Deliver(Response(Initiation("old", id, server.shape).msg, server.psk, "y", server.shape))
  /\ wp' = [wp EXCEPT !.stale = FALSE]
  /\ UNCHANGED server

ProbeInit ==
  /\ \E psk \in Psks, shape \in Shapes :
       wp = [pc |-> "start", sender |-> "i", psk |-> psk, shape |-> shape, sends |-> 0, answered |-> 0,
             retried |-> FALSE, rtt |-> -1, stale |-> TRUE, by |-> [type |-> "none"],
             state |-> [hash |-> <<>>, chainKey |-> <<>>, eph |-> "none"]]
  /\ wire = <<>>
  /\ \E up \in BOOLEAN, psk \in Psks, shape \in Shapes : server = [up |-> up, psk |-> psk, shape |-> shape]

ProbeSteps == ProbeFails \/ ProbeSend \/ Retransmit \/ Deadline \/ \E k \in DOMAIN wire : Recv(k)
ProbeNext  == ProbeSteps \/ ServerAnswers \/ StaleResponse
probeVars  == <<wp, wire, server>>

\* Time passes, so the loop reaches its limits.
ProbeFairness == WF_probeVars(ProbeFails \/ ProbeSend) /\ WF_probeVars(Retransmit) /\ WF_probeVars(Deadline)
ProbeSpec == ProbeInit /\ [][ProbeNext]_probeVars /\ ProbeFairness

-----------------------------------------------------------------------------
(* Properties *)

\* A latency is shown only for a server that is up and answered this very handshake;
\* a response of an earlier one, or of a server with another preshared key, is not
\* taken for one (a cookie reply cannot be verified and counts as a sign of life).
OnlineMeansAnswered ==
  wp.rtt > 0 => /\ server.up /\ wp.answered > 0
                /\ wp.by.type = "response" => server.psk = wp.psk /\ wp.by.eph = "x"

\* A latency is shown exactly when it is genuine: never without such an answer, and
\* always for a response that the server made of this initiation with the same
\* preshared key (client and server derive the same key from the transcript).
LatencyIsGenuine ==
  [][/\ OnlineMeansAnswered'
     /\ \A k \in DOMAIN wire :
          (Recv(k) /\ wire[k].type = "response" /\ wire[k].eph = "x" /\ server.psk = wp.psk) => wp'.rtt > 0]_probeVars

\* The worker thread returns, whatever arrives: there is one retransmission and a deadline.
ProbeReturns == (wp.pc = "wait") ~> (wp.pc = "done")

=============================================================================

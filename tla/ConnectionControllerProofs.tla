--------------------- MODULE ConnectionControllerProofs ---------------------
(***************************************************************************)
(* The safety properties of ConnectionController, for any server list, any *)
(* pools and any behaviour of the VPN thread, and the truth of what is     *)
(* shown once the VPN thread is VpnConnection.                             *)
(*                                                                         *)
(* Handlers are operators on a controller, so the invariant is a predicate *)
(* Safe on a controller, and there is a lemma for each operator: first     *)
(* what the helpers keep, then that each handler goes from a Safe          *)
(* controller to a Safe one.  The second part goes through the handlers    *)
(* again for what they show and queue, then through the handlers of the    *)
(* VPN thread for what they tell, and ends with the invariant of both.     *)
(***************************************************************************)
EXTENDS Connection, TLAPS

\* A CASE with a true guard has its value.  The translation for the SMT solver infers no
\* types for a step that may use a CASE expression; for the large records of these
\* steps, inferring them would take it longer than it is given.
LEMMA Untyped == (CASE TRUE -> 0) = 0
  OBVIOUS
USE Untyped

\* The type of a controller, the range of the pool's position, and the watch
\* over the pool's traffic
Sound(c) ==
    /\ c \in Controllers
    /\ c.poolPos > 0 => c.poolRow \in Rows /\ c.poolPos <= PoolSize[c.poolRow]
    /\ c.ipAwaiting => c.ipTimer

\* What is watched while candidates are tried, and while servers are probed
Tried(c) == c.phase = "Connecting" => c.attemptTimer /\ c.pos < Len(c.candidates)
Probed(c) == c.phase = "Probing" => c.probeTimer \/ c.installs > 0

\* After a cancel nothing is left that could connect: neither a search, nor a
\* pool with a next address, nor a search that waits for the gateway.
Cancelled(c) ==
    c.wanted = "no" => /\ c.phase = "None" /\ c.poolPos = 0 /\ c.installs = 0
                       /\ ConnectsNot(c)

Safe(c) == Sound(c) /\ Tried(c) /\ Probed(c) /\ Cancelled(c)

\* The fields of the search are the same.
Same(d, c) ==
    /\ d.phase = c.phase /\ d.candidates = c.candidates /\ d.pos = c.pos
    /\ d.installs = c.installs /\ d.probeTimer = c.probeTimer /\ d.wanted = c.wanted

---------------------------------------------------------------------------
(* The helpers                                                             *)

\* resetIpPool() leaves no pool and keeps the search.
LEMMA ResetIpPoolSound ==
    ASSUME NEW c, Sound(c)
    PROVE  LET d == ResetIpPool(c)
           IN  /\ Sound(d) /\ Same(d, c) /\ d.poolPos = 0
               /\ d.attemptTimer = c.attemptTimer /\ d.calls = c.calls
<1>1. 0 \in Nat /\ 0 \in Rows \cup {0} /\ FALSE \in BOOLEAN
  OBVIOUS
<1>2. ResetIpPool(c) \in Controllers
  BY <1>1, Zenon DEF ResetIpPool, Controllers, Sound
<1> QED
  BY <1>2 DEF ResetIpPool, Controllers, Sound, Same

\* connectToServerIndexWithIp() keeps the search and the pool.
LEMMA ConnectWithIpSound ==
    ASSUME NEW c, Sound(c), NEW row \in Rows
    PROVE  LET d == ConnectWithIp(c, row)
           IN  /\ Sound(d) /\ Same(d, c) /\ d.poolPos = c.poolPos
               /\ d.attemptTimer = c.attemptTimer
<1>1. Append(c.calls, row) \in Seq(Rows \cup {DisconnectCall})
  BY DEF Controllers, Sound
<1>2. PICK b \in BOOLEAN : b = (c.manualTimer \/ c.phase = "None")
  BY Zenon
<1> DEFINE d == [c EXCEPT !.switching = TRUE, !.manualTimer = b, !.calls = Append(c.calls, row)]
<1>3. ConnectWithIp(c, row) = d
  BY <1>2, Zenon DEF ConnectWithIp
<1>4. d \in Controllers
  BY <1>1, Zenon DEF Controllers, Sound
<1>5. /\ d.poolRow = c.poolRow /\ d.poolPos = c.poolPos
      /\ d.ipAwaiting = c.ipAwaiting /\ d.ipTimer = c.ipTimer
      /\ d.attemptTimer = c.attemptTimer /\ Same(d, c)
  BY DEF Controllers, Sound, Same
<1> HIDE DEF d
<1>6. Sound(d)
  BY <1>4, <1>5 DEF Sound
<1> QED
  BY <1>3, <1>5, <1>6

\* connectToServerIndex() keeps the search; its pool starts at the first address.
LEMMA ConnectToServerSound ==
    ASSUME NEW c, Sound(c), NEW row \in Rows
    PROVE  LET d == ConnectToServer(c, row)
           IN  Sound(d) /\ Same(d, c) /\ d.attemptTimer = c.attemptTimer
<1>1. CASE PoolSize[row] > 1
  <2> DEFINE p == [c EXCEPT !.poolRow = row, !.poolPos = 1]
  <2>1. row \in Rows \cup {0} /\ 1 \in Nat
    OBVIOUS
  <2>2. p \in Controllers
    BY <2>1, Zenon DEF Controllers, Sound
  <2>3. /\ p.poolPos = 1 /\ p.poolRow = row /\ p.ipAwaiting = c.ipAwaiting /\ p.ipTimer = c.ipTimer
        /\ p.attemptTimer = c.attemptTimer /\ Same(p, c)
    BY DEF Controllers, Sound, Same
  <2>4. Sound(p)
    BY <1>1, <2>2, <2>3, RowsAssumption DEF Sound
  <2>5. ConnectToServer(c, row) = ConnectWithIp(p, row)
    BY <1>1 DEF ConnectToServer
  <2> HIDE DEF p
  <2>6. Sound(ConnectWithIp(p, row)) /\ Same(ConnectWithIp(p, row), p)
        /\ ConnectWithIp(p, row).attemptTimer = p.attemptTimer
    BY <2>4, ConnectWithIpSound
  <2> QED
    BY <2>3, <2>5, <2>6 DEF Same
<1>2. CASE ~(PoolSize[row] > 1)
  <2>1. ConnectToServer(c, row) = ConnectWithIp(ResetIpPool(c), row)
    BY <1>2 DEF ConnectToServer
  <2> QED
    BY <2>1, ResetIpPoolSound, ConnectWithIpSound DEF Same
<1> QED
  BY <1>1, <1>2

\* retryWithNextIp() stays within the pool, keeps the search and restarts the
\* attempt timer of a search.
LEMMA RetrySound ==
    ASSUME NEW c, Sound(c), CanRetry(c)
    PROVE  LET d == Retry(c)
           IN  Sound(d) /\ Same(d, c) /\ (c.phase = "Connecting" => d.attemptTimer = TRUE)
<1> DEFINE p == [c EXCEPT !.poolPos = @ + 1, !.ipAwaiting = FALSE, !.ipTimer = FALSE]
           e == ConnectWithIp(p, c.poolRow)
           f == [e EXCEPT !.advancing = TRUE, !.attemptTimer = TRUE]
<1>1. /\ c.poolPos + 1 \in Nat /\ c.poolRow \in Rows
      /\ c.poolPos + 1 <= PoolSize[c.poolRow]
  <2>1. c.poolPos \in Nat /\ c.poolPos > 0 /\ c.poolRow \in Rows
    BY DEF Sound, Controllers, CanRetry
  <2>2. PoolSize[c.poolRow] \in Nat
    BY <2>1, RowsAssumption
  <2> QED
    BY <2>1, <2>2 DEF CanRetry
<1>2. p = [c EXCEPT !.poolPos = c.poolPos + 1, !.ipAwaiting = FALSE, !.ipTimer = FALSE]
  BY Zenon
<1>3. p \in Controllers
  <2>1. FALSE \in BOOLEAN
    OBVIOUS
  <2> QED
    BY <1>1, <1>2, <2>1, Zenon DEF Controllers, Sound
<1>4. p.poolPos = c.poolPos + 1 /\ p.poolRow = c.poolRow /\ p.ipAwaiting = FALSE /\ Same(p, c)
  BY <1>2 DEF Controllers, Sound, Same
<1>5. Sound(p)
  BY <1>1, <1>3, <1>4 DEF Sound
<1>6. Sound(e) /\ Same(e, c)
  BY <1>1, <1>4, <1>5, ConnectWithIpSound, ZenonT(60) DEF Same
<1>7. f \in Controllers
  BY <1>6, Zenon DEF Controllers, Sound
<1>8. Sound(f) /\ Same(f, c) /\ f.attemptTimer = TRUE
  BY <1>6, <1>7 DEF Controllers, Sound, Same
<1>9. Retry(c) = IF c.phase = "Connecting" THEN f ELSE e
  BY DEF Retry
<1> QED
  BY <1>6, <1>8, <1>9

\* A queued disconnectFromVpn() connects nothing.
LEMMA DisconnectSound ==
    ASSUME NEW c, Sound(c)
    PROVE  LET d == Disconnect(c)
           IN  /\ Sound(d) /\ Same(d, c) /\ d.poolPos = c.poolPos
               /\ d.attemptTimer = c.attemptTimer /\ (ConnectsNot(c) => ConnectsNot(d))
<1>1. Append(c.calls, DisconnectCall) \in Seq(Rows \cup {DisconnectCall})
  BY DEF Controllers, Sound
<1>2. Disconnect(c) = [c EXCEPT !.calls = Append(c.calls, DisconnectCall)]
  BY Zenon DEF Disconnect
<1>3. Disconnect(c) \in Controllers
  BY <1>1, <1>2, Zenon DEF Controllers, Sound
<1>4. /\ Sound(Disconnect(c)) /\ Same(Disconnect(c), c) /\ Disconnect(c).poolPos = c.poolPos
      /\ Disconnect(c).attemptTimer = c.attemptTimer
      /\ Disconnect(c).calls = Append(c.calls, DisconnectCall)
  BY <1>2, <1>3 DEF Controllers, Sound, Same
<1>5. c.calls \in Seq(Rows \cup {DisconnectCall})
  BY DEF Controllers, Sound
<1>6. ConnectsNot(c) => ConnectsNot(Disconnect(c))
  BY <1>4, <1>5 DEF ConnectsNot
<1> QED
  BY <1>4, <1>6

\* The flags at the start of onConnectionStateChanged() are not of the search.
LEMMA FlagsSound ==
    ASSUME NEW c, Sound(c), NEW state
    PROVE  LET d == Flags(c, state)
           IN  /\ Sound(d) /\ Same(d, c) /\ d.poolPos = c.poolPos
               /\ d.attemptTimer = c.attemptTimer /\ d.calls = c.calls
<1> DEFINE d1 == [c EXCEPT !.advancing = FALSE, !.switching = FALSE]
           d2 == [c EXCEPT !.switching = FALSE]
<1>1. d1 \in Controllers /\ d2 \in Controllers
  BY Zenon DEF Controllers, Sound
<1>2. /\ Sound(d1) /\ Same(d1, c) /\ d1.poolPos = c.poolPos
      /\ d1.attemptTimer = c.attemptTimer /\ d1.calls = c.calls
  BY <1>1 DEF Controllers, Sound, Same
<1>3. /\ Sound(d2) /\ Same(d2, c) /\ d2.poolPos = c.poolPos
      /\ d2.attemptTimer = c.attemptTimer /\ d2.calls = c.calls
  BY <1>1 DEF Controllers, Sound, Same
<1>4. Flags(c, state) \in {d1, d2, c}
  BY DEF Flags
<1> HIDE DEF d1, d2
<1> QED
  BY <1>2, <1>3, <1>4 DEF Same

\* Nor are the fields that are shown, and the manual watchdog.
LEMMA DisplaySound ==
    ASSUME NEW c, Sound(c), NEW state \in ConnectionState
    PROVE  LET d == Display(c, state)
           IN  /\ Sound(d) /\ Same(d, c) /\ d.poolPos = c.poolPos
               /\ d.attemptTimer = c.attemptTimer /\ d.calls = c.calls
<1>1. Watchdog(c, state) \in BOOLEAN
  <2>1. c.manualTimer \in BOOLEAN
    BY DEF Controllers, Sound
  <2> QED
    BY <2>1, Zenon DEF Watchdog
<1>2. PICK w \in BOOLEAN : w = Watchdog(c, state)
  BY <1>1
<1>3. PICK up \in BOOLEAN : up = (state = "Connected")
  BY Zenon
<1>4. PICK busy \in BOOLEAN : busy = (state \in InProgress)
  <2>1. (state \in InProgress) \in BOOLEAN
    OBVIOUS
  <2> QED
    BY <2>1, Zenon
<1> DEFINE d == [c EXCEPT !.state = state, !.connected = up, !.inProgress = busy, !.manualTimer = w]
<1>5. Display(c, state) = d
  BY <1>2, <1>3, <1>4, Zenon DEF Display
<1>6. d \in Controllers
  BY Zenon DEF Controllers, Sound
<1>7. /\ d.poolRow = c.poolRow /\ d.poolPos = c.poolPos
      /\ d.ipAwaiting = c.ipAwaiting /\ d.ipTimer = c.ipTimer
      /\ d.attemptTimer = c.attemptTimer /\ d.calls = c.calls /\ Same(d, c)
  BY DEF Controllers, Sound, Same
<1> HIDE DEF d
<1>8. Sound(d)
  BY <1>6, <1>7 DEF Sound
<1> QED
  BY <1>5, <1>7, <1>8

\* Safe goes over from c to a controller with the same search.
LEMMA Carried ==
    ASSUME NEW c, Safe(c), NEW d, Sound(d), Same(d, c),
           c.phase = "Connecting" => d.attemptTimer,
           c.wanted = "no" => d.poolPos = 0 /\ ConnectsNot(d)
    PROVE  Safe(d)
  BY DEF Safe, Tried, Probed, Cancelled, Same

\* A Disconnected outside the tries of a search, whoever announces it
LEMMA IdleDisconnectedSafe ==
    ASSUME NEW c, Safe(c), c.phase # "Connecting"
    PROVE  LET d == IdleDisconnected(c)
           IN  Safe(d) /\ d.wanted = c.wanted
<1> "Disconnected" \in ConnectionState
  BY DEF ConnectionState
<1> Sound(c)
  BY DEF Safe
<1>1. CASE c.poolPos > 0 /\ ~c.switching /\ CanRetry(c)
  <2> DEFINE r == Retry(c)
             d == [r EXCEPT !.state = "Disconnected"]
  <2>1. Sound(r) /\ Same(r, c)
    BY <1>1, RetrySound, Zenon
  <2>2. d \in Controllers
    BY <2>1, Zenon DEF Sound, Controllers
  <2>3. Sound(d) /\ Same(d, c)
    BY <2>1, <2>2 DEF Sound, Controllers, Same
  <2>4. IdleDisconnected(c) = d
    BY <1>1 DEF IdleDisconnected
  <2>5. c.wanted # "no"
    BY <1>1 DEF Safe, Cancelled
  <2> HIDE DEF d
  <2> QED
    BY <2>3, <2>4, <2>5, Carried DEF Same
<1>2. CASE c.poolPos > 0 /\ ~c.switching /\ ~CanRetry(c)
  <2> DEFINE r == ResetIpPool(c)
             d == Display(r, "Disconnected")
  <2>1. Sound(r) /\ Same(r, c)
    BY ResetIpPoolSound
  <2>2. Sound(d) /\ Same(d, r)
    BY <2>1, DisplaySound
  <2>3. IdleDisconnected(c) = d
    BY <1>2 DEF IdleDisconnected
  <2>4. c.wanted # "no"
    BY <1>2 DEF Safe, Cancelled
  <2> HIDE DEF r, d
  <2> QED
    BY <2>1, <2>2, <2>3, <2>4, Carried DEF Same
<1>3. CASE ~(c.poolPos > 0 /\ ~c.switching)
  <2> DEFINE d == Display(c, "Disconnected")
  <2>1. Sound(d) /\ Same(d, c) /\ d.poolPos = c.poolPos /\ d.calls = c.calls
    BY DisplaySound
  <2>2. IdleDisconnected(c) = d
    BY <1>3 DEF IdleDisconnected
  <2> HIDE DEF d
  <2>3. c.wanted = "no" => d.poolPos = 0 /\ ConnectsNot(d)
    BY <2>1 DEF Safe, Cancelled, ConnectsNot
  <2> QED
    BY <2>1, <2>2, <2>3, Carried DEF Same
<1> QED
  BY <1>1, <1>2, <1>3

\* The tray's state and m_state are not of the search either.
LEMMA ShownSafe ==
    ASSUME NEW c, Safe(c), NEW state \in ConnectionState
    PROVE  /\ Safe([c EXCEPT !.tray = state]) /\ [c EXCEPT !.tray = state].wanted = c.wanted
           /\ Safe([c EXCEPT !.state = state]) /\ [c EXCEPT !.state = state].wanted = c.wanted
<1> DEFINE d == [c EXCEPT !.tray = state]
           e == [c EXCEPT !.state = state]
<1>1. d \in Controllers /\ e \in Controllers
  BY Zenon DEF Safe, Sound, Controllers
<1>2. /\ Sound(d) /\ Same(d, c) /\ d.poolPos = c.poolPos
      /\ d.attemptTimer = c.attemptTimer /\ d.calls = c.calls
  BY <1>1 DEF Safe, Sound, Controllers, Same
<1>3. /\ Sound(e) /\ Same(e, c) /\ e.poolPos = c.poolPos
      /\ e.attemptTimer = c.attemptTimer /\ e.calls = c.calls
  BY <1>1 DEF Safe, Sound, Controllers, Same
<1> HIDE DEF d, e
<1>4. Safe(d)
  BY <1>2, Carried DEF Safe, Tried, Cancelled, ConnectsNot
<1>5. Safe(e)
  BY <1>3, Carried DEF Safe, Tried, Cancelled, ConnectsNot
<1> QED
  BY <1>2, <1>3, <1>4, <1>5 DEF Same, d, e

\* The same with the error report
LEMMA IdleErrorSafe ==
    ASSUME NEW c, Safe(c), c.phase # "Connecting"
    PROVE  LET d == IdleError(c)
           IN  Safe(d) /\ d.wanted = c.wanted
<1>1. "Disconnected" \in ConnectionState
  BY DEF ConnectionState
<1>2. Safe(IdleDisconnected(c)) /\ IdleDisconnected(c).wanted = c.wanted
  BY IdleDisconnectedSafe
<1> QED
  BY <1>1, <1>2, ShownSafe, Zenon DEF IdleError

\* A disconnectFromVpn() of a handler
LEMMA DisconnectSafe ==
    ASSUME NEW c, Safe(c)
    PROVE  LET d == Disconnect(c)
           IN  Safe(d) /\ Same(d, c)
<1> DEFINE d == Disconnect(c)
<1>1. /\ Sound(d) /\ Same(d, c) /\ d.poolPos = c.poolPos
      /\ d.attemptTimer = c.attemptTimer /\ (ConnectsNot(c) => ConnectsNot(d))
  BY DisconnectSound DEF Safe
<1> HIDE DEF d
<1>2. Safe(d)
  BY <1>1, Carried DEF Safe, Tried, Cancelled
<1> QED
  BY <1>1, <1>2 DEF d

\* A reset of the pool by a handler
LEMMA ResetIpPoolSafe ==
    ASSUME NEW c, Safe(c)
    PROVE  LET d == ResetIpPool(c)
           IN  Safe(d) /\ Same(d, c) /\ d.poolPos = 0
<1> DEFINE d == ResetIpPool(c)
<1>1. /\ Sound(d) /\ Same(d, c) /\ d.poolPos = 0
      /\ d.attemptTimer = c.attemptTimer /\ d.calls = c.calls
  BY ResetIpPoolSound DEF Safe
<1> HIDE DEF d
<1>2. Safe(d)
  BY <1>1, Carried DEF Safe, Tried, Cancelled, ConnectsNot
<1> QED
  BY <1>1, <1>2 DEF d

\* What is shown by a handler
LEMMA DisplaySafe ==
    ASSUME NEW c, Safe(c), NEW state \in ConnectionState
    PROVE  LET d == Display(c, state)
           IN  Safe(d) /\ Same(d, c) /\ d.poolPos = c.poolPos
<1> DEFINE d == Display(c, state)
<1>1. /\ Sound(d) /\ Same(d, c) /\ d.poolPos = c.poolPos
      /\ d.attemptTimer = c.attemptTimer /\ d.calls = c.calls
  BY DisplaySound DEF Safe
<1> HIDE DEF d
<1>2. Safe(d)
  BY <1>1, Carried DEF Safe, Tried, Cancelled, ConnectsNot
<1> QED
  BY <1>1, <1>2 DEF d

---------------------------------------------------------------------------
(* The search                                                              *)

\* connectCurrentAutoCandidate() tries a candidate under the attempt timer or
\* ends the search.
LEMMA ConnectCurrentSafe ==
    ASSUME NEW c, Sound(c), c.phase = "Connecting", c.wanted # "no"
    PROVE  LET d == ConnectCurrent(c)
           IN  Safe(d) /\ d.wanted = c.wanted
<1>1. CASE c.pos >= Len(c.candidates)
  <2> DEFINE e == [c EXCEPT !.phase = "None", !.advancing = FALSE,
                            !.awaiting = FALSE, !.inProgress = FALSE]
  <2>1. e \in Controllers
    BY Zenon DEF Sound, Controllers
  <2>2. Sound(e) /\ e.phase = "None" /\ e.wanted = c.wanted
    BY <2>1 DEF Sound, Controllers
  <2>3. ConnectCurrent(c) = IdleError(Disconnect(e))
    BY <1>1 DEF ConnectCurrent
  <2> HIDE DEF e
  <2>4. Safe(e)
    BY <2>2 DEF Safe, Tried, Probed, Cancelled
  <2>5. Safe(Disconnect(e)) /\ Same(Disconnect(e), e)
    BY <2>4, DisconnectSafe
  <2>6. Disconnect(e).phase # "Connecting" /\ Disconnect(e).wanted = c.wanted
    BY <2>2, <2>5 DEF Same
  <2> QED
    BY <2>3, <2>5, <2>6, IdleErrorSafe
<1>2. CASE ~(c.pos >= Len(c.candidates))
  <2> DEFINE g == [c EXCEPT !.advancing = TRUE, !.awaiting = FALSE]
             row == c.candidates[c.pos + 1]
             h == ConnectToServer(g, row)
             d == [h EXCEPT !.attemptTimer = TRUE]
  <2>1. c.pos \in Nat /\ c.candidates \in Seq(Rows)
    BY DEF Sound, Controllers
  <2>2. row \in Rows /\ c.pos < Len(c.candidates)
    BY <1>2, <2>1
  <2>3. g \in Controllers
    BY Zenon DEF Sound, Controllers
  <2>4. Sound(g) /\ Same(g, c)
    BY <2>3 DEF Sound, Controllers, Same
  <2> HIDE DEF g, row
  <2>5. Sound(h) /\ Same(h, g)
    BY <2>2, <2>4, ConnectToServerSound
  <2> HIDE DEF h
  <2>6. d \in Controllers
    BY <2>5, Zenon DEF Sound, Controllers
  <2>7. Sound(d) /\ Same(d, h) /\ d.attemptTimer = TRUE
    BY <2>5, <2>6 DEF Sound, Controllers, Same
  <2>8. ConnectCurrent(c) = d
    BY <1>2 DEF ConnectCurrent, g, h, row
  <2> HIDE DEF d
  <2> QED
    BY <2>2, <2>4, <2>5, <2>7, <2>8 DEF Safe, Tried, Probed, Cancelled, Same
<1> QED
  BY <1>1, <1>2

\* Without a search a controller that is wanted is safe.
LEMMA EndedSafe ==
    ASSUME NEW c, Sound(c), c.phase = "None", c.wanted # "no"
    PROVE  Safe(c)
BY DEF Safe, Tried, Probed, Cancelled

\* A candidate that fails is followed by the next address, the next candidate
\* or the end of the search.
LEMMA CandidateFailedSafe ==
    ASSUME NEW c, Safe(c), c.phase = "Connecting", NEW state \in ConnectionState
    PROVE  LET d == CandidateFailed(c, state)
           IN  Safe(d) /\ d.wanted = c.wanted
<1> DEFINE d    == [c EXCEPT !.attemptTimer = FALSE, !.awaiting = @ /\ state # "Reconnecting"]
           next == [d EXCEPT !.pos = @ + 1]
           over == [next EXCEPT !.phase = "None"]
           shut == [over EXCEPT !.advancing = FALSE, !.candidates = <<>>, !.inProgress = FALSE]
           try  == [next EXCEPT !.state = state]
<1>1. c.wanted # "no" /\ c.pos \in Nat /\ c.pos < Len(c.candidates) /\ Sound(c)
  BY DEF Safe, Tried, Cancelled, Sound, Controllers
<1>2. Sound(d) /\ Same(d, c)
  <2>1. PICK b \in BOOLEAN : b = (c.awaiting /\ state # "Reconnecting")
    BY Zenon
  <2>2. d = [c EXCEPT !.attemptTimer = FALSE, !.awaiting = b]
    BY <2>1, Zenon
  <2>3. b \in BOOLEAN /\ FALSE \in BOOLEAN
    OBVIOUS
  <2> HIDE DEF d
  <2>4. d \in Controllers
    BY <1>1, <2>2, <2>3, Zenon DEF Sound, Controllers
  <2> QED
    BY <1>1, <2>2, <2>4 DEF Sound, Controllers, Same
<1> HIDE DEF d
<1>3. Sound(next) /\ next.phase = "Connecting" /\ next.wanted = c.wanted
  <2>1. d.pos + 1 \in Nat
    BY <1>1, <1>2 DEF Same
  <2>2. next \in Controllers
    BY <1>2, <2>1, Zenon DEF Sound, Controllers
  <2> QED
    BY <1>2, <2>2 DEF Sound, Controllers, Same
<1> HIDE DEF next
<1>4. Sound(over) /\ over.phase = "None" /\ over.wanted = c.wanted
  <2>1. over \in Controllers
    BY <1>3, Zenon DEF Sound, Controllers
  <2> QED
    BY <1>3, <2>1 DEF Sound, Controllers
<1>5. Sound(try) /\ try.phase = "Connecting" /\ try.wanted = c.wanted
  <2>1. try \in Controllers
    BY <1>3, Zenon DEF Sound, Controllers
  <2> QED
    BY <1>3, <2>1 DEF Sound, Controllers
<1> HIDE DEF over, try
<1>6. Sound(shut) /\ shut.phase = "None" /\ shut.wanted = c.wanted
  <2>1. <<>> \in Seq(Rows)
    OBVIOUS
  <2>2. shut \in Controllers
    BY <1>4, <2>1, Zenon DEF Sound, Controllers
  <2> QED
    BY <1>4, <2>2 DEF Sound, Controllers
<1> HIDE DEF shut
<1>7. Safe(over) /\ Safe(shut)
  BY <1>1, <1>4, <1>6, EndedSafe
<1>8. CASE CanRetry(d)
  <2> DEFINE r == Retry(d)
  <2>1. Sound(r) /\ Same(r, d) /\ r.attemptTimer = TRUE
    BY <1>2, <1>8, RetrySound, Zenon DEF Same
  <2>2. CandidateFailed(c, state) = [r EXCEPT !.state = state]
    BY <1>8 DEF CandidateFailed, d
  <2> HIDE DEF r
  <2>3. Safe(r)
    BY <1>1, <1>2, <2>1 DEF Safe, Tried, Probed, Cancelled, Same
  <2>4. Safe([r EXCEPT !.state = state]) /\ [r EXCEPT !.state = state].wanted = r.wanted
    BY <2>3, ShownSafe, Zenon
  <2> QED
    BY <1>2, <2>1, <2>2, <2>4 DEF Same
<1>9. CASE ~CanRetry(d) /\ next.pos < Len(c.candidates)
  <2>1. CandidateFailed(c, state) = ConnectCurrent(try)
    BY <1>9 DEF CandidateFailed, d, next, try
  <2> QED
    BY <1>1, <1>5, <2>1, ConnectCurrentSafe
<1>10. CASE ~CanRetry(d) /\ ~(next.pos < Len(c.candidates)) /\ state = "Reconnecting"
  <2>1. CandidateFailed(c, state) = IdleError(Disconnect(shut))
    BY <1>10 DEF CandidateFailed, d, next, over, shut
  <2>2. Safe(Disconnect(shut)) /\ Same(Disconnect(shut), shut)
    BY <1>7, DisconnectSafe
  <2>3. Disconnect(shut).phase # "Connecting" /\ Disconnect(shut).wanted = c.wanted
    BY <1>6, <2>2 DEF Same
  <2> QED
    BY <2>1, <2>2, <2>3, IdleErrorSafe
<1>11. CASE ~CanRetry(d) /\ ~(next.pos < Len(c.candidates)) /\ state = "Disconnected"
  <2>1. CandidateFailed(c, state) = IdleError(shut)
    BY <1>11 DEF CandidateFailed, d, next, over, shut
  <2> QED
    BY <1>6, <1>7, <2>1, IdleErrorSafe
<1>12. CASE /\ ~CanRetry(d) /\ ~(next.pos < Len(c.candidates))
            /\ state # "Reconnecting" /\ state # "Disconnected"
  <2>1. CandidateFailed(c, state) = IdleError(Display(over, state))
    BY <1>12 DEF CandidateFailed, d, next, over
  <2>2. Safe(Display(over, state)) /\ Same(Display(over, state), over)
    BY <1>7, DisplaySafe
  <2>3. Display(over, state).phase # "Connecting" /\ Display(over, state).wanted = c.wanted
    BY <1>4, <2>2 DEF Same
  <2> QED
    BY <2>1, <2>2, <2>3, IdleErrorSafe
<1> QED
  BY <1>8, <1>9, <1>10, <1>11, <1>12

\* A search that has found its server is over, with its pool.
LEMMA FinalizeAutoSuccessSafe ==
    ASSUME NEW c, Sound(c), c.wanted # "no"
    PROVE  LET d == FinalizeAutoSuccess(c)
           IN  Safe(d) /\ d.wanted = c.wanted
<1>1. PICK row \in Rows : row = IF c.pos < Len(c.candidates)
                                THEN c.candidates[c.pos + 1] ELSE c.defaultRow
  BY DEF Sound, Controllers
<1> DEFINE e == [c EXCEPT !.attemptTimer = FALSE, !.awaiting = FALSE, !.phase = "None",
                          !.advancing = FALSE, !.candidates = <<>>, !.defaultRow = row]
<1>2. FinalizeAutoSuccess(c) = ResetIpPool(e)
  BY <1>1, Zenon DEF FinalizeAutoSuccess
<1>3. row \in Rows /\ FALSE \in BOOLEAN /\ <<>> \in Seq(Rows)
  OBVIOUS
<1>4. e \in Controllers
  BY <1>3, Zenon DEF Sound, Controllers
<1>5. Sound(e) /\ e.phase = "None" /\ e.wanted = c.wanted
  BY <1>4 DEF Sound, Controllers
<1> HIDE DEF e
<1>6. Safe(e)
  BY <1>5, EndedSafe
<1>7. Safe(ResetIpPool(e)) /\ Same(ResetIpPool(e), e)
  BY <1>6, ResetIpPoolSafe
<1> QED
  BY <1>2, <1>5, <1>7 DEF Same

\* A candidate that connects ends the search, or has the attempt timer watch
\* over its traffic.
LEMMA CandidateConnectedSafe ==
    ASSUME NEW c, Safe(c), c.phase = "Connecting"
    PROVE  LET d == CandidateConnected(c)
           IN  Safe(d) /\ d.wanted = c.wanted
<1> DEFINE e == [c EXCEPT !.awaiting = TRUE, !.attemptTimer = TRUE]
           f == Display(e, "Connected")
<1>1. c.wanted # "no" /\ c.pos \in Nat /\ c.pos < Len(c.candidates) /\ Sound(c)
  BY DEF Safe, Tried, Cancelled, Sound, Controllers
<1>2. e \in Controllers
  BY <1>1, Zenon DEF Sound, Controllers
<1>3. Sound(e) /\ Same(e, c) /\ e.attemptTimer = TRUE
  BY <1>1, <1>2 DEF Sound, Controllers, Same
<1> HIDE DEF e
<1>4. Safe(e)
  BY <1>1, <1>3 DEF Safe, Tried, Probed, Cancelled, Same
<1>5. "Connected" \in ConnectionState
  BY DEF ConnectionState
<1>6. Safe(f) /\ Same(f, e)
  BY <1>4, <1>5, DisplaySafe
<1>7. CandidateConnected(c) =
        IF c.candidates[c.pos + 1] \in WireGuard THEN FinalizeAutoSuccess(f) ELSE f
  <2>1. ~(c.pos >= Len(c.candidates))
    BY <1>1 DEF Sound, Controllers
  <2> QED
    BY <2>1 DEF CandidateConnected, e
<1> HIDE DEF f
<1>8. f.wanted = c.wanted /\ Sound(f)
  BY <1>3, <1>6 DEF Same, Safe
<1>9. Safe(FinalizeAutoSuccess(f)) /\ FinalizeAutoSuccess(f).wanted = f.wanted
  BY <1>1, <1>8, FinalizeAutoSuccessSafe
<1> QED
  BY <1>6, <1>7, <1>8, <1>9

\* A retry outside the tries of a search
LEMMA RetrySafe ==
    ASSUME NEW c, Safe(c), CanRetry(c)
    PROVE  LET d == Retry(c)
           IN  Safe(d) /\ d.wanted = c.wanted
<1> DEFINE d == Retry(c)
<1>1. Sound(c) /\ c.wanted # "no"
  BY DEF Safe, Cancelled, CanRetry, Sound, Controllers
<1>2. Sound(d) /\ Same(d, c) /\ (c.phase = "Connecting" => d.attemptTimer = TRUE)
  BY <1>1, RetrySound, Zenon
<1> HIDE DEF d
<1>3. Safe(d)
  BY <1>1, <1>2 DEF Safe, Tried, Probed, Cancelled, Same
<1> QED
  BY <1>2, <1>3 DEF Same, d

---------------------------------------------------------------------------
(* States                                                                  *)

\* The flags are not of the search.
LEMMA FlagsSafe ==
    ASSUME NEW c, Safe(c), NEW state \in ConnectionState
    PROVE  LET d == Flags(c, state)
           IN  Safe(d) /\ Same(d, c) /\ d.poolPos = c.poolPos
<1> DEFINE d == Flags(c, state)
<1>1. /\ Sound(d) /\ Same(d, c) /\ d.poolPos = c.poolPos
      /\ d.attemptTimer = c.attemptTimer /\ d.calls = c.calls
  BY FlagsSound DEF Safe
<1> HIDE DEF d
<1>2. Safe(d)
  BY <1>1, Carried DEF Safe, Tried, Cancelled, ConnectsNot
<1> QED
  BY <1>1, <1>2 DEF d

\* A state for the pool
LEMMA PoolStateSafe ==
    ASSUME NEW c, Safe(c), c.phase # "Connecting", c.poolPos > 0, NEW state \in ConnectionState
    PROVE  LET d == PoolState(c, state)
           IN  Safe(d) /\ d.wanted = c.wanted
<1>1. c.wanted # "no" /\ Sound(c)
  BY DEF Safe, Cancelled
<1>2. TRUE \in BOOLEAN /\ FALSE \in BOOLEAN
  OBVIOUS
<1> DEFINE r == ResetIpPool(c)
<1>3. Safe(r) /\ Same(r, c)
  BY ResetIpPoolSafe
<1> HIDE DEF r
<1>4. CASE state = "Connected"
  <2> DEFINE e == [c EXCEPT !.ipAwaiting = TRUE, !.ipTimer = TRUE]
             f == IF c.poolRow \in WireGuard THEN r ELSE e
  <2>1. e \in Controllers
    BY <1>1, <1>2, Zenon DEF Sound, Controllers
  <2>2. Sound(e) /\ Same(e, c)
    BY <1>1, <2>1 DEF Sound, Controllers, Same
  <2>3. PoolState(c, state) = Display(f, state)
    BY <1>4 DEF PoolState, r
  <2> HIDE DEF e
  <2>4. Safe(e)
    BY <1>1, <2>2, Carried
  <2>5. Safe(f) /\ f.wanted = c.wanted
    BY <1>3, <2>2, <2>4 DEF Same
  <2> HIDE DEF f
  <2>6. Safe(Display(f, state)) /\ Same(Display(f, state), f)
    BY <2>5, DisplaySafe
  <2> QED
    BY <2>3, <2>5, <2>6 DEF Same
<1>5. CASE state = "Reconnecting" /\ CanRetry(c)
  <2> DEFINE q == [c EXCEPT !.ipAwaiting = FALSE, !.ipTimer = FALSE]
  <2>1. q \in Controllers
    BY <1>1, <1>2, Zenon DEF Sound, Controllers
  <2>2. Sound(q) /\ Same(q, c) /\ q.poolPos = c.poolPos /\ q.poolRow = c.poolRow
    BY <1>1, <2>1 DEF Sound, Controllers, Same
  <2>3. PoolState(c, state) = [Retry(q) EXCEPT !.state = state]
    BY <1>5 DEF PoolState
  <2> HIDE DEF q
  <2>4. Safe(q) /\ CanRetry(q)
    BY <1>1, <1>5, <2>2, Carried DEF CanRetry
  <2>5. Safe(Retry(q)) /\ Retry(q).wanted = q.wanted
    BY <2>4, RetrySafe
  <2>6. Safe([Retry(q) EXCEPT !.state = state])
        /\ [Retry(q) EXCEPT !.state = state].wanted = Retry(q).wanted
    BY <2>5, ShownSafe, Zenon
  <2> QED
    BY <2>2, <2>3, <2>5, <2>6 DEF Same
<1>6. CASE state = "Reconnecting" /\ ~CanRetry(c)
  <2> DEFINE q == [r EXCEPT !.manualTimer = FALSE, !.inProgress = FALSE]
             x == Disconnect(q)
  <2>1. Sound(r)
    BY <1>3 DEF Safe
  <2>2. q \in Controllers
    BY <1>2, <2>1, Zenon DEF Sound, Controllers
  <2>3. Sound(q) /\ Same(q, r)
    BY <2>1, <2>2 DEF Sound, Controllers, Same
  <2>4. PoolState(c, state) = IdleError(x)
    BY <1>6 DEF PoolState, r
  <2> HIDE DEF q
  <2>5. r.wanted # "no" /\ r.phase # "Connecting"
    BY <1>1, <1>3 DEF Same
  <2>6. Safe(q)
    BY <1>3, <2>3, <2>5, Carried
  <2>7. Safe(x) /\ Same(x, q)
    BY <2>6, DisconnectSafe
  <2> HIDE DEF x
  <2>8. x.phase # "Connecting" /\ x.wanted = c.wanted
    BY <1>3, <2>3, <2>7 DEF Same
  <2> QED
    BY <2>4, <2>7, <2>8, IdleErrorSafe
<1>7. CASE state \in {"Error", "Unknown"} /\ CanRetry(c)
  <2>1. PoolState(c, state) = [Retry(c) EXCEPT !.state = state]
    BY <1>7 DEF PoolState
  <2>2. Safe(Retry(c)) /\ Retry(c).wanted = c.wanted
    BY <1>7, RetrySafe
  <2>3. Safe([Retry(c) EXCEPT !.state = state])
        /\ [Retry(c) EXCEPT !.state = state].wanted = Retry(c).wanted
    BY <2>2, ShownSafe, Zenon
  <2> QED
    BY <2>1, <2>2, <2>3
<1>8. CASE state \in {"Error", "Unknown"} /\ ~CanRetry(c)
  <2> DEFINE x == Display(r, state)
  <2>1. PoolState(c, state) = IdleError(x)
    BY <1>8 DEF PoolState, r
  <2>2. Safe(x) /\ Same(x, r)
    BY <1>3, DisplaySafe
  <2> HIDE DEF x
  <2>3. x.phase # "Connecting" /\ x.wanted = c.wanted
    BY <1>3, <2>2 DEF Same
  <2> QED
    BY <2>1, <2>2, <2>3, IdleErrorSafe
<1>9. CASE state = "Disconnected"
  <2>1. PoolState(c, state) = IdleDisconnected(c)
    BY <1>9 DEF PoolState
  <2> QED
    BY <2>1, IdleDisconnectedSafe
<1>10. CASE state \notin {"Connected", "Reconnecting", "Error", "Unknown", "Disconnected"}
  <2>1. PoolState(c, state) = Display(c, state)
    BY <1>10 DEF PoolState
  <2> QED
    BY <2>1, DisplaySafe DEF Same
<1> QED
  BY <1>4, <1>5, <1>6, <1>7, <1>8, <1>9, <1>10

\* onConnectionStateChanged() keeps the invariant, whatever the state.
LEMMA StateChangedSafe ==
    ASSUME NEW c0, Safe(c0), NEW state \in ConnectionState
    PROVE  LET d == OnConnectionStateChanged(c0, state)
           IN  Safe(d) /\ d.wanted = c0.wanted
<1> DEFINE c == Flags(c0, state)
           x == Display(c, state)
<1>1. Safe(c) /\ c.wanted = c0.wanted
  BY FlagsSafe DEF Same
<1>2. OnConnectionStateChanged(c0, state) =
        IF c.phase = "Connecting"
        THEN IF state = "Connected" THEN CandidateConnected(c)
             ELSE IF \/ state \in {"Error", "Unknown", "Reconnecting"}
                     \/ state = "Disconnected" /\ ~c.advancing
             THEN CandidateFailed(c, state)
             ELSE x
        ELSE IF c.poolPos > 0 THEN PoolState(c, state)
        ELSE IF state \in {"Error", "Unknown"} THEN IdleError(x)
        ELSE x
  BY Zenon DEF OnConnectionStateChanged
<1> HIDE DEF c
<1>3. Safe(x) /\ Same(x, c)
  BY <1>1, DisplaySafe
<1> HIDE DEF x
<1>4. x.wanted = c.wanted /\ x.phase = c.phase
  BY <1>3 DEF Same
<1>5. c.phase = "Connecting" => /\ Safe(CandidateConnected(c))
                                /\ CandidateConnected(c).wanted = c.wanted
  BY <1>1, CandidateConnectedSafe
<1>6. c.phase = "Connecting" => /\ Safe(CandidateFailed(c, state))
                                /\ CandidateFailed(c, state).wanted = c.wanted
  BY <1>1, CandidateFailedSafe
<1>7. c.phase # "Connecting" /\ c.poolPos > 0 =>
          Safe(PoolState(c, state)) /\ PoolState(c, state).wanted = c.wanted
  BY <1>1, PoolStateSafe
<1>8. c.phase # "Connecting" => Safe(IdleError(x)) /\ IdleError(x).wanted = c.wanted
  BY <1>3, <1>4, IdleErrorSafe
<1> QED
  BY <1>1, <1>2, <1>3, <1>4, <1>5, <1>6, <1>7, <1>8

\* An error report
LEMMA ReportErrorSafe ==
    ASSUME NEW c, Safe(c)
    PROVE  LET d == ReportError(c)
           IN  Safe(d) /\ d.wanted = c.wanted
<1> DEFINE x == OnConnectionStateChanged(c, "Disconnected")
<1>1. "Disconnected" \in ConnectionState
  BY DEF ConnectionState
<1>2. Safe(x) /\ x.wanted = c.wanted
  BY <1>1, StateChangedSafe
<1>3. ReportError(c) = [x EXCEPT !.tray = "Disconnected"]
  BY DEF ReportError
<1> HIDE DEF x
<1>4. /\ Safe([x EXCEPT !.tray = "Disconnected"])
      /\ [x EXCEPT !.tray = "Disconnected"].wanted = x.wanted
  BY <1>1, <1>2, ShownSafe, Zenon
<1> QED
  BY <1>2, <1>3, <1>4

\* A state for the controller and the tray
LEMMA AnnounceSafe ==
    ASSUME NEW c, Safe(c), NEW state \in ConnectionState
    PROVE  LET d == Announce(c, state)
           IN  Safe(d) /\ d.wanted = c.wanted
<1> DEFINE x == OnConnectionStateChanged(c, state)
<1>1. Safe(x) /\ x.wanted = c.wanted
  BY StateChangedSafe
<1>2. Announce(c, state) = [x EXCEPT !.tray = state]
  BY DEF Announce
<1> HIDE DEF x
<1> QED
  BY <1>1, <1>2, ShownSafe, ZenonT(40)

---------------------------------------------------------------------------
(* The start of a search                                                   *)

\* cancelAutoSelection() keeps all but the search.
LEMMA CancelSound ==
    ASSUME NEW c, Sound(c)
    PROVE  LET d == CancelAutoSelection(c)
           IN  /\ Sound(d) /\ d.phase = "None" /\ d.wanted = c.wanted
               /\ d.installs = c.installs /\ d.calls = c.calls
<1>1. FALSE \in BOOLEAN /\ <<>> \in Seq(Rows) /\ 0 \in Nat
  OBVIOUS
<1>2. CancelAutoSelection(c) \in Controllers
  BY <1>1, Zenon DEF CancelAutoSelection, Sound, Controllers
<1> QED
  BY <1>2 DEF CancelAutoSelection, Sound, Controllers

\* beginAutoConnect() tries the first candidate, or the default server.
LEMMA BeginAutoConnectSafe ==
    ASSUME NEW c, Sound(c), c.wanted # "no", NEW order \in Seq(Rows)
    PROVE  LET d == BeginAutoConnect(c, order)
           IN  Safe(d) /\ d.wanted = c.wanted
<1> DEFINE d == [c EXCEPT !.listening = FALSE, !.probeTimer = FALSE, !.candidates = order]
<1>1. FALSE \in BOOLEAN /\ 0 \in Nat
  OBVIOUS
<1>2. d \in Controllers
  BY <1>1, Zenon DEF Sound, Controllers
<1>3. Sound(d) /\ d.wanted = c.wanted
  BY <1>2 DEF Sound, Controllers
<1> HIDE DEF d
<1>4. CASE order = <<>>
  <2> DEFINE e == [d EXCEPT !.phase = "None"]
             x == ConnectToServer(e, c.defaultRow)
  <2>1. e \in Controllers /\ c.defaultRow \in Rows
    BY <1>3, Zenon DEF Sound, Controllers
  <2>2. Sound(e) /\ e.phase = "None" /\ e.wanted = c.wanted
    BY <1>3, <2>1 DEF Sound, Controllers
  <2>3. BeginAutoConnect(c, order) = x
    BY <1>4 DEF BeginAutoConnect, d
  <2> HIDE DEF e
  <2>4. Sound(x) /\ Same(x, e)
    BY <2>1, <2>2, ConnectToServerSound
  <2> HIDE DEF x
  <2> QED
    BY <2>2, <2>3, <2>4, EndedSafe DEF Same
<1>5. CASE order # <<>>
  <2> DEFINE e == [d EXCEPT !.phase = "Connecting", !.pos = 0]
  <2>1. e \in Controllers
    BY <1>1, <1>3, Zenon DEF Sound, Controllers
  <2>2. Sound(e) /\ e.phase = "Connecting" /\ e.wanted = c.wanted
    BY <1>3, <2>1 DEF Sound, Controllers
  <2>3. BeginAutoConnect(c, order) = ConnectCurrent(e)
    BY <1>5 DEF BeginAutoConnect, d
  <2> HIDE DEF e
  <2> QED
    BY <2>2, <2>3, ConnectCurrentSafe
<1> QED
  BY <1>4, <1>5

\* An early decision
LEMMA EarlyDecisionSafe ==
    ASSUME NEW c, Sound(c), c.wanted # "no", NEW d \in EarlyDecision(c)
    PROVE  Safe(d) /\ d.wanted = c.wanted
<1>1. PICK order \in Orders \ {<<>>} : d = BeginAutoConnect(c, order)
  BY DEF EarlyDecision
<1>2. order \in Seq(Rows)
  BY RowsAssumption
<1>3. Safe(BeginAutoConnect(c, order)) /\ BeginAutoConnect(c, order).wanted = c.wanted
  BY <1>2, BeginAutoConnectSafe
<1> QED
  BY <1>1, <1>3

\* The end of a probe
LEMMA ProbeSettledSafe ==
    ASSUME NEW c, Sound(c),
           c.phase = "Probing" => c.wanted # "no",
           c.phase # "Probing" => Safe(c),
           NEW d \in ProbeSettled(c)
    PROVE  Safe(d) /\ d.wanted = c.wanted
<1>1. CASE c.phase = "Probing"
  <2> DEFINE e == [c EXCEPT !.probeTimer = FALSE]
  <2>1. PICK order \in Orders : d = BeginAutoConnect(e, order)
    BY <1>1, Zenon DEF ProbeSettled
  <2>2. order \in Seq(Rows)
    BY RowsAssumption
  <2>3. e \in Controllers
    BY Zenon DEF Sound, Controllers
  <2>4. Sound(e) /\ e.wanted = c.wanted
    BY <2>3 DEF Sound, Controllers
  <2> HIDE DEF e
  <2>5. Safe(BeginAutoConnect(e, order)) /\ BeginAutoConnect(e, order).wanted = e.wanted
    BY <1>1, <2>2, <2>4, BeginAutoConnectSafe
  <2> QED
    BY <2>1, <2>4, <2>5
<1>2. CASE c.phase # "Probing"
  BY <1>2 DEF ProbeSettled
<1> QED
  BY <1>1, <1>2

\* The probe of startAutoSelection(), which decides, is over at once, or runs
\* under the probe timer
LEMMA ProbeSafe ==
    ASSUME NEW c, Sound(c), Tried(c), c.wanted # "no", NEW d \in Probe(c)
    PROVE  Safe(d) /\ d.wanted = c.wanted
<1> DEFINE e == [c EXCEPT !.listening = TRUE]
           f == [e EXCEPT !.probeTimer = TRUE]
<1>1. e \in Controllers
  BY Zenon DEF Sound, Controllers
<1>2. /\ Sound(e) /\ e.phase = c.phase /\ e.wanted = c.wanted
      /\ e.attemptTimer = c.attemptTimer /\ e.pos = c.pos /\ e.candidates = c.candidates
  BY <1>1 DEF Sound, Controllers
<1>3. d \in EarlyDecision(c) \/ d \in ProbeSettled(e) \/ d = f
  BY DEF Probe
<1> HIDE DEF e
<1>4. f \in Controllers
  BY <1>2, Zenon DEF Sound, Controllers
<1>5. /\ Sound(f) /\ f.phase = e.phase /\ f.wanted = e.wanted /\ f.probeTimer = TRUE
      /\ f.attemptTimer = e.attemptTimer /\ f.pos = e.pos /\ f.candidates = e.candidates
  BY <1>2, <1>4 DEF Sound, Controllers
<1> HIDE DEF f
<1>6. Safe(f)
  BY <1>2, <1>5 DEF Safe, Tried, Probed, Cancelled
<1>7. e.phase # "Probing" => Safe(e)
  BY <1>2 DEF Safe, Tried, Probed, Cancelled
<1>8. CASE d \in EarlyDecision(c)
  BY <1>8, EarlyDecisionSafe
<1>9. CASE d \in ProbeSettled(e)
  BY <1>2, <1>7, <1>9, ProbeSettledSafe
<1> QED
  BY <1>2, <1>3, <1>5, <1>6, <1>8, <1>9

\* startAutoSelection() probes or waits for the gateway.
LEMMA StartAutoSelectionSafe ==
    ASSUME NEW c, Sound(c), c.wanted # "no", NEW d \in StartAutoSelection(c)
    PROVE  Safe(d) /\ d.wanted = c.wanted
<1> DEFINE x == CancelAutoSelection(c)
           e == [x EXCEPT !.phase = "Probing"]
           f == [e EXCEPT !.installs = @ + 1]
<1>1. Sound(x) /\ x.wanted = c.wanted
  BY CancelSound
<1>2. d \in Probe(e) \/ d = f
  BY DEF StartAutoSelection
<1> HIDE DEF x
<1>3. e \in Controllers
  BY <1>1, Zenon DEF Sound, Controllers
<1>4. Sound(e) /\ e.phase = "Probing" /\ e.wanted = c.wanted
  BY <1>1, <1>3 DEF Sound, Controllers
<1> HIDE DEF e
<1>5. e.installs \in Nat /\ e.installs + 1 \in Nat
  BY <1>4 DEF Sound, Controllers
<1>6. f \in Controllers
  BY <1>4, <1>5, Zenon DEF Sound, Controllers
<1>7. Sound(f) /\ f.phase = "Probing" /\ f.wanted = c.wanted /\ f.installs = e.installs + 1
  BY <1>4, <1>6 DEF Sound, Controllers
<1> HIDE DEF f
<1>8. Safe(f)
  BY <1>5, <1>7 DEF Safe, Tried, Probed, Cancelled
<1>9. CASE d \in Probe(e)
  <2>1. Tried(e)
    BY <1>4 DEF Tried
  <2> QED
    BY <1>4, <1>9, <2>1, ProbeSafe
<1> QED
  BY <1>2, <1>7, <1>8, <1>9

---------------------------------------------------------------------------
(* Opening and closing                                                     *)

\* openConnection(), with or without the service
LEMMA OpenConnectionSafe ==
    ASSUME NEW c, Safe(c), NEW d \in OpenConnection(c)
    PROVE  Safe(d)
<1> DEFINE e == [c EXCEPT !.wanted = "yes"]
<1>1. Sound(c)
  BY DEF Safe
<1>2. e \in Controllers
  BY <1>1, Zenon DEF Sound, Controllers
<1>3. /\ Sound(e) /\ e.wanted = "yes" /\ e.phase = c.phase /\ e.probeTimer = c.probeTimer
      /\ e.attemptTimer = c.attemptTimer /\ e.pos = c.pos /\ e.candidates = c.candidates
      /\ e.installs = c.installs
  BY <1>1, <1>2 DEF Sound, Controllers
<1>4. \/ d = ReportError(e)
      \/ d \in StartAutoSelection(e)
      \/ d = ConnectToServer(e, c.defaultRow)
  BY DEF OpenConnection
<1> HIDE DEF e
<1>5. Safe(e)
  BY <1>3 DEF Safe, Tried, Probed, Cancelled
<1>6. CASE d = ReportError(e)
  BY <1>5, <1>6, ReportErrorSafe
<1>7. CASE d \in StartAutoSelection(e)
  BY <1>3, <1>7, StartAutoSelectionSafe
<1>8. CASE d = ConnectToServer(e, c.defaultRow)
  <2>1. c.defaultRow \in Rows
    BY <1>1 DEF Sound, Controllers
  <2>2. Sound(d) /\ Same(d, e) /\ d.attemptTimer = e.attemptTimer
    BY <1>3, <1>8, <2>1, ConnectToServerSound
  <2> QED
    BY <1>3, <1>5, <2>2, Carried DEF Safe, Tried
<1> QED
  BY <1>4, <1>6, <1>7, <1>8

\* closeConnection() leaves neither a search nor a pool.
LEMMA CloseConnectionSafe ==
    ASSUME NEW c, Safe(c), ConnectsNot(c)
    PROVE  Safe(CloseConnection(c))
<1>1. Sound(c)
  BY DEF Safe
<1>2. PICK w \in {"no", "late"} : w = IF c.installs > 0 THEN "late" ELSE "no"
  OBVIOUS
<1> DEFINE d == [c EXCEPT !.manualTimer = FALSE, !.wanted = w]
           x == CancelAutoSelection(d)
           y == [x EXCEPT !.inProgress = FALSE]
           e == IF c.phase # "None" THEN y ELSE d
           r == ResetIpPool(e)
           z == Disconnect(r)
<1>3. w \in {"yes", "no", "late"} /\ FALSE \in BOOLEAN
  OBVIOUS
<1>4. d \in Controllers
  BY <1>1, <1>3, Zenon DEF Sound, Controllers
<1>5. /\ Sound(d) /\ d.wanted = w /\ d.phase = c.phase /\ d.installs = c.installs
      /\ d.calls = c.calls
  BY <1>1, <1>4 DEF Sound, Controllers
<1>6. CloseConnection(c) = z
  BY <1>2, Zenon DEF CloseConnection
<1> HIDE DEF d
<1>7. /\ Sound(x) /\ x.phase = "None" /\ x.wanted = d.wanted
      /\ x.installs = d.installs /\ x.calls = d.calls
  BY <1>5, CancelSound
<1> HIDE DEF x
<1>8. y \in Controllers
  BY <1>7, Zenon DEF Sound, Controllers
<1>9. /\ Sound(y) /\ y.phase = "None" /\ y.wanted = x.wanted
      /\ y.installs = x.installs /\ y.calls = x.calls
  BY <1>7, <1>8 DEF Sound, Controllers
<1> HIDE DEF y
<1>10. Sound(e) /\ e.phase = "None" /\ e.wanted = w /\ e.installs = c.installs /\ e.calls = c.calls
  BY <1>5, <1>7, <1>9
<1> HIDE DEF e
<1>11. Sound(r) /\ Same(r, e) /\ r.poolPos = 0 /\ r.calls = e.calls
  BY <1>10, ResetIpPoolSound
<1> HIDE DEF r
<1>12. ConnectsNot(r)
  BY <1>10, <1>11 DEF ConnectsNot
<1>13. Sound(z) /\ Same(z, r) /\ z.poolPos = r.poolPos /\ ConnectsNot(z)
  BY <1>11, <1>12, DisconnectSound
<1> HIDE DEF z
<1>14. w = "no" => c.installs = 0
  BY <1>1, <1>2 DEF Sound, Controllers
<1>15. Safe(z)
  BY <1>10, <1>11, <1>13, <1>14 DEF Safe, Tried, Probed, Cancelled, Same
<1> QED
  BY <1>6, <1>15

\* The prepareConfig handler
LEMMA PrepareConfigSafe ==
    ASSUME NEW c, Safe(c), NEW d \in PrepareConfig(c)
    PROVE  Safe(d)
<1> DEFINE e == Announce(c, "Preparing")
<1>1. "Preparing" \in ConnectionState /\ "Disconnected" \in ConnectionState
  BY DEF ConnectionState
<1>2. Safe(e)
  BY <1>1, AnnounceSafe
<1>3. d \in OpenConnection(e) \/ d = Announce(e, "Disconnected")
  BY DEF PrepareConfig
<1> HIDE DEF e
<1>4. CASE d \in OpenConnection(e)
  BY <1>2, <1>4, OpenConnectionSafe
<1>5. CASE d = Announce(e, "Disconnected")
  BY <1>1, <1>2, <1>5, AnnounceSafe
<1> QED
  BY <1>3, <1>4, <1>5

---------------------------------------------------------------------------
(* The events                                                              *)

\* The button of the main window
LEMMA ToggleConnectionSafe ==
    ASSUME NEW c, Safe(c), ConnectsNot(c), NEW d \in ToggleConnection(c)
    PROVE  Safe(d)
<1>1. d = CloseConnection(c) \/ d \in PrepareConfig(c)
  BY DEF ToggleConnection, When
<1> QED
  BY <1>1, CloseConnectionSafe, PrepareConfigSafe

\* The server list
LEMMA ChooseServerSafe ==
    ASSUME NEW c, Safe(c), NEW d \in ChooseServer(c)
    PROVE  Safe(d)
<1> DEFINE chosen == {[c EXCEPT !.auto = FALSE, !.defaultRow = row] : row \in Rows}
<1>1. d \in IF c.connected THEN UNION {OpenConnection(x) : x \in chosen} ELSE chosen
  BY Zenon DEF ChooseServer, When
<1> HIDE DEF chosen
<1>2. PICK e \in chosen : d = e \/ d \in OpenConnection(e)
  BY <1>1, ZenonT(40)
<1>3. PICK row \in Rows : e = [c EXCEPT !.auto = FALSE, !.defaultRow = row]
  BY Zenon DEF chosen
<1>4. Sound(c)
  BY DEF Safe
<1>5. e \in Controllers
  BY <1>3, <1>4, Zenon DEF Sound, Controllers
<1>6. /\ Sound(e) /\ Same(e, c) /\ e.poolPos = c.poolPos
      /\ e.attemptTimer = c.attemptTimer /\ e.calls = c.calls
  BY <1>3, <1>4, <1>5 DEF Sound, Controllers, Same
<1>7. Safe(e)
  BY <1>6, Carried DEF Safe, Tried, Cancelled, ConnectsNot
<1> QED
  BY <1>2, <1>7, OpenConnectionSafe, SMTT(30)

\* The choice of the search
LEMMA ChooseAutoSafe ==
    ASSUME NEW c, Safe(c), NEW d \in ChooseAuto(c)
    PROVE  Safe(d)
<1> DEFINE e == [c EXCEPT !.auto = TRUE]
<1>1. Sound(c)
  BY DEF Safe
<1>2. e \in Controllers
  BY <1>1, Zenon DEF Sound, Controllers
<1>3. /\ Sound(e) /\ Same(e, c) /\ e.poolPos = c.poolPos
      /\ e.attemptTimer = c.attemptTimer /\ e.calls = c.calls
  BY <1>1, <1>2 DEF Sound, Controllers, Same
<1>4. d = e \/ d \in OpenConnection(e)
  BY DEF ChooseAuto, When
<1> HIDE DEF e
<1>5. Safe(e)
  BY <1>3, Carried DEF Safe, Tried, Cancelled, ConnectsNot
<1> QED
  BY <1>4, <1>5, OpenConnectionSafe

\* The tray menu
LEMMA TraySafe ==
    ASSUME NEW c, Safe(c), ConnectsNot(c), NEW d \in TrayConnect(c) \cup TrayDisconnect(c)
    PROVE  Safe(d)
<1>1. d \in OpenConnection(c) \/ d = CloseConnection(c)
  BY DEF TrayConnect, TrayDisconnect, When
<1> QED
  BY <1>1, OpenConnectionSafe, CloseConnectionSafe

\* A new language
LEMMA TranslationsUpdatedSafe ==
    ASSUME NEW c, Safe(c), NEW d \in TranslationsUpdated(c)
    PROVE  Safe(d)
<1>1. d = OnConnectionStateChanged(c, c.state)
  BY DEF TranslationsUpdated, When
<1>2. c.state \in ConnectionState
  BY DEF Safe, Sound, Controllers
<1> QED
  BY <1>1, <1>2, StateChangedSafe

\* The gateway's answer: a search that waits for it is one nobody has cancelled.
LEMMA InstallsDoneSafe ==
    ASSUME NEW c, Safe(c), NEW d \in InstallsDone(c)
    PROVE  Safe(d)
<1> DEFINE e == [c EXCEPT !.installs = @ - 1]
<1>1. c.installs > 0 /\ d \in Probe(e)
  BY DEF InstallsDone, When
<1>2. Sound(c) /\ c.wanted # "no"
  BY <1>1 DEF Safe, Cancelled
<1>3. c.installs - 1 \in Nat
  BY <1>1, <1>2 DEF Sound, Controllers
<1>4. e \in Controllers
  BY <1>2, <1>3, Zenon DEF Sound, Controllers
<1>5. /\ Sound(e) /\ e.wanted = c.wanted /\ e.phase = c.phase
      /\ e.attemptTimer = c.attemptTimer /\ e.pos = c.pos /\ e.candidates = c.candidates
  BY <1>2, <1>4 DEF Sound, Controllers
<1> HIDE DEF e
<1>6. Tried(e)
  BY <1>5 DEF Safe, Tried
<1> QED
  BY <1>1, <1>2, <1>5, <1>6, ProbeSafe

\* The results of a probe, its end and its timer
LEMMA ProbeEventsSafe ==
    ASSUME NEW c, Safe(c),
           NEW d \in HealthUpdated(c) \cup ProbingFinished(c) \cup ProbeTimeout(c)
    PROVE  Safe(d)
<1> DEFINE e == [c EXCEPT !.probeTimer = FALSE]
<1>1. Sound(c) /\ (c.phase # "None" => c.wanted # "no")
  BY DEF Safe, Cancelled
<1>2. e \in Controllers
  BY <1>1, Zenon DEF Sound, Controllers
<1>3. /\ Sound(e) /\ e.wanted = c.wanted /\ e.phase = c.phase
      /\ e.attemptTimer = c.attemptTimer /\ e.pos = c.pos /\ e.candidates = c.candidates
      /\ e.poolPos = c.poolPos /\ e.installs = c.installs /\ e.calls = c.calls
  BY <1>1, <1>2 DEF Sound, Controllers
<1>4. \/ c.phase = "Probing" /\ d \in EarlyDecision(c)
      \/ d \in ProbeSettled(c)
      \/ d \in ProbeSettled(e)
  BY DEF HealthUpdated, ProbingFinished, ProbeTimeout, When
<1> HIDE DEF e
<1>5. CASE c.phase = "Probing" /\ d \in EarlyDecision(c)
  BY <1>1, <1>5, EarlyDecisionSafe
<1>6. CASE d \in ProbeSettled(c)
  BY <1>1, <1>6, ProbeSettledSafe
<1>7. CASE d \in ProbeSettled(e)
  <2>1. e.phase # "Probing" => Safe(e)
    BY <1>3 DEF Safe, Tried, Probed, Cancelled, ConnectsNot
  <2>2. e.phase = "Probing" => e.wanted # "no"
    BY <1>1, <1>3
  <2> QED
    BY <1>3, <1>7, <2>1, <2>2, ProbeSettledSafe
<1> QED
  BY <1>4, <1>5, <1>6, <1>7

\* The attempt timer: the next address, the next candidate, or the end
LEMMA AttemptTimeoutSafe ==
    ASSUME NEW c, Safe(c), NEW x \in AttemptTimeout(c)
    PROVE  Safe(x)
<1> DEFINE d == [c EXCEPT !.attemptTimer = FALSE]
<1>1. Sound(c) /\ (c.phase # "None" => c.wanted # "no")
  BY DEF Safe, Cancelled
<1>2. d \in Controllers
  BY <1>1, Zenon DEF Sound, Controllers
<1>3. Sound(d) /\ Same(d, c) /\ d.poolPos = c.poolPos /\ d.calls = c.calls
  BY <1>1, <1>2 DEF Sound, Controllers, Same
<1>4. CASE c.phase # "Connecting"
  <2>1. x = d
    BY <1>4 DEF AttemptTimeout, When
  <2> HIDE DEF d
  <2> QED
    BY <1>3, <1>4, <2>1, Carried DEF Safe, Cancelled, ConnectsNot
<1>5. CASE c.phase = "Connecting" /\ CanRetry(d)
  <2> DEFINE r == Retry(d)
             f == [r EXCEPT !.awaiting = FALSE]
  <2>1. x = f
    BY <1>5, Zenon DEF AttemptTimeout, When
  <2> HIDE DEF d
  <2>2. Sound(r) /\ Same(r, c) /\ r.attemptTimer = TRUE
    BY <1>3, <1>5, RetrySound, Zenon DEF Same
  <2> HIDE DEF r
  <2>3. f \in Controllers
    BY <2>2, Zenon DEF Sound, Controllers
  <2>4. Sound(f) /\ Same(f, r) /\ f.attemptTimer = TRUE
    BY <2>2, <2>3 DEF Sound, Controllers, Same
  <2> HIDE DEF f
  <2>5. Same(f, c)
    BY <2>2, <2>4 DEF Same
  <2> QED
    BY <1>1, <1>5, <2>1, <2>4, <2>5, Carried
<1>6. CASE c.phase = "Connecting" /\ ~CanRetry(d)
  <2> DEFINE n == [d EXCEPT !.pos = @ + 1]
  <2>1. x = ConnectCurrent(n)
    BY <1>6 DEF AttemptTimeout, When
  <2> HIDE DEF d
  <2>2. d.pos + 1 \in Nat
    BY <1>3 DEF Sound, Controllers
  <2>3. n \in Controllers
    BY <1>3, <2>2, Zenon DEF Sound, Controllers
  <2>4. Sound(n) /\ n.phase = d.phase /\ n.wanted = d.wanted
    BY <1>3, <2>3 DEF Sound, Controllers
  <2> HIDE DEF n
  <2>5. n.phase = "Connecting" /\ n.wanted # "no"
    BY <1>1, <1>3, <1>6, <2>4 DEF Same
  <2> QED
    BY <2>1, <2>4, <2>5, ConnectCurrentSafe
<1> QED
  BY <1>4, <1>5, <1>6

\* The traffic timer of a pool: the next address, or the end
LEMMA IpTrafficTimeoutSafe ==
    ASSUME NEW c, Safe(c), NEW x \in IpTrafficTimeout(c)
    PROVE  Safe(x)
<1> DEFINE d == [c EXCEPT !.ipTimer = FALSE, !.ipAwaiting = FALSE]
<1>1. Sound(c)
  BY DEF Safe
<1>2. d \in Controllers
  BY <1>1, Zenon DEF Sound, Controllers
<1>3. /\ Sound(d) /\ Same(d, c) /\ d.poolPos = c.poolPos
      /\ d.attemptTimer = c.attemptTimer /\ d.calls = c.calls
  BY <1>1, <1>2 DEF Sound, Controllers, Same
<1>4. \/ x = d
      \/ CanRetry(d) /\ x = Retry(d)
      \/ x = ReportError(Disconnect(ResetIpPool(d)))
  BY DEF IpTrafficTimeout, When
<1> HIDE DEF d
<1>5. Safe(d)
  BY <1>3, Carried DEF Safe, Tried, Cancelled, ConnectsNot
<1>6. Safe(Disconnect(ResetIpPool(d)))
  BY <1>5, ResetIpPoolSafe, DisconnectSafe
<1> QED
  BY <1>4, <1>5, <1>6, RetrySafe, ReportErrorSafe

\* The manual watchdog: the next address, or the end
LEMMA ManualTimeoutSafe ==
    ASSUME NEW c, Safe(c), NEW x \in ManualTimeout(c)
    PROVE  Safe(x)
<1> DEFINE d == [c EXCEPT !.manualTimer = FALSE]
           r == ResetIpPool(d)
           e == [r EXCEPT !.inProgress = FALSE]
<1>1. Sound(c)
  BY DEF Safe
<1>2. d \in Controllers
  BY <1>1, Zenon DEF Sound, Controllers
<1>3. /\ Sound(d) /\ Same(d, c) /\ d.poolPos = c.poolPos
      /\ d.attemptTimer = c.attemptTimer /\ d.calls = c.calls
  BY <1>1, <1>2 DEF Sound, Controllers, Same
<1>4. \/ CanRetry(d) /\ x = Retry(d)
      \/ x = ReportError(Disconnect(e))
  BY DEF ManualTimeout, When
<1> HIDE DEF d
<1>5. Safe(d)
  BY <1>3, Carried DEF Safe, Tried, Cancelled, ConnectsNot
<1>6. Safe(r) /\ Sound(r)
  BY <1>5, ResetIpPoolSafe DEF Safe
<1> HIDE DEF r
<1>7. e \in Controllers
  BY <1>6, Zenon DEF Sound, Controllers
<1>8. /\ Sound(e) /\ Same(e, r) /\ e.poolPos = r.poolPos
      /\ e.attemptTimer = r.attemptTimer /\ e.calls = r.calls
  BY <1>6, <1>7 DEF Sound, Controllers, Same
<1> HIDE DEF e
<1>9. Safe(e)
  BY <1>6, <1>8, Carried DEF Safe, Tried, Cancelled, ConnectsNot
<1>10. Safe(Disconnect(e))
  BY <1>9, DisconnectSafe
<1> QED
  BY <1>4, <1>5, <1>10, RetrySafe, ReportErrorSafe

\* Received bytes end a wait for traffic.
LEMMA BytesReceivedSafe ==
    ASSUME NEW c, Safe(c), NEW x \in BytesReceived(c)
    PROVE  Safe(x)
<1>1. Sound(c) /\ (c.phase # "None" => c.wanted # "no")
  BY DEF Safe, Cancelled
<1>2. \/ c.phase = "Connecting" /\ x = FinalizeAutoSuccess(c)
      \/ x = ResetIpPool(c)
  BY DEF BytesReceived, When
<1> QED
  BY <1>1, <1>2, FinalizeAutoSuccessSafe, ResetIpPoolSafe

---------------------------------------------------------------------------
(* The invariant and the theorems                                          *)

\* The calls of a handler leave the controller for the queue.
LEMMA EmptiedSafe ==
    ASSUME NEW c, Safe(c)
    PROVE  /\ Safe([c EXCEPT !.calls = <<>>]) /\ [c EXCEPT !.calls = <<>>].calls = <<>>
           /\ [c EXCEPT !.calls = <<>>].connected = c.connected
           /\ [c EXCEPT !.calls = <<>>].state = c.state
<1> DEFINE d == [c EXCEPT !.calls = <<>>]
<1>1. Sound(c) /\ <<>> \in Seq(Rows \cup {DisconnectCall})
  BY DEF Safe
<1>2. d \in Controllers
  BY <1>1, Zenon DEF Sound, Controllers
<1>3. /\ Sound(d) /\ Same(d, c) /\ d.poolPos = c.poolPos
      /\ d.attemptTimer = c.attemptTimer /\ d.calls = <<>>
      /\ d.connected = c.connected /\ d.state = c.state
  BY <1>1, <1>2 DEF Sound, Controllers, Same
<1> HIDE DEF d
<1>4. ConnectsNot(d)
  BY <1>3 DEF ConnectsNot
<1>5. Safe(d)
  BY <1>3, <1>4, Carried DEF Safe, Tried, Cancelled
<1> QED
  BY <1>3, <1>5 DEF d

\* An event starts with nothing queued.
LEMMA NowSafe ==
    ASSUME Safe(ctl)
    PROVE  Safe(Now) /\ ConnectsNot(Now)
<1>1. Safe(Now) /\ Now.calls = <<>>
  BY EmptiedSafe DEF Now
<1> QED
  BY <1>1 DEF ConnectsNot

\* The controller starts without a search, a pool or a call.
LEMMA InitSafe == Init => Safe(ctl)
<1> SUFFICES ASSUME Init
             PROVE  Safe(ctl)
  OBVIOUS
<1>1. /\ ctl.phase = "None" /\ ctl.poolPos = 0 /\ ctl.installs = 0 /\ ctl.calls = <<>>
      /\ ctl.ipAwaiting = FALSE
  BY Zenon DEF Init
<1>2. ctl \in Controllers
  <2>1. /\ {"None"} \subseteq {"None", "Probing", "Connecting"}
        /\ {<<>>} \subseteq Seq(Rows) /\ {<<>>} \subseteq Seq(Rows \cup {DisconnectCall})
        /\ {0} \subseteq Nat /\ {FALSE} \subseteq BOOLEAN /\ {0} \subseteq Rows \cup {0}
        /\ {"Disconnected"} \subseteq ConnectionState /\ {"no"} \subseteq {"yes", "no", "late"}
    BY DEF ConnectionState
  <2> QED
    BY <2>1, ZenonT(60) DEF Init, Controllers
<1>3. ConnectsNot(ctl)
  BY <1>1 DEF ConnectsNot
<1> QED
  BY <1>1, <1>2, <1>3 DEF Safe, Sound, Tried, Probed, Cancelled

\* Every event keeps the invariant.
LEMMA NextSafe == Safe(ctl) /\ [Next]_ctl => Safe(ctl')
<1> SUFFICES ASSUME Safe(ctl), [Next]_ctl
             PROVE  Safe(ctl')
  OBVIOUS
<1>1. Safe(Now) /\ ConnectsNot(Now)
  BY NowSafe
<1>2. CASE User
  <2>1. \/ ctl' \in ToggleConnection(Now)
        \/ ctl' \in ChooseServer(Now)
        \/ ctl' \in ChooseAuto(Now)
        \/ ctl' \in TrayConnect(Now) \cup TrayDisconnect(Now)
        \/ ctl' \in TranslationsUpdated(Now)
    BY <1>2 DEF User, Step
  <2> QED
    BY <1>1, <2>1, ToggleConnectionSafe, ChooseServerSafe, ChooseAutoSafe, TraySafe,
       TranslationsUpdatedSafe
<1>3. CASE DeliverState
  <2>1. PICK state \in ConnectionState : ctl' = Announce(Now, state)
    BY <1>3 DEF DeliverState, Step
  <2> QED
    BY <1>1, <2>1, AnnounceSafe
<1>4. CASE Step(BytesReceived(Now))
  BY <1>1, <1>4, BytesReceivedSafe DEF Step
<1>5. CASE Step(HealthUpdated(Now)) \/ Step(ProbingFinished(Now)) \/ Step(ProbeTimeout(Now))
  <2>1. ctl' \in HealthUpdated(Now) \cup ProbingFinished(Now) \cup ProbeTimeout(Now)
    BY <1>5 DEF Step
  <2> QED
    BY <1>1, <2>1, ProbeEventsSafe
<1>6. CASE Step(InstallsDone(Now))
  BY <1>1, <1>6, InstallsDoneSafe DEF Step
<1>7. CASE Step(AttemptTimeout(Now))
  BY <1>1, <1>7, AttemptTimeoutSafe DEF Step
<1>8. CASE Step(IpTrafficTimeout(Now))
  BY <1>1, <1>8, IpTrafficTimeoutSafe DEF Step
<1>9. CASE Step(ManualTimeout(Now))
  BY <1>1, <1>9, ManualTimeoutSafe DEF Step
<1>10. CASE UNCHANGED ctl
  BY <1>10
<1> QED
  BY <1>2, <1>3, <1>4, <1>5, <1>6, <1>7, <1>8, <1>9, <1>10 DEF Next

\* The invariant holds always.
LEMMA SafeAlways == Spec => []Safe(ctl)
<1>1. Safe(ctl) /\ [Next]_ctl => Safe(ctl)'
  BY NextSafe
<1> QED
  BY <1>1, InitSafe, PTL DEF Spec

\* For any server list and any pools: the controller has its type and
\* m_ipPool.at(m_ipPoolPos) is in range.
THEOREM PoolInRange == Spec => []TypeOK
<1>1. Safe(ctl) => TypeOK
  BY DEF Safe, Sound, TypeOK
<1> QED
  BY <1>1, SafeAlways, PTL

\* For any server list, any pools and any behaviour of the VPN thread: whatever
\* the controller waits for, a timer or a request to the gateway is pending.
THEOREM WatchedAlways == Spec => []WaitsWatched
<1>1. Safe(ctl) => WaitsWatched
  BY DEF Safe, Sound, Tried, Probed, WaitsWatched
<1> QED
  BY <1>1, SafeAlways, PTL

\* For any server list, any pools and any behaviour of the VPN thread: after a
\* cancel nothing connects until the user asks again.
THEOREM CancelledForGood == Spec => []CancelIsFinal
<1>1. Safe(ctl) => CancelIsFinal
  BY DEF Safe, Cancelled, CancelIsFinal
<1> QED
  BY <1>1, SafeAlways, PTL

---------------------------------------------------------------------------
(* What the user is shown, event by event.  A controller is described by   *)
(* the fields that matter here.                                            *)

CtlFields ==
    {"phase", "candidates", "pos", "advancing", "awaiting", "listening", "installs",
     "probeTimer", "attemptTimer", "poolRow", "poolPos", "ipAwaiting", "ipTimer",
     "switching", "manualTimer", "state", "connected", "inProgress", "tray", "auto",
     "defaultRow", "wanted", "calls"}

Formed(c) ==
    /\ DOMAIN c = CtlFields
    /\ c.calls \in Seq(Rows \cup {DisconnectCall})
    /\ c.candidates \in Seq(Rows) /\ c.pos \in Nat /\ c.defaultRow \in Rows
    /\ c.poolPos \in Nat /\ (c.poolPos > 0 => c.poolRow \in Rows)

\* A controller that differs from c in nothing that the user sees
Alike(d, c) == Formed(d) /\ d.connected = c.connected /\ d.state = c.state

\* A state other than Connected has been shown: if the client still shows that
\* it is connected, it is about to connect.
Shown(d, c) ==
    /\ Formed(d)
    /\ d.connected => c.connected /\ ~ConnectsNot(d)
    /\ d.state # "Connected"
    /\ c.calls # <<>> => d.calls # <<>>

\* Safe controllers are formed.
LEMMA SafeFormed ==
    ASSUME NEW c, Safe(c)
    PROVE  Formed(c)
<1>1. c \in Controllers /\ (c.poolPos > 0 => c.poolRow \in Rows)
  BY DEF Safe, Sound
<1>2. DOMAIN c = CtlFields
  BY <1>1 DEF Controllers, CtlFields
<1>3. /\ c.calls \in Seq(Rows \cup {DisconnectCall}) /\ c.candidates \in Seq(Rows)
      /\ c.pos \in Nat /\ c.defaultRow \in Rows /\ c.poolPos \in Nat
  BY <1>1 DEF Controllers
<1> QED
  BY <1>1, <1>2, <1>3 DEF Formed

\* resetIpPool() shows and queues nothing.
LEMMA ResetIpPoolAlike ==
    ASSUME NEW c, Formed(c)
    PROVE  /\ Alike(ResetIpPool(c), c) /\ ResetIpPool(c).calls = c.calls
           /\ ResetIpPool(c).candidates = c.candidates /\ ResetIpPool(c).pos = c.pos
           /\ ResetIpPool(c).poolPos = 0
<1> DEFINE d == ResetIpPool(c)
<1>1. /\ DOMAIN d = CtlFields /\ d.poolPos = 0 /\ d.calls = c.calls
      /\ d.candidates = c.candidates /\ d.pos = c.pos /\ d.defaultRow = c.defaultRow
      /\ d.connected = c.connected /\ d.state = c.state
  BY DEF ResetIpPool, Formed, CtlFields
<1> HIDE DEF d
<1>2. Formed(d)
  BY <1>1 DEF Formed
<1> QED
  BY <1>1, <1>2 DEF Alike, d

\* A queued call
LEMMA CallQueued ==
    ASSUME NEW c, Formed(c), NEW row \in Rows, NEW d, d.calls = Append(c.calls, row)
    PROVE  d.calls \in Seq(Rows \cup {DisconnectCall}) /\ ~ConnectsNot(d) /\ d.calls # <<>>
<1>1. c.calls \in Seq(Rows \cup {DisconnectCall}) /\ row # DisconnectCall
  BY RowsAssumption DEF Formed, DisconnectCall
<1>2. /\ d.calls \in Seq(Rows \cup {DisconnectCall}) /\ Len(d.calls) = Len(c.calls) + 1
      /\ d.calls[Len(c.calls) + 1] = row
  BY <1>1
<1>3. Len(c.calls) + 1 \in DOMAIN d.calls
  BY <1>1, <1>2
<1> QED
  BY <1>1, <1>2, <1>3 DEF ConnectsNot

\* connectToServerIndexWithIp() shows nothing and queues a connect.
LEMMA ConnectWithIpAlike ==
    ASSUME NEW c, Formed(c), NEW row \in Rows
    PROVE  /\ Alike(ConnectWithIp(c, row), c) /\ ~ConnectsNot(ConnectWithIp(c, row))
           /\ ConnectWithIp(c, row).calls # <<>>
<1> DEFINE d == ConnectWithIp(c, row)
<1>1. /\ DOMAIN d = CtlFields /\ d.poolPos = c.poolPos /\ d.poolRow = c.poolRow
      /\ d.calls = Append(c.calls, row)
      /\ d.candidates = c.candidates /\ d.pos = c.pos /\ d.defaultRow = c.defaultRow
      /\ d.connected = c.connected /\ d.state = c.state
  BY DEF ConnectWithIp, Formed, CtlFields
<1> HIDE DEF d
<1>2. d.calls \in Seq(Rows \cup {DisconnectCall}) /\ ~ConnectsNot(d) /\ d.calls # <<>>
  BY <1>1, CallQueued, Zenon
<1>3. Formed(d)
  BY <1>1, <1>2 DEF Formed
<1> QED
  BY <1>1, <1>2, <1>3 DEF Alike, d

\* So does connectToServerIndex().
LEMMA ConnectToServerAlike ==
    ASSUME NEW c, Formed(c), NEW row \in Rows
    PROVE  /\ Alike(ConnectToServer(c, row), c) /\ ~ConnectsNot(ConnectToServer(c, row))
           /\ ConnectToServer(c, row).calls # <<>>
<1> DEFINE p == [c EXCEPT !.poolRow = row, !.poolPos = 1]
<1>1. /\ DOMAIN p = CtlFields /\ p.poolPos = 1 /\ p.poolRow = row /\ p.calls = c.calls
      /\ p.candidates = c.candidates /\ p.pos = c.pos /\ p.defaultRow = c.defaultRow
      /\ p.connected = c.connected /\ p.state = c.state
  BY DEF Formed, CtlFields
<1>2. ConnectToServer(c, row) = ConnectWithIp(IF PoolSize[row] > 1 THEN p ELSE ResetIpPool(c), row)
  BY DEF ConnectToServer
<1> HIDE DEF p
<1>3. Alike(p, c)
  BY <1>1 DEF Formed, Alike
<1>4. PICK e : /\ e = IF PoolSize[row] > 1 THEN p ELSE ResetIpPool(c)
  OBVIOUS
<1>5. Alike(e, c)
  BY <1>3, <1>4, ResetIpPoolAlike
<1>6. /\ Alike(ConnectWithIp(e, row), e) /\ ~ConnectsNot(ConnectWithIp(e, row))
      /\ ConnectWithIp(e, row).calls # <<>>
  BY <1>5, ConnectWithIpAlike DEF Alike
<1> QED
  BY <1>2, <1>4, <1>5, <1>6 DEF Alike

\* And retryWithNextIp().
LEMMA RetryAlike ==
    ASSUME NEW c, Formed(c), CanRetry(c)
    PROVE  /\ Alike(Retry(c), c) /\ ~ConnectsNot(Retry(c)) /\ Retry(c).calls # <<>>
<1> DEFINE p == [c EXCEPT !.poolPos = @ + 1, !.ipAwaiting = FALSE, !.ipTimer = FALSE]
           e == ConnectWithIp(p, c.poolRow)
           f == [e EXCEPT !.advancing = TRUE, !.attemptTimer = TRUE]
<1>1. c.poolRow \in Rows /\ c.poolPos + 1 \in Nat
  BY DEF Formed, CanRetry
<1>2. /\ DOMAIN p = CtlFields /\ p.poolPos = c.poolPos + 1 /\ p.poolRow = c.poolRow
      /\ p.calls = c.calls /\ p.candidates = c.candidates /\ p.pos = c.pos
      /\ p.defaultRow = c.defaultRow /\ p.connected = c.connected /\ p.state = c.state
  BY DEF Formed, CtlFields
<1>3. Retry(c) = IF c.phase = "Connecting" THEN f ELSE e
  BY DEF Retry
<1> HIDE DEF p
<1>4. Formed(p)
  BY <1>1, <1>2 DEF Formed
<1>5. Alike(e, p) /\ ~ConnectsNot(e) /\ e.calls # <<>>
  BY <1>1, <1>4, ConnectWithIpAlike
<1> HIDE DEF e
<1>6. /\ DOMAIN f = CtlFields /\ f.poolPos = e.poolPos /\ f.poolRow = e.poolRow
      /\ f.calls = e.calls /\ f.candidates = e.candidates /\ f.pos = e.pos
      /\ f.defaultRow = e.defaultRow /\ f.connected = e.connected /\ f.state = e.state
  BY <1>5 DEF Alike, Formed, CtlFields
<1> HIDE DEF f
<1>7. Alike(f, e) /\ ~ConnectsNot(f) /\ f.calls # <<>>
  BY <1>5, <1>6 DEF Alike, Formed, ConnectsNot
<1> QED
  BY <1>2, <1>3, <1>5, <1>7 DEF Alike

\* disconnectFromVpn() is queued, and nothing is shown.
LEMMA DisconnectAlike ==
    ASSUME NEW c, Formed(c)
    PROVE  /\ Alike(Disconnect(c), c) /\ Disconnect(c).calls # <<>>
           /\ Disconnect(c).poolPos = c.poolPos
<1> DEFINE d == Disconnect(c)
<1>1. /\ DOMAIN d = CtlFields /\ d.poolPos = c.poolPos /\ d.poolRow = c.poolRow
      /\ d.calls = Append(c.calls, DisconnectCall)
      /\ d.candidates = c.candidates /\ d.pos = c.pos /\ d.defaultRow = c.defaultRow
      /\ d.connected = c.connected /\ d.state = c.state
  BY DEF Disconnect, Formed, CtlFields
<1> HIDE DEF d
<1>2. d.calls \in Seq(Rows \cup {DisconnectCall}) /\ d.calls # <<>>
  BY <1>1, SMTT(30) DEF Formed
<1>3. Formed(d)
  BY <1>1, <1>2 DEF Formed
<1> QED
  BY <1>1, <1>2, <1>3 DEF Alike, d

\* The switch at the end of onConnectionStateChanged()
LEMMA DisplayShows ==
    ASSUME NEW c, Formed(c), NEW state
    PROVE  /\ Formed(Display(c, state)) /\ Display(c, state).calls = c.calls
           /\ Display(c, state).state = state
           /\ Display(c, state).connected <=> state = "Connected"
           /\ Display(c, state).pos = c.pos /\ Display(c, state).candidates = c.candidates
<1> DEFINE d == Display(c, state)
<1>1. PICK up \in BOOLEAN : up = (state = "Connected")
  BY Zenon
<1>2. d = [c EXCEPT !.state = state, !.connected = up,
                    !.inProgress = state \in InProgress, !.manualTimer = Watchdog(c, state)]
  BY <1>1, Zenon DEF Display
<1> HIDE DEF d
<1>3. /\ DOMAIN d = CtlFields /\ d.poolPos = c.poolPos /\ d.poolRow = c.poolRow
      /\ d.calls = c.calls
      /\ d.candidates = c.candidates /\ d.pos = c.pos /\ d.defaultRow = c.defaultRow
      /\ d.connected = up /\ d.state = state
  BY <1>2 DEF Formed, CtlFields
<1>4. Formed(d)
  BY <1>3 DEF Formed
<1> QED
  BY <1>1, <1>3, <1>4, Zenon DEF d

\* What the tray shows is set at the end of many branches.
LEMMA TraySet ==
    ASSUME NEW d, Formed(d), NEW s
    PROVE  Alike([d EXCEPT !.tray = s], d) /\ [d EXCEPT !.tray = s].calls = d.calls
<1> DEFINE e == [d EXCEPT !.tray = s]
<1>1. /\ DOMAIN e = CtlFields /\ e.poolPos = d.poolPos /\ e.poolRow = d.poolRow
      /\ e.calls = d.calls /\ e.candidates = d.candidates /\ e.pos = d.pos
      /\ e.defaultRow = d.defaultRow /\ e.connected = d.connected /\ e.state = d.state
  BY DEF Formed, CtlFields
<1> HIDE DEF e
<1>2. Alike(e, d) /\ e.calls = d.calls
  BY <1>1 DEF Formed, Alike
<1> QED
  BY <1>2 DEF e

\* A branch that returns before the display sets the state alone.
LEMMA StateSet ==
    ASSUME NEW d, Formed(d), NEW s
    PROVE  /\ Formed([d EXCEPT !.state = s]) /\ [d EXCEPT !.state = s].calls = d.calls
           /\ [d EXCEPT !.state = s].connected = d.connected /\ [d EXCEPT !.state = s].state = s
<1> DEFINE e == [d EXCEPT !.state = s]
<1>1. /\ DOMAIN e = CtlFields /\ e.poolPos = d.poolPos /\ e.poolRow = d.poolRow
      /\ e.calls = d.calls /\ e.candidates = d.candidates /\ e.pos = d.pos
      /\ e.defaultRow = d.defaultRow /\ e.connected = d.connected /\ e.state = s
  BY DEF Formed, CtlFields
<1> HIDE DEF e
<1>2. Formed(e)
  BY <1>1 DEF Formed
<1> QED
  BY <1>1, <1>2 DEF e

\* A retry that returns before the display
LEMMA RetryShown ==
    ASSUME NEW c, Formed(c), CanRetry(c), NEW state, state # "Connected"
    PROVE  Shown([Retry(c) EXCEPT !.state = state], c)
<1> DEFINE r == Retry(c)
           d == [r EXCEPT !.state = state]
<1>1. Alike(r, c) /\ ~ConnectsNot(r) /\ r.calls # <<>>
  BY RetryAlike
<1> HIDE DEF r
<1>2. Formed(d) /\ d.calls = r.calls /\ d.connected = r.connected /\ d.state = state
  BY <1>1, StateSet DEF Alike
<1> HIDE DEF d
<1>3. Shown(d, c)
  BY <1>1, <1>2 DEF Shown, Alike, ConnectsNot
<1> QED
  BY <1>3 DEF d, r

\* A state other than Connected that is displayed
LEMMA DisplayShown ==
    ASSUME NEW c, Formed(c), NEW state, state # "Connected"
    PROVE  Shown(Display(c, state), c) /\ Display(c, state).calls = c.calls
BY DisplayShows DEF Shown

\* What has been shown on the way from c to e, for a controller like c
LEMMA ShownFrom ==
    ASSUME NEW c, NEW d, NEW e, Shown(e, d),
           d.connected => c.connected, c.calls # <<>> => d.calls # <<>>
    PROVE  Shown(e, c)
BY DEF Shown

\* Disconnected outside the tries of a search
LEMMA IdleDisconnectedShown ==
    ASSUME NEW c, Formed(c)
    PROVE  Shown(IdleDisconnected(c), c)
<1>1. CASE c.poolPos > 0 /\ ~c.switching /\ CanRetry(c)
  <2>1. IdleDisconnected(c) = [Retry(c) EXCEPT !.state = "Disconnected"]
    BY <1>1 DEF IdleDisconnected
  <2> QED
    BY <1>1, <2>1, RetryShown
<1>2. CASE c.poolPos > 0 /\ ~c.switching /\ ~CanRetry(c)
  <2>1. IdleDisconnected(c) = Display(ResetIpPool(c), "Disconnected")
    BY <1>2 DEF IdleDisconnected
  <2>2. Alike(ResetIpPool(c), c) /\ ResetIpPool(c).calls = c.calls
    BY ResetIpPoolAlike
  <2>3. Shown(Display(ResetIpPool(c), "Disconnected"), ResetIpPool(c))
    BY <2>2, DisplayShown DEF Alike
  <2> QED
    BY <2>1, <2>2, <2>3 DEF Alike, Shown
<1>3. CASE ~(c.poolPos > 0 /\ ~c.switching)
  <2>1. IdleDisconnected(c) = Display(c, "Disconnected")
    BY <1>3 DEF IdleDisconnected
  <2> QED
    BY <2>1, DisplayShown
<1> QED
  BY <1>1, <1>2, <1>3

\* connectionErrorOccurred() outside the tries of a search
LEMMA IdleErrorShown ==
    ASSUME NEW c, Formed(c)
    PROVE  Shown(IdleError(c), c)
<1> DEFINE d == IdleDisconnected(c)
           e == [d EXCEPT !.tray = "Disconnected"]
<1>1. Shown(d, c)
  BY IdleDisconnectedShown
<1>2. IdleError(c) = e
  BY DEF IdleError
<1> HIDE DEF d
<1>3. Alike(e, d) /\ e.calls = d.calls
  BY <1>1, TraySet DEF Shown
<1> HIDE DEF e
<1> QED
  BY <1>1, <1>2, <1>3 DEF Shown, Alike, ConnectsNot

\* connectCurrentAutoCandidate() queues a call; it shows nothing, or the end of
\* the search.
LEMMA ConnectCurrentShown ==
    ASSUME NEW c, Formed(c)
    PROVE  /\ ConnectCurrent(c).calls # <<>>
           /\ \/ Shown(ConnectCurrent(c), c)
              \/ Alike(ConnectCurrent(c), c) /\ ~ConnectsNot(ConnectCurrent(c))
<1>1. CASE c.pos >= Len(c.candidates)
  <2> DEFINE e == [c EXCEPT !.phase = "None", !.advancing = FALSE,
                            !.awaiting = FALSE, !.inProgress = FALSE]
             d == Disconnect(e)
  <2>1. ConnectCurrent(c) = IdleError(d)
    BY <1>1 DEF ConnectCurrent
  <2>2. /\ DOMAIN e = CtlFields /\ e.poolPos = c.poolPos /\ e.poolRow = c.poolRow
        /\ e.calls = c.calls /\ e.candidates = c.candidates /\ e.pos = c.pos
        /\ e.defaultRow = c.defaultRow /\ e.connected = c.connected
    BY DEF Formed, CtlFields
  <2> HIDE DEF e
  <2>3. Formed(e)
    BY <2>2 DEF Formed
  <2>4. Alike(d, e) /\ d.calls # <<>>
    BY <2>3, DisconnectAlike
  <2> HIDE DEF d
  <2>5. Shown(IdleError(d), d)
    BY <2>4, IdleErrorShown DEF Alike
  <2> QED
    BY <2>1, <2>2, <2>4, <2>5 DEF Shown, Alike
<1>2. CASE ~(c.pos >= Len(c.candidates))
  <2> DEFINE e == [c EXCEPT !.advancing = TRUE, !.awaiting = FALSE]
             row == c.candidates[c.pos + 1]
             d == ConnectToServer(e, row)
             f == [d EXCEPT !.attemptTimer = TRUE]
  <2>1. ConnectCurrent(c) = f
    BY <1>2 DEF ConnectCurrent
  <2>2. row \in Rows
    BY <1>2 DEF Formed
  <2>3. /\ DOMAIN e = CtlFields /\ e.poolPos = c.poolPos /\ e.poolRow = c.poolRow
        /\ e.calls = c.calls /\ e.candidates = c.candidates /\ e.pos = c.pos
        /\ e.defaultRow = c.defaultRow /\ e.connected = c.connected /\ e.state = c.state
    BY DEF Formed, CtlFields
  <2> HIDE DEF e, row
  <2>4. Formed(e)
    BY <2>3 DEF Formed
  <2>5. Alike(d, e) /\ ~ConnectsNot(d) /\ d.calls # <<>>
    BY <2>2, <2>4, ConnectToServerAlike
  <2> HIDE DEF d
  <2>6. /\ DOMAIN f = CtlFields /\ f.poolPos = d.poolPos /\ f.poolRow = d.poolRow
        /\ f.calls = d.calls /\ f.candidates = d.candidates /\ f.pos = d.pos
        /\ f.defaultRow = d.defaultRow /\ f.connected = d.connected /\ f.state = d.state
    BY <2>5 DEF Alike, Formed, CtlFields
  <2> HIDE DEF f
  <2>7. Formed(f)
    BY <2>5, <2>6 DEF Alike, Formed
  <2>8. Alike(f, c) /\ ~ConnectsNot(f) /\ f.calls # <<>>
    BY <2>3, <2>5, <2>6, <2>7 DEF Alike, ConnectsNot
  <2> QED
    BY <2>1, <2>8
<1> QED
  BY <1>1, <1>2

\* A candidate that fails: the next address, the next candidate or the end of
\* the search
LEMMA CandidateFailedShown ==
    ASSUME NEW c, Formed(c), NEW state, state # "Connected"
    PROVE  Shown(CandidateFailed(c, state), c)
<1> DEFINE d    == [c EXCEPT !.attemptTimer = FALSE, !.awaiting = @ /\ state # "Reconnecting"]
           next == [d EXCEPT !.pos = @ + 1]
           over == [next EXCEPT !.phase = "None"]
           shut == [over EXCEPT !.advancing = FALSE, !.candidates = <<>>, !.inProgress = FALSE]
           try  == [next EXCEPT !.state = state]
<1>1. CandidateFailed(c, state) =
        IF CanRetry(d) THEN [Retry(d) EXCEPT !.state = state]
        ELSE IF next.pos < Len(c.candidates) THEN ConnectCurrent(try)
        ELSE IF state = "Reconnecting" THEN IdleError(Disconnect(shut))
        ELSE IF state = "Disconnected" THEN IdleError(shut)
        ELSE IdleError(Display(over, state))
  BY DEF CandidateFailed
<1>2. /\ DOMAIN d = CtlFields /\ d.poolPos = c.poolPos /\ d.poolRow = c.poolRow
      /\ d.calls = c.calls /\ d.candidates = c.candidates /\ d.pos = c.pos
      /\ d.defaultRow = c.defaultRow /\ d.connected = c.connected /\ d.state = c.state
  BY DEF Formed, CtlFields
<1> HIDE DEF d
<1>3. /\ DOMAIN next = CtlFields /\ next.poolPos = d.poolPos /\ next.poolRow = d.poolRow
      /\ next.calls = d.calls /\ next.candidates = d.candidates /\ next.pos = d.pos + 1
      /\ next.defaultRow = d.defaultRow /\ next.connected = d.connected
  BY <1>2 DEF CtlFields
<1> HIDE DEF next
<1>4. Formed(d) /\ Formed(next)
  BY <1>2, <1>3 DEF Formed
<1>5. /\ DOMAIN over = CtlFields /\ over.poolPos = next.poolPos /\ over.poolRow = next.poolRow
      /\ over.calls = next.calls /\ over.candidates = next.candidates /\ over.pos = next.pos
      /\ over.defaultRow = next.defaultRow /\ over.connected = next.connected
  BY <1>3 DEF CtlFields
<1> HIDE DEF over
<1>6. /\ DOMAIN shut = CtlFields /\ shut.poolPos = over.poolPos /\ shut.poolRow = over.poolRow
      /\ shut.calls = over.calls /\ shut.candidates = <<>> /\ shut.pos = over.pos
      /\ shut.defaultRow = over.defaultRow /\ shut.connected = over.connected
  BY <1>5 DEF CtlFields
<1> HIDE DEF shut
<1>7. Formed(over)
  BY <1>4, <1>5 DEF Formed
<1>8. Formed(shut)
  BY <1>6, <1>7 DEF Formed
<1>9. Formed(try) /\ try.calls = next.calls /\ try.connected = next.connected /\ try.state = state
  BY <1>4, StateSet
<1> HIDE DEF try
<1>10. CASE CanRetry(d)
  <2>1. Shown([Retry(d) EXCEPT !.state = state], d)
    BY <1>4, <1>10, RetryShown
  <2> QED
    BY <1>1, <1>2, <1>10, <2>1 DEF Shown
<1>11. CASE ~CanRetry(d) /\ next.pos < Len(c.candidates)
  <2>1. \/ Shown(ConnectCurrent(try), try)
        \/ Alike(ConnectCurrent(try), try) /\ ~ConnectsNot(ConnectCurrent(try))
    BY <1>9, ConnectCurrentShown
  <2>2. ConnectCurrent(try).calls # <<>>
    BY <1>9, ConnectCurrentShown
  <2>3. Shown(ConnectCurrent(try), c)
    BY <1>2, <1>3, <1>9, <2>1, <2>2 DEF Shown, Alike
  <2> QED
    BY <1>1, <1>11, <2>3
<1>12. CASE ~CanRetry(d) /\ ~(next.pos < Len(c.candidates)) /\ state = "Reconnecting"
  <2>1. Alike(Disconnect(shut), shut) /\ Disconnect(shut).calls # <<>>
    BY <1>8, DisconnectAlike
  <2>2. Shown(IdleError(Disconnect(shut)), Disconnect(shut))
    BY <2>1, IdleErrorShown DEF Alike
  <2>3. Shown(IdleError(Disconnect(shut)), c)
    BY <1>2, <1>3, <1>5, <1>6, <2>1, <2>2, ShownFrom DEF Alike
  <2> QED
    BY <1>1, <1>12, <2>3
<1>13. CASE ~CanRetry(d) /\ ~(next.pos < Len(c.candidates)) /\ state = "Disconnected"
  <2>1. Shown(IdleError(shut), shut)
    BY <1>8, IdleErrorShown
  <2>2. Shown(IdleError(shut), c)
    BY <1>2, <1>3, <1>5, <1>6, <2>1, ShownFrom
  <2> QED
    BY <1>1, <1>13, <2>2
<1>14. CASE /\ ~CanRetry(d) /\ ~(next.pos < Len(c.candidates))
            /\ state # "Reconnecting" /\ state # "Disconnected"
  <2>1. Shown(Display(over, state), over)
    BY <1>7, DisplayShown
  <2>2. Shown(IdleError(Display(over, state)), Display(over, state))
    BY <2>1, IdleErrorShown, SMTT(30) DEF Shown
  <2>3. Shown(IdleError(Display(over, state)), c)
    BY <1>2, <1>3, <1>5, <2>1, <2>2, SMTT(30) DEF Shown
  <2> QED
    BY <1>1, <1>14, <2>3
<1> QED
  BY <1>10, <1>11, <1>12, <1>13, <1>14

\* Connected has been shown.
Up(d) == d.connected /\ d.state = "Connected"

\* The end of a search shows and queues nothing.
LEMMA FinalizeAlike ==
    ASSUME NEW c, Formed(c)
    PROVE  Alike(FinalizeAutoSuccess(c), c) /\ FinalizeAutoSuccess(c).calls = c.calls
<1>1. PICK row \in Rows : row = IF c.pos < Len(c.candidates)
                                THEN c.candidates[c.pos + 1] ELSE c.defaultRow
  BY DEF Formed
<1> DEFINE e == [c EXCEPT !.attemptTimer = FALSE, !.awaiting = FALSE, !.phase = "None",
                          !.advancing = FALSE, !.candidates = <<>>, !.defaultRow = row]
<1>2. FinalizeAutoSuccess(c) = ResetIpPool(e)
  BY <1>1, Zenon DEF FinalizeAutoSuccess
<1>3. /\ DOMAIN e = CtlFields /\ e.poolPos = c.poolPos /\ e.poolRow = c.poolRow
      /\ e.calls = c.calls /\ e.candidates = <<>> /\ e.pos = c.pos
      /\ e.defaultRow = row /\ e.connected = c.connected /\ e.state = c.state
  BY DEF Formed, CtlFields
<1> HIDE DEF e
<1>4. Formed(e)
  BY <1>3 DEF Formed
<1>5. Alike(ResetIpPool(e), e) /\ ResetIpPool(e).calls = e.calls
  BY <1>4, ResetIpPoolAlike
<1> QED
  BY <1>2, <1>3, <1>5 DEF Alike

\* Connected during the tries of a search is shown.
LEMMA CandidateConnectedUp ==
    ASSUME NEW c, Formed(c)
    PROVE  /\ Formed(CandidateConnected(c)) /\ Up(CandidateConnected(c))
           /\ CandidateConnected(c).calls = c.calls
<1> DEFINE a == FinalizeAutoSuccess(c)
           e == [c EXCEPT !.awaiting = TRUE, !.attemptTimer = TRUE]
           d == Display(e, "Connected")
<1>1. Formed(a) /\ a.calls = c.calls
  BY FinalizeAlike DEF Alike
<1>2. /\ DOMAIN e = CtlFields /\ e.poolPos = c.poolPos /\ e.poolRow = c.poolRow
      /\ e.calls = c.calls /\ e.candidates = c.candidates /\ e.pos = c.pos
      /\ e.defaultRow = c.defaultRow
  BY DEF Formed, CtlFields
<1>3. CandidateConnected(c) \in {Display(a, "Connected"), FinalizeAutoSuccess(d), d}
  BY DEF CandidateConnected
<1> HIDE DEF a, e
<1>4. Formed(e)
  BY <1>2 DEF Formed
<1>5. Formed(d) /\ Up(d) /\ d.calls = c.calls
  BY <1>2, <1>4, DisplayShows DEF Up
<1>6. /\ Formed(Display(a, "Connected")) /\ Up(Display(a, "Connected"))
      /\ Display(a, "Connected").calls = c.calls
  BY <1>1, DisplayShows DEF Up
<1> HIDE DEF d
<1>7. /\ Formed(FinalizeAutoSuccess(d)) /\ Up(FinalizeAutoSuccess(d))
      /\ FinalizeAutoSuccess(d).calls = c.calls
  BY <1>5, FinalizeAlike DEF Alike, Up
<1> QED
  BY <1>3, <1>5, <1>6, <1>7

\* Connected with a pool is shown.
LEMMA PoolConnectedUp ==
    ASSUME NEW c, Formed(c)
    PROVE  /\ Formed(PoolState(c, "Connected")) /\ Up(PoolState(c, "Connected"))
           /\ PoolState(c, "Connected").calls = c.calls
<1> DEFINE e == [c EXCEPT !.ipAwaiting = TRUE, !.ipTimer = TRUE]
<1>1. PoolState(c, "Connected") =
        Display(IF c.poolRow \in WireGuard THEN ResetIpPool(c) ELSE e, "Connected")
  BY DEF PoolState
<1>2. /\ DOMAIN e = CtlFields /\ e.poolPos = c.poolPos /\ e.poolRow = c.poolRow
      /\ e.calls = c.calls /\ e.candidates = c.candidates /\ e.pos = c.pos
      /\ e.defaultRow = c.defaultRow
  BY DEF Formed, CtlFields
<1> HIDE DEF e
<1>3. Formed(e)
  BY <1>2 DEF Formed
<1>4. PICK d : d = IF c.poolRow \in WireGuard THEN ResetIpPool(c) ELSE e
  OBVIOUS
<1>5. Formed(d) /\ d.calls = c.calls
  BY <1>2, <1>3, <1>4, ResetIpPoolAlike DEF Alike
<1> QED
  BY <1>1, <1>4, <1>5, DisplayShows DEF Up

\* Another state with a pool
LEMMA PoolStateShown ==
    ASSUME NEW c, Formed(c), NEW state, state # "Connected"
    PROVE  Shown(PoolState(c, state), c)
<1>1. Alike(ResetIpPool(c), c) /\ ResetIpPool(c).calls = c.calls
  BY ResetIpPoolAlike
<1>2. CASE state = "Reconnecting" /\ CanRetry(c)
  <2> DEFINE q == [c EXCEPT !.ipAwaiting = FALSE, !.ipTimer = FALSE]
  <2>1. PoolState(c, state) = [Retry(q) EXCEPT !.state = state]
    BY <1>2 DEF PoolState
  <2>2. /\ DOMAIN q = CtlFields /\ q.poolPos = c.poolPos /\ q.poolRow = c.poolRow
        /\ q.calls = c.calls /\ q.candidates = c.candidates /\ q.pos = c.pos
        /\ q.defaultRow = c.defaultRow /\ q.connected = c.connected
    BY DEF Formed, CtlFields
  <2> HIDE DEF q
  <2>3. Formed(q) /\ CanRetry(q)
    BY <1>2, <2>2 DEF Formed, CanRetry
  <2>4. Shown([Retry(q) EXCEPT !.state = state], q)
    BY <2>3, RetryShown, SMTT(30)
  <2> QED
    BY <2>1, <2>2, <2>4, ShownFrom
<1>3. CASE state = "Reconnecting" /\ ~CanRetry(c)
  <2> DEFINE r == ResetIpPool(c)
             q == [r EXCEPT !.manualTimer = FALSE, !.inProgress = FALSE]
  <2>1. PoolState(c, state) = IdleError(Disconnect(q))
    BY <1>3 DEF PoolState
  <2> HIDE DEF r
  <2>2. Alike(r, c) /\ r.calls = c.calls
    BY <1>1 DEF r
  <2>3. /\ DOMAIN q = CtlFields /\ q.poolPos = r.poolPos /\ q.poolRow = r.poolRow
        /\ q.calls = r.calls /\ q.candidates = r.candidates /\ q.pos = r.pos
        /\ q.defaultRow = r.defaultRow /\ q.connected = r.connected
    BY <2>2 DEF Formed, CtlFields, Alike
  <2> HIDE DEF q
  <2>4. Formed(q)
    BY <2>2, <2>3 DEF Formed, Alike
  <2>5. Alike(Disconnect(q), q) /\ Disconnect(q).calls # <<>>
    BY <2>4, DisconnectAlike
  <2>6. Shown(IdleError(Disconnect(q)), Disconnect(q))
    BY <2>5, IdleErrorShown DEF Alike
  <2> QED
    BY <2>1, <2>2, <2>3, <2>5, <2>6, ShownFrom DEF Alike
<1>4. CASE state \in {"Error", "Unknown"} /\ CanRetry(c)
  <2>1. PoolState(c, state) = [Retry(c) EXCEPT !.state = state]
    BY <1>4 DEF PoolState
  <2> QED
    BY <1>4, <2>1, RetryShown
<1>5. CASE state \in {"Error", "Unknown"} /\ ~CanRetry(c)
  <2>1. PoolState(c, state) = IdleError(Display(ResetIpPool(c), state))
    BY <1>5 DEF PoolState
  <2>2. Shown(Display(ResetIpPool(c), state), ResetIpPool(c))
    BY <1>1, DisplayShown, SMTT(30) DEF Alike
  <2>3. Shown(IdleError(Display(ResetIpPool(c), state)), Display(ResetIpPool(c), state))
    BY <2>2, IdleErrorShown DEF Shown
  <2> QED
    BY <1>1, <2>1, <2>2, <2>3 DEF Shown, Alike
<1>6. CASE state = "Disconnected"
  <2>1. PoolState(c, state) = IdleDisconnected(c)
    BY <1>6 DEF PoolState
  <2> QED
    BY <2>1, IdleDisconnectedShown
<1>7. CASE state \notin {"Reconnecting", "Error", "Unknown", "Disconnected"}
  <2>1. PoolState(c, state) = Display(c, state)
    BY <1>7 DEF PoolState
  <2> QED
    BY <2>1, DisplayShown
<1> QED
  BY <1>2, <1>3, <1>4, <1>5, <1>6, <1>7

\* The flags show and queue nothing.
LEMMA FlagsAlike ==
    ASSUME NEW c, Formed(c), NEW state
    PROVE  Alike(Flags(c, state), c) /\ Flags(c, state).calls = c.calls
<1> DEFINE d1 == [c EXCEPT !.advancing = FALSE, !.switching = FALSE]
           d2 == [c EXCEPT !.switching = FALSE]
<1>1. Flags(c, state) \in {d1, d2, c}
  BY DEF Flags
<1>2. /\ DOMAIN d1 = CtlFields /\ d1.poolPos = c.poolPos /\ d1.poolRow = c.poolRow
      /\ d1.calls = c.calls /\ d1.candidates = c.candidates /\ d1.pos = c.pos
      /\ d1.defaultRow = c.defaultRow /\ d1.connected = c.connected /\ d1.state = c.state
  BY DEF Formed, CtlFields
<1>3. /\ DOMAIN d2 = CtlFields /\ d2.poolPos = c.poolPos /\ d2.poolRow = c.poolRow
      /\ d2.calls = c.calls /\ d2.candidates = c.candidates /\ d2.pos = c.pos
      /\ d2.defaultRow = c.defaultRow /\ d2.connected = c.connected /\ d2.state = c.state
  BY DEF Formed, CtlFields
<1> HIDE DEF d1, d2
<1>4. Alike(d1, c) /\ Alike(d2, c) /\ Alike(c, c)
  BY <1>2, <1>3 DEF Formed, Alike
<1> QED
  BY <1>1, <1>2, <1>3, <1>4

\* onConnectionStateChanged() shows Connected, whatever else it does with it.
LEMMA ConnectedShown ==
    ASSUME NEW c, Formed(c)
    PROVE  /\ Formed(OnConnectionStateChanged(c, "Connected"))
           /\ Up(OnConnectionStateChanged(c, "Connected"))
           /\ OnConnectionStateChanged(c, "Connected").calls = c.calls
<1> DEFINE f == Flags(c, "Connected")
<1>1. Formed(f) /\ f.calls = c.calls
  BY FlagsAlike DEF Alike
<1>2. OnConnectionStateChanged(c, "Connected") \in
        {CandidateConnected(f), PoolState(f, "Connected"), Display(f, "Connected")}
  BY DEF OnConnectionStateChanged
<1> HIDE DEF f
<1>3. /\ Formed(Display(f, "Connected")) /\ Up(Display(f, "Connected"))
      /\ Display(f, "Connected").calls = f.calls
  BY <1>1, DisplayShows DEF Up
<1> QED
  BY <1>1, <1>2, <1>3, CandidateConnectedUp, PoolConnectedUp

\* Any other state it shows, or it is about to connect again.
LEMMA StateShown ==
    ASSUME NEW c, Formed(c), NEW state, state # "Connected"
    PROVE  Shown(OnConnectionStateChanged(c, state), c)
<1> DEFINE f == Flags(c, state)
<1>1. Alike(f, c) /\ f.calls = c.calls
  BY FlagsAlike
<1>2. OnConnectionStateChanged(c, state) \in
        {CandidateFailed(f, state), Display(f, state), PoolState(f, state),
         IdleError(Display(f, state))}
  BY DEF OnConnectionStateChanged
<1> HIDE DEF f
<1>3. /\ Shown(CandidateFailed(f, state), f) /\ Shown(Display(f, state), f)
      /\ Shown(PoolState(f, state), f)
  BY <1>1, CandidateFailedShown, DisplayShown, PoolStateShown, SMTT(30) DEF Alike
<1>4. Shown(IdleError(Display(f, state)), Display(f, state))
  BY <1>3, IdleErrorShown, SMTT(30) DEF Shown
<1>5. Shown(IdleError(Display(f, state)), f)
  BY <1>3, <1>4 DEF Shown
<1>6. Shown(OnConnectionStateChanged(c, state), f)
  BY <1>2, <1>3, <1>5
<1> QED
  BY <1>1, <1>6, ShownFrom DEF Alike

\* The same with the tray
LEMMA AnnounceShown ==
    ASSUME NEW c, Formed(c), NEW state
    PROVE  /\ state # "Connected" => Shown(Announce(c, state), c)
           /\ state = "Connected" => Up(Announce(c, state))
<1> DEFINE d == OnConnectionStateChanged(c, state)
           e == [d EXCEPT !.tray = state]
<1>1. /\ Formed(d) /\ (state # "Connected" => Shown(d, c)) /\ (state = "Connected" => Up(d))
  BY ConnectedShown, StateShown DEF Shown
<1>2. Announce(c, state) = e
  BY DEF Announce
<1> HIDE DEF d
<1>3. Alike(e, d) /\ e.calls = d.calls
  BY <1>1, TraySet
<1> HIDE DEF e
<1> QED
  BY <1>1, <1>2, <1>3, SMTT(30) DEF Shown, Up, Alike, ConnectsNot

\* connectionErrorOccurred()
LEMMA ReportErrorShown ==
    ASSUME NEW c, Formed(c)
    PROVE  Shown(ReportError(c), c)
<1>1. ReportError(c) = Announce(c, "Disconnected")
  BY DEF ReportError, Announce
<1> QED
  BY <1>1, AnnounceShown

\* What an event other than a state may do to what is shown: it never shows a
\* connection, and it hides one only with a call on its way.
Steady(d, c) ==
    /\ d.connected => c.connected
    /\ c.calls # <<>> => d.calls # <<>>
    /\ Up(c) => Up(d) \/ d.calls # <<>>
    /\ (c.state = "Connected" => c.connected) => (d.state = "Connected" => d.connected)

\* Steps that are steady make a steady step.
LEMMA SteadySteps ==
    ASSUME NEW c, NEW d, NEW e, Steady(d, c), Steady(e, d)
    PROVE  Steady(e, c)
BY DEF Steady

\* An event that shows nothing is steady.
LEMMA AlikeSteady ==
    ASSUME NEW c, NEW d, Alike(d, c), c.calls # <<>> => d.calls # <<>>
    PROVE  Steady(d, c)
BY DEF Steady, Alike, Up

\* And one that has queued a call.
LEMMA ShownSteady ==
    ASSUME NEW c, NEW d, Shown(d, c), ~Up(c) \/ d.calls # <<>>
    PROVE  Steady(d, c)
BY DEF Steady, Shown

\* connectCurrentAutoCandidate()
LEMMA ConnectCurrentSteady ==
    ASSUME NEW c, Formed(c)
    PROVE  Steady(ConnectCurrent(c), c)
<1>1. ConnectCurrent(c).calls # <<>>
  BY ConnectCurrentShown
<1>2. CASE Shown(ConnectCurrent(c), c)
  BY <1>1, <1>2, ShownSteady
<1>3. CASE Alike(ConnectCurrent(c), c)
  BY <1>1, <1>3, AlikeSteady
<1> QED
  BY <1>2, <1>3, ConnectCurrentShown

\* beginAutoConnect()
LEMMA BeginAutoConnectSteady ==
    ASSUME NEW c, Formed(c), NEW order \in Seq(Rows)
    PROVE  Steady(BeginAutoConnect(c, order), c)
<1> DEFINE d == [c EXCEPT !.listening = FALSE, !.probeTimer = FALSE, !.candidates = order]
           e == [d EXCEPT !.phase = "None"]
           f == [d EXCEPT !.phase = "Connecting", !.pos = 0]
<1>1. BeginAutoConnect(c, order) =
        IF order = <<>> THEN ConnectToServer(e, c.defaultRow) ELSE ConnectCurrent(f)
  BY DEF BeginAutoConnect
<1>2. /\ DOMAIN d = CtlFields /\ d.poolPos = c.poolPos /\ d.poolRow = c.poolRow
      /\ d.calls = c.calls /\ d.candidates = order /\ d.pos = c.pos
      /\ d.defaultRow = c.defaultRow /\ d.connected = c.connected /\ d.state = c.state
  BY DEF Formed, CtlFields
<1> HIDE DEF d
<1>3. /\ DOMAIN e = CtlFields /\ e.poolPos = d.poolPos /\ e.poolRow = d.poolRow
      /\ e.calls = d.calls /\ e.candidates = d.candidates /\ e.pos = d.pos
      /\ e.defaultRow = d.defaultRow /\ e.connected = d.connected /\ e.state = d.state
  BY <1>2 DEF CtlFields
<1>4. /\ DOMAIN f = CtlFields /\ f.poolPos = d.poolPos /\ f.poolRow = d.poolRow
      /\ f.calls = d.calls /\ f.candidates = d.candidates /\ f.pos = 0
      /\ f.defaultRow = d.defaultRow /\ f.connected = d.connected /\ f.state = d.state
  BY <1>2 DEF CtlFields
<1> HIDE DEF e, f
<1>5. Alike(e, c) /\ e.calls = c.calls /\ Alike(f, c) /\ f.calls = c.calls
  BY <1>2, <1>3, <1>4 DEF Formed, Alike
<1>6. Steady(e, c) /\ Steady(f, c)
  BY <1>5, AlikeSteady, SMTT(30)
<1>7. /\ Alike(ConnectToServer(e, c.defaultRow), e)
      /\ ConnectToServer(e, c.defaultRow).calls # <<>>
  BY <1>5, ConnectToServerAlike, Zenon DEF Alike, Formed
<1>8. Steady(ConnectToServer(e, c.defaultRow), e)
  BY <1>7, AlikeSteady
<1>9. Steady(ConnectCurrent(f), f)
  BY <1>5, ConnectCurrentSteady DEF Alike
<1>10. Steady(ConnectToServer(e, c.defaultRow), c) /\ Steady(ConnectCurrent(f), c)
  BY <1>6, <1>8, <1>9, SteadySteps
<1> QED
  BY <1>1, <1>10

\* tryEarlyAutoDecision() and onAutoProbeSettled()
LEMMA DecisionSteady ==
    ASSUME NEW c, Formed(c), NEW x \in EarlyDecision(c) \cup ProbeSettled(c)
    PROVE  Steady(x, c)
<1> DEFINE d == [c EXCEPT !.probeTimer = FALSE]
<1>1. \/ x = c
      \/ \E order \in Orders : x = BeginAutoConnect(c, order)
      \/ \E order \in Orders : x = BeginAutoConnect(d, order)
  BY Zenon DEF EarlyDecision, ProbeSettled
<1>2. /\ DOMAIN d = CtlFields /\ d.poolPos = c.poolPos /\ d.poolRow = c.poolRow
      /\ d.calls = c.calls /\ d.candidates = c.candidates /\ d.pos = c.pos
      /\ d.defaultRow = c.defaultRow /\ d.connected = c.connected /\ d.state = c.state
  BY DEF Formed, CtlFields
<1> HIDE DEF d
<1>3. Alike(d, c) /\ Alike(c, c)
  BY <1>2 DEF Formed, Alike
<1>4. Steady(d, c) /\ Steady(c, c)
  BY <1>2, <1>3, AlikeSteady
<1>5. \A order \in Orders : order \in Seq(Rows)
  BY RowsAssumption
<1>6. CASE x = c
  BY <1>4, <1>6
<1>7. CASE \E order \in Orders : x = BeginAutoConnect(c, order)
  BY <1>5, <1>7, BeginAutoConnectSteady
<1>8. CASE \E order \in Orders : x = BeginAutoConnect(d, order)
  <2>1. PICK order \in Orders : x = BeginAutoConnect(d, order)
    BY <1>8
  <2>2. Steady(x, d)
    BY <1>3, <1>5, <2>1, BeginAutoConnectSteady DEF Alike
  <2> QED
    BY <1>4, <2>2, SteadySteps
<1> QED
  BY <1>1, <1>6, <1>7, <1>8

\* startAutoSelection() after installMissingConfigs()
LEMMA ProbeSteady ==
    ASSUME NEW c, Formed(c), NEW x \in Probe(c)
    PROVE  Steady(x, c)
<1> DEFINE d == [c EXCEPT !.listening = TRUE]
           e == [d EXCEPT !.probeTimer = TRUE]
<1>1. x \in EarlyDecision(c) \/ x \in ProbeSettled(d) \/ x = e
  BY DEF Probe
<1>2. /\ DOMAIN d = CtlFields /\ d.poolPos = c.poolPos /\ d.poolRow = c.poolRow
      /\ d.calls = c.calls /\ d.candidates = c.candidates /\ d.pos = c.pos
      /\ d.defaultRow = c.defaultRow /\ d.connected = c.connected /\ d.state = c.state
  BY DEF Formed, CtlFields
<1> HIDE DEF d
<1>3. /\ DOMAIN e = CtlFields /\ e.poolPos = d.poolPos /\ e.poolRow = d.poolRow
      /\ e.calls = d.calls /\ e.candidates = d.candidates /\ e.pos = d.pos
      /\ e.defaultRow = d.defaultRow /\ e.connected = d.connected /\ e.state = d.state
  BY <1>2 DEF CtlFields
<1> HIDE DEF e
<1>4. Alike(d, c) /\ Alike(e, c)
  BY <1>2, <1>3, SMTT(30) DEF Formed, Alike
<1>5. Steady(d, c) /\ Steady(e, c)
  BY <1>2, <1>3, <1>4, AlikeSteady
<1>6. CASE x \in EarlyDecision(c)
  BY <1>6, DecisionSteady
<1>7. CASE x \in ProbeSettled(d)
  <2>1. Steady(x, d)
    BY <1>4, <1>7, DecisionSteady DEF Alike
  <2> QED
    BY <1>5, <2>1, SteadySteps
<1> QED
  BY <1>1, <1>5, <1>6, <1>7

\* cancelAutoSelection() shows and queues nothing.
LEMMA CancelAlike ==
    ASSUME NEW c, Formed(c)
    PROVE  Alike(CancelAutoSelection(c), c) /\ CancelAutoSelection(c).calls = c.calls
<1> DEFINE d == CancelAutoSelection(c)
<1>1. /\ DOMAIN d = CtlFields /\ d.poolPos = c.poolPos /\ d.poolRow = c.poolRow
      /\ d.calls = c.calls /\ d.candidates = <<>> /\ d.pos = 0
      /\ d.defaultRow = c.defaultRow /\ d.connected = c.connected /\ d.state = c.state
  BY DEF CancelAutoSelection, Formed, CtlFields
<1> HIDE DEF d
<1>2. Formed(d)
  BY <1>1 DEF Formed
<1> QED
  BY <1>1, <1>2 DEF Alike, d

\* startAutoSelection()
LEMMA StartAutoSelectionSteady ==
    ASSUME NEW c, Formed(c), NEW x \in StartAutoSelection(c)
    PROVE  Steady(x, c)
<1> DEFINE a == CancelAutoSelection(c)
           d == [a EXCEPT !.phase = "Probing"]
           e == [d EXCEPT !.installs = @ + 1]
<1>1. x \in Probe(d) \/ x = e
  BY DEF StartAutoSelection
<1>2. Alike(a, c) /\ a.calls = c.calls
  BY CancelAlike
<1> HIDE DEF a
<1>3. /\ DOMAIN d = CtlFields /\ d.poolPos = a.poolPos /\ d.poolRow = a.poolRow
      /\ d.calls = a.calls /\ d.candidates = a.candidates /\ d.pos = a.pos
      /\ d.defaultRow = a.defaultRow /\ d.connected = a.connected /\ d.state = a.state
  BY <1>2 DEF Alike, Formed, CtlFields
<1> HIDE DEF d
<1>4. /\ DOMAIN e = CtlFields /\ e.poolPos = d.poolPos /\ e.poolRow = d.poolRow
      /\ e.calls = d.calls /\ e.candidates = d.candidates /\ e.pos = d.pos
      /\ e.defaultRow = d.defaultRow /\ e.connected = d.connected /\ e.state = d.state
  BY <1>3 DEF CtlFields
<1> HIDE DEF e
<1>5. Alike(d, c) /\ Alike(e, c)
  BY <1>2, <1>3, <1>4, SMTT(30) DEF Formed, Alike
<1>6. Steady(d, c) /\ Steady(e, c)
  BY <1>2, <1>3, <1>4, <1>5, AlikeSteady
<1>7. CASE x \in Probe(d)
  <2>1. Steady(x, d)
    BY <1>5, <1>7, ProbeSteady DEF Alike
  <2> QED
    BY <1>6, <2>1, SteadySteps
<1> QED
  BY <1>1, <1>6, <1>7

\* openConnection() with a service that runs
LEMMA OpenConnectionSteady ==
    ASSUME Service \subseteq {TRUE}, NEW c, Formed(c), NEW x \in OpenConnection(c)
    PROVE  Steady(x, c)
<1> DEFINE d == [c EXCEPT !.wanted = "yes"]
<1>1. x \in StartAutoSelection(d) \/ x = ConnectToServer(d, c.defaultRow)
  BY Zenon DEF OpenConnection
<1>2. /\ DOMAIN d = CtlFields /\ d.poolPos = c.poolPos /\ d.poolRow = c.poolRow
      /\ d.calls = c.calls /\ d.candidates = c.candidates /\ d.pos = c.pos
      /\ d.defaultRow = c.defaultRow /\ d.connected = c.connected /\ d.state = c.state
  BY DEF Formed, CtlFields
<1> HIDE DEF d
<1>3. Alike(d, c)
  BY <1>2 DEF Formed, Alike
<1>4. Steady(d, c)
  BY <1>2, <1>3, AlikeSteady
<1>5. CASE x \in StartAutoSelection(d)
  BY <1>3, <1>4, <1>5, StartAutoSelectionSteady, SteadySteps DEF Alike
<1>6. CASE x = ConnectToServer(d, c.defaultRow)
  <2>1. Alike(x, d) /\ x.calls # <<>>
    BY <1>2, <1>3, <1>6, ConnectToServerAlike DEF Alike, Formed
  <2>2. Steady(x, d)
    BY <2>1, AlikeSteady, SMTT(30)
  <2> QED
    BY <1>4, <2>2, SteadySteps
<1> QED
  BY <1>1, <1>5, <1>6

\* closeConnection() queues a call.
LEMMA CloseConnectionSteady ==
    ASSUME NEW c, Formed(c)
    PROVE  Steady(CloseConnection(c), c)
<1> DEFINE w == IF c.installs > 0 THEN "late" ELSE "no"
           d == [c EXCEPT !.manualTimer = FALSE, !.wanted = w]
           a == CancelAutoSelection(d)
           e == [a EXCEPT !.inProgress = FALSE]
<1>1. CloseConnection(c) = Disconnect(ResetIpPool(IF c.phase # "None" THEN e ELSE d))
  BY Zenon DEF CloseConnection
<1>2. /\ DOMAIN d = CtlFields /\ d.poolPos = c.poolPos /\ d.poolRow = c.poolRow
      /\ d.calls = c.calls /\ d.candidates = c.candidates /\ d.pos = c.pos
      /\ d.defaultRow = c.defaultRow /\ d.connected = c.connected /\ d.state = c.state
  BY DEF Formed, CtlFields
<1> HIDE DEF d
<1>3. Alike(d, c)
  BY <1>2 DEF Formed, Alike
<1>4. Alike(a, d) /\ a.calls = d.calls
  BY <1>3, CancelAlike DEF Alike
<1> HIDE DEF a
<1>5. /\ DOMAIN e = CtlFields /\ e.poolPos = a.poolPos /\ e.poolRow = a.poolRow
      /\ e.calls = a.calls /\ e.candidates = a.candidates /\ e.pos = a.pos
      /\ e.defaultRow = a.defaultRow /\ e.connected = a.connected /\ e.state = a.state
  BY <1>4 DEF Alike, Formed, CtlFields
<1> HIDE DEF e
<1>6. Alike(e, c)
  BY <1>3, <1>4, <1>5 DEF Formed, Alike
<1>7. PICK f : f = IF c.phase # "None" THEN e ELSE d
  OBVIOUS
<1>8. Alike(f, c)
  BY <1>3, <1>6, <1>7
<1>9. Alike(ResetIpPool(f), f)
  BY <1>8, ResetIpPoolAlike DEF Alike
<1>10. Alike(Disconnect(ResetIpPool(f)), ResetIpPool(f)) /\ Disconnect(ResetIpPool(f)).calls # <<>>
  BY <1>9, DisconnectAlike DEF Alike
<1>11. Alike(Disconnect(ResetIpPool(f)), c)
  BY <1>8, <1>9, <1>10 DEF Alike
<1> QED
  BY <1>1, <1>7, <1>10, <1>11, AlikeSteady

\* The prepareConfig handler, which runs when nothing is connected
LEMMA PrepareConfigSteady ==
    ASSUME Service \subseteq {TRUE}, NEW c, Formed(c), ~c.connected, NEW x \in PrepareConfig(c)
    PROVE  Steady(x, c)
<1> DEFINE d == Announce(c, "Preparing")
<1>1. x \in OpenConnection(d) \/ x = Announce(d, "Disconnected")
  BY DEF PrepareConfig
<1>2. Shown(d, c)
  BY AnnounceShown
<1> HIDE DEF d
<1>3. Steady(d, c) /\ Formed(d)
  BY <1>2, ShownSteady DEF Shown, Up
<1>4. CASE x \in OpenConnection(d)
  BY <1>3, <1>4, OpenConnectionSteady, SteadySteps, Zenon
<1>5. CASE x = Announce(d, "Disconnected")
  <2>1. Shown(x, d)
    BY <1>3, <1>5, AnnounceShown
  <2>2. Steady(x, d)
    BY <1>2, <2>1, ShownSteady DEF Shown, Up
  <2> QED
    BY <1>3, <2>2, SteadySteps
<1> QED
  BY <1>1, <1>4, <1>5

\* The button
LEMMA ToggleConnectionSteady ==
    ASSUME Service \subseteq {TRUE}, NEW c, Formed(c), NEW x \in ToggleConnection(c)
    PROVE  Steady(x, c)
<1>1. CASE c.connected
  <2>1. x = CloseConnection(c)
    BY <1>1 DEF ToggleConnection, When
  <2> QED
    BY <2>1, CloseConnectionSteady
<1>2. CASE ~c.connected
  <2>1. x = CloseConnection(c) \/ x \in PrepareConfig(c)
    BY DEF ToggleConnection, When
  <2> QED
    BY <1>2, <2>1, CloseConnectionSteady, PrepareConfigSteady, Zenon
<1> QED
  BY <1>1, <1>2

\* The choice of a server
LEMMA ChooseServerSteady ==
    ASSUME Service \subseteq {TRUE}, NEW c, Formed(c), NEW x \in ChooseServer(c)
    PROVE  Steady(x, c)
<1> DEFINE chosen == {[c EXCEPT !.auto = FALSE, !.defaultRow = row] : row \in Rows}
<1>1. x \in IF c.connected THEN UNION {OpenConnection(d) : d \in chosen} ELSE chosen
  BY Zenon DEF ChooseServer, When
<1> HIDE DEF chosen
<1>2. PICK e \in chosen : x \in OpenConnection(e) \/ x = e
  BY <1>1, ZenonT(40)
<1>3. PICK row \in Rows : e = [c EXCEPT !.auto = FALSE, !.defaultRow = row]
  BY Zenon DEF chosen
<1>4. /\ DOMAIN e = CtlFields /\ e.poolPos = c.poolPos /\ e.poolRow = c.poolRow
      /\ e.calls = c.calls /\ e.candidates = c.candidates /\ e.pos = c.pos
      /\ e.defaultRow = row /\ e.connected = c.connected /\ e.state = c.state
  BY <1>3 DEF Formed, CtlFields
<1>5. Alike(e, c)
  BY <1>4 DEF Formed, Alike
<1>6. Steady(e, c)
  BY <1>4, <1>5, AlikeSteady
<1>7. CASE x \in OpenConnection(e)
  BY <1>5, <1>6, <1>7, OpenConnectionSteady, SteadySteps, Zenon DEF Alike
<1> QED
  BY <1>2, <1>6, <1>7

\* The choice of a search
LEMMA ChooseAutoSteady ==
    ASSUME Service \subseteq {TRUE}, NEW c, Formed(c), NEW x \in ChooseAuto(c)
    PROVE  Steady(x, c)
<1> DEFINE e == [c EXCEPT !.auto = TRUE]
<1>1. x \in OpenConnection(e) \/ x = e
  BY DEF ChooseAuto, When
<1>2. /\ DOMAIN e = CtlFields /\ e.poolPos = c.poolPos /\ e.poolRow = c.poolRow
      /\ e.calls = c.calls /\ e.candidates = c.candidates /\ e.pos = c.pos
      /\ e.defaultRow = c.defaultRow /\ e.connected = c.connected /\ e.state = c.state
  BY DEF Formed, CtlFields
<1> HIDE DEF e
<1>3. Alike(e, c)
  BY <1>2 DEF Formed, Alike
<1>4. Steady(e, c)
  BY <1>2, <1>3, AlikeSteady
<1>5. CASE x \in OpenConnection(e)
  BY <1>3, <1>4, <1>5, OpenConnectionSteady, SteadySteps, Zenon DEF Alike
<1> QED
  BY <1>1, <1>4, <1>5

\* The tray menu
LEMMA TraySteady ==
    ASSUME Service \subseteq {TRUE}, NEW c, Formed(c),
           NEW x \in TrayConnect(c) \cup TrayDisconnect(c)
    PROVE  Steady(x, c)
<1>1. x \in OpenConnection(c) \/ x = CloseConnection(c)
  BY DEF TrayConnect, TrayDisconnect, When
<1> QED
  BY <1>1, OpenConnectionSteady, CloseConnectionSteady, Zenon

\* A new language: Connected is shown again only if it was shown.
LEMMA TranslationsUpdatedSteady ==
    ASSUME NEW c, Formed(c), c.state = "Connected" => c.connected,
           NEW x \in TranslationsUpdated(c)
    PROVE  Steady(x, c)
<1>1. x = OnConnectionStateChanged(c, c.state)
  BY DEF TranslationsUpdated, When
<1>2. CASE c.state = "Connected"
  <2>1. Up(x)
    BY <1>1, <1>2, ConnectedShown
  <2>2. x.calls = c.calls
    BY <1>1, <1>2, ConnectedShown
  <2> QED
    BY <1>2, <2>1, <2>2 DEF Steady, Up
<1>3. CASE c.state # "Connected"
  <2>1. Shown(x, c)
    BY <1>1, <1>3, StateShown
  <2> QED
    BY <1>3, <2>1, ShownSteady DEF Up
<1> QED
  BY <1>2, <1>3

\* The gateway's answer
LEMMA InstallsDoneSteady ==
    ASSUME NEW c, Formed(c), NEW x \in InstallsDone(c)
    PROVE  Steady(x, c)
<1> DEFINE e == [c EXCEPT !.installs = @ - 1]
<1>1. x \in Probe(e)
  BY DEF InstallsDone, When
<1>2. /\ DOMAIN e = CtlFields /\ e.poolPos = c.poolPos /\ e.poolRow = c.poolRow
      /\ e.calls = c.calls /\ e.candidates = c.candidates /\ e.pos = c.pos
      /\ e.defaultRow = c.defaultRow /\ e.connected = c.connected /\ e.state = c.state
  BY DEF Formed, CtlFields
<1> HIDE DEF e
<1>3. Alike(e, c)
  BY <1>2 DEF Formed, Alike
<1>4. Steady(e, c)
  BY <1>2, <1>3, AlikeSteady
<1> QED
  BY <1>1, <1>3, <1>4, ProbeSteady, SteadySteps DEF Alike

\* The results, the end and the timer of a probe
LEMMA ProbeEventsSteady ==
    ASSUME NEW c, Formed(c),
           NEW x \in HealthUpdated(c) \cup ProbingFinished(c) \cup ProbeTimeout(c)
    PROVE  Steady(x, c)
<1> DEFINE e == [c EXCEPT !.probeTimer = FALSE]
<1>1. x \in EarlyDecision(c) \cup ProbeSettled(c) \/ x \in EarlyDecision(e) \cup ProbeSettled(e)
  BY DEF HealthUpdated, ProbingFinished, ProbeTimeout, When
<1>2. /\ DOMAIN e = CtlFields /\ e.poolPos = c.poolPos /\ e.poolRow = c.poolRow
      /\ e.calls = c.calls /\ e.candidates = c.candidates /\ e.pos = c.pos
      /\ e.defaultRow = c.defaultRow /\ e.connected = c.connected /\ e.state = c.state
  BY DEF Formed, CtlFields
<1> HIDE DEF e
<1>3. Alike(e, c)
  BY <1>2, SMTT(30) DEF Formed, Alike
<1>4. Steady(e, c)
  BY <1>2, <1>3, AlikeSteady
<1>5. CASE x \in EarlyDecision(e) \cup ProbeSettled(e)
  <2>1. Steady(x, e)
    BY <1>3, <1>5, DecisionSteady DEF Alike
  <2> QED
    BY <1>4, <2>1, SteadySteps
<1> QED
  BY <1>1, <1>5, DecisionSteady

\* The attempt timer
LEMMA AttemptTimeoutSteady ==
    ASSUME NEW c, Formed(c), NEW x \in AttemptTimeout(c)
    PROVE  Steady(x, c)
<1> DEFINE d == [c EXCEPT !.attemptTimer = FALSE]
           e == [d EXCEPT !.pos = @ + 1]
           r == Retry(d)
           f == [r EXCEPT !.awaiting = FALSE]
<1>1. x = d \/ (CanRetry(d) /\ x = f) \/ x = ConnectCurrent(e)
  <2>1. ASSUME c.phase # "Connecting"
        PROVE  x = d
    BY <2>1 DEF AttemptTimeout, When
  <2>2. ASSUME c.phase = "Connecting", CanRetry(d)
        PROVE  x = f
    BY <2>2, Zenon DEF AttemptTimeout, When
  <2>3. ASSUME c.phase = "Connecting", ~CanRetry(d)
        PROVE  x = ConnectCurrent(e)
    BY <2>3 DEF AttemptTimeout, When
  <2> HIDE DEF d, e, f
  <2> QED
    BY <2>1, <2>2, <2>3
<1>2. /\ DOMAIN d = CtlFields /\ d.poolPos = c.poolPos /\ d.poolRow = c.poolRow
      /\ d.calls = c.calls /\ d.candidates = c.candidates /\ d.pos = c.pos
      /\ d.defaultRow = c.defaultRow /\ d.connected = c.connected /\ d.state = c.state
  BY DEF Formed, CtlFields
<1> HIDE DEF d
<1>3. /\ DOMAIN e = CtlFields /\ e.poolPos = d.poolPos /\ e.poolRow = d.poolRow
      /\ e.calls = d.calls /\ e.candidates = d.candidates /\ e.pos = d.pos + 1
      /\ e.defaultRow = d.defaultRow /\ e.connected = d.connected /\ e.state = d.state
  BY <1>2 DEF CtlFields
<1> HIDE DEF e
<1>4. Alike(d, c) /\ Alike(e, c)
  BY <1>2, <1>3 DEF Formed, Alike
<1>5. Steady(d, c) /\ Steady(e, c)
  BY <1>2, <1>3, <1>4, AlikeSteady
<1>6. CASE CanRetry(d) /\ x = f
  <2>1. Alike(r, d) /\ r.calls # <<>>
    BY <1>4, <1>6, RetryAlike DEF Alike
  <2> HIDE DEF r
  <2>2. /\ DOMAIN f = CtlFields /\ f.poolPos = r.poolPos /\ f.poolRow = r.poolRow
        /\ f.calls = r.calls /\ f.candidates = r.candidates /\ f.pos = r.pos
        /\ f.defaultRow = r.defaultRow /\ f.connected = r.connected /\ f.state = r.state
    BY <2>1 DEF CtlFields, Alike, Formed
  <2> HIDE DEF f
  <2>3. Alike(f, d)
    BY <2>1, <2>2 DEF Formed, Alike
  <2>4. Steady(f, d)
    BY <2>1, <2>2, <2>3, AlikeSteady
  <2> QED
    BY <1>5, <1>6, <2>4, SteadySteps
<1>7. CASE x = ConnectCurrent(e)
  <2>1. Steady(x, e)
    BY <1>4, <1>7, ConnectCurrentSteady DEF Alike
  <2> QED
    BY <1>5, <2>1, SteadySteps
<1> QED
  BY <1>1, <1>5, <1>6, <1>7

\* An error that is reported with a disconnectFromVpn() on its way
LEMMA GivenUpSteady ==
    ASSUME NEW c, NEW d, Alike(d, c)
    PROVE  Steady(ReportError(Disconnect(d)), c)
<1>1. Alike(Disconnect(d), d) /\ Disconnect(d).calls # <<>>
  BY DisconnectAlike DEF Alike
<1>2. Shown(ReportError(Disconnect(d)), Disconnect(d))
  BY <1>1, ReportErrorShown DEF Alike
<1>3. ReportError(Disconnect(d)).calls # <<>>
  BY <1>1, <1>2, SMTT(30) DEF Shown
<1>4. Shown(ReportError(Disconnect(d)), c)
  BY <1>1, <1>2, <1>3 DEF Shown, Alike
<1> QED
  BY <1>3, <1>4, ShownSteady

\* The traffic timer
LEMMA IpTrafficTimeoutSteady ==
    ASSUME NEW c, Formed(c), NEW x \in IpTrafficTimeout(c)
    PROVE  Steady(x, c)
<1> DEFINE d == [c EXCEPT !.ipTimer = FALSE, !.ipAwaiting = FALSE]
<1>1. x = d \/ (CanRetry(d) /\ x = Retry(d)) \/ x = ReportError(Disconnect(ResetIpPool(d)))
  <2>1. ASSUME ~c.ipAwaiting
        PROVE  x = d
    BY <2>1 DEF IpTrafficTimeout, When
  <2>2. ASSUME c.ipAwaiting, CanRetry(d)
        PROVE  x = Retry(d)
    BY <2>2 DEF IpTrafficTimeout, When
  <2>3. ASSUME c.ipAwaiting, ~CanRetry(d)
        PROVE  x = ReportError(Disconnect(ResetIpPool(d)))
    BY <2>3 DEF IpTrafficTimeout, When
  <2> HIDE DEF d
  <2> QED
    BY <2>1, <2>2, <2>3
<1>2. /\ DOMAIN d = CtlFields /\ d.poolPos = c.poolPos /\ d.poolRow = c.poolRow
      /\ d.calls = c.calls /\ d.candidates = c.candidates /\ d.pos = c.pos
      /\ d.defaultRow = c.defaultRow /\ d.connected = c.connected /\ d.state = c.state
  BY SMTT(30) DEF Formed, CtlFields
<1> HIDE DEF d
<1>3. Alike(d, c)
  BY <1>2 DEF Formed, Alike
<1>4. Steady(d, c)
  BY <1>2, <1>3, AlikeSteady
<1>5. CASE CanRetry(d) /\ x = Retry(d)
  <2>1. Alike(x, d) /\ x.calls # <<>>
    BY <1>3, <1>5, RetryAlike DEF Alike
  <2> QED
    BY <1>4, <2>1, AlikeSteady, SteadySteps, SMTT(30)
<1>6. CASE x = ReportError(Disconnect(ResetIpPool(d)))
  <2>1. Alike(ResetIpPool(d), c)
    BY <1>3, ResetIpPoolAlike DEF Alike
  <2> QED
    BY <1>6, <2>1, GivenUpSteady
<1> QED
  BY <1>1, <1>4, <1>5, <1>6

\* The manual watchdog
LEMMA ManualTimeoutSteady ==
    ASSUME NEW c, Formed(c), NEW x \in ManualTimeout(c)
    PROVE  Steady(x, c)
<1> DEFINE d == [c EXCEPT !.manualTimer = FALSE]
           r == ResetIpPool(d)
           e == [r EXCEPT !.inProgress = FALSE]
<1>1. (CanRetry(d) /\ x = Retry(d)) \/ x = ReportError(Disconnect(e))
  BY DEF ManualTimeout, When
<1>2. /\ DOMAIN d = CtlFields /\ d.poolPos = c.poolPos /\ d.poolRow = c.poolRow
      /\ d.calls = c.calls /\ d.candidates = c.candidates /\ d.pos = c.pos
      /\ d.defaultRow = c.defaultRow /\ d.connected = c.connected /\ d.state = c.state
  BY DEF Formed, CtlFields
<1> HIDE DEF d
<1>3. Alike(d, c)
  BY <1>2 DEF Formed, Alike
<1>4. Steady(d, c)
  BY <1>2, <1>3, AlikeSteady
<1>5. Alike(r, d)
  BY <1>3, ResetIpPoolAlike DEF Alike
<1> HIDE DEF r
<1>6. /\ DOMAIN e = CtlFields /\ e.poolPos = r.poolPos /\ e.poolRow = r.poolRow
      /\ e.calls = r.calls /\ e.candidates = r.candidates /\ e.pos = r.pos
      /\ e.defaultRow = r.defaultRow /\ e.connected = r.connected /\ e.state = r.state
  BY <1>5 DEF CtlFields, Alike, Formed
<1> HIDE DEF e
<1>7. Alike(e, c)
  BY <1>3, <1>5, <1>6, SMTT(30) DEF Formed, Alike
<1>8. CASE CanRetry(d) /\ x = Retry(d)
  <2>1. Alike(x, d) /\ x.calls # <<>>
    BY <1>3, <1>8, RetryAlike DEF Alike
  <2> QED
    BY <1>4, <2>1, AlikeSteady, SteadySteps
<1>9. CASE x = ReportError(Disconnect(e))
  BY <1>7, <1>9, GivenUpSteady, SMTT(30)
<1> QED
  BY <1>1, <1>8, <1>9

\* Received bytes
LEMMA BytesReceivedSteady ==
    ASSUME NEW c, Formed(c), NEW x \in BytesReceived(c)
    PROVE  Steady(x, c)
<1>1. x = FinalizeAutoSuccess(c) \/ x = ResetIpPool(c)
  BY DEF BytesReceived, When
<1> QED
  BY <1>1, FinalizeAlike, ResetIpPoolAlike, AlikeSteady

---------------------------------------------------------------------------
(* What the VPN thread tells.  It is described by the fields that matter   *)
(* here: the last signal of a handler has the state that the handler       *)
(* leaves, and without a signal the state is the old one.                  *)

VpnFields == {"state", "protocol", "stack", "out", "crashed"}

Signals == [state : ConnectionState, teardown : BOOLEAN]

Ops == {"flush", "stopConnect", "stopDisconnect", "stopReconnect", "stopError", "start", "setup",
        "destroy", "destroyCreate", "destroyStart"}

StopOps == {"stopConnect", "stopDisconnect", "stopReconnect", "stopError"}

\* The waiting handlers are such that Resume knows how they go on.
Framed(stack) == \E S : stack \in Seq(S) /\ \A f \in S : f.op \in Ops

\* "old" is the state at the beginning of the handler.
Told(t, old) ==
    /\ DOMAIN t = VpnFields
    /\ t.out \in Seq(Signals)
    /\ Framed(t.stack)
    /\ t.out = <<>> => t.state = old
    /\ t.out # <<>> => t.out[Len(t.out)].state = t.state

\* A handler waits.
LEMMA WaitTold ==
    ASSUME NEW t, NEW old, Told(t, old), NEW frame, frame.op \in Ops
    PROVE  Told(V!Wait(t, frame), old) /\ V!Wait(t, frame).out = t.out
<1> DEFINE u == V!Wait(t, frame)
<1>1. /\ DOMAIN u = VpnFields /\ u.out = t.out /\ u.state = t.state
      /\ u.stack = <<frame>> \o t.stack
  BY DEF V!Wait, Told, VpnFields
<1> HIDE DEF u
<1>2. PICK S : t.stack \in Seq(S) /\ \A f \in S : f.op \in Ops
  BY DEF Told, Framed
<1>3. t.stack \in Seq(S \cup {frame}) /\ <<frame>> \in Seq(S \cup {frame})
  BY <1>2
<1>4. <<frame>> \o t.stack \in Seq(S \cup {frame})
  BY <1>3
<1>5. Framed(u.stack)
  BY <1>1, <1>2, <1>4 DEF Framed
<1>6. Told(u, old)
  BY <1>1, <1>5 DEF Told
<1> QED
  BY <1>1, <1>6 DEF u

\* VpnConnection::setConnectionState() tells of every state but a Disconnected
\* during a reconnect, which it does not take.
LEMMA SetStateTold ==
    ASSUME NEW t, NEW old, Told(t, old), NEW state \in ConnectionState
    PROVE  /\ Told(V!SetState(t, state), old)
           /\ t.out # <<>> => V!SetState(t, state).out # <<>>
           /\ state # "Disconnected" => V!SetState(t, state).out # <<>>
<1> DEFINE signal == [state |-> state, teardown |-> FALSE]
           u == [t EXCEPT !.state = state, !.out = Append(@, signal)]
<1>1. V!SetState(t, state) = IF state = "Disconnected" /\ t.state = "Reconnecting" THEN t ELSE u
  BY DEF V!SetState
<1>2. signal \in Signals /\ signal.state = state
  BY DEF Signals
<1>3. /\ DOMAIN u = VpnFields /\ u.out = Append(t.out, signal) /\ u.state = state
      /\ u.stack = t.stack
  BY DEF Told, VpnFields
<1> HIDE DEF u, signal
<1>4. t.out \in Seq(Signals)
  BY DEF Told
<1>5. u.out \in Seq(Signals) /\ u.out # <<>> /\ u.out[Len(u.out)] = signal
  <2>1. /\ Append(t.out, signal) \in Seq(Signals)
        /\ Len(Append(t.out, signal)) = Len(t.out) + 1 /\ Len(t.out) \in Nat
        /\ Append(t.out, signal)[Len(t.out) + 1] = signal
    BY <1>2, <1>4, SMTT(30)
  <2> QED
    BY <1>3, <2>1
<1>6. Told(u, old)
  BY <1>2, <1>3, <1>5 DEF Told
<1> QED
  BY <1>1, <1>5, <1>6

\* What only concerns the protocol object, and a crash, tells nothing.
LEMMA SilentTold ==
    ASSUME NEW t, NEW old, Told(t, old), NEW p, NEW crashed
    PROVE  /\ Told([t EXCEPT !.protocol = p], old) /\ [t EXCEPT !.protocol = p].out = t.out
           /\ Told([t EXCEPT !.crashed = crashed], old) /\ [t EXCEPT !.crashed = crashed].out = t.out
<1> DEFINE u == [t EXCEPT !.protocol = p]
           v == [t EXCEPT !.crashed = crashed]
<1>1. /\ DOMAIN u = VpnFields /\ u.out = t.out /\ u.state = t.state /\ u.stack = t.stack
      /\ DOMAIN v = VpnFields /\ v.out = t.out /\ v.state = t.state /\ v.stack = t.stack
  BY DEF Told, VpnFields
<1> HIDE DEF u, v
<1>2. Told(u, old) /\ Told(v, old)
  BY <1>1 DEF Told
<1> QED
  BY <1>1, <1>2 DEF u, v

\* The op of a frame
LEMMA FrameOp ==
    ASSUME NEW op, NEW protocol, NEW row
    PROVE  V!Frame(op, protocol, row).op = op
BY DEF V!Frame

\* VpnProtocol::setConnectionState()
LEMMA SetProtocolStateTold ==
    ASSUME NEW t, NEW old, Told(t, old), NEW state \in ConnectionState
    PROVE  /\ Told(V!SetProtocolState(t, state), old)
           /\ t.out # <<>> => V!SetProtocolState(t, state).out # <<>>
<1> DEFINE p == [t.protocol EXCEPT !.state = state]
           u == [t EXCEPT !.protocol = p]
           frame == V!Frame("flush", u.protocol, ctl.defaultRow)
<1>1. V!SetProtocolState(t, state) \in {t, V!Wait(u, frame), V!SetState(u, state)}
  BY DEF V!SetProtocolState
<1>2. Told(u, old) /\ u.out = t.out
  BY SilentTold, Zenon
<1>3. frame.op \in Ops
  BY FrameOp DEF Ops
<1> HIDE DEF u, frame
<1>4. Told(V!Wait(u, frame), old) /\ V!Wait(u, frame).out = u.out
  BY <1>2, <1>3, WaitTold
<1>5. Told(V!SetState(u, state), old) /\ (u.out # <<>> => V!SetState(u, state).out # <<>>)
  BY <1>2, SetStateTold
<1> QED
  BY <1>1, <1>2, <1>4, <1>5

\* start()
LEMMA StartTold ==
    ASSUME NEW t, NEW old, Told(t, old)
    PROVE  Told(V!Start(t), old) /\ V!Start(t).out = t.out
<1> DEFINE frame == V!Frame("start", t.protocol, 0)
           p == [t.protocol EXCEPT !.run = "started"]
<1>1. V!Start(t) \in {[t EXCEPT !.crashed = TRUE], V!Wait(t, frame), [t EXCEPT !.protocol = p]}
  BY DEF V!Start
<1>2. frame.op \in Ops
  BY FrameOp DEF Ops
<1>3. /\ Told([t EXCEPT !.crashed = TRUE], old) /\ [t EXCEPT !.crashed = TRUE].out = t.out
      /\ Told([t EXCEPT !.protocol = p], old) /\ [t EXCEPT !.protocol = p].out = t.out
  BY SilentTold, Zenon
<1>4. Told(V!Wait(t, frame), old) /\ V!Wait(t, frame).out = t.out
  BY <1>2, WaitTold
<1> HIDE DEF frame, p
<1> QED
  BY <1>1, <1>3, <1>4, Zenon

\* The second half of connectToVpn()
LEMMA LaunchTold ==
    ASSUME NEW t, NEW old, Told(t, old)
    PROVE  Told(V!Launch(t), old) /\ (t.out # <<>> => V!Launch(t).out # <<>>)
<1>1. V!Launch(t) \in {V!SetState(t, "Error"), V!Start(t)}
  BY DEF V!Launch
<1>2. "Error" \in ConnectionState
  BY DEF ConnectionState
<1> QED
  BY <1>1, <1>2, SetStateTold, StartTold

\* The factory
LEMMA CreateTold ==
    ASSUME NEW t, NEW old, Told(t, old), NEW row
    PROVE  Told(V!Create(t, row), old) /\ (t.out # <<>> => V!Create(t, row).out # <<>>)
<1>1. PICK p : V!Create(t, row) \in
        {V!Wait([t EXCEPT !.protocol = p], V!Frame("destroyStart", t.protocol, row)),
         V!Launch([t EXCEPT !.protocol = p])}
  BY Zenon DEF V!Create
<1> DEFINE u == [t EXCEPT !.protocol = p]
           frame == V!Frame("destroyStart", t.protocol, row)
<1>2. Told(u, old) /\ u.out = t.out
  BY SilentTold, Zenon
<1>3. frame.op \in Ops
  BY FrameOp DEF Ops
<1>4. V!Create(t, row) \in {V!Wait(u, frame), V!Launch(u)}
  BY <1>1, SMTT(30)
<1> HIDE DEF u, frame
<1> QED
  BY <1>2, <1>3, <1>4, WaitTold, LaunchTold

\* What follows stop()
LEMMA AfterStopTold ==
    ASSUME NEW t, NEW old, Told(t, old), NEW frame, frame.op \in StopOps
    PROVE  Told(V!AfterStop(t, frame), old) /\ (t.out # <<>> => V!AfterStop(t, frame).out # <<>>)
<1> DEFINE u == [t EXCEPT !.protocol = V!NoProtocol]
           f == V!Frame("destroyCreate", t.protocol, frame.row)
           g == V!Frame("destroy", t.protocol, 0)
<1>1. V!AfterStop(t, frame) \in
        {V!Wait(u, f), V!Create(u, frame.row), V!Wait(u, g), u, V!Start(t),
         V!SetProtocolState(t, "Error"), t}
  <2>1. CASE frame.op = "stopConnect"
    BY <2>1 DEF V!AfterStop
  <2>2. CASE frame.op = "stopDisconnect"
    BY <2>2 DEF V!AfterStop
  <2>3. CASE frame.op = "stopReconnect"
    BY <2>3 DEF V!AfterStop
  <2>4. CASE frame.op = "stopError"
    BY <2>4 DEF V!AfterStop
  <2> QED
    BY <2>1, <2>2, <2>3, <2>4 DEF StopOps
<1>2. Told(u, old) /\ u.out = t.out
  BY SilentTold, Zenon
<1>3. f.op \in Ops /\ g.op \in Ops /\ "Error" \in ConnectionState
  BY FrameOp DEF Ops, ConnectionState
<1> HIDE DEF u, f, g
<1>4. /\ Told(V!Wait(u, f), old) /\ V!Wait(u, f).out = u.out
      /\ Told(V!Wait(u, g), old) /\ V!Wait(u, g).out = u.out
  BY <1>2, <1>3, WaitTold
<1>5. Told(V!Create(u, frame.row), old) /\ (u.out # <<>> => V!Create(u, frame.row).out # <<>>)
  BY <1>2, CreateTold
<1>6. Told(V!Start(t), old) /\ V!Start(t).out = t.out
  BY StartTold
<1>7. /\ Told(V!SetProtocolState(t, "Error"), old)
      /\ t.out # <<>> => V!SetProtocolState(t, "Error").out # <<>>
  BY <1>3, SetProtocolStateTold
<1> QED
  BY <1>1, <1>2, <1>4, <1>5, <1>6, <1>7

\* The end of stop() marks its signal at most.
LEMMA StoppedTold ==
    ASSUME NEW t, NEW old, Told(t, old), NEW op
    PROVE  Told(V!Stopped(t, op), old) /\ (t.out # <<>> => V!Stopped(t, op).out # <<>>)
<1> DEFINE p == [t.protocol EXCEPT !.run = "idle"]
           v == [t EXCEPT !.protocol = p]
           u == V!SetProtocolState(v, "Disconnected")
           marked == [i \in DOMAIN u.out |-> IF op = "stopConnect" /\ i > Len(t.out)
                                             THEN [u.out[i] EXCEPT !.teardown = TRUE] ELSE u.out[i]]
           w == [u EXCEPT !.out = marked]
<1>1. V!Stopped(t, op) = w
  BY DEF V!Stopped
<1>2. Told(v, old) /\ v.out = t.out /\ "Disconnected" \in ConnectionState
  BY SilentTold, Zenon DEF ConnectionState
<1> HIDE DEF v
<1>3. Told(u, old) /\ (v.out # <<>> => u.out # <<>>)
  BY <1>2, SetProtocolStateTold
<1> HIDE DEF u
<1>4. /\ DOMAIN w = VpnFields /\ w.out = marked /\ w.state = u.state /\ w.stack = u.stack
  BY <1>3 DEF Told, VpnFields
<1>5. u.out \in Seq(Signals) /\ Len(u.out) \in Nat /\ DOMAIN u.out = 1 .. Len(u.out)
  BY <1>3 DEF Told
<1>6. \A i \in 1 .. Len(u.out) : marked[i] \in Signals /\ marked[i].state = u.out[i].state
  <2> TAKE i \in 1 .. Len(u.out)
  <2>1. u.out[i] \in Signals
    BY <1>5
  <2>2. /\ [u.out[i] EXCEPT !.teardown = TRUE] \in Signals
        /\ [u.out[i] EXCEPT !.teardown = TRUE].state = u.out[i].state
    BY <2>1, Zenon DEF Signals
  <2>3. marked[i] \in {u.out[i], [u.out[i] EXCEPT !.teardown = TRUE]}
    BY <1>5
  <2> HIDE DEF marked
  <2> QED
    BY <2>1, <2>2, <2>3, Zenon
<1>7. DOMAIN marked = 1 .. Len(u.out) /\ marked = [i \in 1 .. Len(u.out) |-> marked[i]]
  BY <1>5
<1> HIDE DEF marked, w
<1>8. marked \in [1 .. Len(u.out) -> Signals]
  BY <1>6, <1>7
<1>9. marked \in Seq(Signals) /\ Len(marked) = Len(u.out)
  BY <1>5, <1>7, <1>8
<1>10. /\ marked = <<>> => u.out = <<>>
       /\ u.out = <<>> => marked = <<>>
       /\ marked # <<>> => marked[Len(marked)].state = u.out[Len(u.out)].state
  BY <1>5, <1>6, <1>9
<1>11. Told(w, old)
  BY <1>3, <1>4, <1>9, <1>10 DEF Told
<1> QED
  BY <1>1, <1>2, <1>3, <1>4, <1>10, <1>11

\* stop() of the current protocol
LEMMA StopTold ==
    ASSUME NEW t, NEW old, Told(t, old), NEW op \in StopOps, NEW row
    PROVE  Told(V!Stop(t, op, row), old) /\ (t.out # <<>> => V!Stop(t, op, row).out # <<>>)
<1> DEFINE frame == V!Frame(op, t.protocol, row)
<1>1. V!Stop(t, op, row) \in {V!Wait(t, frame), V!AfterStop(V!Stopped(t, op), frame)}
  BY DEF V!Stop
<1>2. frame.op \in Ops /\ frame.op \in StopOps
  BY FrameOp DEF Ops, StopOps
<1> HIDE DEF frame
<1>3. Told(V!Stopped(t, op), old) /\ (t.out # <<>> => V!Stopped(t, op).out # <<>>)
  BY StoppedTold
<1>4. /\ Told(V!AfterStop(V!Stopped(t, op), frame), old)
      /\ V!Stopped(t, op).out # <<>> => V!AfterStop(V!Stopped(t, op), frame).out # <<>>
  BY <1>2, <1>3, AfterStopTold, SMTT(30)
<1> QED
  BY <1>1, <1>2, <1>3, <1>4, WaitTold

\* connectToVpn() always tells something.
LEMMA ConnectToVpnTold ==
    ASSUME NEW t, NEW old, Told(t, old), NEW row
    PROVE  Told(V!ConnectToVpn(t, row), old) /\ V!ConnectToVpn(t, row).out # <<>>
<1> DEFINE u == V!SetState(t, "Connecting")
<1>1. V!ConnectToVpn(t, row) \in {V!Create(u, row), V!Stop(u, "stopConnect", row)}
  BY DEF V!ConnectToVpn
<1>2. "Connecting" \in ConnectionState /\ "stopConnect" \in StopOps
  BY DEF ConnectionState, StopOps
<1>3. Told(u, old) /\ u.out # <<>>
  BY <1>2, SetStateTold
<1> HIDE DEF u
<1>4. Told(V!Create(u, row), old) /\ V!Create(u, row).out # <<>>
  BY <1>3, CreateTold
<1>5. Told(V!Stop(u, "stopConnect", row), old) /\ V!Stop(u, "stopConnect", row).out # <<>>
  BY <1>2, <1>3, StopTold, SMTT(30)
<1> QED
  BY <1>1, <1>4, <1>5

\* disconnectFromVpn() tells something unless a reconnect is under way.
LEMMA DisconnectFromVpnTold ==
    ASSUME NEW t, NEW old, Told(t, old)
    PROVE  /\ Told(V!DisconnectFromVpn(t), old)
           /\ V!DisconnectFromVpn(t).out # <<>> \/ t.state = "Reconnecting"
<1> DEFINE u == V!SetState(t, "Disconnecting")
<1>1. /\ "Disconnecting" \in ConnectionState /\ "Disconnected" \in ConnectionState
      /\ "stopDisconnect" \in StopOps
  BY DEF ConnectionState, StopOps
<1>2. CASE t.protocol = V!NoProtocol
  <2>1. V!DisconnectFromVpn(t) = V!SetState(t, "Disconnected")
    BY <1>2 DEF V!DisconnectFromVpn
  <2>2. Told(V!SetState(t, "Disconnected"), old)
    BY <1>1, SetStateTold
  <2>3. ASSUME t.state # "Reconnecting"
        PROVE  V!SetState(t, "Disconnected").out # <<>>
    <3> DEFINE signal == [state |-> "Disconnected", teardown |-> FALSE]
    <3>1. V!SetState(t, "Disconnected") =
            [t EXCEPT !.state = "Disconnected", !.out = Append(t.out, signal)]
      BY <2>3 DEF V!SetState
    <3> HIDE DEF signal
    <3>2. V!SetState(t, "Disconnected").out = Append(t.out, signal) /\ t.out \in Seq(Signals)
      BY <3>1, Zenon DEF Told, VpnFields
    <3>3. signal \in Signals
      BY <1>1 DEF signal, Signals
    <3>4. Len(Append(t.out, signal)) = Len(t.out) + 1 /\ Len(t.out) \in Nat
      BY <3>2, <3>3
    <3> QED
      BY <3>2, <3>4
  <2> QED
    BY <2>1, <2>2, <2>3
<1>3. CASE t.protocol # V!NoProtocol
  <2>1. V!DisconnectFromVpn(t) = V!Stop(u, "stopDisconnect", 0)
    BY <1>3 DEF V!DisconnectFromVpn
  <2>2. Told(u, old) /\ u.out # <<>>
    BY <1>1, SetStateTold
  <2> HIDE DEF u
  <2>3. Told(V!Stop(u, "stopDisconnect", 0), old) /\ V!Stop(u, "stopDisconnect", 0).out # <<>>
    BY <1>1, <2>2, StopTold
  <2> QED
    BY <2>1, <2>3
<1> QED
  BY <1>2, <1>3

\* A reconnect does nothing without a protocol.
LEMMA ReconnectToVpnTold ==
    ASSUME NEW t, NEW old, Told(t, old)
    PROVE  Told(V!ReconnectToVpn(t), old) /\ (t.protocol = V!NoProtocol => V!ReconnectToVpn(t) = t)
<1> DEFINE u == V!SetState(t, "Reconnecting")
<1>1. /\ V!ReconnectToVpn(t) \in {t, V!Stop(u, "stopReconnect", 0)}
      /\ t.protocol = V!NoProtocol => V!ReconnectToVpn(t) = t
  BY DEF V!ReconnectToVpn
<1>2. "Reconnecting" \in ConnectionState /\ "stopReconnect" \in StopOps
  BY DEF ConnectionState, StopOps
<1>3. Told(u, old)
  BY <1>2, SetStateTold
<1> HIDE DEF u
<1>4. Told(V!Stop(u, "stopReconnect", 0), old)
  BY <1>2, <1>3, StopTold
<1> QED
  BY <1>1, <1>4

\* A waiting handler goes on.
LEMMA ResumedTold ==
    ASSUME NEW t, NEW old, Told(t, old), NEW frame, frame.op \in Ops, NEW ok,
           NEW u \in V!Resumed(t, frame, ok)
    PROVE  Told(u, old)
<1> DEFINE crashed == [t EXCEPT !.crashed = TRUE]
<1>1. Told(crashed, old)
  BY SilentTold, Zenon
<1>2. {"Connected", "Error", "Disconnected"} \subseteq ConnectionState
  BY DEF ConnectionState
<1>3. CASE frame.op = "flush"
  <2>1. u \in {crashed, V!SetState(t, "Connected")}
    BY <1>3 DEF V!Resumed
  <2> HIDE DEF crashed
  <2> QED
    BY <1>1, <1>2, <2>1, SetStateTold
<1>4. CASE frame.op \in StopOps
  <2>1. u \in {crashed, V!AfterStop(t, frame), V!AfterStop(V!Stopped(t, frame.op), frame)}
    <3>1. CASE frame.op = "stopConnect"
      BY <3>1 DEF V!Resumed
    <3>2. CASE frame.op = "stopDisconnect"
      BY <3>2 DEF V!Resumed
    <3>3. CASE frame.op = "stopReconnect"
      BY <3>3 DEF V!Resumed
    <3>4. CASE frame.op = "stopError"
      BY <3>4 DEF V!Resumed
    <3> QED
      BY <1>4, <3>1, <3>2, <3>3, <3>4 DEF StopOps
  <2> HIDE DEF crashed
  <2>2. Told(V!Stopped(t, frame.op), old)
    BY StoppedTold
  <2>3. Told(V!AfterStop(t, frame), old) /\ Told(V!AfterStop(V!Stopped(t, frame.op), frame), old)
    BY <1>4, <2>2, AfterStopTold, SMTT(30)
  <2> QED
    BY <1>1, <2>1, <2>3
<1>5. CASE frame.op = "start"
  <2> DEFINE p == [t.protocol EXCEPT !.run = "started"]
             v == [t EXCEPT !.protocol = p]
  <2>1. u \in {crashed, V!SetState(t, "Error"), t, v}
    BY <1>5 DEF V!Resumed
  <2>2. Told(v, old)
    BY SilentTold, Zenon
  <2> HIDE DEF crashed, v
  <2> QED
    BY <1>1, <1>2, <2>1, <2>2, SetStateTold
<1>6. CASE frame.op = "setup"
  <2>1. u \in {crashed, t, V!SetProtocolState(t, "Connected"), V!Stop(t, "stopError", 0)}
    BY <1>6 DEF V!Resumed
  <2> HIDE DEF crashed
  <2>2. Told(V!SetProtocolState(t, "Connected"), old)
    BY <1>2, SetProtocolStateTold
  <2>3. Told(V!Stop(t, "stopError", 0), old)
    BY StopTold DEF StopOps
  <2> QED
    BY <1>1, <2>1, <2>2, <2>3
<1>7. CASE frame.op \in {"destroy", "destroyCreate", "destroyStart"}
  <2>1. PICK v : v = IF frame.tells THEN V!SetState(t, "Disconnected") ELSE t
    OBVIOUS
  <2>2. u \in {v, V!Create(v, frame.row), V!Launch(v)}
    <3>1. CASE frame.op = "destroy"
      BY <2>1, <3>1 DEF V!Resumed
    <3>2. CASE frame.op = "destroyCreate"
      BY <2>1, <3>2 DEF V!Resumed
    <3>3. CASE frame.op = "destroyStart"
      BY <2>1, <3>3, SMTT(30) DEF V!Resumed
    <3> QED
      BY <1>7, <3>1, <3>2, <3>3
  <2>3. Told(V!SetState(t, "Disconnected"), old)
    BY <1>2, SetStateTold
  <2>4. Told(v, old)
    BY <2>1, <2>3
  <2> QED
    BY <2>2, <2>4, CreateTold, LaunchTold
<1> QED
  BY <1>3, <1>4, <1>5, <1>6, <1>7 DEF Ops, StopOps

---------------------------------------------------------------------------
(* The invariant of the two threads                                        *)

\* A queued connectToVpn()
Pending(calls) == \E i \in DOMAIN calls : calls[i] # DisconnectCall

\* The last signal on its way has the state of VpnConnection.  With none on its
\* way, a client that wrongly shows Connected is about to connect, and one that
\* wrongly shows something else has a call on its way, or VpnConnection has
\* never had a protocol.
Agreed ==
    /\ Safe(ctl) /\ ctl.calls = <<>>
    /\ Told(vpn, vpn.state) /\ vpn.out = <<>>
    /\ states \in Seq(Signals) /\ commands \in Seq(Rows \cup {DisconnectCall})
    /\ states # <<>> => states[Len(states)].state = vpn.state
    /\ ctl.state = "Connected" => ctl.connected
    /\ states = <<>> /\ ctl.connected /\ vpn.state # "Connected" => Pending(commands)
    /\ states = <<>> /\ commands = <<>> /\ vpn.state = "Connected" =>
          Up(ctl) \/ (vpn.protocol = V!NoProtocol /\ vpn.stack = <<>>)

\* The thread goes on as t.
LEMMA BecomesAgreed ==
    ASSUME Agreed, NEW t, Told(t, vpn.state), V!Becomes(t), ctl' = ctl,
           commands' \in Seq(Rows \cup {DisconnectCall}),
           t.out = <<>> /\ Pending(commands) => Pending(commands'),
           t.out = <<>> /\ states = <<>> /\ commands' = <<>> /\ vpn.state = "Connected" =>
              Up(ctl) \/ (t.protocol = V!NoProtocol /\ t.stack = <<>>)
    PROVE  Agreed'
<1>1. /\ DOMAIN vpn' = VpnFields /\ vpn'.out = <<>> /\ vpn'.state = t.state
      /\ vpn'.stack = t.stack /\ vpn'.protocol = t.protocol /\ states' = states \o t.out
  BY DEF V!Becomes, Told, VpnFields
<1>2. /\ t.out \in Seq(Signals) /\ states \in Seq(Signals)
      /\ t.out # <<>> => t.out[Len(t.out)].state = t.state
      /\ t.out = <<>> => t.state = vpn.state
  BY DEF Told, Agreed
<1>3. Told(vpn, vpn.state)'
  <2>1. <<>> \in Seq(Signals) /\ Framed(t.stack)
    BY SMTT(30) DEF Told
  <2> QED
    BY <1>1, <2>1 DEF Told
<1>4. states' \in Seq(Signals)
  BY <1>1, <1>2, SMTT(30)
<1>5. CASE t.out = <<>>
  <2>1. states' = states /\ vpn'.state = vpn.state
    BY <1>1, <1>2, <1>5, SMTT(30)
  <2> QED
    BY <1>1, <1>3, <1>4, <1>5, <2>1, SMTT(30) DEF Agreed, Up
<1>6. CASE t.out # <<>>
  <2>1. states' # <<>> /\ states'[Len(states')] = t.out[Len(t.out)]
    BY <1>1, <1>2, <1>6, SMTT(30)
  <2> QED
    BY <1>1, <1>2, <1>3, <1>4, <1>6, <2>1, SMTT(30) DEF Agreed
<1> QED
  BY <1>5, <1>6

\* A queued call is run.
LEMMA RunCommandAgreed ==
    ASSUME Agreed, V!RunCommand, ctl' = ctl
    PROVE  Agreed'
<1> DEFINE command == Head(commands)
           t == IF command = V!DisconnectCall THEN V!DisconnectFromVpn(vpn)
                                              ELSE V!ConnectToVpn(vpn, command)
<1>1. commands # <<>> /\ V!Becomes(t) /\ commands' = Tail(commands)
  BY DEF V!RunCommand
<1>2. Told(vpn, vpn.state) /\ commands \in Seq(Rows \cup {DisconnectCall})
  BY DEF Agreed
<1>3. /\ commands' \in Seq(Rows \cup {DisconnectCall})
      /\ Len(commands') = Len(commands) - 1 /\ Len(commands) \in Nat
      /\ \A i \in 1 .. Len(commands) - 1 : commands'[i] = commands[i + 1]
      /\ command = commands[1]
  BY <1>1, <1>2, SMTT(30)
<1>4. /\ Told(t, vpn.state)
      /\ t.out = <<>> => command = DisconnectCall /\ vpn.state = "Reconnecting"
  <2>1. CASE command = DisconnectCall
    <3>1. t = V!DisconnectFromVpn(vpn)
      BY <2>1 DEF DisconnectCall, V!DisconnectCall
    <3> HIDE DEF t, command
    <3> QED
      BY <1>2, <2>1, <3>1, DisconnectFromVpnTold
  <2>2. CASE command # DisconnectCall
    <3>1. t = V!ConnectToVpn(vpn, command)
      BY <2>2 DEF DisconnectCall, V!DisconnectCall
    <3> HIDE DEF t, command
    <3> QED
      BY <1>2, <3>1, ConnectToVpnTold
  <2> QED
    BY <2>1, <2>2
<1> HIDE DEF t, command
<1>5. ASSUME t.out = <<>>, Pending(commands)
      PROVE  Pending(commands')
  <2>1. PICK i \in DOMAIN commands : commands[i] # DisconnectCall
    BY <1>5 DEF Pending
  <2>2. i \in 1 .. Len(commands) /\ i # 1
    BY <1>2, <1>3, <1>4, <1>5, <2>1, SMTT(30)
  <2>3. i - 1 \in 1 .. Len(commands) - 1 /\ commands'[i - 1] = commands[(i - 1) + 1]
    BY <1>3, <2>2
  <2>4. (i - 1) + 1 = i /\ i - 1 \in DOMAIN commands'
    BY <1>3, <2>2, <2>3, SMTT(30)
  <2> QED
    BY <2>1, <2>3, <2>4 DEF Pending
<1> QED
  BY <1>1, <1>3, <1>4, <1>5, BecomesAgreed

\* A waiting handler goes on.
LEMMA ResumeAgreed ==
    ASSUME Agreed, V!Resume, ctl' = ctl
    PROVE  Agreed'
<1> DEFINE t == [vpn EXCEPT !.stack = Tail(@)]
           frame == Head(vpn.stack)
<1>1. vpn.stack # <<>> /\ commands' = commands
  BY DEF V!Resume
<1>2. PICK ok \in BOOLEAN : \E u \in V!Resumed(t, frame, ok) : V!Becomes(u)
  BY DEF V!Resume
<1>3. PICK u \in V!Resumed(t, frame, ok) : V!Becomes(u)
  BY <1>2
<1>4. PICK S : vpn.stack \in Seq(S) /\ \A f \in S : f.op \in Ops
  BY DEF Agreed, Told, Framed
<1>5. frame \in S /\ Tail(vpn.stack) \in Seq(S)
  BY <1>1, <1>4, SMTT(30)
<1>6. Told(t, vpn.state)
  <2>1. /\ DOMAIN t = VpnFields /\ t.out = vpn.out /\ t.state = vpn.state
        /\ t.stack = Tail(vpn.stack)
    BY DEF Agreed, Told, VpnFields
  <2> HIDE DEF t
  <2>2. Framed(t.stack)
    BY <1>4, <1>5, <2>1 DEF Framed
  <2> QED
    BY <2>1, <2>2 DEF Agreed, Told
<1>7. frame.op \in Ops
  BY <1>4, <1>5
<1> HIDE DEF t, frame
<1>8. Told(u, vpn.state)
  BY <1>6, <1>7, ResumedTold
<1>9. commands' \in Seq(Rows \cup {DisconnectCall})
  BY <1>1 DEF Agreed
<1>10. states = <<>> /\ commands' = <<>> /\ vpn.state = "Connected" => Up(ctl)
  BY <1>1 DEF Agreed
<1> QED
  BY <1>1, <1>3, <1>8, <1>9, <1>10, BecomesAgreed

\* The network has changed.
LEMMA ReconnectAgreed ==
    ASSUME Agreed, V!Reconnect, ctl' = ctl
    PROVE  Agreed'
<1> DEFINE t == V!ReconnectToVpn(vpn)
<1>1. V!Becomes(t) /\ commands' = commands
  BY DEF V!Reconnect
<1>2. Told(t, vpn.state) /\ (vpn.protocol = V!NoProtocol => t = vpn)
  BY ReconnectToVpnTold DEF Agreed
<1> HIDE DEF t
<1>3. commands' \in Seq(Rows \cup {DisconnectCall})
  BY <1>1, SMTT(30) DEF Agreed
<1>4. states = <<>> /\ commands' = <<>> /\ vpn.state = "Connected" =>
         Up(ctl) \/ (t.protocol = V!NoProtocol /\ t.stack = <<>>)
  BY <1>1, <1>2 DEF Agreed
<1> QED
  BY <1>1, <1>2, <1>3, <1>4, BecomesAgreed

\* A tunnel comes up or is lost: there is a protocol.
LEMMA TunnelAgreed ==
    ASSUME Agreed, V!TunnelUp \/ V!TunnelLost, ctl' = ctl
    PROVE  Agreed'
<1>1. vpn.protocol # V!NoProtocol /\ commands' = commands
  BY DEF V!TunnelUp, V!TunnelLost, V!NoProtocol
<1>2. Told(vpn, vpn.state) /\ commands' \in Seq(Rows \cup {DisconnectCall})
  BY <1>1 DEF Agreed
<1>3. states = <<>> /\ commands' = <<>> /\ vpn.state = "Connected" => Up(ctl)
  BY <1>1 DEF Agreed
<1>4. PICK t : V!Becomes(t) /\ Told(t, vpn.state)
  <2>1. CASE V!TunnelUp
    <3>1. PICK run : LET t == [vpn EXCEPT !.protocol.run = run]
                     IN  V!Becomes(IF V!IsXray(t.protocol)
                                   THEN V!Wait(t, V!Frame("setup", t.protocol, 0))
                                   ELSE V!SetProtocolState(t, "Connected"))
      BY <2>1, Zenon DEF V!TunnelUp
    <3> DEFINE p == [vpn.protocol EXCEPT !.run = run]
               t == [vpn EXCEPT !.protocol = p]
               frame == V!Frame("setup", t.protocol, 0)
    <3>2. V!Becomes(IF V!IsXray(t.protocol) THEN V!Wait(t, frame)
                                            ELSE V!SetProtocolState(t, "Connected"))
      BY <3>1
    <3>3. Told(t, vpn.state)
      BY <1>2, SilentTold, Zenon
    <3> HIDE DEF t
    <3>4. frame.op = "setup"
      BY FrameOp
    <3>5. frame.op \in Ops /\ "Connected" \in ConnectionState
      BY <3>4, SMTT(30) DEF Ops, ConnectionState
    <3> HIDE DEF frame
    <3>6. Told(V!Wait(t, frame), vpn.state) /\ Told(V!SetProtocolState(t, "Connected"), vpn.state)
      BY <3>3, <3>5, WaitTold, SetProtocolStateTold
    <3> QED
      BY <3>2, <3>6
  <2>2. CASE V!TunnelLost
    <3> DEFINE p == [vpn.protocol EXCEPT !.run = "ended"]
               t == [vpn EXCEPT !.protocol = p]
    <3>1. V!Becomes(IF V!IsXray(vpn.protocol) THEN V!Stop(t, "stopError", 0)
                                              ELSE V!Stopped(vpn, "lost"))
      BY <2>2 DEF V!TunnelLost
    <3>2. Told(t, vpn.state) /\ "stopError" \in StopOps
      BY <1>2, SilentTold, Zenon DEF StopOps
    <3> HIDE DEF t
    <3>3. Told(V!Stop(t, "stopError", 0), vpn.state) /\ Told(V!Stopped(vpn, "lost"), vpn.state)
      BY <1>2, <3>2, StopTold, StoppedTold
    <3> QED
      BY <3>1, <3>3
  <2> QED
    BY <2>1, <2>2
<1> QED
  BY <1>1, <1>2, <1>3, <1>4, BecomesAgreed

\* A handler of the main thread leads to a controller that is safe, and which is
\* steady or, with the signal handled, shows its state.
LEMMA MainAgreed ==
    ASSUME Agreed, NEW outcomes, Main(outcomes),
           \A c \in outcomes :
              /\ Safe(c)
              /\ \/ states' = states /\ Steady(c, ctl)
                 \/ /\ states # <<>> /\ states' = Tail(states)
                    /\ Head(states).state # "Connected" => Shown(c, ctl)
                    /\ Head(states).state = "Connected" => Up(c)
    PROVE  Agreed'
<1>1. PICK c \in outcomes : ctl' = [c EXCEPT !.calls = <<>>] /\ commands' = commands \o c.calls
  BY Zenon DEF Main
<1>2. Safe(c) /\ vpn' = vpn
  BY <1>1 DEF Main
<1>3. /\ Safe(ctl') /\ ctl'.calls = <<>> /\ ctl'.connected = c.connected /\ ctl'.state = c.state
  BY <1>1, <1>2, EmptiedSafe
<1>4. /\ commands \in Seq(Rows \cup {DisconnectCall}) /\ c.calls \in Seq(Rows \cup {DisconnectCall})
      /\ states \in Seq(Signals) /\ ctl.calls = <<>>
  BY <1>2, SafeFormed DEF Agreed, Formed
<1>5. /\ commands' \in Seq(Rows \cup {DisconnectCall})
      /\ c.calls # <<>> => commands' # <<>>
      /\ commands # <<>> => commands' # <<>>
  BY <1>1, <1>4, SMTT(30)
<1>6. Pending(commands) => Pending(commands')
  <2>1. SUFFICES ASSUME NEW i \in DOMAIN commands, commands[i] # DisconnectCall
                 PROVE  Pending(commands')
    BY DEF Pending
  <2>2. i \in DOMAIN commands' /\ commands'[i] = commands[i]
    BY <1>1, <1>4, SMTT(30)
  <2> QED
    BY <2>1, <2>2, SMTT(30) DEF Pending
<1>7. ~ConnectsNot(c) => Pending(commands')
  <2>1. SUFFICES ASSUME NEW i \in DOMAIN c.calls, c.calls[i] # DisconnectCall
                 PROVE  Pending(commands')
    BY DEF ConnectsNot
  <2>2. Len(commands) + i \in DOMAIN commands' /\ commands'[Len(commands) + i] = c.calls[i]
    BY <1>1, <1>4, SMTT(30)
  <2> QED
    BY <2>1, <2>2 DEF Pending
<1>8. CASE states' = states /\ Steady(c, ctl)
  <2>1. /\ ctl'.connected => ctl.connected
        /\ Up(ctl) => Up(ctl') \/ commands' # <<>>
        /\ ctl'.state = "Connected" => ctl'.connected
    BY <1>3, <1>5, <1>8, SMTT(30) DEF Steady, Up, Agreed
  <2>2. states' \in Seq(Signals)
    BY <1>4, <1>8, SMTT(30)
  <2>3. states' = <<>> /\ ctl'.connected /\ vpn'.state # "Connected" => Pending(commands')
    BY <1>2, <1>6, <1>8, <2>1, SMTT(30) DEF Agreed
  <2>4. states' = <<>> /\ commands' = <<>> /\ vpn'.state = "Connected" =>
           Up(ctl') \/ (vpn'.protocol = V!NoProtocol /\ vpn'.stack = <<>>)
    BY <1>2, <1>5, <1>8, <2>1, SMTT(30) DEF Agreed
  <2> QED
    BY <1>2, <1>3, <1>5, <1>8, <2>1, <2>2, <2>3, <2>4, SMTT(30) DEF Agreed, Up
<1>9. CASE /\ states # <<>> /\ states' = Tail(states)
           /\ Head(states).state # "Connected" => Shown(c, ctl)
           /\ Head(states).state = "Connected" => Up(c)
  <2>1. /\ states' \in Seq(Signals)
        /\ states' # <<>> => states'[Len(states')] = states[Len(states)]
        /\ states' = <<>> => Head(states) = states[Len(states)]
    <3>1. /\ states' \in Seq(Signals) /\ Len(states') = Len(states) - 1
          /\ Len(states) \in Nat /\ Len(states) # 0 /\ Head(states) = states[1]
          /\ \A i \in 1 .. Len(states) - 1 : states'[i] = states[i + 1]
      BY <1>4, <1>9
    <3>2. states' = <<>> => Len(states) = 1
      BY <3>1
    <3>3. ASSUME states' # <<>>
          PROVE  states'[Len(states')] = states[Len(states)]
      <4>1. Len(states) - 1 \in 1 .. Len(states) - 1 /\ (Len(states) - 1) + 1 = Len(states)
        BY <3>1, <3>3, SMTT(30)
      <4> QED
        BY <3>1, <4>1
    <3> QED
      BY <3>1, <3>2, <3>3, SMTT(30)
  <2>2. states' = <<>> => Head(states).state = vpn.state
    BY <1>9, <2>1, SMTT(30) DEF Agreed
  <2>3. ctl'.state = "Connected" => ctl'.connected
    BY <1>3, <1>9, SMTT(30) DEF Shown, Up
  <2>4. states' = <<>> /\ ctl'.connected /\ vpn'.state # "Connected" => Pending(commands')
    BY <1>2, <1>3, <1>7, <1>9, <2>2, SMTT(30) DEF Shown
  <2>5. states' = <<>> /\ vpn'.state = "Connected" => Up(ctl')
    BY <1>2, <1>3, <1>9, <2>2, SMTT(30) DEF Up
  <2>6. states' # <<>> => states'[Len(states')].state = vpn'.state
    BY <1>2, <1>9, <2>1 DEF Agreed
  <2> QED
    BY <1>2, <1>3, <1>5, <2>1, <2>3, <2>4, <2>5, <2>6, SMTT(30) DEF Agreed, Up
<1> QED
  BY <1>1, <1>8, <1>9

\* Every step of the two threads keeps the invariant, with a service that runs.
LEMMA ConnectionNextAgreed ==
    ASSUME Service \subseteq {TRUE}, Agreed, [ConnectionNext]_vars
    PROVE  Agreed'
<1>1. Safe(ctl) /\ Formed(ctl) /\ ConnectsNot(ctl) /\ (ctl.state = "Connected" => ctl.connected)
  <2>1. Safe(ctl) /\ ctl.calls = <<>> /\ (ctl.state = "Connected" => ctl.connected)
    BY DEF Agreed
  <2> QED
    BY <2>1, SafeFormed, SMTT(30) DEF ConnectsNot
<1>2. ASSUME NEW outcomes, Main(outcomes), states' = states,
             \A c \in outcomes : Safe(c) /\ Steady(c, ctl)
      PROVE  Agreed'
  BY <1>2, MainAgreed
<1>3. CASE UserRequest
  <2>1. states' = states
    BY <1>3 DEF UserRequest
  <2>2. CASE Main(ToggleConnection(ctl))
    BY <1>1, <1>2, <2>1, <2>2, ToggleConnectionSafe, ToggleConnectionSteady, Zenon
  <2>3. CASE Main(ChooseServer(ctl))
    BY <1>1, <1>2, <2>1, <2>3, ChooseServerSafe, ChooseServerSteady, Zenon
  <2>4. CASE Main(ChooseAuto(ctl))
    BY <1>1, <1>2, <2>1, <2>4, ChooseAutoSafe, ChooseAutoSteady, Zenon
  <2>5. CASE Main(TrayConnect(ctl))
    BY <1>1, <1>2, <2>1, <2>5, TraySafe, TraySteady, Zenon
  <2>6. CASE Main(TrayDisconnect(ctl))
    BY <1>1, <1>2, <2>1, <2>6, TraySafe, TraySteady, Zenon
  <2>7. CASE Main(TranslationsUpdated(ctl))
    BY <1>1, <1>2, <2>1, <2>7, TranslationsUpdatedSafe, TranslationsUpdatedSteady
  <2> QED
    BY <1>3, <2>2, <2>3, <2>4, <2>5, <2>6, <2>7, SMTT(30) DEF UserRequest
<1>4. CASE MainEvent
  <2>1. states' = states
    BY <1>4 DEF MainEvent
  <2>2. CASE Main(HealthUpdated(ctl))
    BY <1>1, <1>2, <2>1, <2>2, ProbeEventsSafe, ProbeEventsSteady, SMTT(30)
  <2>3. CASE Main(ProbingFinished(ctl))
    BY <1>1, <1>2, <2>1, <2>3, ProbeEventsSafe, ProbeEventsSteady, SMTT(30)
  <2>4. CASE Main(InstallsDone(ctl))
    BY <1>1, <1>2, <2>1, <2>4, InstallsDoneSafe, InstallsDoneSteady, SMTT(30)
  <2>5. CASE Main(ProbeTimeout(ctl))
    BY <1>1, <1>2, <2>1, <2>5, ProbeEventsSafe, ProbeEventsSteady, SMTT(30)
  <2>6. CASE Main(AttemptTimeout(ctl))
    BY <1>1, <1>2, <2>1, <2>6, AttemptTimeoutSafe, AttemptTimeoutSteady
  <2>7. CASE Main(IpTrafficTimeout(ctl))
    BY <1>1, <1>2, <2>1, <2>7, IpTrafficTimeoutSafe, IpTrafficTimeoutSteady
  <2>8. CASE Main(ManualTimeout(ctl))
    BY <1>1, <1>2, <2>1, <2>8, ManualTimeoutSafe, ManualTimeoutSteady
  <2> QED
    BY <1>4, <2>2, <2>3, <2>4, <2>5, <2>6, <2>7, <2>8 DEF MainEvent
<1>5. CASE ReportBytes
  <2>1. Main(BytesReceived(ctl)) /\ states' = states
    BY <1>5 DEF ReportBytes
  <2> QED
    BY <1>1, <1>2, <2>1, BytesReceivedSafe, BytesReceivedSteady, SMTT(30)
<1>6. CASE NextState
  <2> DEFINE c == Announce(ctl, Head(states).state)
  <2>1. states # <<>> /\ Main({c}) /\ states' = Tail(states)
    BY <1>6 DEF NextState
  <2>2. Head(states).state \in ConnectionState
    <3>1. Head(states) \in Signals
      BY <2>1 DEF Agreed
    <3> QED
      BY <3>1, SMTT(30) DEF Signals
  <2>3. /\ Safe(c) /\ (Head(states).state # "Connected" => Shown(c, ctl))
        /\ (Head(states).state = "Connected" => Up(c))
    BY <1>1, <2>2, AnnounceSafe, AnnounceShown
  <2> HIDE DEF c
  <2> QED
    BY <2>1, <2>3, MainAgreed
<1>7. CASE VpnThread
  BY <1>7, RunCommandAgreed, ResumeAgreed, TunnelAgreed DEF VpnThread
<1>8. CASE NetworkChanged
  BY <1>8, ReconnectAgreed, SMTT(30) DEF NetworkChanged
<1>9. CASE UNCHANGED vars
  BY <1>9, SMTT(30) DEF vars, Agreed, Up
<1> QED
  BY <1>3, <1>4, <1>5, <1>6, <1>7, <1>8, <1>9, SMTT(30) DEF ConnectionNext

\* The threads start without a signal, a call or a protocol.
LEMMA ConnectionInitAgreed == ConnectionInit => Agreed
<1> SUFFICES ASSUME ConnectionInit
             PROVE  Agreed
  OBVIOUS
<1>1. Safe(ctl)
  BY InitSafe DEF ConnectionInit
<1>2. ctl.calls = <<>> /\ ctl.connected = FALSE /\ ctl.state = "Disconnected"
  BY Zenon DEF ConnectionInit, Init
<1>3. /\ commands = <<>> /\ states = <<>> /\ vpn.out = <<>> /\ vpn.stack = <<>>
      /\ vpn.protocol = V!NoProtocol /\ DOMAIN vpn = VpnFields
  BY DEF ConnectionInit, V!Init, VpnFields
<1>4. Framed(vpn.stack)
  <2>1. <<>> \in Seq({})
    OBVIOUS
  <2> QED
    BY <1>3, <2>1, SMTT(30) DEF Framed
<1>5. /\ states \in Seq(Signals) /\ commands \in Seq(Rows \cup {DisconnectCall})
      /\ vpn.out \in Seq(Signals)
  BY <1>3
<1>6. Told(vpn, vpn.state)
  BY <1>3, <1>4, <1>5 DEF Told
<1> QED
  BY <1>1, <1>2, <1>3, <1>5, <1>6 DEF Agreed

\* For any server list, any pools and any nesting of the handlers that wait in
\* each other: whenever nothing is under way between the threads, the client shows
\* Connected just when VpnConnection has a protocol in that state, provided that
\* the service runs whenever openConnection() asks.
THEOREM ShownIsTrue ==
    ASSUME Service \subseteq {TRUE}
    PROVE  ConnectionSpec => []DisplayAgrees
<1>1. Agreed /\ [ConnectionNext]_vars => Agreed'
  BY ConnectionNextAgreed, Zenon
<1>2. Agreed => DisplayAgrees
  BY DEF Agreed, DisplayAgrees, Quiet, Pending, Up
<1> QED
  BY <1>1, <1>2, ConnectionInitAgreed, PTL DEF ConnectionSpec

=============================================================================

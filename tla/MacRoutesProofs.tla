-------------------------- MODULE MacRoutesProofs --------------------------
(***************************************************************************)
(* What TLAPS proves of MacRoutes, for any links and gateways and for      *)
(* queues of any length on the routing sockets, and of the route tool      *)
(* (RouteTool), for any addresses. The first part is about one queue: its  *)
(* messages lead a monitor from the default route it knows to the          *)
(* kernel's. The second is about the routes that two monitors and the      *)
(* kernel move at the same time. The third is about the globals of the     *)
(* tool that calls leave to the next.                                      *)
(***************************************************************************)
EXTENDS MacRoutes, RouteTool, TLAPS

\* A CASE with a true guard has its value.  The translation for the SMT solver infers no
\* types for a step that may use a CASE expression; for the large records of these
\* steps, inferring them would take it longer than it is given.
LEMMA Untyped == (CASE TRUE -> 0) = 0
  OBVIOUS
USE Untyped

\* Every default route of either family.
Hops == MacHops["v4"] \cup MacHops["v6"]
HopsOrNone == Hops \cup {NoHop}
\* The messages of a routing socket.
MsgSet == [type : {"add", "get", "change", "delete"}, fam : Families, hop : Hops, scoped : BOOLEAN]

\* The messages of a queue that tell of the default route of a family
Mine(q, f) == {i \in DOMAIN q : q[i].fam = f /\ ~q[i].scoped}

\* A message that follows a default route, and the default route after a message
Follows(msg) == msg.type \in {"change", "delete"}
DefAfter(msg) == IF msg.type = "delete" THEN NoHop ELSE msg.hop

DeletedFrom(q, f, i) == \E j \in Mine(q, f) : i <= j /\ q[j].type = "delete"
Withdrawn(q, f) == DeletedFrom(q, f, 0)

\* The last message of the family is a change.
Corrects(q, f) == \E i \in Mine(q, f) : q[i].type = "change" /\ \A j \in Mine(q, f) : j <= i

\* The messages of a queue lead from the default route d, which the monitor
\* knows, to s, the kernel's.
Chain(q, f, d, s) ==
    /\ Mine(q, f) = {} => d = s
    /\ \A i \in Mine(q, f) : (\A j \in Mine(q, f) : i <= j) => (Follows(q[i]) <=> d # NoHop)
    /\ \A i, j \in Mine(q, f) :
          i < j /\ (\A k \in Mine(q, f) : k <= i \/ j <= k) => (Follows(q[j]) <=> q[i].type # "delete")
    /\ \A i \in Mine(q, f) : (\A j \in Mine(q, f) : j <= i) => s = DefAfter(q[i])

\* From the last loss of a default route on, all is about the link of s.
OneLink(q, f, d, s) ==
    /\ \A i \in Mine(q, f) : ~DeletedFrom(q, f, i) => LinkOf(q[i].hop) = LinkOf(s)
    /\ ~Withdrawn(q, f) /\ d # NoHop => LinkOf(d) = LinkOf(s)

\* Without a loss to come, the last of several messages is a change.
Settling(q, f, d) ==
    /\ \A i, j \in Mine(q, f) : i < j /\ ~DeletedFrom(q, f, i) => Corrects(q, f)
    /\ \A i \in Mine(q, f) : ~Withdrawn(q, f) /\ d # NoHop => Corrects(q, f)

\* The queue of a monitor that knows d leads to the kernel's default route s.
Leads(q, f, d, s) == Chain(q, f, d, s) /\ OneLink(q, f, d, s) /\ Settling(q, f, d)

\* A default route has a link, and none has not.
LEMMA HopFacts == /\ NoHop \notin Hops /\ LinkOf(NoHop) = "none"
                  /\ \A h \in Hops : LinkOf(h) \in MacLinks /\ LinkOf(h) # "none" /\ h # NoHop
<1>1. LinkOf(NoHop) = "none"
  BY DEF LinkOf, NoHop
<1>2. \A h \in Hops : LinkOf(h) \in MacLinks
  BY DEF Hops, MacLinks
<1> QED BY <1>1, <1>2, MacLinksAssumption

\* The kernel appends a message to a queue.
LEMMA AppendAt ==
    ASSUME NEW q \in Seq(MsgSet), NEW msg \in MsgSet
    PROVE  /\ Append(q, msg) \in Seq(MsgSet)
           /\ DOMAIN q = 1 .. Len(q) /\ Len(q) \in Nat
           /\ DOMAIN Append(q, msg) = 1 .. (Len(q) + 1)
           /\ \A i \in 1 .. Len(q) : Append(q, msg)[i] = q[i]
           /\ Append(q, msg)[Len(q) + 1] = msg
OBVIOUS

\* The messages about a family after one more.
LEMMA AppendMine ==
    ASSUME NEW q \in Seq(MsgSet), NEW msg \in MsgSet, NEW f
    PROVE  Mine(Append(q, msg), f) = Mine(q, f) \cup (IF msg.fam = f /\ ~msg.scoped THEN {Len(q) + 1} ELSE {})
<1> DEFINE r == Append(q, msg)
<1>1. /\ DOMAIN q = 1 .. Len(q) /\ Len(q) \in Nat /\ DOMAIN r = 1 .. (Len(q) + 1)
      /\ (\A i \in 1 .. Len(q) : r[i] = q[i]) /\ r[Len(q) + 1] = msg
  BY AppendAt
<1> HIDE DEF r
<1>2. \A i \in Mine(r, f) : i \in Mine(q, f) \/ (i = Len(q) + 1 /\ msg.fam = f /\ ~msg.scoped)
  BY <1>1 DEF Mine
<1>3. \A i \in Mine(q, f) : i \in Mine(r, f)
  BY <1>1 DEF Mine
<1>4. msg.fam = f /\ ~msg.scoped => Len(q) + 1 \in Mine(r, f)
  BY <1>1 DEF Mine
<1> QED BY <1>2, <1>3, <1>4 DEF r

\* A message about something else changes nothing.
LEMMA AppendOther ==
    ASSUME NEW q \in Seq(MsgSet), NEW msg \in MsgSet, NEW f, NEW d, NEW s, ~(msg.fam = f /\ ~msg.scoped)
    PROVE  LET r == Append(q, msg)
           IN  /\ Mine(r, f) = Mine(q, f)
               /\ \A i : DeletedFrom(r, f, i) <=> DeletedFrom(q, f, i)
               /\ Corrects(r, f) <=> Corrects(q, f)
               /\ Leads(q, f, d, s) => Leads(r, f, d, s)
<1> DEFINE r == Append(q, msg)
<1>1. Mine(r, f) = Mine(q, f)
  <2>1. Mine(r, f) = Mine(q, f) \cup {}
    BY AppendMine, Zenon
  <2> QED BY <2>1
<1>2. \A i \in Mine(q, f) : r[i] = q[i]
  BY AppendAt DEF Mine
<1> HIDE DEF r
<1>3. \A i : DeletedFrom(r, f, i) <=> DeletedFrom(q, f, i)
  BY <1>1, <1>2 DEF DeletedFrom
<1>4. Corrects(r, f) <=> Corrects(q, f)
  BY <1>1, <1>2 DEF Corrects
<1>5. Chain(q, f, d, s) => Chain(r, f, d, s)
  BY <1>1, <1>2 DEF Chain
<1>6. OneLink(q, f, d, s) => OneLink(r, f, d, s)
  BY <1>1, <1>2, <1>3 DEF OneLink, Withdrawn
<1>7. Settling(q, f, d) => Settling(r, f, d)
  BY <1>1, <1>3, <1>4 DEF Settling, Withdrawn
<1> QED BY <1>1, <1>3, <1>4, <1>5, <1>6, <1>7 DEF r, Leads

\* A message of the kernel about the default route
Tells(msg, f, s, t) ==
    /\ msg.fam = f /\ ~msg.scoped /\ t = DefAfter(msg)
    /\ Follows(msg) <=> s # NoHop
    /\ msg.type = "change" => LinkOf(msg.hop) = LinkOf(s)

\* A message about the default route of the family keeps the queue leading to
\* the route, and settles whether a loss or a correction waits.
LEMMA AppendTells ==
    ASSUME NEW q \in Seq(MsgSet), NEW msg \in MsgSet, NEW f, NEW d \in HopsOrNone, NEW s \in HopsOrNone, NEW t,
           Tells(msg, f, s, t), Leads(q, f, d, s)
    PROVE  LET r == Append(q, msg)
           IN  /\ Mine(r, f) # {}
               /\ Withdrawn(r, f) <=> Withdrawn(q, f) \/ msg.type = "delete"
               /\ Corrects(r, f) <=> msg.type = "change"
               /\ Leads(r, f, d, t)
<1> DEFINE r == Append(q, msg)
           n == Len(q) + 1
<1>0. Chain(q, f, d, s) /\ OneLink(q, f, d, s)
  BY DEF Leads
<1>1. Mine(r, f) = Mine(q, f) \cup {n}
  BY AppendMine DEF Tells
<1>2. /\ \A i \in Mine(q, f) : r[i] = q[i] /\ i \in Nat /\ i < n /\ q[i] \in MsgSet
      /\ r[n] = msg /\ n \in Nat /\ n > 0
  BY AppendAt DEF Mine
<1> HIDE DEF r, n
<1>3. Mine(r, f) # {}
  BY <1>1
<1>4. \A i \in Mine(q, f) : DeletedFrom(r, f, i) <=> DeletedFrom(q, f, i) \/ msg.type = "delete"
  BY <1>1, <1>2 DEF DeletedFrom
<1>5. Withdrawn(r, f) <=> Withdrawn(q, f) \/ msg.type = "delete"
  BY <1>1, <1>2 DEF DeletedFrom, Withdrawn
<1>6. Corrects(r, f) <=> msg.type = "change"
  <2>1. \A i \in Mine(r, f) : i <= n
    BY <1>1, <1>2
  <2>2. \A i \in Mine(r, f) : (\A j \in Mine(r, f) : j <= i) => i = n
    BY <1>1, <1>2
  <2> QED BY <1>1, <1>2, <2>1, <2>2 DEF Corrects
<1>7. Chain(r, f, d, t)
  <2>1. ASSUME NEW i \in Mine(r, f), \A j \in Mine(r, f) : i <= j
        PROVE  Follows(r[i]) <=> d # NoHop
    <3>1. CASE i = n
      <4>1. \A k \in Mine(q, f) : n <= k /\ k < n /\ k \in Nat
        BY <1>1, <1>2, <2>1, <3>1
      <4>x. Mine(q, f) = {}
        BY <1>2, <4>1
      <4>2. d = s
        BY <1>0, <4>x DEF Chain
      <4> QED BY <1>2, <3>1, <4>2 DEF Tells
    <3>2. CASE i \in Mine(q, f)
      BY <1>0, <1>1, <1>2, <2>1, <3>2 DEF Chain
    <3> QED BY <1>1, <3>1, <3>2
  <2>2. ASSUME NEW i \in Mine(r, f), NEW j \in Mine(r, f), i < j, \A k \in Mine(r, f) : k <= i \/ j <= k
        PROVE  Follows(r[j]) <=> r[i].type # "delete"
    <3>0. i \in Mine(q, f)
      BY <1>1, <1>2, <2>2
    <3>1. CASE j = n
      <4>1. \A k \in Mine(q, f) : k <= i
        BY <1>1, <1>2, <2>2, <3>1
      <4>2. s = DefAfter(q[i]) /\ q[i].hop \in Hops
        BY <1>0, <1>2, <3>0, <4>1 DEF Chain, MsgSet
      <4>3. s # NoHop <=> q[i].type # "delete"
        BY <4>2, HopFacts DEF DefAfter
      <4> QED BY <1>2, <3>0, <3>1, <4>3, Zenon DEF Tells
    <3>2. CASE j \in Mine(q, f)
      <4>1. \A k \in Mine(q, f) : k <= i \/ j <= k
        BY <1>1, <2>2
      <4> QED BY <1>0, <1>2, <2>2, <3>0, <3>2, <4>1 DEF Chain
    <3> QED BY <1>1, <3>1, <3>2
  <2>3. ASSUME NEW i \in Mine(r, f), \A j \in Mine(r, f) : j <= i
        PROVE  t = DefAfter(r[i])
    <3>1. i = n
      BY <1>1, <1>2, <2>3
    <3> QED BY <1>2, <3>1 DEF Tells
  <2> QED BY <1>3, <2>1, <2>2, <2>3 DEF Chain
<1>8. OneLink(r, f, d, t)
  <2>0. msg.hop \in Hops
    BY DEF MsgSet
  <2>1. CASE msg.type = "delete"
    <3>1. Withdrawn(r, f) /\ \A i \in Mine(r, f) : DeletedFrom(r, f, i)
      BY <1>1, <1>2, <2>1 DEF Withdrawn, DeletedFrom
    <3> QED BY <3>1 DEF OneLink
  <2>2. CASE msg.type # "delete"
    <3>0. t = msg.hop
      BY <2>2 DEF Tells, DefAfter
    <3>1. ASSUME NEW i \in Mine(q, f), ~DeletedFrom(q, f, i)
          PROVE  LinkOf(q[i].hop) = LinkOf(t)
      <4>1. LinkOf(q[i].hop) = LinkOf(s) /\ q[i].hop \in Hops
        BY <1>0, <1>2, <3>1 DEF OneLink, MsgSet
      <4>2. s # NoHop
        BY <4>1, HopFacts
      <4>3. msg.type = "change"
        BY <2>2, <4>2 DEF Tells, Follows
      <4> QED BY <3>0, <4>1, <4>3 DEF Tells
    <3>2. ASSUME ~Withdrawn(q, f), d # NoHop PROVE LinkOf(d) = LinkOf(t)
      <4>1. LinkOf(d) = LinkOf(s) /\ d \in Hops
        BY <1>0, <3>2 DEF OneLink, HopsOrNone
      <4>2. s # NoHop
        BY <4>1, HopFacts
      <4>3. msg.type = "change"
        BY <2>2, <4>2 DEF Tells, Follows
      <4> QED BY <3>0, <4>1, <4>3 DEF Tells
    <3>3. \A i \in Mine(r, f) : ~DeletedFrom(r, f, i) => LinkOf(r[i].hop) = LinkOf(t)
      BY <1>1, <1>2, <1>4, <3>0, <3>1
    <3> QED BY <1>5, <3>2, <3>3 DEF OneLink
  <2> QED BY <2>1, <2>2
<1>9. Settling(r, f, d)
  <2>1. CASE msg.type = "delete"
    BY <1>1, <1>2, <2>1 DEF Settling, Withdrawn, DeletedFrom
  <2>2. CASE msg.type = "change"
    BY <1>6, <2>2 DEF Settling
  <2>3. CASE msg.type \in {"add", "get"}
    <3>1. s = NoHop
      BY <2>3 DEF Tells, Follows
    <3>2. \A i \in Mine(q, f) : DeletedFrom(q, f, i)
      BY <1>0, <1>2, <3>1, HopFacts DEF OneLink, MsgSet
    <3>3. d # NoHop => Withdrawn(q, f)
      BY <1>0, <3>1, HopFacts DEF OneLink, HopsOrNone
    <3>4. \A i, j \in Mine(r, f) : i < j => i \in Mine(q, f)
      BY <1>1, <1>2
    <3> QED BY <1>4, <1>5, <3>2, <3>3, <3>4 DEF Settling
  <2> QED BY <2>1, <2>2, <2>3 DEF MsgSet
<1> QED BY <1>3, <1>5, <1>6, <1>7, <1>8, <1>9 DEF r, Leads

\* The messages about a family in what is left of a queue.
LEMMA TailMine ==
    ASSUME NEW q \in Seq(MsgSet), q # <<>>, NEW f
    PROVE  /\ Tail(q) \in Seq(MsgSet) /\ Head(q) = q[1] /\ Head(q) \in MsgSet
           /\ \A i \in Mine(Tail(q), f) : i \in Nat /\ i >= 1 /\ i + 1 \in Mine(q, f) /\ Tail(q)[i] = q[i + 1]
           /\ \A j \in Mine(q, f) : j \in Nat /\ j >= 1 /\ (j # 1 => j - 1 \in Mine(Tail(q), f) /\ Tail(q)[j - 1] = q[j])
           /\ 1 \in Mine(q, f) <=> Head(q).fam = f /\ ~Head(q).scoped
<1> DEFINE t == Tail(q)
<1>1. /\ t \in Seq(MsgSet) /\ Head(q) = q[1] /\ q[1] \in MsgSet
      /\ DOMAIN q = 1 .. Len(q) /\ Len(q) \in Nat /\ Len(q) >= 1
      /\ DOMAIN t = 1 .. (Len(q) - 1) /\ \A i \in 1 .. (Len(q) - 1) : t[i] = q[i + 1]
  OBVIOUS
<1> HIDE DEF t
<1>2. \A i \in Mine(t, f) : i \in Nat /\ i >= 1 /\ i + 1 \in Mine(q, f) /\ t[i] = q[i + 1]
  BY <1>1 DEF Mine
<1>3. ASSUME NEW j \in Mine(q, f)
      PROVE  j \in Nat /\ j >= 1 /\ (j # 1 => j - 1 \in Mine(t, f) /\ t[j - 1] = q[j])
  <2>1. j \in 1 .. Len(q) /\ q[j].fam = f /\ ~q[j].scoped
    BY <1>1 DEF Mine
  <2>2. ASSUME j # 1 PROVE j - 1 \in 1 .. (Len(q) - 1) /\ (j - 1) + 1 = j
    BY <1>1, <2>1, <2>2
  <2>3. ASSUME j # 1 PROVE t[j - 1] = q[j]
    BY <1>1, <2>2, <2>3
  <2> QED BY <1>1, <2>1, <2>2, <2>3 DEF Mine
<1>4. 1 \in Mine(q, f) <=> Head(q).fam = f /\ ~Head(q).scoped
  BY <1>1 DEF Mine
<1> QED BY <1>1, <1>2, <1>3, <1>4, Zenon DEF t

\* A message about something else is dropped.
LEMMA TailOther ==
    ASSUME NEW q \in Seq(MsgSet), q # <<>>, NEW f, NEW d, NEW s, ~(Head(q).fam = f /\ ~Head(q).scoped)
    PROVE  LET t == Tail(q)
           IN  /\ Mine(t, f) = {} <=> Mine(q, f) = {}
               /\ Withdrawn(t, f) <=> Withdrawn(q, f)
               /\ Corrects(t, f) <=> Corrects(q, f)
               /\ Leads(q, f, d, s) => Leads(t, f, d, s)
<1> DEFINE t == Tail(q)
<1>1. \A i \in Mine(t, f) : i \in Nat /\ i >= 1 /\ i + 1 \in Mine(q, f) /\ t[i] = q[i + 1]
  BY TailMine, Zenon
<1>2. \A j \in Mine(q, f) : j \in Nat /\ j > 1 /\ j - 1 \in Mine(t, f) /\ t[j - 1] = q[j]
  <2>1. \A j \in Mine(q, f) : j \in Nat /\ j >= 1 /\ (j # 1 => j - 1 \in Mine(t, f) /\ t[j - 1] = q[j])
    BY TailMine, Zenon
  <2>2. 1 \notin Mine(q, f)
    BY TailMine, Zenon
  <2> HIDE DEF t
  <2> QED BY <2>1, <2>2
<1> HIDE DEF t
<1>3. Mine(t, f) = {} <=> Mine(q, f) = {}
  BY <1>1, <1>2
<1>4. \A i \in Mine(t, f) : DeletedFrom(t, f, i) <=> DeletedFrom(q, f, i + 1)
  <2> SUFFICES ASSUME NEW i \in Mine(t, f) PROVE DeletedFrom(t, f, i) <=> DeletedFrom(q, f, i + 1)
    OBVIOUS
  <2>1. ASSUME NEW j \in Mine(t, f), i <= j, t[j].type = "delete" PROVE DeletedFrom(q, f, i + 1)
    BY <1>1, <2>1 DEF DeletedFrom
  <2>2. ASSUME NEW j \in Mine(q, f), i + 1 <= j, q[j].type = "delete" PROVE DeletedFrom(t, f, i)
    BY <1>1, <1>2, <2>2, SMTT(30) DEF DeletedFrom
  <2> QED BY <2>1, <2>2 DEF DeletedFrom
<1>5. Withdrawn(t, f) <=> Withdrawn(q, f)
  <2>1. ASSUME NEW j \in Mine(t, f), t[j].type = "delete" PROVE Withdrawn(q, f)
    BY <1>1, <2>1 DEF DeletedFrom, Withdrawn
  <2>2. ASSUME NEW j \in Mine(q, f), q[j].type = "delete" PROVE Withdrawn(t, f)
    BY <1>1, <1>2, <2>2 DEF DeletedFrom, Withdrawn
  <2> QED BY <2>1, <2>2 DEF DeletedFrom, Withdrawn
<1>6. Corrects(t, f) <=> Corrects(q, f)
  <2>1. ASSUME NEW i \in Mine(t, f), t[i].type = "change", \A j \in Mine(t, f) : j <= i PROVE Corrects(q, f)
    <3>1. \A j \in Mine(q, f) : j <= i + 1
      BY <1>1, <1>2, <2>1
    <3> QED BY <1>1, <2>1, <3>1 DEF Corrects
  <2>2. ASSUME NEW i \in Mine(q, f), q[i].type = "change", \A j \in Mine(q, f) : j <= i PROVE Corrects(t, f)
    <3>1. \A j \in Mine(t, f) : j <= i - 1
      BY <1>1, <1>2, <2>2
    <3> QED BY <1>2, <2>2, <3>1 DEF Corrects
  <2> QED BY <2>1, <2>2 DEF Corrects
<1>7. ASSUME Chain(q, f, d, s) PROVE Chain(t, f, d, s)
  <2>1. ASSUME NEW i \in Mine(t, f), \A j \in Mine(t, f) : i <= j
        PROVE  Follows(t[i]) <=> d # NoHop
    <3>1. \A j \in Mine(q, f) : i + 1 <= j
      BY <1>1, <1>2, <2>1
    <3> QED BY <1>1, <1>7, <3>1 DEF Chain
  <2>2. ASSUME NEW i \in Mine(t, f), NEW j \in Mine(t, f), i < j, \A k \in Mine(t, f) : k <= i \/ j <= k
        PROVE  Follows(t[j]) <=> t[i].type # "delete"
    <3>0. i \in Nat /\ j \in Nat
      BY <1>1
    <3>1. ASSUME NEW k \in Mine(q, f) PROVE k <= i + 1 \/ j + 1 <= k
      <4>1. k \in Nat /\ (k # 1 => k - 1 \in Mine(t, f))
        BY <1>2
      <4>2. k # 1 => k - 1 <= i \/ j <= k - 1
        BY <2>2, <4>1
      <4> QED BY <3>0, <4>1, <4>2
    <3>2. i + 1 \in Mine(q, f) /\ j + 1 \in Mine(q, f) /\ i + 1 < j + 1
      BY <1>1, <2>2
    <3>3. Follows(q[j + 1]) <=> q[i + 1].type # "delete"
      BY <1>7, <3>1, <3>2 DEF Chain
    <3> QED BY <1>1, <3>3
  <2>3. ASSUME NEW i \in Mine(t, f), \A j \in Mine(t, f) : j <= i
        PROVE  s = DefAfter(t[i])
    <3>1. \A j \in Mine(q, f) : j <= i + 1
      BY <1>1, <1>2, <2>3
    <3> QED BY <1>1, <1>7, <3>1 DEF Chain
  <2> QED BY <1>3, <1>7, <2>1, <2>2, <2>3 DEF Chain
<1>8. ASSUME OneLink(q, f, d, s) PROVE OneLink(t, f, d, s)
  <2>1. \A i \in Mine(t, f) : ~DeletedFrom(t, f, i) => LinkOf(t[i].hop) = LinkOf(s)
    BY <1>1, <1>4, <1>8 DEF OneLink
  <2> QED BY <1>5, <1>8, <2>1 DEF OneLink
<1>9. ASSUME Settling(q, f, d) PROVE Settling(t, f, d)
  <2>1. ASSUME NEW i \in Mine(t, f), NEW j \in Mine(t, f), i < j, ~DeletedFrom(t, f, i) PROVE Corrects(t, f)
    <3>1. i + 1 \in Mine(q, f) /\ j + 1 \in Mine(q, f) /\ i + 1 < j + 1 /\ ~DeletedFrom(q, f, i + 1)
      BY <1>1, <1>4, <2>1
    <3> QED BY <1>6, <1>9, <3>1 DEF Settling
  <2> QED BY <1>1, <1>5, <1>6, <1>9, <2>1 DEF Settling
<1> QED BY <1>3, <1>5, <1>6, <1>7, <1>8, <1>9 DEF t, Leads

\* The first message of the family is handled.
LEMMA TailTells ==
    ASSUME NEW q \in Seq(MsgSet), q # <<>>, NEW f, NEW d \in HopsOrNone, NEW s \in HopsOrNone,
           Head(q).fam = f, ~Head(q).scoped, Leads(q, f, d, s)
    PROVE  LET t == Tail(q)
           IN  /\ Leads(t, f, DefAfter(Head(q)), s)
               /\ Mine(q, f) # {}
               /\ Follows(Head(q)) <=> d # NoHop
               /\ Withdrawn(t, f) => Withdrawn(q, f)
               /\ Head(q).type = "delete" => Withdrawn(q, f)
               /\ Head(q).type # "delete" => (Withdrawn(q, f) => Withdrawn(t, f))
               /\ ~Withdrawn(q, f) => s # NoHop /\ LinkOf(Head(q).hop) = LinkOf(s)
               /\ Mine(t, f) = {} => s = DefAfter(Head(q)) /\ ~Withdrawn(t, f)
               /\ Mine(t, f) # {} => (Corrects(q, f) <=> Corrects(t, f))
               /\ Mine(t, f) = {} => (Corrects(q, f) <=> Head(q).type = "change")
<1> DEFINE t == Tail(q)
           h == Head(q)
<1>0. Chain(q, f, d, s) /\ OneLink(q, f, d, s) /\ Settling(q, f, d)
  BY DEF Leads
<1>a. q \in Seq(MsgSet) /\ q # <<>>
  OBVIOUS
<1>1. \A i \in Mine(t, f) : i \in Nat /\ i >= 1 /\ i + 1 \in Mine(q, f) /\ t[i] = q[i + 1]
  BY ONLY <1>a, TailMine, ZenonT(40)
<1>2. \A j \in Mine(q, f) : j \in Nat /\ j >= 1 /\ (j # 1 => j - 1 \in Mine(t, f) /\ t[j - 1] = q[j])
  BY ONLY <1>a, TailMine, ZenonT(40)
<1>3. 1 \in Mine(q, f) /\ h = q[1] /\ h \in MsgSet
  BY TailMine
<1> HIDE DEF t, h
<1>4. h.hop \in Hops /\ h.type \in {"add", "get", "change", "delete"}
  BY <1>3 DEF MsgSet
<1>5. Follows(h) <=> d # NoHop
  BY <1>0, <1>2, <1>3 DEF Chain
<1>6. \A i \in Mine(t, f) : DeletedFrom(t, f, i) <=> DeletedFrom(q, f, i + 1)
  <2> SUFFICES ASSUME NEW i \in Mine(t, f) PROVE DeletedFrom(t, f, i) <=> DeletedFrom(q, f, i + 1)
    OBVIOUS
  <2>1. ASSUME NEW j \in Mine(t, f), i <= j, t[j].type = "delete" PROVE DeletedFrom(q, f, i + 1)
    BY <1>1, <2>1 DEF DeletedFrom
  <2>2. ASSUME NEW j \in Mine(q, f), i + 1 <= j, q[j].type = "delete" PROVE DeletedFrom(t, f, i)
    <3>1. j # 1
      BY <1>1, <2>2
    <3> QED BY <1>1, <1>2, <2>2, <3>1 DEF DeletedFrom
  <2> QED BY <2>1, <2>2 DEF DeletedFrom
<1>7. Withdrawn(t, f) => Withdrawn(q, f)
  BY <1>1 DEF DeletedFrom, Withdrawn
<1>8. h.type = "delete" => Withdrawn(q, f)
  BY <1>3 DEF DeletedFrom, Withdrawn
<1>9. h.type # "delete" => (Withdrawn(q, f) => Withdrawn(t, f))
  <2> SUFFICES ASSUME h.type # "delete", NEW j \in Mine(q, f), q[j].type = "delete" PROVE Withdrawn(t, f)
    BY DEF Withdrawn, DeletedFrom
  <2>1. j # 1 /\ j \in Nat /\ j >= 1
    BY <1>2, <1>3
  <2>2. j - 1 \in Mine(t, f) /\ t[j - 1].type = "delete" /\ 0 <= j - 1
    BY <1>2, <2>1
  <2> QED BY <2>2 DEF Withdrawn, DeletedFrom
<1>10. DeletedFrom(q, f, 1) <=> Withdrawn(q, f)
  BY <1>2 DEF DeletedFrom, Withdrawn
<1>11. ~Withdrawn(q, f) => s # NoHop /\ LinkOf(h.hop) = LinkOf(s)
  <2>1. ~Withdrawn(q, f) => LinkOf(h.hop) = LinkOf(s)
    BY <1>0, <1>3, <1>10 DEF OneLink
  <2> QED BY <1>4, <2>1, HopFacts
<1>12. Mine(t, f) = {} => s = DefAfter(h) /\ ~Withdrawn(t, f)
  <2> SUFFICES ASSUME Mine(t, f) = {} PROVE s = DefAfter(h) /\ ~Withdrawn(t, f)
    OBVIOUS
  <2>1. \A j \in Mine(q, f) : j <= 1
    BY <1>2
  <2> QED BY <1>0, <1>3, <2>1 DEF Chain, Withdrawn, DeletedFrom
<1>13. Mine(t, f) # {} => (Corrects(q, f) <=> Corrects(t, f))
  <2> SUFFICES ASSUME NEW k \in Mine(t, f) PROVE Corrects(q, f) <=> Corrects(t, f)
    OBVIOUS
  <2>1. ASSUME NEW i \in Mine(t, f), t[i].type = "change", \A j \in Mine(t, f) : j <= i PROVE Corrects(q, f)
    <3>1. \A j \in Mine(q, f) : j <= i + 1
      BY <1>1, <1>2, <2>1, SMTT(30)
    <3> QED BY <1>1, <2>1, <3>1 DEF Corrects
  <2>2. ASSUME NEW i \in Mine(q, f), q[i].type = "change", \A j \in Mine(q, f) : j <= i PROVE Corrects(t, f)
    <3>0. i # 1
      BY <1>1, <2>2
    <3>1. \A j \in Mine(t, f) : j <= i - 1
      BY <1>1, <1>2, <2>2
    <3> QED BY <1>2, <2>2, <3>0, <3>1 DEF Corrects
  <2> QED BY <2>1, <2>2 DEF Corrects
<1>14. Mine(t, f) = {} => (Corrects(q, f) <=> h.type = "change")
  <2> SUFFICES ASSUME Mine(t, f) = {} PROVE Corrects(q, f) <=> h.type = "change"
    OBVIOUS
  <2>1. \A j \in Mine(q, f) : j = 1
    BY <1>2
  <2> QED BY <1>3, <2>1 DEF Corrects
<1>15. Chain(t, f, DefAfter(h), s)
  <2>1. ASSUME NEW i \in Mine(t, f), \A j \in Mine(t, f) : i <= j
        PROVE  Follows(t[i]) <=> DefAfter(h) # NoHop
    <3>1. \A k \in Mine(q, f) : k <= 1 \/ i + 1 <= k
      BY <1>1, <1>2, <2>1
    <3>2. Follows(q[i + 1]) <=> q[1].type # "delete"
      BY <1>0, <1>1, <1>3, <3>1 DEF Chain
    <3> QED BY <1>1, <1>3, <1>4, <3>2, HopFacts DEF DefAfter
  <2>2. ASSUME NEW i \in Mine(t, f), NEW j \in Mine(t, f), i < j, \A k \in Mine(t, f) : k <= i \/ j <= k
        PROVE  Follows(t[j]) <=> t[i].type # "delete"
    <3>0. i \in Nat /\ j \in Nat
      BY <1>1
    <3>1. ASSUME NEW k \in Mine(q, f) PROVE k <= i + 1 \/ j + 1 <= k
      <4>1. k \in Nat /\ (k # 1 => k - 1 \in Mine(t, f))
        BY <1>2
      <4>2. k # 1 => k - 1 <= i \/ j <= k - 1
        BY <2>2, <4>1
      <4> QED BY <3>0, <4>1, <4>2
    <3>2. i + 1 \in Mine(q, f) /\ j + 1 \in Mine(q, f) /\ i + 1 < j + 1
      BY <1>1, <2>2
    <3>3. Follows(q[j + 1]) <=> q[i + 1].type # "delete"
      BY <1>0, <3>1, <3>2 DEF Chain
    <3> QED BY <1>1, <3>3
  <2>3. ASSUME NEW i \in Mine(t, f), \A j \in Mine(t, f) : j <= i
        PROVE  s = DefAfter(t[i])
    <3>1. \A j \in Mine(q, f) : j <= i + 1
      BY <1>1, <1>2, <2>3
    <3> QED BY <1>0, <1>1, <3>1 DEF Chain
  <2> QED BY <1>12, <2>1, <2>2, <2>3 DEF Chain
<1>16. OneLink(t, f, DefAfter(h), s)
  <2>1. \A i \in Mine(t, f) : ~DeletedFrom(t, f, i) => LinkOf(t[i].hop) = LinkOf(s)
    BY <1>0, <1>1, <1>6 DEF OneLink
  <2>2. ~Withdrawn(t, f) /\ DefAfter(h) # NoHop => LinkOf(DefAfter(h)) = LinkOf(s)
    BY <1>9, <1>11 DEF DefAfter
  <2> QED BY <2>1, <2>2 DEF OneLink
<1>17. Settling(t, f, DefAfter(h))
  <2>1. ASSUME NEW i \in Mine(t, f), NEW j \in Mine(t, f), i < j, ~DeletedFrom(t, f, i) PROVE Corrects(t, f)
    <3>1. i + 1 \in Mine(q, f) /\ j + 1 \in Mine(q, f) /\ i + 1 < j + 1 /\ ~DeletedFrom(q, f, i + 1)
      BY <1>1, <1>6, <2>1
    <3>2. Corrects(q, f)
      BY <1>0, <3>1 DEF Settling
    <3> QED BY <1>13, <3>2
  <2>2. ASSUME NEW i \in Mine(t, f), ~Withdrawn(t, f), DefAfter(h) # NoHop PROVE Corrects(t, f)
    <3>1. ~DeletedFrom(q, f, 1)
      BY <1>9, <1>10, <2>2 DEF DefAfter
    <3>2. i + 1 \in Mine(q, f) /\ 1 < i + 1
      BY <1>1
    <3>3. Corrects(q, f)
      BY <1>0, <1>3, <3>1, <3>2 DEF Settling
    <3> QED BY <1>13, <3>3
  <2> QED BY <2>1, <2>2 DEF Settling
<1>18. Mine(q, f) # {}
  BY <1>3
<1>19. Leads(t, f, DefAfter(h), s)
  BY <1>15, <1>16, <1>17 DEF Leads
<1> QED BY <1>5, <1>7, <1>8, <1>9, <1>11, <1>12, <1>13, <1>14, <1>18, <1>19 DEF t, h

-----------------------------------------------------------------------------
(* The invariant *)

\* The monitor of the daemon, and one it replaced.
Monitors == {"mon", "old"}
MonFields == {"def", "excl", "q", "live"}
MacFields == {"up", "sys", "rt", "half", "mon", "old", "proc", "pc", "conn", "set", "fw"}

\* A monitor is well formed; one that is gone has no list and no queue.
MonOK(m) ==
    /\ DOMAIN m = MonFields
    /\ m.def \in [Families -> HopsOrNone]
    /\ m.excl \subseteq Excluded
    /\ m.q \in Seq(MsgSet)
    /\ ~m.live => m.excl = {} /\ m.q = <<>>

\* A monitor that is gone is well formed.
LEMMA NoMacFine == MonOK(NoMac) /\ NoMac.excl = {} /\ ~NoMac.live
<1>1. DOMAIN NoMac = MonFields
  BY DEF NoMac, MonFields
<1>2. NoMac.excl = {} /\ NoMac.q = <<>> /\ ~NoMac.live /\ NoMac.def = [f \in Families |-> NoHop]
  BY DEF NoMac
<1>3. [f \in Families |-> NoHop] \in [Families -> HopsOrNone]
  BY DEF HopsOrNone
<1>4. <<>> \in Seq(MsgSet)
  OBVIOUS
<1> QED BY <1>1, <1>2, <1>3, <1>4 DEF MonOK

\* The values of the fields; a default route is over a link that is up.
MacTyped(s) ==
    /\ DOMAIN s = MacFields
    /\ s.sys \in [Families -> HopsOrNone]
    /\ s.rt \in [Excluded -> HopsOrNone]
    /\ \A m \in Monitors : MonOK(s[m])
    /\ \A f \in Families : s.sys[f] # NoHop => LinkOf(s.sys[f]) \in s.up

\* The queue of every monitor leads from the default routes it knows to the
\* kernel's.
Following(s) ==
    \A m \in Monitors : s[m].live => \A f \in Families : Leads(s[m].q, f, s[m].def[f], s.sys[f])

\* No monitor that moves the route has a loss to hear of.
Steady(s, p) ==
    /\ \E m \in Monitors : p \in s[m].excl
    /\ \A m \in Monitors : p \in s[m].excl => ~Withdrawn(s[m].q, FamilyOf(p))

\* The route to p, with no loss waiting: none without a default route, else over
\* its link; it is missing only while a monitor has to hear of the default
\* route, and over another gateway only while the correction waits.
Routed(s, p) ==
    LET f == FamilyOf(p)
    IN  /\ s.sys[f] = NoHop => s.rt[p] = NoHop
        /\ s.sys[f] # NoHop /\ s.rt[p] = NoHop =>
             \E m \in Monitors : p \in s[m].excl /\ s[m].def[f] = NoHop /\ Mine(s[m].q, f) # {}
        /\ s.rt[p] # NoHop => LinkOf(s.rt[p]) = LinkOf(s.sys[f])
        /\ s.rt[p] # NoHop /\ s.rt[p] # s.sys[f] => \E m \in Monitors : p \in s[m].excl /\ Corrects(s[m].q, f)

\* The route to p goes with the lists, and follows the default route.
RouteInv(s, p) ==
    /\ (\A m \in Monitors : p \notin s[m].excl) => s.rt[p] = NoHop
    /\ s.mon.live /\ Steady(s, p) => Routed(s, p)

\* The part of the invariant about routes.
MacBase(s) == MacTyped(s) /\ Following(s) /\ \A p \in Excluded : RouteInv(s, p)

\* The part about the session: a connected one excludes its server.
Sessions(s) ==
    /\ s.proc => s.mon.live
    /\ s.half => s.proc
    /\ s.pc = "peer" \/ s.conn => s.mon.live /\ "server" \in s.mon.excl

\* The inductive invariant.
MacInv(s) == MacBase(s) /\ Sessions(s)

\* Every excluded address is of a family.
LEMMA FamilyOfExcluded == \A p \in Excluded : FamilyOf(p) \in Families
BY DEF Excluded, FamilyOf, Families

\* The invariant looks at the links, the routes and the monitors.
LEMMA SameBase ==
    ASSUME NEW s, MacBase(s), NEW t, DOMAIN t = MacFields,
           t.sys = s.sys, t.rt = s.rt, t.up = s.up, t.mon = s.mon, t.old = s.old
    PROVE  MacBase(t)
<1>1. \A m \in Monitors : t[m] = s[m]
  BY DEF Monitors
<1>2. MacTyped(t) /\ Following(t)
  BY <1>1 DEF MacBase, MacTyped, Following
<1>3. ASSUME NEW p \in Excluded PROVE RouteInv(t, p)
  <2>1. RouteInv(s, p)
    BY DEF MacBase
  <2>2. Steady(t, p) <=> Steady(s, p)
    BY <1>1, SMTT(30) DEF Steady
  <2>3. Routed(t, p) <=> Routed(s, p)
    BY <1>1, ZenonT(60) DEF Routed
  <2> QED BY <1>1, <2>1, <2>2, <2>3 DEF RouteInv
<1> QED BY <1>2, <1>3 DEF MacBase

-----------------------------------------------------------------------------
(* The kernel *)

\* Every live monitor is told, nothing else of a monitor changes.
Told(s, t, msg) ==
    \A m \in Monitors :
        /\ DOMAIN t[m] = MonFields /\ t[m].def = s[m].def /\ t[m].excl = s[m].excl /\ t[m].live = s[m].live
        /\ t[m].q = IF s[m].live THEN Append(s[m].q, msg) ELSE s[m].q

\* Tell appends the message to the queue of every live monitor.
LEMMA TellFields ==
    ASSUME NEW s, DOMAIN s = MacFields, \A m \in Monitors : DOMAIN s[m] = MonFields, NEW msg
    PROVE  LET t == Tell(s, msg)
           IN  /\ DOMAIN t = MacFields /\ Told(s, t, msg)
               /\ \A x \in MacFields \ Monitors : t[x] = s[x]
               /\ \A m \in Monitors : t[m] = [s[m] EXCEPT !.q = IF s[m].live THEN Append(@, msg) ELSE @]
<1> DEFINE t == Tell(s, msg)
<1>1. t = [s EXCEPT !.mon.q = IF s.mon.live THEN Append(@, msg) ELSE @, !.old.q = IF s.old.live THEN Append(@, msg) ELSE @]
  BY DEF Tell
<1> HIDE DEF t
<1>2. /\ DOMAIN t = MacFields
      /\ t.mon = [s.mon EXCEPT !.q = IF s.mon.live THEN Append(@, msg) ELSE @]
      /\ t.old = [s.old EXCEPT !.q = IF s.old.live THEN Append(@, msg) ELSE @]
      /\ \A x \in MacFields \ Monitors : t[x] = s[x]
  BY <1>1, Zenon DEF MacFields, Monitors
<1>3. \A m \in Monitors : t[m] = [s[m] EXCEPT !.q = IF s[m].live THEN Append(@, msg) ELSE @]
  BY <1>2, SMTT(30) DEF Monitors
<1>4. Told(s, t, msg)
  BY <1>3, Zenon DEF Told, MonFields
<1> QED BY <1>2, <1>3, <1>4, SMTT(30) DEF t

\* A monitor that was told is well formed.
LEMMA ToldOK ==
    ASSUME NEW s, MacTyped(s), NEW t, NEW msg \in MsgSet, Told(s, t, msg)
    PROVE  \A m \in Monitors : MonOK(t[m])
<1> SUFFICES ASSUME NEW m \in Monitors PROVE MonOK(t[m])
  OBVIOUS
<1>1. MonOK(s[m])
  BY DEF MacTyped
<1>2. s[m].live => Append(s[m].q, msg) \in Seq(MsgSet)
  BY <1>1, AppendAt DEF MonOK
<1> QED BY <1>1, <1>2, Zenon DEF MonOK, Told

\* A message about nothing that a monitor follows
LEMMA ToldOther ==
    ASSUME NEW s, MacBase(s), NEW t, DOMAIN t = MacFields, NEW msg \in MsgSet, msg.scoped, Told(s, t, msg),
           t.sys = s.sys, t.rt = s.rt, t.up = s.up
    PROVE  MacBase(t)
<1>0. MacTyped(s) /\ Following(s)
  BY DEF MacBase
<1>1. MacTyped(t)
  BY <1>0, ToldOK DEF MacTyped
<1>2. ASSUME NEW m \in Monitors, NEW f \in Families
      PROVE  /\ Mine(t[m].q, f) = Mine(s[m].q, f)
             /\ Withdrawn(t[m].q, f) <=> Withdrawn(s[m].q, f)
             /\ Corrects(t[m].q, f) <=> Corrects(s[m].q, f)
             /\ t[m].live => Leads(t[m].q, f, t[m].def[f], t.sys[f])
  <2>1. CASE s[m].live
    <3>1. Leads(s[m].q, f, s[m].def[f], s.sys[f]) /\ s[m].q \in Seq(MsgSet)
      BY <1>0, <2>1 DEF Following, MacTyped, MonOK
    <3>2. t[m].q = Append(s[m].q, msg) /\ t[m].def = s[m].def
      BY <2>1, Zenon DEF Told
    <3> DEFINE q == s[m].q
               r == Append(q, msg)
    <3> HIDE DEF q
    <3>3. /\ Mine(r, f) = Mine(q, f)
          /\ DeletedFrom(r, f, 0) <=> DeletedFrom(q, f, 0)
          /\ Corrects(r, f) <=> Corrects(q, f)
          /\ Leads(q, f, s[m].def[f], s.sys[f]) => Leads(r, f, s[m].def[f], s.sys[f])
      BY <3>1, AppendOther DEF q
    <3> QED BY <3>1, <3>2, <3>3 DEF q, Withdrawn
  <2>2. CASE ~s[m].live
    BY <2>2 DEF Told
  <2> QED BY <2>1, <2>2, SMTT(30)
<1>3. Following(t)
  BY <1>2 DEF Following
<1>4. ASSUME NEW p \in Excluded PROVE RouteInv(t, p)
  <2>1. RouteInv(s, p) /\ FamilyOf(p) \in Families
    BY FamilyOfExcluded DEF MacBase
  <2>2. \A m \in Monitors : t[m].excl = s[m].excl /\ t[m].def = s[m].def /\ t[m].live = s[m].live
    BY DEF Told
  <2>3. Steady(t, p) <=> Steady(s, p)
    BY <1>2, <2>1, <2>2 DEF Steady
  <2>4. Routed(s, p) => Routed(t, p)
    BY <1>2, <2>1, <2>2, SMTT(30) DEF Routed
  <2> QED BY <2>1, <2>2, <2>3, <2>4 DEF RouteInv, Monitors
<1> QED BY <1>1, <1>3, <1>4 DEF MacBase

\* A message about the default route of a family
LEMMA ToldDefault ==
    ASSUME NEW s, MacBase(s), NEW t, DOMAIN t = MacFields, NEW msg \in MsgSet, Told(s, t, msg),
           NEW f \in Families, NEW h \in HopsOrNone, Tells(msg, f, s.sys[f], h), h # NoHop => LinkOf(h) \in s.up,
           t.sys = [s.sys EXCEPT ![f] = h], t.rt = s.rt, t.up = s.up
    PROVE  MacBase(t)
<1>0. /\ MacTyped(s) /\ Following(s) /\ s.sys \in [Families -> HopsOrNone] /\ msg.fam = f /\ ~msg.scoped
      /\ t.sys \in [Families -> HopsOrNone] /\ t.sys[f] = h /\ \A g \in Families : g # f => t.sys[g] = s.sys[g]
  BY DEF MacBase, MacTyped, Tells
<1>1. MacTyped(t)
  <2>1. \A m \in Monitors : MonOK(t[m])
    BY <1>0, ToldOK, SMTT(30)
  <2>2. t.rt \in [Excluded -> HopsOrNone] /\ \A g \in Families : s.sys[g] # NoHop => LinkOf(s.sys[g]) \in s.up
    BY <1>0 DEF MacTyped
  <2> QED BY <1>0, <2>1, <2>2, SMTT(30) DEF MacTyped
<1>2. \A m \in Monitors : t[m].excl = s[m].excl /\ t[m].def = s[m].def /\ t[m].live = s[m].live
  BY SMTT(30) DEF Told
<1>3. ASSUME NEW m \in Monitors, s[m].live
      PROVE  /\ s[m].q \in Seq(MsgSet) /\ t[m].q = Append(s[m].q, msg) /\ s[m].def \in [Families -> HopsOrNone]
             /\ \A g \in Families : Leads(s[m].q, g, s[m].def[g], s.sys[g])
  BY <1>0, <1>3, ZenonT(40) DEF Following, MacTyped, MonOK, Told
<1>4. ASSUME NEW m \in Monitors, s[m].live, NEW g \in Families, g # f
      PROVE  /\ Mine(t[m].q, g) = Mine(s[m].q, g)
             /\ Withdrawn(t[m].q, g) <=> Withdrawn(s[m].q, g)
             /\ Corrects(t[m].q, g) <=> Corrects(s[m].q, g)
             /\ Leads(t[m].q, g, s[m].def[g], s.sys[g])
  <2> DEFINE q == s[m].q
             r == Append(q, msg)
             d == s[m].def[g]
             k == s.sys[g]
  <2>1. q \in Seq(MsgSet) /\ ~(msg.fam = g /\ ~msg.scoped) /\ Leads(q, g, d, k) /\ t[m].q = r
    BY <1>0, <1>3, <1>4
  <2> HIDE DEF q, d, k
  <2>2. /\ Mine(r, g) = Mine(q, g)
        /\ DeletedFrom(r, g, 0) <=> DeletedFrom(q, g, 0)
        /\ Corrects(r, g) <=> Corrects(q, g)
        /\ Leads(q, g, d, k) => Leads(r, g, d, k)
    BY <2>1, AppendOther
  <2> QED BY <2>1, <2>2 DEF q, d, k, Withdrawn
<1>5. ASSUME NEW m \in Monitors, s[m].live
      PROVE  /\ Mine(t[m].q, f) # {}
             /\ Withdrawn(t[m].q, f) <=> Withdrawn(s[m].q, f) \/ msg.type = "delete"
             /\ Corrects(t[m].q, f) <=> msg.type = "change"
             /\ Leads(t[m].q, f, s[m].def[f], h)
             /\ ~Withdrawn(s[m].q, f) /\ s.sys[f] = NoHop => s[m].def[f] = NoHop
  <2> DEFINE q == s[m].q
             r == Append(q, msg)
             d == s[m].def[f]
             k == s.sys[f]
  <2>1. q \in Seq(MsgSet) /\ d \in HopsOrNone /\ k \in HopsOrNone /\ Tells(msg, f, k, h) /\ Leads(q, f, d, k) /\ t[m].q = r
    BY <1>0, <1>3, <1>5, SMTT(30)
  <2> HIDE DEF q, d, k
  <2>2. /\ Mine(r, f) # {}
        /\ Withdrawn(r, f) <=> Withdrawn(q, f) \/ msg.type = "delete"
        /\ Corrects(r, f) <=> msg.type = "change"
        /\ Leads(r, f, d, h)
    BY <2>1, AppendTells, SMTT(30)
  <2>3. ~Withdrawn(q, f) /\ k = NoHop => d = NoHop
    BY <2>1, HopFacts DEF Leads, OneLink, HopsOrNone
  <2> QED BY <2>1, <2>2, <2>3, SMTT(30) DEF q, d, k
<1>6. Following(t)
  <2> SUFFICES ASSUME NEW m \in Monitors, t[m].live, NEW g \in Families PROVE Leads(t[m].q, g, t[m].def[g], t.sys[g])
    BY DEF Following
  <2>1. s[m].live /\ t[m].def = s[m].def
    BY <1>2, SMTT(30)
  <2>2. CASE g = f
    BY <2>1, <2>2, <1>5, <1>0, SMTT(30)
  <2>3. CASE g # f
    BY <2>1, <2>3, <1>4, <1>0, SMTT(30)
  <2> QED BY <2>2, <2>3, SMTT(30)
<1>7. ASSUME NEW p \in Excluded PROVE RouteInv(t, p)
  <2>1. RouteInv(s, p) /\ FamilyOf(p) \in Families
    BY FamilyOfExcluded, SMTT(30) DEF MacBase
  <2>2. \A m \in Monitors : p \in s[m].excl => s[m].live
    BY <1>0 DEF MacTyped, MonOK
  <2>3. CASE FamilyOf(p) # f
    <3>1. Steady(t, p) => Steady(s, p)
      BY <1>2, <1>4, <2>1, <2>2, <2>3, SMTT(30) DEF Steady
    <3>2. Routed(s, p) => Routed(t, p)
      <4> DEFINE g == FamilyOf(p)
      <4>1. t.sys[g] = s.sys[g] /\ t.rt[p] = s.rt[p] /\ g # f /\ g \in Families
        BY <1>0, <2>1, <2>3
      <4> HIDE DEF g
      <4> QED BY <1>2, <1>4, <2>2, <4>1, SMTT(30) DEF Routed, g
    <3> QED BY <1>2, <2>1, <3>1, <3>2, SMTT(30) DEF RouteInv, Monitors
  <2>4. CASE FamilyOf(p) = f
    <3> SUFFICES ASSUME t.mon.live, Steady(t, p) PROVE Routed(t, p)
      BY <1>2, <2>1, SMTT(30) DEF RouteInv
    <3>1. PICK m \in Monitors : p \in s[m].excl
      BY <1>2, SMTT(30) DEF Steady
    <3>2. msg.type # "delete" /\ Steady(s, p)
      BY <1>2, <1>5, <2>2, <2>4, <3>1, SMTT(30) DEF Steady
    <3>3. Routed(s, p) /\ s[m].live /\ ~Withdrawn(s[m].q, f)
      BY <1>2, <2>1, <2>2, <2>4, <3>1, <3>2, SMTT(30) DEF RouteInv, Steady, Monitors
    <3>4. h = msg.hop /\ h # NoHop /\ msg.type \in {"add", "get", "change"}
      BY <3>2, HopFacts, SMTT(30) DEF Tells, DefAfter, MsgSet
    <3>5. CASE msg.type = "change"
      <4>1. s.sys[f] # NoHop /\ LinkOf(h) = LinkOf(s.sys[f]) /\ Corrects(t[m].q, f) /\ p \in t[m].excl
        BY <1>2, <1>5, <3>1, <3>3, <3>4, <3>5, SMTT(30) DEF Tells, Follows
      <4>2. s.rt[p] = NoHop => \E n \in Monitors : p \in t[n].excl /\ t[n].def[f] = NoHop /\ Mine(t[n].q, f) # {}
        BY <1>2, <1>5, <2>2, <2>4, <3>3, <4>1, SMTT(30) DEF Routed
      <4>3. s.rt[p] # NoHop => LinkOf(s.rt[p]) = LinkOf(h)
        BY <2>4, <3>3, <4>1, SMTT(30) DEF Routed
      <4> QED BY <1>0, <2>4, <3>4, <4>1, <4>2, <4>3, SMTT(30) DEF Routed
    <3>6. CASE msg.type # "change"
      <4>1. s.sys[f] = NoHop /\ s.rt[p] = NoHop
        BY <2>4, <3>3, <3>4, <3>6, SMTT(30) DEF Tells, Follows, Routed
      <4>2. p \in t[m].excl /\ t[m].def[f] = NoHop /\ Mine(t[m].q, f) # {}
        BY <1>2, <1>5, <3>1, <3>3, <4>1, SMTT(30)
      <4> QED BY <1>0, <2>4, <3>4, <4>1, <4>2, SMTT(30) DEF Routed
    <3> QED BY <3>5, <3>6, SMTT(30)
  <2> QED BY <2>3, <2>4
<1> QED BY <1>1, <1>6, <1>7, SMTT(30) DEF MacBase

\* A link with no default route over it goes.
LEMMA LinkDropped ==
    ASSUME NEW s, MacBase(s), NEW t, DOMAIN t = MacFields, NEW l \in MacLinks,
           \A f \in Families : LinkOf(s.sys[f]) # l,
           t.sys = s.sys, t.up = s.up \ {l}, t.mon = s.mon, t.old = s.old,
           t.rt = [p \in Excluded |-> IF LinkOf(s.rt[p]) = l THEN NoHop ELSE s.rt[p]]
    PROVE  MacBase(t)
<1>1. \A m \in Monitors : t[m] = s[m]
  BY DEF Monitors
<1>2. MacTyped(s) /\ Following(s)
  BY SMTT(30) DEF MacBase
<1>3. MacTyped(t) /\ Following(t)
  BY <1>1, <1>2, SMTT(30) DEF MacTyped, Following, HopsOrNone
<1>4. ASSUME NEW p \in Excluded PROVE RouteInv(t, p)
  <2>1. RouteInv(s, p) /\ FamilyOf(p) \in Families
    BY FamilyOfExcluded DEF MacBase
  <2>2. t.rt[p] = s.rt[p] \/ (LinkOf(s.rt[p]) = l /\ t.rt[p] = NoHop)
    OBVIOUS
  <2>3. Steady(t, p) <=> Steady(s, p)
    BY <1>1, SMTT(30) DEF Steady
  <2>4. Routed(s, p) => t.rt[p] = s.rt[p]
    BY <2>1, <2>2, SMTT(30) DEF Routed
  <2>5. t.rt[p] = s.rt[p] => (Routed(s, p) <=> Routed(t, p))
    BY <1>1, SMTT(30) DEF Routed
  <2> QED BY <1>1, <2>1, <2>2, <2>3, <2>4, <2>5 DEF RouteInv
<1> QED BY <1>3, <1>4 DEF MacBase

\* t is s with another default route, of which the monitors are told.
Informed(s, t, f, h, msg) ==
    /\ MacBase(t) /\ DOMAIN t = MacFields
    /\ t.sys = [s.sys EXCEPT ![f] = h]
    /\ \A x \in MacFields \ (Monitors \cup {"sys"}) : t[x] = s[x]
    /\ \A m \in Monitors : /\ t[m].live = s[m].live /\ t[m].excl = s[m].excl
                           /\ t[m] = [s[m] EXCEPT !.q = IF s[m].live THEN Append(@, msg) ELSE @]

\* The kernel changes a default route and tells the monitors.
LEMMA NewDefault ==
    ASSUME NEW s, MacBase(s), NEW msg \in MsgSet, NEW f \in Families, NEW h \in HopsOrNone,
           Tells(msg, f, s.sys[f], h), h # NoHop => LinkOf(h) \in s.up,
           NEW t, t = Tell([s EXCEPT !.sys[f] = h], msg)
    PROVE  Informed(s, t, f, h, msg)
<1> DEFINE u == [s EXCEPT !.sys[f] = h]
<1>0. /\ DOMAIN s = MacFields /\ s.sys \in [Families -> HopsOrNone] /\ \A m \in Monitors : DOMAIN s[m] = MonFields
  BY DEF MacBase, MacTyped, MonOK
<1>1. /\ DOMAIN u = MacFields /\ u.sys = [s.sys EXCEPT ![f] = h]
      /\ \A x \in MacFields : x # "sys" => u[x] = s[x]
  BY <1>0 DEF MacFields
<1>2. \A m \in Monitors : u[m] = s[m]
  BY <1>1 DEF Monitors, MacFields
<1>a. t = Tell(u, msg)
  OBVIOUS
<1> HIDE DEF u
<1>3. /\ DOMAIN t = MacFields /\ Told(u, t, msg)
      /\ \A x \in MacFields \ Monitors : t[x] = u[x]
      /\ \A m \in Monitors : t[m] = [u[m] EXCEPT !.q = IF u[m].live THEN Append(@, msg) ELSE @]
  <2> DEFINE r == Tell(u, msg)
  <2>1. /\ DOMAIN r = MacFields /\ Told(u, r, msg)
        /\ \A x \in MacFields \ Monitors : r[x] = u[x]
        /\ \A m \in Monitors : r[m] = [u[m] EXCEPT !.q = IF u[m].live THEN Append(@, msg) ELSE @]
    BY <1>0, <1>1, <1>2, TellFields, SMTT(30)
  <2> HIDE DEF r
  <2>2. t = r
    BY <1>a DEF r
  <2> QED BY <2>1, <2>2, Zenon
<1>b. \A m \in Monitors : t[m] = [s[m] EXCEPT !.q = IF s[m].live THEN Append(@, msg) ELSE @]
  BY <1>2, <1>3
<1>c. \A x \in MacFields \ (Monitors \cup {"sys"}) : t[x] = s[x]
  BY <1>1, <1>3
<1>d. t.sys = [s.sys EXCEPT ![f] = h] /\ t.rt = s.rt /\ t.up = s.up
  BY <1>1, <1>3 DEF MacFields, Monitors
<1>e. Told(s, t, msg)
  BY <1>2, <1>3 DEF Told
<1>4. /\ Told(s, t, msg) /\ t.sys = [s.sys EXCEPT ![f] = h] /\ t.rt = s.rt /\ t.up = s.up
      /\ \A x \in MacFields \ (Monitors \cup {"sys"}) : t[x] = s[x]
      /\ \A m \in Monitors : t[m] = [s[m] EXCEPT !.q = IF s[m].live THEN Append(@, msg) ELSE @]
  BY <1>b, <1>c, <1>d, <1>e
<1>5. MacBase(t)
  BY <1>3, <1>4, ToldDefault
<1> QED BY <1>3, <1>4, <1>5, Zenon DEF Told, Informed

\* What the session's part of the invariant looks at.
LEMMA SameSessions ==
    ASSUME NEW s, Sessions(s), NEW t, t.proc = s.proc, t.half = s.half, t.pc = s.pc, t.conn = s.conn,
           t.mon.live = s.mon.live, t.mon.excl = s.mon.excl
    PROVE  Sessions(t)
BY DEF Sessions

\* A hop of a family is a hop.
LEMMA HopOf ==
    ASSUME NEW f \in Families, NEW h \in MacHops[f] PROVE h \in Hops /\ h \in HopsOrNone /\ h # NoHop
BY HopFacts DEF Families, Hops, HopsOrNone

\* A default route appears.
LEMMA AppearsKeeps ==
    ASSUME MacInv(mr), NEW f \in Families, NEW h \in MacHops[f], DefaultAppears(f, h)
    PROVE  MacInv(mr')
<1> DEFINE msg == MonitorMsg("add", f, h, FALSE)
<1>1. h \in Hops /\ h \in HopsOrNone /\ h # NoHop
  BY HopOf
<1>2. msg \in MsgSet /\ msg.type = "add" /\ msg.fam = f /\ msg.hop = h /\ ~msg.scoped
  BY <1>1 DEF MonitorMsg, MsgSet
<1>3. mr' = Tell([mr EXCEPT !.sys[f] = h], msg) /\ mr.sys[f] = NoHop /\ LinkOf(h) \in mr.up
  BY DEF DefaultAppears
<1> HIDE DEF msg
<1>4. Tells(msg, f, mr.sys[f], h) /\ MacBase(mr) /\ Sessions(mr)
  BY <1>2, <1>3 DEF Tells, DefAfter, Follows, MacInv
<1>5. Informed(mr, mr', f, h, msg)
  BY ONLY <1>1, <1>2, <1>3, <1>4, f \in Families, NewDefault, Zenon
<1>6. Sessions(mr')
  BY <1>4, <1>5, SameSessions DEF MacFields, Monitors, Informed
<1> QED BY <1>5, <1>6 DEF MacInv, Informed

\* A default route changes its gateway.
LEMMA ChangesKeeps ==
    ASSUME MacInv(mr), NEW f \in Families, NEW h \in MacHops[f], GatewayChanges(f, h)
    PROVE  MacInv(mr')
<1> DEFINE msg == MonitorMsg("change", f, h, FALSE)
<1>1. h \in Hops /\ h \in HopsOrNone /\ h # NoHop
  BY HopOf
<1>2. msg \in MsgSet /\ msg.type = "change" /\ msg.fam = f /\ msg.hop = h /\ ~msg.scoped
  BY <1>1 DEF MonitorMsg, MsgSet
<1>3. mr' = Tell([mr EXCEPT !.sys[f] = h], msg) /\ mr.sys[f] # NoHop /\ LinkOf(mr.sys[f]) = LinkOf(h)
  BY DEF GatewayChanges
<1> HIDE DEF msg
<1>4. Tells(msg, f, mr.sys[f], h) /\ MacBase(mr) /\ Sessions(mr)
  BY <1>2, <1>3 DEF Tells, DefAfter, Follows, MacInv
<1>a. LinkOf(h) \in mr.up
  BY <1>3, <1>4 DEF MacBase, MacTyped
<1>5. Informed(mr, mr', f, h, msg)
  BY ONLY <1>1, <1>2, <1>3, <1>4, <1>a, f \in Families, NewDefault, Zenon
<1>6. Sessions(mr')
  BY <1>4, <1>5, SameSessions DEF MacFields, Monitors, Informed
<1> QED BY <1>5, <1>6 DEF MacInv, Informed

\* The message of a lost default route
LEMMA LossTold ==
    ASSUME NEW s, MacBase(s), NEW f \in Families, s.sys[f] # NoHop
    PROVE  LET msg == MonitorMsg("delete", f, s.sys[f], FALSE)
           IN  msg \in MsgSet /\ Tells(msg, f, s.sys[f], NoHop) /\ NoHop \in HopsOrNone
<1> DEFINE h == s.sys[f]
           msg == MonitorMsg("delete", f, h, FALSE)
<1>1. h \in Hops
  BY DEF MacBase, MacTyped, HopsOrNone
<1> HIDE DEF h
<1>2. msg \in MsgSet /\ msg.type = "delete" /\ msg.fam = f /\ msg.hop = h /\ ~msg.scoped
  BY <1>1 DEF MonitorMsg, MsgSet
<1> HIDE DEF msg
<1>3. Tells(msg, f, h, NoHop)
  BY <1>1, <1>2, HopFacts DEF Tells, DefAfter, Follows
<1> QED BY <1>2, <1>3, Zenon DEF h, msg, HopsOrNone

\* A default route is lost.
LEMMA LostKeeps ==
    ASSUME MacInv(mr), NEW f \in Families, DefaultLost(f)
    PROVE  MacInv(mr')
<1> DEFINE msg == MonitorMsg("delete", f, mr.sys[f], FALSE)
<1>1. mr' = Tell([mr EXCEPT !.sys[f] = NoHop], msg) /\ mr.sys[f] # NoHop /\ MacBase(mr) /\ Sessions(mr)
  BY DEF DefaultLost, MacInv
<1>2. msg \in MsgSet /\ Tells(msg, f, mr.sys[f], NoHop) /\ NoHop \in HopsOrNone
  BY <1>1, LossTold, Zenon
<1> HIDE DEF msg
<1>3. Informed(mr, mr', f, NoHop, msg)
  BY ONLY <1>1, <1>2, f \in Families, NewDefault, Zenon
<1>4. Sessions(mr')
  BY <1>1, <1>3, SameSessions DEF MacFields, Monitors, Informed
<1> QED BY <1>3, <1>4 DEF MacInv, Informed

\* The default route of a secondary link comes or goes.
LEMMA ScopedKeeps ==
    ASSUME MacInv(mr), NEW f \in Families, NEW h \in MacHops[f], ScopedChange(f, h)
    PROVE  MacInv(mr')
<1>1. PICK type \in {"add", "delete"} : mr' = Tell(mr, MonitorMsg(type, f, h, TRUE))
  BY Zenon DEF ScopedChange
<1> DEFINE msg == MonitorMsg(type, f, h, TRUE)
<1>2. msg \in MsgSet /\ msg.scoped
  BY HopOf DEF MonitorMsg, MsgSet
<1>3. mr' = Tell(mr, msg) /\ MacBase(mr) /\ Sessions(mr)
  BY <1>1 DEF MacInv
<1> HIDE DEF msg
<1>4. DOMAIN mr = MacFields /\ \A m \in Monitors : DOMAIN mr[m] = MonFields
  BY <1>3 DEF MacBase, MacTyped, MonOK
<1>5. /\ DOMAIN mr' = MacFields /\ Told(mr, mr', msg)
      /\ \A x \in MacFields \ Monitors : mr'[x] = mr[x]
  BY <1>3, <1>4, TellFields
<1>6. mr'.sys = mr.sys /\ mr'.rt = mr.rt /\ mr'.up = mr.up
  BY <1>5 DEF MacFields, Monitors
<1>7. MacBase(mr')
  BY <1>2, <1>3, <1>5, <1>6, ToldOther
<1>8. Sessions(mr')
  BY <1>3, <1>5, SameSessions DEF MacFields, Monitors, Told
<1> QED BY <1>7, <1>8 DEF MacInv

\* A link comes up.
LEMMA UpKeeps ==
    ASSUME MacInv(mr), NEW l, LinkUp(l)
    PROVE  MacInv(mr')
<1>1. MacBase(mr) /\ Sessions(mr) /\ DOMAIN mr = MacFields
  BY DEF MacInv, MacBase, MacTyped
<1>2. DOMAIN mr' = MacFields /\ mr'.up = mr.up \cup {l} /\ \A x \in MacFields \ {"up"} : mr'[x] = mr[x]
  BY <1>1 DEF LinkUp, MacFields
<1>3. \A m \in Monitors : mr'[m] = mr[m]
  BY <1>2 DEF Monitors, MacFields
<1>4. mr'.sys = mr.sys /\ mr'.rt = mr.rt /\ mr'.mon = mr.mon
  BY <1>2, SMTT(30) DEF MacFields
<1>5. MacTyped(mr') /\ Following(mr')
  BY <1>1, <1>2, <1>3, <1>4, SMTT(30) DEF MacBase, MacTyped, Following
<1>6. ASSUME NEW p \in Excluded PROVE RouteInv(mr', p)
  <2>1. RouteInv(mr, p)
    BY <1>1 DEF MacBase
  <2>2. Steady(mr', p) <=> Steady(mr, p)
    BY <1>3, SMTT(30) DEF Steady
  <2>3. Routed(mr', p) <=> Routed(mr, p)
    BY <1>3, <1>4, Zenon DEF Routed
  <2> QED BY <1>3, <1>4, <2>1, <2>2, <2>3 DEF RouteInv
<1>7. Sessions(mr')
  BY <1>1, <1>2, SameSessions DEF MacFields
<1> QED BY <1>5, <1>6, <1>7, SMTT(30) DEF MacInv, MacBase

\* The monitors are told of the loss of a family's default route over l, if it is over l.
AfterLoss(s, f, l) ==
    IF LinkOf(s.sys[f]) = l THEN Tell([s EXCEPT !.sys[f] = NoHop], MonitorMsg("delete", f, s.sys[f], FALSE)) ELSE s

\* A monitor after the message, if it was sent.
ToldOfLoss(m, b, msg) == IF b THEN [m EXCEPT !.q = IF m.live THEN Append(@, msg) ELSE @] ELSE m

\* What the loss leaves.
LossDone(s, a, f, l) ==
    /\ MacBase(a) /\ DOMAIN a = MacFields
    /\ a.sys = [s.sys EXCEPT ![f] = IF LinkOf(s.sys[f]) = l THEN NoHop ELSE @]
    /\ \A x \in MacFields \ (Monitors \cup {"sys"}) : a[x] = s[x]
    /\ \A m \in Monitors : /\ a[m].live = s[m].live /\ a[m].excl = s[m].excl
                           /\ a[m] = ToldOfLoss(s[m], LinkOf(s.sys[f]) = l, MonitorMsg("delete", f, s.sys[f], FALSE))

\* The default route of a family is lost with its link.
LEMMA LossKeeps ==
    ASSUME NEW s, MacBase(s), NEW f \in Families, NEW l \in MacLinks
    PROVE  LossDone(s, AfterLoss(s, f, l), f, l)
<1> DEFINE a == AfterLoss(s, f, l)
           msg == MonitorMsg("delete", f, s.sys[f], FALSE)
<1>0. DOMAIN s = MacFields /\ s.sys \in [Families -> HopsOrNone]
  BY DEF MacBase, MacTyped
<1>1. CASE LinkOf(s.sys[f]) = l
  <2>1. s.sys[f] # NoHop
    BY <1>1, MacLinksAssumption, HopFacts
  <2>2. msg \in MsgSet /\ Tells(msg, f, s.sys[f], NoHop) /\ NoHop \in HopsOrNone
    BY <2>1, LossTold, Zenon
  <2>3. a = Tell([s EXCEPT !.sys[f] = NoHop], msg)
    BY <1>1 DEF AfterLoss
  <2> HIDE DEF a, msg
  <2>4. Informed(s, a, f, NoHop, msg)
    BY ONLY <2>2, <2>3, MacBase(s), f \in Families, NewDefault, Zenon
  <2> QED BY <1>1, <2>4, Zenon DEF Informed, ToldOfLoss, LossDone, a, msg
<1>2. CASE LinkOf(s.sys[f]) # l
  BY <1>0, <1>2 DEF AfterLoss, ToldOfLoss, LossDone
<1> QED BY <1>1, <1>2

\* A message that is sent or not.
LEMMA ToldIf ==
    ASSUME NEW s, DOMAIN s = MacFields, \A m \in Monitors : DOMAIN s[m] = MonFields, NEW b \in BOOLEAN, NEW msg
    PROVE  LET t == IF b THEN Tell(s, msg) ELSE s
           IN  /\ DOMAIN t = MacFields /\ \A x \in MacFields \ Monitors : t[x] = s[x]
               /\ \A m \in Monitors : t[m] = ToldOfLoss(s[m], b, msg) /\ DOMAIN t[m] = MonFields
<1> DEFINE t == Tell(s, msg)
<1>1. /\ DOMAIN t = MacFields /\ Told(s, t, msg)
      /\ \A x \in MacFields \ Monitors : t[x] = s[x]
      /\ \A m \in Monitors : t[m] = [s[m] EXCEPT !.q = IF s[m].live THEN Append(@, msg) ELSE @]
  BY TellFields
<1> HIDE DEF t
<1>2. \A m \in Monitors : DOMAIN t[m] = MonFields
  BY <1>1 DEF Told
<1>3. CASE b
  BY <1>1, <1>2, <1>3 DEF t, ToldOfLoss
<1>4. CASE ~b
  BY <1>4 DEF ToldOfLoss
<1> QED BY <1>3, <1>4

\* A link goes: both families may lose their default routes, then the routes
\* over the link are dropped.
LEMMA DownKeeps ==
    ASSUME MacInv(mr), NEW l \in MacLinks, LinkDown(l)
    PROVE  MacInv(mr')
<1> DEFINE g4 == LinkOf(mr.sys["v4"]) = l
           g6 == LinkOf(mr.sys["v6"]) = l
           m4 == MonitorMsg("delete", "v4", mr.sys["v4"], FALSE)
           m6 == MonitorMsg("delete", "v6", mr.sys["v6"], FALSE)
           sys == [f \in Families |-> IF f \in {h \in Families : LinkOf(mr.sys[h]) = l} THEN NoHop ELSE mr.sys[f]]
           rt == [p \in Excluded |-> IF LinkOf(mr.rt[p]) = l THEN NoHop ELSE mr.rt[p]]
           s == [mr EXCEPT !.up = @ \ {l}, !.sys = sys, !.rt = rt]
           t == IF g4 THEN Tell(s, m4) ELSE s
           r == IF g6 THEN Tell(t, m6) ELSE t
           a == AfterLoss(mr, "v4", l)
           b == AfterLoss(a, "v6", l)
<1>0. /\ MacBase(mr) /\ Sessions(mr) /\ DOMAIN mr = MacFields /\ \A m \in Monitors : DOMAIN mr[m] = MonFields
      /\ mr.sys \in [Families -> HopsOrNone] /\ "v4" \in Families /\ "v6" \in Families /\ g4 \in BOOLEAN /\ g6 \in BOOLEAN
  BY DEF MacInv, MacBase, MacTyped, MonOK, Families
<1>1. mr' = r
  BY <1>0, SMTT(30) DEF LinkDown
<1>2. /\ MacBase(a) /\ DOMAIN a = MacFields
      /\ a.sys = [mr.sys EXCEPT !["v4"] = IF g4 THEN NoHop ELSE @]
      /\ \A x \in MacFields \ (Monitors \cup {"sys"}) : a[x] = mr[x]
      /\ \A m \in Monitors : a[m].live = mr[m].live /\ a[m].excl = mr[m].excl /\ a[m] = ToldOfLoss(mr[m], g4, m4)
  <2>1. LossDone(mr, a, "v4", l)
    BY ONLY <1>0, l \in MacLinks, LossKeeps, Zenon
  <2> QED BY <2>1, Zenon DEF LossDone
<1> HIDE DEF a
<1>3. a.sys["v6"] = mr.sys["v6"]
  BY <1>0, <1>2
<1>4. /\ MacBase(b) /\ DOMAIN b = MacFields
      /\ b.sys = [a.sys EXCEPT !["v6"] = IF LinkOf(a.sys["v6"]) = l THEN NoHop ELSE @]
      /\ \A x \in MacFields \ (Monitors \cup {"sys"}) : b[x] = a[x]
      /\ \A m \in Monitors : /\ b[m].live = a[m].live /\ b[m].excl = a[m].excl
                             /\ b[m] = ToldOfLoss(a[m], LinkOf(a.sys["v6"]) = l, MonitorMsg("delete", "v6", a.sys["v6"], FALSE))
  <2>1. LossDone(a, b, "v6", l)
    BY ONLY <1>0, <1>2, l \in MacLinks, LossKeeps, Zenon
  <2> QED BY <2>1, Zenon DEF LossDone
<1> HIDE DEF b
<1>5. \A m \in Monitors : b[m] = ToldOfLoss(a[m], g6, m6)
  BY <1>3, <1>4, Zenon
<1>6. /\ DOMAIN s = MacFields /\ s.up = mr.up \ {l} /\ s.sys = sys /\ s.rt = rt
      /\ \A x \in MacFields \ {"up", "sys", "rt"} : s[x] = mr[x]
  <2> HIDE DEF sys, rt
  <2> QED BY <1>0, Zenon DEF MacFields
<1>s. \A f \in Families : sys[f] = IF LinkOf(mr.sys[f]) = l THEN NoHop ELSE mr.sys[f]
  OBVIOUS
<1>S. sys = [f \in Families |-> sys[f]]
  OBVIOUS
<1> HIDE DEF s, sys
<1>7. \A m \in Monitors : s[m] = mr[m]
  BY <1>6 DEF Monitors, MacFields
<1> HIDE DEF g4, g6, m4, m6, rt
<1>8. /\ DOMAIN t = MacFields /\ \A x \in MacFields \ Monitors : t[x] = s[x]
      /\ \A m \in Monitors : t[m] = ToldOfLoss(s[m], g4, m4) /\ DOMAIN t[m] = MonFields
  <2>1. DOMAIN s = MacFields /\ \A m \in Monitors : DOMAIN s[m] = MonFields
    BY <1>0, <1>6, <1>7
  <2> QED BY <1>0, <2>1, ToldIf
<1> HIDE DEF t
<1>9. /\ DOMAIN r = MacFields /\ \A x \in MacFields \ Monitors : r[x] = t[x]
      /\ \A m \in Monitors : r[m] = ToldOfLoss(t[m], g6, m6) /\ DOMAIN r[m] = MonFields
  <2>1. g6 \in BOOLEAN /\ DOMAIN t = MacFields /\ \A m \in Monitors : DOMAIN t[m] = MonFields
    BY <1>0, <1>8, SMTT(30)
  <2> QED BY ONLY <2>1, ToldIf
<1> HIDE DEF r
<1>10. \A m \in Monitors : mr'[m] = b[m]
  <2>1. \A m \in Monitors : t[m] = a[m]
    BY <1>2, <1>7, <1>8
  <2> QED BY <2>1, <1>1, <1>5, <1>9, SMTT(30)
<1>11. mr'.mon = b.mon /\ mr'.old = b.old
  BY <1>10 DEF Monitors
<1>12. b.sys = sys /\ b.up = mr.up /\ b.rt = mr.rt
  <2>1. a.sys \in [Families -> HopsOrNone] /\ b.sys \in [Families -> HopsOrNone]
    BY <1>2, <1>4, SMTT(30) DEF MacBase, MacTyped
  <2>2. b.sys["v4"] = IF g4 THEN NoHop ELSE mr.sys["v4"]
    BY <1>0, <1>2, <1>4, <2>1, SMTT(30)
  <2>3. b.sys["v6"] = IF g6 THEN NoHop ELSE mr.sys["v6"]
    BY <1>0, <1>3, <1>4, <2>1, SMTT(30) DEF g6
  <2>4. \A f \in Families : b.sys[f] = sys[f]
    BY <1>s, <2>2, <2>3, SMTT(30) DEF Families, g4, g6
  <2>5. b.up = mr.up /\ b.rt = mr.rt
    BY <1>2, <1>4 DEF MacFields, Monitors
  <2> QED BY <1>S, <2>1, <2>4, <2>5, SMTT(30)
<1>13. \A f \in Families : LinkOf(b.sys[f]) # l
  BY <1>12, <1>s, HopFacts, MacLinksAssumption, SMTT(30)
<1>14. mr'.sys = sys /\ mr'.up = mr.up \ {l} /\ mr'.rt = rt
  BY <1>1, <1>6, <1>8, <1>9, SMTT(30) DEF MacFields, Monitors
<1>a. mr'.rt = [p \in Excluded |-> IF LinkOf(b.rt[p]) = l THEN NoHop ELSE b.rt[p]]
  BY <1>12, <1>14, SMTT(30) DEF rt
<1>b. DOMAIN mr' = MacFields /\ mr'.sys = b.sys /\ mr'.up = b.up \ {l}
  BY <1>1, <1>9, <1>12, <1>14
<1>15. MacBase(mr')
  <2>1. MacBase(b)
    BY <1>4
  <2> QED BY ONLY <2>1, <1>11, <1>13, <1>a, <1>b, l \in MacLinks, LinkDropped, Zenon
<1>16. mr'.proc = mr.proc /\ mr'.half = mr.half /\ mr'.pc = mr.pc /\ mr'.conn = mr.conn
  BY <1>1, <1>6, <1>8, <1>9, SMTT(30) DEF MacFields, Monitors
<1>17. mr'.mon.live = mr.mon.live /\ mr'.mon.excl = mr.mon.excl
  BY <1>2, <1>4, <1>11, SMTT(30) DEF Monitors
<1>18. Sessions(mr')
  BY <1>0, <1>16, <1>17, SameSessions, SMTT(30)
<1> QED BY <1>15, <1>18 DEF MacInv

-----------------------------------------------------------------------------
(* The monitor *)

\* The route to p when m has handled msg
RtAfter(s, m, msg, p) ==
    IF msg.scoped \/ p \notin s[m].excl \/ FamilyOf(p) # msg.fam THEN s.rt[p]
    ELSE IF msg.type = "delete" THEN NoHop
    ELSE IF LinkOf(msg.hop) \in s.up /\ (s[m].def[msg.fam] = NoHop <=> s.rt[p] = NoHop) THEN msg.hop
    ELSE s.rt[p]

\* t is s when m has handled the first message of its queue.
Handled(s, t, m) ==
    LET msg == Head(s[m].q)
    IN  /\ DOMAIN t = MacFields
        /\ \A x \in MacFields \ {"rt", m} : t[x] = s[x]
        /\ DOMAIN t[m] = MonFields /\ t[m].q = Tail(s[m].q) /\ t[m].excl = s[m].excl /\ t[m].live = s[m].live
        /\ t[m].def = [s[m].def EXCEPT ![msg.fam] = IF msg.scoped THEN @ ELSE DefAfter(msg)]
        /\ t.rt = [p \in Excluded |-> RtAfter(s, m, msg, p)]

\* A monitor handles a message: the invariant needs that the message follows
\* from what the monitor knew, and that a route it cannot change now is
\* corrected by a message still waiting.
LEMMA HandledKeeps ==
    ASSUME NEW s, MacBase(s), NEW m \in Monitors, s[m].q # <<>>, NEW t, Handled(s, t, m)
    PROVE  MacBase(t)
<1> DEFINE q == s[m].q
           msg == Head(q)
           f == msg.fam
<1>0. MacTyped(s) /\ Following(s) /\ MonOK(s[m]) /\ s.sys \in [Families -> HopsOrNone] /\ s.rt \in [Excluded -> HopsOrNone]
  BY SMTT(30) DEF MacBase, MacTyped
<1>1. /\ q \in Seq(MsgSet) /\ q # <<>> /\ s[m].live /\ s[m].def \in [Families -> HopsOrNone]
      /\ msg \in MsgSet /\ Tail(q) \in Seq(MsgSet) /\ \A g \in Families : Leads(q, g, s[m].def[g], s.sys[g])
  BY <1>0, SMTT(30) DEF MonOK, Following
<1>2. f \in Families /\ msg.hop \in Hops /\ DefAfter(msg) \in HopsOrNone /\ msg.type \in {"add", "get", "change", "delete"}
  BY <1>1, SMTT(30) DEF MsgSet, DefAfter, HopsOrNone
<1>3. /\ DOMAIN t = MacFields /\ t.sys = s.sys /\ t.up = s.up /\ \A n \in Monitors : n # m => t[n] = s[n]
      /\ DOMAIN t[m] = MonFields /\ t[m].q = Tail(q) /\ t[m].excl = s[m].excl /\ t[m].live = s[m].live
  BY SMTT(30) DEF Handled, Monitors, MacFields
<1>4. /\ t[m].def = [s[m].def EXCEPT ![f] = IF msg.scoped THEN @ ELSE DefAfter(msg)]
      /\ t.rt = [p \in Excluded |-> RtAfter(s, m, msg, p)]
  BY SMTT(30) DEF Handled
<1> HIDE DEF q, msg, f
<1>5. t[m].def \in [Families -> HopsOrNone]
  BY <1>1, <1>2, <1>4, SMTT(30)
<1>6. ASSUME NEW g \in Families, msg.scoped \/ g # f
      PROVE  /\ t[m].def[g] = s[m].def[g]
             /\ Mine(t[m].q, g) = {} <=> Mine(q, g) = {}
             /\ Withdrawn(t[m].q, g) <=> Withdrawn(q, g)
             /\ Corrects(t[m].q, g) <=> Corrects(q, g)
             /\ Leads(t[m].q, g, t[m].def[g], s.sys[g])
  <2>1. t[m].def[g] = s[m].def[g]
    BY <1>1, <1>2, <1>4, <1>6, SMTT(30)
  <2>2. ~(Head(q).fam = g /\ ~Head(q).scoped)
    BY <1>6, SMTT(30) DEF f, msg
  <2> DEFINE d == s[m].def[g]
             k == s.sys[g]
             r == Tail(q)
  <2>3. Leads(q, g, d, k)
    BY <1>1, SMTT(30)
  <2> HIDE DEF d, k
  <2>4. /\ Mine(r, g) = {} <=> Mine(q, g) = {}
        /\ Withdrawn(r, g) <=> Withdrawn(q, g)
        /\ Corrects(r, g) <=> Corrects(q, g)
        /\ Leads(q, g, d, k) => Leads(r, g, d, k)
    BY <1>1, <2>2, TailOther, SMTT(30)
  <2> QED BY <1>3, <2>1, <2>3, <2>4, SMTT(30) DEF d, k
<1>7. ASSUME ~msg.scoped
      PROVE  /\ t[m].def[f] = DefAfter(msg)
             /\ Leads(t[m].q, f, DefAfter(msg), s.sys[f])
             /\ Mine(q, f) # {}
             /\ Follows(msg) <=> s[m].def[f] # NoHop
             /\ Withdrawn(t[m].q, f) => Withdrawn(q, f)
             /\ msg.type # "delete" => (Withdrawn(q, f) => Withdrawn(t[m].q, f))
             /\ ~Withdrawn(q, f) => s.sys[f] # NoHop /\ LinkOf(msg.hop) = LinkOf(s.sys[f])
             /\ Mine(t[m].q, f) = {} => s.sys[f] = DefAfter(msg)
             /\ Mine(t[m].q, f) # {} => (Corrects(q, f) <=> Corrects(t[m].q, f))
             /\ Mine(t[m].q, f) = {} => (Corrects(q, f) <=> msg.type = "change")
  <2>1. t[m].def[f] = DefAfter(msg)
    BY <1>1, <1>2, <1>4, <1>7, SMTT(30)
  <2> DEFINE d == s[m].def[f]
             k == s.sys[f]
             r == Tail(q)
  <2>2. Leads(q, f, d, k) /\ d \in HopsOrNone /\ k \in HopsOrNone
    BY <1>0, <1>1, <1>2, SMTT(30)
  <2>3. Head(q).fam = f /\ ~Head(q).scoped
    BY <1>7, SMTT(30) DEF f, msg
  <2> HIDE DEF d, k
  <2>4. /\ Leads(r, f, DefAfter(Head(q)), k)
        /\ Mine(q, f) # {}
        /\ Follows(Head(q)) <=> d # NoHop
        /\ Withdrawn(r, f) => Withdrawn(q, f)
        /\ Head(q).type = "delete" => Withdrawn(q, f)
        /\ Head(q).type # "delete" => (Withdrawn(q, f) => Withdrawn(r, f))
        /\ ~Withdrawn(q, f) => k # NoHop /\ LinkOf(Head(q).hop) = LinkOf(k)
        /\ Mine(r, f) = {} => k = DefAfter(Head(q)) /\ ~Withdrawn(r, f)
        /\ Mine(r, f) # {} => (Corrects(q, f) <=> Corrects(r, f))
        /\ Mine(r, f) = {} => (Corrects(q, f) <=> Head(q).type = "change")
    BY <1>1, <2>2, <2>3, TailTells, ZenonT(40)
  <2> QED BY <1>3, <2>1, <2>4, SMTT(30) DEF d, k, msg
<1>8. MacTyped(t)
  <2>1. \A n \in Monitors : MonOK(t[n])
    BY <1>0, <1>1, <1>3, <1>5, ZenonT(40) DEF MacTyped, MonOK
  <2>2. \A p \in Excluded : RtAfter(s, m, msg, p) \in HopsOrNone
    BY <1>0, <1>2 DEF RtAfter, HopsOrNone
  <2> QED BY <1>0, <1>3, <1>4, <2>1, <2>2, SMTT(30) DEF MacTyped
<1>9. Following(t)
  <2>1. \A g \in Families : Leads(t[m].q, g, t[m].def[g], t.sys[g])
    BY <1>2, <1>3, <1>6, <1>7, ZenonT(40)
  <2>2. \A n \in Monitors : n # m => (t[n].live => \A g \in Families : Leads(t[n].q, g, t[n].def[g], t.sys[g]))
    BY <1>0, <1>3, ZenonT(40) DEF Following
  <2> QED BY <2>1, <2>2 DEF Following
<1>10. ASSUME NEW p \in Excluded PROVE RouteInv(t, p)
  <2>1. RouteInv(s, p) /\ FamilyOf(p) \in Families /\ t.rt[p] = RtAfter(s, m, msg, p)
    BY <1>4, FamilyOfExcluded DEF MacBase
  <2>2. \A n \in Monitors : t[n].excl = s[n].excl /\ t[n].live = s[n].live
    BY <1>3
  <2>a. t.mon.live = s.mon.live
    BY <2>2, SMTT(30) DEF Monitors
  <2>3. CASE p \notin s[m].excl
    <3>1. t.rt[p] = s.rt[p]
      BY <2>1, <2>3, SMTT(30) DEF RtAfter
    <3>2. Steady(t, p) <=> Steady(s, p)
      BY <1>3, <2>2, <2>3, SMTT(30) DEF Steady
    <3>3. Routed(s, p) => Routed(t, p)
      BY <1>3, <2>2, <2>3, <3>1, ZenonT(40) DEF Routed
    <3> QED BY <2>1, <2>2, <2>a, <3>1, <3>2, <3>3, SMTT(30) DEF RouteInv
  <2>4. CASE p \in s[m].excl /\ (msg.scoped \/ FamilyOf(p) # f)
    <3>1. t.rt[p] = s.rt[p]
      BY <2>1, <2>4 DEF RtAfter, f
    <3> DEFINE g == FamilyOf(p)
    <3>2. /\ t[m].def[g] = s[m].def[g]
          /\ Mine(t[m].q, g) = {} <=> Mine(s[m].q, g) = {}
          /\ Withdrawn(t[m].q, g) <=> Withdrawn(s[m].q, g)
          /\ Corrects(t[m].q, g) <=> Corrects(s[m].q, g)
      BY <1>6, <2>1, <2>4 DEF q
    <3> HIDE DEF g
    <3>3. Steady(t, p) <=> Steady(s, p)
      BY <1>3, <2>2, <3>2, Zenon DEF Steady, g
    <3>4. Routed(s, p) => Routed(t, p)
      BY <1>3, <2>2, <3>1, <3>2, ZenonT(40) DEF Routed, g
    <3> QED BY <2>1, <2>2, <2>a, <3>1, <3>3, <3>4 DEF RouteInv
  <2>5. CASE p \in s[m].excl /\ ~msg.scoped /\ FamilyOf(p) = f
    <3> SUFFICES ASSUME t.mon.live, Steady(t, p) PROVE Routed(t, p)
      BY <2>2, <2>5, SMTT(30) DEF RouteInv
    <3>1. p \in t[m].excl /\ ~Withdrawn(t[m].q, f)
      BY <2>2, <2>5, SMTT(30) DEF Steady
    <3>2. CASE msg.type = "delete"
      <4>1. t.rt[p] = NoHop /\ t[m].def[f] = NoHop
        BY <1>7, <2>1, <2>5, <3>2, Zenon DEF RtAfter, f, DefAfter
      <4>2. t.sys[f] # NoHop => Mine(t[m].q, f) # {}
        BY <1>3, <1>7, <2>5, <3>2, ZenonT(40) DEF DefAfter
      <4> QED BY <2>5, <3>1, <4>1, <4>2, ZenonT(40) DEF Routed
    <3>3. CASE msg.type # "delete"
      <4>1. Steady(s, p)
        <5>1. ~Withdrawn(q, f)
          BY <1>7, <2>5, <3>1, <3>3, ZenonT(40)
        <5>2. \A n \in Monitors : p \in s[n].excl => ~Withdrawn(s[n].q, f)
          BY <1>3, <2>2, <2>5, <5>1, SMTT(30) DEF Steady, q
        <5> QED BY <2>5, <5>2, SMTT(30) DEF Steady
      <4>2. Routed(s, p) /\ ~Withdrawn(q, f)
        BY <2>1, <2>5, <2>a, <4>1, SMTT(30) DEF RouteInv, Steady, q
      <4>3. s.sys[f] # NoHop /\ LinkOf(msg.hop) = LinkOf(s.sys[f]) /\ LinkOf(msg.hop) \in s.up /\ DefAfter(msg) = msg.hop
        BY <1>0, <1>2, <1>7, <2>5, <3>3, <4>2, ZenonT(40) DEF MacTyped, DefAfter
      <4>4. t.rt[p] = IF s[m].def[f] = NoHop <=> s.rt[p] = NoHop THEN msg.hop ELSE s.rt[p]
        BY <2>1, <2>5, <3>3, <4>3, SMTT(30) DEF RtAfter, f
      <4>5. t.rt[p] = NoHop => \E n \in Monitors : p \in t[n].excl /\ t[n].def[f] = NoHop /\ Mine(t[n].q, f) # {}
        <5> SUFFICES ASSUME t.rt[p] = NoHop
                     PROVE  \E n \in Monitors : p \in t[n].excl /\ t[n].def[f] = NoHop /\ Mine(t[n].q, f) # {}
          OBVIOUS
        <5>1. s.rt[p] = NoHop /\ s[m].def[f] # NoHop
          BY <1>2, <4>4, HopFacts
        <5>2. PICK n \in Monitors : p \in s[n].excl /\ s[n].def[f] = NoHop /\ Mine(s[n].q, f) # {}
          BY <2>5, <4>2, <4>3, <5>1, ZenonT(40) DEF Routed
        <5> QED BY <1>3, <5>1, <5>2, Zenon
      <4>6. t.rt[p] # NoHop => LinkOf(t.rt[p]) = LinkOf(s.sys[f])
        BY <2>5, <4>2, <4>3, <4>4 DEF Routed
      <4>7. t.rt[p] # NoHop /\ t.rt[p] # s.sys[f] => \E n \in Monitors : p \in t[n].excl /\ Corrects(t[n].q, f)
        <5> SUFFICES ASSUME t.rt[p] # NoHop, t.rt[p] # s.sys[f]
                     PROVE  \E n \in Monitors : p \in t[n].excl /\ Corrects(t[n].q, f)
          BY SMTT(30)
        <5>1. CASE t.rt[p] = msg.hop
          <6>1. Mine(t[m].q, f) # {}
            BY <1>7, <2>5, <4>3, <5>1, ZenonT(40)
          <6>2. Settling(t[m].q, f, msg.hop) /\ msg.hop # NoHop
            BY <1>2, <1>7, <2>5, <4>3, <5>1, ZenonT(40) DEF Leads
          <6>3. Corrects(t[m].q, f)
            BY <3>1, <6>1, <6>2, ZenonT(40) DEF Settling
          <6> QED BY <3>1, <6>3, SMTT(30)
        <5>2. CASE t.rt[p] = s.rt[p] /\ s[m].def[f] = NoHop
          <6>1. PICK n \in Monitors : p \in s[n].excl /\ Corrects(s[n].q, f)
            BY <2>5, <4>2, <5>2, SMTT(30) DEF Routed
          <6>2. CASE n # m
            BY <1>3, <6>1, <6>2, SMTT(30)
          <6>3. CASE n = m
            BY <1>7, <2>5, <3>1, <5>2, <6>1, <6>3, ZenonT(40) DEF q, Follows
          <6> QED BY <6>2, <6>3, SMTT(30)
        <5> QED BY <4>4, <5>1, <5>2, SMTT(30)
      <4> QED BY <1>3, <2>5, <4>3, <4>5, <4>6, <4>7, ZenonT(60) DEF Routed
    <3> QED BY <3>2, <3>3, SMTT(30)
  <2> QED BY <2>3, <2>4, <2>5, SMTT(30)
<1> QED BY <1>8, <1>9, <1>10, SMTT(30) DEF MacBase

\* rtmSendRoute writes routes and nothing else.
LEMMA SendFields ==
    ASSUME NEW u, DOMAIN u = MacFields, NEW action, NEW ps, NEW hop
    PROVE  LET t == rtmSendRoute(u, action, ps, hop)
           IN  /\ DOMAIN t = MacFields /\ \A x \in MacFields \ {"rt"} : t[x] = u[x]
               /\ t.rt = [p \in Excluded |-> IF p \in ps THEN NewMacRoute(u, action, p, hop) ELSE u.rt[p]]
<1> DEFINE rt == [p \in Excluded |-> IF p \in ps THEN NewMacRoute(u, action, p, hop) ELSE u.rt[p]]
           t == rtmSendRoute(u, action, ps, hop)
<1>1. t = [u EXCEPT !.rt = rt]
  BY DEF rtmSendRoute
<1> HIDE DEF t, rt
<1>2. DOMAIN t = MacFields /\ (\A x \in MacFields \ {"rt"} : t[x] = u[x]) /\ t.rt = rt
  BY <1>1 DEF MacFields
<1> QED BY <1>2 DEF t, rt

\* rtsockReady: handleRtmUpdate and handleRtmDelete do what Handled says.
LEMMA ReadyKeeps ==
    ASSUME MacInv(mr), NEW w \in Monitors, rtsockReady(w)
    PROVE  MacInv(mr')
<1> DEFINE m == mr[w]
           msg == Head(m.q)
           s == [mr EXCEPT ![w].q = Tail(@)]
           f == msg.fam
           ps == OfFamily(s[w], f)
           def == IF msg.type = "delete" THEN NoHop ELSE msg.hop
           u == [s EXCEPT ![w].def[f] = def]
           action == IF msg.type = "delete" THEN "delete" ELSE IF s[w].def[f] # NoHop THEN "change" ELSE "add"
           t == rtmSendRoute(u, action, ps, def)
<1>0. /\ MacBase(mr) /\ Sessions(mr) /\ DOMAIN mr = MacFields /\ DOMAIN m = MonFields /\ w \in MacFields /\ w # "rt"
      /\ m.q \in Seq(MsgSet) /\ m.q # <<>> /\ m.def \in [Families -> HopsOrNone] /\ m.excl \subseteq Excluded
      /\ mr.rt \in [Excluded -> HopsOrNone]
  BY DEF MacInv, MacBase, MacTyped, MonOK, rtsockReady, Monitors, MacFields
<1>1. msg \in MsgSet /\ f \in Families
  <2>1. msg \in MsgSet
    <3> HIDE DEF m
    <3> QED BY <1>0
  <2> HIDE DEF msg
  <2> QED BY <2>1 DEF MsgSet
<1>2. mr' = IF msg.scoped THEN s ELSE t
  <2>1. mr' = IF msg.type = "delete" THEN handleRtmDelete(s, w, msg) ELSE handleRtmUpdate(s, w, msg)
    BY DEF rtsockReady
  <2> HIDE DEF s, msg
  <2>2. CASE msg.type = "delete"
    BY <2>1, <2>2 DEF handleRtmDelete
  <2>3. CASE msg.type # "delete"
    BY <2>1, <2>3 DEF handleRtmUpdate
  <2> QED BY <2>2, <2>3
<1>3. DOMAIN s = MacFields /\ s[w] = [m EXCEPT !.q = Tail(@)] /\ \A x \in MacFields \ {w} : s[x] = mr[x]
  BY <1>0
<1>4. /\ DOMAIN s[w] = MonFields /\ s[w].q = Tail(m.q) /\ s[w].excl = m.excl /\ s[w].live = m.live /\ s[w].def = m.def
  BY <1>0, <1>3 DEF MonFields
<1> HIDE DEF s
<1>5. DOMAIN u = MacFields /\ u[w] = [s[w] EXCEPT !.def[f] = def] /\ \A x \in MacFields \ {w} : u[x] = s[x]
  BY <1>0, <1>3
<1> HIDE DEF u
<1>6. /\ DOMAIN u[w] = MonFields /\ u[w].q = Tail(m.q) /\ u[w].excl = m.excl /\ u[w].live = m.live
      /\ u[w].def = [m.def EXCEPT ![f] = def]
  BY <1>4, <1>5 DEF MonFields
<1>7. /\ DOMAIN t = MacFields /\ \A x \in MacFields \ {"rt"} : t[x] = u[x]
      /\ t.rt = [p \in Excluded |-> IF p \in ps THEN NewMacRoute(u, action, p, def) ELSE u.rt[p]]
  <2> HIDE DEF action, ps, def
  <2> QED BY <1>5, SendFields
<1>8. u.up = mr.up /\ u.rt = mr.rt /\ s.rt = mr.rt
  BY <1>0, <1>3, <1>5 DEF MacFields, Monitors
<1>9. ASSUME msg.scoped PROVE MacBase(mr')
  <2>1. mr' = s
    BY <1>2, <1>9, SMTT(30)
  <2>2. \A p \in Excluded : RtAfter(mr, w, msg, p) = mr.rt[p]
    BY <1>9, SMTT(30) DEF RtAfter
  <2>3. mr'.rt = [p \in Excluded |-> RtAfter(mr, w, msg, p)]
    BY <1>0, <1>8, <2>1, <2>2, SMTT(30)
  <2>4. mr'[w].def = [m.def EXCEPT ![f] = IF msg.scoped THEN @ ELSE DefAfter(msg)]
    BY <1>0, <1>1, <1>4, <1>9, <2>1, SMTT(30)
  <2> HIDE DEF msg
  <2>5. Handled(mr, mr', w)
    BY <1>3, <1>4, <2>1, <2>3, <2>4, ZenonT(40) DEF Handled, msg
  <2> QED BY ONLY <1>0, <2>5, w \in Monitors, HandledKeeps, Zenon
<1>10. ASSUME ~msg.scoped PROVE MacBase(mr')
  <2>1. mr' = t
    BY <1>2, <1>10
  <2>2. ASSUME NEW p \in Excluded
        PROVE  (IF p \in ps THEN NewMacRoute(u, action, p, def) ELSE u.rt[p]) = RtAfter(mr, w, msg, p)
    <3>1. p \in ps <=> p \in m.excl /\ FamilyOf(p) = f
      BY <1>4, SMTT(30) DEF OfFamily
    <3>2. CASE p \notin ps
      BY <1>8, <3>1, <3>2, SMTT(30) DEF RtAfter
    <3>3. CASE p \in ps /\ msg.type = "delete"
      BY <1>10, <3>1, <3>3, SMTT(30) DEF RtAfter, NewMacRoute
    <3>4. CASE p \in ps /\ msg.type # "delete"
      <4>1. action = (IF m.def[f] # NoHop THEN "change" ELSE "add") /\ def = msg.hop
        BY <1>4, <3>4, SMTT(30)
      <4>2. NewMacRoute(u, action, p, def) =
              IF LinkOf(msg.hop) \in mr.up /\ (m.def[f] = NoHop <=> mr.rt[p] = NoHop) THEN msg.hop ELSE mr.rt[p]
        BY <1>8, <4>1, SMTT(30) DEF NewMacRoute
      <4> QED BY <1>10, <3>1, <3>4, <4>2, ZenonT(40) DEF RtAfter
    <3> QED BY <3>2, <3>3, <3>4, ZenonT(40)
  <2>3. mr'.rt = [p \in Excluded |-> RtAfter(mr, w, msg, p)]
    BY <1>7, <2>1, <2>2, ZenonT(40)
  <2>4. mr'[w].def = [m.def EXCEPT ![f] = IF msg.scoped THEN @ ELSE DefAfter(msg)]
    BY <1>0, <1>6, <1>7, <1>10, <2>1, ZenonT(40) DEF DefAfter
  <2>5. \A x \in MacFields \ {"rt", w} : mr'[x] = mr[x]
    BY <1>3, <1>5, <1>7, <2>1, ZenonT(40)
  <2>6. mr'[w] = u[w] /\ DOMAIN mr' = MacFields
    BY <1>0, <1>7, <2>1, ZenonT(40)
  <2> HIDE DEF msg, t
  <2>7. Handled(mr, mr', w)
    BY <1>6, <2>3, <2>4, <2>5, <2>6, Zenon DEF Handled, msg
  <2> QED BY ONLY <1>0, <2>7, w \in Monitors, HandledKeeps, Zenon
<1>11. MacBase(mr')
  BY <1>9, <1>10, SMTT(30)
<1>a. mr'[w].live = m.live /\ mr'[w].excl = m.excl /\ \A x \in MacFields \ {"rt", w} : mr'[x] = mr[x]
  <2> HIDE DEF t
  <2>1. t[w] = u[w] /\ \A x \in MacFields \ {"rt", w} : t[x] = mr[x]
    BY <1>0, <1>3, <1>5, <1>7
  <2> HIDE DEF msg
  <2>2. CASE msg.scoped
    BY <1>2, <1>3, <1>4, <2>2, Zenon
  <2>3. CASE ~msg.scoped
    BY <1>2, <1>6, <2>1, <2>3
  <2> QED BY <2>2, <2>3, SMTT(30)
<1>12. mr'.mon.live = mr.mon.live /\ mr'.mon.excl = mr.mon.excl
  BY <1>a DEF MacFields, Monitors
<1>13. mr'.proc = mr.proc /\ mr'.half = mr.half /\ mr'.pc = mr.pc /\ mr'.conn = mr.conn
  BY <1>a DEF MacFields, Monitors
<1>14. Sessions(mr')
  BY <1>0, <1>12, <1>13, SameSessions
<1> QED BY <1>11, <1>14 DEF MacInv

\* What a new monitor finds in its queue tells it the default routes.
LEMMA FetchLeads ==
    ASSUME NEW s, MacBase(s)
    PROVE  /\ rtmFetchRoutes(s) \in Seq(MsgSet)
           /\ \A f \in Families : Leads(rtmFetchRoutes(s), f, NoHop, s.sys[f])
<1> DEFINE s4 == s.sys["v4"]
           s6 == s.sys["v6"]
           m4 == MonitorMsg("get", "v4", s4, FALSE)
           m6 == MonitorMsg("get", "v6", s6, FALSE)
           q4 == IF s4 = NoHop THEN <<>> ELSE Append(<<>>, m4)
           q == IF s6 = NoHop THEN q4 ELSE Append(q4, m6)
<1>0. s4 \in HopsOrNone /\ s6 \in HopsOrNone /\ NoHop \in HopsOrNone /\ <<>> \in Seq(MsgSet)
  BY DEF MacBase, MacTyped, Families, HopsOrNone
<1>1. rtmFetchRoutes(s) = q
  <2>1. rtmFetchRoutes(s) = (IF s4 = NoHop THEN <<>> ELSE <<m4>>) \o (IF s6 = NoHop THEN <<>> ELSE <<m6>>)
    BY DEF rtmFetchRoutes
  <2> HIDE DEF s4, s6, m4, m6
  <2>2. CASE s4 = NoHop /\ s6 = NoHop
    BY <2>1, <2>2
  <2>3. CASE s4 # NoHop /\ s6 = NoHop
    BY <2>1, <2>3
  <2>4. CASE s4 = NoHop /\ s6 # NoHop
    BY <2>1, <2>4
  <2>5. CASE s4 # NoHop /\ s6 # NoHop
    BY <2>1, <2>5, SMTT(30)
  <2> QED BY <2>2, <2>3, <2>4, <2>5
<1> HIDE DEF s4, s6
<1>2. s4 # NoHop => m4 \in MsgSet /\ Tells(m4, "v4", NoHop, s4) /\ m4.fam = "v4"
  BY <1>0, SMTT(30) DEF MonitorMsg, MsgSet, HopsOrNone, Families, Tells, Follows, DefAfter
<1>3. s6 # NoHop => m6 \in MsgSet /\ Tells(m6, "v6", NoHop, s6) /\ m6.fam = "v6"
  BY <1>0, SMTT(30) DEF MonitorMsg, MsgSet, HopsOrNone, Families, Tells, Follows, DefAfter
<1> HIDE DEF m4, m6
<1>4. \A f : Leads(<<>>, f, NoHop, NoHop)
  <2>1. \A f : Mine(<<>>, f) = {}
    BY DEF Mine
  <2> QED BY <2>1 DEF Leads, Chain, OneLink, Settling
<1>5. q4 \in Seq(MsgSet) /\ Leads(q4, "v4", NoHop, s4) /\ Leads(q4, "v6", NoHop, NoHop)
  <2>1. CASE s4 = NoHop
    BY <1>0, <1>4, <2>1
  <2>2. CASE s4 # NoHop
    <3>1. q4 = Append(<<>>, m4) /\ m4 \in MsgSet /\ Tells(m4, "v4", NoHop, s4) /\ ~(m4.fam = "v6" /\ ~m4.scoped)
      BY <1>2, <2>2
    <3> DEFINE e == <<>>
    <3>2. e \in Seq(MsgSet) /\ Leads(e, "v4", NoHop, NoHop) /\ Leads(e, "v6", NoHop, NoHop)
      BY <1>0, <1>4
    <3>3. q4 = Append(e, m4)
      BY <3>1
    <3> HIDE DEF e, q4
    <3>4. Append(e, m4) \in Seq(MsgSet)
      BY <3>1, <3>2
    <3>5. Leads(Append(e, m4), "v4", NoHop, s4)
      BY <1>0, <3>1, <3>2, AppendTells, Zenon
    <3>6. Leads(e, "v6", NoHop, NoHop) => Leads(Append(e, m4), "v6", NoHop, NoHop)
      BY <1>0, <3>1, <3>2, AppendOther
    <3> QED BY <3>2, <3>3, <3>4, <3>5, <3>6
  <2> QED BY <2>1, <2>2
<1> HIDE DEF q4
<1>6. q \in Seq(MsgSet) /\ Leads(q, "v4", NoHop, s4) /\ Leads(q, "v6", NoHop, s6)
  <2>1. CASE s6 = NoHop
    BY <1>5, <2>1
  <2>2. CASE s6 # NoHop
    <3>1. q = Append(q4, m6) /\ m6 \in MsgSet /\ Tells(m6, "v6", NoHop, s6) /\ ~(m6.fam = "v4" /\ ~m6.scoped)
      BY <1>3, <2>2
    <3> HIDE DEF q
    <3>4. Append(q4, m6) \in Seq(MsgSet)
      BY <3>1, <1>5, SMTT(30)
    <3>5. Leads(Append(q4, m6), "v6", NoHop, s6)
      BY <1>0, <1>5, <3>1, AppendTells, ZenonT(40)
    <3>6. Leads(q4, "v4", NoHop, s4) => Leads(Append(q4, m6), "v4", NoHop, s4)
      BY <1>0, <1>5, <3>1, AppendOther
    <3> QED BY <1>5, <3>1, <3>4, <3>5, <3>6
  <2> QED BY <2>1, <2>2
<1> HIDE DEF q
<1>7. \A f \in Families : Leads(q, f, NoHop, s.sys[f])
  BY <1>6 DEF Families, s4, s6
<1> QED BY <1>1, <1>6, <1>7, SMTT(30)

\* The route that addExclusionRoute leaves
RtAdded(s, p) ==
    LET hop == s.mon.def[FamilyOf(p)]
    IN  IF hop # NoHop /\ LinkOf(hop) \in s.up /\ s.rt[p] = NoHop THEN hop ELSE s.rt[p]

\* An exclusion is added: a default route the monitor knows is on the right
\* link unless its loss is waiting in the queue.
LEMMA AddedKeeps ==
    ASSUME NEW s, MacBase(s), s.mon.live, NEW p \in Excluded, NEW t, DOMAIN t = MacFields,
           t.sys = s.sys, t.up = s.up, t.old = s.old, DOMAIN t.mon = MonFields, t.mon.excl = s.mon.excl \cup {p},
           t.mon.def = s.mon.def, t.mon.q = s.mon.q, t.mon.live = s.mon.live,
           t.rt = [s.rt EXCEPT ![p] = RtAdded(s, p)]
    PROVE  MacBase(t)
<1> DEFINE f == FamilyOf(p)
           hop == s.mon.def[f]
<1>0. /\ MacTyped(s) /\ Following(s) /\ MonOK(s.mon) /\ MonOK(s.old) /\ s.sys \in [Families -> HopsOrNone]
      /\ s.rt \in [Excluded -> HopsOrNone] /\ f \in Families
  BY FamilyOfExcluded, SMTT(30) DEF MacBase, MacTyped, Monitors
<1>1. hop \in HopsOrNone /\ Leads(s.mon.q, f, hop, s.sys[f]) /\ s.sys[f] \in HopsOrNone
  BY <1>0, SMTT(30) DEF MonOK, Following, Monitors
<1>2. t.rt[p] = RtAdded(s, p) /\ RtAdded(s, p) \in HopsOrNone /\ \A r \in Excluded : r # p => t.rt[r] = s.rt[r]
  BY <1>0, <1>1, ZenonT(40) DEF RtAdded
<1>3. MacTyped(t)
  <2>1. MonOK(t.mon) /\ MonOK(t.old)
    BY <1>0, ZenonT(40) DEF MonOK
  <2>2. t.rt \in [Excluded -> HopsOrNone]
    BY <1>0, <1>2, SMTT(30)
  <2> QED BY <1>0, <2>1, <2>2, ZenonT(40) DEF MacTyped, Monitors
<1>4. Following(t)
  BY <1>0, SMTT(30) DEF Following, Monitors
<1>5. ASSUME NEW r \in Excluded, r # p PROVE RouteInv(t, r)
  <2>1. RouteInv(s, r) /\ t.rt[r] = s.rt[r]
    BY <1>2, <1>5, SMTT(30) DEF MacBase
  <2>2. \A m \in Monitors : (r \in t[m].excl <=> r \in s[m].excl) /\ t[m].def = s[m].def /\ t[m].q = s[m].q
    BY <1>5, SMTT(30) DEF Monitors
  <2>3. Steady(t, r) <=> Steady(s, r)
    BY <2>2, SMTT(30) DEF Steady
  <2>4. Routed(s, r) => Routed(t, r)
    BY <2>1, <2>2, ZenonT(40) DEF Routed
  <2> QED BY <2>1, <2>2, <2>3, <2>4, SMTT(30) DEF RouteInv
<1>6. RouteInv(t, p)
  <2>1. "mon" \in Monitors /\ "old" \in Monitors /\ p \in t.mon.excl /\ t["mon"] = t.mon /\ t["old"] = s.old
    BY SMTT(30) DEF Monitors
  <2> SUFFICES ASSUME Steady(t, p) PROVE Routed(t, p)
    BY <2>1, SMTT(30) DEF RouteInv
  <2>2. RouteInv(s, p)
    BY SMTT(30) DEF MacBase
  <2> HIDE DEF hop, f
  <2>3. ~Withdrawn(s.mon.q, f)
    BY <2>1, SMTT(30) DEF Steady, f
  <2>4. hop # NoHop => s.sys[f] # NoHop /\ LinkOf(hop) = LinkOf(s.sys[f]) /\ LinkOf(hop) \in s.up
    BY <1>0, <1>1, <2>3, HopFacts, ZenonT(40) DEF Leads, OneLink, HopsOrNone, MacTyped
  <2>5. t.rt[p] = IF hop # NoHop /\ s.rt[p] = NoHop THEN hop ELSE s.rt[p]
    BY <1>2, <2>4, ZenonT(40) DEF RtAdded, hop, f
  <2>6. /\ hop # s.sys[f] => Mine(s.mon.q, f) # {}
        /\ hop # NoHop /\ Mine(s.mon.q, f) # {} => Corrects(s.mon.q, f)
    BY <1>1, <2>3, ZenonT(40) DEF Leads, Chain, Settling
  <2>7. p \notin s.mon.excl /\ p \notin s.old.excl => s.rt[p] = NoHop
    BY <2>2, SMTT(30) DEF RouteInv, Monitors
  <2>8. p \in s.mon.excl \/ p \in s.old.excl => Steady(s, p)
    BY <2>1, <2>3, SMTT(30) DEF Steady, Monitors, f
  <2>9. p \in s.mon.excl \/ p \in s.old.excl => Routed(s, p)
    BY <2>2, <2>8, SMTT(30) DEF RouteInv
  <2>10. \A m \in Monitors : p \in s[m].excl => p \in t[m].excl /\ t[m].def = s[m].def /\ t[m].q = s[m].q
    BY SMTT(30) DEF Monitors
  <2>11. p \in t["mon"].excl /\ t["mon"].def[f] = hop /\ t["mon"].q = s.mon.q
    BY SMTT(30) DEF hop
  <2>12. s.sys[f] = NoHop => t.rt[p] = NoHop
    BY <2>4, <2>5, <2>7, <2>9, ZenonT(40) DEF Routed, f
  <2>13. s.sys[f] # NoHop /\ t.rt[p] = NoHop =>
           \E m \in Monitors : p \in t[m].excl /\ t[m].def[f] = NoHop /\ Mine(t[m].q, f) # {}
    BY <2>1, <2>5, <2>6, <2>11, SMTT(30)
  <2>14. t.rt[p] # NoHop => LinkOf(t.rt[p]) = LinkOf(s.sys[f])
    <3>1. s.rt[p] # NoHop => Routed(s, p)
      BY <2>7, <2>9, SMTT(30)
    <3>2. s.rt[p] # NoHop => LinkOf(s.rt[p]) = LinkOf(s.sys[f])
      BY <3>1, ZenonT(40) DEF Routed, f
    <3> QED BY <2>4, <2>5, <3>2, SMTT(30)
  <2>15. t.rt[p] # NoHop /\ t.rt[p] # s.sys[f] => \E m \in Monitors : p \in t[m].excl /\ Corrects(t[m].q, f)
    <3>1. CASE s.rt[p] = NoHop
      BY <2>1, <2>5, <2>6, <2>11, <3>1, SMTT(30)
    <3>2. CASE s.rt[p] # NoHop
      <4>1. Routed(s, p) /\ t.rt[p] = s.rt[p]
        BY <2>5, <2>7, <2>9, <3>2, SMTT(30)
      <4> QED BY <2>10, <3>2, <4>1, ZenonT(40) DEF Routed, f
    <3> QED BY <3>1, <3>2, SMTT(30)
  <2> QED BY <2>12, <2>13, <2>14, <2>15, ZenonT(40) DEF Routed, f
<1> QED BY <1>3, <1>4, <1>5, <1>6 DEF MacBase

-----------------------------------------------------------------------------
(* The daemon *)

\* t is s after exclusions were added.
Grown(s, t) ==
    /\ MacBase(t) /\ DOMAIN t = MacFields
    /\ t.mon.live = s.mon.live /\ s.mon.excl \subseteq t.mon.excl
    /\ t.proc = s.proc /\ t.half = s.half /\ t.pc = s.pc /\ t.conn = s.conn

\* MacosRouteMonitor::addExclusionRoute.
LEMMA AddGrows ==
    ASSUME NEW s, MacBase(s), s.mon.live, NEW p \in Excluded
    PROVE  LET t == addExclusionRoute(s, p).s IN Grown(s, t) /\ p \in t.mon.excl
<1> DEFINE hop == s.mon.def[FamilyOf(p)]
           x == s.mon.excl \cup {p}
           u == [s EXCEPT !.mon.excl = @ \cup {p}]
           v == rtmSendRoute(u, "add", {p}, hop)
           t == addExclusionRoute(s, p).s
<1>0. DOMAIN s = MacFields /\ DOMAIN s.mon = MonFields /\ s.rt \in [Excluded -> HopsOrNone]
  BY DEF MacBase, MacTyped, MonOK, Monitors
<1>1. CASE p \in s.mon.excl
  BY <1>0, <1>1, Zenon DEF addExclusionRoute, Grown
<1>2. CASE p \notin s.mon.excl
  <2>1. t = IF hop = NoHop THEN u ELSE v
    BY <1>2 DEF addExclusionRoute
  <2>2. DOMAIN u = MacFields /\ u.mon = [s.mon EXCEPT !.excl = @ \cup {p}] /\ \A y \in MacFields \ {"mon"} : u[y] = s[y]
    BY <1>0 DEF MacFields
  <2> HIDE DEF u
  <2>3. /\ DOMAIN u.mon = MonFields /\ u.mon.excl = s.mon.excl \cup {p} /\ u.mon.def = s.mon.def
        /\ u.mon.q = s.mon.q /\ u.mon.live = s.mon.live
    BY <1>0, <2>2, ZenonT(40) DEF MonFields
  <2>4. /\ DOMAIN v = MacFields /\ \A y \in MacFields \ {"rt"} : v[y] = u[y]
        /\ v.rt = [r \in Excluded |-> IF r \in {p} THEN NewMacRoute(u, "add", r, hop) ELSE u.rt[r]]
    BY <2>2, SendFields
  <2> HIDE DEF v, t
  <2>5. /\ u.sys = s.sys /\ u.up = s.up /\ u.old = s.old /\ u.rt = s.rt
        /\ u.proc = s.proc /\ u.half = s.half /\ u.pc = s.pc /\ u.conn = s.conn
    BY <2>2 DEF MacFields
  <2>6. /\ DOMAIN t = MacFields /\ t.mon = u.mon /\ t.sys = u.sys /\ t.up = u.up /\ t.old = u.old
        /\ t.proc = u.proc /\ t.half = u.half /\ t.pc = u.pc /\ t.conn = u.conn
    BY <2>1, <2>2, <2>4 DEF MacFields
  <2>7. t.rt = [s.rt EXCEPT ![p] = RtAdded(s, p)]
    <3>1. CASE hop = NoHop
      <4>1. RtAdded(s, p) = s.rt[p]
        BY <3>1, SMTT(30) DEF RtAdded
      <4> QED BY <1>0, <2>1, <2>5, <3>1, <4>1, SMTT(30)
    <3>2. CASE hop # NoHop
      <4>1. NewMacRoute(u, "add", p, hop) = RtAdded(s, p)
        BY <2>5, <3>2 DEF NewMacRoute, RtAdded
      <4>2. t = v
        BY <2>1, <3>2
      <4> QED BY <1>0, <2>4, <2>5, <4>1, <4>2, SMTT(30)
    <3> QED BY <3>1, <3>2
  <2> DEFINE T == t
  <2>8. MacBase(T)
    <3>1. /\ T.sys = s.sys /\ T.up = s.up /\ T.old = s.old /\ DOMAIN T.mon = MonFields /\ T.mon.excl = s.mon.excl \cup {p}
          /\ T.mon.def = s.mon.def /\ T.mon.q = s.mon.q /\ T.mon.live = s.mon.live /\ DOMAIN T = MacFields
          /\ T.rt = [s.rt EXCEPT ![p] = RtAdded(s, p)]
      BY <2>3, <2>5, <2>6, <2>7, Zenon
    <3> HIDE DEF T
    <3> QED BY ONLY <3>1, MacBase(s), s.mon.live, p \in Excluded, AddedKeeps, ZenonT(40)
  <2> QED BY <2>3, <2>5, <2>6, <2>8, Zenon DEF Grown, t
<1> QED BY <1>1, <1>2, SMTT(30)

\* Daemon::addExclusionRoute.
LEMMA ExcludeGrows ==
    ASSUME NEW s, MacBase(s), NEW p \in Excluded
    PROVE  Grown(s, Exclude(s, p))
<1> DEFINE r == addExclusionRoute(s, p)
           t == [r.s EXCEPT !.set = IF r.ok THEN @ \cup {p} ELSE @]
<1>0. DOMAIN s = MacFields
  BY DEF MacBase, MacTyped
<1>1. CASE p \in s.set \/ ~s.mon.live
  BY <1>0, <1>1 DEF Exclude, Grown
<1>2. CASE ~(p \in s.set \/ ~s.mon.live)
  <2>1. Exclude(s, p) = t
    BY <1>2, SMTT(30) DEF Exclude
  <2>2. Grown(s, r.s)
    BY <1>2, AddGrows, SMTT(30)
  <2> HIDE DEF r
  <2>3. MacBase(r.s) /\ DOMAIN r.s = MacFields
    BY <2>2 DEF Grown
  <2>4. DOMAIN t = MacFields /\ \A x \in MacFields \ {"set"} : t[x] = r.s[x]
    BY <2>3, SMTT(30) DEF MacFields
  <2> DEFINE v == r.s
  <2> HIDE DEF t
  <2>5. /\ t.sys = v.sys /\ t.rt = v.rt /\ t.up = v.up /\ t.mon = v.mon /\ t.old = v.old
        /\ t.proc = v.proc /\ t.half = v.half /\ t.pc = v.pc /\ t.conn = v.conn
    BY <2>4 DEF MacFields
  <2>6. MacBase(t)
    <3>1. MacBase(v) /\ DOMAIN t = MacFields
      BY <2>3, <2>4, SMTT(30)
    <3> HIDE DEF v
    <3> QED BY ONLY <2>5, <3>1, SameBase, Zenon
  <2> QED BY <2>1, <2>2, <2>4, <2>5, <2>6 DEF Grown
<1> QED BY <1>1, <1>2

\* updatePeer excludes the server whatever the daemon's set holds.
LEMMA PeerGrows ==
    ASSUME NEW s, MacBase(s), s.mon.live
    PROVE  LET t == ConfigurePeer(s)
           IN  /\ MacBase(t) /\ t.mon.live /\ "server" \in t.mon.excl
               /\ t.proc = s.proc /\ t.half = s.half /\ t.conn = s.conn /\ t.pc = "peer"
<1> DEFINE a == Exclude(s, "server")
           b == Exclude(a, "x6")
           c == addExclusionRoute(b, "server").s
           t == [c EXCEPT !.pc = "peer"]
<1>0. "server" \in Excluded /\ "x6" \in Excluded
  BY DEF Excluded
<1>1. Grown(s, a)
  BY <1>0, ExcludeGrows
<1> HIDE DEF a
<1>2. Grown(a, b)
  <2>1. MacBase(a)
    BY <1>1, SMTT(30) DEF Grown
  <2> QED BY <1>0, <2>1, ExcludeGrows, SMTT(30)
<1> HIDE DEF b
<1>3. MacBase(b) /\ b.mon.live
  BY <1>1, <1>2, SMTT(30) DEF Grown
<1>4. Grown(b, c) /\ "server" \in c.mon.excl
  BY <1>0, <1>3, AddGrows
<1> HIDE DEF c
<1>5. ConfigurePeer(s) = t
  BY <1>3 DEF ConfigurePeer, a, b, c
<1>6. MacBase(c) /\ DOMAIN c = MacFields
  BY <1>4 DEF Grown
<1>7. DOMAIN t = MacFields /\ t.pc = "peer" /\ \A x \in MacFields \ {"pc"} : t[x] = c[x]
  BY <1>6, SMTT(30) DEF MacFields
<1> HIDE DEF t
<1>8. /\ t.sys = c.sys /\ t.rt = c.rt /\ t.up = c.up /\ t.mon = c.mon /\ t.old = c.old
      /\ t.proc = c.proc /\ t.half = c.half /\ t.conn = c.conn
  BY <1>7 DEF MacFields
<1>9. MacBase(t)
  BY ONLY <1>6, <1>7, <1>8, SameBase, Zenon
<1>10. c.mon.live /\ c.proc = s.proc /\ c.half = s.half /\ c.conn = s.conn
  BY <1>1, <1>2, <1>3, <1>4, SMTT(30) DEF Grown
<1> QED BY <1>4, <1>5, <1>7, <1>8, <1>9, <1>10, SMTT(30)

\* The addresses of the interface, and what follows when they are set.
LEMMA AddressKeeps ==
    ASSUME NEW s, MacInv(s), s.proc, NEW fails
    PROVE  MacInv(AddressInterface(s, fails))
<1>0. MacBase(s) /\ Sessions(s) /\ DOMAIN s = MacFields /\ s.mon.live
  BY SMTT(30) DEF MacInv, Sessions, MacBase, MacTyped
<1>1. CASE fails \cap AddressSteps = {}
  <2> DEFINE t == ConfigurePeer(s)
  <2>1. /\ MacBase(t) /\ t.mon.live /\ "server" \in t.mon.excl
        /\ t.proc = s.proc /\ t.half = s.half /\ t.conn = s.conn /\ t.pc = "peer"
    BY <1>0, PeerGrows, Zenon
  <2> HIDE DEF t
  <2>2. Sessions(t)
    BY <1>0, <2>1 DEF Sessions
  <2>3. AddressInterface(s, fails) = t
    BY <1>1 DEF AddressInterface, t
  <2> QED BY <2>1, <2>2, <2>3, SMTT(30) DEF MacInv
<1>2. CASE fails \cap AddressSteps # {}
  <2> DEFINE t == [s EXCEPT !.pc = "idle"]
  <2>1. DOMAIN t = MacFields /\ t.pc = "idle" /\ \A x \in MacFields \ {"pc"} : t[x] = s[x]
    BY <1>0 DEF MacFields
  <2> HIDE DEF t
  <2>2. /\ t.sys = s.sys /\ t.rt = s.rt /\ t.up = s.up /\ t.mon = s.mon /\ t.old = s.old
        /\ t.proc = s.proc /\ t.half = s.half /\ t.conn = s.conn
    BY <2>1, Zenon DEF MacFields
  <2>3. MacBase(t)
    BY ONLY <1>0, <2>1, <2>2, SameBase, Zenon
  <2>4. Sessions(t)
    BY <1>0, <2>1, <2>2 DEF Sessions
  <2>5. AddressInterface(s, fails) = t
    BY <1>2 DEF AddressInterface, t
  <2> QED BY <2>3, <2>4, <2>5 DEF MacInv
<1> QED BY <1>1, <1>2, SMTT(30)

\* Daemon::activate: a monitor replaced without being deleted keeps its list,
\* the new one starts with an empty list.
LEMMA ActivateKeeps ==
    ASSUME MacInv(mr), MacActivate
    PROVE  MacInv(mr')
<1>0. MacBase(mr) /\ Sessions(mr) /\ DOMAIN mr = MacFields /\ MacTyped(mr) /\ Following(mr)
  BY DEF MacInv, MacBase, MacTyped
<1>1. CASE mr.proc
  <2>1. PICK fails \in SUBSET AddressSteps : mr' = AddressInterface(mr, fails)
    BY <1>1 DEF MacActivate
  <2>2. MacInv(AddressInterface(mr, fails))
    BY <1>1, AddressKeeps
  <2> QED BY <2>1, <2>2
<1>2. CASE ~mr.proc
  <2>1. ~mr.old.live /\ mr' = [mr EXCEPT !.proc = TRUE, !.old = mr.mon, !.mon = NewMonitor(mr), !.pc = "iface"]
    BY <1>2 DEF MacActivate
  <2>2. ~mr.conn /\ ~mr.half
    BY <1>0, <1>2 DEF MacActivate, Sessions
  <2> DEFINE n == NewMonitor(mr)
             fq == rtmFetchRoutes(mr)
  <2>3. fq \in Seq(MsgSet) /\ \A f \in Families : Leads(fq, f, NoHop, mr.sys[f])
    BY <1>0, FetchLeads
  <2>4. n = [NoMac EXCEPT !.live = TRUE, !.q = fq]
    BY DEF NewMonitor
  <2> HIDE DEF fq, n
  <2>5. DOMAIN n = MonFields /\ n.def = [f \in Families |-> NoHop] /\ n.excl = {} /\ n.q = fq
    BY <2>4 DEF NoMac, MonFields
  <2>a. n.live
    BY <2>4 DEF NoMac
  <2>6. /\ DOMAIN mr' = MacFields /\ mr'.old = mr.mon /\ mr'.mon = n /\ mr'.pc = "iface" /\ mr'.proc
        /\ mr'.sys = mr.sys /\ mr'.rt = mr.rt /\ mr'.up = mr.up /\ mr'.conn = mr.conn /\ mr'.half = mr.half
    BY <1>0, <2>1 DEF MacFields, n
  <2>7. MonOK(n) /\ MonOK(mr.mon) /\ MonOK(mr.old) /\ mr.old.excl = {}
    <3>1. n.def \in [Families -> HopsOrNone]
      BY <2>5, SMTT(30) DEF HopsOrNone
    <3>2. MonOK(mr.mon) /\ MonOK(mr.old)
      BY <1>0, SMTT(30) DEF MacTyped, Monitors
    <3> QED BY <2>1, <2>3, <2>5, <2>a, <3>1, <3>2, SMTT(30) DEF MonOK
  <2>8. MacTyped(mr')
    BY <1>0, <2>6, <2>7, SMTT(30) DEF MacTyped, Monitors
  <2>9. Following(mr')
    <3>1. \A f \in Families : Leads(n.q, f, n.def[f], mr.sys[f])
      BY <2>3, <2>5, SMTT(30)
    <3>2. mr.mon.live => \A f \in Families : Leads(mr.mon.q, f, mr.mon.def[f], mr.sys[f])
      BY <1>0, SMTT(30) DEF Following, Monitors
    <3> QED BY <2>6, <3>1, <3>2, SMTT(30) DEF Following, Monitors
  <2>10. ASSUME NEW p \in Excluded PROVE RouteInv(mr', p)
    <3>1. RouteInv(mr, p)
      BY <1>0, SMTT(30) DEF MacBase
    <3>2. /\ p \notin mr'["mon"].excl /\ p \notin mr["old"].excl /\ mr'["old"] = mr["mon"]
      BY <2>5, <2>6, <2>7, SMTT(30)
    <3>3. p \notin mr.mon.excl => mr.rt[p] = NoHop
      BY <3>1, <3>2, SMTT(30) DEF RouteInv, Monitors
    <3>4. Steady(mr', p) => Steady(mr, p) /\ p \in mr.mon.excl
      BY <3>2, SMTT(30) DEF Steady, Monitors
    <3>5. p \in mr.mon.excl => mr.mon.live
      BY <2>7, SMTT(30) DEF MonOK
    <3>6. Routed(mr, p) => Routed(mr', p)
      BY <2>6, <3>2, SMTT(30) DEF Routed, Monitors
    <3> QED BY <2>6, <3>1, <3>2, <3>3, <3>4, <3>5, <3>6, SMTT(30) DEF RouteInv, Monitors
  <2>11. Sessions(mr')
    BY <2>2, <2>6, <2>a DEF Sessions
  <2> QED BY <2>8, <2>9, <2>10, <2>11 DEF MacInv, MacBase
<1> QED BY <1>1, <1>2

\* Only marks of the session change.
LEMMA MarksKeep ==
    ASSUME NEW s, MacBase(s), NEW t, DOMAIN t = MacFields,
           \A x \in {"sys", "rt", "up", "mon", "old"} : t[x] = s[x], Sessions(t)
    PROVE  MacInv(t)
<1>1. t.sys = s.sys /\ t.rt = s.rt /\ t.up = s.up /\ t.mon = s.mon /\ t.old = s.old
  OBVIOUS
<1>2. MacBase(t)
  BY <1>1, SameBase
<1> QED BY <1>2 DEF MacInv

\* The process answers and the activation goes on.
LEMMA InterfaceKeeps ==
    ASSUME MacInv(mr), InterfaceConfigured
    PROVE  MacInv(mr')
<1>0. MacBase(mr) /\ Sessions(mr) /\ DOMAIN mr = MacFields
  BY DEF MacInv, MacBase, MacTyped
<1> DEFINE s == [mr EXCEPT !.fw = TRUE]
<1>1. PICK fails \in SUBSET AddressSteps : mr' = AddressInterface(s, fails)
  BY DEF InterfaceConfigured
<1>2. DOMAIN s = MacFields /\ \A x \in MacFields \ {"fw"} : s[x] = mr[x]
  BY <1>0, SMTT(30) DEF MacFields
<1> HIDE DEF s
<1>3. s.proc = mr.proc /\ s.half = mr.half /\ s.pc = mr.pc /\ s.conn = mr.conn /\ s.mon = mr.mon
  BY <1>2 DEF MacFields
<1>4. Sessions(s) /\ s.proc
  BY <1>0, <1>3 DEF Sessions, InterfaceConfigured
<1>5. \A x \in {"sys", "rt", "up", "mon", "old"} : s[x] = mr[x]
  BY <1>2 DEF MacFields
<1>6. MacInv(s)
  BY <1>0, <1>2, <1>4, <1>5, MarksKeep, SMTT(30)
<1>7. MacInv(AddressInterface(s, fails))
  BY <1>4, <1>6, AddressKeeps
<1> QED BY <1>1, <1>7, SMTT(30)

\* The activation ends or the process dies: the routes stay as they are.
LEMMA MarkActionsKeep ==
    ASSUME MacInv(mr), PeerConfigured \/ ActivationFails \/ ProcessDies
    PROVE  MacInv(mr')
<1>0. MacBase(mr) /\ Sessions(mr) /\ DOMAIN mr = MacFields
  BY DEF MacInv, MacBase, MacTyped
<1>1. DOMAIN mr' = MacFields /\ \A x \in {"sys", "rt", "up", "mon", "old"} : mr'[x] = mr[x]
  BY <1>0, Zenon DEF PeerConfigured, ActivationFails, ProcessDies, MacFields
<1>m. mr'.mon = mr.mon
  BY <1>1
<1>2. Sessions(mr')
  <2>1. CASE PeerConfigured
    <3>1. mr'.half /\ mr'.conn
      BY <1>0, <2>1 DEF PeerConfigured, MacFields
    <3>2. mr'.proc = mr.proc /\ mr.proc /\ mr.pc = "peer" /\ mr'.pc = "idle"
      BY <1>0, <2>1, Zenon DEF PeerConfigured, MacFields
    <3> QED BY <1>0, <1>m, <3>1, <3>2 DEF Sessions
  <2>2. CASE ActivationFails
    <3>1. mr'.proc = mr.proc /\ mr'.half = mr.half /\ mr'.conn = mr.conn /\ mr'.pc = "idle"
      BY <1>0, <2>2 DEF ActivationFails, MacFields
    <3> QED BY <1>0, <1>m, <3>1 DEF Sessions
  <2>3. CASE ProcessDies
    <3>1. ~mr'.proc /\ ~mr'.half
      BY <1>0, <2>3 DEF ProcessDies, MacFields
    <3>2. mr'.conn = mr.conn /\ mr'.pc = mr.pc
      BY <1>0, <2>3, SMTT(30) DEF ProcessDies, MacFields
    <3> QED BY <1>0, <1>m, <3>1, <3>2 DEF Sessions
  <2> QED BY <2>1, <2>2, <2>3
<1> QED BY <1>0, <1>1, <1>2, MarksKeep, SMTT(30)

\* What is left of the invariant while a session is taken down
Loose(s) ==
    /\ MacTyped(s) /\ Following(s)
    /\ \A p \in Excluded : (\A m \in Monitors : p \notin s[m].excl) => s.rt[p] = NoHop

\* deleteExclusionRoute removes a prefix with its route.
LEMMA DeletedLoose ==
    ASSUME NEW s, Loose(s), NEW ps
    PROVE  LET t == deleteExclusionRoute(s, ps)
           IN  /\ Loose(t) /\ DOMAIN t = MacFields
               /\ \A x \in MacFields \ {"mon", "rt"} : t[x] = s[x]
<1> DEFINE u == [s EXCEPT !.mon.excl = @ \ ps]
           v == rtmSendRoute(u, "delete", ps, NoHop)
<1>0. DOMAIN s = MacFields /\ MonOK(s.mon) /\ MonOK(s.old) /\ MacTyped(s) /\ Following(s) /\ DOMAIN s.mon = MonFields
  BY DEF Loose, MacTyped, MonOK, Monitors
<1>1. CASE ~s.mon.live
  BY <1>0, <1>1, SMTT(30) DEF deleteExclusionRoute
<1>2. CASE s.mon.live
  <2>1. deleteExclusionRoute(s, ps) = v
    BY <1>2 DEF deleteExclusionRoute
  <2>2. DOMAIN u = MacFields /\ u.mon = [s.mon EXCEPT !.excl = @ \ ps] /\ \A x \in MacFields \ {"mon"} : u[x] = s[x]
    BY <1>0 DEF MacFields
  <2> HIDE DEF u
  <2>3. /\ DOMAIN u.mon = MonFields /\ u.mon.excl = s.mon.excl \ ps /\ u.mon.def = s.mon.def
        /\ u.mon.q = s.mon.q /\ u.mon.live = s.mon.live
    BY <1>0, <2>2 DEF MonFields
  <2>4. /\ DOMAIN v = MacFields /\ \A x \in MacFields \ {"rt"} : v[x] = u[x]
        /\ v.rt = [p \in Excluded |-> IF p \in ps THEN NewMacRoute(u, "delete", p, NoHop) ELSE u.rt[p]]
    BY <2>2, SendFields
  <2> HIDE DEF v
  <2>5. v.mon = u.mon /\ v.old = s.old /\ v.sys = s.sys /\ v.up = s.up /\ u.rt = s.rt
    BY <2>2, <2>4, SMTT(30) DEF MacFields
  <2>6. \A p \in Excluded : v.rt[p] = IF p \in ps THEN NoHop ELSE s.rt[p]
    BY <2>4, <2>5, SMTT(30) DEF NewMacRoute
  <2>7. MacTyped(v)
    <3>1. MonOK(v.mon) /\ MonOK(v.old)
      BY <1>0, <2>3, <2>5, SMTT(30) DEF MonOK
    <3>2. v.rt \in [Excluded -> HopsOrNone]
      <4>1. s.rt \in [Excluded -> HopsOrNone]
        BY <1>0, SMTT(30) DEF MacTyped
      <4>2. \A p \in Excluded : v.rt[p] \in HopsOrNone
        BY <2>6, <4>1, SMTT(30) DEF HopsOrNone
      <4> QED BY <2>4, <4>2, SMTT(30)
    <3> QED BY <1>0, <2>4, <2>5, <3>1, <3>2, SMTT(30) DEF MacTyped, Monitors
  <2>8. Following(v)
    BY <1>0, <2>3, <2>5, SMTT(30) DEF Following, Monitors
  <2>9. ASSUME NEW p \in Excluded, \A m \in Monitors : p \notin v[m].excl PROVE v.rt[p] = NoHop
    <3>1. p \notin s.mon.excl \ ps /\ p \notin s.old.excl
      BY <2>3, <2>5, <2>9, SMTT(30) DEF Monitors
    <3>2. p \notin ps => s.rt[p] = NoHop
      BY <3>1, SMTT(30) DEF Loose, Monitors
    <3> QED BY <2>6, <3>2, SMTT(30)
  <2>10. Loose(v)
    BY <2>7, <2>8, <2>9 DEF Loose
  <2>11. \A x \in MacFields \ {"mon", "rt"} : v[x] = s[x]
    BY <2>2, <2>4
  <2> QED BY <2>1, <2>4, <2>10, <2>11
<1> QED BY <1>1, <1>2, SMTT(30)

\* deleteInterface flushes the list of the monitor it deletes.
LEMMA InterfaceDeleted ==
    ASSUME NEW s, Loose(s), ~s.conn, s.pc = "idle", s.half => s.proc
    PROVE  MacInv(deleteInterface(s))
<1> DEFINE u == flushExclusionRoutes(s)
           v == IF s.mon.live THEN u ELSE s
           t == [v EXCEPT !.mon = NoMac]
           r == [t EXCEPT !.proc = FALSE, !.half = FALSE, !.fw = FALSE]
           d == IF s.proc THEN r ELSE t
<1>0. DOMAIN s = MacFields /\ MonOK(s.mon) /\ MonOK(s.old) /\ MacTyped(s) /\ Following(s)
  BY DEF Loose, MacTyped, Monitors
<1>1. deleteInterface(s) = d
  BY SMTT(30) DEF deleteInterface
<1>2. /\ DOMAIN v = MacFields /\ \A x \in MacFields \ {"rt"} : v[x] = s[x]
      /\ v.rt \in [Excluded -> HopsOrNone] /\ \A p \in Excluded : v.rt[p] = IF p \in s.mon.excl THEN NoHop ELSE s.rt[p]
  <2>0. s.rt \in [Excluded -> HopsOrNone]
    BY <1>0, SMTT(30) DEF MacTyped
  <2>1. CASE ~s.mon.live
    BY <1>0, <2>0, <2>1, SMTT(30) DEF MonOK
  <2>2. CASE s.mon.live
    <3>1. /\ DOMAIN u = MacFields /\ \A x \in MacFields \ {"rt"} : u[x] = s[x]
          /\ u.rt = [p \in Excluded |-> IF p \in s.mon.excl THEN NewMacRoute(s, "delete", p, NoHop) ELSE s.rt[p]]
      <4>1. u = rtmSendRoute(s, "delete", s.mon.excl, NoHop) /\ DOMAIN s = MacFields
        BY <1>0, SMTT(30) DEF flushExclusionRoutes
      <4> HIDE DEF u
      <4> QED BY ONLY <4>1, SendFields, SMTT(30)
    <3> HIDE DEF u
    <3>2. \A p \in Excluded : u.rt[p] = IF p \in s.mon.excl THEN NoHop ELSE s.rt[p]
      BY <3>1, SMTT(30) DEF NewMacRoute
    <3>3. \A p \in Excluded : u.rt[p] \in HopsOrNone
      BY <2>0, <3>2 DEF HopsOrNone
    <3> QED BY <2>2, <3>1, <3>2, <3>3, SMTT(30)
  <2> QED BY <2>1, <2>2, SMTT(30)
<1> HIDE DEF v
<1>3. DOMAIN t = MacFields /\ t.mon = NoMac /\ \A x \in MacFields \ {"mon"} : t[x] = v[x]
  BY <1>2 DEF MacFields
<1> HIDE DEF t
<1>4. /\ DOMAIN r = MacFields /\ \A x \in MacFields \ {"proc", "half", "fw"} : r[x] = t[x]
  BY <1>3, Zenon DEF MacFields
<1>5. ~r.proc /\ ~r.half
  BY <1>3 DEF MacFields
<1> HIDE DEF r
<1>6. /\ DOMAIN d = MacFields /\ d.mon = NoMac /\ d.old = s.old /\ d.sys = s.sys /\ d.up = s.up /\ d.rt = v.rt
      /\ d.conn = s.conn /\ d.pc = s.pc
  BY <1>2, <1>3, <1>4 DEF MacFields
<1>7. ~d.proc /\ ~d.half
  <2>1. CASE s.proc
    BY <1>5, <2>1
  <2>2. CASE ~s.proc
    <3>1. d = t /\ t.proc = s.proc /\ t.half = s.half
      BY <1>2, <1>3, <2>2, SMTT(30) DEF MacFields
    <3> QED BY <2>2, <3>1, SMTT(30)
  <2> QED BY <2>1, <2>2
<1> HIDE DEF d
<1>8. MonOK(NoMac) /\ NoMac.excl = {}
  BY NoMacFine
<1>9. ~NoMac.live
  BY NoMacFine, SMTT(30)
<1>10. MacTyped(d)
  BY <1>0, <1>2, <1>6, <1>8, SMTT(30) DEF MacTyped, Monitors
<1>11. Following(d)
  BY <1>0, <1>6, <1>9, SMTT(30) DEF Following, Monitors
<1>12. ASSUME NEW p \in Excluded PROVE RouteInv(d, p)
  <2>1. p \notin s.old.excl => d.rt[p] = NoHop
    BY <1>2, <1>6, SMTT(30) DEF Loose, Monitors
  <2> QED BY <1>6, <1>9, <2>1, SMTT(30) DEF RouteInv, Monitors
<1>13. Sessions(d)
  BY <1>6, <1>7 DEF Sessions
<1> QED BY <1>1, <1>10, <1>11, <1>12, <1>13, SMTT(30) DEF MacInv, MacBase

\* Daemon::deactivate.
LEMMA DeactivateKeeps ==
    ASSUME MacInv(mr), MacDeactivate
    PROVE  MacInv(mr')
<1> DEFINE h == [mr EXCEPT !.half = FALSE]
           s == IF mr.conn THEN deleteExclusionRoute(h, {"server"}) ELSE mr
           u == deleteExclusionRoute(s, s.set)
           v == [u EXCEPT !.set = {}, !.conn = FALSE]
<1>0. DOMAIN mr = MacFields /\ MacTyped(mr) /\ Following(mr) /\ Sessions(mr) /\ \A p \in Excluded : RouteInv(mr, p)
  BY DEF MacInv, MacBase, MacTyped
<1>1. mr' = deleteInterface(v) /\ mr.pc = "idle"
  BY SMTT(30) DEF MacDeactivate
<1>2. Loose(mr)
  BY <1>0 DEF Loose, RouteInv
<1>3. DOMAIN h = MacFields /\ \A x \in MacFields \ {"half"} : h[x] = mr[x]
  BY <1>0 DEF MacFields
<1>4. ~h.half
  BY <1>0, SMTT(30) DEF MacFields
<1> HIDE DEF h
<1>5. Loose(h)
  <2>1. h.sys = mr.sys /\ h.rt = mr.rt /\ h.up = mr.up /\ \A m \in Monitors : h[m] = mr[m]
    BY <1>3, SMTT(30) DEF MacFields, Monitors
  <2> QED BY <1>2, <1>3, <2>1, SMTT(30) DEF Loose, MacTyped, Following
<1>6. Loose(s) /\ DOMAIN s = MacFields /\ s.pc = "idle" /\ (s.half => s.proc)
  <2>1. CASE mr.conn
    <3> DEFINE w == deleteExclusionRoute(h, {"server"})
    <3>1. Loose(w) /\ DOMAIN w = MacFields /\ \A x \in MacFields \ {"mon", "rt"} : w[x] = h[x]
      BY <1>5, DeletedLoose, SMTT(30)
    <3> HIDE DEF w
    <3>2. w.pc = mr.pc /\ w.half = h.half
      BY <1>3, <3>1 DEF MacFields
    <3>3. s = w
      BY <2>1 DEF w
    <3> QED BY <1>1, <1>4, <3>1, <3>2, <3>3, SMTT(30)
  <2>2. CASE ~mr.conn
    BY <1>0, <1>1, <1>2, <2>2, SMTT(30) DEF Sessions
  <2> QED BY <2>1, <2>2
<1> HIDE DEF s
<1>7. Loose(u) /\ DOMAIN u = MacFields /\ \A x \in MacFields \ {"mon", "rt"} : u[x] = s[x]
  BY <1>6, DeletedLoose
<1> HIDE DEF u
<1>8. DOMAIN v = MacFields /\ \A x \in MacFields \ {"set", "conn"} : v[x] = u[x]
  BY <1>7, Zenon DEF MacFields
<1>9. ~v.conn
  BY <1>7 DEF MacFields
<1> HIDE DEF v
<1>10. v.pc = s.pc /\ v.half = s.half /\ v.proc = s.proc
  BY <1>7, <1>8 DEF MacFields
<1>11. Loose(v)
  <2>1. v.sys = u.sys /\ v.rt = u.rt /\ v.up = u.up /\ \A m \in Monitors : v[m] = u[m]
    BY <1>8 DEF MacFields, Monitors
  <2> QED BY <1>7, <1>8, <2>1 DEF Loose, MacTyped, Following
<1>12. MacInv(deleteInterface(v))
  BY <1>6, <1>9, <1>10, <1>11, InterfaceDeleted
<1> QED BY <1>1, <1>12, SMTT(30)

-----------------------------------------------------------------------------
(* The theorem *)

\* The invariant holds initially.
LEMMA RoutesStart == MacInit => MacInv(mr)
<1> SUFFICES ASSUME MacInit PROVE MacInv(mr)
  BY SMTT(30)
<1>1. /\ DOMAIN mr = MacFields /\ mr.mon = NoMac /\ mr.old = NoMac /\ mr.pc = "idle"
      /\ mr.sys = [f \in Families |-> NoHop] /\ mr.rt = [p \in Excluded |-> NoHop]
  BY ZenonT(40) DEF MacInit, MacFields
<1>2. ~mr.proc /\ ~mr.half /\ ~mr.conn
  BY DEF MacInit
<1>3. MonOK(NoMac)
  BY NoMacFine
<1>4. ~NoMac.live
  BY NoMacFine, SMTT(30)
<1>5. MacTyped(mr)
  BY <1>1, <1>3, SMTT(30) DEF MacTyped, Monitors, HopsOrNone
<1>6. Following(mr)
  BY <1>1, <1>4, SMTT(30) DEF Following, Monitors
<1>7. \A p \in Excluded : RouteInv(mr, p)
  BY <1>1, <1>4, SMTT(30) DEF RouteInv
<1>8. Sessions(mr)
  BY <1>1, <1>2 DEF Sessions
<1> QED BY <1>5, <1>6, <1>7, <1>8 DEF MacInv, MacBase

\* The invariant as a state predicate.
RoutesInv == MacInv(mr)

\* Every step keeps the invariant.
LEMMA RoutesStep == ASSUME RoutesInv, [MacNext]_mr PROVE RoutesInv'
<1>0. MacInv(mr)
  BY DEF RoutesInv
<1> SUFFICES MacInv(mr')
  BY DEF RoutesInv
<1>1. CASE MacActivate
  BY <1>0, <1>1, ActivateKeeps
<1>2. CASE InterfaceConfigured
  BY <1>0, <1>2, InterfaceKeeps
<1>3. CASE PeerConfigured \/ ActivationFails \/ ProcessDies
  BY <1>0, <1>3, MarkActionsKeep, SMTT(30)
<1>4. CASE MacDeactivate
  BY <1>0, <1>4, DeactivateKeeps
<1>5. ASSUME NEW w \in {"mon", "old"}, rtsockReady(w) PROVE MacInv(mr')
  BY <1>0, <1>5, ReadyKeeps, SMTT(30) DEF Monitors
<1>6. CASE MacSystem
  <2>1. ASSUME NEW f \in Families, NEW h \in MacHops[f], DefaultAppears(f, h) \/ GatewayChanges(f, h) \/ ScopedChange(f, h)
        PROVE  MacInv(mr')
    BY <1>0, <2>1, AppearsKeeps, ChangesKeeps, ScopedKeeps, SMTT(30)
  <2>2. ASSUME NEW f \in Families, DefaultLost(f) PROVE MacInv(mr')
    BY <1>0, <2>2, LostKeeps
  <2>3. ASSUME NEW l \in MacLinks, LinkDown(l) \/ LinkUp(l) PROVE MacInv(mr')
    BY <1>0, <2>3, DownKeeps, UpKeeps
  <2> QED BY <1>6, <2>1, <2>2, <2>3, SMTT(30) DEF MacSystem
<1>7. CASE UNCHANGED mr
  BY <1>0, <1>7
<1> QED BY <1>1, <1>2, <1>3, <1>4, <1>5, <1>6, <1>7 DEF MacNext

\* The invariant implies the property: with empty queues no loss and no
\* correction waits.
LEMMA RoutesConclude == RoutesInv => MacRoutesFollow
<1> SUFFICES ASSUME RoutesInv PROVE MacRoutesFollow
  BY SMTT(30)
<1>0. MacTyped(mr) /\ Following(mr) /\ Sessions(mr) /\ (\A p \in Excluded : RouteInv(mr, p)) /\ MonOK(mr.mon) /\ MonOK(mr.old)
  BY SMTT(30) DEF RoutesInv, MacInv, MacBase, MacTyped, Monitors
<1>1. MacRoutesRemoved
  <2> SUFFICES ASSUME ~mr.mon.live, ~mr.old.live, NEW p \in Excluded PROVE mr.rt[p] = NoHop
    BY SMTT(30) DEF MacRoutesRemoved
  <2> QED BY <1>0 DEF MonOK, RouteInv, Monitors
<1>2. ExclusionsFollowDefault
  <2> SUFFICES ASSUME CaughtUp, NEW p \in mr.mon.excl PROVE mr.rt[p] = mr.sys[FamilyOf(p)]
    BY DEF ExclusionsFollowDefault
  <2>1. p \in Excluded /\ mr.mon.live /\ FamilyOf(p) \in Families
    BY <1>0, FamilyOfExcluded DEF MonOK
  <2>2. \A m \in Monitors : mr[m].q = <<>>
    BY SMTT(30) DEF CaughtUp, Monitors
  <2>3. \A m \in Monitors : \A f : Mine(mr[m].q, f) = {} /\ ~Withdrawn(mr[m].q, f) /\ ~Corrects(mr[m].q, f)
    BY <2>2, SMTT(30) DEF Mine, Withdrawn, DeletedFrom, Corrects
  <2>4. Steady(mr, p)
    BY <2>3, SMTT(30) DEF Steady, Monitors
  <2>5. Routed(mr, p)
    BY <1>0, <2>1, <2>4, SMTT(30) DEF RouteInv
  <2> QED BY <2>3, <2>5, ZenonT(60) DEF Routed
<1>3. ServerAroundTunnel
  <2> SUFFICES ASSUME CaughtUp, mr.conn PROVE "server" \in mr.mon.excl /\ mr.rt["server"] = mr.sys["v4"]
    BY SMTT(30) DEF ServerAroundTunnel
  <2>1. "server" \in mr.mon.excl
    BY <1>0 DEF Sessions
  <2>2. FamilyOf("server") = "v4"
    BY DEF FamilyOf
  <2> QED BY <1>2, <2>1, <2>2 DEF ExclusionsFollowDefault
<1> QED BY <1>1, <1>2, <1>3 DEF MacRoutesFollow

\* MacRoutesFollow for any links and gateways and queues of any length: once
\* every message is handled the routes around the tunnel are where the default
\* routes are, a connected tunnel never captures the packets to its server, and
\* no route outlives the monitors (handleRtmUpdate, handleRtmDelete,
\* addExclusionRoute, deactivate).
THEOREM DetoursFollowDefault == MacSpec => []MacRoutesFollow
<1>1. MacInit => RoutesInv
  BY RoutesStart DEF RoutesInv
<1>2. RoutesInv /\ [MacNext]_mr => RoutesInv'
  BY RoutesStep
<1>3. RoutesInv => MacRoutesFollow
  BY RoutesConclude, SMTT(30)
<1> QED BY <1>1, <1>2, <1>3, PTL DEF MacSpec

-----------------------------------------------------------------------------
\* The route tool of the macOS service, RouteTool.tla.

\* The globals of the tool.
Globals ==
    {"addrs", "forcehost", "forcenet", "af", "aflen", "ishost", "host", "dst", "gate", "mask", "exited"}

\* What getaddr() makes of an address
Parsed(a) == [len |-> SockLen, family |-> Inet, addr |-> a]

\* The inductive invariant: the mask that the last network request left behind is
\* contiguous, so that newroute() does not exit at the next one.
ToolInv ==
    /\ DOMAIN tool = Globals
    /\ tool.mask.family = Inet => Contiguous(tool.mask.addr)
    /\ RequestIsServed

\* The masks netMaskFromIpWithSubnet can give are addresses, from no bit to all bits.
LEMMA MasksAreAddresses ==
    /\ MaskOf(0) = Zero4
    /\ MaskOf(32) = Ones4
    /\ \A n \in 0 .. 32 : MaskOf(n) \in Address
  <1>1. \A n \in 0 .. 32, i \in 1 .. 4 : MaskByte(n, i) \in 0 .. 255
    <2> SUFFICES ASSUME NEW n \in 0 .. 32, NEW i \in 1 .. 4 PROVE MaskByte(n, i) \in 0 .. 255
      BY Zenon
    <2> DEFINE ones == IF n >= 8 * i THEN 8 ELSE IF n <= 8 * (i - 1) THEN 0 ELSE n - 8 * (i - 1)
    <2>1. ones \in 0 .. 8
      OBVIOUS
    <2>2. \A k \in 0 .. 8 : <<0, 128, 192, 224, 240, 248, 252, 254, 255>>[k + 1] \in 0 .. 255
      <3> SUFFICES ASSUME NEW k \in 0 .. 8
                   PROVE <<0, 128, 192, 224, 240, 248, 252, 254, 255>>[k + 1] \in 0 .. 255
        OBVIOUS
      <3>1. k = 0 \/ k = 1 \/ k = 2 \/ k = 3 \/ k = 4 \/ k = 5 \/ k = 6 \/ k = 7 \/ k = 8
        OBVIOUS
      <3> QED BY <3>1
    <2> QED BY <2>1, <2>2, SMTT(30) DEF MaskByte
  <1>2. \A i \in 1 .. 4 : MaskByte(0, i) = 0 /\ MaskByte(32, i) = 255
    <2> SUFFICES ASSUME NEW i \in 1 .. 4 PROVE MaskByte(0, i) = 0 /\ MaskByte(32, i) = 255
      OBVIOUS
    <2>1. i = 1 \/ i = 2 \/ i = 3 \/ i = 4
      OBVIOUS
    <2> QED BY <2>1 DEF MaskByte
  <1>3. MaskOf(0) = [i \in 1 .. 4 |-> 0] /\ MaskOf(32) = [i \in 1 .. 4 |-> 255]
    BY <1>2 DEF MaskOf
  <1>4. [i \in 1 .. 4 |-> 0] = Zero4 /\ [i \in 1 .. 4 |-> 255] = Ones4
    BY DEF Zero4, Ones4
  <1> QED BY <1>1, <1>3, <1>4, ZenonT(40) DEF MaskOf, Address

\* The two ends of the masks are addresses.
LEMMA EndsAreConstant ==
    /\ Zero4 \in Address /\ Ones4 \in Address
    /\ \A i \in 1 .. 4 : Zero4[i] = 0
  BY DEF Zero4, Ones4, Address

\* mask_addr() cuts the trailing zero bytes of a mask, and a reader that takes
\* the missing bytes for zero sees the mask that was parsed.
LEMMA CutIsNotSeen ==
    ASSUME NEW a \in Address
    PROVE  LET mask == Parsed(a)
           IN  Seen([mask EXCEPT !.len = TrimmedLen(mask)]) = a
  <1> DEFINE mask == Parsed(a)
  <1>0. mask.len = SockLen /\ mask.addr = a /\ DOMAIN mask = {"len", "family", "addr"}
    BY SMTT(30) DEF Parsed
  <1> HIDE DEF mask
  <1> DEFINE P(k) == /\ k > 0 => a[k] # 0
                     /\ \A i \in k + 1 .. 4 : a[i] = 0
             last == CHOOSE k \in 0 .. 4 : P(k)
  <1>1. \E k \in 0 .. 4 : P(k)
    <2>1. a \in [1 .. 4 -> 0 .. 255]
      BY DEF Address
    <2>2. CASE a[4] # 0  BY <2>2
    <2>3. CASE a[4] = 0 /\ a[3] # 0 
      <3>1. P(3) BY <2>3
      <3> QED BY <3>1
    <2>4. CASE a[4] = 0 /\ a[3] = 0 /\ a[2] # 0
      <3>1. P(2) BY <2>4
      <3> QED BY <3>1
    <2>5. CASE a[4] = 0 /\ a[3] = 0 /\ a[2] = 0 /\ a[1] # 0
      <3>1. P(1) BY <2>5
      <3> QED BY <3>1
    <2>6. CASE a[4] = 0 /\ a[3] = 0 /\ a[2] = 0 /\ a[1] = 0
      <3>1. P(0) BY <2>6
      <3> QED BY <3>1
    <2> QED BY <2>2, <2>3, <2>4, <2>5, <2>6, SMTT(30)
  <1>2. last \in 0 .. 4 /\ P(last)
    BY <1>1, SMTT(30)
  <1>3. TrimmedLen(mask) = IF last = 0 THEN 2 ELSE 4 + last
    <2>1. TrimmedLen(mask) = LET full == IF last = 0 THEN 2 ELSE 4 + last
                             IN  IF full <= mask.len THEN full ELSE mask.len
      BY <1>0 DEF TrimmedLen
    <2> HIDE DEF last
    <2> QED BY <2>1, <1>0, <1>2 DEF SockLen
  <1> HIDE DEF last
  <1>4. \A i \in 1 .. 4 : IF 4 + i <= TrimmedLen(mask) THEN TRUE ELSE a[i] = 0
    BY <1>2, <1>3
  <1>5. a \in [1 .. 4 -> 0 .. 255]
    BY DEF Address
  <1>6. [mask EXCEPT !.len = TrimmedLen(mask)].len = TrimmedLen(mask)
    BY <1>0
  <1>7. [mask EXCEPT !.len = TrimmedLen(mask)].addr = a
    BY <1>0
  <1>8. Seen([mask EXCEPT !.len = TrimmedLen(mask)]) = [i \in 1 .. 4 |-> a[i]]
    BY <1>4, <1>6, <1>7, SMTT(30) DEF Seen
  <1> QED BY <1>5, <1>8, SMTT(30) DEF mask

\* The shift of inet_makenetandmask() leaves a destination whose first byte is not 0.
LEMMA NetIsKept ==
    ASSUME NEW g, DOMAIN g = Globals, DOMAIN g.dst = {"len", "family", "addr"},
           NEW net \in Address, ~ZeroNet(net)
    PROVE  MakeNetAndMask(g, net, 0).dst.addr = net
  <1> DEFINE lead == IF net = Zero4 THEN 0
                     ELSE CHOOSE k \in 0 .. 3 : net[k + 1] # 0 /\ \A i \in 1 .. k : net[i] = 0
             dst  == [i \in 1 .. 4 |-> IF i + lead <= 4 THEN net[i + lead] ELSE 0]
  <1>1. MakeNetAndMask(g, net, 0).dst.addr = dst
    BY SMTT(30) DEF MakeNetAndMask, Globals
  <1>2. net \in [1 .. 4 -> 0 .. 255]
    BY DEF Address
  <1>4. lead = 0
    <2>1. SUFFICES ASSUME net # Zero4, net[1] # 0 PROVE lead = 0
      BY DEF ZeroNet
    <2> DEFINE Q(k) == net[k + 1] # 0 /\ \A i \in 1 .. k : net[i] = 0
               c == CHOOSE k \in 0 .. 3 : Q(k)
    <2>2. \E k \in 0 .. 3 : Q(k)
      <3>1. Q(0) BY <2>1
      <3> QED BY <3>1
    <2>3. c \in 0 .. 3 /\ Q(c)
      <3> HIDE DEF Q
      <3> QED BY <2>2
    <2>4. c = 0
      <3> HIDE DEF c
      <3> QED BY <2>3, <2>1, SMTT(30)
    <2> QED BY <2>1, <2>4
  <1> HIDE DEF lead
  <1>5. dst = net
    BY <1>2, <1>4
  <1> HIDE DEF dst
  <1> QED BY <1>1, <1>5

\* The mask of a request is contiguous, whatever the prefix length.
LEMMA MasksOfRequests ==
    ASSUME NEW p \in PrefixLengths, NEW mask \in NetMaskFromIpWithSubnet(p)
    PROVE  mask \in Address /\ Contiguous(mask)
  <1>1. p \in 0 .. 32
    BY ToolAssumption
  <1>2. CASE mask = MaskOf(p)
    BY <1>1, <1>2, MasksAreAddresses, SMTT(30) DEF Contiguous
  <1>3. CASE mask = Zero4
    BY <1>3, MasksAreAddresses, EndsAreConstant, SMTT(30) DEF Contiguous
  <1>4. CASE mask = Ones4
    BY <1>4, MasksAreAddresses, EndsAreConstant, SMTT(30) DEF Contiguous
  <1> QED BY <1>2, <1>3, <1>4 DEF NetMaskFromIpWithSubnet

\* Before the first call the invariant holds.
LEMMA ToolInitOk == ToolInit => ToolInv
  <1> SUFFICES ASSUME ToolInit PROVE ToolInv
    BY SMTT(30)
  <1>2. DOMAIN tool = Globals
    BY SMTT(30) DEF ToolInit, Globals
  <1>3. tool.mask.family # Inet /\ ~tool.exited /\ sent.msg.cmd = "none"
    BY SMTT(30) DEF ToolInit, NoSock, NoFamily, Inet
  <1> QED BY <1>2, <1>3 DEF ToolInv, RequestIsServed, MessageIsRequest, ServiceSurvives

\* A request with -host: two positional arguments, which become the destination
\* and the gateway; the mask an earlier call has left is not sent, and does not make
\* newroute() exit.
LEMMA HostRequest ==
    ASSUME NEW g, DOMAIN g = Globals, NEW cmd, NEW ip, NEW gw, NEW mask,
           ~g.exited, g.mask.family = Inet => Contiguous(g.mask.addr),
           NEW r, r = NewRoute(Reset(g), cmd, "-host", ip, gw, mask)
    PROVE  /\ DOMAIN r.tool = Globals
           /\ r.tool.mask = g.mask
           /\ ~r.tool.exited
           /\ r.msg = [cmd |-> cmd, host |-> TRUE, addrs |-> {"DST", "GATEWAY"}, dst |-> ip,
                       gate |-> gw, mask |-> Ones4]
  <1> DEFINE z == [Reset(g) EXCEPT !.forcehost = @ + 1]
             y == [z EXCEPT !.ishost = FALSE]
             d == Positional(y, ip)
             e == Positional(d, gw)
             h == [e EXCEPT !.host = (e.ishost \/ e.forcehost > 0) /\ e.forcenet = 0]
  <1>1. /\ DOMAIN y = Globals
        /\ y.addrs = {} /\ y.forcenet = 0 /\ y.af = NoFamily /\ y.forcehost = 1
        /\ y.mask = g.mask /\ y.exited = g.exited
    <2>1. /\ DOMAIN Reset(g) = Globals
          /\ Reset(g).addrs = {} /\ Reset(g).forcenet = 0 /\ Reset(g).af = NoFamily
          /\ Reset(g).forcehost = 0 /\ Reset(g).mask = g.mask /\ Reset(g).exited = g.exited
      BY DEF Globals, Reset
    <2> QED BY <2>1 DEF Globals
  <1> HIDE DEF y
  <1>2. /\ DOMAIN d = Globals
        /\ d.addrs = {"DST"} /\ d.af = Inet /\ d.forcehost = 1 /\ d.forcenet = 0
        /\ d.ishost = TRUE /\ d.dst.addr = ip /\ d.mask = g.mask /\ d.exited = g.exited
    <2>1. d = GetAddr(y, "DST", ip)
      BY <1>1 DEF Positional
    <2> HIDE DEF d
    <2> DEFINE w == [y EXCEPT !.af = IF @ = NoFamily THEN Inet ELSE @,
                              !.aflen = IF y.af = NoFamily THEN SockLen ELSE @,
                              !.addrs = @ \cup {"DST"}]
    <2>2. d = [w EXCEPT !.dst = [len |-> w.aflen, family |-> w.af, addr |-> ip], !.ishost = TRUE]
      BY <2>1, <1>1 DEF GetAddr
    <2>3. /\ DOMAIN w = Globals /\ w.addrs = {"DST"} /\ w.af = Inet /\ w.forcehost = 1
          /\ w.forcenet = 0 /\ w.mask = g.mask /\ w.exited = g.exited
      BY <1>1 DEF Globals
    <2> HIDE DEF w
    <2> QED BY <2>2, <2>3 DEF Globals
  <1> HIDE DEF d
  <1>3. /\ DOMAIN e = Globals
        /\ e.addrs = {"DST", "GATEWAY"} /\ e.forcehost = 1 /\ e.forcenet = 0
        /\ e.ishost = TRUE /\ e.dst.addr = ip /\ e.gate.addr = gw /\ e.mask = g.mask
        /\ e.exited = g.exited
    <2>1. e = GetAddr(d, "GATEWAY", gw)
      BY <1>2 DEF Positional
    <2> HIDE DEF e
    <2> QED BY <2>1, <1>2, Zenon DEF GetAddr, Globals
  <1> HIDE DEF e
  <1>4. /\ DOMAIN h = Globals
        /\ h.host = TRUE /\ h.addrs = {"DST", "GATEWAY"} /\ h.dst.addr = ip /\ h.gate.addr = gw
        /\ h.mask = g.mask /\ h.exited = g.exited
    BY <1>3, Zenon DEF Globals
  <1>5. NewRoute(Reset(g), cmd, "-host", ip, gw, mask)
          = IF h.mask.family = Inet /\ ~Contiguous(h.mask.addr)
            THEN [tool |-> [h EXCEPT !.exited = TRUE], msg |-> [cmd |-> "none"]]
            ELSE RtMsg(h, cmd)
    BY DEF NewRoute, z, y, d, e, h
  <1> HIDE DEF h
  <1>6. RtMsg(h, cmd) = [tool |-> h,
                         msg |-> [cmd |-> cmd, host |-> TRUE, addrs |-> {"DST", "GATEWAY"},
                                  dst |-> ip, gate |-> gw, mask |-> Ones4]]
    BY <1>4, Zenon DEF RtMsg
  <1>7. NewRoute(Reset(g), cmd, "-host", ip, gw, mask) = RtMsg(h, cmd)
    BY <1>4, <1>5, SMTT(30)
  <1>8. /\ r.tool = h
        /\ r.msg = [cmd |-> cmd, host |-> TRUE, addrs |-> {"DST", "GATEWAY"}, dst |-> ip,
                    gate |-> gw, mask |-> Ones4]
    <2>1. r = [tool |-> h,
               msg |-> [cmd |-> cmd, host |-> TRUE, addrs |-> {"DST", "GATEWAY"},
                        dst |-> ip, gate |-> gw, mask |-> Ones4]]
      BY <1>6, <1>7, ZenonT(40)
    <2> QED BY ONLY <2>1
  <1>9. DOMAIN r.tool = Globals /\ r.tool.mask = g.mask /\ ~r.tool.exited
    BY <1>4, <1>8, SMTT(30)
  <1> QED BY <1>8, <1>9, Zenon

\* What newroute() makes of a request of a network
NetServed(cmd, ip, gw, mask, r) ==
    /\ DOMAIN r.tool = Globals
    /\ r.tool.mask.addr = mask
    /\ ~r.tool.exited
    /\ r.msg.cmd = cmd /\ r.msg.host = FALSE /\ r.msg.gate = gw /\ r.msg.mask = mask
    /\ r.msg.addrs = {"DST", "GATEWAY", "NETMASK"}
    /\ ~ZeroNet(ip) => r.msg.dst = ip

\* A request with -net: three positional arguments, of which the third is the mask;
\* what getaddr() guessed from the destination alone is overwritten.
LEMMA NetRequest ==
    ASSUME NEW g, DOMAIN g = Globals, NEW cmd, NEW ip \in Address, NEW gw,
           NEW mask \in Address, ~g.exited, Contiguous(mask),
           NEW r, r = NewRoute(Reset(g), cmd, "-net", ip, gw, mask)
    PROVE  NetServed(cmd, ip, gw, mask, r)
  <1> DEFINE z == [Reset(g) EXCEPT !.forcenet = @ + 1]
             y == [z EXCEPT !.ishost = FALSE]
             w == [y EXCEPT !.af = IF @ = NoFamily THEN Inet ELSE @,
                            !.aflen = IF y.af = NoFamily THEN SockLen ELSE @,
                            !.addrs = @ \cup {"DST"}]
             x == [w EXCEPT !.dst = [len |-> w.aflen, family |-> w.af, addr |-> @.addr]]
             d == Positional(y, ip)
             e == Positional(d, gw)
             f == Positional(e, mask)
             h == [f EXCEPT !.host = (f.ishost \/ f.forcehost > 0) /\ f.forcenet = 0]
             k == MaskAddr(h)
  <1>1. /\ DOMAIN y = Globals
        /\ y.addrs = {} /\ y.forcenet = 1 /\ y.af = NoFamily /\ y.forcehost = 0
        /\ y.ishost = FALSE /\ y.exited = g.exited
    <2>1. /\ DOMAIN Reset(g) = Globals
          /\ Reset(g).addrs = {} /\ Reset(g).forcenet = 0 /\ Reset(g).af = NoFamily
          /\ Reset(g).forcehost = 0 /\ Reset(g).exited = g.exited
      BY DEF Globals, Reset
    <2> QED BY <2>1 DEF Globals
  <1> HIDE DEF y
  <1>2. /\ DOMAIN x = Globals /\ DOMAIN x.dst = {"len", "family", "addr"}
        /\ x.addrs = {"DST"} /\ x.forcenet = 1 /\ x.af = Inet /\ x.aflen = SockLen
        /\ x.forcehost = 0 /\ x.ishost = FALSE /\ x.exited = g.exited
    BY <1>1 DEF Globals
  <1>3. d = MakeNetAndMask(x, ip, 0)
    <2>1. d = GetAddr(y, "DST", ip)
      BY <1>1 DEF Positional
    <2> HIDE DEF d
    <2>2. GetAddr(y, "DST", ip) = MakeNetAndMask(x, ip, 0)
      BY <1>1 DEF GetAddr
    <2> QED BY <2>1, <2>2
  <1> HIDE DEF x, d
  <1>4. /\ DOMAIN d = Globals
        /\ d.addrs = {"DST", "NETMASK"} /\ d.forcenet = 1 /\ d.af = Inet /\ d.aflen = SockLen
        /\ d.forcehost = 0 /\ d.ishost = FALSE /\ d.exited = g.exited
    BY <1>2, <1>3, SMTT(30) DEF MakeNetAndMask, Globals
  <1>5. ~ZeroNet(ip) => d.dst.addr = ip
    BY <1>2, <1>3, NetIsKept
  <1>6. /\ DOMAIN e = Globals
        /\ e.addrs = {"DST", "GATEWAY", "NETMASK"} /\ e.forcenet = 1 /\ e.af = Inet
        /\ e.aflen = SockLen /\ e.forcehost = 0 /\ e.ishost = FALSE /\ e.exited = g.exited
        /\ e.gate.addr = gw /\ e.dst = d.dst
    <2>1. e = GetAddr(d, "GATEWAY", gw)
      BY <1>4 DEF Positional
    <2> HIDE DEF e
    <2> QED BY <2>1, <1>4, Zenon DEF GetAddr, Globals, NoFamily, Inet
  <1> HIDE DEF e
  <1>7. /\ DOMAIN f = Globals
        /\ f.addrs = {"DST", "GATEWAY", "NETMASK"} /\ f.forcenet = 1
        /\ f.forcehost = 0 /\ f.ishost = FALSE /\ f.exited = g.exited
        /\ f.gate.addr = gw /\ f.dst = d.dst /\ f.mask = Parsed(mask)
    <2>1. f = GetAddr(e, "NETMASK", mask)
      BY <1>6 DEF Positional
    <2> HIDE DEF f
    <2> QED BY <2>1, <1>6, Zenon DEF GetAddr, Globals, NoFamily, Inet, Parsed
  <1> HIDE DEF f
  <1>8. /\ DOMAIN h = Globals
        /\ h.host = FALSE /\ h.addrs = {"DST", "GATEWAY", "NETMASK"} /\ h.exited = g.exited
        /\ h.dst = d.dst /\ h.gate.addr = gw /\ h.mask = Parsed(mask)
    <2>1. ((f.ishost \/ f.forcehost > 0) /\ f.forcenet = 0) = FALSE
      BY <1>7
    <2>2. h = [f EXCEPT !.host = FALSE]
      BY <2>1, Zenon
    <2> HIDE DEF h
    <2> QED BY <2>2, <1>7, SMTT(30) DEF Globals
  <1>9. NewRoute(Reset(g), cmd, "-net", ip, gw, mask)
          = IF h.mask.family = Inet /\ ~Contiguous(h.mask.addr)
            THEN [tool |-> [h EXCEPT !.exited = TRUE], msg |-> [cmd |-> "none"]]
            ELSE RtMsg(h, cmd)
    BY DEF NewRoute, z, y, d, e, f, h
  <1> HIDE DEF h
  <1>10. NewRoute(Reset(g), cmd, "-net", ip, gw, mask) = RtMsg(h, cmd)
    <2>1. h.mask.addr = mask
      BY <1>8 DEF Parsed
    <2> QED BY <2>1, <1>9
  <1>11. /\ DOMAIN k = Globals
         /\ k.host = FALSE /\ k.addrs = {"DST", "GATEWAY", "NETMASK"} /\ k.exited = g.exited
         /\ k.dst = d.dst /\ k.gate.addr = gw /\ k.mask.addr = mask
         /\ k.mask = [h.mask EXCEPT !.len = TrimmedLen(h.mask)]
    BY <1>8 DEF MaskAddr, Globals, Parsed
  <1>12. Seen(k.mask) = mask
    BY <1>8, <1>11, CutIsNotSeen
  <1>13. RtMsg(h, cmd) = [tool |-> k,
                          msg |-> [cmd |-> cmd, host |-> k.host, addrs |-> k.addrs, dst |-> k.dst.addr,
                                   gate |-> k.gate.addr, mask |-> Seen(k.mask)]]
    <2> HIDE DEF k
    <2>1. (IF "NETMASK" \in h.addrs THEN MaskAddr(h) ELSE h) = k
      BY <1>8 DEF k
    <2> QED BY <2>1, <1>11, Zenon DEF RtMsg
  <1> HIDE DEF k
  <1>14. /\ r.tool = k
         /\ r.msg = [cmd |-> cmd, host |-> k.host, addrs |-> k.addrs, dst |-> k.dst.addr,
                     gate |-> k.gate.addr, mask |-> Seen(k.mask)]
    <2>1. r = [tool |-> k,
               msg |-> [cmd |-> cmd, host |-> k.host, addrs |-> k.addrs, dst |-> k.dst.addr,
                        gate |-> k.gate.addr, mask |-> Seen(k.mask)]]
      BY <1>10, <1>13, Zenon
    <2> QED BY ONLY <2>1
  <1>15. DOMAIN r.tool = Globals /\ r.tool.mask.addr = mask /\ ~r.tool.exited
    BY <1>11, <1>14, Zenon
  <1>16. /\ r.msg.cmd = cmd /\ r.msg.host = FALSE /\ r.msg.gate = gw /\ r.msg.mask = mask
         /\ r.msg.addrs = {"DST", "GATEWAY", "NETMASK"}
         /\ ~ZeroNet(ip) => r.msg.dst = ip
    BY <1>5, <1>11, <1>12, <1>14
  <1> QED BY <1>15, <1>16 DEF NetServed

\* A call of mainRouteIface sends the request it was given and keeps the invariant.
LEMMA CallServed ==
    ASSUME ToolInv, NEW cmd \in {"add", "delete"}, NEW ip \in Ips, NEW p \in PrefixLengths,
           NEW gw \in Gates, NEW mask \in NetMaskFromIpWithSubnet(p),
           MainRouteIface(cmd, FormOf(mask), ip, gw, mask)
    PROVE  ToolInv'
  <1>1. ip \in Address /\ gw \in Address /\ mask \in Address /\ Contiguous(mask)
    BY ToolAssumption, MasksOfRequests
  <1> DEFINE r == NewRoute(Reset(tool), cmd, FormOf(mask), ip, gw, mask)
  <1>2. /\ tool' = r.tool
        /\ sent' = [req |-> [cmd |-> cmd, ip |-> ip, gw |-> gw, mask |-> mask], msg |-> r.msg]
    BY DEF MainRouteIface
  <1>3. DOMAIN tool = Globals /\ ~tool.exited /\ (tool.mask.family = Inet => Contiguous(tool.mask.addr))
    BY SMTT(30) DEF ToolInv, RequestIsServed, ServiceSurvives
  <1>4. CASE mask = Ones4
    <2>1. r = NewRoute(Reset(tool), cmd, "-host", ip, gw, mask)
      BY <1>4, SMTT(30) DEF FormOf
    <2> HIDE DEF r
    <2>2. /\ DOMAIN r.tool = Globals
          /\ r.tool.mask = tool.mask
          /\ ~r.tool.exited
          /\ r.msg = [cmd |-> cmd, host |-> TRUE, addrs |-> {"DST", "GATEWAY"}, dst |-> ip,
                      gate |-> gw, mask |-> Ones4]
      BY <2>1, <1>3, HostRequest
    <2>3. MessageIsRequest'
      <3>1. /\ sent'.req.cmd = cmd /\ sent'.req.ip = ip /\ sent'.req.gw = gw /\ sent'.req.mask = Ones4
            /\ sent'.msg = r.msg
        BY <1>2, <1>4
      <3>2. /\ r.msg.cmd = cmd /\ r.msg.host = TRUE /\ r.msg.addrs = {"DST", "GATEWAY"}
            /\ r.msg.dst = ip /\ r.msg.gate = gw /\ r.msg.mask = Ones4
        BY <2>2, SMTT(30)
      <3>3. "NETMASK" \notin r.msg.addrs
        BY <3>2, SMTT(30)
      <3>4. sent'.msg.host = (sent'.req.mask = Ones4)
        BY <3>1, <3>2, Zenon
      <3>5. ("NETMASK" \in sent'.msg.addrs) = (sent'.req.mask # Ones4)
        BY <3>1, <3>3
      <3> QED BY <3>1, <3>2, <3>4, <3>5, Zenon DEF MessageIsRequest
    <2> QED BY <2>2, <2>3, <1>2, <1>3, Zenon DEF ToolInv, RequestIsServed, ServiceSurvives
  <1>5. CASE mask # Ones4
    <2>1. r = NewRoute(Reset(tool), cmd, "-net", ip, gw, mask)
      BY <1>5, SMTT(30) DEF FormOf
    <2> HIDE DEF r
    <2>2. /\ DOMAIN r.tool = Globals
          /\ r.tool.mask.addr = mask
          /\ ~r.tool.exited
          /\ r.msg.cmd = cmd /\ r.msg.host = FALSE /\ r.msg.gate = gw /\ r.msg.mask = mask
          /\ r.msg.addrs = {"DST", "GATEWAY", "NETMASK"}
          /\ ~ZeroNet(ip) => r.msg.dst = ip
      <3>1. NetServed(cmd, ip, gw, mask, r)
        BY <2>1, <1>1, <1>3, NetRequest, SMTT(30)
      <3> QED BY <3>1, SMTT(30) DEF NetServed
    <2>3. MessageIsRequest'
      BY <2>2, <1>2, <1>5, ZenonT(40) DEF MessageIsRequest
    <2> QED BY <2>2, <2>3, <1>2, <1>1, Zenon DEF ToolInv, RequestIsServed, ServiceSurvives
  <1> QED BY <1>4, <1>5

\* Every step keeps the invariant.
LEMMA ToolStep == ToolInv /\ [ToolNext]_toolVars => ToolInv'
  <1> SUFFICES ASSUME ToolInv, [ToolNext]_toolVars PROVE ToolInv'
    BY SMTT(30)
  <1>1. CASE UNCHANGED toolVars
    BY <1>1 DEF toolVars, ToolInv, RequestIsServed, MessageIsRequest, ServiceSurvives
  <1>2. ASSUME NEW ip \in Ips, NEW p \in PrefixLengths, NEW gw \in Gates, RouteAdd(ip, p, gw)
        PROVE  ToolInv'
    BY <1>2, CallServed DEF RouteAdd
  <1>3. ASSUME NEW ip \in Ips, NEW p \in PrefixLengths, NEW gw \in Gates, RouteDelete(ip, p, gw)
        PROVE  ToolInv'
    BY <1>3, CallServed DEF RouteDelete
  <1> QED BY <1>1, <1>2, <1>3 DEF ToolNext

\* Every message the route tool writes to the kernel asks for what the service
\* asked of mainRouteIface, however many calls the globals of the tool have been
\* through, and no call ends the process: for any addresses, gateways and prefix lengths.
THEOREM RequestsAreServed == ToolSpec => []RequestIsServed
  <1>1. ToolInv => RequestIsServed
    BY DEF ToolInv
  <1> QED BY <1>1, ToolInitOk, ToolStep, PTL DEF ToolSpec

=============================================================================

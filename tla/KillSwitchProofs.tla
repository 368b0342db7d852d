-------------------------- MODULE KillSwitchProofs --------------------------
EXTENDS KillSwitch, TLAPS

(* What a table has to look like for the shield to hold.                   *)
ShieldUp ==
    /\ Both \subseteq linked
    /\ <<"100.blockAll", 4>> \in enabled
    /\ <<"250.blockIPv6", 6>> \in enabled
    /\ <<"110.allowNets", 4>> \in enabled => allowNets \subseteq granted

(* A table with 100.blockAll, 250.blockIPv6 and a granted allow list       *)
(* rejects every packet that bypasses the tunnel.                          *)
THEOREM ShieldUpBlocks ==
    ASSUME ShieldUp, NEW p \in Bypassing, p.dst \notin granted
    PROVE  Rejected(p)
<1>1. /\ p.out = "phys" /\ p.dst \notin Lan /\ p.dst \in Hosts
      /\ p.dst \notin Broadcast
  BY HostsAssumption DEF Bypassing, Packets
<1>2. ~Matches("000.allowLoopback", p) /\ ~Matches("320.allowDNS", p)
  BY <1>1 DEF Matches
<1>3. ~Matches("300.allowLAN", p) /\ ~Matches("290.allowDHCP", p) /\ ~Matches("200.allowVPN", p)
  BY <1>1 DEF Matches
<1>4. Matches("250.blockIPv6", p) /\ Matches("100.blockAll", p)
  BY <1>1 DEF Matches
<1>5. Matches("110.allowNets", p) => p.dst \in allowNets
  BY DEF Matches
<1>6. /\ Len(RootChain) = 10
      /\ RootChain[6] = "250.blockIPv6" /\ RootChain[10] = "100.blockAll"
      /\ "250.blockIPv6" \notin Accepting /\ "100.blockAll" \notin Accepting
      /\ \A j \in 1..5 : RootChain[j] \in Accepting =>
            RootChain[j] \in {"000.allowLoopback", "320.allowDNS", "300.allowLAN", "290.allowDHCP"}
  BY DEF RootChain, Accepting
<1>7. CASE p.dst \in Hosts6
  <2>1. Family(p) = 6
    BY <1>7 DEF Family
  <2>2. Hits(6, p)
    BY <1>4, <1>6, <2>1 DEF Hits, ShieldUp
  <2>3. \A j \in 1..5 : Hits(j, p) => RootChain[j] \notin Accepting
    BY <1>2, <1>3, <1>6 DEF Hits
  <2> QED
    BY <1>6, <2>1, <2>2, <2>3 DEF Rejected, ShieldUp, Both
<1>8. CASE p.dst \notin Hosts6
  <2>1. Family(p) = 4
    BY <1>8 DEF Family
  <2>2. Hits(10, p)
    BY <1>4, <1>6, <2>1 DEF Hits, ShieldUp
  <2>3. \A j \in 1..9 : Hits(j, p) => RootChain[j] \notin Accepting
    BY <1>2, <1>3, <1>5, <2>1 DEF Hits, ShieldUp, Accepting
  <2> QED
    BY <1>6, <2>1, <2>2, <2>3 DEF Rejected, ShieldUp, Both
<1> QED
  BY <1>7, <1>8

(* The shape of the table carries the shield.                              *)
THEOREM ShieldCarries == (shielded => ShieldUp) => NoGapInShield
  BY ShieldUpBlocks DEF NoGapInShield

-----------------------------------------------------------------------------
(* The commands of a handler, and what they do to the table.               *)
AnchorNames == Anchors \cup {"400.allowPIA"}
Cmds == [op: {"anchor"}, anchor: AnchorNames, fams: SUBSET Both, on: BOOLEAN]
        \cup [op: {"allowNets", "blockNets", "dnsServers"}, nets: SUBSET Hosts]
        \cup [op: {"link"}, fam: Both] \cup [op: {"unlink"}, fam: IPv4] \cup [op: {"wipe"}]

Unlinks(c) == c.op \in {"unlink", "wipe"}
Raises(c, a, f) == c.op = "anchor" /\ c.anchor = a /\ f \in c.fams /\ c.on
Lowers(c, a) == c.op = "wipe" \/ (c.op = "anchor" /\ c.anchor = a /\ ~c.on)
Off(c, a, f) == c.op = "anchor" /\ c.anchor = a /\ f \in c.fams /\ ~c.on

KeepsLinks == {c \in Cmds : ~Unlinks(c)}
KeepsAnchor(a) == {c \in Cmds : ~Lowers(c, a)}
WithinNets(nets) == {c \in Cmds : c.op = "allowNets" => c.nets \subseteq nets}
NoRevival == {c \in Cmds : ~Raises(c, "110.allowNets", 4)}

\* What one command does to the chains' links.
LEMMA ExecLinks ==
    ASSUME NEW c \in Cmds, Exec(c), linked \subseteq Both
    PROVE  /\ linked' \subseteq Both
           /\ ~Unlinks(c) => linked \subseteq linked'
           /\ c.op = "link" => c.fam \in linked'
           /\ c.op # "link" => linked' \subseteq linked
           /\ c.op = "link" => linked' = linked \cup {c.fam}
           /\ c.op = "unlink" => 4 \notin linked'
           /\ c.op = "wipe" => linked' = {}
<1>1. CASE c.op = "anchor"
  BY <1>1 DEF Exec, ExecAnchor, Unlinks
<1>2. CASE c.op \in {"allowNets", "blockNets", "dnsServers"}
  BY <1>2 DEF Exec, ExecNets, Unlinks
<1>3. CASE c.op = "link"
  <2>1. c.fam \in Both
    BY <1>3 DEF Cmds
  <2> QED
    BY <1>3, <2>1 DEF Exec, ExecLink, Unlinks
<1>4. CASE c.op = "unlink"
  <2>1. c.fam = 4
    BY <1>4 DEF Cmds, IPv4
  <2> QED
    BY <1>4, <2>1 DEF Exec, ExecLink, Unlinks
<1>5. CASE c.op = "wipe"
  BY <1>5 DEF Exec, ExecWipe, Unlinks
<1> QED
  BY <1>1, <1>2, <1>3, <1>4, <1>5 DEF Cmds

\* What one command does to the anchors.
LEMMA ExecAnchors ==
    ASSUME NEW c \in Cmds, Exec(c), NEW a \in Anchors, NEW f \in InstalledFor(a)
    PROVE  /\ ~Lowers(c, a) /\ <<a, f>> \in enabled => <<a, f>> \in enabled'
           /\ Raises(c, a, f) => <<a, f>> \in enabled'
           /\ ~Raises(c, a, f) /\ <<a, f>> \in enabled' => <<a, f>> \in enabled
           /\ Off(c, a, f) => <<a, f>> \notin enabled'
           /\ c.op = "wipe" => enabled' = {}
<1>1. CASE c.op = "anchor"
  <2> DEFINE entries == {c.anchor} \X (c.fams \cap InstalledFor(c.anchor))
  <2>1. enabled' = IF c.on THEN enabled \cup entries ELSE enabled \ entries
    BY <1>1 DEF Exec, ExecAnchor
  <2>2. <<a, f>> \in entries <=> c.anchor = a /\ f \in c.fams
    OBVIOUS
  <2> HIDE DEF entries
  <2>3. c.on \in BOOLEAN
    BY <1>1 DEF Cmds
  <2> QED
    BY <1>1, <2>1, <2>2, <2>3 DEF Lowers, Raises, Off
<1>2. CASE c.op \in {"allowNets", "blockNets", "dnsServers"}
  BY <1>2 DEF Exec, ExecNets, Lowers, Raises, Off
<1>3. CASE c.op \in {"link", "unlink"}
  BY <1>3 DEF Exec, ExecLink, Lowers, Raises, Off
<1>4. CASE c.op = "wipe"
  BY <1>4 DEF Exec, ExecWipe, Lowers, Raises, Off
<1> QED
  BY <1>1, <1>2, <1>3, <1>4 DEF Cmds

\* What one command does to the lists.
LEMMA ExecLists ==
    ASSUME NEW c \in Cmds, Exec(c)
    PROVE  /\ c.op = "allowNets" => allowNets' = c.nets /\ c.nets \subseteq Hosts
           /\ c.op = "wipe" => allowNets' = {} /\ blockNets' = {} /\ dnsServers' = {}
           /\ c.op \notin {"allowNets", "wipe"} => allowNets' = allowNets
           /\ blockNets' \in {blockNets, {}} \cup SUBSET (Hosts \ Hosts6)
           /\ dnsServers' \in {dnsServers, {}} \cup SUBSET (Hosts \ Hosts6)
<1>1. CASE c.op = "anchor"
  BY <1>1 DEF Exec, ExecAnchor
<1>2. CASE c.op \in {"allowNets", "blockNets", "dnsServers"}
  <2>1. c.nets \subseteq Hosts
    BY <1>2 DEF Cmds
  <2> QED
    BY <1>2, <2>1 DEF Exec, ExecNets
<1>3. CASE c.op \in {"link", "unlink"}
  BY <1>3 DEF Exec, ExecLink
<1>4. CASE c.op = "wipe"
  BY <1>4 DEF Exec, ExecWipe
<1> QED
  BY <1>1, <1>2, <1>3, <1>4 DEF Cmds

\* Only chains that install() created are ever switched.
LEMMA ExecInstalled ==
    ASSUME NEW c \in Cmds, Exec(c), enabled \subseteq CreatedChains
    PROVE  enabled' \subseteq CreatedChains
<1>1. CASE c.op = "anchor"
  <2> DEFINE entries == {c.anchor} \X (c.fams \cap InstalledFor(c.anchor))
  <2>1. enabled' = IF c.on THEN enabled \cup entries ELSE enabled \ entries
    BY <1>1 DEF Exec, ExecAnchor
  <2>2. c.anchor \in AnchorNames /\ c.fams \subseteq Both
    BY <1>1 DEF Cmds
  <2>3. InstalledFor("400.allowPIA") = {}
    BY DEF InstalledFor
  <2>4. entries \subseteq CreatedChains
    BY <2>2, <2>3 DEF AnchorNames, CreatedChains
  <2> HIDE DEF entries
  <2> QED
    BY <2>1, <2>4
<1>2. CASE c.op \in {"allowNets", "blockNets", "dnsServers"}
  BY <1>2 DEF Exec, ExecNets
<1>3. CASE c.op \in {"link", "unlink"}
  BY <1>3 DEF Exec, ExecLink
<1>4. CASE c.op = "wipe"
  BY <1>4 DEF Exec, ExecWipe
<1> QED
  BY <1>1, <1>2, <1>3, <1>4 DEF Cmds

-----------------------------------------------------------------------------
(* The inductive invariant: besides what holds now, what will hold when    *)
(* the commands left in todo are through.                                  *)
Commanded(s, f) ==
    \E i \in 1..Len(s) : /\ s[i].op = "link" /\ s[i].fam = f
                          /\ \A j \in (i + 1)..Len(s) : ~Unlinks(s[j])
WillLink(f) == (f \in linked /\ todo \in Seq(KeepsLinks)) \/ Commanded(todo, f)

Raised(s, a, f) ==
    \E i \in 1..Len(s) : Raises(s[i], a, f) /\ \A j \in (i + 1)..Len(s) : ~Lowers(s[j], a)
WillRaise(a, f) == (<<a, f>> \in enabled /\ todo \in Seq(KeepsAnchor(a))) \/ Raised(todo, a, f)

\* The families are linked together: isInstalled() only asks for IPv4.
LinksPair ==
    /\ 4 \in linked /\ 6 \notin linked => \E i \in 1..Len(todo) : todo[i].op = "link" /\ todo[i].fam = 6
    /\ \A i \in 1..Len(todo) : todo[i].op = "link" /\ todo[i].fam = 4 =>
          \E j \in (i + 1)..Len(todo) : todo[j].op = "link" /\ todo[j].fam = 6
    /\ up /\ strict => WillLink(4) /\ WillLink(6)

\* 110.allowNets lets out no more than was granted, now and at the end.
Off110(s) ==
    \E i \in 1..Len(s) : /\ Off(s[i], "110.allowNets", 4)
                          /\ \A j \in (i + 1)..Len(s) : ~Raises(s[j], "110.allowNets", 4)
SettlesNets ==
    \/ allowNets \subseteq goal.grant
    \/ \E i \in 1..Len(todo) : todo[i].op \in {"allowNets", "wipe"}
    \/ <<"110.allowNets", 4>> \notin enabled /\ todo \in Seq(NoRevival)
    \/ Off110(todo)
NetsGranted ==
    /\ todo \in Seq(WithinNets(goal.grant))
    /\ <<"110.allowNets", 4>> \in enabled \/ todo \notin Seq(NoRevival) => allowNets \subseteq granted
    /\ todo # <<>> => goal.grant \subseteq granted /\ SettlesNets

\* The shield is up where it is promised, and no command left lowers it.
ShieldStays ==
    /\ shielded => /\ Both \subseteq linked
                   /\ <<"100.blockAll", 4>> \in enabled /\ <<"250.blockIPv6", 6>> \in enabled
                   /\ todo \in Seq(KeepsLinks)
                   /\ todo \in Seq(KeepsAnchor("100.blockAll")) /\ todo \in Seq(KeepsAnchor("250.blockIPv6"))
    /\ todo # <<>> /\ goal.shield => /\ WillLink(4) /\ WillLink(6)
                                     /\ WillRaise("100.blockAll", 4) /\ WillRaise("250.blockIPv6", 6)

Closed(shield, arm) == shield \/ (arm # None /\ ~Full(arm))

IInv ==
    /\ TypeOK /\ todo \in Seq(Cmds) /\ (up \/ todo = <<>>)
    /\ LinksPair /\ NetsGranted /\ ShieldStays
    /\ up /\ strict => IF todo = <<>> THEN Closed(shielded, armed) ELSE Closed(goal.shield, goal.arm)
    /\ goal.opens => IF todo = <<>> THEN linked = {} ELSE todo[Len(todo)].op = "wipe"

-----------------------------------------------------------------------------
(* A step executes the head of todo.                                       *)
LEMMA TailOf ==
    ASSUME NEW S, NEW s \in Seq(S), s # <<>>
    PROVE  /\ Head(s) = s[1] /\ s[1] \in S /\ 1 \in 1..Len(s)
           /\ Tail(s) \in Seq(S) /\ Len(Tail(s)) = Len(s) - 1 /\ Len(s) \in Nat
           /\ \A i \in 1..Len(Tail(s)) : Tail(s)[i] = s[i + 1] /\ i + 1 \in 1..Len(s)
           /\ \A i \in 1..Len(s) : i # 1 => i - 1 \in 1..Len(Tail(s)) /\ Tail(s)[i - 1] = s[i]
  OBVIOUS

LEMMA SeqOf ==
    ASSUME NEW S, NEW R, NEW s \in Seq(S), \A i \in 1..Len(s) : s[i] \in R
    PROVE  s \in Seq(R)
  OBVIOUS

LEMMA ElementOf ==
    ASSUME NEW S, NEW s \in Seq(S), NEW i \in 1..Len(s)
    PROVE  s[i] \in S
  OBVIOUS

\* The command that is executed.
LEMMA StepExecutes ==
    ASSUME todo \in Seq(Cmds), Step
    PROVE  /\ todo # <<>> /\ todo[1] \in Cmds /\ Exec(todo[1]) /\ todo' = Tail(todo) /\ todo' \in Seq(Cmds)
           /\ Len(todo') = Len(todo) - 1 /\ 1 \in 1..Len(todo)
           /\ \A i \in 1..Len(todo') : todo'[i] = todo[i + 1] /\ i + 1 \in 1..Len(todo)
           /\ \A i \in 1..Len(todo) : i # 1 => i - 1 \in 1..Len(todo') /\ todo'[i - 1] = todo[i]
  BY TailOf DEF Step

LEMMA StepLink ==
    ASSUME todo \in Seq(Cmds), linked \subseteq Both, Step, NEW f, WillLink(f)
    PROVE  WillLink(f)'
<1>1. /\ todo # <<>> /\ todo[1] \in Cmds /\ Exec(todo[1]) /\ todo' = Tail(todo) /\ todo' \in Seq(Cmds)
      /\ Len(todo') = Len(todo) - 1 /\ 1 \in 1..Len(todo) /\ Len(todo) \in Nat
      /\ \A i \in 1..Len(todo') : todo'[i] = todo[i + 1] /\ i + 1 \in 1..Len(todo)
      /\ \A i \in 1..Len(todo) : i # 1 => i - 1 \in 1..Len(todo') /\ todo'[i - 1] = todo[i]
  BY StepExecutes
<1>2. CASE f \in linked /\ todo \in Seq(KeepsLinks)
  <2>1. ~Unlinks(todo[1]) /\ todo' \in Seq(KeepsLinks)
    BY <1>1, <1>2, TailOf DEF KeepsLinks
  <2>2. f \in linked'
    BY <1>1, <1>2, <2>1, ExecLinks
  <2> QED
    BY <2>1, <2>2 DEF WillLink
<1>3. CASE Commanded(todo, f)
  <2>1. PICK i \in 1..Len(todo) : /\ todo[i].op = "link" /\ todo[i].fam = f
                                   /\ \A j \in (i + 1)..Len(todo) : ~Unlinks(todo[j])
    BY <1>3 DEF Commanded
  <2>2. CASE i = 1
    <3>1. f \in linked'
      BY <1>1, <2>1, <2>2, ExecLinks
    <3>2. \A j \in 1..Len(todo') : todo'[j] \in KeepsLinks
      <4> TAKE j \in 1..Len(todo')
      <4>1. todo'[j] \in Cmds
        BY <1>1, ElementOf
      <4>2. j + 1 \in (i + 1)..Len(todo)
        BY <1>1, <2>2
      <4> QED
        BY <1>1, <2>1, <4>1, <4>2 DEF KeepsLinks
    <3>3. todo' \in Seq(KeepsLinks)
      BY <1>1, <3>2, SeqOf
    <3> QED
      BY <3>1, <3>3 DEF WillLink
  <2>3. CASE i # 1
    <3>1. \A j \in ((i - 1) + 1)..Len(todo') : ~Unlinks(todo'[j])
      <4> TAKE j \in ((i - 1) + 1)..Len(todo')
      <4>1. j \in 1..Len(todo') /\ j + 1 \in (i + 1)..Len(todo)
        BY <1>1, <2>3
      <4> QED
        BY <1>1, <2>1, <4>1
    <3>2. i - 1 \in 1..Len(todo') /\ todo'[i - 1].op = "link" /\ todo'[i - 1].fam = f
      BY <1>1, <2>1, <2>3
    <3>3. Commanded(todo', f)
      BY <3>1, <3>2 DEF Commanded
    <3> QED
      BY <3>3 DEF WillLink
  <2> QED
    BY <2>2, <2>3
<1> QED
  BY <1>2, <1>3 DEF WillLink

LEMMA StepRaise ==
    ASSUME todo \in Seq(Cmds), Step, NEW a \in Anchors, NEW f \in InstalledFor(a), WillRaise(a, f)
    PROVE  WillRaise(a, f)'
<1>1. /\ todo # <<>> /\ todo[1] \in Cmds /\ Exec(todo[1]) /\ todo' = Tail(todo) /\ todo' \in Seq(Cmds)
      /\ Len(todo') = Len(todo) - 1 /\ 1 \in 1..Len(todo) /\ Len(todo) \in Nat
      /\ \A i \in 1..Len(todo') : todo'[i] = todo[i + 1] /\ i + 1 \in 1..Len(todo)
      /\ \A i \in 1..Len(todo) : i # 1 => i - 1 \in 1..Len(todo') /\ todo'[i - 1] = todo[i]
  BY StepExecutes
<1>2. CASE <<a, f>> \in enabled /\ todo \in Seq(KeepsAnchor(a))
  <2>1. ~Lowers(todo[1], a) /\ todo' \in Seq(KeepsAnchor(a))
    BY <1>1, <1>2, TailOf DEF KeepsAnchor
  <2>2. <<a, f>> \in enabled'
    BY <1>1, <1>2, <2>1, ExecAnchors
  <2> QED
    BY <2>1, <2>2 DEF WillRaise
<1>3. CASE Raised(todo, a, f)
  <2>1. PICK i \in 1..Len(todo) : Raises(todo[i], a, f) /\ \A j \in (i + 1)..Len(todo) : ~Lowers(todo[j], a)
    BY <1>3 DEF Raised
  <2>2. CASE i = 1
    <3>1. <<a, f>> \in enabled'
      BY <1>1, <2>1, <2>2, ExecAnchors
    <3>2. \A j \in 1..Len(todo') : todo'[j] \in KeepsAnchor(a)
      <4> TAKE j \in 1..Len(todo')
      <4>1. todo'[j] \in Cmds
        BY <1>1, ElementOf
      <4>2. j + 1 \in (i + 1)..Len(todo)
        BY <1>1, <2>2
      <4> QED
        BY <1>1, <2>1, <4>1, <4>2 DEF KeepsAnchor
    <3>3. todo' \in Seq(KeepsAnchor(a))
      BY <1>1, <3>2, SeqOf
    <3> QED
      BY <3>1, <3>3 DEF WillRaise
  <2>3. CASE i # 1
    <3>1. \A j \in ((i - 1) + 1)..Len(todo') : ~Lowers(todo'[j], a)
      <4> TAKE j \in ((i - 1) + 1)..Len(todo')
      <4>1. j \in 1..Len(todo') /\ j + 1 \in (i + 1)..Len(todo)
        BY <1>1, <2>3
      <4> QED
        BY <1>1, <2>1, <4>1
    <3>2. i - 1 \in 1..Len(todo') /\ Raises(todo'[i - 1], a, f)
      BY <1>1, <2>1, <2>3
    <3>3. Raised(todo', a, f)
      BY <3>1, <3>2 DEF Raised
    <3> QED
      BY <3>3 DEF WillRaise
  <2> QED
    BY <2>2, <2>3
<1> QED
  BY <1>2, <1>3 DEF WillRaise

\* What a handler leaves behind: the promises of its last command.
LEMMA StepEnds ==
    ASSUME todo \in Seq(Cmds), Step
    PROVE  /\ UNCHANGED <<strict, allowedRanges, up, goal>> /\ up
           /\ Len(todo) = 1 => todo' = <<>> /\ armed' = goal.arm /\ shielded' = goal.shield /\ granted' = goal.grant
           /\ Len(todo) # 1 => todo' # <<>> /\ UNCHANGED promises
<1>1. todo' \in Seq(Cmds) /\ Len(todo') = Len(todo) - 1 /\ Len(todo) \in Nat
  BY StepExecutes
<1>2. (Len(todo) = 1) = (todo' = <<>>)
  BY <1>1
<1> QED
  BY <1>2 DEF Step

LEMMA StepType ==
    ASSUME TypeOK, todo \in Seq(Cmds), Step
    PROVE  TypeOK' /\ todo' \in Seq(Cmds)
<1>1. todo[1] \in Cmds /\ Exec(todo[1]) /\ todo' \in Seq(Cmds)
  BY StepExecutes
<1>2. linked' \subseteq Both
  BY <1>1, ExecLinks DEF TypeOK
<1>3. (enabled \subseteq CreatedChains)'
  BY <1>1, ExecInstalled DEF TypeOK
<1>4. allowNets' \subseteq Hosts /\ blockNets' \subseteq Hosts \ Hosts6 /\ dnsServers' \subseteq Hosts \ Hosts6
  <2>1. allowNets \subseteq Hosts /\ blockNets \subseteq Hosts \ Hosts6 /\ dnsServers \subseteq Hosts \ Hosts6
    BY DEF TypeOK
  <2> QED
    BY <1>1, <2>1, ExecLists
<1>5. /\ (strict \in BOOLEAN /\ up \in BOOLEAN)' /\ (allowedRanges \subseteq Gateways)'
      /\ (goal \in Goals)'
  BY StepEnds DEF TypeOK
<1>6. (shielded \in BOOLEAN)' /\ (granted \subseteq Hosts)' /\ (armed \in Configs \cup {None})'
  <2>1. goal.shield \in BOOLEAN /\ goal.grant \subseteq Hosts /\ goal.arm \in Configs \cup {None}
    BY DEF TypeOK, Goals
  <2>2. CASE Len(todo) = 1
    BY <2>1, <2>2, StepEnds
  <2>3. CASE Len(todo) # 1
    BY <2>3, StepEnds DEF TypeOK, promises
  <2> QED
    BY <2>2, <2>3
<1> QED
  BY <1>1, <1>2, <1>3, <1>4, <1>5, <1>6 DEF TypeOK

LEMMA StepLinksPair ==
    ASSUME TypeOK, todo \in Seq(Cmds), LinksPair, Step
    PROVE  LinksPair'
<1>1. /\ todo[1] \in Cmds /\ Exec(todo[1]) /\ todo' \in Seq(Cmds)
      /\ Len(todo') = Len(todo) - 1 /\ 1 \in 1..Len(todo) /\ Len(todo) \in Nat
      /\ \A i \in 1..Len(todo') : todo'[i] = todo[i + 1] /\ i + 1 \in 1..Len(todo)
      /\ \A i \in 1..Len(todo) : i # 1 => i - 1 \in 1..Len(todo') /\ todo'[i - 1] = todo[i]
  BY StepExecutes
<1>2. linked \subseteq Both
  BY DEF TypeOK
<1>3. ASSUME 4 \in linked', 6 \notin linked'
      PROVE  \E i \in 1..Len(todo') : todo'[i].op = "link" /\ todo'[i].fam = 6
  <2>1. todo[1].op # "wipe" /\ todo[1].op # "unlink" /\ 6 \notin linked
    BY <1>1, <1>2, <1>3, ExecLinks DEF Unlinks
  <2>2. ~(todo[1].op = "link" /\ todo[1].fam = 6)
    BY <1>1, <1>2, <1>3, ExecLinks
  <2>3. CASE todo[1].op = "link" /\ todo[1].fam = 4
    <3>1. PICK j \in (1 + 1)..Len(todo) : todo[j].op = "link" /\ todo[j].fam = 6
      BY <1>1, <2>3 DEF LinksPair
    <3>2. j \in 1..Len(todo) /\ j # 1
      BY <1>1
    <3> QED
      BY <1>1, <3>1, <3>2
  <2>4. CASE ~(todo[1].op = "link" /\ todo[1].fam = 4)
    <3>1. 4 \in linked
      BY <1>1, <1>2, <1>3, <2>4, ExecLinks
    <3>2. PICK j \in 1..Len(todo) : todo[j].op = "link" /\ todo[j].fam = 6
      BY <2>1, <3>1 DEF LinksPair
    <3>3. j # 1
      BY <2>2, <3>2
    <3> QED
      BY <1>1, <3>2, <3>3
  <2> QED
    BY <2>3, <2>4
<1>4. ASSUME NEW i \in 1..Len(todo'), todo'[i].op = "link", todo'[i].fam = 4
      PROVE  \E j \in (i + 1)..Len(todo') : todo'[j].op = "link" /\ todo'[j].fam = 6
  <2>1. i + 1 \in 1..Len(todo) /\ todo[i + 1].op = "link" /\ todo[i + 1].fam = 4
    BY <1>1, <1>4
  <2>2. PICK j \in ((i + 1) + 1)..Len(todo) : todo[j].op = "link" /\ todo[j].fam = 6
    BY <2>1 DEF LinksPair
  <2>3. j \in 1..Len(todo) /\ j # 1 /\ j - 1 \in (i + 1)..Len(todo')
    BY <1>1
  <2> QED
    BY <1>1, <2>2, <2>3
<1>5. (up /\ strict)' => WillLink(4)' /\ WillLink(6)'
  BY <1>2, StepEnds, StepLink DEF LinksPair
<1> QED
  BY <1>3, <1>4, <1>5 DEF LinksPair

\* At the end of a handler 110.allowNets lets out what the handler grants.
LEMMA StepNetsAtEnd ==
    ASSUME todo \in Seq(Cmds), NetsGranted, Step, Len(todo) = 1, <<"110.allowNets", 4>> \in enabled'
    PROVE  allowNets' \subseteq goal.grant
<1>1. todo[1] \in Cmds /\ Exec(todo[1]) /\ todo # <<>> /\ 1 \in 1..Len(todo)
  BY StepExecutes
<1>2. todo[1].op = "allowNets" => todo[1].nets \subseteq goal.grant
  BY <1>1, TailOf DEF NetsGranted, WithinNets
<1>3. "110.allowNets" \in Anchors /\ 4 \in InstalledFor("110.allowNets")
  BY DEF Anchors, RootChain, InstalledFor, Both
<1>4. CASE allowNets \subseteq goal.grant
  BY <1>1, <1>2, <1>4, ExecLists
<1>5. CASE \E i \in 1..Len(todo) : todo[i].op \in {"allowNets", "wipe"}
  <2>1. todo[1].op \in {"allowNets", "wipe"}
    BY <1>5
  <2> QED
    BY <1>1, <1>2, <2>1, ExecLists
<1>6. CASE <<"110.allowNets", 4>> \notin enabled /\ todo \in Seq(NoRevival)
  <2>1. ~Raises(todo[1], "110.allowNets", 4)
    BY <1>1, <1>6, TailOf DEF NoRevival
  <2> QED
    BY <1>1, <1>3, <1>6, <2>1, ExecAnchors
<1>7. CASE Off110(todo)
  <2>1. Off(todo[1], "110.allowNets", 4)
    BY <1>7 DEF Off110
  <2> QED
    BY <1>1, <1>3, <2>1, ExecAnchors
<1> QED
  BY <1>1, <1>4, <1>5, <1>6, <1>7 DEF NetsGranted, SettlesNets

LEMMA StepNets ==
    ASSUME TypeOK, todo \in Seq(Cmds), NetsGranted, Step
    PROVE  NetsGranted'
<1>1. /\ todo # <<>> /\ todo[1] \in Cmds /\ Exec(todo[1]) /\ todo' = Tail(todo) /\ todo' \in Seq(Cmds)
      /\ Len(todo') = Len(todo) - 1 /\ 1 \in 1..Len(todo) /\ Len(todo) \in Nat
      /\ \A i \in 1..Len(todo') : todo'[i] = todo[i + 1] /\ i + 1 \in 1..Len(todo)
      /\ \A i \in 1..Len(todo) : i # 1 => i - 1 \in 1..Len(todo') /\ todo'[i - 1] = todo[i]
  BY StepExecutes
<1>2. /\ goal' = goal
      /\ Len(todo) = 1 => todo' = <<>> /\ granted' = goal.grant
      /\ Len(todo) # 1 => todo' # <<>> /\ granted' = granted
  BY StepEnds DEF promises
<1>3. goal.grant \subseteq granted /\ SettlesNets
  BY <1>1 DEF NetsGranted
<1>4. /\ todo[1].op = "allowNets" => todo[1].nets \subseteq goal.grant
      /\ todo' \in Seq(WithinNets(goal.grant))
  BY <1>1, TailOf DEF NetsGranted, WithinNets
<1>5. "110.allowNets" \in Anchors /\ 4 \in InstalledFor("110.allowNets")
  BY DEF Anchors, RootChain, InstalledFor, Both
<1>6. ~Raises(todo[1], "110.allowNets", 4) \/ todo \notin Seq(NoRevival)
  BY <1>1, TailOf DEF NoRevival
<1>7. todo \in Seq(NoRevival) => todo' \in Seq(NoRevival)
  BY <1>1, TailOf
<1>8. CASE Len(todo) = 1
  <2>1. <<"110.allowNets", 4>> \in enabled' => allowNets' \subseteq granted'
    BY <1>2, <1>8, StepNetsAtEnd
  <2>2. todo' = <<>> /\ todo' \in Seq(NoRevival)
    BY <1>2, <1>8
  <2> QED
    BY <1>2, <1>4, <2>1, <2>2 DEF NetsGranted
<1>9. CASE Len(todo) # 1
  <2>1. ASSUME <<"110.allowNets", 4>> \in enabled' \/ todo' \notin Seq(NoRevival)
        PROVE  allowNets' \subseteq granted'
    <3>1. CASE todo[1].op \in {"allowNets", "wipe"}
      BY <1>1, <1>2, <1>3, <1>4, <1>9, <3>1, ExecLists
    <3>2. CASE todo[1].op \notin {"allowNets", "wipe"}
      <4>1. <<"110.allowNets", 4>> \in enabled \/ todo \notin Seq(NoRevival)
        BY <1>1, <1>5, <1>6, <1>7, <2>1, ExecAnchors
      <4>2. allowNets \subseteq granted
        BY <4>1 DEF NetsGranted
      <4> QED
        BY <1>1, <1>2, <1>9, <3>2, <4>2, ExecLists
    <3> QED
      BY <3>1, <3>2
  <2>2. SettlesNets'
    <3>1. CASE todo[1].op \in {"allowNets", "wipe"}
      <4>1. allowNets' \subseteq goal.grant
        BY <1>1, <1>4, <3>1, ExecLists
      <4> QED
        BY <1>2, <4>1 DEF SettlesNets
    <3>2. CASE todo[1].op \notin {"allowNets", "wipe"}
      <4>1. allowNets' = allowNets
        BY <1>1, <3>2, ExecLists
      <4>2. CASE allowNets \subseteq goal.grant
        BY <1>2, <4>1, <4>2 DEF SettlesNets
      <4>3. CASE \E i \in 1..Len(todo) : todo[i].op \in {"allowNets", "wipe"}
        <5>1. PICK i \in 1..Len(todo) : todo[i].op \in {"allowNets", "wipe"}
          BY <4>3
        <5>2. i - 1 \in 1..Len(todo') /\ todo'[i - 1] = todo[i]
          BY <1>1, <3>2, <5>1
        <5>3. \E j \in 1..Len(todo') : todo'[j].op \in {"allowNets", "wipe"}
          BY <5>1, <5>2
        <5> QED
          BY <5>3 DEF SettlesNets
      <4>4. CASE <<"110.allowNets", 4>> \notin enabled /\ todo \in Seq(NoRevival)
        <5>1. <<"110.allowNets", 4>> \notin enabled' /\ todo' \in Seq(NoRevival)
          BY <1>1, <1>5, <1>6, <1>7, <4>4, ExecAnchors
        <5> QED
          BY <5>1 DEF SettlesNets
      <4>5. CASE Off110(todo)
        <5>1. PICK i \in 1..Len(todo) : /\ Off(todo[i], "110.allowNets", 4)
                                         /\ \A j \in (i + 1)..Len(todo) : ~Raises(todo[j], "110.allowNets", 4)
          BY <4>5 DEF Off110
        <5>2. CASE i = 1
          <6>1. <<"110.allowNets", 4>> \notin enabled'
            BY <1>1, <1>5, <5>1, <5>2, ExecAnchors
          <6>2. \A j \in 1..Len(todo') : todo'[j] \in NoRevival
            <7> TAKE j \in 1..Len(todo')
            <7>1. todo'[j] \in Cmds /\ j + 1 \in (i + 1)..Len(todo)
              BY <1>1, <5>2, ElementOf
            <7> QED
              BY <1>1, <5>1, <7>1 DEF NoRevival
          <6>3. todo' \in Seq(NoRevival)
            BY <1>1, <6>2, SeqOf
          <6> QED
            BY <6>1, <6>3 DEF SettlesNets
        <5>3. CASE i # 1
          <6>1. \A j \in ((i - 1) + 1)..Len(todo') : ~Raises(todo'[j], "110.allowNets", 4)
            <7> TAKE j \in ((i - 1) + 1)..Len(todo')
            <7>1. j \in 1..Len(todo') /\ j + 1 \in (i + 1)..Len(todo)
              BY <1>1, <5>3
            <7> QED
              BY <1>1, <5>1, <7>1
          <6>2. i - 1 \in 1..Len(todo') /\ Off(todo'[i - 1], "110.allowNets", 4)
            BY <1>1, <5>1, <5>3
          <6>3. Off110(todo')
            BY <6>1, <6>2 DEF Off110
          <6> QED
            BY <6>3 DEF SettlesNets
        <5> QED
          BY <5>2, <5>3
      <4> QED
        BY <1>3, <4>2, <4>3, <4>4, <4>5 DEF SettlesNets
    <3> QED
      BY <3>1, <3>2
  <2> QED
    BY <1>2, <1>3, <1>4, <1>9, <2>1, <2>2 DEF NetsGranted
<1> QED
  BY <1>8, <1>9

\* The anchors of the shield, and the families that have them.
LEMMA ShieldAnchors ==
    /\ "100.blockAll" \in Anchors /\ 4 \in InstalledFor("100.blockAll")
    /\ "250.blockIPv6" \in Anchors /\ 6 \in InstalledFor("250.blockIPv6")
  BY DEF Anchors, RootChain, InstalledFor, Both, IPv6

LEMMA StepShield ==
    ASSUME TypeOK, todo \in Seq(Cmds), ShieldStays, Step
    PROVE  ShieldStays'
<1>1. /\ todo # <<>> /\ todo[1] \in Cmds /\ Exec(todo[1]) /\ todo' = Tail(todo) /\ todo' \in Seq(Cmds)
  BY StepExecutes
<1>2. /\ goal' = goal
      /\ Len(todo) = 1 => todo' = <<>> /\ shielded' = goal.shield
      /\ Len(todo) # 1 => todo' # <<>> /\ shielded' = shielded
  BY StepEnds DEF promises
<1>3. linked \subseteq Both
  BY DEF TypeOK
<1>4. goal.shield => /\ WillLink(4)' /\ WillLink(6)'
                     /\ WillRaise("100.blockAll", 4)' /\ WillRaise("250.blockIPv6", 6)'
  BY <1>1, <1>3, ShieldAnchors, StepLink, StepRaise DEF ShieldStays
<1>5. CASE Len(todo) = 1
  <2>1. ASSUME goal.shield
        PROVE  4 \in linked' /\ 6 \in linked' /\ <<"100.blockAll", 4>> \in enabled' /\ <<"250.blockIPv6", 6>> \in enabled'
    BY <1>2, <1>4, <1>5, <2>1 DEF WillLink, WillRaise, Commanded, Raised
  <2>2. Both \subseteq linked' <=> 4 \in linked' /\ 6 \in linked'
    BY DEF Both
  <2>3. /\ todo' \in Seq(KeepsLinks)
        /\ todo' \in Seq(KeepsAnchor("100.blockAll")) /\ todo' \in Seq(KeepsAnchor("250.blockIPv6"))
    BY <1>2, <1>5
  <2> QED
    BY <1>2, <1>5, <2>1, <2>2, <2>3 DEF ShieldStays
<1>6. CASE Len(todo) # 1
  <2>1. ASSUME shielded
        PROVE  /\ Both \subseteq linked'
               /\ <<"100.blockAll", 4>> \in enabled' /\ <<"250.blockIPv6", 6>> \in enabled'
               /\ todo' \in Seq(KeepsLinks)
               /\ todo' \in Seq(KeepsAnchor("100.blockAll")) /\ todo' \in Seq(KeepsAnchor("250.blockIPv6"))
    <3>1. ~Unlinks(todo[1]) /\ todo' \in Seq(KeepsLinks)
      BY <1>1, <2>1, TailOf DEF ShieldStays, KeepsLinks
    <3>2. ~Lowers(todo[1], "100.blockAll") /\ todo' \in Seq(KeepsAnchor("100.blockAll"))
      BY <1>1, <2>1, TailOf DEF ShieldStays, KeepsAnchor
    <3>3. ~Lowers(todo[1], "250.blockIPv6") /\ todo' \in Seq(KeepsAnchor("250.blockIPv6"))
      BY <1>1, <2>1, TailOf DEF ShieldStays, KeepsAnchor
    <3>4. Both \subseteq linked'
      BY <1>1, <1>3, <2>1, <3>1, ExecLinks DEF ShieldStays
    <3>5. <<"100.blockAll", 4>> \in enabled' /\ <<"250.blockIPv6", 6>> \in enabled'
      BY <1>1, <2>1, <3>2, <3>3, ExecAnchors, ShieldAnchors DEF ShieldStays
    <3> QED
      BY <3>1, <3>2, <3>3, <3>4, <3>5
  <2> QED
    BY <1>2, <1>4, <1>6, <2>1 DEF ShieldStays
<1> QED
  BY <1>5, <1>6

LEMMA StepKeeps ==
    ASSUME IInv, Step
    PROVE  IInv'
<1> USE DEF IInv
<1>1. TypeOK' /\ todo' \in Seq(Cmds) /\ LinksPair' /\ NetsGranted' /\ ShieldStays'
  BY StepType, StepLinksPair, StepNets, StepShield
<1>2. /\ todo # <<>> /\ todo[1] \in Cmds /\ Exec(todo[1]) /\ todo' \in Seq(Cmds)
      /\ Len(todo') = Len(todo) - 1 /\ Len(todo) \in Nat
      /\ \A i \in 1..Len(todo') : todo'[i] = todo[i + 1]
  BY StepExecutes
<1>3. (up /\ strict => IF todo = <<>> THEN Closed(shielded, armed) ELSE Closed(goal.shield, goal.arm))'
  BY <1>2, StepEnds DEF Closed
<1>4. (goal.opens => IF todo = <<>> THEN linked = {} ELSE todo[Len(todo)].op = "wipe")'
  <2>1. CASE Len(todo) = 1
    <3>1. todo' = <<>> /\ goal' = goal
      BY <2>1, StepEnds
    <3>2. goal.opens => todo[1].op = "wipe"
      BY <1>2, <2>1
    <3>3. goal.opens => linked' = {}
      BY <1>2, <3>2, ExecLinks DEF TypeOK
    <3> QED
      BY <3>1, <3>3
  <2>2. CASE Len(todo) # 1
    <3>1. todo' # <<>> /\ goal' = goal
      BY <2>2, StepEnds
    <3>2. Len(todo') \in 1..Len(todo')
      BY <1>2, <3>1
    <3>3. todo'[Len(todo')] = todo[Len(todo)]
      BY <1>2, <3>2
    <3> QED
      BY <1>2, <3>1, <3>3
  <2> QED
    BY <2>1, <2>2
<1>5. up'
  BY StepEnds
<1> QED
  BY <1>1, <1>3, <1>4, <1>5

-----------------------------------------------------------------------------
(* The programs.  What holds of two lists of commands holds of both in a   *)
(* row.                                                                    *)
HasOp(s, ops) == \E i \in 1..Len(s) : s[i].op \in ops
RaisedIn(s, a, f) == \E i \in 1..Len(s) : Raises(s[i], a, f)
Paired(s) ==
    \A i \in 1..Len(s) : s[i].op = "link" /\ s[i].fam = 4 =>
        \E j \in (i + 1)..Len(s) : s[j].op = "link" /\ s[j].fam = 6
Unlinking == {c \in Cmds : c.op # "link"}

LEMMA Concat ==
    ASSUME NEW S, NEW s \in Seq(S), NEW t \in Seq(S)
    PROVE  /\ s \o t \in Seq(S) /\ Len(s \o t) = Len(s) + Len(t) /\ Len(s) \in Nat /\ Len(t) \in Nat
           /\ \A i \in 1..Len(s) : i \in 1..Len(s \o t) /\ (s \o t)[i] = s[i]
           /\ \A i \in 1..Len(t) : Len(s) + i \in 1..Len(s \o t) /\ (s \o t)[Len(s) + i] = t[i]
           /\ \A i \in 1..Len(s \o t) : i > Len(s) => i - Len(s) \in 1..Len(t) /\ (s \o t)[i] = t[i - Len(s)]
  OBVIOUS

LEMMA ConcatHas ==
    ASSUME NEW s \in Seq(Cmds), NEW t \in Seq(Cmds), NEW ops, NEW a, NEW f
    PROVE  /\ HasOp(s, ops) \/ HasOp(t, ops) => HasOp(s \o t, ops)
           /\ RaisedIn(s, a, f) \/ RaisedIn(t, a, f) => RaisedIn(s \o t, a, f)
<1>1. /\ \A i \in 1..Len(s) : i \in 1..Len(s \o t) /\ (s \o t)[i] = s[i]
      /\ \A i \in 1..Len(t) : Len(s) + i \in 1..Len(s \o t) /\ (s \o t)[Len(s) + i] = t[i]
  BY Concat
<1>2. HasOp(s, ops) \/ HasOp(t, ops) => HasOp(s \o t, ops)
  BY <1>1, Zenon DEF HasOp
<1>3. RaisedIn(s, a, f) \/ RaisedIn(t, a, f) => RaisedIn(s \o t, a, f)
  BY <1>1, Zenon DEF RaisedIn
<1> QED
  BY <1>2, <1>3

LEMMA ConcatCommanded ==
    ASSUME NEW s \in Seq(Cmds), NEW t \in Seq(Cmds), NEW f
    PROVE  /\ Commanded(t, f) => Commanded(s \o t, f)
           /\ Commanded(s, f) /\ t \in Seq(KeepsLinks) => Commanded(s \o t, f)
<1>1. ASSUME Commanded(t, f) PROVE Commanded(s \o t, f)
  <2>1. PICK i \in 1..Len(t) : t[i].op = "link" /\ t[i].fam = f /\ \A j \in (i + 1)..Len(t) : ~Unlinks(t[j])
    BY <1>1 DEF Commanded
  <2>2. \A j \in ((Len(s) + i) + 1)..Len(s \o t) : ~Unlinks((s \o t)[j])
    <3> TAKE j \in ((Len(s) + i) + 1)..Len(s \o t)
    <3>1. j \in 1..Len(s \o t) /\ j > Len(s) /\ j - Len(s) \in (i + 1)..Len(t)
      BY Concat
    <3> QED
      BY <2>1, <3>1, Concat
  <2> QED
    BY <2>1, <2>2, Concat DEF Commanded
<1>2. ASSUME Commanded(s, f), t \in Seq(KeepsLinks) PROVE Commanded(s \o t, f)
  <2>1. PICK i \in 1..Len(s) : s[i].op = "link" /\ s[i].fam = f /\ \A j \in (i + 1)..Len(s) : ~Unlinks(s[j])
    BY <1>2 DEF Commanded
  <2>2. \A j \in 1..Len(t) : ~Unlinks(t[j])
    BY <1>2, ElementOf DEF KeepsLinks
  <2>3. \A j \in (i + 1)..Len(s \o t) : ~Unlinks((s \o t)[j])
    <3> TAKE j \in (i + 1)..Len(s \o t)
    <3>1. CASE j > Len(s)
      <4>1. j \in 1..Len(s \o t)
        BY Concat
      <4> QED
        BY <2>2, <3>1, <4>1, Concat
    <3>2. CASE ~(j > Len(s))
      <4>1. j \in 1..Len(s) /\ j \in (i + 1)..Len(s)
        BY <3>2, Concat
      <4> QED
        BY <2>1, <4>1, Concat
    <3> QED
      BY <3>1, <3>2
  <2> QED
    BY <2>1, <2>3, Concat DEF Commanded
<1> QED
  BY <1>1, <1>2

LEMMA ConcatRaised ==
    ASSUME NEW s \in Seq(Cmds), NEW a, NEW f, NEW t \in Seq(KeepsAnchor(a)), RaisedIn(t, a, f)
    PROVE  Raised(s \o t, a, f)
<1>1. t \in Seq(Cmds) /\ \A j \in 1..Len(t) : ~Lowers(t[j], a)
  BY SeqOf, ElementOf DEF KeepsAnchor
<1>2. PICK i \in 1..Len(t) : Raises(t[i], a, f)
  BY DEF RaisedIn
<1>3. \A j \in ((Len(s) + i) + 1)..Len(s \o t) : ~Lowers((s \o t)[j], a)
  <2> TAKE j \in ((Len(s) + i) + 1)..Len(s \o t)
  <2>1. j \in 1..Len(s \o t) /\ j > Len(s)
    BY <1>1, Concat
  <2> QED
    BY <1>1, <2>1, Concat
<1> QED
  BY <1>1, <1>2, <1>3, Concat DEF Raised

LEMMA ConcatPaired ==
    ASSUME NEW s \in Seq(Cmds), NEW t \in Seq(Cmds), Paired(s), Paired(t)
    PROVE  Paired(s \o t)
<1> SUFFICES ASSUME NEW i \in 1..Len(s \o t), (s \o t)[i].op = "link", (s \o t)[i].fam = 4
             PROVE  \E j \in (i + 1)..Len(s \o t) : (s \o t)[j].op = "link" /\ (s \o t)[j].fam = 6
  BY DEF Paired
<1>1. CASE i > Len(s)
  <2>1. i - Len(s) \in 1..Len(t) /\ t[i - Len(s)].op = "link" /\ t[i - Len(s)].fam = 4
    BY <1>1, Concat
  <2>2. PICK j \in ((i - Len(s)) + 1)..Len(t) : t[j].op = "link" /\ t[j].fam = 6
    BY <2>1 DEF Paired
  <2>3. j \in 1..Len(t) /\ Len(s) + j \in (i + 1)..Len(s \o t)
    BY <2>1, Concat
  <2>4. (s \o t)[Len(s) + j] = t[j]
    BY <2>3, Concat
  <2> QED
    BY <2>2, <2>3, <2>4, Zenon
<1>2. CASE ~(i > Len(s))
  <2>1. i \in 1..Len(s) /\ s[i].op = "link" /\ s[i].fam = 4
    BY <1>2, Concat
  <2>2. PICK j \in (i + 1)..Len(s) : s[j].op = "link" /\ s[j].fam = 6
    BY <2>1 DEF Paired
  <2>3. j \in 1..Len(s) /\ j \in (i + 1)..Len(s \o t)
    BY <2>1, Concat
  <2>4. (s \o t)[j] = s[j]
    BY <2>3, Concat
  <2> QED
    BY <2>2, <2>3, <2>4, Zenon
<1> QED
  BY <1>1, <1>2

LEMMA UnlinkingPaired ==
    ASSUME NEW s \in Seq(Unlinking)
    PROVE  Paired(s)
  BY ElementOf DEF Paired, Unlinking

\* The sets of commands are sets of commands.
LEMMA SeqCmds ==
    /\ Seq(KeepsLinks) \subseteq Seq(Cmds) /\ Seq(NoRevival) \subseteq Seq(Cmds) /\ Seq(Unlinking) \subseteq Seq(Cmds)
    /\ \A a : Seq(KeepsAnchor(a)) \subseteq Seq(Cmds)
    /\ \A nets : Seq(WithinNets(nets)) \subseteq Seq(Cmds)
  BY DEF KeepsLinks, NoRevival, Unlinking, KeepsAnchor, WithinNets

\* The commands of handlers that neither link nor unlink a chain, nor switch
\* 250.blockIPv6 off, nor let out more than the hosts in allow; nor, with
\* block, switch 100.blockAll off.
ArmCmds(block, allow) ==
    {c \in Cmds : /\ c.op \notin {"link", "unlink", "wipe"} /\ ~Lowers(c, "250.blockIPv6")
                  /\ block => ~Lowers(c, "100.blockAll")
                  /\ c.op = "allowNets" => c.nets \subseteq allow}

LEMMA ArmCmdsKeep ==
    ASSUME NEW block, NEW allow, NEW s \in Seq(ArmCmds(block, allow))
    PROVE  /\ s \in Seq(Cmds) /\ s \in Seq(KeepsLinks) /\ s \in Seq(Unlinking) /\ s \in Seq(WithinNets(allow))
           /\ s \in Seq(KeepsAnchor("250.blockIPv6"))
           /\ block => s \in Seq(KeepsAnchor("100.blockAll"))
<1> DEFINE S == ArmCmds(block, allow)
<1>1. /\ S \subseteq Cmds /\ S \subseteq KeepsLinks /\ S \subseteq Unlinking /\ S \subseteq WithinNets(allow)
      /\ S \subseteq KeepsAnchor("250.blockIPv6")
      /\ block => S \subseteq KeepsAnchor("100.blockAll")
  BY DEF ArmCmds, KeepsLinks, Unlinking, WithinNets, KeepsAnchor, Unlinks
<1> HIDE DEF S
<1>2. ASSUME NEW R, S \subseteq R PROVE s \in Seq(R)
  BY <1>2 DEF S
<1> QED
  BY <1>1, <1>2, Zenon

LEMMA Pair ==
    ASSUME NEW S, NEW a \in S, NEW b \in S
    PROVE  <<a, b>> \in Seq(S) /\ Len(<<a, b>>) = 2
  OBVIOUS

LEMMA Triple ==
    ASSUME NEW S, NEW a \in S, NEW b \in S, NEW c \in S
    PROVE  <<a, b, c>> \in Seq(S) /\ Len(<<a, b, c>>) = 3 /\ <<a, b, c>>[2] = b
  OBVIOUS

LEMMA Quintuple ==
    ASSUME NEW S, NEW a \in S, NEW b \in S, NEW c \in S, NEW d \in S, NEW e \in S
    PROVE  <<a, b, c, d, e>> \in Seq(S) /\ Len(<<a, b, c, d, e>>) = 5 /\ <<a, b, c, d, e>>[2] = b
  OBVIOUS

LEMMA AnchorCmd ==
    ASSUME NEW fams \in SUBSET Both, NEW a \in AnchorNames, NEW on \in BOOLEAN
    PROVE  /\ SetAnchorEnabled(fams, a, on) \in Cmds
           /\ \A block, allow : on \/ a \notin {"100.blockAll", "250.blockIPv6"}
                                => SetAnchorEnabled(fams, a, on) \in ArmCmds(block, allow)
           /\ ~on \/ a # "110.allowNets" => SetAnchorEnabled(fams, a, on) \in NoRevival
           /\ \A f \in fams : on => Raises(SetAnchorEnabled(fams, a, on), a, f)
           /\ \A f \in fams : ~on => Off(SetAnchorEnabled(fams, a, on), a, f)
<1>1. SetAnchorEnabled(fams, a, on) \in Cmds
  BY DEF SetAnchorEnabled, Cmds
<1> QED
  BY <1>1 DEF SetAnchorEnabled, ArmCmds, NoRevival, Raises, Lowers, Off

LEMMA BlockAllCmd ==
    ASSUME NEW block \in BOOLEAN, NEW allow
    PROVE  SetAnchorEnabled(Both, "100.blockAll", block) \in ArmCmds(block, allow)
<1>1. SetAnchorEnabled(Both, "100.blockAll", block) \in Cmds
  BY AnchorCmd DEF AnchorNames, Anchors, RootChain
<1> QED
  BY <1>1 DEF SetAnchorEnabled, ArmCmds, Lowers

LEMMA NetsCmds ==
    ASSUME NEW nets \in SUBSET Hosts, NEW block, NEW allow
    PROVE  /\ nets \subseteq allow => UpdateAllowNets(nets) \in Seq(ArmCmds(block, allow))
           /\ UpdateBlockNets(nets) \in Seq(ArmCmds(block, allow))
           /\ UpdateDNSServers(nets) \in Seq(ArmCmds(block, allow))
           /\ HasOp(UpdateAllowNets(nets), {"allowNets"})
<1>1. \A op \in {"allowNets", "blockNets", "dnsServers"}, n \in SUBSET Hosts : [op |-> op, nets |-> n] \in Cmds
  BY DEF Cmds
<1>2. \A op \in {"blockNets", "dnsServers"}, n \in SUBSET Hosts : [op |-> op, nets |-> n] \in ArmCmds(block, allow)
  BY <1>1 DEF ArmCmds, Lowers
<1>3. \A n \in SUBSET Hosts : n \subseteq allow => [op |-> "allowNets", nets |-> n] \in ArmCmds(block, allow)
  BY <1>1 DEF ArmCmds, Lowers
<1>4. {} \in SUBSET Hosts /\ {} \subseteq allow
  OBVIOUS
<1>5. nets \subseteq allow => UpdateAllowNets(nets) \in Seq(ArmCmds(block, allow))
  BY <1>3, <1>4 DEF UpdateAllowNets
<1>6. UpdateBlockNets(nets) \in Seq(ArmCmds(block, allow))
  BY <1>2, <1>4 DEF UpdateBlockNets
<1>7. UpdateDNSServers(nets) \in Seq(ArmCmds(block, allow))
  BY <1>2, <1>4 DEF UpdateDNSServers
<1>8. HasOp(UpdateAllowNets(nets), {"allowNets"})
  BY DEF UpdateAllowNets, HasOp
<1> QED
  BY <1>5, <1>6, <1>7, <1>8

\* enableKillSwitch() and applyFirewallRules() raise the shield and keep it.
LEMMA ArmProgramFacts ==
    ASSUME NEW block \in BOOLEAN, NEW fams \in SUBSET Both, NEW on \in BOOLEAN, NEW blockOn \in BOOLEAN,
           NEW allow \in SUBSET Hosts, NEW nets \in SUBSET Hosts, NEW dns \in SUBSET Hosts
    PROVE  /\ ArmProgram(block, fams, on, allow, blockOn, nets, dns) \in Seq(ArmCmds(block, allow))
           /\ HasOp(ArmProgram(block, fams, on, allow, blockOn, nets, dns), {"allowNets"})
           /\ block => RaisedIn(ArmProgram(block, fams, on, allow, blockOn, nets, dns), "100.blockAll", 4)
           /\ RaisedIn(ArmProgram(block, fams, on, allow, blockOn, nets, dns), "250.blockIPv6", 6)
<1> DEFINE S == ArmCmds(block, allow)
           p1 == << SetAnchorEnabled(Both, "000.allowLoopback", TRUE),
                    SetAnchorEnabled(Both, "100.blockAll", block),
                    SetAnchorEnabled(fams, "110.allowNets", on) >>
           p2 == << SetAnchorEnabled(IPv4, "120.blockNets", blockOn) >>
           p3 == << SetAnchorEnabled(IPv4, "200.allowVPN", TRUE),
                    SetAnchorEnabled(IPv6, "250.blockIPv6", TRUE),
                    SetAnchorEnabled(Both, "290.allowDHCP", TRUE),
                    SetAnchorEnabled(Both, "300.allowLAN", TRUE),
                    SetAnchorEnabled(IPv4, "310.blockDNS", TRUE) >>
           p4 == << SetAnchorEnabled(IPv4, "320.allowDNS", TRUE),
                    SetAnchorEnabled(Both, "400.allowPIA", TRUE) >>
           u1 == UpdateAllowNets(allow)
           u2 == UpdateBlockNets(nets)
           u3 == UpdateDNSServers(dns)
<1>1. /\ {"000.allowLoopback", "100.blockAll", "110.allowNets", "120.blockNets", "200.allowVPN", "250.blockIPv6",
          "290.allowDHCP", "300.allowLAN", "310.blockDNS", "320.allowDNS", "400.allowPIA"} \subseteq AnchorNames
      /\ IPv4 \in SUBSET Both /\ IPv6 \in SUBSET Both /\ Both \in SUBSET Both
  BY DEF AnchorNames, Anchors, RootChain, IPv4, IPv6, Both
<1>2. p1 \in Seq(S)
  <2>1. SetAnchorEnabled(Both, "000.allowLoopback", TRUE) \in S
    BY <1>1, AnchorCmd
  <2>2. SetAnchorEnabled(Both, "100.blockAll", block) \in S
    BY BlockAllCmd
  <2>3. SetAnchorEnabled(fams, "110.allowNets", on) \in S
    BY <1>1, AnchorCmd
  <2> HIDE DEF S
  <2> QED
    BY <2>1, <2>2, <2>3, Triple, Zenon
<1>3. p2 \in Seq(S)
  <2>1. SetAnchorEnabled(IPv4, "120.blockNets", blockOn) \in S
    BY <1>1, AnchorCmd
  <2> HIDE DEF S
  <2> QED
    BY <2>1
<1>4. p3 \in Seq(S)
  <2>1. /\ SetAnchorEnabled(IPv4, "200.allowVPN", TRUE) \in S /\ SetAnchorEnabled(IPv6, "250.blockIPv6", TRUE) \in S
        /\ SetAnchorEnabled(Both, "290.allowDHCP", TRUE) \in S /\ SetAnchorEnabled(Both, "300.allowLAN", TRUE) \in S
        /\ SetAnchorEnabled(IPv4, "310.blockDNS", TRUE) \in S
    BY <1>1, AnchorCmd
  <2> HIDE DEF S
  <2> QED
    BY <2>1, Quintuple, Zenon
<1>5. p4 \in Seq(S)
  <2>1. SetAnchorEnabled(IPv4, "320.allowDNS", TRUE) \in S /\ SetAnchorEnabled(Both, "400.allowPIA", TRUE) \in S
    BY <1>1, AnchorCmd
  <2> HIDE DEF S
  <2> QED
    BY <2>1, Pair, Zenon
<1>6. u1 \in Seq(S) /\ u2 \in Seq(S) /\ u3 \in Seq(S) /\ HasOp(u1, {"allowNets"})
  BY NetsCmds
<1>7. block => RaisedIn(p1, "100.blockAll", 4)
  <2>1. block => Raises(SetAnchorEnabled(Both, "100.blockAll", block), "100.blockAll", 4)
    BY <1>1, AnchorCmd DEF Both
  <2>2. p1[2] = SetAnchorEnabled(Both, "100.blockAll", block) /\ Len(p1) = 3
    OBVIOUS
  <2> HIDE DEF p1
  <2>3. 2 \in 1..Len(p1)
    BY <2>2
  <2> QED
    BY <2>1, <2>2, <2>3, Zenon DEF RaisedIn
<1>8. RaisedIn(p3, "250.blockIPv6", 6)
  <2>1. Raises(SetAnchorEnabled(IPv6, "250.blockIPv6", TRUE), "250.blockIPv6", 6)
    BY <1>1, AnchorCmd DEF IPv6
  <2>2. p3[2] = SetAnchorEnabled(IPv6, "250.blockIPv6", TRUE) /\ Len(p3) = 5
    OBVIOUS
  <2> HIDE DEF p3
  <2>3. 2 \in 1..Len(p3)
    BY <2>2
  <2> QED
    BY <2>1, <2>2, <2>3, Zenon DEF RaisedIn
<1>9. ArmProgram(block, fams, on, allow, blockOn, nets, dns) = p1 \o u1 \o p2 \o u2 \o p3 \o u3 \o p4
  BY DEF ArmProgram
<1>10. Seq(S) \subseteq Seq(Cmds)
  BY ArmCmdsKeep
<1> HIDE DEF S, p1, p2, p3, p4, u1, u2, u3
<1>11. /\ p1 \o u1 \in Seq(S) /\ p1 \o u1 \o p2 \in Seq(S) /\ p1 \o u1 \o p2 \o u2 \in Seq(S)
       /\ p1 \o u1 \o p2 \o u2 \o p3 \in Seq(S) /\ p1 \o u1 \o p2 \o u2 \o p3 \o u3 \in Seq(S)
       /\ p1 \o u1 \o p2 \o u2 \o p3 \o u3 \o p4 \in Seq(S)
  BY <1>2, <1>3, <1>4, <1>5, <1>6, Concat
<1>12. HasOp(p1 \o u1 \o p2 \o u2 \o p3 \o u3 \o p4, {"allowNets"})
  BY <1>2, <1>3, <1>4, <1>5, <1>6, <1>10, <1>11, ConcatHas
<1>13. block => RaisedIn(p1 \o u1 \o p2 \o u2 \o p3 \o u3 \o p4, "100.blockAll", 4)
  BY <1>2, <1>3, <1>4, <1>5, <1>6, <1>7, <1>10, <1>11, ConcatHas
<1>14. RaisedIn(p1 \o u1 \o p2 \o u2 \o p3 \o u3 \o p4, "250.blockIPv6", 6)
  BY <1>2, <1>3, <1>4, <1>5, <1>6, <1>8, <1>10, <1>11, ConcatHas
<1> QED
  BY <1>9, <1>11, <1>12, <1>13, <1>14 DEF S

\* install() links IPv4 first and IPv6 last.
LEMMA InstallFacts ==
    /\ Install \in Seq(Cmds) /\ Install \in Seq(NoRevival)
    /\ \A nets : Install \in Seq(WithinNets(nets))
    /\ Commanded(Install, 4) /\ Commanded(Install, 6) /\ Paired(Install) /\ HasOp(Install, {"wipe"})
<1> DEFINE c1 == [op |-> "unlink", fam |-> 4]
           c2 == [op |-> "wipe"]
           c3 == [op |-> "link", fam |-> 4]
           c4 == [op |-> "link", fam |-> 6]
<1>1. Install = <<c1, c2>> \o <<c3, c4>>
  BY DEF Install, Uninstall, LinkRoot
<1>2. c1 \in Cmds /\ c2 \in Cmds /\ c3 \in Cmds /\ c4 \in Cmds
  BY DEF Cmds, IPv4, Both
<1>3. /\ c1.op = "unlink" /\ c2.op = "wipe" /\ c3.op = "link" /\ c3.fam = 4 /\ c4.op = "link" /\ c4.fam = 6
  OBVIOUS
<1> HIDE DEF c1, c2, c3, c4
<1>4. /\ Len(Install) = 4 /\ Install \in Seq({c1, c2, c3, c4})
      /\ Install[1] = c1 /\ Install[2] = c2 /\ Install[3] = c3 /\ Install[4] = c4
  <2>1. <<c1, c2>> \in Seq({c1, c2, c3, c4}) /\ <<c3, c4>> \in Seq({c1, c2, c3, c4})
    OBVIOUS
  <2>2. Len(<<c1, c2>>) = 2 /\ Len(<<c3, c4>>) = 2
    OBVIOUS
  <2> QED
    BY <1>1, <2>1, <2>2
<1>5. \A i \in 1..Len(Install) : i = 1 \/ i = 2 \/ i = 3 \/ i = 4
  BY <1>4
<1>6. Install \in Seq(Cmds) /\ Install \in Seq(NoRevival)
  BY <1>2, <1>3, <1>4 DEF NoRevival, Raises
<1>7. \A nets : Install \in Seq(WithinNets(nets))
  BY <1>2, <1>3, <1>4 DEF WithinNets
<1>8. Commanded(Install, 4)
  <2>1. 3 \in 1..Len(Install) /\ \A j \in (3 + 1)..Len(Install) : j = 4
    BY <1>4
  <2> QED
    BY <1>3, <1>4, <2>1 DEF Commanded, Unlinks
<1>9. Commanded(Install, 6)
  <2>1. 4 \in 1..Len(Install) /\ \A j \in (4 + 1)..Len(Install) : FALSE
    BY <1>4
  <2> QED
    BY <1>3, <1>4, <2>1 DEF Commanded
<1>10. Paired(Install)
  <2>1. 4 \in (3 + 1)..Len(Install)
    BY <1>4
  <2> QED
    BY <1>3, <1>4, <1>5, <2>1 DEF Paired
<1>11. HasOp(Install, {"wipe"})
  BY <1>3, <1>4 DEF HasOp
<1> QED
  BY <1>6, <1>7, <1>8, <1>9, <1>10, <1>11

LEMMA LinkRootFacts ==
    /\ LinkRoot \in Seq(Cmds) /\ LinkRoot \in Seq(KeepsLinks) /\ LinkRoot \in Seq(NoRevival)
    /\ \A nets : LinkRoot \in Seq(WithinNets(nets))
    /\ \A a : LinkRoot \in Seq(KeepsAnchor(a))
    /\ Commanded(LinkRoot, 4) /\ Commanded(LinkRoot, 6) /\ Paired(LinkRoot)
<1> DEFINE c3 == [op |-> "link", fam |-> 4]
           c4 == [op |-> "link", fam |-> 6]
<1>1. LinkRoot = <<c3, c4>>
  BY DEF LinkRoot
<1>2. c3 \in Cmds /\ c4 \in Cmds
  BY DEF Cmds, Both
<1>3. c3.op = "link" /\ c3.fam = 4 /\ c4.op = "link" /\ c4.fam = 6
  OBVIOUS
<1> HIDE DEF c3, c4
<1>4. Len(LinkRoot) = 2 /\ LinkRoot[1] = c3 /\ LinkRoot[2] = c4 /\ LinkRoot \in Seq({c3, c4})
  BY <1>1
<1>5. LinkRoot \in Seq(Cmds) /\ LinkRoot \in Seq(KeepsLinks) /\ LinkRoot \in Seq(NoRevival)
  BY <1>2, <1>3, <1>4 DEF KeepsLinks, NoRevival, Unlinks, Raises
<1>6. (\A nets : LinkRoot \in Seq(WithinNets(nets))) /\ \A a : LinkRoot \in Seq(KeepsAnchor(a))
  BY <1>2, <1>3, <1>4 DEF WithinNets, KeepsAnchor, Lowers
<1>7. Commanded(LinkRoot, 4) /\ Commanded(LinkRoot, 6) /\ Paired(LinkRoot)
  <2>1. /\ 1 \in 1..Len(LinkRoot) /\ 2 \in 1..Len(LinkRoot) /\ 2 \in (1 + 1)..Len(LinkRoot)
        /\ \A j \in (1 + 1)..Len(LinkRoot) : j = 2
        /\ \A j \in (2 + 1)..Len(LinkRoot) : FALSE
        /\ \A i \in 1..Len(LinkRoot) : i = 1 \/ i = 2
    BY <1>4
  <2> QED
    BY <1>3, <1>4, <2>1 DEF Commanded, Unlinks, Paired
<1> QED
  BY <1>5, <1>6, <1>7

\* Where IPv4 is linked nothing is installed again, and IPv6 is linked as well.
LEMMA EnsureFacts ==
    ASSUME todo = <<>>, LinksPair
    PROVE  /\ EnsureInstalled \in Seq(Cmds) /\ EnsureInstalled \in Seq(NoRevival)
           /\ \A nets : EnsureInstalled \in Seq(WithinNets(nets))
           /\ Paired(EnsureInstalled)
           /\ \/ EnsureInstalled = <<>> /\ 4 \in linked /\ 6 \in linked
              \/ /\ 4 \notin linked /\ Commanded(EnsureInstalled, 4) /\ Commanded(EnsureInstalled, 6)
                 /\ HasOp(EnsureInstalled, {"wipe"})
<1>1. CASE 4 \in linked
  <2>1. 6 \in linked
    BY <1>1 DEF LinksPair
  <2>2. EnsureInstalled = <<>>
    BY <1>1 DEF EnsureInstalled, IsInstalled
  <2>3. Paired(<<>>)
    BY DEF Paired
  <2> QED
    BY <1>1, <2>1, <2>2, <2>3
<1>2. CASE 4 \notin linked
  <2>1. EnsureInstalled = Install
    BY <1>2 DEF EnsureInstalled, IsInstalled
  <2> QED
    BY <1>2, <2>1, InstallFacts
<1> QED
  BY <1>1, <1>2

\* After the program both families are linked.
Links(s) == (Both \subseteq linked /\ s \in Seq(KeepsLinks)) \/ (Commanded(s, 4) /\ Commanded(s, 6))

LEMMA NetsMonotone ==
    ASSUME NEW small, NEW large, small \subseteq large, NEW s \in Seq(WithinNets(small))
    PROVE  s \in Seq(WithinNets(large))
<1>1. WithinNets(small) \subseteq WithinNets(large)
  BY DEF WithinNets
<1> QED
  BY <1>1

\* ensureInstalled() before commands that unlink nothing.
LEMMA EnsureThen ==
    ASSUME todo = <<>>, LinksPair, NEW r \in Seq(KeepsLinks), Paired(r), r # <<>>,
           NEW nets, r \in Seq(WithinNets(nets))
    PROVE  /\ EnsureInstalled \o r \in Seq(Cmds) /\ EnsureInstalled \o r # <<>>
           /\ Paired(EnsureInstalled \o r) /\ Links(EnsureInstalled \o r)
           /\ EnsureInstalled \o r \in Seq(WithinNets(nets))
           /\ r \in Seq(NoRevival) => EnsureInstalled \o r \in Seq(NoRevival)
           /\ HasOp(r, {"allowNets"}) => HasOp(EnsureInstalled \o r, {"allowNets", "wipe"})
           /\ 4 \in linked => EnsureInstalled \o r = r
           /\ \A a, f : r \in Seq(KeepsAnchor(a)) /\ RaisedIn(r, a, f) => Raised(EnsureInstalled \o r, a, f)
<1> DEFINE e == EnsureInstalled
<1>1. /\ e \in Seq(Cmds) /\ e \in Seq(NoRevival) /\ e \in Seq(WithinNets(nets)) /\ Paired(e)
      /\ \/ e = <<>> /\ 4 \in linked /\ 6 \in linked
         \/ 4 \notin linked /\ Commanded(e, 4) /\ Commanded(e, 6)
  BY EnsureFacts
<1>2. r \in Seq(Cmds)
  BY SeqCmds
<1> HIDE DEF e
<1>3. e \o r \in Seq(Cmds) /\ e \o r # <<>> /\ e \o r \in Seq(WithinNets(nets))
  BY <1>1, <1>2
<1>4. r \in Seq(NoRevival) => e \o r \in Seq(NoRevival)
  BY <1>1
<1>5. Paired(e \o r)
  BY <1>1, <1>2, ConcatPaired
<1>6. HasOp(r, {"allowNets"}) => HasOp(e \o r, {"allowNets", "wipe"})
  <2>1. HasOp(r, {"allowNets"}) => HasOp(r, {"allowNets", "wipe"})
    BY DEF HasOp
  <2> QED
    BY <1>1, <1>2, <2>1, ConcatHas
<1>7. 4 \in linked => e \o r = r
  BY <1>1
<1>8. Links(e \o r)
  <2>1. CASE e = <<>> /\ 4 \in linked /\ 6 \in linked
    BY <1>7, <2>1 DEF Links, Both
  <2>2. CASE Commanded(e, 4) /\ Commanded(e, 6)
    BY <1>1, <1>2, <2>2, ConcatCommanded DEF Links
  <2> QED
    BY <1>1, <2>1, <2>2
<1>9. \A a, f : r \in Seq(KeepsAnchor(a)) /\ RaisedIn(r, a, f) => Raised(e \o r, a, f)
  BY <1>1, ConcatRaised
<1> QED
  BY <1>3, <1>4, <1>5, <1>6, <1>7, <1>8, <1>9 DEF e

-----------------------------------------------------------------------------
\* A CASE with a true guard has its value.  The translation for the SMT solver infers no
\* types for a step that may use a CASE expression; for the large records of these
\* steps, inferring them would take it longer than it is given.
LEMMA Untyped == (CASE TRUE -> 0) = 0
  OBVIOUS
USE Untyped

(* A handler starts.                                                       *)
LEMMA StartKeeps ==
    ASSUME IInv, todo = <<>>, NEW P \in Seq(Cmds), NEW kept \in Configs \cup {None}, NEW revived \in SUBSET Hosts,
           NEW g \in Goals,
           Start(P, kept, revived, g), P # <<>>, up' = TRUE, strict' \in BOOLEAN, allowedRanges' \subseteq Gateways,
           Paired(P), P \in Seq(WithinNets(g.grant)),
           P \in Seq(NoRevival) \/ allowNets \subseteq revived,
           HasOp(P, {"allowNets", "wipe"}) \/ Off110(P) \/ (P \in Seq(NoRevival) /\ granted \subseteq g.grant),
           shielded /\ g.shield => /\ P \in Seq(KeepsLinks)
                                   /\ P \in Seq(KeepsAnchor("100.blockAll")) /\ P \in Seq(KeepsAnchor("250.blockIPv6")),
           g.shield => /\ Links(P)
                       /\ shielded \/ (Raised(P, "100.blockAll", 4) /\ Raised(P, "250.blockIPv6", 6)),
           strict' => Links(P) /\ Closed(g.shield, g.arm),
           g.opens => P[Len(P)].op = "wipe"
    PROVE  IInv'
<1>1. /\ todo' = P /\ goal' = g /\ armed' = kept /\ shielded' = (shielded /\ g.shield)
      /\ granted' = granted \cup g.grant \cup revived
      /\ UNCHANGED <<linked, enabled, allowNets, blockNets, dnsServers>>
  BY DEF Start, firewall
<1>2. g.shield \in BOOLEAN /\ g.grant \subseteq Hosts
  BY DEF Goals
<1>3. TypeOK'
  <2>1. shielded' \in BOOLEAN /\ granted' \subseteq Hosts
    BY <1>1, <1>2 DEF IInv, TypeOK
  <2> QED
    BY <1>1, <2>1 DEF IInv, TypeOK
<1>4. Links(P) => WillLink(4)' /\ WillLink(6)'
  BY <1>1 DEF Links, WillLink, Both
<1>5. LinksPair'
  <2>1. 4 \in linked => 6 \in linked
    BY DEF IInv, LinksPair
  <2> QED
    BY <1>1, <1>4, <2>1 DEF LinksPair, Paired
<1>6. SettlesNets'
  <2>1. CASE HasOp(P, {"allowNets", "wipe"})
    BY <1>1, <2>1 DEF SettlesNets, HasOp
  <2>2. CASE Off110(P)
    BY <1>1, <2>2 DEF SettlesNets
  <2>3. CASE P \in Seq(NoRevival) /\ granted \subseteq g.grant
    BY <1>1, <2>3 DEF SettlesNets, IInv, NetsGranted
  <2> QED
    BY <2>1, <2>2, <2>3
<1>7. NetsGranted'
  BY <1>1, <1>6 DEF IInv, NetsGranted
<1>8. ShieldStays'
  <2>1. g.shield /\ ~shielded => WillRaise("100.blockAll", 4)' /\ WillRaise("250.blockIPv6", 6)'
    BY <1>1 DEF WillRaise
  <2>2. g.shield /\ shielded => WillRaise("100.blockAll", 4)' /\ WillRaise("250.blockIPv6", 6)'
    BY <1>1 DEF WillRaise, IInv, ShieldStays
  <2> QED
    BY <1>1, <1>4, <2>1, <2>2 DEF IInv, ShieldStays
<1> QED
  BY <1>1, <1>3, <1>5, <1>7, <1>8 DEF IInv

LEMMA AnchorsAndFamilies ==
    /\ {"000.allowLoopback", "100.blockAll", "110.allowNets", "120.blockNets", "200.allowVPN", "250.blockIPv6",
        "290.allowDHCP", "300.allowLAN", "310.blockDNS", "320.allowDNS", "400.allowPIA"} \subseteq AnchorNames
    /\ IPv4 \in SUBSET Both /\ IPv6 \in SUBSET Both /\ Both \in SUBSET Both
  BY DEF AnchorNames, Anchors, RootChain, IPv4, IPv6, Both

\* What disableAllTraffic() executes once the chains are there.
BlockProgram == <<SetAnchorEnabled(Both, "100.blockAll", TRUE), SetAnchorEnabled(Both, "000.allowLoopback", TRUE),
                  SetAnchorEnabled(IPv6, "250.blockIPv6", TRUE)>>

LEMMA BlockProgramFacts ==
    /\ BlockProgram \in Seq(ArmCmds(TRUE, {})) /\ BlockProgram \in Seq(NoRevival) /\ BlockProgram # <<>>
    /\ RaisedIn(BlockProgram, "100.blockAll", 4) /\ RaisedIn(BlockProgram, "250.blockIPv6", 6)
<1> DEFINE c1 == SetAnchorEnabled(Both, "100.blockAll", TRUE)
           c2 == SetAnchorEnabled(Both, "000.allowLoopback", TRUE)
           c3 == SetAnchorEnabled(IPv6, "250.blockIPv6", TRUE)
           S == ArmCmds(TRUE, {})
<1>1. c1 \in S /\ c2 \in S /\ c3 \in S /\ c1 \in NoRevival /\ c2 \in NoRevival /\ c3 \in NoRevival
  BY AnchorsAndFamilies, AnchorCmd
<1>2. Raises(c1, "100.blockAll", 4) /\ Raises(c3, "250.blockIPv6", 6)
  BY AnchorsAndFamilies, AnchorCmd DEF Both, IPv6
<1>3. BlockProgram = <<c1, c2, c3>>
  BY DEF BlockProgram
<1> HIDE DEF c1, c2, c3, S
<1>4. BlockProgram \in Seq(S) /\ BlockProgram \in Seq(NoRevival)
  BY <1>1, <1>3
<1>5. Len(BlockProgram) = 3 /\ BlockProgram[1] = c1 /\ BlockProgram[3] = c3
  BY <1>3
<1>6. 1 \in 1..Len(BlockProgram) /\ 3 \in 1..Len(BlockProgram) /\ BlockProgram # <<>>
  BY <1>5
<1> QED
  BY <1>2, <1>4, <1>5, <1>6, Zenon DEF RaisedIn, S

\* The switches of disableKillSwitch().
SwitchProgram(keepBlocked) ==
    << SetAnchorEnabled(Both, "000.allowLoopback", TRUE),
       SetAnchorEnabled(Both, "100.blockAll", keepBlocked),
       SetAnchorEnabled(IPv4, "110.allowNets", FALSE),
       SetAnchorEnabled(IPv4, "120.blockNets", FALSE),
       SetAnchorEnabled(IPv4, "200.allowVPN", FALSE),
       SetAnchorEnabled(IPv6, "250.blockIPv6", keepBlocked),
       SetAnchorEnabled(Both, "290.allowDHCP", ~keepBlocked),
       SetAnchorEnabled(Both, "300.allowLAN", ~keepBlocked),
       SetAnchorEnabled(IPv4, "310.blockDNS", FALSE),
       SetAnchorEnabled(IPv4, "320.allowDNS", ~keepBlocked),
       SetAnchorEnabled(Both, "400.allowPIA", FALSE) >>

LEMMA SwitchProgramFacts ==
    ASSUME NEW keepBlocked \in BOOLEAN
    PROVE  /\ SwitchProgram(keepBlocked) \in Seq(NoRevival) /\ SwitchProgram(keepBlocked) \in Seq(Unlinking)
           /\ SwitchProgram(keepBlocked) \in Seq(WithinNets({})) /\ SwitchProgram(keepBlocked) # <<>>
           /\ Off110(SwitchProgram(keepBlocked))
           /\ keepBlocked => /\ SwitchProgram(keepBlocked) \in Seq(ArmCmds(TRUE, {}))
                             /\ RaisedIn(SwitchProgram(keepBlocked), "100.blockAll", 4)
                             /\ RaisedIn(SwitchProgram(keepBlocked), "250.blockIPv6", 6)
<1> DEFINE c1 == SetAnchorEnabled(Both, "000.allowLoopback", TRUE)
           c2 == SetAnchorEnabled(Both, "100.blockAll", keepBlocked)
           c3 == SetAnchorEnabled(IPv4, "110.allowNets", FALSE)
           c4 == SetAnchorEnabled(IPv4, "120.blockNets", FALSE)
           c5 == SetAnchorEnabled(IPv4, "200.allowVPN", FALSE)
           c6 == SetAnchorEnabled(IPv6, "250.blockIPv6", keepBlocked)
           c7 == SetAnchorEnabled(Both, "290.allowDHCP", ~keepBlocked)
           c8 == SetAnchorEnabled(Both, "300.allowLAN", ~keepBlocked)
           c9 == SetAnchorEnabled(IPv4, "310.blockDNS", FALSE)
           c10 == SetAnchorEnabled(IPv4, "320.allowDNS", ~keepBlocked)
           c11 == SetAnchorEnabled(Both, "400.allowPIA", FALSE)
           C == {c1, c2, c3, c4, c5, c6, c7, c8, c9, c10, c11}
           P == SwitchProgram(keepBlocked)
<1>1. (~keepBlocked) \in BOOLEAN
  OBVIOUS
<1>2. C \subseteq NoRevival
  <2>1. /\ c1 \in NoRevival /\ c2 \in NoRevival /\ c3 \in NoRevival /\ c4 \in NoRevival
        /\ c5 \in NoRevival /\ c6 \in NoRevival /\ c7 \in NoRevival /\ c8 \in NoRevival
        /\ c9 \in NoRevival /\ c10 \in NoRevival /\ c11 \in NoRevival
    BY <1>1, AnchorsAndFamilies, AnchorCmd
  <2> HIDE DEF c1, c2, c3, c4, c5, c6, c7, c8, c9, c10, c11
  <2> QED
    BY <2>1
<1>3. C \subseteq Unlinking /\ C \subseteq WithinNets({})
  <2>1. C \subseteq Cmds
    BY <1>2 DEF NoRevival
  <2>2. \A c \in C : c.op = "anchor"
    <3>1. /\ c1.op = "anchor" /\ c2.op = "anchor" /\ c3.op = "anchor" /\ c4.op = "anchor" /\ c5.op = "anchor"
          /\ c6.op = "anchor" /\ c7.op = "anchor" /\ c8.op = "anchor" /\ c9.op = "anchor" /\ c10.op = "anchor"
          /\ c11.op = "anchor"
      BY DEF SetAnchorEnabled
    <3> HIDE DEF c1, c2, c3, c4, c5, c6, c7, c8, c9, c10, c11
    <3> QED
      BY <3>1
  <2> HIDE DEF C
  <2> QED
    BY <2>1, <2>2 DEF Unlinking, WithinNets
<1>4. ASSUME keepBlocked PROVE C \subseteq ArmCmds(TRUE, {})
  <2> DEFINE S == ArmCmds(TRUE, {})
  <2>1. c2 \in S /\ c6 \in S
    BY <1>4, AnchorsAndFamilies, AnchorCmd
  <2>2. /\ c1 \in S /\ c3 \in S /\ c4 \in S /\ c5 \in S /\ c7 \in S /\ c8 \in S /\ c9 \in S /\ c10 \in S
        /\ c11 \in S
    BY <1>1, AnchorsAndFamilies, AnchorCmd
  <2> HIDE DEF c1, c2, c3, c4, c5, c6, c7, c8, c9, c10, c11, S
  <2>3. C \subseteq S
    BY <2>1, <2>2
  <2> QED
    BY <2>3 DEF S
<1>5. /\ Off(c3, "110.allowNets", 4)
      /\ keepBlocked => Raises(c2, "100.blockAll", 4) /\ Raises(c6, "250.blockIPv6", 6)
  BY AnchorsAndFamilies, AnchorCmd DEF IPv4, IPv6, Both
<1>6. P = <<c1, c2, c3, c4, c5, c6, c7, c8, c9, c10, c11>>
  BY DEF SwitchProgram
<1>7. c1 \in C /\ c2 \in C /\ c3 \in C /\ c4 \in C /\ c5 \in C /\ c6 \in C /\ c7 \in C /\ c8 \in C /\ c9 \in C
      /\ c10 \in C /\ c11 \in C
  OBVIOUS
<1> HIDE DEF c1, c2, c3, c4, c5, c6, c7, c8, c9, c10, c11, C
<1>8. P \in Seq(C) /\ Len(P) = 11 /\ P[2] = c2 /\ P[3] = c3 /\ P[6] = c6
  BY <1>6, <1>7
<1> HIDE DEF P
<1>9. ASSUME NEW R, C \subseteq R PROVE P \in Seq(R)
  BY <1>8, <1>9
<1>10. P \in Seq(NoRevival) /\ P \in Seq(Unlinking) /\ P \in Seq(WithinNets({}))
  BY <1>2, <1>3, <1>9, Zenon
<1>11. keepBlocked => P \in Seq(ArmCmds(TRUE, {}))
  BY <1>4, <1>9, Zenon
<1>12. 2 \in 1..Len(P) /\ 3 \in 1..Len(P) /\ 6 \in 1..Len(P) /\ P # <<>>
  BY <1>8
<1>13. Off110(P)
  <2>1. \A j \in (3 + 1)..Len(P) : ~Raises(P[j], "110.allowNets", 4)
    <3> TAKE j \in (3 + 1)..Len(P)
    <3>1. j \in 1..Len(P)
      BY <1>8
    <3>2. P[j] \in NoRevival
      BY <1>10, <3>1, ElementOf
    <3> QED
      BY <3>2 DEF NoRevival
  <2> QED
    BY <1>5, <1>8, <1>12, <2>1, Zenon DEF Off110
<1>14. keepBlocked => RaisedIn(P, "100.blockAll", 4) /\ RaisedIn(P, "250.blockIPv6", 6)
  BY <1>5, <1>8, <1>12, Zenon DEF RaisedIn
<1> QED
  BY <1>10, <1>11, <1>12, <1>13, <1>14 DEF P

\* resetAllowedRange() replaces the rules of 110.allowNets.
LEMMA ResetFacts ==
    ASSUME NEW nets \in SUBSET Hosts
    PROVE  /\ ResetAllowedRangeProgram(nets) \in Seq(ArmCmds(TRUE, nets)) /\ ResetAllowedRangeProgram(nets) # <<>>
           /\ HasOp(ResetAllowedRangeProgram(nets), {"allowNets"})
<1> DEFINE c == SetAnchorEnabled(IPv4, "110.allowNets", TRUE)
           u == UpdateAllowNets(nets)
           S == ArmCmds(TRUE, nets)
<1>1. c \in S
  BY AnchorsAndFamilies, AnchorCmd
<1>2. u \in Seq(S) /\ HasOp(u, {"allowNets"})
  BY NetsCmds
<1>3. ResetAllowedRangeProgram(nets) = <<c>> \o u
  BY DEF ResetAllowedRangeProgram
<1>4. Seq(S) \subseteq Seq(Cmds)
  BY ArmCmdsKeep
<1> HIDE DEF c, u, S
<1>5. <<c>> \in Seq(S)
  BY <1>1
<1>6. HasOp(<<c>> \o u, {"allowNets"})
  BY <1>2, <1>4, <1>5, ConcatHas
<1>7. <<c>> \o u \in Seq(S) /\ <<c>> \o u # <<>>
  BY <1>2, <1>5
<1> QED
  BY <1>3, <1>6, <1>7 DEF S

-----------------------------------------------------------------------------
(* One lemma per handler.                                                  *)
LEMMA IdleFacts ==
    ASSUME IInv, todo = <<>>
    PROVE  /\ LinksPair /\ (shielded => Both \subseteq linked)
           /\ up /\ strict => Both \subseteq linked /\ Closed(shielded, armed)
           /\ shielded \in BOOLEAN /\ strict \in BOOLEAN /\ up \in BOOLEAN
           /\ armed \in Configs \cup {None} /\ granted \in SUBSET Hosts /\ allowNets \in SUBSET Hosts
           /\ allowedRanges \subseteq Gateways
<1>1. \A f : ~Commanded(<<>>, f)
  BY DEF Commanded
<1>2. up /\ strict => Both \subseteq linked
  BY <1>1 DEF IInv, LinksPair, WillLink, Both
<1> QED
  BY <1>2 DEF IInv, ShieldStays, TypeOK

LEMMA RaisedWhere ==
    ASSUME NEW a, NEW f, NEW s \in Seq(KeepsAnchor(a)), RaisedIn(s, a, f)
    PROVE  Raised(s, a, f)
<1>1. \A j \in 1..Len(s) : ~Lowers(s[j], a)
  BY ElementOf DEF KeepsAnchor
<1>2. PICK i \in 1..Len(s) : Raises(s[i], a, f)
  BY DEF RaisedIn
<1>3. \A j \in (i + 1)..Len(s) : j \in 1..Len(s)
  OBVIOUS
<1> QED
  BY <1>1, <1>2, <1>3, Zenon DEF Raised

LEMMA DisableAllTrafficKeeps ==
    ASSUME IInv, todo = <<>>, DisableAllTraffic, up' = TRUE, strict' \in BOOLEAN
    PROVE  IInv'
<1> DEFINE P == DisableAllTrafficProgram
           g == [arm |-> armed, shield |-> TRUE, grant |-> granted, opens |-> FALSE]
<1>1. /\ BlockProgram \in Seq(Cmds) /\ BlockProgram \in Seq(KeepsLinks) /\ BlockProgram \in Seq(Unlinking)
      /\ BlockProgram \in Seq(WithinNets({})) /\ BlockProgram \in Seq(KeepsAnchor("250.blockIPv6"))
      /\ BlockProgram \in Seq(KeepsAnchor("100.blockAll"))
  BY BlockProgramFacts, ArmCmdsKeep
<1>2. BlockProgram \in Seq(WithinNets(granted)) /\ Paired(BlockProgram)
  BY <1>1, NetsMonotone, UnlinkingPaired
<1>3. P = EnsureInstalled \o BlockProgram
  BY DEF DisableAllTrafficProgram, BlockProgram
<1>4. /\ P \in Seq(Cmds) /\ P # <<>> /\ Paired(P) /\ Links(P) /\ P \in Seq(WithinNets(granted)) /\ P \in Seq(NoRevival)
      /\ 4 \in linked => P = BlockProgram
      /\ Raised(P, "100.blockAll", 4) /\ Raised(P, "250.blockIPv6", 6)
  BY <1>1, <1>2, <1>3, EnsureThen, BlockProgramFacts, IdleFacts
<1>5. Start(P, armed, {}, g) /\ allowedRanges' \subseteq Gateways
  BY DEF DisableAllTraffic
<1>6. g \in Goals /\ g.shield = TRUE /\ g.grant = granted /\ g.opens = FALSE /\ {} \in SUBSET Hosts
  BY IdleFacts DEF Goals
<1>7. shielded => 4 \in linked
  BY IdleFacts DEF Both
<1>8. Closed(TRUE, g.arm)
  BY DEF Closed
<1> HIDE DEF P, g
<1> QED
  BY <1>1, <1>4, <1>5, <1>6, <1>7, <1>8, IdleFacts, StartKeeps

LEMMA ConcatAt ==
    ASSUME NEW s \in Seq(Cmds), NEW t \in Seq(Cmds), NEW k \in 1..Len(t)
    PROVE  /\ Len(s \o t) = Len(s) + Len(t)
           /\ (s \o t)[Len(s) + k] = t[k] /\ Len(s) + k \in 1..Len(s \o t)
  BY Concat

LEMMA DisableKillSwitchKeeps ==
    ASSUME IInv, todo = <<>>, up, up' = TRUE, NEW keepBlocked \in BOOLEAN, DisableKillSwitch(keepBlocked),
           strict' = keepBlocked, keepBlocked => strict
    PROVE  IInv'
<1> DEFINE P == DisableKillSwitchProgram(keepBlocked)
           D == SwitchProgram(keepBlocked)
           g == [arm |-> None, shield |-> keepBlocked, grant |-> {}, opens |-> ~keepBlocked]
<1>1. /\ D \in Seq(NoRevival) /\ D \in Seq(Unlinking) /\ D \in Seq(WithinNets({})) /\ D # <<>> /\ Off110(D)
      /\ D \in Seq(Cmds)
  BY SwitchProgramFacts, SeqCmds
<1>2. Start(P, None, {}, g) /\ allowedRanges' \subseteq Gateways
  BY DEF DisableKillSwitch
<1>3. g \in Goals /\ g.shield = keepBlocked /\ g.grant = {} /\ g.opens = ~keepBlocked /\ {} \in SUBSET Hosts
  <2>1. (~keepBlocked) \in BOOLEAN
    OBVIOUS
  <2> QED
    BY <2>1 DEF Goals
<1>4. P = D \o (IF keepBlocked THEN <<>> ELSE Uninstall)
  BY DEF DisableKillSwitchProgram, SwitchProgram
<1>5. CASE keepBlocked
  <2>1. P = D
    BY <1>1, <1>4, <1>5
  <2>2. /\ D \in Seq(KeepsLinks) /\ D \in Seq(KeepsAnchor("100.blockAll")) /\ D \in Seq(KeepsAnchor("250.blockIPv6"))
    BY <1>5, SwitchProgramFacts, ArmCmdsKeep
  <2>3. Raised(D, "100.blockAll", 4) /\ Raised(D, "250.blockIPv6", 6)
    BY <1>5, <2>2, SwitchProgramFacts, RaisedWhere
  <2>4. Links(D) /\ Paired(D)
    BY <1>1, <1>5, <2>2, IdleFacts, UnlinkingPaired DEF Links
  <2>5. Closed(g.shield, g.arm)
    BY <1>3, <1>5 DEF Closed
  <2> HIDE DEF P, D, g
  <2> QED
    BY <1>1, <1>2, <1>3, <1>5, <2>1, <2>2, <2>3, <2>4, <2>5, StartKeeps
<1>6. CASE ~keepBlocked
  <2> DEFINE c1 == [op |-> "unlink", fam |-> 4]
             c2 == [op |-> "wipe"]
  <2>1. Uninstall = <<c1, c2>>
    BY DEF Uninstall
  <2>2. /\ c1 \in Cmds /\ c2 \in Cmds /\ c1.op = "unlink" /\ c2.op = "wipe"
    BY DEF Cmds, IPv4
  <2>3. c1 \in NoRevival /\ c2 \in NoRevival /\ c1 \in Unlinking /\ c2 \in Unlinking
        /\ c1 \in WithinNets({}) /\ c2 \in WithinNets({})
    BY <2>2 DEF NoRevival, Unlinking, WithinNets, Raises
  <2> HIDE DEF c1, c2
  <2>4. Uninstall \in Seq(Cmds) /\ Uninstall \in Seq(NoRevival) /\ Uninstall \in Seq(Unlinking)
        /\ Uninstall \in Seq(WithinNets({})) /\ Len(Uninstall) = 2 /\ Uninstall[2] = c2
    BY <2>1, <2>2, <2>3
  <2>5. P = D \o Uninstall
    BY <1>4, <1>6
  <2> HIDE DEF D
  <2>6. P \in Seq(Cmds) /\ P \in Seq(NoRevival) /\ P \in Seq(Unlinking) /\ P \in Seq(WithinNets({})) /\ P # <<>>
    BY <1>1, <2>4, <2>5, Concat
  <2>7. Len(P) = Len(D) + 2 /\ P[Len(D) + 2] = c2 /\ Len(D) + 2 \in 1..Len(P)
    <3>1. D \in Seq(Cmds) /\ Uninstall \in Seq(Cmds) /\ Len(Uninstall) = 2 /\ Uninstall[2] = c2
      BY <1>1, <2>4
    <3>2. 2 \in 1..Len(Uninstall)
      BY <3>1
    <3> HIDE DEF P
    <3>3. Len(P) = Len(D) + Len(Uninstall) /\ P[Len(D) + 2] = Uninstall[2] /\ Len(D) + 2 \in 1..Len(P)
      BY <2>5, <3>1, <3>2, ConcatAt, Zenon
    <3> QED
      BY <3>1, <3>3
  <2>8. Paired(P) /\ HasOp(P, {"allowNets", "wipe"})
    BY <2>2, <2>6, <2>7, UnlinkingPaired DEF HasOp
  <2> HIDE DEF P, g
  <2> QED
    BY <1>2, <1>3, <1>6, <2>2, <2>6, <2>7, <2>8, StartKeeps
<1> QED
  BY <1>5, <1>6

LEMMA AddAllowedRangeKeeps ==
    ASSUME IInv, NEW h \in Gateways, AddAllowedRange(h)
    PROVE  IInv'
<1> DEFINE r == allowedRanges \cup {h}
           P == ResetAllowedRangeProgram(r)
           g == [arm |-> armed, shield |-> shielded, grant |-> r, opens |-> FALSE]
<1>1. /\ todo = <<>> /\ up /\ strict /\ strict' = strict /\ up' = up /\ allowedRanges' = r
      /\ Start(P, armed, allowNets, g)
  BY DEF AddAllowedRange, Idle
<1>2. r \subseteq Gateways /\ r \in SUBSET Hosts
  BY <1>1, IdleFacts, HostsAssumption
<1>3. /\ P \in Seq(Cmds) /\ P \in Seq(KeepsLinks) /\ P \in Seq(Unlinking) /\ P \in Seq(WithinNets(r))
      /\ P \in Seq(KeepsAnchor("250.blockIPv6")) /\ P \in Seq(KeepsAnchor("100.blockAll"))
  BY <1>2, ResetFacts, ArmCmdsKeep
<1>4. P # <<>> /\ HasOp(P, {"allowNets", "wipe"})
  BY <1>2, ResetFacts DEF HasOp
<1>5. g \in Goals /\ g.shield = shielded /\ g.grant = r /\ g.opens = FALSE /\ g.arm = armed
  BY <1>1, <1>2, IdleFacts DEF Goals
<1> HIDE DEF P, g
<1>6. Links(P) /\ Paired(P) /\ Closed(g.shield, g.arm)
  BY <1>1, <1>3, <1>5, IdleFacts, UnlinkingPaired DEF Links
<1>7. up' = TRUE /\ strict' \in BOOLEAN
  BY <1>1, IdleFacts
<1> HIDE DEF r
<1> QED
  BY <1>1, <1>2, <1>3, <1>4, <1>5, <1>6, <1>7, IdleFacts, StartKeeps

LEMMA ConfigFacts ==
    ASSUME NEW cfg \in Configs
    PROVE  /\ cfg # None /\ Full(cfg) \in BOOLEAN /\ Outside(cfg) \in SUBSET Hosts
           /\ ExcludedSites(cfg) \in SUBSET Hosts /\ TunnelledSites(cfg) \in SUBSET Hosts
           /\ ExcludedAddresses(cfg) \in SUBSET Hosts /\ {cfg.server} \cup ExcludedSites(cfg) \in SUBSET Hosts
           /\ cfg.dns \in SUBSET Hosts /\ cfg.dns \cup cfg.allowedDns \in SUBSET Hosts
<1>1. /\ cfg.server \in Hosts /\ cfg.sites \in SUBSET Hosts /\ cfg.local \in SUBSET Hosts /\ cfg.dns \in SUBSET Hosts
      /\ cfg.allowedDns \in SUBSET Hosts /\ cfg # None
  BY ConfigsAssumption
<1> QED
  BY <1>1 DEF Full, Outside, ExcludedSites, TunnelledSites, ExcludedAddresses

\* The commands of Enable after ensureInstalled().
LEMMA EnableTail ==
    ASSUME NEW cfg \in Configs
    PROVE  \E r : /\ EnableProgram(cfg) = EnsureInstalled \o r
                  /\ r \in Seq(KeepsLinks) /\ r \in Seq(WithinNets(Outside(cfg))) /\ Paired(r) /\ r # <<>>
                  /\ HasOp(r, {"allowNets"})
                  /\ r \in Seq(KeepsAnchor("250.blockIPv6")) /\ RaisedIn(r, "250.blockIPv6", 6)
                  /\ Full(cfg) => r \in Seq(KeepsAnchor("100.blockAll")) /\ RaisedIn(r, "100.blockAll", 4)
<1> DEFINE xallow == IF Full(cfg) THEN {cfg.server} \cup ExcludedSites(cfg) ELSE {}
           x == ArmProgram(Full(cfg), IPv4, Full(cfg), xallow, Full(cfg), TunnelledSites(cfg), cfg.dns \cup cfg.allowedDns)
           w == ArmProgram(Full(cfg), Both, TRUE, ExcludedAddresses(cfg), ~Full(cfg), TunnelledSites(cfg), cfg.dns)
<1>1. (~Full(cfg)) \in BOOLEAN /\ xallow \in SUBSET Hosts
  BY ConfigFacts
<1>2. CASE cfg.kind = "xray"
  <2>1. xallow \subseteq Outside(cfg)
    BY <1>2 DEF Outside
  <2>2. EnableProgram(cfg) = EnsureInstalled \o x
    BY <1>2 DEF EnableProgram, EnableKillSwitchProgram
  <2> HIDE DEF xallow
  <2>3. /\ x \in Seq(ArmCmds(Full(cfg), xallow)) /\ HasOp(x, {"allowNets"})
        /\ Full(cfg) => RaisedIn(x, "100.blockAll", 4)
        /\ RaisedIn(x, "250.blockIPv6", 6)
    BY <1>1, ConfigFacts, AnchorsAndFamilies, ArmProgramFacts
  <2> HIDE DEF x
  <2>4. /\ x \in Seq(KeepsLinks) /\ x \in Seq(Unlinking) /\ x \in Seq(WithinNets(xallow))
        /\ x \in Seq(KeepsAnchor("250.blockIPv6"))
        /\ Full(cfg) => x \in Seq(KeepsAnchor("100.blockAll"))
    BY <2>3, ArmCmdsKeep
  <2>5. x \in Seq(WithinNets(Outside(cfg))) /\ Paired(x)
    BY <2>1, <2>4, NetsMonotone, UnlinkingPaired
  <2>6. x # <<>>
    BY <2>3 DEF HasOp
  <2> QED
    BY <2>2, <2>3, <2>4, <2>5, <2>6
<1>3. CASE cfg.kind # "xray"
  <2>1. ExcludedAddresses(cfg) = Outside(cfg)
    <3>1. cfg.kind = "wg"
      BY <1>3, ConfigsAssumption
    <3> QED
      BY <3>1 DEF Outside
  <2>2. EnableProgram(cfg) = (EnsureInstalled \o LinkRoot) \o w
    BY <1>3 DEF EnableProgram, ApplyFirewallRulesProgram
  <2>3. /\ w \in Seq(ArmCmds(Full(cfg), ExcludedAddresses(cfg))) /\ HasOp(w, {"allowNets"})
        /\ Full(cfg) => RaisedIn(w, "100.blockAll", 4)
        /\ RaisedIn(w, "250.blockIPv6", 6)
    BY <1>1, ConfigFacts, AnchorsAndFamilies, ArmProgramFacts
  <2> HIDE DEF w
  <2>4. /\ w \in Seq(KeepsLinks) /\ w \in Seq(Unlinking) /\ w \in Seq(WithinNets(Outside(cfg)))
        /\ w \in Seq(KeepsAnchor("250.blockIPv6")) /\ w \in Seq(Cmds)
        /\ Full(cfg) => w \in Seq(KeepsAnchor("100.blockAll"))
    BY <2>1, <2>3, ArmCmdsKeep
  <2> DEFINE r == LinkRoot \o w
  <2>5. EnsureInstalled \in Seq(Cmds)
    <3>1. <<>> \in Seq(Cmds)
      OBVIOUS
    <3> QED
      BY <3>1, InstallFacts DEF EnsureInstalled
  <2>6. EnableProgram(cfg) = EnsureInstalled \o r
    BY <2>2, <2>4, <2>5, LinkRootFacts
  <2>7. /\ r \in Seq(KeepsLinks) /\ r \in Seq(WithinNets(Outside(cfg)))
        /\ r \in Seq(KeepsAnchor("250.blockIPv6"))
        /\ Full(cfg) => r \in Seq(KeepsAnchor("100.blockAll"))
    BY <2>4, LinkRootFacts, Concat
  <2>8. Paired(r)
    BY <2>4, LinkRootFacts, UnlinkingPaired, ConcatPaired
  <2>9. /\ HasOp(r, {"allowNets"}) /\ RaisedIn(r, "250.blockIPv6", 6)
        /\ Full(cfg) => RaisedIn(r, "100.blockAll", 4)
    BY <2>3, <2>4, LinkRootFacts, ConcatHas
  <2> HIDE DEF r
  <2>10. r # <<>>
    BY <2>9 DEF HasOp
  <2> QED
    BY <2>6, <2>7, <2>8, <2>9, <2>10
<1> QED
  BY <1>2, <1>3

LEMMA EnableKeeps ==
    ASSUME IInv, NEW cfg \in Configs, Enable(cfg)
    PROVE  IInv'
<1> DEFINE P == EnableProgram(cfg)
           g == [arm |-> cfg, shield |-> Full(cfg), grant |-> Outside(cfg), opens |-> FALSE]
<1>1. /\ todo = <<>> /\ up /\ strict' = strict /\ up' = up /\ allowedRanges' = allowedRanges
      /\ Start(P, None, allowNets, g)
  BY DEF Enable, Idle
<1>2. PICK r : /\ P = EnsureInstalled \o r
               /\ r \in Seq(KeepsLinks) /\ r \in Seq(WithinNets(Outside(cfg))) /\ Paired(r) /\ r # <<>>
               /\ HasOp(r, {"allowNets"})
               /\ r \in Seq(KeepsAnchor("250.blockIPv6")) /\ RaisedIn(r, "250.blockIPv6", 6)
               /\ Full(cfg) => r \in Seq(KeepsAnchor("100.blockAll")) /\ RaisedIn(r, "100.blockAll", 4)
  BY EnableTail
<1>3. /\ P \in Seq(Cmds) /\ P # <<>> /\ Paired(P) /\ Links(P) /\ P \in Seq(WithinNets(Outside(cfg)))
      /\ HasOp(P, {"allowNets", "wipe"})
      /\ 4 \in linked => P = r
      /\ Raised(P, "250.blockIPv6", 6)
      /\ Full(cfg) => Raised(P, "100.blockAll", 4)
  BY <1>1, <1>2, IdleFacts, EnsureThen
<1>4. g \in Goals /\ g.shield = Full(cfg) /\ g.grant = Outside(cfg) /\ g.opens = FALSE /\ g.arm = cfg
  BY ConfigFacts DEF Goals
<1>5. shielded => 4 \in linked
  BY <1>1, IdleFacts DEF Both
<1> HIDE DEF P, g
<1>6. Closed(g.shield, g.arm)
  BY <1>4, ConfigFacts DEF Closed
<1>7. up' = TRUE /\ strict' \in BOOLEAN /\ allowNets \in SUBSET Hosts /\ allowedRanges' \subseteq Gateways
  BY <1>1, IdleFacts
<1> QED
  BY <1>1, <1>2, <1>3, <1>4, <1>5, <1>6, <1>7, StartKeeps

LEMMA InitServiceKeeps ==
    ASSUME IInv, InitService
    PROVE  IInv'
<1>1. todo = <<>> /\ up' = TRUE /\ strict' = strict /\ strict \in BOOLEAN
  BY DEF InitService, IInv, TypeOK
<1>2. CASE strict
  <2>1. DisableAllTraffic
    BY <1>2 DEF InitService
  <2> QED
    BY <1>1, <2>1, DisableAllTrafficKeeps
<1>3. CASE ~strict
  <2>1. /\ allowedRanges' = {} /\ todo' = todo /\ goal' = goal /\ armed' = armed /\ shielded' = shielded
        /\ granted' = granted
        /\ UNCHANGED <<linked, enabled, allowNets, blockNets, dnsServers>>
    BY <1>3 DEF InitService, firewall, promises
  <2>2. TypeOK'
    BY <1>1, <2>1 DEF IInv, TypeOK
  <2>3. LinksPair'
    BY <1>1, <1>3, <2>1 DEF IInv, LinksPair
  <2>4. NetsGranted' /\ ShieldStays'
    BY <1>1, <2>1 DEF IInv, NetsGranted, ShieldStays
  <2> QED
    BY <1>1, <1>3, <2>1, <2>2, <2>3, <2>4 DEF IInv
<1> QED
  BY <1>1, <1>2, <1>3

LEMMA RefreshKeeps ==
    ASSUME IInv, NEW on \in BOOLEAN, Refresh(on)
    PROVE  IInv'
<1>1. todo = <<>> /\ up /\ up' = TRUE /\ strict' = on
  BY DEF Refresh, Idle, IInv, TypeOK
<1>2. CASE on
  BY <1>1, <1>2, DisableAllTrafficKeeps DEF Refresh
<1>3. CASE ~on
  <2>1. DisableKillSwitch(FALSE) /\ strict' = FALSE
    BY <1>1, <1>3 DEF Refresh
  <2> QED
    BY <1>1, <2>1, DisableKillSwitchKeeps
<1> QED
  BY <1>2, <1>3

LEMMA DisableKeeps ==
    ASSUME IInv, Disable
    PROVE  IInv'
<1>1. todo = <<>> /\ up /\ up' = TRUE /\ strict' = strict /\ strict \in BOOLEAN /\ DisableKillSwitch(strict)
  BY DEF Disable, Idle, IInv, TypeOK
<1> QED
  BY <1>1, DisableKillSwitchKeeps

\* A crash outside install() leaves a table with both families linked.
LEMMA CrashKeeps ==
    ASSUME IInv, Crash, CrashInInstall = FALSE
    PROVE  IInv'
<1>1. /\ up' = FALSE /\ todo' = <<>> /\ allowedRanges' = {} /\ strict' = strict
      /\ goal' = IF todo = <<>> THEN goal ELSE NoGoal
      /\ armed' = armed /\ shielded' = shielded /\ granted' = granted
      /\ UNCHANGED <<linked, enabled, allowNets, blockNets, dnsServers>>
      /\ \A i \in 1..Len(todo) : todo[i].op # "link"
  BY DEF Crash, Installing, firewall, promises
<1>2. NoGoal \in Goals /\ NoGoal.opens = FALSE
  BY DEF NoGoal, Goals
<1>3. goal' \in Goals
  BY <1>1, <1>2 DEF IInv, TypeOK
<1>4. TypeOK'
  BY <1>1, <1>3 DEF IInv, TypeOK
<1>5. LinksPair'
  <2>1. 4 \in linked => 6 \in linked
    BY <1>1 DEF IInv, LinksPair
  <2>2. \A i \in 1..Len(todo') : FALSE
    BY <1>1
  <2> QED
    BY <1>1, <2>1, <2>2 DEF LinksPair
<1>6. NetsGranted'
  BY <1>1, SMTT(30) DEF IInv, NetsGranted
<1>7. ShieldStays'
  BY <1>1 DEF IInv, ShieldStays
<1>8. goal'.opens => linked' = {}
  BY <1>1, <1>2 DEF IInv
<1>9. <<>> \in Seq(Cmds)
  OBVIOUS
<1> QED
  BY <1>1, <1>4, <1>5, <1>6, <1>7, <1>8, <1>9, Zenon DEF IInv

LEMMA RebootKeeps ==
    ASSUME IInv, Reboot
    PROVE  IInv'
<1>1. /\ up' = FALSE /\ todo' = <<>> /\ allowedRanges' = {} /\ goal' = NoGoal /\ linked' = {} /\ enabled' = {}
      /\ allowNets' = {} /\ blockNets' = {} /\ dnsServers' = {} /\ armed' = None /\ shielded' = FALSE
      /\ granted' = {} /\ strict' = strict
  BY DEF Reboot
<1>2. NoGoal \in Goals /\ NoGoal.opens = FALSE
  BY DEF NoGoal, Goals
<1>3. TypeOK'
  BY <1>1, <1>2 DEF IInv, TypeOK
<1>4. LinksPair' /\ NetsGranted' /\ ShieldStays'
  BY <1>1 DEF LinksPair, NetsGranted, ShieldStays
<1>5. <<>> \in Seq(Cmds)
  OBVIOUS
<1> QED
  BY <1>1, <1>2, <1>3, <1>4, <1>5, Zenon DEF IInv

LEMMA InitialIInv == Init => IInv
<1> SUFFICES ASSUME Init PROVE IInv
  OBVIOUS
<1>1. NoGoal \in Goals /\ NoGoal.opens = FALSE
  BY DEF NoGoal, Goals
<1>2. TypeOK
  BY <1>1 DEF Init, TypeOK
<1>3. LinksPair /\ NetsGranted /\ ShieldStays
  BY DEF Init, LinksPair, NetsGranted, ShieldStays
<1> QED
  BY <1>1, <1>2, <1>3 DEF Init, IInv

LEMMA NextKeeps ==
    ASSUME IInv, [Next]_vars, CrashInInstall = FALSE
    PROVE  IInv'
<1>1. CASE UNCHANGED vars
  <2>1. /\ strict' = strict /\ up' = up /\ todo' = todo /\ goal' = goal /\ armed' = armed /\ shielded' = shielded
        /\ granted' = granted /\ allowedRanges' = allowedRanges
        /\ UNCHANGED <<linked, enabled, allowNets, blockNets, dnsServers>>
    BY <1>1 DEF vars, firewall, promises
  <2>2. TypeOK' /\ LinksPair'
    BY <2>1 DEF IInv, TypeOK, LinksPair, WillLink
  <2>3. NetsGranted' /\ ShieldStays'
    BY <2>1 DEF IInv, NetsGranted, SettlesNets, ShieldStays, WillLink, WillRaise
  <2> QED
    BY <2>1, <2>2, <2>3 DEF IInv
<1>2. CASE Step
  BY <1>2, StepKeeps
<1>3. CASE InitService
  BY <1>3, InitServiceKeeps
<1>4. CASE Disable
  BY <1>4, DisableKeeps
<1>5. CASE Crash
  BY <1>5, CrashKeeps
<1>6. CASE Reboot
  BY <1>6, RebootKeeps
<1>7. CASE \E on \in BOOLEAN : Refresh(on)
  BY <1>7, RefreshKeeps
<1>8. CASE \E cfg \in Configs : Enable(cfg)
  BY <1>8, EnableKeeps
<1>9. CASE \E h \in Gateways : AddAllowedRange(h)
  BY <1>9, AddAllowedRangeKeeps
<1> QED
  BY <1>1, <1>2, <1>3, <1>4, <1>5, <1>6, <1>7, <1>8, <1>9 DEF Next

\* The invariant gives each of the properties.
LEMMA InvariantShields == IInv => NoGapInShield
<1> SUFFICES ASSUME IInv, shielded PROVE ShieldUp
  BY ShieldCarries
<1> QED
  BY DEF IInv, ShieldStays, NetsGranted, ShieldUp

LEMMA InvariantBlocks == IInv => StrictBlocks
<1> SUFFICES ASSUME IInv, Idle, strict, armed = None \/ Full(armed),
                    NEW p \in Bypassing, p.dst \notin granted
             PROVE  Rejected(p)
  BY DEF StrictBlocks
<1>1. Closed(shielded, armed)
  BY DEF Idle, IInv
<1>2. shielded
  BY <1>1 DEF Closed
<1> QED
  BY <1>2, InvariantShields DEF NoGapInShield

LEMMA InvariantRestores == IInv => DisableRestores
<1> SUFFICES ASSUME IInv, todo = <<>>, goal.opens, NEW p \in Packets PROVE ~Rejected(p)
  BY DEF DisableRestores
<1>1. linked = {}
  BY DEF IInv
<1> QED
  BY <1>1 DEF Rejected

(* Once a full-tunnel kill switch or the strict block is in place, no      *)
(* packet leaves outside the tunnel but to the hosts granted, between any  *)
(* two commands of any handler, while the service is dead and after it     *)
(* restarts, for every set of hosts, gateways and configurations.          *)
THEOREM ShieldHasNoGap ==
    ASSUME CrashInInstall = FALSE
    PROVE  Spec => []NoGapInShield
  BY InitialIInv, NextKeeps, InvariantShields, PTL DEF Spec

(* In the strict mode an idle service blocks the internet outside the      *)
(* tunnel, whatever crashes and restarts came before.                      *)
THEOREM StrictModeBlocks ==
    ASSUME CrashInInstall = FALSE
    PROVE  Spec => []StrictBlocks
  BY InitialIInv, NextKeeps, InvariantBlocks, PTL DEF Spec

(* A disableKillSwitch outside the strict mode that ran to its end leaves  *)
(* nothing blocked.                                                        *)
THEOREM DisableLeavesNothing ==
    ASSUME CrashInInstall = FALSE
    PROVE  Spec => []DisableRestores
  BY InitialIInv, NextKeeps, InvariantRestores, PTL DEF Spec
=============================================================================

------------------------ MODULE KillSwitchRuleProofs ------------------------
(***************************************************************************)
(* Machine-checked proofs about the rules of an armed kill switch          *)
(* (KillSwitch.tla): whatever handlers ran, died half way and ran again,   *)
(* the verdicts on DNS, on the tunnelled sites and on the server are the   *)
(* ones enableKillSwitch() and applyFirewallRules() promise.  Unlike the   *)
(* shield (KillSwitchProofs), they do not need install() to be atomic:     *)
(* what an unfinished handler left behind is replaced command by command.  *)
(***************************************************************************)
EXTENDS KillSwitchProofs, TLAPS

(* What an armed kill switch needs, now and at the end of the handler that *)
(* arms it.  The list s brings about what the commands in sets do, when    *)
(* only commands in keeps follow one of them.                              *)
Settles(s, sets, keeps) ==
    \E i \in 1..Len(s) : s[i] \in sets /\ \A j \in (i + 1)..Len(s) : s[j] \in keeps
Will(now, sets, keeps) == (now /\ todo \in Seq(keeps)) \/ Settles(todo, sets, keeps)

(* The commands that switch an anchor off for IPv4, or replace a list.     *)
Drops(a) == {c \in Cmds : Off(c, a, 4)}
KeepsOff(a) == {c \in Cmds : ~Raises(c, a, 4)}
Writes(op, good) == {c \in Cmds : c.op = op /\ c.nets \in good}
KeepsList(op) == {c \in Cmds : c.op # op /\ c.op # "wipe"}

Resolvers(cfg) == cfg.dns \cup cfg.allowedDns
WithServer(cfg) == {nets \in SUBSET Hosts : cfg.server \in nets}

(* The rules behind the verdicts on DNS and on the tunnelled sites.        *)
RulesHold(cfg) ==
    /\ 4 \in linked /\ <<"310.blockDNS", 4>> \in enabled
    /\ dnsServers \subseteq Resolvers(cfg)
    /\ blockNets = TunnelledSites(cfg) \ Hosts6
    /\ cfg.kind = "wg" /\ ~Full(cfg) => <<"120.blockNets", 4>> \in enabled

(* The rules that let the connection to the server out.                    *)
ServerHolds(cfg) ==
    /\ Full(cfg) => <<"110.allowNets", 4>> \in enabled /\ cfg.server \in allowNets
    /\ ~Full(cfg) => <<"100.blockAll", 4>> \notin enabled
    /\ cfg.kind = "xray" /\ ~Full(cfg) => <<"120.blockNets", 4>> \notin enabled

(* They hold when the commands in todo are through.                        *)
RulesWill(cfg) ==
    /\ WillLink(4) /\ WillRaise("310.blockDNS", 4)
    /\ Will(dnsServers \subseteq Resolvers(cfg), Writes("dnsServers", SUBSET Resolvers(cfg)), KeepsList("dnsServers"))
    /\ Will(blockNets = TunnelledSites(cfg) \ Hosts6, Writes("blockNets", {TunnelledSites(cfg)}), KeepsList("blockNets"))
    /\ cfg.kind = "wg" /\ ~Full(cfg) => WillRaise("120.blockNets", 4)
ServerWill(cfg) ==
    /\ Full(cfg) => /\ WillRaise("110.allowNets", 4)
                    /\ Will(cfg.server \in allowNets, Writes("allowNets", WithServer(cfg)), KeepsList("allowNets"))
    /\ ~Full(cfg) => Will(<<"100.blockAll", 4>> \notin enabled, Drops("100.blockAll"), KeepsOff("100.blockAll"))
    /\ cfg.kind = "xray" /\ ~Full(cfg) =>
          Will(<<"120.blockNets", 4>> \notin enabled, Drops("120.blockNets"), KeepsOff("120.blockNets"))

(* The handlers that run while the kill switch stays armed spare its       *)
(* rules.                                                                  *)
KeepsRules ==
    {c \in Cmds : /\ ~Unlinks(c) /\ ~Lowers(c, "310.blockDNS") /\ ~Lowers(c, "120.blockNets")
                  /\ c.op # "dnsServers" /\ c.op # "blockNets"}

(* The rules of the armed configuration are in place, and stay in place;   *)
(* outside the strict mode no handler runs while it is armed; and the      *)
(* handler that arms one will have put its rules in place.                 *)
Running == TypeOK /\ todo \in Seq(Cmds) /\ (up \/ todo = <<>>)

ArmInv ==
    /\ Running
    /\ armed # None => /\ RulesHold(armed) /\ todo \in Seq(KeepsRules)
                       /\ todo # <<>> => goal.arm = armed
                       /\ ~strict => ServerHolds(armed) /\ todo = <<>>
    /\ armed = None /\ todo # <<>> /\ goal.arm # None => RulesWill(goal.arm) /\ ServerWill(goal.arm)

-----------------------------------------------------------------------------
(* One step brings what will hold closer.                                  *)
LEMMA StepWill ==
    ASSUME todo \in Seq(Cmds), Step, NEW sets, NEW keeps, NEW now \in BOOLEAN, NEW then \in BOOLEAN,
           todo[1] \in sets => then, now /\ todo[1] \in keeps => then, Will(now, sets, keeps)
    PROVE  (then /\ todo' \in Seq(keeps)) \/ Settles(todo', sets, keeps)
<1>1. /\ todo # <<>> /\ todo' = Tail(todo) /\ todo' \in Seq(Cmds)
      /\ Len(todo') = Len(todo) - 1 /\ 1 \in 1..Len(todo) /\ Len(todo) \in Nat
      /\ \A i \in 1..Len(todo') : todo'[i] = todo[i + 1] /\ i + 1 \in 1..Len(todo)
      /\ \A i \in 1..Len(todo) : i # 1 => i - 1 \in 1..Len(todo') /\ todo'[i - 1] = todo[i]
  BY StepExecutes
<1>2. CASE now /\ todo \in Seq(keeps)
  <2>1. todo[1] \in keeps /\ todo' \in Seq(keeps)
    BY <1>1, <1>2, TailOf
  <2> QED
    BY <1>2, <2>1
<1>3. CASE Settles(todo, sets, keeps)
  <2>1. PICK i \in 1..Len(todo) : todo[i] \in sets /\ \A j \in (i + 1)..Len(todo) : todo[j] \in keeps
    BY <1>3 DEF Settles
  <2>2. CASE i = 1
    <3>1. \A j \in 1..Len(todo') : todo'[j] \in keeps
      <4> TAKE j \in 1..Len(todo')
      <4>1. j + 1 \in (i + 1)..Len(todo)
        BY <1>1, <2>2
      <4> QED
        BY <1>1, <2>1, <4>1
    <3>2. todo' \in Seq(keeps)
      BY <1>1, <3>1, SeqOf
    <3> QED
      BY <2>1, <2>2, <3>2
  <2>3. CASE i # 1
    <3>1. \A j \in ((i - 1) + 1)..Len(todo') : todo'[j] \in keeps
      <4> TAKE j \in ((i - 1) + 1)..Len(todo')
      <4>1. j \in 1..Len(todo') /\ j + 1 \in (i + 1)..Len(todo)
        BY <1>1, <2>3
      <4> QED
        BY <1>1, <2>1, <4>1
    <3>2. i - 1 \in 1..Len(todo') /\ todo'[i - 1] \in sets
      BY <1>1, <2>1, <2>3
    <3> QED
      BY <3>1, <3>2 DEF Settles
  <2> QED
    BY <2>2, <2>3
<1> QED
  BY <1>2, <1>3 DEF Will

(* What one command does to the lists of the resolvers and of the sites.   *)
LEMMA ExecRuleLists ==
    ASSUME NEW c \in Cmds, Exec(c)
    PROVE  /\ c.op = "dnsServers" => dnsServers' = c.nets \ Hosts6
           /\ c.op # "dnsServers" /\ c.op # "wipe" => dnsServers' = dnsServers
           /\ c.op = "blockNets" => blockNets' = c.nets \ Hosts6
           /\ c.op # "blockNets" /\ c.op # "wipe" => blockNets' = blockNets
<1>1. CASE c.op = "anchor"
  BY <1>1 DEF Exec, ExecAnchor
<1>2. CASE c.op \in {"allowNets", "blockNets", "dnsServers"}
  BY <1>2 DEF Exec, ExecNets
<1>3. CASE c.op \in {"link", "unlink"}
  BY <1>3 DEF Exec, ExecLink
<1>4. CASE c.op = "wipe"
  BY <1>4
<1> QED
  BY <1>1, <1>2, <1>3, <1>4 DEF Cmds

(* The anchors of the rules, and the families they exist for.              *)
LEMMA RuleAnchors ==
    /\ {"100.blockAll", "110.allowNets", "120.blockNets", "310.blockDNS"} \subseteq Anchors
    /\ 4 \in InstalledFor("100.blockAll") /\ 4 \in InstalledFor("110.allowNets")
    /\ 4 \in InstalledFor("120.blockNets") /\ 4 \in InstalledFor("310.blockDNS")
<1>1. {"100.blockAll", "110.allowNets", "120.blockNets", "310.blockDNS"} \subseteq Anchors
  BY DEF Anchors, RootChain
<1> QED
  BY <1>1 DEF InstalledFor, IPv4, Both

(* A switched-off anchor, one step on.                                     *)
LEMMA StepOff ==
    ASSUME todo \in Seq(Cmds), Step, NEW a \in Anchors, 4 \in InstalledFor(a),
           Will(<<a, 4>> \notin enabled, Drops(a), KeepsOff(a))
    PROVE  Will(<<a, 4>> \notin enabled, Drops(a), KeepsOff(a))'
<1> DEFINE now == <<a, 4>> \notin enabled
           then == <<a, 4>> \notin enabled'
<1>1. todo[1] \in Cmds /\ Exec(todo[1])
  BY StepExecutes
<1>2. todo[1] \in Drops(a) => then
  BY <1>1, ExecAnchors DEF Drops
<1>3. now /\ todo[1] \in KeepsOff(a) => then
  BY <1>1, ExecAnchors DEF KeepsOff
<1>4. now \in BOOLEAN /\ then \in BOOLEAN
  OBVIOUS
<1>5. (then /\ todo' \in Seq(KeepsOff(a))) \/ Settles(todo', Drops(a), KeepsOff(a))
  <2>1. Will(now, Drops(a), KeepsOff(a))
    OBVIOUS
  <2> HIDE DEF now, then
  <2> QED
    BY <1>2, <1>3, <1>4, <2>1, StepWill
<1> QED
  BY <1>5 DEF Will

(* The rules of a configuration, one step on.                              *)
LEMMA StepRules ==
    ASSUME TypeOK, todo \in Seq(Cmds), Step, NEW cfg \in Configs, RulesWill(cfg)
    PROVE  RulesWill(cfg)'
<1>1. todo[1] \in Cmds /\ Exec(todo[1])
  BY StepExecutes
<1>2. WillLink(4)' /\ WillRaise("310.blockDNS", 4)'
  BY RuleAnchors, StepLink, StepRaise DEF RulesWill, TypeOK
<1>3. Will(dnsServers \subseteq Resolvers(cfg), Writes("dnsServers", SUBSET Resolvers(cfg)), KeepsList("dnsServers"))'
  <2> DEFINE now == dnsServers \subseteq Resolvers(cfg)
             then == dnsServers' \subseteq Resolvers(cfg)
             sets == Writes("dnsServers", SUBSET Resolvers(cfg))
             keeps == KeepsList("dnsServers")
  <2>1. todo[1] \in sets => then
    BY <1>1, ExecRuleLists DEF Writes
  <2>2. now /\ todo[1] \in keeps => then
    BY <1>1, ExecRuleLists DEF KeepsList
  <2>3. now \in BOOLEAN /\ then \in BOOLEAN /\ Will(now, sets, keeps)
    BY DEF RulesWill
  <2>4. (then /\ todo' \in Seq(keeps)) \/ Settles(todo', sets, keeps)
    <3> HIDE DEF now, then, sets, keeps
    <3> QED
      BY <2>1, <2>2, <2>3, StepWill
  <2> QED
    BY <2>4 DEF Will
<1>4. Will(blockNets = TunnelledSites(cfg) \ Hosts6, Writes("blockNets", {TunnelledSites(cfg)}), KeepsList("blockNets"))'
  <2> DEFINE now == blockNets = TunnelledSites(cfg) \ Hosts6
             then == blockNets' = TunnelledSites(cfg) \ Hosts6
             sets == Writes("blockNets", {TunnelledSites(cfg)})
             keeps == KeepsList("blockNets")
  <2>1. todo[1] \in sets => then
    BY <1>1, ExecRuleLists DEF Writes
  <2>2. now /\ todo[1] \in keeps => then
    BY <1>1, ExecRuleLists DEF KeepsList
  <2>3. now \in BOOLEAN /\ then \in BOOLEAN /\ Will(now, sets, keeps)
    BY DEF RulesWill
  <2>4. (then /\ todo' \in Seq(keeps)) \/ Settles(todo', sets, keeps)
    <3> HIDE DEF now, then, sets, keeps
    <3> QED
      BY <2>1, <2>2, <2>3, StepWill
  <2> QED
    BY <2>4 DEF Will
<1>5. cfg.kind = "wg" /\ ~Full(cfg) => WillRaise("120.blockNets", 4)'
  BY RuleAnchors, StepRaise DEF RulesWill
<1> QED
  BY <1>2, <1>3, <1>4, <1>5 DEF RulesWill

(* The rules for the server, one step on.                                  *)
LEMMA StepServer ==
    ASSUME TypeOK, todo \in Seq(Cmds), Step, NEW cfg \in Configs, ServerWill(cfg)
    PROVE  ServerWill(cfg)'
<1>1. todo[1] \in Cmds /\ Exec(todo[1])
  BY StepExecutes
<1>2. Full(cfg) => WillRaise("110.allowNets", 4)'
  BY RuleAnchors, StepRaise DEF ServerWill
<1>3. ASSUME Full(cfg)
      PROVE  Will(cfg.server \in allowNets, Writes("allowNets", WithServer(cfg)), KeepsList("allowNets"))'
  <2> DEFINE now == cfg.server \in allowNets
             then == cfg.server \in allowNets'
             sets == Writes("allowNets", WithServer(cfg))
             keeps == KeepsList("allowNets")
  <2>1. todo[1] \in sets => then
    BY <1>1, ExecLists DEF Writes, WithServer
  <2>2. now /\ todo[1] \in keeps => then
    BY <1>1, ExecLists DEF KeepsList
  <2>3. now \in BOOLEAN /\ then \in BOOLEAN /\ Will(now, sets, keeps)
    BY <1>3 DEF ServerWill
  <2>4. (then /\ todo' \in Seq(keeps)) \/ Settles(todo', sets, keeps)
    <3> HIDE DEF now, then, sets, keeps
    <3> QED
      BY <2>1, <2>2, <2>3, StepWill
  <2> QED
    BY <2>4 DEF Will
<1>4. ASSUME ~Full(cfg)
      PROVE  Will(<<"100.blockAll", 4>> \notin enabled, Drops("100.blockAll"), KeepsOff("100.blockAll"))'
  BY <1>4, RuleAnchors, StepOff DEF ServerWill
<1>5. ASSUME cfg.kind = "xray", ~Full(cfg)
      PROVE  Will(<<"120.blockNets", 4>> \notin enabled, Drops("120.blockNets"), KeepsOff("120.blockNets"))'
  BY <1>5, RuleAnchors, StepOff DEF ServerWill
<1> QED
  BY <1>2, <1>3, <1>4, <1>5 DEF ServerWill

(* The commands of ArmProgram, one by one.                                 *)
IsAnchor(c, fams, a, on) == c \in Cmds /\ c.op = "anchor" /\ c.anchor = a /\ c.fams = fams /\ c.on = on
IsNets(c, op, nets) == c \in Cmds /\ c.op = op /\ c.nets = nets

(* What the two kinds of commands are.                                     *)
LEMMA AnchorIs ==
    ASSUME NEW fams \in SUBSET Both, NEW a \in AnchorNames, NEW on \in BOOLEAN
    PROVE  IsAnchor(SetAnchorEnabled(fams, a, on), fams, a, on)
<1>1. SetAnchorEnabled(fams, a, on) \in Cmds
  BY AnchorCmd
<1> QED
  BY <1>1 DEF IsAnchor, SetAnchorEnabled

(* The lists are flushed and written again.                                *)
LEMMA NetsAre ==
    ASSUME NEW nets \in SUBSET Hosts
    PROVE  /\ Len(UpdateAllowNets(nets)) = 2 /\ UpdateAllowNets(nets) \in Seq(Cmds)
           /\ IsNets(UpdateAllowNets(nets)[1], "allowNets", {}) /\ IsNets(UpdateAllowNets(nets)[2], "allowNets", nets)
           /\ Len(UpdateBlockNets(nets)) = 2 /\ UpdateBlockNets(nets) \in Seq(Cmds)
           /\ IsNets(UpdateBlockNets(nets)[1], "blockNets", {}) /\ IsNets(UpdateBlockNets(nets)[2], "blockNets", nets)
           /\ Len(UpdateDNSServers(nets)) = 2 /\ UpdateDNSServers(nets) \in Seq(Cmds)
           /\ IsNets(UpdateDNSServers(nets)[1], "dnsServers", {}) /\ IsNets(UpdateDNSServers(nets)[2], "dnsServers", nets)
<1>1. \A op \in {"allowNets", "blockNets", "dnsServers"} : \A ns \in SUBSET Hosts : [op |-> op, nets |-> ns] \in Cmds
  BY DEF Cmds
<1>2. {} \in SUBSET Hosts
  OBVIOUS
<1> DEFINE c(op, ns) == [op |-> op, nets |-> ns]
<1>3. \A op \in {"allowNets", "blockNets", "dnsServers"} :
         IsNets(c(op, {}), op, {}) /\ IsNets(c(op, nets), op, nets) /\ c(op, {}) \in Cmds /\ c(op, nets) \in Cmds
  BY <1>1, <1>2 DEF IsNets
<1> HIDE DEF c
<1>4. /\ UpdateAllowNets(nets) = <<c("allowNets", {}), c("allowNets", nets)>>
      /\ UpdateBlockNets(nets) = <<c("blockNets", {}), c("blockNets", nets)>>
      /\ UpdateDNSServers(nets) = <<c("dnsServers", {}), c("dnsServers", nets)>>
  BY DEF UpdateAllowNets, UpdateBlockNets, UpdateDNSServers, c
<1> QED
  BY <1>3, <1>4

(* ArmProgram, command by command.                                         *)
ArmList(p, block, fams, on, allow, blockOn, nets, dns) ==
    /\ p \in Seq(Cmds) /\ Len(p) = 17
    /\ IsAnchor(p[1], Both, "000.allowLoopback", TRUE)
    /\ IsAnchor(p[2], Both, "100.blockAll", block)
    /\ IsAnchor(p[3], fams, "110.allowNets", on)
    /\ IsNets(p[4], "allowNets", {}) /\ IsNets(p[5], "allowNets", allow)
    /\ IsAnchor(p[6], IPv4, "120.blockNets", blockOn)
    /\ IsNets(p[7], "blockNets", {}) /\ IsNets(p[8], "blockNets", nets)
    /\ IsAnchor(p[9], IPv4, "200.allowVPN", TRUE)
    /\ IsAnchor(p[10], IPv6, "250.blockIPv6", TRUE)
    /\ IsAnchor(p[11], Both, "290.allowDHCP", TRUE)
    /\ IsAnchor(p[12], Both, "300.allowLAN", TRUE)
    /\ IsAnchor(p[13], IPv4, "310.blockDNS", TRUE)
    /\ IsNets(p[14], "dnsServers", {}) /\ IsNets(p[15], "dnsServers", dns)
    /\ IsAnchor(p[16], IPv4, "320.allowDNS", TRUE)
    /\ IsAnchor(p[17], Both, "400.allowPIA", TRUE)

(* The elements of a concatenation.                                        *)
LEMMA Joined ==
    ASSUME NEW s \in Seq(Cmds), NEW t \in Seq(Cmds)
    PROVE  /\ s \o t \in Seq(Cmds) /\ Len(s \o t) = Len(s) + Len(t)
           /\ \A i \in 1..Len(s) : (s \o t)[i] = s[i]
           /\ \A i \in 1..Len(t) : (s \o t)[Len(s) + i] = t[i]
  OBVIOUS

(* What ArmProgram is.                                                     *)
LEMMA ArmProgramList ==
    ASSUME NEW block \in BOOLEAN, NEW fams \in SUBSET Both, NEW on \in BOOLEAN, NEW blockOn \in BOOLEAN,
           NEW allow \in SUBSET Hosts, NEW nets \in SUBSET Hosts, NEW dns \in SUBSET Hosts
    PROVE  ArmList(ArmProgram(block, fams, on, allow, blockOn, nets, dns), block, fams, on, allow, blockOn, nets, dns)
<1> DEFINE c1 == SetAnchorEnabled(Both, "000.allowLoopback", TRUE)
           c2 == SetAnchorEnabled(Both, "100.blockAll", block)
           c3 == SetAnchorEnabled(fams, "110.allowNets", on)
           c6 == SetAnchorEnabled(IPv4, "120.blockNets", blockOn)
           c9 == SetAnchorEnabled(IPv4, "200.allowVPN", TRUE)
           c10 == SetAnchorEnabled(IPv6, "250.blockIPv6", TRUE)
           c11 == SetAnchorEnabled(Both, "290.allowDHCP", TRUE)
           c12 == SetAnchorEnabled(Both, "300.allowLAN", TRUE)
           c13 == SetAnchorEnabled(IPv4, "310.blockDNS", TRUE)
           c16 == SetAnchorEnabled(IPv4, "320.allowDNS", TRUE)
           c17 == SetAnchorEnabled(Both, "400.allowPIA", TRUE)
           u1 == UpdateAllowNets(allow)
           u2 == UpdateBlockNets(nets)
           u3 == UpdateDNSServers(dns)
           q1 == <<c1, c2, c3>> \o u1
           q2 == q1 \o <<c6>>
           q3 == q2 \o u2
           q4 == q3 \o <<c9, c10, c11, c12, c13>>
           q5 == q4 \o u3
           q6 == q5 \o <<c16, c17>>
<1>1. ArmProgram(block, fams, on, allow, blockOn, nets, dns) = q6
  BY DEF ArmProgram
<1>2. /\ IsAnchor(c1, Both, "000.allowLoopback", TRUE) /\ IsAnchor(c2, Both, "100.blockAll", block)
      /\ IsAnchor(c3, fams, "110.allowNets", on) /\ IsAnchor(c6, IPv4, "120.blockNets", blockOn)
      /\ IsAnchor(c9, IPv4, "200.allowVPN", TRUE) /\ IsAnchor(c10, IPv6, "250.blockIPv6", TRUE)
      /\ IsAnchor(c11, Both, "290.allowDHCP", TRUE) /\ IsAnchor(c12, Both, "300.allowLAN", TRUE)
      /\ IsAnchor(c13, IPv4, "310.blockDNS", TRUE) /\ IsAnchor(c16, IPv4, "320.allowDNS", TRUE)
      /\ IsAnchor(c17, Both, "400.allowPIA", TRUE)
  BY AnchorIs, AnchorsAndFamilies
<1>3. /\ c1 \in Cmds /\ c2 \in Cmds /\ c3 \in Cmds /\ c6 \in Cmds /\ c9 \in Cmds /\ c10 \in Cmds
      /\ c11 \in Cmds /\ c12 \in Cmds /\ c13 \in Cmds /\ c16 \in Cmds /\ c17 \in Cmds
  BY <1>2 DEF IsAnchor
<1>4. /\ Len(u1) = 2 /\ u1 \in Seq(Cmds) /\ Len(u2) = 2 /\ u2 \in Seq(Cmds) /\ Len(u3) = 2 /\ u3 \in Seq(Cmds)
      /\ IsNets(u1[1], "allowNets", {}) /\ IsNets(u1[2], "allowNets", allow)
      /\ IsNets(u2[1], "blockNets", {}) /\ IsNets(u2[2], "blockNets", nets)
      /\ IsNets(u3[1], "dnsServers", {}) /\ IsNets(u3[2], "dnsServers", dns)
  BY NetsAre
<1> HIDE DEF c1, c2, c3, c6, c9, c10, c11, c12, c13, c16, c17, u1, u2, u3
<1>5. /\ q1 \in Seq(Cmds) /\ Len(q1) = 5
      /\ q1[1] = c1 /\ q1[2] = c2 /\ q1[3] = c3 /\ q1[4] = u1[1] /\ q1[5] = u1[2]
  <2> DEFINE t == <<c1, c2, c3>>
  <2>1. t \in Seq(Cmds) /\ Len(t) = 3 /\ t[1] = c1 /\ t[2] = c2 /\ t[3] = c3
    BY <1>3
  <2>2. q1 = t \o u1
    OBVIOUS
  <2> HIDE DEF t, q1
  <2>3. Len(t) = 3 /\ Len(u1) = 2 /\ t \in Seq(Cmds) /\ u1 \in Seq(Cmds)
    BY <1>4, <2>1
  <2>4. /\ (t \o u1) \in Seq(Cmds) /\ Len(t \o u1) = Len(t) + Len(u1)
        /\ \A i \in 1..Len(t) : (t \o u1)[i] = t[i]
        /\ \A i \in 1..Len(u1) : (t \o u1)[Len(t) + i] = u1[i]
    BY <2>3, Joined
  <2>5. /\ q1 \in Seq(Cmds) /\ Len(q1) = Len(t) + Len(u1)
        /\ \A i \in 1..Len(t) : q1[i] = t[i]
        /\ \A i \in 1..Len(u1) : q1[Len(t) + i] = u1[i]
    BY <2>2, <2>4
  <2>6. /\ \A i \in 1..3 : q1[i] = t[i]
        /\ q1[4] = u1[1] /\ q1[5] = u1[2]
    BY <2>3, <2>5
  <2> QED
    BY <2>3, <2>5, <2>6, <2>1
<1> HIDE DEF q1
<1>6. /\ q2 \in Seq(Cmds) /\ Len(q2) = 6 /\ \A i \in 1..5 : q2[i] = q1[i]
      /\ q2[6] = c6
  <2> DEFINE t == <<c6>>
  <2>1. t \in Seq(Cmds) /\ Len(t) = 1 /\ t[1] = c6
    BY <1>3
  <2>2. q2 = q1 \o t
    OBVIOUS
  <2> HIDE DEF t, q2
  <2>3. Len(q1) = 5 /\ Len(t) = 1 /\ q1 \in Seq(Cmds) /\ t \in Seq(Cmds)
    BY <1>5, <2>1
  <2>4. /\ (q1 \o t) \in Seq(Cmds) /\ Len(q1 \o t) = Len(q1) + Len(t)
        /\ \A i \in 1..Len(q1) : (q1 \o t)[i] = q1[i]
        /\ \A i \in 1..Len(t) : (q1 \o t)[Len(q1) + i] = t[i]
    BY <2>3, Joined
  <2>5. /\ q2 \in Seq(Cmds) /\ Len(q2) = Len(q1) + Len(t)
        /\ \A i \in 1..Len(q1) : q2[i] = q1[i]
        /\ \A i \in 1..Len(t) : q2[Len(q1) + i] = t[i]
    BY <2>2, <2>4
  <2>6. /\ \A i \in 1..5 : q2[i] = q1[i]
        /\ q2[6] = t[1]
    BY <2>3, <2>5
  <2> QED
    BY <2>3, <2>5, <2>6, <2>1
<1> HIDE DEF q2
<1>7. /\ q3 \in Seq(Cmds) /\ Len(q3) = 8 /\ \A i \in 1..6 : q3[i] = q2[i]
      /\ q3[7] = u2[1] /\ q3[8] = u2[2]
  <2>1. q3 = q2 \o u2
    OBVIOUS
  <2> HIDE DEF q3
  <2>3. Len(q2) = 6 /\ Len(u2) = 2 /\ q2 \in Seq(Cmds) /\ u2 \in Seq(Cmds)
    BY <1>4, <1>6
  <2>4. /\ (q2 \o u2) \in Seq(Cmds) /\ Len(q2 \o u2) = Len(q2) + Len(u2)
        /\ \A i \in 1..Len(q2) : (q2 \o u2)[i] = q2[i]
        /\ \A i \in 1..Len(u2) : (q2 \o u2)[Len(q2) + i] = u2[i]
    BY <2>3, Joined
  <2>5. /\ q3 \in Seq(Cmds) /\ Len(q3) = Len(q2) + Len(u2)
        /\ \A i \in 1..Len(q2) : q3[i] = q2[i]
        /\ \A i \in 1..Len(u2) : q3[Len(q2) + i] = u2[i]
    BY <2>1, <2>4
  <2>6. /\ \A i \in 1..6 : q3[i] = q2[i]
        /\ q3[7] = u2[1] /\ q3[8] = u2[2]
    BY <2>3, <2>5
  <2> QED
    BY <2>3, <2>5, <2>6
<1> HIDE DEF q3
<1>8. /\ q4 \in Seq(Cmds) /\ Len(q4) = 13 /\ \A i \in 1..8 : q4[i] = q3[i]
      /\ q4[9] = c9 /\ q4[10] = c10 /\ q4[11] = c11 /\ q4[12] = c12 /\ q4[13] = c13
  <2> DEFINE t == <<c9, c10, c11, c12, c13>>
  <2>1. t \in Seq(Cmds) /\ Len(t) = 5 /\ t[1] = c9 /\ t[2] = c10 /\ t[3] = c11 /\ t[4] = c12 /\ t[5] = c13
    BY <1>3
  <2>2. q4 = q3 \o t
    OBVIOUS
  <2> HIDE DEF t, q4
  <2>3. Len(q3) = 8 /\ Len(t) = 5 /\ q3 \in Seq(Cmds) /\ t \in Seq(Cmds)
    BY <1>7, <2>1
  <2>4. /\ (q3 \o t) \in Seq(Cmds) /\ Len(q3 \o t) = Len(q3) + Len(t)
        /\ \A i \in 1..Len(q3) : (q3 \o t)[i] = q3[i]
        /\ \A i \in 1..Len(t) : (q3 \o t)[Len(q3) + i] = t[i]
    BY <2>3, Joined
  <2>5. /\ q4 \in Seq(Cmds) /\ Len(q4) = Len(q3) + Len(t)
        /\ \A i \in 1..Len(q3) : q4[i] = q3[i]
        /\ \A i \in 1..Len(t) : q4[Len(q3) + i] = t[i]
    BY <2>2, <2>4
  <2>6. /\ \A i \in 1..8 : q4[i] = q3[i]
        /\ q4[9] = t[1] /\ q4[10] = t[2] /\ q4[11] = t[3] /\ q4[12] = t[4] /\ q4[13] = t[5]
    BY <2>3, <2>5
  <2> QED
    BY <2>3, <2>5, <2>6, <2>1
<1> HIDE DEF q4
<1>9. /\ q5 \in Seq(Cmds) /\ Len(q5) = 15 /\ \A i \in 1..13 : q5[i] = q4[i]
      /\ q5[14] = u3[1] /\ q5[15] = u3[2]
  <2>1. q5 = q4 \o u3
    OBVIOUS
  <2> HIDE DEF q5
  <2>3. Len(q4) = 13 /\ Len(u3) = 2 /\ q4 \in Seq(Cmds) /\ u3 \in Seq(Cmds)
    BY <1>4, <1>8
  <2>4. /\ (q4 \o u3) \in Seq(Cmds) /\ Len(q4 \o u3) = Len(q4) + Len(u3)
        /\ \A i \in 1..Len(q4) : (q4 \o u3)[i] = q4[i]
        /\ \A i \in 1..Len(u3) : (q4 \o u3)[Len(q4) + i] = u3[i]
    BY <2>3, Joined
  <2>5. /\ q5 \in Seq(Cmds) /\ Len(q5) = Len(q4) + Len(u3)
        /\ \A i \in 1..Len(q4) : q5[i] = q4[i]
        /\ \A i \in 1..Len(u3) : q5[Len(q4) + i] = u3[i]
    BY <2>1, <2>4
  <2>6. /\ \A i \in 1..13 : q5[i] = q4[i]
        /\ q5[14] = u3[1] /\ q5[15] = u3[2]
    BY <2>3, <2>5
  <2> QED
    BY <2>3, <2>5, <2>6
<1> HIDE DEF q5
<1>10. /\ q6 \in Seq(Cmds) /\ Len(q6) = 17 /\ \A i \in 1..15 : q6[i] = q5[i]
      /\ q6[16] = c16 /\ q6[17] = c17
  <2> DEFINE t == <<c16, c17>>
  <2>1. t \in Seq(Cmds) /\ Len(t) = 2 /\ t[1] = c16 /\ t[2] = c17
    BY <1>3
  <2>2. q6 = q5 \o t
    OBVIOUS
  <2> HIDE DEF t, q6
  <2>3. Len(q5) = 15 /\ Len(t) = 2 /\ q5 \in Seq(Cmds) /\ t \in Seq(Cmds)
    BY <1>9, <2>1
  <2>4. /\ (q5 \o t) \in Seq(Cmds) /\ Len(q5 \o t) = Len(q5) + Len(t)
        /\ \A i \in 1..Len(q5) : (q5 \o t)[i] = q5[i]
        /\ \A i \in 1..Len(t) : (q5 \o t)[Len(q5) + i] = t[i]
    BY <2>3, Joined
  <2>5. /\ q6 \in Seq(Cmds) /\ Len(q6) = Len(q5) + Len(t)
        /\ \A i \in 1..Len(q5) : q6[i] = q5[i]
        /\ \A i \in 1..Len(t) : q6[Len(q5) + i] = t[i]
    BY <2>2, <2>4
  <2>6. /\ \A i \in 1..15 : q6[i] = q5[i]
        /\ q6[16] = t[1] /\ q6[17] = t[2]
    BY <2>3, <2>5
  <2> QED
    BY <2>3, <2>5, <2>6, <2>1
<1> HIDE DEF q6
<1>11. /\ q6[1] = c1 /\ q6[2] = c2 /\ q6[3] = c3 /\ q6[4] = u1[1] /\ q6[5] = u1[2] /\ q6[6] = c6
       /\ q6[7] = u2[1] /\ q6[8] = u2[2] /\ q6[9] = c9 /\ q6[10] = c10 /\ q6[11] = c11 /\ q6[12] = c12
       /\ q6[13] = c13 /\ q6[14] = u3[1] /\ q6[15] = u3[2] /\ q6[16] = c16 /\ q6[17] = c17
  BY <1>5, <1>6, <1>7, <1>8, <1>9, <1>10, SMTT(30)
<1> QED
  BY <1>1, <1>2, <1>4, <1>10, <1>11 DEF ArmList

(* The commands that switch an anchor on for IPv4.                         *)
Raising(a) == {c \in Cmds : Raises(c, a, 4)}

(* A command on a list touches no anchor and no other list ...             *)
LEMMA NetsSpare ==
    ASSUME NEW c, NEW op \in {"allowNets", "blockNets", "dnsServers"}, NEW nets, IsNets(c, op, nets)
    PROVE  /\ \A a : c \in KeepsAnchor(a) /\ c \in KeepsOff(a)
           /\ \A other : other # op => c \in KeepsList(other)
           /\ \A good : nets \in good => c \in Writes(op, good)
  BY DEF IsNets, KeepsAnchor, KeepsOff, KeepsList, Writes, Lowers, Raises

(* ... and one on an anchor no list and no other anchor.                   *)
LEMMA AnchorSpares ==
    ASSUME NEW c, NEW fams, NEW a, NEW on \in BOOLEAN, IsAnchor(c, fams, a, on)
    PROVE  /\ \A other : other # a => c \in KeepsAnchor(other) /\ c \in KeepsOff(other)
           /\ \A op \in {"allowNets", "blockNets", "dnsServers"} : c \in KeepsList(op)
           /\ 4 \in fams => (on => c \in Raising(a)) /\ (~on => c \in Drops(a))
  BY DEF IsAnchor, KeepsAnchor, KeepsOff, KeepsList, Lowers, Raises, Raising, Drops, Off

(* What ArmProgram settles.                                                *)
LEMMA ArmSettles ==
    ASSUME NEW block \in BOOLEAN, NEW fams \in SUBSET Both, NEW on \in BOOLEAN, NEW blockOn \in BOOLEAN,
           NEW allow, NEW nets, NEW dns, 4 \in fams, NEW p, ArmList(p, block, fams, on, allow, blockOn, nets, dns)
    PROVE  /\ p \in Seq(Cmds)
           /\ Settles(p, Raising("310.blockDNS"), KeepsAnchor("310.blockDNS"))
           /\ blockOn => Settles(p, Raising("120.blockNets"), KeepsAnchor("120.blockNets"))
           /\ on => Settles(p, Raising("110.allowNets"), KeepsAnchor("110.allowNets"))
           /\ ~block => Settles(p, Drops("100.blockAll"), KeepsOff("100.blockAll"))
           /\ ~blockOn => Settles(p, Drops("120.blockNets"), KeepsOff("120.blockNets"))
           /\ \A good : dns \in good => Settles(p, Writes("dnsServers", good), KeepsList("dnsServers"))
           /\ \A good : nets \in good => Settles(p, Writes("blockNets", good), KeepsList("blockNets"))
           /\ \A good : allow \in good => Settles(p, Writes("allowNets", good), KeepsList("allowNets"))
<1>1. p \in Seq(Cmds) /\ Len(p) = 17
  BY DEF ArmList
<1>2. ASSUME NEW k \in 1..17, NEW sets, NEW keeps, p[k] \in sets, \A j \in (k + 1)..17 : p[j] \in keeps
      PROVE  Settles(p, sets, keeps)
  BY <1>1, <1>2 DEF Settles
<1>3. 4 \in IPv4 /\ 4 \in Both
  BY DEF IPv4, Both
<1>4. ~block => p[2] \in Drops("100.blockAll")
  BY <1>3, AnchorSpares DEF ArmList
<1>5. /\ on => p[3] \in Raising("110.allowNets")
      /\ p[3] \in KeepsOff("100.blockAll")
  BY AnchorSpares DEF ArmList
<1>6. /\ \A a : p[4] \in KeepsAnchor(a) /\ p[4] \in KeepsOff(a) /\ p[5] \in KeepsAnchor(a) /\ p[5] \in KeepsOff(a)
      /\ \A good : allow \in good => p[5] \in Writes("allowNets", good)
  BY NetsSpare DEF ArmList
<1>7. /\ blockOn => p[6] \in Raising("120.blockNets")
      /\ ~blockOn => p[6] \in Drops("120.blockNets")
      /\ p[6] \in KeepsAnchor("110.allowNets") /\ p[6] \in KeepsOff("100.blockAll") /\ p[6] \in KeepsList("allowNets")
  BY <1>3, AnchorSpares DEF ArmList
<1>8. /\ \A a : p[7] \in KeepsAnchor(a) /\ p[7] \in KeepsOff(a) /\ p[8] \in KeepsAnchor(a) /\ p[8] \in KeepsOff(a)
      /\ p[7] \in KeepsList("allowNets") /\ p[8] \in KeepsList("allowNets")
      /\ \A good : nets \in good => p[8] \in Writes("blockNets", good)
  BY NetsSpare DEF ArmList
<1>9. ASSUME NEW c, NEW fs, NEW a \in {"200.allowVPN", "250.blockIPv6", "290.allowDHCP", "300.allowLAN", "310.blockDNS",
                                       "320.allowDNS", "400.allowPIA"}, IsAnchor(c, fs, a, TRUE)
      PROVE  /\ c \in KeepsAnchor("110.allowNets") /\ c \in KeepsAnchor("120.blockNets")
             /\ a # "310.blockDNS" => c \in KeepsAnchor("310.blockDNS")
             /\ c \in KeepsOff("100.blockAll") /\ c \in KeepsOff("120.blockNets")
             /\ c \in KeepsList("allowNets") /\ c \in KeepsList("blockNets") /\ c \in KeepsList("dnsServers")
  BY <1>9, AnchorSpares
<1>10. \A j \in {9, 10, 11, 12, 13, 16, 17} :
          /\ p[j] \in KeepsAnchor("110.allowNets") /\ p[j] \in KeepsAnchor("120.blockNets")
          /\ p[j] \in KeepsOff("100.blockAll") /\ p[j] \in KeepsOff("120.blockNets")
          /\ p[j] \in KeepsList("allowNets") /\ p[j] \in KeepsList("blockNets") /\ p[j] \in KeepsList("dnsServers")
  BY <1>9 DEF ArmList
<1>11. /\ p[13] \in Raising("310.blockDNS")
       /\ p[16] \in KeepsAnchor("310.blockDNS") /\ p[17] \in KeepsAnchor("310.blockDNS")
  BY <1>3, AnchorSpares DEF ArmList
<1>12. /\ \A a : p[14] \in KeepsAnchor(a) /\ p[14] \in KeepsOff(a) /\ p[15] \in KeepsAnchor(a) /\ p[15] \in KeepsOff(a)
       /\ p[14] \in KeepsList("allowNets") /\ p[15] \in KeepsList("allowNets")
       /\ p[14] \in KeepsList("blockNets") /\ p[15] \in KeepsList("blockNets")
       /\ \A good : dns \in good => p[15] \in Writes("dnsServers", good)
  BY NetsSpare DEF ArmList
<1>13. ASSUME NEW keeps, \A j \in {9, 10, 11, 12, 13, 16, 17} : p[j] \in keeps, p[14] \in keeps, p[15] \in keeps
       PROVE  \A j \in 9..17 : p[j] \in keeps
  <2> TAKE j \in 9..17
  <2>1. j \in {9, 10, 11, 12, 13, 16, 17} \/ j = 14 \/ j = 15
    OBVIOUS
  <2> QED
    BY <1>13, <2>1, Zenon
<1>14. Settles(p, Raising("310.blockDNS"), KeepsAnchor("310.blockDNS"))
  <2>1. \A j \in 14..17 : p[j] \in KeepsAnchor("310.blockDNS")
    <3> TAKE j \in 14..17
    <3>1. j = 14 \/ j = 15 \/ j = 16 \/ j = 17
      OBVIOUS
    <3> QED
      BY <1>11, <1>12, <3>1, Zenon
  <2> QED
    BY <1>2, <1>11, <2>1
<1>15. /\ blockOn => Settles(p, Raising("120.blockNets"), KeepsAnchor("120.blockNets"))
       /\ ~blockOn => Settles(p, Drops("120.blockNets"), KeepsOff("120.blockNets"))
  <2>1. \A j \in 9..17 : p[j] \in KeepsAnchor("120.blockNets") /\ p[j] \in KeepsOff("120.blockNets")
    BY <1>10, <1>12, <1>13
  <2>2. \A j \in 7..17 : j = 7 \/ j = 8 \/ j \in 9..17
    OBVIOUS
  <2>3. \A j \in 7..17 : p[j] \in KeepsAnchor("120.blockNets") /\ p[j] \in KeepsOff("120.blockNets")
    BY <1>8, <2>1, <2>2, Zenon
  <2> QED
    BY <1>2, <1>7, <2>3
<1>16. on => Settles(p, Raising("110.allowNets"), KeepsAnchor("110.allowNets"))
  <2>1. \A j \in 9..17 : p[j] \in KeepsAnchor("110.allowNets")
    BY <1>10, <1>12, <1>13
  <2>2. \A j \in 4..17 : j = 4 \/ j = 5 \/ j = 6 \/ j = 7 \/ j = 8 \/ j \in 9..17
    OBVIOUS
  <2>3. \A j \in 4..17 : p[j] \in KeepsAnchor("110.allowNets")
    BY <1>6, <1>7, <1>8, <2>1, <2>2, Zenon
  <2> QED
    BY <1>2, <1>5, <2>3
<1>17. ~block => Settles(p, Drops("100.blockAll"), KeepsOff("100.blockAll"))
  <2>1. \A j \in 9..17 : p[j] \in KeepsOff("100.blockAll")
    BY <1>10, <1>12, <1>13
  <2>2. \A j \in 3..17 : j = 3 \/ j = 4 \/ j = 5 \/ j = 6 \/ j = 7 \/ j = 8 \/ j \in 9..17
    OBVIOUS
  <2>3. \A j \in 3..17 : p[j] \in KeepsOff("100.blockAll")
    BY <1>5, <1>6, <1>7, <1>8, <2>1, <2>2, Zenon
  <2> QED
    BY <1>2, <1>4, <2>3
<1>18. ASSUME NEW good, dns \in good
       PROVE  Settles(p, Writes("dnsServers", good), KeepsList("dnsServers"))
  <2>1. \A j \in 16..17 : p[j] \in KeepsList("dnsServers")
    BY <1>10
  <2>2. p[15] \in Writes("dnsServers", good)
    BY <1>12, <1>18, Zenon
  <2> QED
    BY <1>2, <2>1, <2>2
<1>19. ASSUME NEW good, nets \in good
       PROVE  Settles(p, Writes("blockNets", good), KeepsList("blockNets"))
  <2>1. \A j \in 9..17 : p[j] \in KeepsList("blockNets")
    BY <1>10, <1>12, <1>13
  <2>2. p[8] \in Writes("blockNets", good)
    BY <1>8, <1>19, Zenon
  <2> QED
    BY <1>2, <2>1, <2>2
<1>20. ASSUME NEW good, allow \in good
       PROVE  Settles(p, Writes("allowNets", good), KeepsList("allowNets"))
  <2>1. \A j \in 9..17 : p[j] \in KeepsList("allowNets")
    BY <1>10, <1>12, <1>13
  <2>2. \A j \in 6..17 : j = 6 \/ j = 7 \/ j = 8 \/ j \in 9..17
    OBVIOUS
  <2>3. \A j \in 6..17 : p[j] \in KeepsList("allowNets")
    BY <1>7, <1>8, <2>1, <2>2, Zenon
  <2>4. p[5] \in Writes("allowNets", good)
    BY <1>6, <1>20, Zenon
  <2> QED
    BY <1>2, <2>3, <2>4
<1> QED
  BY <1>1, <1>14, <1>15, <1>16, <1>17, <1>18, <1>19, <1>20

(* What a list settles it settles after any other commands too.            *)
LEMMA SettlesAfter ==
    ASSUME NEW s \in Seq(Cmds), NEW t \in Seq(Cmds), NEW sets, NEW keeps, Settles(t, sets, keeps)
    PROVE  Settles(s \o t, sets, keeps)
<1>1. PICK i \in 1..Len(t) : t[i] \in sets /\ \A j \in (i + 1)..Len(t) : t[j] \in keeps
  BY DEF Settles
<1>2. Len(s) + i \in 1..Len(s \o t) /\ (s \o t)[Len(s) + i] \in sets
  BY <1>1, Concat
<1>3. \A j \in ((Len(s) + i) + 1)..Len(s \o t) : (s \o t)[j] \in keeps
  <2> TAKE j \in ((Len(s) + i) + 1)..Len(s \o t)
  <2>1. j \in 1..Len(s \o t) /\ j > Len(s) /\ j - Len(s) \in (i + 1)..Len(t)
    BY <1>1, Concat
  <2>2. (s \o t)[j] = t[j - Len(s)]
    BY <2>1, Concat
  <2> QED
    BY <1>1, <2>1, <2>2
<1> QED
  BY <1>2, <1>3 DEF Settles

(* The two ways to say that a list switches an anchor on.                  *)
LEMMA SettlesRaise ==
    ASSUME NEW a, NEW s \in Seq(Cmds), Settles(s, Raising(a), KeepsAnchor(a))
    PROVE  Raised(s, a, 4)
<1>1. PICK i \in 1..Len(s) : s[i] \in Raising(a) /\ \A j \in (i + 1)..Len(s) : s[j] \in KeepsAnchor(a)
  BY DEF Settles
<1> QED
  BY <1>1 DEF Raised, Raising, KeepsAnchor

(* A list of commands that puts the rules of a configuration in place.     *)
Arms(s, cfg) ==
    /\ s \in Seq(Cmds)
    /\ Settles(s, Raising("310.blockDNS"), KeepsAnchor("310.blockDNS"))
    /\ Settles(s, Writes("dnsServers", SUBSET Resolvers(cfg)), KeepsList("dnsServers"))
    /\ Settles(s, Writes("blockNets", {TunnelledSites(cfg)}), KeepsList("blockNets"))
    /\ cfg.kind = "wg" /\ ~Full(cfg) => Settles(s, Raising("120.blockNets"), KeepsAnchor("120.blockNets"))
    /\ Full(cfg) => /\ Settles(s, Raising("110.allowNets"), KeepsAnchor("110.allowNets"))
                    /\ Settles(s, Writes("allowNets", WithServer(cfg)), KeepsList("allowNets"))
    /\ ~Full(cfg) => Settles(s, Drops("100.blockAll"), KeepsOff("100.blockAll"))
    /\ cfg.kind = "xray" /\ ~Full(cfg) => Settles(s, Drops("120.blockNets"), KeepsOff("120.blockNets"))

(* A list that puts them in place still does after other commands.         *)
LEMMA ArmsAfter ==
    ASSUME NEW cfg, NEW s \in Seq(Cmds), NEW t, Arms(t, cfg)
    PROVE  Arms(s \o t, cfg)
<1>1. t \in Seq(Cmds) /\ s \o t \in Seq(Cmds)
  BY Concat DEF Arms
<1>2. \A sets, keeps : Settles(t, sets, keeps) => Settles(s \o t, sets, keeps)
  BY <1>1, SettlesAfter
<1> QED
  BY <1>1, <1>2 DEF Arms

(* isInstalled() leaves out install() only where the IPv4 chain is linked. *)
LEMMA EnsureLinks ==
    /\ EnsureInstalled \in Seq(Cmds)
    /\ \/ 4 \in linked /\ EnsureInstalled = <<>>
       \/ Commanded(EnsureInstalled, 4)
<1>1. <<>> \in Seq(Cmds)
  OBVIOUS
<1> QED
  BY <1>1, InstallFacts DEF EnsureInstalled, IsInstalled

USE Untyped

(* enableKillSwitch() and applyFirewallRules() put the rules of their      *)
(* configuration in place.                                                 *)
LEMMA EnableArms ==
    ASSUME NEW cfg \in Configs
    PROVE  Arms(EnableProgram(cfg), cfg)
<1> DEFINE xallow == IF Full(cfg) THEN {cfg.server} \cup ExcludedSites(cfg) ELSE {}
           x == ArmProgram(Full(cfg), IPv4, Full(cfg), xallow, Full(cfg), TunnelledSites(cfg), cfg.dns \cup cfg.allowedDns)
           w == ArmProgram(Full(cfg), Both, TRUE, ExcludedAddresses(cfg), ~Full(cfg), TunnelledSites(cfg), cfg.dns)
<1>1. /\ (~Full(cfg)) \in BOOLEAN /\ Full(cfg) \in BOOLEAN /\ xallow \in SUBSET Hosts
      /\ 4 \in IPv4 /\ 4 \in Both /\ IPv4 \in SUBSET Both /\ Both \in SUBSET Both
  BY ConfigFacts DEF IPv4, Both
<1>2. cfg.kind \in {"xray", "wg"}
  BY ConfigsAssumption
<1>3. TunnelledSites(cfg) \in {TunnelledSites(cfg)} /\ cfg.dns \in SUBSET Resolvers(cfg)
      /\ cfg.dns \cup cfg.allowedDns \in SUBSET Resolvers(cfg)
  BY DEF Resolvers
<1>4. CASE cfg.kind = "xray"
  <2>1. EnableProgram(cfg) = EnsureInstalled \o x
    BY <1>4 DEF EnableProgram, EnableKillSwitchProgram
  <2>2. Full(cfg) => xallow \in WithServer(cfg)
    BY ConfigFacts DEF WithServer
  <2> HIDE DEF xallow
  <2>3. ArmList(x, Full(cfg), IPv4, Full(cfg), xallow, Full(cfg), TunnelledSites(cfg), cfg.dns \cup cfg.allowedDns)
    BY <1>1, ConfigFacts, ArmProgramList
  <2> HIDE DEF x
  <2> DEFINE full == Full(cfg)
             sites == TunnelledSites(cfg)
             dns == cfg.dns \cup cfg.allowedDns
             goodDns == SUBSET Resolvers(cfg)
             goodSites == {TunnelledSites(cfg)}
             goodAllow == WithServer(cfg)
  <2>4. /\ full \in BOOLEAN /\ ArmList(x, full, IPv4, full, xallow, full, sites, dns)
        /\ dns \in goodDns /\ sites \in goodSites /\ (full => xallow \in goodAllow)
    BY <1>1, <1>3, <2>2, <2>3
  <2> HIDE DEF full, sites, dns, goodDns, goodSites, goodAllow
  <2>5. /\ x \in Seq(Cmds)
        /\ Settles(x, Raising("310.blockDNS"), KeepsAnchor("310.blockDNS"))
        /\ full => Settles(x, Raising("110.allowNets"), KeepsAnchor("110.allowNets"))
        /\ ~full => Settles(x, Drops("100.blockAll"), KeepsOff("100.blockAll"))
        /\ ~full => Settles(x, Drops("120.blockNets"), KeepsOff("120.blockNets"))
    BY <1>1, <2>4, ArmSettles, ZenonT(40)
  <2>6. /\ Settles(x, Writes("dnsServers", goodDns), KeepsList("dnsServers"))
        /\ Settles(x, Writes("blockNets", goodSites), KeepsList("blockNets"))
        /\ full => Settles(x, Writes("allowNets", goodAllow), KeepsList("allowNets"))
    BY <1>1, <2>4, ArmSettles
  <2>7. Arms(x, cfg)
    BY <1>4, <2>5, <2>6 DEF Arms, full, goodDns, goodSites, goodAllow
  <2> QED
    BY <2>1, <2>7, EnsureLinks, ArmsAfter
<1>5. CASE cfg.kind = "wg"
  <2>1. EnableProgram(cfg) = (EnsureInstalled \o LinkRoot) \o w
    BY <1>5 DEF EnableProgram, ApplyFirewallRulesProgram
  <2>2. ExcludedAddresses(cfg) \in WithServer(cfg)
    BY ConfigFacts DEF WithServer, ExcludedAddresses
  <2>3. ArmList(w, Full(cfg), Both, TRUE, ExcludedAddresses(cfg), ~Full(cfg), TunnelledSites(cfg), cfg.dns)
    BY <1>1, ConfigFacts, ArmProgramList
  <2> HIDE DEF w
  <2>4. /\ w \in Seq(Cmds)
        /\ Settles(w, Raising("310.blockDNS"), KeepsAnchor("310.blockDNS"))
        /\ ~Full(cfg) => Settles(w, Raising("120.blockNets"), KeepsAnchor("120.blockNets"))
        /\ Settles(w, Raising("110.allowNets"), KeepsAnchor("110.allowNets"))
        /\ ~Full(cfg) => Settles(w, Drops("100.blockAll"), KeepsOff("100.blockAll"))
    BY <1>1, <2>3, ArmSettles
  <2>5. /\ Settles(w, Writes("dnsServers", SUBSET Resolvers(cfg)), KeepsList("dnsServers"))
        /\ Settles(w, Writes("blockNets", {TunnelledSites(cfg)}), KeepsList("blockNets"))
    BY <1>1, <1>3, <2>3, ArmSettles
  <2>6. Settles(w, Writes("allowNets", WithServer(cfg)), KeepsList("allowNets"))
    BY <1>1, <2>2, <2>3, ArmSettles
  <2>7. Arms(w, cfg)
    BY <1>5, <2>4, <2>5, <2>6 DEF Arms
  <2>8. EnsureInstalled \o LinkRoot \in Seq(Cmds)
    BY EnsureLinks, LinkRootFacts, Concat
  <2> QED
    BY <2>1, <2>7, <2>8, ArmsAfter
<1> QED
  BY <1>2, <1>4, <1>5

(* ... and link the IPv4 chain where it is not.                            *)
LEMMA EnableLinks ==
    ASSUME NEW cfg \in Configs
    PROVE  (4 \in linked /\ EnableProgram(cfg) \in Seq(KeepsLinks)) \/ Commanded(EnableProgram(cfg), 4)
<1>1. PICK r : EnableProgram(cfg) = EnsureInstalled \o r /\ r \in Seq(KeepsLinks)
  BY EnableTail
<1>2. r \in Seq(Cmds)
  BY <1>1, SeqCmds
<1>3. CASE 4 \in linked /\ EnsureInstalled = <<>>
  <2>1. EnableProgram(cfg) = r
    BY <1>1, <1>3
  <2> QED
    BY <1>1, <1>3, <2>1
<1>4. CASE Commanded(EnsureInstalled, 4)
  BY <1>1, <1>2, <1>4, EnsureLinks, ConcatCommanded
<1> QED
  BY <1>3, <1>4, EnsureLinks

(* Nothing is left to be settled once the handler is through.              *)
RulesSettle ==
    \A c \in Configs : todo = <<>> /\ RulesWill(c) /\ ServerWill(c) => RulesHold(c) /\ ServerHolds(c)

(* What a finished handler promised holds.                                 *)
LEMMA RulesSettled == RulesSettle
<1> SUFFICES ASSUME NEW cfg \in Configs, todo = <<>>, RulesWill(cfg), ServerWill(cfg)
             PROVE  RulesHold(cfg) /\ ServerHolds(cfg)
  BY DEF RulesSettle
<1>1. \A sets, keeps : ~Settles(todo, sets, keeps)
  BY DEF Settles
<1>2. \A a, f : WillRaise(a, f) => <<a, f>> \in enabled
  BY DEF WillRaise, Raised
<1>3. \A f : WillLink(f) => f \in linked
  BY DEF WillLink, Commanded
<1>4. RulesHold(cfg)
  BY <1>1, <1>2, <1>3 DEF RulesWill, RulesHold, Will
<1>5. ServerHolds(cfg)
  BY <1>1, <1>2 DEF ServerWill, ServerHolds, Will
<1> QED
  BY <1>4, <1>5

(* A command of a handler that runs while the kill switch stays armed.     *)
LEMMA StepSpares ==
    ASSUME Running, Step, NEW cfg \in Configs, RulesHold(cfg), todo \in Seq(KeepsRules)
    PROVE  RulesHold(cfg)' /\ todo' \in Seq(KeepsRules)
<1>1. /\ todo # <<>> /\ todo[1] \in Cmds /\ Exec(todo[1]) /\ todo[1] \in KeepsRules /\ todo' \in Seq(KeepsRules)
  BY StepExecutes, TailOf DEF Running
<1> DEFINE c == todo[1]
<1>2. /\ c \in Cmds /\ Exec(c) /\ ~Unlinks(c) /\ ~Lowers(c, "310.blockDNS") /\ ~Lowers(c, "120.blockNets")
      /\ c.op # "dnsServers" /\ c.op # "blockNets" /\ c.op # "wipe"
  BY <1>1 DEF KeepsRules, Unlinks
<1> HIDE DEF c
<1>3. 4 \in linked'
  BY <1>2, ExecLinks DEF RulesHold, Running, TypeOK
<1>4. /\ <<"310.blockDNS", 4>> \in enabled'
      /\ <<"120.blockNets", 4>> \in enabled => <<"120.blockNets", 4>> \in enabled'
  BY <1>2, ExecAnchors, RuleAnchors DEF RulesHold
<1>5. dnsServers' = dnsServers /\ blockNets' = blockNets
  BY <1>2, ExecRuleLists
<1> QED
  BY <1>1, <1>3, <1>4, <1>5 DEF RulesHold

(* One command of a running handler.                                       *)
LEMMA StepArm ==
    ASSUME ArmInv, Step
    PROVE  ArmInv'
<1>1. TypeOK /\ todo \in Seq(Cmds) /\ Running
  BY DEF ArmInv, Running
<1>2. /\ UNCHANGED <<strict, up, goal>> /\ up /\ todo # <<>>
      /\ Len(todo) = 1 => todo' = <<>> /\ armed' = goal.arm
      /\ Len(todo) # 1 => todo' # <<>> /\ armed' = armed
  BY <1>1, StepEnds, StepExecutes DEF promises
<1>3. Running'
  BY <1>1, <1>2, StepType DEF Running
<1>4. armed \in Configs \cup {None} /\ goal.arm \in Configs \cup {None} /\ None \notin Configs
  BY <1>1, ConfigsAssumption DEF TypeOK, Goals
<1>5. CASE armed # None
  <2>1. PICK cfg \in Configs : cfg = armed
    BY <1>4, <1>5
  <2>2. RulesHold(cfg) /\ todo \in Seq(KeepsRules) /\ goal.arm = cfg /\ strict
    BY <1>2, <1>5, <2>1 DEF ArmInv
  <2>3. RulesHold(cfg)' /\ todo' \in Seq(KeepsRules)
    BY <1>1, <2>2, StepSpares
  <2>4. armed' = cfg /\ goal'.arm = cfg /\ strict'
    BY <1>2, <2>1, <2>2
  <2>5. RulesHold(armed)'
    BY <2>3, <2>4 DEF RulesHold
  <2> QED
    BY <1>3, <1>4, <2>3, <2>4, <2>5 DEF ArmInv
<1>6. CASE armed = None /\ goal.arm = None
  BY <1>2, <1>3, <1>6 DEF ArmInv
<1>7. CASE armed = None /\ goal.arm # None
  <2>1. PICK cfg \in Configs : cfg = goal.arm
    BY <1>4, <1>7
  <2>2. RulesWill(cfg) /\ ServerWill(cfg)
    BY <1>2, <1>7, <2>1 DEF ArmInv
  <2>3. RulesWill(cfg)' /\ ServerWill(cfg)'
    BY <1>1, <2>2, StepRules, StepServer
  <2>4. goal'.arm = cfg
    BY <1>2, <2>1
  <2>5. CASE Len(todo) = 1
    <3>1. RulesSettle'
      BY RulesSettled, PTL
    <3>2. RulesHold(cfg)' /\ ServerHolds(cfg)'
      BY <1>2, <2>3, <2>5, <3>1 DEF RulesSettle
    <3>3. armed' = cfg /\ todo' = <<>> /\ todo' \in Seq(KeepsRules)
      BY <1>2, <2>1, <2>5
    <3>4. RulesHold(armed)' /\ ServerHolds(armed)'
      BY <3>2, <3>3 DEF RulesHold, ServerHolds
    <3> QED
      BY <1>3, <1>4, <3>3, <3>4 DEF ArmInv
  <2>6. CASE Len(todo) # 1
    <3>1. armed' = None
      BY <1>2, <1>7, <2>6
    <3>2. RulesWill(goal.arm)' /\ ServerWill(goal.arm)'
      BY <2>3, <2>4 DEF RulesWill, ServerWill
    <3> QED
      BY <1>3, <3>1, <3>2 DEF ArmInv
  <2> QED
    BY <2>5, <2>6
<1> QED
  BY <1>5, <1>6, <1>7

(* A handler that starts: it keeps the configuration and spares its rules, *)
(* or none is armed and it puts the rules of its own in place, if any.     *)
LEMMA StartArms ==
    ASSUME ArmInv, todo = <<>>, NEW P \in Seq(Cmds), NEW kept \in Configs \cup {None}, NEW revived \in SUBSET Hosts,
           NEW g \in Goals, Start(P, kept, revived, g), up' = TRUE, strict' \in BOOLEAN, allowedRanges' \subseteq Gateways,
           \/ /\ kept = armed /\ g.arm = armed /\ strict'
              /\ armed # None => P \in Seq(KeepsRules)
           \/ kept = None /\ g.arm = None
           \/ /\ kept = None /\ g.arm \in Configs /\ Arms(P, g.arm)
              /\ (4 \in linked /\ P \in Seq(KeepsLinks)) \/ Commanded(P, 4)
    PROVE  ArmInv'
<1>1. /\ todo' = P /\ goal' = g /\ armed' = kept /\ UNCHANGED <<linked, enabled, allowNets, blockNets, dnsServers>>
      /\ shielded' = (shielded /\ g.shield) /\ granted' = granted \cup g.grant \cup revived
  BY DEF Start, firewall
<1>2. TypeOK'
  <2>1. g.grant \in SUBSET Hosts
    BY DEF Goals
  <2>2. (shielded /\ g.shield) \in BOOLEAN
    BY DEF ArmInv, Running, TypeOK, Goals
  <2>3. shielded' \in BOOLEAN
    BY <1>1, <2>2
  <2> QED
    BY <1>1, <2>1, <2>3 DEF ArmInv, Running, TypeOK
<1>3. Running'
  BY <1>1, <1>2 DEF Running
<1>4. CASE kept = armed /\ g.arm = armed /\ strict' /\ (armed # None => P \in Seq(KeepsRules))
  <2>1. armed' = armed /\ goal'.arm = armed /\ (armed # None => todo' \in Seq(KeepsRules))
    BY <1>1, <1>4
  <2>2. armed # None => RulesHold(armed)'
    BY <1>1, <1>4 DEF ArmInv, RulesHold
  <2> QED
    BY <1>3, <1>4, <2>1, <2>2 DEF ArmInv
<1>5. CASE kept = None /\ g.arm = None
  BY <1>1, <1>3, <1>5 DEF ArmInv
<1>6. CASE /\ kept = None /\ g.arm \in Configs /\ Arms(P, g.arm)
           /\ (4 \in linked /\ P \in Seq(KeepsLinks)) \/ Commanded(P, 4)
  <2>1. PICK cfg \in Configs : cfg = g.arm
    BY <1>6
  <2>2. WillLink(4)'
    BY <1>1, <1>6 DEF WillLink
  <2>3. \A a : Settles(P, Raising(a), KeepsAnchor(a)) => WillRaise(a, 4)'
    BY <1>1, SettlesRaise DEF WillRaise
  <2>4. RulesWill(cfg)'
    BY <1>1, <1>6, <2>1, <2>2, <2>3 DEF RulesWill, Arms, Will
  <2>5. ServerWill(cfg)'
    BY <1>1, <1>6, <2>1, <2>3 DEF ServerWill, Arms, Will
  <2>6. goal'.arm = cfg /\ armed' = None
    BY <1>1, <1>6, <2>1
  <2>7. RulesWill(goal.arm)' /\ ServerWill(goal.arm)'
    BY <2>4, <2>5, <2>6 DEF RulesWill, ServerWill
  <2> QED
    BY <1>3, <2>6, <2>7 DEF ArmInv
<1> QED
  BY <1>4, <1>5, <1>6

(* enableKillSwitch() and applyFirewallRules() start.                      *)
LEMMA EnableArmed ==
    ASSUME ArmInv, NEW cfg \in Configs, Enable(cfg)
    PROVE  ArmInv'
<1> DEFINE P == EnableProgram(cfg)
           g == [arm |-> cfg, shield |-> Full(cfg), grant |-> Outside(cfg), opens |-> FALSE]
<1>1. /\ todo = <<>> /\ up /\ strict' = strict /\ up' = up /\ allowedRanges' = allowedRanges
      /\ Start(P, None, allowNets, g)
  BY DEF Enable, Idle
<1>2. /\ strict' \in BOOLEAN /\ allowedRanges' \subseteq Gateways /\ up' = TRUE /\ allowNets \in SUBSET Hosts
  BY <1>1 DEF ArmInv, Running, TypeOK
<1>3. g \in Goals /\ g.arm = cfg
  BY ConfigFacts DEF Goals
<1>4. Arms(P, cfg) /\ P \in Seq(Cmds) /\ ((4 \in linked /\ P \in Seq(KeepsLinks)) \/ Commanded(P, 4))
  BY EnableArms, EnableLinks DEF Arms
<1> HIDE DEF P, g
<1> QED
  BY <1>1, <1>2, <1>3, <1>4, StartArms

(* The rules survive the handlers that keep the configuration.             *)
LEMMA SparingPrograms ==
    /\ BlockProgram \in Seq(KeepsRules) /\ BlockProgram \in Seq(Cmds)
    /\ \A nets \in SUBSET Hosts : ResetAllowedRangeProgram(nets) \in Seq(KeepsRules)
                                  /\ ResetAllowedRangeProgram(nets) \in Seq(Cmds)
<1>1. \A fams \in SUBSET Both, a \in AnchorNames : SetAnchorEnabled(fams, a, TRUE) \in KeepsRules
  BY AnchorIs DEF IsAnchor, KeepsRules, Unlinks, Lowers
<1>2. BlockProgram \in Seq(KeepsRules)
  <2>1. /\ SetAnchorEnabled(Both, "100.blockAll", TRUE) \in KeepsRules
        /\ SetAnchorEnabled(Both, "000.allowLoopback", TRUE) \in KeepsRules
        /\ SetAnchorEnabled(IPv6, "250.blockIPv6", TRUE) \in KeepsRules
    BY <1>1, AnchorsAndFamilies
  <2> QED
    BY <2>1, Triple DEF BlockProgram
<1>3. ASSUME NEW nets \in SUBSET Hosts
      PROVE  ResetAllowedRangeProgram(nets) \in Seq(KeepsRules)
  <2>1. SetAnchorEnabled(IPv4, "110.allowNets", TRUE) \in KeepsRules
    BY <1>1, AnchorsAndFamilies
  <2>2. UpdateAllowNets(nets) \in Seq(KeepsRules)
    <3>1. /\ UpdateAllowNets(nets)[1] \in KeepsRules /\ UpdateAllowNets(nets)[2] \in KeepsRules
          /\ Len(UpdateAllowNets(nets)) = 2 /\ UpdateAllowNets(nets) \in Seq(Cmds)
      BY NetsAre DEF IsNets, KeepsRules, Unlinks, Lowers
    <3> QED
      BY <3>1, SeqOf
  <2> DEFINE s == <<SetAnchorEnabled(IPv4, "110.allowNets", TRUE)>>
             t == UpdateAllowNets(nets)
  <2>3. s \in Seq(KeepsRules) /\ t \in Seq(KeepsRules)
    <3>1. \A c \in KeepsRules : <<c>> \in Seq(KeepsRules)
      OBVIOUS
    <3> QED
      BY <2>1, <2>2, <3>1, Zenon
  <2>4. ResetAllowedRangeProgram(nets) = s \o t
    BY DEF ResetAllowedRangeProgram
  <2> HIDE DEF s, t
  <2>5. s \o t \in Seq(KeepsRules)
    BY <2>3
  <2> QED
    BY <2>4, <2>5
<1>4. Seq(KeepsRules) \subseteq Seq(Cmds)
  BY DEF KeepsRules
<1> QED
  BY <1>2, <1>3, <1>4

(* disableAllTraffic() finds the chains of an armed kill switch linked.    *)
LEMMA DisableAllTrafficArmed ==
    ASSUME ArmInv, todo = <<>>, DisableAllTraffic, up' = TRUE, strict' = TRUE
    PROVE  ArmInv'
<1> DEFINE P == DisableAllTrafficProgram
           g == [arm |-> armed, shield |-> TRUE, grant |-> granted, opens |-> FALSE]
<1>1. P = EnsureInstalled \o BlockProgram
  BY DEF DisableAllTrafficProgram, BlockProgram
<1>2. P \in Seq(Cmds)
  BY <1>1, EnsureLinks, SparingPrograms, Concat
<1>3. armed # None => P \in Seq(KeepsRules)
  <2>1. armed # None => EnsureInstalled = <<>>
    BY DEF ArmInv, RulesHold, EnsureInstalled, IsInstalled
  <2>2. EnsureInstalled = <<>> => P = BlockProgram
    BY <1>1, SparingPrograms
  <2> QED
    BY <2>1, <2>2, SparingPrograms
<1>4. Start(P, armed, {}, g) /\ allowedRanges' \subseteq Gateways
  BY DEF DisableAllTraffic
<1>5. g \in Goals /\ g.arm = armed /\ {} \in SUBSET Hosts /\ armed \in Configs \cup {None} /\ strict' \in BOOLEAN
  BY DEF Goals, ArmInv, Running, TypeOK
<1> HIDE DEF P, g
<1> QED
  BY <1>2, <1>3, <1>4, <1>5, StartArms

(* disableKillSwitch() leaves no configuration armed.                      *)
LEMMA DisableKillSwitchArmed ==
    ASSUME ArmInv, todo = <<>>, NEW keepBlocked \in BOOLEAN, DisableKillSwitch(keepBlocked), up' = TRUE,
           strict' \in BOOLEAN
    PROVE  ArmInv'
<1> DEFINE P == DisableKillSwitchProgram(keepBlocked)
           g == [arm |-> None, shield |-> keepBlocked, grant |-> {}, opens |-> ~keepBlocked]
<1>1. P \in Seq(Cmds)
  <2>1. SwitchProgram(keepBlocked) \in Seq(Cmds)
    BY SwitchProgramFacts, SeqCmds
  <2>2. Uninstall \in Seq(Cmds) /\ <<>> \in Seq(Cmds)
    <3>1. [op |-> "unlink", fam |-> 4] \in Cmds /\ [op |-> "wipe"] \in Cmds
      BY DEF Cmds, IPv4
    <3> QED
      BY <3>1 DEF Uninstall
  <2>3. P = SwitchProgram(keepBlocked) \o (IF keepBlocked THEN <<>> ELSE Uninstall)
    BY DEF DisableKillSwitchProgram, SwitchProgram
  <2> QED
    BY <2>1, <2>2, <2>3, Concat
<1>2. Start(P, None, {}, g) /\ allowedRanges' \subseteq Gateways
  BY DEF DisableKillSwitch
<1>3. g \in Goals /\ g.arm = None /\ {} \in SUBSET Hosts
  <2>1. (~keepBlocked) \in BOOLEAN
    OBVIOUS
  <2> QED
    BY <2>1 DEF Goals
<1> HIDE DEF P, g
<1> QED
  BY <1>1, <1>2, <1>3, StartArms

(* addAllowedRange() replaces the rules of 110.allowNets only.             *)
LEMMA AddAllowedRangeArmed ==
    ASSUME ArmInv, NEW h \in Gateways, AddAllowedRange(h)
    PROVE  ArmInv'
<1> DEFINE ranges == allowedRanges \cup {h}
           P == ResetAllowedRangeProgram(ranges)
           g == [arm |-> armed, shield |-> shielded, grant |-> ranges, opens |-> FALSE]
<1>1. /\ todo = <<>> /\ up /\ strict /\ strict' = strict /\ up' = up /\ allowedRanges' = ranges
      /\ Start(P, armed, allowNets, g)
  BY DEF AddAllowedRange, Idle
<1>2. /\ strict' \in BOOLEAN /\ strict' /\ ranges \subseteq Gateways /\ up' = TRUE /\ allowNets \in SUBSET Hosts
      /\ armed \in Configs \cup {None} /\ ranges \in SUBSET Hosts
  BY <1>1, HostsAssumption DEF ArmInv, Running, TypeOK
<1>3. g \in Goals /\ g.arm = armed
  BY <1>2 DEF Goals, ArmInv, Running, TypeOK
<1>4. P \in Seq(KeepsRules) /\ P \in Seq(Cmds)
  BY <1>2, SparingPrograms
<1> HIDE DEF P, g, ranges
<1> QED
  BY <1>1, <1>2, <1>3, <1>4, StartArms

(* ArmInv holds throughout, also where install() is interrupted.           *)
LEMMA NextArms ==
    ASSUME ArmInv, [Next]_vars
    PROVE  ArmInv'
<1>1. CASE UNCHANGED vars
  <2>1. /\ strict' = strict /\ up' = up /\ todo' = todo /\ goal' = goal /\ armed' = armed /\ shielded' = shielded
        /\ granted' = granted /\ allowedRanges' = allowedRanges
        /\ UNCHANGED <<linked, enabled, allowNets, blockNets, dnsServers>>
    BY <1>1 DEF vars, firewall, promises
  <2>2. Running'
    BY <2>1 DEF ArmInv, Running, TypeOK
  <2>3. armed # None => RulesHold(armed)' /\ (ServerHolds(armed) => ServerHolds(armed)')
    BY <2>1 DEF ArmInv, RulesHold, ServerHolds
  <2>4. RulesWill(goal.arm) /\ ServerWill(goal.arm) => RulesWill(goal.arm)' /\ ServerWill(goal.arm)'
    BY <2>1 DEF RulesWill, ServerWill, Will, WillLink, WillRaise
  <2> QED
    BY <2>1, <2>2, <2>3, <2>4 DEF ArmInv
<1>2. CASE Step
  BY <1>2, StepArm
<1>3. CASE InitService
  <2>1. ~up /\ up' = TRUE /\ strict' = strict /\ todo = <<>> /\ strict \in BOOLEAN
    BY <1>3 DEF InitService, ArmInv, Running, TypeOK
  <2>2. CASE strict
    BY <1>3, <2>1, <2>2, DisableAllTrafficArmed DEF InitService
  <2>3. CASE ~strict
    <3>1. /\ allowedRanges' = {} /\ todo' = todo /\ goal' = goal /\ armed' = armed /\ shielded' = shielded
          /\ granted' = granted /\ UNCHANGED <<linked, enabled, allowNets, blockNets, dnsServers>>
      BY <1>3, <2>3 DEF InitService, firewall, promises
    <3>2. Running'
      BY <2>1, <3>1 DEF ArmInv, Running, TypeOK
    <3>3. armed # None => RulesHold(armed)' /\ (ServerHolds(armed) => ServerHolds(armed)')
      BY <3>1 DEF ArmInv, RulesHold, ServerHolds
    <3> QED
      BY <2>1, <3>1, <3>2, <3>3 DEF ArmInv
  <2> QED
    BY <2>2, <2>3
<1>4. CASE Disable
  BY <1>4, DisableKillSwitchArmed DEF Disable, Idle, ArmInv, Running, TypeOK
<1>5. CASE Crash
  <2>1. /\ allowedRanges' = {} /\ todo' = <<>> /\ up' = FALSE /\ armed' = armed /\ shielded' = shielded /\ strict' = strict
        /\ granted' = granted /\ UNCHANGED <<linked, enabled, allowNets, blockNets, dnsServers>>
        /\ goal' \in {goal, NoGoal}
    BY <1>5 DEF Crash, firewall, promises
  <2>2. NoGoal \in Goals
    BY DEF NoGoal, Goals
  <2>3. Running'
    <3>1. TypeOK'
      BY <2>1, <2>2 DEF ArmInv, Running, TypeOK
    <3> QED
      BY <2>1, <3>1 DEF Running
  <2>4. armed # None => RulesHold(armed)' /\ (ServerHolds(armed) => ServerHolds(armed)')
    BY <2>1 DEF ArmInv, RulesHold, ServerHolds
  <2>5. todo' \in Seq(KeepsRules)
    BY <2>1
  <2> QED
    BY <2>1, <2>3, <2>4, <2>5 DEF ArmInv
<1>6. CASE Reboot
  <2>1. NoGoal \in Goals
    BY DEF NoGoal, Goals
  <2>2. Running'
    <3>1. TypeOK'
      BY <1>6, <2>1 DEF Reboot, ArmInv, Running, TypeOK
    <3>2. todo' = <<>> /\ <<>> \in Seq(Cmds)
      BY <1>6 DEF Reboot
    <3> QED
      BY <3>1, <3>2 DEF Running
  <2> QED
    BY <1>6, <2>2 DEF ArmInv, Reboot
<1>7. CASE \E on \in BOOLEAN : Refresh(on)
  <2>1. PICK on \in BOOLEAN : Refresh(on)
    BY <1>7
  <2>2. todo = <<>> /\ up' = TRUE /\ strict' = on
    BY <2>1 DEF Refresh, Idle, ArmInv, Running, TypeOK
  <2>3. CASE on
    BY <2>1, <2>2, <2>3, DisableAllTrafficArmed DEF Refresh
  <2>4. CASE ~on
    BY <2>1, <2>2, <2>4, DisableKillSwitchArmed DEF Refresh
  <2> QED
    BY <2>3, <2>4
<1>8. CASE \E cfg \in Configs : Enable(cfg)
  BY <1>8, EnableArmed
<1>9. CASE \E h \in Gateways : AddAllowedRange(h)
  BY <1>9, AddAllowedRangeArmed
<1> QED
  BY <1>1, <1>2, <1>3, <1>4, <1>5, <1>6, <1>7, <1>8, <1>9 DEF Next

(* Nothing is armed at first.                                              *)
LEMMA InitialArms == Init => ArmInv
<1> SUFFICES ASSUME Init PROVE ArmInv
  OBVIOUS
<1>1. NoGoal \in Goals /\ todo = <<>> /\ <<>> \in Seq(Cmds)
  BY DEF NoGoal, Goals, Init
<1>2. TypeOK
  BY <1>1 DEF Init, TypeOK
<1> QED
  BY <1>1, <1>2 DEF Init, ArmInv, Running

(* The chain, rule by rule.                                                *)
LEMMA ChainIs ==
    /\ Len(RootChain) = 10
    /\ RootChain[1] = "000.allowLoopback" /\ RootChain[2] = "320.allowDNS" /\ RootChain[3] = "310.blockDNS"
    /\ RootChain[4] = "300.allowLAN" /\ RootChain[5] = "290.allowDHCP" /\ RootChain[6] = "250.blockIPv6"
    /\ RootChain[7] = "200.allowVPN" /\ RootChain[8] = "120.blockNets" /\ RootChain[9] = "110.allowNets"
    /\ RootChain[10] = "100.blockAll"
    /\ \A i \in 1..10 : RootChain[i] \notin Accepting => i \in {3, 6, 8, 10}
    /\ RootChain[3] \notin Accepting /\ RootChain[8] \notin Accepting /\ RootChain[9] \in Accepting
  BY DEF RootChain, Accepting

(* With the rules of a configuration in place a DNS query passes only      *)
(* inside the tunnel and to a resolver of the configuration.               *)
LEMMA RulesKeepDns ==
    ASSUME NEW cfg \in Configs, RulesHold(cfg), NEW p \in Packets, p.port = "dns", p.out # "lo",
           p.dst \notin Hosts6, ~Rejected(p)
    PROVE  p.out = "vpn" /\ p.dst \in Resolvers(cfg)
<1>1. Family(p) = 4 /\ 4 \in linked /\ <<"310.blockDNS", 4>> \in enabled
  BY DEF Family, RulesHold
<1>2. Hits(3, p)
  BY <1>1, ChainIs DEF Hits, Matches
<1>3. PICK j \in 1..2 : Hits(j, p) /\ RootChain[j] \in Accepting
  BY <1>1, <1>2, ChainIs DEF Rejected
<1>4. ~Matches("000.allowLoopback", p)
  BY DEF Matches
<1>5. j = 2 /\ Matches("320.allowDNS", p)
  BY <1>3, <1>4, ChainIs DEF Hits
<1> QED
  BY <1>5 DEF Matches, RulesHold

(* ... and no packet to a tunnelled IPv4 site leaves outside the tunnel.   *)
LEMMA RulesKeepSites ==
    ASSUME NEW cfg \in Configs, RulesHold(cfg), cfg.kind = "wg", NEW p \in Bypassing,
           p.dst \in TunnelledSites(cfg) \ Hosts6
    PROVE  Rejected(p)
<1>1. Family(p) = 4 /\ 4 \in linked /\ p.out = "phys" /\ p.dst \notin Lan /\ p.dst \notin Broadcast
  BY HostsAssumption DEF Family, RulesHold, Bypassing
<1>2. ~Full(cfg)
  BY DEF Full, TunnelledSites
<1>3. Hits(8, p)
  BY <1>1, <1>2, ChainIs DEF Hits, Matches, RulesHold
<1>4. \A j \in 1..7 : Hits(j, p) => RootChain[j] \notin Accepting
  <2>1. /\ ~Matches("000.allowLoopback", p) /\ ~Matches("320.allowDNS", p) /\ ~Matches("300.allowLAN", p)
        /\ ~Matches("290.allowDHCP", p) /\ ~Matches("200.allowVPN", p)
    BY <1>1 DEF Matches
  <2>2. \A j \in 1..7 : RootChain[j] \in Accepting =>
          RootChain[j] \in {"000.allowLoopback", "320.allowDNS", "300.allowLAN", "290.allowDHCP", "200.allowVPN"}
    BY DEF RootChain, Accepting
  <2> QED
    BY <2>1, <2>2 DEF Hits
<1> QED
  BY <1>1, <1>3, <1>4, ChainIs DEF Rejected

(* ... and the server is reached, unless WireGuard tunnels it as a site.   *)
LEMMA RulesReachServer ==
    ASSUME NEW cfg \in Configs, RulesHold(cfg), ServerHolds(cfg),
           cfg.kind = "wg" => cfg.server \notin TunnelledSites(cfg),
           enabled \subseteq CreatedChains, NEW p \in Bypassing, p.dst = cfg.server, p.port = "other"
    PROVE  ~Rejected(p)
<1>1. Family(p) = 4 /\ cfg.kind \in {"xray", "wg"}
  BY ConfigsAssumption DEF Family
<1>2. SUFFICES ASSUME NEW i \in 1..10, Hits(i, p), RootChain[i] \notin Accepting,
                      \A j \in 1..(i - 1) : Hits(j, p) => RootChain[j] \notin Accepting
               PROVE  FALSE
  BY ChainIs DEF Rejected
<1>3. i \in {3, 6, 8, 10}
  BY <1>2, ChainIs
<1>4. i # 3
  BY <1>2, ChainIs DEF Hits, Matches
<1>5. i # 6
  <2>1. <<"250.blockIPv6", 4>> \notin CreatedChains
    BY DEF CreatedChains, InstalledFor, IPv6
  <2> QED
    BY <1>1, <1>2, <2>1, ChainIs DEF Hits
<1>6. i # 8
  <2>1. Full(cfg) => TunnelledSites(cfg) = {}
    BY DEF Full, TunnelledSites
  <2>2. CASE Full(cfg) \/ cfg.kind = "wg"
    <3>1. p.dst \notin blockNets
      BY <2>1, <2>2 DEF RulesHold
    <3> QED
      BY <1>2, <3>1, ChainIs DEF Hits, Matches
  <2>3. CASE ~Full(cfg) /\ cfg.kind = "xray"
    BY <1>1, <1>2, <2>3, ChainIs DEF Hits, ServerHolds
  <2> QED
    BY <1>1, <2>2, <2>3
<1>7. i # 10
  <2>1. CASE Full(cfg)
    <3>1. Hits(9, p)
      BY <1>1, <2>1, ChainIs DEF Hits, Matches, ServerHolds
    <3>2. RootChain[9] \in Accepting /\ (i = 10 => 9 \in 1..(i - 1))
      BY ChainIs
    <3> QED
      BY <1>2, <3>1, <3>2, Zenon
  <2>2. CASE ~Full(cfg)
    BY <1>1, <1>2, <2>2, ChainIs DEF Hits, ServerHolds
  <2> QED
    BY <2>1, <2>2
<1> QED
  BY <1>3, <1>4, <1>5, <1>6, <1>7

(* The rules in place give the verdicts.                                   *)
LEMMA ArmedIsSound == ArmInv => ArmedVerdicts
<1> SUFFICES ASSUME ArmInv, armed # None PROVE ArmedVerdicts
  BY DEF ArmedVerdicts, ServerReachable, NoDnsLeak, WgSitesStayInTunnel
<1>1. armed \in Configs /\ RulesHold(armed) /\ enabled \subseteq CreatedChains /\ (~strict => ServerHolds(armed))
  BY DEF ArmInv, Running, TypeOK
<1>2. NoDnsLeak
  BY <1>1, RulesKeepDns DEF NoDnsLeak, Resolvers
<1>3. WgSitesStayInTunnel
  BY <1>1, RulesKeepSites DEF WgSitesStayInTunnel
<1>4. ServerReachable
  BY <1>1, RulesReachServer DEF ServerReachable
<1> QED
  BY <1>2, <1>3, <1>4 DEF ArmedVerdicts

(* The verdicts of an armed kill switch hold whatever came before, a       *)
(* service that died half way through install() included.                  *)
THEOREM ArmedVerdictsHold == Spec => []ArmedVerdicts
  BY InitialArms, NextArms, ArmedIsSound, PTL DEF Spec

(* Whatever handlers run, crash and run again, in whatever order: iptables *)
(* holds only chains install() created.                                    *)
THEOREM TableIsTyped == Spec => []TypeOK
<1>1. ArmInv => TypeOK
  BY DEF ArmInv, Running
<1> QED
  BY <1>1, InitialArms, NextArms, PTL DEF Spec
=============================================================================

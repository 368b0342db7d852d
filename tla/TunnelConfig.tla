---------------------------- MODULE TunnelConfig ----------------------------
(***************************************************************************)
(* The way of a WireGuard or AmneziaWG configuration from the gateway's    *)
(* answer to the tunnel: fillServerConfig stores it in a row,              *)
(* createVpnConfiguration reads the row when the user connects,            *)
(* appendSplitTunnelingConfig adds the user's split tunnelling settings,   *)
(* LocalSocketController::activate writes the message to the daemon,       *)
(* Daemon::parseConfig reads it, and the tunnel gets its text.  Every      *)
(* stage copies fields by hand, under names and types of its own.          *)
(*                                                                         *)
(* The parameters of the protocol form groups that are treated alike:      *)
(* "basic" (Jc .. H4), "special" (I1 .. I5), "bool" (RandomTrailers,       *)
(* DisableCookies), "header" (HeaderProtectionKey) and "device" (the times *)
(* and sizes).  An address range is "v4" (0.0.0.0/0), "v6" (::/0) or a     *)
(* name.                                                                   *)
(***************************************************************************)
EXTENDS Naturals, FiniteSets

VARIABLE tc

Groups == {"basic", "special", "bool", "header", "device"}
IniOnly == Groups \ {"basic"}   \* the groups that are recovered from the INI
FullTunnel == {"v4", "v6"}

\* Settings::RouteMode and AppsRouteMode
VpnAllSites == 0
VpnOnlyForwardSites == 1
VpnAllExceptSites == 2

\* A gateway answer.  json: the groups of last_config, under their short or
\* long names; key: client_priv_key; ini: is there an INI, and the groups in
\* it; allowed: allowed_ips of last_config ({}: none), iniAllowed: AllowedIPs.
GwAnswer(proto, names, json, key, ini, iniGroups, allowed, iniAllowed) ==
    [proto |-> proto, names |-> names, json |-> json, key |-> key, ini |-> ini, iniGroups |-> iniGroups,
     allowed |-> allowed, iniAllowed |-> iniAllowed]

\* The user's settings: sites and presets are the addresses they come to.
Setting(split, mode, sites, presets, lan, apps, appMode) ==
    [split |-> split, mode |-> mode, sites |-> sites, presets |-> presets, lan |-> lan, apps |-> apps, appMode |-> appMode]

\* All answers with plain settings, and all settings with a few answers.
GatewayAnswers ==
    {GwAnswer("awg", n, j, k, i, g, {}, FullTunnel) :
        n \in {"short", "long"}, j \in SUBSET Groups, k \in {"none", "placeholder", "server"},
        i \in BOOLEAN, g \in {{}, {"special"}, {"bool", "header"}, IniOnly}}
    \cup {GwAnswer("wireguard", "short", j, "server", TRUE, {}, a, FullTunnel) : j \in {{}, Groups}, a \in {{}, FullTunnel}}

Typical ==
    {GwAnswer(p, "short", {}, "server", TRUE, {}, a, ia) :
        p \in {"awg", "wireguard"}, a \in {{}, {"v4"}, FullTunnel, {"net"}}, ia \in {FullTunnel, {"v4"}, {"net"}}}

UserSettings ==
    {Setting(s, m, w, p, l, a, am) :
        s \in BOOLEAN, m \in {VpnOnlyForwardSites, VpnAllExceptSites}, w \in {{}, {"site"}, {"site", "cdn"}},
        p \in SUBSET {"follow", "direct", "vpn"}, l \in {{}, {"lan"}}, a \in {{}, {"app"}}, am \in 0 .. 2}

PlainSetting == Setting(FALSE, VpnOnlyForwardSites, {}, {}, {}, {}, 0)

Inputs == (GatewayAnswers \X {PlainSetting}) \cup (Typical \X UserSettings)

ConfigInit == \E in \in Inputs : tc = [stage |-> "fetched", ans |-> in[1], set |-> in[2]]

-----------------------------------------------------------------------------
(* fillServerConfig. *)

\* The server's private key if there is one, otherwise the generated one.
effectiveClientPrivKey(a) == IF a.key = "server" THEN "server" ELSE "own"

\* The INI written when the answer has none: it has no booleans, and what
\* last_config names by its long name is empty.
SynthesizedIni(a) == [groups |-> IF a.names = "short" THEN a.json \ {"bool"} ELSE {}, allowed |-> {"v4"}]

AnswerIni(a) == [groups |-> IF a.ini THEN a.iniGroups ELSE {}, allowed |-> IF a.ini THEN a.iniAllowed ELSE {}]

\* Only for AmneziaWG the key is put in place and an INI made.
fillServerConfig(a) ==
    IF a.proto = "awg"
    THEN [proto |-> a.proto, names |-> a.names, json |-> a.json, key |-> effectiveClientPrivKey(a),
          ini |-> IF a.ini THEN AnswerIni(a) ELSE SynthesizedIni(a), allowed |-> a.allowed]
    ELSE [proto |-> a.proto, names |-> a.names, json |-> a.json, key |-> a.key, ini |-> AnswerIni(a), allowed |-> a.allowed]

Fill ==
    /\ tc.stage = "fetched"
    /\ tc' = [stage |-> "stored", ans |-> tc.ans, set |-> tc.set, row |-> fillServerConfig(tc.ans)]

-----------------------------------------------------------------------------
(* createVpnConfiguration. *)

\* awgJunkKeyMap
normalizeNames(row) == row.json

\* allowed_ips, or AllowedIPs of the INI without its IPv6 ranges (the client
\* address is IPv4), or everything over IPv4.
allowedIps(row) ==
    IF row.allowed # {} THEN row.allowed
    ELSE IF row.ini.allowed \ {"v6"} # {} THEN row.ini.allowed \ {"v6"} ELSE {"v4"}

createVpnConfiguration(row) ==
    LET json == normalizeNames(row)
    IN  [proto |-> row.proto, key |-> row.key, params |-> json \cup (row.ini.groups \cap IniOnly), allowed |-> allowedIps(row)]

-----------------------------------------------------------------------------
(* appendSplitTunnelingConfig. *)

\* Mutant: an empty list keeps the mode of the user.
MutsiteMode(c, set) == IF ~set.split THEN VpnAllSites ELSE set.mode

\* Site lists are for configurations that carry all of IPv4; an empty list
\* is no split tunnelling.
siteMode(c, set) ==
    IF ~set.split THEN VpnAllSites
    ELSE IF "v4" \in c.allowed /\ set.sites = {} THEN VpnAllSites
    ELSE set.mode

splitSites(c, set) ==
    IF ~set.split \/ "v4" \notin c.allowed \/ set.sites = {} THEN {}
    ELSE set.sites \cup (IF set.mode = VpnOnlyForwardSites THEN {"dns1", "dns2"} ELSE {})

\* The sets of the mobile platforms: the manual list in its direction, and
\* the presets that are checked as the exceptions.  Addresses of shared
\* networks ("cdn") are not excluded when any preset is checked.
includeSites(c, set) ==
    IF ~set.split \/ "v4" \notin c.allowed \/ siteMode(c, set) # VpnOnlyForwardSites THEN {}
    ELSE splitSites(c, set) \cup (set.presets \ {"direct"})

excludeSites(c, set) ==
    IF ~set.split \/ "v4" \notin c.allowed \/ siteMode(c, set) = VpnOnlyForwardSites THEN {}
    ELSE LET sites == IF siteMode(c, set) = VpnAllExceptSites THEN splitSites(c, set) ELSE {}
         IN  IF set.presets = {} THEN sites ELSE (sites \cup (set.presets \ {"vpn"})) \ {"cdn"}

\* The applications; an empty list is no split tunnelling.
appsMode(set) == IF set.apps = {} THEN 0 ELSE set.appMode

appendSplitTunnelingConfig(c, set) ==
    [proto |-> c.proto, key |-> c.key, params |-> c.params, allowed |-> c.allowed,
     type |-> siteMode(c, set), sites |-> splitSites(c, set),
     include |-> includeSites(c, set), exclude |-> excludeSites(c, set),
     lan |-> set.lan, appType |-> appsMode(set), apps |-> set.apps]

ConfigureTunnel ==
    /\ tc.stage = "stored"
    /\ tc' = [stage |-> "configured", ans |-> tc.ans, set |-> tc.set,
              config |-> appendSplitTunnelingConfig(createVpnConfiguration(tc.row), tc.set)]

-----------------------------------------------------------------------------
(* LocalSocketController::activate. *)

\* AllowedIPs of the configuration come before the mode, unless they are
\* exactly the default list.
allowedRanges(c) ==
    IF c.allowed # FullTunnel THEN c.allowed
    ELSE IF c.type = VpnOnlyForwardSites THEN c.sites ELSE FullTunnel

excludedAddresses(c) == {"server"} \cup (IF c.type = VpnAllExceptSites THEN c.sites ELSE {}) \cup c.lan

vpnDisabledApps(c) == IF c.appType = 2 THEN c.apps ELSE {}

\* AmneziaWG sends what there is; another protocol all of it, if the basic
\* parameters are there.
sentParams(c) == IF c.proto = "awg" \/ "basic" \in c.params THEN c.params ELSE {}

\* The parameters in the members of InterfaceConfig.  The entries of
\* m_specialJunk are always made, empty without a value.
parseParams(msg) ==
    [g \in Groups |-> IF g \in msg.params THEN "value" ELSE IF g = "special" THEN "empty" ELSE "null"]

\* Daemon::parseConfig refuses a message without a key.
parseConfig(msg) ==
    IF msg.key = "none" THEN {}
    ELSE {[key |-> msg.key, params |-> parseParams(msg), ranges |-> msg.ranges, excluded |-> msg.excluded, apps |-> msg.apps]}

\* The text of the tunnel, set=1 on Linux and macOS: the booleans come as
\* "on" and go as 1, the header key comes in base64 and goes in hex.
uapiText(cfg) ==
    [g \in Groups |-> IF cfg.params[g] = "null" THEN "absent" ELSE IF cfg.params[g] = "empty" THEN "empty"
                      ELSE IF g = "bool" THEN "bit" ELSE IF g = "header" THEN "hex" ELSE "verbatim"]

\* InterfaceConfig::toWgConf, the configuration file of Windows.
toWgConf(cfg) ==
    [g \in Groups |-> IF cfg.params[g] = "null" THEN "absent" ELSE IF cfg.params[g] = "empty" THEN "empty" ELSE "verbatim"]

ActivateMessage ==
    /\ tc.stage = "configured"
    /\ LET c == tc.config
           parsed == parseConfig([key |-> c.key, params |-> sentParams(c), ranges |-> allowedRanges(c),
                                  excluded |-> excludedAddresses(c), apps |-> vpnDisabledApps(c)])
       IN  IF parsed = {} THEN tc' = [tc EXCEPT !.stage = "refused"]
           ELSE \E cfg \in parsed :
                    tc' = [stage |-> "tunnel", ans |-> tc.ans, set |-> tc.set, config |-> c, tun |-> cfg,
                           uapi |-> uapiText(cfg), conf |-> toWgConf(cfg)]

ConfigNext == Fill \/ ConfigureTunnel \/ ActivateMessage
ConfigSpec == ConfigInit /\ [][ConfigNext]_tc

-----------------------------------------------------------------------------
(* Properties. *)

\* Every obfuscation parameter that the gateway sent, in last_config under
\* either name or in the INI, reaches the tunnel of every platform in the form
\* that it reads, and no other does: a peer whose parameters differ in one of
\* the copies never completes a handshake.
ParametersArrive ==
    tc.stage = "tunnel" /\ tc.ans.proto = "awg" =>
        LET sent == tc.ans.json \cup (IF tc.ans.ini THEN tc.ans.iniGroups ELSE {})
        IN  \A g \in Groups :
                IF g \in sent
                THEN /\ tc.conf[g] = "verbatim"
                     /\ tc.uapi[g] = IF g = "bool" THEN "bit" ELSE IF g = "header" THEN "hex" ELSE "verbatim"
                ELSE tc.conf[g] \in {"absent", "empty"} /\ tc.uapi[g] \in {"absent", "empty"}

\* The tunnel uses the private key whose public key the server registered:
\* the server's own if it sent one, otherwise the one of the request.
KeyIsRegistered == tc.stage = "tunnel" => tc.tun.key = IF tc.ans.key = "server" THEN "server" ELSE "own"

\* Split tunnelling with an empty site list is no split tunnelling: the
\* tunnel never ends up with nothing to carry, nor with less than it would
\* have carried without the setting (siteMode, allowedRanges).
EmptyListCarriesAll ==
    tc.stage = "tunnel" =>
        /\ tc.tun.ranges # {}
        /\ tc.set.sites = {} => tc.tun.ranges = tc.config.allowed

\* The sites that must not be accessed through the VPN are excluded whenever
\* the tunnel would carry them, and no others are.
ListedSitesBypass ==
    tc.stage = "tunnel" =>
        tc.tun.excluded \ {"server"} =
            (IF tc.set.split /\ tc.set.mode = VpnAllExceptSites /\ "v4" \in tc.config.allowed THEN tc.set.sites ELSE {}) \cup tc.set.lan

\* A service that always goes direct is never included, one that always goes
\* through the VPN never excluded, and nothing is both included and excluded,
\* whatever presets are checked in whatever mode.
PresetsKeepDirection ==
    tc.stage = "tunnel" =>
        "direct" \notin tc.config.include /\ "vpn" \notin tc.config.exclude /\ tc.config.include \cap tc.config.exclude = {}

\* The tunnel is the one that the gateway described and the user asked for,
\* for every combination of both: parameters, key, ranges and exclusions.
TunnelIsAsAsked ==
    ParametersArrive /\ KeyIsRegistered /\ EmptyListCarriesAll /\ ListedSitesBypass /\ PresetsKeepDirection
=============================================================================

------------------------------- MODULE MCState -------------------------------
(***************************************************************************)
(* The components that keep a state for somebody else: the client's        *)
(* settings and the configuration made from them, and what the service     *)
(* writes into the system (routes, resolvers, filters, the split-tunnel    *)
(* driver).  Their modules share no state, so one of them runs (part) and  *)
(* the others stay in an initial state: the behaviours are those of each   *)
(* component on its own, all in one run.                                   *)
(***************************************************************************)
EXTENDS SecureSettings, TunnelConfig, AppSettings, RouteSession, DnsUtils, RouteTool,
        WindowsFirewall, WindowsRoutes, WindowsSplitTunnel, MacRoutes

VARIABLE part

stateVars == <<part, settingsVars, tc, appSettingsVars, routesVars, dnsVars, toolVars, wf, wr, sp, mr>>

\* Constants.  Prefixes of the Windows table are strings of bits.
MCAddressesOf == [h \in SiteNames |-> {"ip1"}]
MCIps == {<<0, 0, 0, 0>>, <<128, 0, 0, 0>>, <<10, 0, 0, 0>>, <<10, 1, 0, 0>>, <<10, 1, 2, 3>>, <<0, 0, 1, 2>>}
MCGates == {<<10, 33, 0, 2>>, <<192, 168, 1, 1>>}
MCWrIfs == <<"eth", "wifi">>
MCLanRange == <<1>>
MCServerPrefix == <<0, 1>>
MCSysPrefixes == {<<>>, <<0, 1>>, <<1, 0>>}
MCMacHops == [f \in Families |-> IF f = "v4" THEN {<<"eth", 1>>, <<"eth", 2>>, <<"wifi", 1>>} ELSE {<<"eth", 1>>}]

\* The pages of the settings share the store and nothing else: one of them is
\* used, next to what acts on the whole store.
SettingsPages == {"sites", "apps", "lists", "presets", "switches"}

SettingsEdits ==
  \/ part = "sites" /\ EditSites
  \/ part = "apps" /\ EditApps
  \/ part = "lists" /\ EditLists
  \/ part = "presets" /\ EditPresets
  \/ part = "switches" /\ EditSwitches
  \/ ControlStore

AnyInput == CHOOSE in \in Inputs : TRUE

\* A component that runs starts in any of its initial states, another in one.
Frozen(p, state) == part \in p \/ state

StateInit ==
  /\ part \in SettingsPages \cup {"secure", "config", "routes", "dns", "tool", "firewall", "winroutes", "split", "mac"}
  /\ FirewallInit /\ WrInit /\ SplitInit /\ MacInit /\ ToolInit
  /\ SettingsInit /\ Frozen({"secure"}, accepted = NoValue)
  /\ AppSettingsInit /\ Frozen(SettingsPages, shown.os = "linux")
  /\ RoutesInit /\ Frozen({"routes"}, env.mode = (CHOOSE m \in Modes : TRUE) /\ env.platform = (CHOOSE p \in Platforms : TRUE))
  /\ DnsInit /\ Frozen({"dns"}, hist.platform = "windows" /\ \A l \in Links : os[l].servers = {"user"})
  /\ ConfigInit /\ Frozen({"config"}, <<tc.ans, tc.set>> = AnyInput)

StateNext ==
  \/ /\ part = "secure" /\ SettingsNext
     /\ UNCHANGED <<part, tc, appSettingsVars, routesVars, dnsVars, toolVars, wf, wr, sp, mr>>
  \/ /\ part = "config" /\ ConfigNext
     /\ UNCHANGED <<part, settingsVars, appSettingsVars, routesVars, dnsVars, toolVars, wf, wr, sp, mr>>
  \/ /\ part \in SettingsPages /\ SettingsEdits
     /\ UNCHANGED <<part, settingsVars, tc, routesVars, dnsVars, toolVars, wf, wr, sp, mr>>
  \/ /\ part = "routes" /\ RoutesNext
     /\ UNCHANGED <<part, settingsVars, tc, appSettingsVars, dnsVars, toolVars, wf, wr, sp, mr>>
  \/ /\ part = "dns" /\ DnsNext
     /\ UNCHANGED <<part, settingsVars, tc, appSettingsVars, routesVars, toolVars, wf, wr, sp, mr>>
  \/ /\ part = "tool" /\ ToolNext
     /\ UNCHANGED <<part, settingsVars, tc, appSettingsVars, routesVars, dnsVars, wf, wr, sp, mr>>
  \/ /\ part = "firewall" /\ FirewallNext
     /\ UNCHANGED <<part, settingsVars, tc, appSettingsVars, routesVars, dnsVars, toolVars, wr, sp, mr>>
  \/ /\ part = "winroutes" /\ WrNext
     /\ UNCHANGED <<part, settingsVars, tc, appSettingsVars, routesVars, dnsVars, toolVars, wf, sp, mr>>
  \/ /\ part = "split" /\ SplitNext
     /\ UNCHANGED <<part, settingsVars, tc, appSettingsVars, routesVars, dnsVars, toolVars, wf, wr, mr>>
  \/ /\ part = "mac" /\ MacNext
     /\ UNCHANGED <<part, settingsVars, tc, appSettingsVars, routesVars, dnsVars, toolVars, wf, wr, sp>>

StateSpec == StateInit /\ [][StateNext]_stateVars
=============================================================================

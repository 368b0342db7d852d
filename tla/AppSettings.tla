----------------------------- MODULE AppSettings -----------------------------
(***************************************************************************)
(* The application settings and the models that show them: the list of     *)
(* sites and its direction, the applications, the allowed DNS servers, the  *)
(* local subnets, the service presets, the gateway, the log switch, and     *)
(* the settings controller's backup, restore and reset.                     *)
(*                                                                          *)
(* Every model keeps a copy of its part of the store and writes the copy    *)
(* back; reset and restore write the store underneath.  Host names are      *)
(* resolved and presets fetched in the background, so their answers arrive  *)
(* in any order and after anything else the user does.                      *)
(***************************************************************************)
EXTENDS Integers, Sequences, FiniteSets, SequencesExt, TLC

CONSTANTS SiteNames,      \* host names the user may list
          SiteNets,       \* addresses and subnets the user may list
          AddressesOf,    \* [SiteNames -> the addresses DNS may answer]
          SettingsOps,    \* bound: the user's operations
          MaxPublished,   \* bound: catalogues of presets the server publishes
          MaxFetches      \* bound: preset fetches in flight

VARIABLES prefs,    \* the store: a function from the keys present to values
          shown,    \* what the models and controllers hold in memory
          flight,   \* lookups and fetches not yet answered
          catalog,  \* the version of presets the server publishes
          saved,    \* the backup file
          done      \* operations so far

appSettingsVars == <<prefs, shown, flight, catalog, saved, done>>

Systems == {"windows", "android", "linux"}
NoIp == ""
NoFile == [none |-> TRUE]
Apps == {"app"}
Resolvers == {"ns1", "ns2"}

----------------------------------------------------------------------------
(* The store.                                                              *)

Pref(p, key, default) == IF key \in DOMAIN p THEN p[key] ELSE default

SetPref(p, key, value) == (key :> value) @@ p

SitesKey(mode) == <<"AllSites", "ForwardSites", "ExceptSites">>[mode + 1]
AppsKey(mode) == <<"AllApps", "ForwardApps", "ExceptApps">>[mode + 1]

vpnSites(p, mode) == Pref(p, SitesKey(mode), <<>>)
getVpnApps(p, mode) == Pref(p, AppsKey(mode), <<>>)

addVpnSite(p, mode, site, ip) ==
  LET sites == vpnSites(p, mode)
  IN  IF site \in DOMAIN sites /\ ip = NoIp
      THEN p
      ELSE SetPref(p, SitesKey(mode), (site :> ip) @@ sites)

addVpnSites(p, mode, sites) == SetPref(p, SitesKey(mode), sites @@ vpnSites(p, mode))

removeVpnSite(p, mode, site) ==
  LET sites == vpnSites(p, mode)
  IN  IF site \notin DOMAIN sites
      THEN p
      ELSE SetPref(p, SitesKey(mode), [h \in DOMAIN sites \ {site} |-> sites[h]])

removeAllVpnSites(p, mode) == SetPref(p, SitesKey(mode), <<>>)

\* An entry as typed: its layout, and what parseSubnet makes of it ("none":
\* not an address).  The canonical text has the plain layout.
Subnet(layout, net, family, bits) ==
  [layout |-> layout, net |-> net, family |-> family, bits |-> bits]

TypedSubnets ==
  { Subnet("plain", "lan", "v4", 24), Subnet("spaced", "lan", "v4", 24),
    Subnet("plain", "any", "v4", 0), Subnet("plain", "host6", "v6", 128),
    Subnet("plain", "word", "none", 0) }

IsSubnet(e) ==
  /\ e.family \in {"v4", "v6"}
  /\ e.bits >= 1
  /\ e.bits <= (IF e.family = "v6" THEN 128 ELSE 32)

normalizeSubnetExclusions(raw) ==
  FoldLeft(LAMBDA list, e :
             LET canonical == [e EXCEPT !.layout = "plain"]
             IN  IF ~IsSubnet(e) \/ Contains(list, canonical)
                 THEN list ELSE Append(list, canonical),
           <<>>, raw)

localSubnetExclusions(p) ==
  normalizeSubnetExclusions(Pref(p, "localSubnetExclusions", <<>>))

setLocalSubnetExclusions(p, list) ==
  SetPref(p, "localSubnetExclusions", normalizeSubnetExclusions(list))

\* The installation's id outlives the reset.
clearPrefs(p) == "installationUuid" :> Pref(p, "installationUuid", "")

\* A backup holds the keys present, but not the installation's id; the
\* platform and the autostart switch of the system are added to it.
backupAppConfig(p, os, auto) ==
  [k \in DOMAIN p \ {"installationUuid"} |-> p[k]]
    @@ [AppPlatform |-> os, autoStart |-> auto]

\* Restoring sets the keys of the file and leaves the others.
restorePrefs(p, file) ==
  [k \in DOMAIN file \ {"installationUuid"} |-> file[k]] @@ p

----------------------------------------------------------------------------
(* Presets: the built-in ones, and those the server publishes.             *)

Preset(id, domains) == [id |-> id, domains |-> domains]

BuiltinPresets == << Preset("youtube", {"y1"}), Preset("banking", {"b1"}) >>

\* The catalogue of each version: one new, one that redefines a built-in
\* preset, one entry without domains.
Published(version) ==
  CASE version = 0 -> <<>>
    [] version = 1 -> << Preset("youtube", {"y2"}), Preset("news", {"n1"}) >>
    [] OTHER       -> << Preset("news", {"n2"}), Preset("hollow", {}) >>

UsablePresets(list) == SelectSeq(list, LAMBDA x : x.id # "" /\ x.domains # {})

unionDomains(builtin, api) == [api EXCEPT !.domains = builtin.domains \cup @]

\* Built-in presets the server does not know come first; one it knows gives
\* its domains to the server's.
mergeWithApi(api) ==
  LET Ids(list)   == { list[i].id : i \in DOMAIN list }
      Builtin(id) == CHOOSE b \in Range(BuiltinPresets) : b.id = id
  IN  SelectSeq(BuiltinPresets, LAMBDA b : b.id \notin Ids(api))
        \o [i \in DOMAIN api |->
              IF api[i].id \in Ids(BuiltinPresets)
              THEN unionDomains(Builtin(api[i].id), api[i]) ELSE api[i]]

\* A cache without text makes the version worthless.
loadFromCache(p) ==
  IF "splitPresetsCache" \notin DOMAIN p
  THEN [version |-> 0, api |-> <<>>]
  ELSE [version |-> Pref(p, "splitPresetsVersion", 0),
        api     |-> UsablePresets(p["splitPresetsCache"])]

saveToCache(p, version, api) ==
  SetPref(SetPref(p, "splitPresetsCache", api), "splitPresetsVersion", version)

----------------------------------------------------------------------------
(* The models.                                                             *)

\* The rows of a stored list of sites (a sorted map: the order is fixed).
fillSites(p, mode) ==
  LET sites == vpnSites(p, mode)
      names == SetToSeq(DOMAIN sites)
  IN  [i \in DOMAIN names |-> <<names[i], sites[names[i]]>>]

\* An old store may hold mode 0, which no longer has a page.
MigrateModes(p) ==
  LET q == IF Pref(p, "routeMode", 0) = 0 THEN SetPref(p, "routeMode", 1) ELSE p
  IN  IF Pref(q, "appsRouteMode", 0) = 0 THEN SetPref(q, "appsRouteMode", 2) ELSE q

\* Logs switch themselves off fourteen days after they were switched on.
checkIfNeedDisableLogs(p) ==
  IF Pref(p, "saveLogs", FALSE) /\ Pref(p, "logsExpired", FALSE)
  THEN SetPref(p, "saveLogs", FALSE) ELSE p

\* The store after every constructor ran, and what the objects hold then.
StartedPrefs(p) ==
  LET q == checkIfNeedDisableLogs(MigrateModes(p))
  IN  SetPref(q, "devGatewayEnv", Pref(q, "devGatewayEnv", FALSE))

Started(p, os, auto) ==
  LET cached == loadFromCache(p)
  IN  [os |-> os, auto |-> auto,
       mode     |-> p["routeMode"],
       on       |-> Pref(p, "sitesSplitTunnelingEnabled", FALSE),
       rows     |-> fillSites(p, p["routeMode"]),
       appsMode |-> p["appsRouteMode"],
       appsOn   |-> Pref(p, "appsSplitTunnelingEnabled", FALSE),
       apps     |-> getVpnApps(p, p["appsRouteMode"]),
       dns      |-> Pref(p, "allowedDnsServers", <<>>),
       subnets  |-> localSubnetExclusions(p),
       checked  |-> Pref(p, "splitPresetsEnabled", {}),
       version  |-> cached.version,
       api      |-> cached.api,
       endpoint |-> IF p["devGatewayEnv"] THEN "dev" ELSE "prod",
       logging  |-> Pref(p, "saveLogs", FALSE)]

\* The version is sent only together with a list it may stand for.
fetchPresets(s) ==
  [sent |-> IF s.version # 0 /\ s.api # <<>> THEN s.version ELSE 0, got |-> 0]

\* The presets are fetched on every start.
StartFlight(s) == [lookups |-> <<>>, fetches |-> << fetchPresets(s) >>]

AppSettingsInit ==
  /\ \E os \in Systems :
       /\ prefs = StartedPrefs(<<>>)
       /\ shown = Started(prefs, os, FALSE)
  /\ flight = StartFlight(shown)
  /\ catalog = 1
  /\ saved = NoFile
  /\ done = 0

----------------------------------------------------------------------------
(* Sites.                                                                  *)

UserDoes == done < SettingsOps /\ done' = done + 1

SitesRest == UNCHANGED <<catalog, saved>>

\* SitesModel::addSite: the store first, then the row.
RowsWith(rows, site, ip) ==
  LET Blank(i) == rows[i][1] = site /\ rows[i][2] = NoIp /\ ip # NoIp
      Same(i)  == rows[i] = <<site, ip>>
      hits     == { i \in DOMAIN rows : Blank(i) \/ Same(i) }
  IN  IF hits = {} THEN Append(rows, <<site, ip>>)
      ELSE LET i == CHOOSE i \in hits : \A j \in hits : i <= j
           IN  [rows EXCEPT ![i] = <<site, ip>>]

SitesModelAdd(site, ip) ==
  LET known == site \in DOMAIN vpnSites(prefs, shown.mode)
  IN  /\ prefs' = addVpnSite(prefs, shown.mode, site, ip)
      /\ shown' = IF known /\ ip = NoIp THEN shown
                  ELSE [shown EXCEPT !.rows = RowsWith(@, site, ip)]

\* SitesController::addSite: a name is listed at once and resolved later.
AddSite(site) ==
  /\ UserDoes
  /\ SitesModelAdd(site, NoIp)
  /\ flight' = IF site \in SiteNames
               THEN [flight EXCEPT !.lookups = Append(@, site)] ELSE flight
  /\ SitesRest

\* The resolver's answer goes to the list of the mode in force by then.
MutSiteResolved(i) ==
  \E ip \in AddressesOf[flight.lookups[i]] \cup {NoIp} :
    /\ IF ip = NoIp THEN UNCHANGED <<prefs, shown>>
       ELSE /\ prefs' = addVpnSite(prefs, 1, flight.lookups[i], ip)
            /\ shown' = [shown EXCEPT !.rows = RowsWith(@, flight.lookups[i], ip)]
    /\ flight' = [flight EXCEPT !.lookups = RemoveAt(@, i)]
    /\ SitesRest /\ UNCHANGED done

SiteResolved(i) ==
  \E ip \in AddressesOf[flight.lookups[i]] \cup {NoIp} :
    /\ IF ip = NoIp THEN UNCHANGED <<prefs, shown>>
       ELSE SitesModelAdd(flight.lookups[i], ip)
    /\ flight' = [flight EXCEPT !.lookups = RemoveAt(@, i)]
    /\ SitesRest /\ UNCHANGED done

RemoveSite(i) ==
  /\ UserDoes
  /\ prefs' = removeVpnSite(prefs, shown.mode, shown.rows[i][1])
  /\ shown' = [shown EXCEPT !.rows = RemoveAt(@, i)]
  /\ SitesRest /\ UNCHANGED flight

\* A model that reloads its rows from the store it has just written.
SitesReload(p) ==
  /\ prefs' = p
  /\ shown' = [shown EXCEPT !.rows = fillSites(p, shown.mode)]

RemoveSites ==
  /\ UserDoes
  /\ SitesReload(removeAllVpnSites(prefs, shown.mode))
  /\ SitesRest /\ UNCHANGED flight

\* importSites: a file that is not a list, and entries that are neither names
\* nor addresses, change nothing.
ImportSites(sites, replace) ==
  /\ UserDoes
  /\ LET p == IF replace THEN removeAllVpnSites(prefs, shown.mode) ELSE prefs
     IN  SitesReload(addVpnSites(p, shown.mode, sites))
  /\ SitesRest /\ UNCHANGED flight

\* SitesModel::setRouteMode and toggleSplitTunneling, as effects on the pair
\* of store and memory: also part of reset and restore.
SitesMode(s, mode) ==
  LET p == SetPref(s.prefs, "routeMode", mode)
  IN  [prefs |-> p,
       shown |-> [s.shown EXCEPT !.mode = mode, !.rows = fillSites(p, mode)]]

SitesToggle(s, on) ==
  [prefs |-> SetPref(s.prefs, "sitesSplitTunnelingEnabled", on),
   shown |-> [s.shown EXCEPT !.on = on]]

Become(s) == prefs' = s.prefs /\ shown' = s.shown

Now == [prefs |-> prefs, shown |-> shown]

SetRouteMode(mode) ==
  UserDoes /\ Become(SitesMode(Now, mode)) /\ SitesRest /\ UNCHANGED flight

ToggleSites(on) ==
  UserDoes /\ Become(SitesToggle(Now, on)) /\ SitesRest /\ UNCHANGED flight

----------------------------------------------------------------------------
(* Applications (Windows and Android).                                     *)

HasApps == shown.os # "linux"

AppsMode(s, mode) ==
  LET p == SetPref(s.prefs, "appsRouteMode", mode)
  IN  [prefs |-> p,
       shown |-> [s.shown EXCEPT !.appsMode = mode, !.apps = getVpnApps(p, mode)]]

AppsStored(s, list) ==
  [prefs |-> SetPref(s.prefs, AppsKey(s.shown.appsMode), list),
   shown |-> [s.shown EXCEPT !.apps = list]]

AppsToggle(s, on) ==
  [prefs |-> SetPref(s.prefs, "appsSplitTunnelingEnabled", on),
   shown |-> [s.shown EXCEPT !.appsOn = on]]

AddApp(a) ==
  /\ HasApps /\ ~Contains(shown.apps, a) /\ UserDoes
  /\ Become(AppsStored(Now, Append(shown.apps, a)))
  /\ SitesRest /\ UNCHANGED flight

RemoveApp(i) ==
  /\ HasApps /\ UserDoes
  /\ Become(AppsStored(Now, RemoveAt(shown.apps, i)))
  /\ SitesRest /\ UNCHANGED flight

\* Only Android offers both directions.
SetAppsMode(mode) ==
  /\ shown.os = "android" /\ UserDoes
  /\ Become(AppsMode(Now, mode))
  /\ SitesRest /\ UNCHANGED flight

ToggleApps(on) ==
  HasApps /\ UserDoes /\ Become(AppsToggle(Now, on)) /\ SitesRest /\ UNCHANGED flight

----------------------------------------------------------------------------
(* Allowed DNS servers and local subnets: the model writes its whole list. *)

AddNew(list, entries) ==
  FoldLeft(LAMBDA l, e : IF Contains(l, e) THEN l ELSE Append(l, e), list, entries)

DnsStored(list) ==
  /\ prefs' = SetPref(prefs, "allowedDnsServers", list)
  /\ shown' = [shown EXCEPT !.dns = list]
  /\ UNCHANGED <<flight, catalog, saved>>

AddDns(ip) ==
  /\ ~Contains(shown.dns, ip) /\ UserDoes
  /\ DnsStored(Append(shown.dns, ip))

ImportDns(list, replace) ==
  /\ UserDoes
  /\ DnsStored(AddNew(IF replace THEN <<>> ELSE shown.dns, list))

RemoveDns(i) ==
  UserDoes /\ DnsStored(RemoveAt(shown.dns, i))

SubnetsStored(list) ==
  /\ prefs' = setLocalSubnetExclusions(prefs, list)
  /\ shown' = [shown EXCEPT !.subnets = list]
  /\ UNCHANGED <<flight, catalog, saved>>

\* The model normalises what it is given once more.
SubnetsWith(list, entries) == AddNew(list, normalizeSubnetExclusions(entries))

\* A paste of several entries: the rejected ones are reported, the others
\* join the list once each.
AddSubnet(entries) ==
  LET normalized == normalizeSubnetExclusions(entries)
  IN  /\ ~(Range(normalized) \subseteq Range(shown.subnets))
      /\ UserDoes
      /\ SubnetsStored(SubnetsWith(shown.subnets, normalized))

RemoveSubnet(i) ==
  UserDoes /\ SubnetsStored(RemoveAt(shown.subnets, i))

RemoveSubnets ==
  shown.subnets # <<>> /\ UserDoes /\ SubnetsStored(<<>>)

----------------------------------------------------------------------------
(* Presets.                                                                *)

ShownPresets == UsablePresets(mergeWithApi(shown.api))

\* Opening the page of presets fetches them again.
FetchPresets ==
  /\ UserDoes
  /\ Len(flight.fetches) < MaxFetches
  /\ flight' = [flight EXCEPT !.fetches = Append(@, fetchPresets(shown))]
  /\ UNCHANGED <<prefs, shown, catalog, saved>>

\* The server answers in its own time: with the version alone when it was
\* sent the current one.
ServerAnswersFetch(i) ==
  /\ flight.fetches[i].got = 0
  /\ flight' = [flight EXCEPT !.fetches[i].got = catalog]
  /\ UNCHANGED <<prefs, shown, catalog, saved, done>>

ApplyPresets(version, list) ==
  /\ prefs' = saveToCache(prefs, version, UsablePresets(list))
  /\ shown' = [shown EXCEPT !.api = UsablePresets(list), !.version = version]

PresetsAnswer(i) ==
  LET f    == flight.fetches[i]
      list == IF f.sent = f.got THEN <<>> ELSE Published(f.got)
  IN  /\ f.got # 0
      /\ IF f.got = shown.version /\ list = <<>>
         THEN UNCHANGED <<prefs, shown>>
         ELSE ApplyPresets(f.got, list)
      /\ flight' = [flight EXCEPT !.fetches = RemoveAt(@, i)]
      /\ UNCHANGED <<catalog, saved, done>>

PresetsFail(i) ==
  /\ flight' = [flight EXCEPT !.fetches = RemoveAt(@, i)]
  /\ UNCHANGED <<prefs, shown, catalog, saved, done>>

PublishPresets ==
  /\ catalog < MaxPublished
  /\ catalog' = catalog + 1
  /\ UNCHANGED <<prefs, shown, flight, saved, done>>

SetPresetEnabled(row, enabled) ==
  LET id == ShownPresets[row].id
      checked == IF enabled THEN shown.checked \cup {id} ELSE shown.checked \ {id}
  IN  /\ (id \in shown.checked) # enabled
      /\ UserDoes
      /\ prefs' = SetPref(prefs, "splitPresetsEnabled", checked)
      /\ shown' = [shown EXCEPT !.checked = checked]
      /\ UNCHANGED <<flight, catalog, saved>>

----------------------------------------------------------------------------
(* The settings controller.                                                *)

ToggleDevGateway(on) ==
  /\ UserDoes
  /\ prefs' = SetPref(prefs, "devGatewayEnv", on)
  /\ shown' = [shown EXCEPT !.endpoint = IF on THEN "dev" ELSE "prod"]
  /\ SitesRest /\ UNCHANGED flight

ResetGatewayEndpoint ==
  /\ UserDoes
  /\ shown' = [shown EXCEPT !.endpoint = "prod"]
  /\ SitesRest /\ UNCHANGED <<prefs, flight>>

\* setSaveLogs also starts or stops the logger.
ToggleLogging(on) ==
  /\ UserDoes
  /\ prefs' = LET p == SetPref(prefs, "saveLogs", on)
              IN  IF on THEN SetPref(p, "logsExpired", FALSE) ELSE p
  /\ shown' = [shown EXCEPT !.logging = on]
  /\ SitesRest /\ UNCHANGED flight

FourteenDaysPass ==
  /\ Pref(prefs, "saveLogs", FALSE) /\ ~Pref(prefs, "logsExpired", FALSE)
  /\ prefs' = SetPref(prefs, "logsExpired", TRUE)
  /\ SitesRest /\ UNCHANGED <<shown, flight, done>>

AutoStart(s, on) ==
  [prefs |-> IF on THEN s.prefs ELSE SetPref(s.prefs, "startMinimized", FALSE),
   shown |-> [s.shown EXCEPT !.auto = on]]

ToggleAutoStart(on) ==
  UserDoes /\ Become(AutoStart(Now, on)) /\ SitesRest /\ UNCHANGED flight

ToggleStartMinimized(on) ==
  /\ UserDoes
  /\ prefs' = SetPref(prefs, "startMinimized", on)
  /\ SitesRest /\ UNCHANGED <<shown, flight>>

\* getInstallationUuid(true), at the first request to the gateway.
CreateInstallationUuid ==
  /\ Pref(prefs, "installationUuid", "") = ""
  /\ prefs' = SetPref(prefs, "installationUuid", "own")
  /\ UNCHANGED <<shown, flight, catalog, saved, done>>

BackupAppConfig ==
  /\ UserDoes
  /\ saved' = backupAppConfig(prefs, shown.os, shown.auto)
  /\ UNCHANGED <<prefs, shown, flight, catalog>>

\* Files not written by this installation: one of another system and older
\* version, and one edited by hand.
ForeignFiles ==
  { [AppPlatform |-> "macos", installationUuid |-> "other",
     appsRouteMode |-> 1, appsSplitTunnelingEnabled |-> TRUE, ExceptApps |-> <<"app">>],
    [routeMode |-> 2, sitesSplitTunnelingEnabled |-> TRUE,
     localSubnetExclusions |-> << Subnet("plain", "any", "v4", 0),
                                  Subnet("spaced", "lan", "v4", 24) >>] }

RestoreApps(s, file) ==
  LET moved   == AppsMode(s, Pref(file, "appsRouteMode", 0))
      forced  == IF s.shown.os = "windows" THEN AppsMode(moved, 2) ELSE moved
      cleared == IF Pref(file, "AppPlatform", s.shown.os) # s.shown.os
                 THEN AppsStored(forced, <<>>) ELSE forced
  IN  IF s.shown.os = "linux" THEN s
      ELSE AppsToggle(cleared, Pref(file, "appsSplitTunnelingEnabled", FALSE))

RestoreSites(s, file) ==
  SitesToggle(SitesMode(s, Pref(file, "routeMode", 0)),
              Pref(file, "sitesSplitTunnelingEnabled", FALSE))

RestoreSwitches(s) ==
  IF s.shown.os # "android" THEN s
  ELSE [s EXCEPT !.prefs = SetPref(@, "startMinimized", FALSE)]

RestoreAppConfig(file) ==
  LET s == [prefs |-> restorePrefs(prefs, file), shown |-> shown]
      a == IF shown.os = "android" THEN s
           ELSE AutoStart(s, Pref(file, "autoStart", FALSE))
  IN  /\ UserDoes
      /\ Become(RestoreSwitches(RestoreSites(RestoreApps(a, file), file)))
      /\ UNCHANGED <<flight, catalog, saved>>

\* clearSettings: the store is emptied; of the models, the servers, the
\* language, the sites and the applications are set again.
Cleared(s) ==
  LET emptied == [s EXCEPT !.prefs = clearPrefs(@)]
      sites   == SitesToggle(SitesMode(emptied, 1), FALSE)
      apps    == AppsToggle(AppsMode(sites, 2), FALSE)
  IN  AutoStart(apps, FALSE)

ResetSettings ==
  /\ UserDoes
  /\ Become(Cleared(Now))
  /\ UNCHANGED <<flight, catalog, saved>>

\* The application ends, losing what is in flight, and is started again.
RestartApp ==
  /\ UserDoes
  /\ prefs' = StartedPrefs(prefs)
  /\ shown' = Started(prefs', shown.os, shown.auto)
  /\ flight' = StartFlight(shown')
  /\ UNCHANGED <<catalog, saved>>

----------------------------------------------------------------------------
EditSites ==
  \/ \E site \in SiteNames \cup SiteNets : AddSite(site)
  \/ \E i \in DOMAIN flight.lookups : SiteResolved(i)
  \/ \E i \in DOMAIN shown.rows : RemoveSite(i)
  \/ RemoveSites
  \/ \E site \in SiteNames, replace \in BOOLEAN : ImportSites(site :> NoIp, replace)
  \/ \E mode \in {1, 2} : SetRouteMode(mode)
  \/ \E on \in BOOLEAN : ToggleSites(on)

EditApps ==
  \/ \E a \in Apps : AddApp(a)
  \/ \E i \in DOMAIN shown.apps : RemoveApp(i)
  \/ \E mode \in {1, 2} : SetAppsMode(mode)
  \/ \E on \in BOOLEAN : ToggleApps(on)

EditLists ==
  \/ \E ip \in Resolvers : AddDns(ip)
  \/ \E replace \in BOOLEAN : ImportDns(<<"ns2">>, replace)
  \/ \E i \in DOMAIN shown.dns : RemoveDns(i)
  \/ \E a, b \in TypedSubnets : AddSubnet(<<a, b>>)
  \/ \E i \in DOMAIN shown.subnets : RemoveSubnet(i)
  \/ RemoveSubnets

EditPresets ==
  \/ FetchPresets
  \/ PublishPresets
  \/ \E i \in DOMAIN flight.fetches :
       ServerAnswersFetch(i) \/ PresetsAnswer(i) \/ PresetsFail(i)
  \/ \E row \in DOMAIN ShownPresets, on \in BOOLEAN : SetPresetEnabled(row, on)

EditSwitches ==
  \/ \E on \in BOOLEAN :
       \/ ToggleDevGateway(on) \/ ToggleLogging(on)
       \/ ToggleAutoStart(on) \/ ToggleStartMinimized(on)
  \/ ResetGatewayEndpoint
  \/ FourteenDaysPass

ControlStore ==
  \/ CreateInstallationUuid
  \/ BackupAppConfig
  \/ \E file \in ForeignFiles \cup ({saved} \ {NoFile}) : RestoreAppConfig(file)
  \/ ResetSettings
  \/ RestartApp

AppSettingsNext ==
  EditSites \/ EditApps \/ EditLists \/ EditPresets \/ EditSwitches \/ ControlStore

AppSettingsSpec == AppSettingsInit /\ [][AppSettingsNext]_appSettingsVars

----------------------------------------------------------------------------
(* Properties.                                                             *)

\* What the pages show of the sites and the applications (the direction, the
\* switch and the list) is what the store holds for that direction, through
\* late DNS answers, changes of direction, imports, reset, restore and
\* restarts: the tunnel is configured from the store.
ShownIsStored ==
  /\ shown.mode = Pref(prefs, "routeMode", 0)
  /\ shown.on = Pref(prefs, "sitesSplitTunnelingEnabled", FALSE)
  /\ Range(shown.rows) = LET sites == vpnSites(prefs, shown.mode)
                         IN  { <<h, sites[h]>> : h \in DOMAIN sites }
  /\ IsInjective(shown.rows)
  /\ HasApps => /\ shown.appsMode = Pref(prefs, "appsRouteMode", 0)
                /\ shown.appsOn = Pref(prefs, "appsSplitTunnelingEnabled", FALSE)
                /\ shown.apps = getVpnApps(prefs, shown.appsMode)

\* Whatever a restored or hand-edited file holds, the local subnets shown and
\* the ones handed to the tunnel are well formed, listed once, and never the
\* whole Internet.
ExclusionsAreSubnets ==
  \A list \in {shown.subnets, localSubnetExclusions(prefs)} :
    /\ \A i \in DOMAIN list : IsSubnet(list[i]) /\ list[i].layout = "plain"
    /\ IsInjective(list)

\* Whatever order fetches are answered in, the presets held and the presets
\* cached are those published under the version they are kept with, or none:
\* a version never vouches for another version's list.
PresetsMatchVersion ==
  LET cached == loadFromCache(prefs)
  IN  /\ shown.api \in {<<>>, UsablePresets(Published(shown.version))}
      /\ cached.api \in {<<>>, UsablePresets(Published(cached.version))}

\* A preset the server redefines keeps the domains built into the program,
\* and no preset is shown twice.
BuiltinsSurvive ==
  /\ \A b \in Range(BuiltinPresets) :
       \E i \in DOMAIN ShownPresets :
         ShownPresets[i].id = b.id /\ b.domains \subseteq ShownPresets[i].domains
  /\ \A i, j \in DOMAIN ShownPresets :
       ShownPresets[i].id = ShownPresets[j].id => i = j

\* The settings are sound whatever answers came late and whatever was reset or
\* restored: shown and stored agree, subnets are well formed, presets are those
\* of their version and keep the built-in domains.
SettingsAreSound == ShownIsStored /\ ExclusionsAreSubnets /\ PresetsMatchVersion /\ BuiltinsSurvive

=============================================================================

----------------------------- MODULE ImportFlow -----------------------------
(***************************************************************************)
(* Importing connections (ImportController): what a pasted text, an opened *)
(* file or a scanned code is taken for, the downloads it may start, the     *)
(* list offered in the drawer "Subscription loaded", and the series of QR   *)
(* codes of a configuration too large for one.                              *)
(*                                                                          *)
(* Texts are abstracted to the cases the code tells apart.  Downloads are   *)
(* answered in any order, also after the user has pasted something else.    *)
(***************************************************************************)
EXTENDS Integers, Sequences, FiniteSets, Functions

CONSTANTS Responses,    \* what a subscription URL may answer: sequences of lines
          QrSeries,     \* [names of QR series -> their numbers of codes]
          ImportOps,    \* bound: the user's operations
          MaxDownloads  \* bound: downloads in flight

\* Codes of two series are told apart by the length of the series alone.
ASSUME ImportAssumption ==
  /\ \A series \in DOMAIN QrSeries : QrSeries[series] \in Nat \ {0}
  /\ \A s, t \in DOMAIN QrSeries : QrSeries[s] = QrSeries[t] => s = t

VARIABLE imp

NoConfig == [kind |-> "none", last |-> ""]
NoQr == [total |-> 0, chunks |-> <<>>]

ConfigTypes == {"amnezia", "wireguard", "awg", "xray", "shadowsocks", "backup", "invalid"}

\* m_configType has no initial value: any of its values may be found there.
ImportInit ==
  \E type \in ConfigTypes :
    imp = [config   |-> NoConfig,  \* m_config
           type     |-> type,      \* m_configType
           pending  |-> <<>>,      \* m_subscriptionConfigs
           offered  |-> <<>>,      \* history: the list the drawer was opened for
           drawer   |-> FALSE,     \* the drawer "Subscription loaded" is open
           source   |-> FALSE,     \* the page with the drawer is there
           view     |-> FALSE,     \* the page that shows m_config is there
           oneshot  |-> FALSE,     \* oneshot_sub_fetch is connected
           servers  |-> <<>>,
           loads    |-> <<>>,      \* downloads in flight
           qr       |-> NoQr,
           scanning |-> FALSE,     \* m_isQrCodeProcessed
           scanned  |-> <<>>,      \* history: the data of the last full series
           outcome  |-> "none",    \* history: what became of the last input or download
           ops      |-> 0]

----------------------------------------------------------------------------
(* Texts and what they are.                                                *)

ShareLinks == {"vless", "vless broken", "ss"}
FrknLinks == {"sub link", "shared sub broken", "conn broken"}
PlainIds == {"uuid", "subscriber id", "short code"}
WireGuardTexts == {"wg", "awg", "wg no endpoint", "wg no key"}
AmneziaTexts == {"amnezia", "api", "bare"}

ImportTexts ==
  ShareLinks \cup FrknLinks \cup PlainIds \cup WireGuardTexts \cup AmneziaTexts
    \cup {"ssd", "ssd empty", "url", "xray", "backup", "vpn garbage", "prose", "empty"}

\* The texts that start a download.
Loading == {"url", "subscriber id", "short code"}

\* After the decoding of a vpn:// text, where it was one.
checkConfigFormat(text) ==
  CASE text = "backup"           -> "backup"
    [] text \in AmneziaTexts     -> "amnezia"
    [] text \in WireGuardTexts   -> "wireguard"
    [] text = "xray"             -> "xray"
    [] OTHER                     -> "invalid"

\* A WireGuard file without a host in its endpoint, or without a key, is
\* reported and gives nothing; with all the required parameters of AmneziaWG
\* it is one of those.
extractWireGuardConfig(text) ==
  CASE text \in {"wg no endpoint", "wg no key"} -> NoConfig
    [] text = "awg"                             -> [kind |-> "awg", last |-> text]
    [] OTHER                                    -> [kind |-> "wireguard", last |-> text]

\* The container is chosen by m_configType, and the result is never empty.
extractXrayConfig(type, last) ==
  [kind |-> IF type = "shadowsocks" THEN "ssxray" ELSE "xray", last |-> last]

\* What a link says; of a broken one an empty object remains.
Deserialize(link) ==
  CASE link \in {"vless", "A"} -> "A"
    [] link = "B"              -> "B"
    [] link = "ss"             -> "S"
    [] OTHER                   -> "{}"

----------------------------------------------------------------------------
(* extractConfigFromData: the state after it.  A configuration is accepted  *)
(* when the function returns true.                                          *)

Accept(s, type, config) ==
  [s EXCEPT !.type = type, !.config = config, !.outcome = "accepted"]

Signal(s) == [s EXCEPT !.outcome = "signal"]

ImportError(s) == [s EXCEPT !.outcome = "error"]

StartLoad(s, what) ==
  [s EXCEPT !.loads = Append(@, what), !.outcome = "loading"]

ShareLink(s, text) ==
  LET type == IF text = "ss" THEN "shadowsocks" ELSE "xray"
  IN  Accept(s, type, extractXrayConfig(type, Deserialize(text)))

\* Of a list of ShadowSocks servers the name of the first is taken for its
\* configuration; with an empty list the configuration extracted before stays
\* and is what the result is judged by.
SsdLink(s, text) ==
  IF text = "ssd" THEN Accept(s, "shadowsocks", extractXrayConfig("shadowsocks", ""))
  ELSE [s EXCEPT !.type = "shadowsocks",
                 !.outcome = IF s.config = NoConfig THEN "silent" ELSE "accepted"]

StoredText(s, text) ==
  LET type == checkConfigFormat(text)
      wg   == extractWireGuardConfig(text)
      t    == [s EXCEPT !.type = type]
  IN  CASE type = "wireguard" ->
             IF wg = NoConfig THEN ImportError([t EXCEPT !.config = wg])
             ELSE Accept(t, wg.kind, wg)
        [] type = "xray"    -> Accept(t, type, extractXrayConfig(type, "A"))
        [] type = "amnezia" -> Accept(t, type, [kind |-> text, last |-> text])
        [] type = "backup"  -> IF s.servers = <<>> THEN Signal(t) ELSE ImportError(t)
        [] OTHER            -> ImportError(t)

extractConfigFromData(s, text) ==
  CASE text \in ShareLinks                          -> ShareLink(s, text)
    [] text \in {"ssd", "ssd empty"}                -> SsdLink(s, text)
    [] text \in {"shared sub broken", "conn broken"} -> ImportError(s)
    [] text \in {"sub link", "uuid", "prose"}       -> Signal(s)
    [] text \in {"url", "subscriber id"}            -> StartLoad(s, "list")
    [] text = "short code"                          -> StartLoad(s, "code")
    [] OTHER                                        -> StoredText(s, text)

MayLoad(text) == text \in Loading => Len(imp.loads) < MaxDownloads

\* subscriptionConfigsReady: the page opens its drawer, and where a oneshot
\* waits the page is opened for it.
Ready(s, list) ==
  LET shown == s.source \/ s.oneshot
  IN  [s EXCEPT !.pending = list, !.source = shown, !.drawer = shown, !.oneshot = FALSE,
                !.offered = IF shown THEN list ELSE @]

queueConfigForConfirmation(s) ==
  IF s.config = NoConfig THEN s
  ELSE Ready([s EXCEPT !.config = NoConfig], <<s.config>>)

UserImports(s) == [s EXCEPT !.ops = @ + 1]

\* The page is opened; a list that is still waiting is offered (again).
OpenPage ==
  /\ ~imp.source
  /\ imp' = [imp EXCEPT !.source = TRUE, !.view = FALSE, !.drawer = imp.pending # <<>>,
                        !.offered = imp.pending]

LeavePage ==
  /\ imp.source
  /\ imp' = [imp EXCEPT !.source = FALSE, !.drawer = FALSE]

\* A text pasted on the page or the text of a file opened there: an accepted
\* one goes to the drawer.
Paste(text) ==
  /\ imp.source /\ imp.ops < ImportOps /\ MayLoad(text)
  /\ LET s == extractConfigFromData(imp, text)
     IN  imp' = UserImports(IF s.outcome = "accepted"
                            THEN queueConfigForConfirmation(s) ELSE s)

\* extractConfigFromFile: the file cannot be read.
FileUnreadable ==
  /\ imp.source /\ imp.ops < ImportOps
  /\ imp' = UserImports(ImportError(imp))

\* A text handed over by a mobile system: an accepted one is shown on a page
\* of its own, for another the answer of a download is waited for.
OpenFromOutside(text) ==
  /\ imp.ops < ImportOps /\ MayLoad(text)
  /\ LET s == extractConfigFromData([imp EXCEPT !.source = FALSE, !.drawer = FALSE], text)
         ok == s.outcome = "accepted"
     IN  imp' = UserImports([s EXCEPT !.view = ok, !.oneshot = @ \/ ~ok])

isNativeWireGuardConfig == imp.type = "wireguard"

\* What the page's button adds: with the box ticked (shown only for a native
\* WireGuard configuration) the obfuscated form of the container.
processNativeWireGuardConfig(config) ==
  IF config.kind = "wireguard" THEN [config EXCEPT !.last = "wg obfuscated"] ELSE config

\* importConfig, from that page.  A configuration with containers is added; one
\* of the API unless it is there already; any other is an error.
importConfig(cloak) ==
  /\ imp.view
  /\ cloak => isNativeWireGuardConfig
  /\ LET config == IF cloak THEN processNativeWireGuardConfig(imp.config) ELSE imp.config
         known  == config.kind = "api" /\ config \in Range(imp.servers)
         s      == [imp EXCEPT !.config = NoConfig, !.view = FALSE]
     IN  imp' = IF config.kind \in {"none", "bare"} \/ known THEN ImportError(s)
                ELSE [s EXCEPT !.servers = Append(@, config), !.outcome = "added"]

----------------------------------------------------------------------------
(* Downloads.                                                              *)

\* A ShadowSocks link is parsed, dropped, and leaves its mark on m_configType.
\* Every other line that is not blank gives a configuration, a line that is no
\* link the one of an empty object.
parseConfigLine(type, line) ==
  CASE line = ""   -> [type |-> type, config |-> NoConfig]
    [] line = "ss" -> [type |-> "xray", config |-> NoConfig]
    [] OTHER       -> [type |-> type, config |-> extractXrayConfig(type, Deserialize(line))]

\* last_config of the stored connections that have one for Xray.
existingConfigs(servers) ==
  { c.last : c \in { d \in Range(servers) : d.kind \in {"xray", "ssxray"} } } \ {""}

\* The lines one after the other: what was not there, and whether anything was.
ParseLines(s, lines) ==
  LET upTo[n \in 0 .. Len(lines)] ==
        IF n = 0 THEN [type |-> s.type, dup |-> FALSE, fresh |-> <<>>]
        ELSE LET acc   == upTo[n - 1]
                 r     == parseConfigLine(acc.type, lines[n])
                 known == r.config.last \in existingConfigs(s.servers \o acc.fresh)
             IN  [type  |-> r.type,
                  dup   |-> acc.dup \/ (r.config # NoConfig /\ known),
                  fresh |-> IF r.config = NoConfig \/ known THEN acc.fresh ELSE Append(acc.fresh, r.config)]
  IN  upTo[Len(lines)]

MuthandleSubscriptionResponse(s, lines) ==
  LET r == ParseLines(s, lines)
      t == [s EXCEPT !.type = r.type, !.pending = @ \o r.fresh]
  IN  CASE r.fresh # <<>> -> [Ready(t, r.fresh) EXCEPT !.pending = t.pending, !.outcome = "offered"]
        [] r.fresh = <<>> /\ r.dup  -> Signal([t EXCEPT !.oneshot = FALSE])
        [] OTHER                   -> ImportError([t EXCEPT !.oneshot = FALSE])

\* The list offered before is dropped first, whatever comes of this one: an offer,
\* the message that all is there already, or an error when nothing was parsed.
handleSubscriptionResponse(s, lines) ==
  LET r == ParseLines(s, lines)
      t == [s EXCEPT !.type = r.type, !.pending = r.fresh]
  IN  CASE r.fresh # <<>>           -> [Ready(t, r.fresh) EXCEPT !.outcome = "offered"]
        [] r.fresh = <<>> /\ r.dup  -> Signal([t EXCEPT !.oneshot = FALSE])
        [] OTHER                   -> ImportError([t EXCEPT !.oneshot = FALSE])

Landed(i) == [imp EXCEPT !.loads = SubSeq(@, 1, i - 1) \o SubSeq(@, i + 1, Len(@))]

LoadFails(s) == ImportError([s EXCEPT !.oneshot = FALSE])

\* fetchAndImportFromUrl: every request ends, if only by its timeout.
FetchEnds(i) ==
  /\ imp.loads[i] = "list"
  /\ \/ imp' = LoadFails(Landed(i))
     \/ \E lines \in Responses : imp' = handleSubscriptionResponse(Landed(i), lines)

\* resolveShortCode: a code the server does not know is tried as a subscriber.
CodeEnds(i) ==
  /\ imp.loads[i] = "code"
  /\ \/ imp' = Signal(Landed(i))
     \/ imp' = StartLoad(Landed(i), "list")
     \/ imp' = LoadFails(Landed(i))

\* The drawer: the list is added as a whole, after the removal of all servers
\* when the user asked for it, and the user is taken home; closing the drawer
\* keeps the list.
Confirm(replace) ==
  /\ imp.drawer
  /\ replace => imp.servers # <<>>
  /\ imp' = IF imp.pending = <<>> THEN [imp EXCEPT !.drawer = FALSE]
            ELSE [imp EXCEPT !.servers = (IF replace THEN <<>> ELSE @) \o imp.pending,
                             !.pending = <<>>, !.drawer = FALSE, !.source = FALSE]

CancelDrawer == imp.drawer /\ imp' = [imp EXCEPT !.drawer = FALSE]

----------------------------------------------------------------------------
(* Series of QR codes (mobile systems), scanned from the same page.        *)

\* startDecodingQr, and decodeQrCode for the first code of a scan.
StartDecodingQr ==
  /\ imp.source /\ imp.ops < ImportOps
  /\ imp' = UserImports([imp EXCEPT !.qr = NoQr, !.scanning = TRUE])

\* A code of a series: its chunks are kept by number, and a code of a series
\* of another length starts anew.
addChunk(qr, series, id) ==
  LET kept == IF qr.total = QrSeries[series] THEN qr.chunks ELSE <<>>
  IN  [total  |-> QrSeries[series],
       chunks |-> [n \in DOMAIN kept \cup {id} |-> IF n = id THEN <<series, id>> ELSE kept[n]]]

\* The data of a full series, code by code; a missing number would add nothing.
assembled(qr) ==
  [i \in 1 .. qr.total |-> IF i - 1 \in DOMAIN qr.chunks THEN qr.chunks[i - 1] ELSE <<>>]

\* qrDecodingFinished: the page queues what was extracted.
ScanDone(s) == queueConfigForConfirmation([s EXCEPT !.scanning = FALSE])

\* extractConfigFromQr: an object is taken as it is, without a look at its type;
\* other data is a text.
extractConfigFromQr(s, data) ==
  IF data = "object" THEN Accept(s, s.type, [kind |-> "amnezia", last |-> "qr"])
  ELSE extractConfigFromData(s, data)

\* The camera sees any code of any series, in any order and repeatedly.  A
\* series that holds no configuration is forgotten.
parseQrCodeChunk(series, id) ==
  /\ imp.scanning
  /\ LET qr   == addChunk(imp.qr, series, id)
         full == Cardinality(DOMAIN qr.chunks) = qr.total
     IN  IF ~full THEN imp' = [imp EXCEPT !.qr = qr]
         ELSE \E data \in {"object", "prose"} :
                LET s == extractConfigFromQr([imp EXCEPT !.qr = qr, !.scanned = assembled(qr)], data)
                IN  imp' = IF s.outcome = "accepted" THEN ScanDone(s) ELSE [s EXCEPT !.qr = NoQr]

\* A single code: it is taken as a text first.  A link or an id that was not
\* accepted ends the scan too, since it may have started a download; any other
\* text is decoded and tried as data, which a text seldom is.
ScanText(text) ==
  /\ imp.scanning /\ imp.ops < ImportOps /\ MayLoad(text) /\ text # "empty"
  /\ LET s == extractConfigFromData(imp, text)
     IN  IF s.outcome = "accepted" THEN imp' = UserImports(ScanDone(s))
         ELSE IF text \in FrknLinks \cup PlainIds \cup {"url"}
         THEN imp' = UserImports([s EXCEPT !.scanning = FALSE])
         ELSE \E data \in {"prose", "subscriber id"} :
                MayLoad(data) /\ imp' = UserImports(extractConfigFromQr(s, data))

----------------------------------------------------------------------------
DownloadEnds == \E i \in DOMAIN imp.loads : FetchEnds(i) \/ CodeEnds(i)

ImportNext ==
  \/ \E text \in ImportTexts : Paste(text) \/ OpenFromOutside(text) \/ ScanText(text)
  \/ FileUnreadable
  \/ OpenPage
  \/ LeavePage
  \/ \E flag \in BOOLEAN : importConfig(flag) \/ Confirm(flag)
  \/ CancelDrawer
  \/ DownloadEnds
  \/ StartDecodingQr
  \/ \E series \in DOMAIN QrSeries : \E id \in 0 .. QrSeries[series] - 1 :
       parseQrCodeChunk(series, id)

ImportSpec == ImportInit /\ [][ImportNext]_imp

----------------------------------------------------------------------------
(* Properties.                                                             *)

\* What the open drawer would add is the list it was opened for, or nothing: a
\* download that ends meanwhile never slips in servers that the user was not
\* asked about.
AddsOnlyWhatWasOffered ==
  imp.drawer => imp.pending \in {<<>>, imp.offered}

\* The data handed on from a scan is one series, complete and in order,
\* however often and in whatever order its codes were seen and whatever other
\* series (of another length) came between.
QrAssembled ==
  imp.scanned # <<>> =>
    \E series \in DOMAIN QrSeries :
      imp.scanned = [i \in 1 .. QrSeries[series] |-> <<series, i - 1>>]

\* What is imported is what the user was shown or scanned, whole, whatever
\* ended or was seen in between (handleSubscriptionResponse, addChunk).
ImportIsWhole == AddsOnlyWhatWasOffered /\ QrAssembled

\* A download that was started is answered: an offer, a message, or the
\* controller of subscriptions takes over.  A short code that turns out to be a
\* subscriber counts on its second download.
DownloadAnswered ==
  imp.outcome = "loading" ~> imp.outcome # "loading"
=============================================================================

------------------------------ MODULE DnsUtils ------------------------------
(***************************************************************************)
(* The resolvers of a session: DnsUtilsLinux (asynchronous calls to        *)
(* systemd-resolved over one D-Bus connection, which carries them out in   *)
(* order), DnsUtilsMacos (a copy of every network service's entry is taken *)
(* and put back) and DnsUtilsWindows (the tunnel interface's own servers). *)
(* A session calls updateResolvers() when it starts and restoreResolvers() *)
(* when it ends, also when it failed half way.                             *)
(***************************************************************************)
EXTENDS Integers, Sequences, FiniteSets

CONSTANTS
    Links,        \* physical links (Linux) or network services (macOS)
    MaxUpdates    \* bound on the calls of updateResolvers()

VARIABLES
    os,       \* the system's configuration
    du,       \* the members of the DnsUtils object
    bus,      \* calls that systemd-resolved has not carried out yet
    replies,  \* answers to "Get Domains" that the service has not seen yet
    hist      \* platform, the initial configuration, the course of the calls

dnsVars == <<os, du, bus, replies, hist>>

TunLink == "tun"
AllLinks == Links \cup {TunLink}
Root == "."
NoServers == {"absent"}
Ours == {"vpn"}

---------------------------------------------------------------------------
(* Linux. *)

SetLinkDomains(link, domains) == <<[call |-> "domains", link |-> link, value |-> domains]>>

SetLinkDNS == <<[call |-> "dns", link |-> TunLink, value |-> Ours]>>

SetLinkDefaultRoute == <<[call |-> "default", link |-> TunLink, value |-> {}]>>

RevertLink == <<[call |-> "revert", link |-> TunLink, value |-> {}]>>

UpdateLinkDomains == <<[call |-> "get", link |-> TunLink, value |-> {}]>>

\* Calls for every link of a set, in some order; they touch different links.
ForEach(links, domains(_)) ==
    LET pick[s \in SUBSET links] ==
            IF s = {} THEN <<>>
            ELSE LET l == CHOOSE x \in s : TRUE
                 IN  SetLinkDomains(l, domains(l)) \o pick[s \ {l}]
    IN  pick[links]

UpdateLinux ==
    /\ du' = [du EXCEPT !.ifindex = TRUE]
    /\ bus' = bus \o SetLinkDNS \o SetLinkDefaultRoute \o UpdateLinkDomains
    /\ UNCHANGED <<os, replies>>

RestoreLinux ==
    /\ bus' = bus \o ForEach(DOMAIN du.saved, LAMBDA l : du.saved[l])
                  \o (IF du.ifindex THEN RevertLink ELSE <<>>)
    /\ du' = [du EXCEPT !.ifindex = FALSE, !.saved = [l \in {} |-> {}]]
    /\ UNCHANGED <<os, replies>>

\* systemd-resolved carries out the next call; one for link 0 is an error.
ResolvedStep ==
    /\ bus # <<>>
    /\ bus' = Tail(bus)
    /\ LET c == Head(bus)
       IN  CASE c.call = "domains" ->
                   /\ os' = IF c.link \in AllLinks THEN [os EXCEPT ![c.link].domains = c.value] ELSE os
                   /\ UNCHANGED replies
             [] c.call = "dns" ->
                   os' = [os EXCEPT ![c.link].servers = c.value] /\ UNCHANGED replies
             [] c.call = "default" -> UNCHANGED <<os, replies>>
             [] c.call = "revert" ->
                   /\ os' = [os EXCEPT ![c.link] = [domains |-> {}, servers |-> {}]]
                   /\ UNCHANGED replies
             [] c.call = "get" ->
                   /\ replies' = Append(replies, [l \in AllLinks |-> os[l].domains])
                   /\ UNCHANGED os
    /\ UNCHANGED <<du, hist>>

MutDnsDomainsReceived ==
    /\ replies # <<>>
    /\ replies' = Tail(replies)
    /\ LET all == Head(replies)
           listed == {l \in AllLinks : all[l] # {}}
           rooted == {l \in listed : Root \in all[l]}
       IN  /\ du' = [du EXCEPT !.saved = [l \in listed |-> all[l]]]
           /\ bus' = bus \o SetLinkDomains(IF du.ifindex THEN TunLink ELSE "0", {Root})
                         \o ForEach(rooted, LAMBDA l : all[l])
    /\ UNCHANGED <<os, hist>>

\* dnsDomainsReceived(): what the reply says is saved, competing root domains are
\* dropped, and the current interface gets the root domain, whichever it is now.
DnsDomainsReceived ==
    /\ replies # <<>>
    /\ replies' = Tail(replies)
    /\ LET all == Head(replies)
           listed == {l \in AllLinks : all[l] # {}}
           rooted == {l \in listed : Root \in all[l]}
       IN  /\ du' = [du EXCEPT !.saved = [l \in listed |-> all[l]]]
           /\ bus' = bus \o ForEach(rooted, LAMBDA l : all[l] \ {Root})
                         \o SetLinkDomains(IF du.ifindex THEN TunLink ELSE "0", {Root})
    /\ UNCHANGED <<os, hist>>

---------------------------------------------------------------------------
(* macOS. *)

\* backupService(): an entry without anything in it counts as absent.
BackupService(l) == IF os[l].servers = {} THEN NoServers ELSE os[l].servers

UpdateMac ==
    /\ du' = [du EXCEPT !.saved = [l \in Links |-> BackupService(l)]]
    /\ os' = [l \in AllLinks |-> IF l \in Links THEN [os[l] EXCEPT !.servers = Ours] ELSE os[l]]
    /\ UNCHANGED <<bus, replies>>

RestoreMac ==
    /\ os' = [l \in AllLinks |-> IF l \in DOMAIN du.saved
                                 THEN [os[l] EXCEPT !.servers = du.saved[l]] ELSE os[l]]
    /\ du' = [du EXCEPT !.saved = [l \in {} |-> {}]]
    /\ UNCHANGED <<bus, replies>>

---------------------------------------------------------------------------
(* Windows. *)

\* SetInterfaceDnsSettings (or netsh) is called for IPv4 and then for IPv6; each
\* may fail, and a failure of the first does not stop the second.
SetInterfaceDns(v4, v6) ==
    os' = [os EXCEPT ![TunLink].servers = IF v4 THEN Ours ELSE @,
                     ![TunLink].domains = IF v6 THEN Ours ELSE @]

UpdateWindows ==
    /\ du' = [du EXCEPT !.ifindex = TRUE]
    /\ \E v4 \in BOOLEAN, v6 \in BOOLEAN : SetInterfaceDns(v4, v6)
    /\ UNCHANGED <<bus, replies>>

\* m_luid stays set; an interface that has gone needs nothing.
RestoreWindows ==
    /\ os' = IF du.ifindex THEN [os EXCEPT ![TunLink] = [domains |-> {}, servers |-> {}]] ELSE os
    /\ UNCHANGED <<du, bus, replies>>

---------------------------------------------------------------------------

\* A second update without a restore happens when the client process died and its
\* successor connected before the orphaned session was released.
UpdateDns ==
    /\ hist.updates < MaxUpdates
    /\ hist' = [hist EXCEPT !.updates = @ + 1, !.active = TRUE, !.twice = @ \/ hist.active]
    /\ CASE hist.platform = "linux" -> UpdateLinux
         [] hist.platform = "mac" -> UpdateMac
         [] hist.platform = "windows" -> UpdateWindows

GetUnderWay == replies # <<>> \/ \E i \in 1 .. Len(bus) : bus[i].call = "get"

RestoreDns ==
    /\ hist' = [hist EXCEPT !.active = FALSE, !.early = @ \/ GetUnderWay]
    /\ CASE hist.platform = "linux" -> RestoreLinux
         [] hist.platform = "mac" -> RestoreMac
         [] hist.platform = "windows" -> RestoreWindows

\* Every physical link has any domains and servers of its own; the tunnel none.
DnsInit ==
    /\ \E p \in {"linux", "mac", "windows"}, d \in [Links -> SUBSET {Root, "lan"}],
          s \in [Links -> {NoServers, {"user"}}] :
         /\ p # "linux" => d = [l \in Links |-> {}]
         /\ p = "linux" => s = [l \in Links |-> {"user"}]
         /\ os = [l \in AllLinks |-> IF l = TunLink THEN [domains |-> {}, servers |-> {}]
                                     ELSE [domains |-> d[l], servers |-> s[l]]]
         /\ hist = [platform |-> p, before |-> os, updates |-> 0, active |-> FALSE,
                    twice |-> FALSE, early |-> FALSE]
    /\ du = [ifindex |-> FALSE, saved |-> [l \in {} |-> {}]]
    /\ bus = <<>> /\ replies = <<>>

DnsNext == UpdateDns \/ RestoreDns \/ ResolvedStep \/ DnsDomainsReceived

DnsSpec == DnsInit /\ [][DnsNext]_dnsVars

---------------------------------------------------------------------------
(* Properties. *)

Settled == bus = <<>> /\ replies = <<>>

\* After a session, and once systemd-resolved has caught up, every link has the
\* configuration it had before the first session.  Two courses are excepted: a
\* second update without a restore overwrites the copy with the session's own
\* values, and a restore before the answer to "Get Domains" is undone by it.
RestoredAsBefore ==
    ~hist.active /\ Settled /\ ~hist.twice /\ ~hist.early => os = hist.before

\* While a session is up, and once systemd-resolved has caught up, the tunnel is
\* the only link that answers for the root domain, whatever updates and restores
\* crossed each other before.
OnlyTunnelHasRoot ==
    hist.platform = "linux" /\ hist.active /\ Settled
        => \A l \in AllLinks : Root \in os[l].domains <=> l = TunLink

\* Once systemd-resolved has caught up, the resolvers are those of the session,
\* and without a session those the user had.
ResolversFollowSession == RestoredAsBefore /\ OnlyTunnelHasRoot
=============================================================================

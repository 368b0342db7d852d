----------------------------- MODULE RouteTool -----------------------------
(***************************************************************************)
(* route(8) as a function of the service on macOS (helper_route_mac.c).    *)
(* The program was written to run once; RouterMac calls mainRouteIface()   *)
(* for every route, and the addresses, lengths and families it parsed for  *)
(* one call are still in its global variables at the next.  RouterMac asks *)
(* for "route add|delete -host ip gw" and "route add|delete -net ip gw     *)
(* mask" only; the options it never gives are left out.                    *)
(***************************************************************************)
EXTENDS Integers, Sequences, FiniteSets

CONSTANTS
    Ips,        \* destinations, as sequences of four bytes
    PrefixLengths,   \* prefix lengths of the requests, 0 .. 32
    Gates       \* gateways, as sequences of four bytes

\* An IPv4 address or mask.
Address == [1 .. 4 -> 0 .. 255]

\* RouterMac checks the addresses with checkIPv4Format before it calls the tool.
ASSUME ToolAssumption ==
    /\ Ips \subseteq Address /\ Gates \subseteq Address
    /\ PrefixLengths \subseteq 0 .. 32

VARIABLES
    tool,    \* the globals of helper_route_mac.c
    sent     \* the last request and the routing message written for it

toolVars == <<tool, sent>>

Zero4 == <<0, 0, 0, 0>>
Ones4 == <<255, 255, 255, 255>>
SockLen == 16     \* sizeof(struct sockaddr_in); the address is at offset 4
NoFamily == "AF_UNSPEC"
Inet == "AF_INET"

---------------------------------------------------------------------------
(* NetworkUtilities: the mask of a prefix. *)

\* Byte i of a mask with n leading ones
MaskByte(n, i) ==
    LET ones == IF n >= 8 * i THEN 8 ELSE IF n <= 8 * (i - 1) THEN 0 ELSE n - 8 * (i - 1)
    IN  <<0, 128, 192, 224, 240, 248, 252, 254, 255>>[ones + 1]
MaskOf(n) == [i \in 1 .. 4 |-> MaskByte(n, i)]

\* 0xFFFFFFFF << 32 is undefined for prefix 0: the build's shift gives all ones
\* or zero.
NetMaskFromIpWithSubnet(prefix) == IF prefix = 0 THEN {Zero4, Ones4} ELSE {MaskOf(prefix)}

---------------------------------------------------------------------------
(* Addresses. *)

\* inet_makenetandmask(): the network is shifted until its first byte counts, and
\* without bits the mask ends at the last byte that is not zero.
MakeNetAndMask(g, net, bits) ==
    LET lead == IF net = Zero4 THEN 0
                ELSE CHOOSE k \in 0 .. 3 : net[k + 1] # 0 /\ \A i \in 1 .. k : net[i] = 0
        dst == [i \in 1 .. 4 |-> IF i + lead <= 4 THEN net[i + lead] ELSE 0]
        last == CHOOSE k \in 0 .. 4 : /\ k > 0 => dst[k] # 0
                                      /\ \A i \in k + 1 .. 4 : dst[i] = 0
        len == IF bits # 0 THEN bits ELSE 8 * last
    IN  [g EXCEPT !.addrs = @ \cup {"NETMASK"},
                  !.dst.addr = dst,
                  !.mask = [len |-> SockLen, family |-> Inet, addr |-> MaskOf(len)]]

\* getaddr() of a dotted address: "which" names the global that takes it.  With
\* -net a destination is read by inet_network() and gets a mask of its own; with
\* -host, and for gateways and masks, by inet_aton().
GetAddr(g, which, ip) ==
    LET f == [g EXCEPT !.af = IF @ = NoFamily THEN Inet ELSE @,
                       !.aflen = IF g.af = NoFamily THEN SockLen ELSE @,
                       !.addrs = @ \cup {which}]
        here(old) == [len |-> f.aflen, family |-> f.af, addr |-> old]
    IN  CASE which = "DST" /\ g.forcenet > 0 ->
                MakeNetAndMask([f EXCEPT !.dst = here(@.addr)], ip, 0)
          [] which = "DST" /\ g.forcenet = 0 ->
                [f EXCEPT !.dst = here(ip), !.ishost = TRUE]
          [] which = "GATEWAY" -> [f EXCEPT !.gate = here(ip)]
          [] which = "NETMASK" -> [f EXCEPT !.mask = here(ip)]

\* mask_addr(): trailing zero bytes of the mask are cut off; with an empty
\* address the family is the last byte that counts.
TrimmedLen(mask) ==
    LET last == CHOOSE k \in 0 .. 4 : /\ k > 0 => mask.addr[k] # 0
                                      /\ \A i \in k + 1 .. 4 : mask.addr[i] = 0
        full == IF last = 0 THEN 2 ELSE 4 + last
    IN  IF full <= mask.len THEN full ELSE mask.len
MaskAddr(g) == [g EXCEPT !.mask.len = TrimmedLen(g.mask)]

\* What the receiver reads of a socket address of which len bytes were sent
Seen(sa) == [i \in 1 .. 4 |-> IF 4 + i <= sa.len THEN sa.addr[i] ELSE 0]

Contiguous(mask) == \E n \in 0 .. 32 : mask = MaskOf(n)

---------------------------------------------------------------------------
(* Commands. *)

\* rtmsg(): the message holds the addresses that rtm_addrs names.
RtMsg(g, cmd) ==
    LET h == IF "NETMASK" \in g.addrs THEN MaskAddr(g) ELSE g
    IN  [tool |-> h,
         msg |-> [cmd |-> cmd, host |-> h.host, addrs |-> h.addrs, dst |-> h.dst.addr,
                  gate |-> h.gate.addr,
                  mask |-> IF "NETMASK" \in h.addrs THEN Seen(h.mask) ELSE Ones4]]

\* An argument without a dash is the destination, then the gateway, then the mask.
Positional(g, ip) ==
    GetAddr(g, CASE "DST" \notin g.addrs -> "DST"
                 [] "DST" \in g.addrs /\ "GATEWAY" \notin g.addrs -> "GATEWAY"
                 [] OTHER -> "NETMASK", ip)

\* newroute(): the option, the positional arguments in their order, the flags, the
\* check of the mask, which ends the process, and the message.
NewRoute(g, cmd, form, ip, gw, mask) ==
    LET opt == IF form = "-host" THEN [g EXCEPT !.forcehost = @ + 1] ELSE [g EXCEPT !.forcenet = @ + 1]
        args == Positional(Positional([opt EXCEPT !.ishost = FALSE], ip), gw)
        all == IF form = "-host" THEN args ELSE Positional(args, mask)
        ready == [all EXCEPT !.host = (all.ishost \/ all.forcehost > 0) /\ all.forcenet = 0]
    IN  IF ready.mask.family = Inet /\ ~Contiguous(ready.mask.addr)
        THEN [tool |-> [ready EXCEPT !.exited = TRUE], msg |-> [cmd |-> "none"]]
        ELSE RtMsg(ready, cmd)

\* Mutant: -net of an earlier call stays in force.
MutReset(g) ==
    [g EXCEPT !.addrs = {}, !.forcehost = 0, !.af = NoFamily]

\* The globals that mainRouteIface() resets; the addresses, aflen and the
\* metrics keep their values.
Reset(g) ==
    [g EXCEPT !.addrs = {}, !.forcehost = 0, !.forcenet = 0, !.af = NoFamily]

MainRouteIface(cmd, form, ip, gw, mask) ==
    LET r == NewRoute(Reset(tool), cmd, form, ip, gw, mask)
    IN  /\ tool' = r.tool
        /\ sent' = [req |-> [cmd |-> cmd, ip |-> ip, gw |-> gw, mask |-> mask], msg |-> r.msg]

\* RouterMac::routeAdd and routeDelete choose the form by the mask; a delete of
\* 0.0.0.0/0 is skipped.
FormOf(mask) == IF mask = Ones4 THEN "-host" ELSE "-net"

RouteAdd(ip, prefix, gw) ==
    /\ ~tool.exited
    /\ \E mask \in NetMaskFromIpWithSubnet(prefix) :
         MainRouteIface("add", FormOf(mask), ip, gw, mask)

RouteDelete(ip, prefix, gw) ==
    /\ ~tool.exited
    /\ ~(ip = Zero4 /\ prefix = 0)
    /\ \E mask \in NetMaskFromIpWithSubnet(prefix) :
         MainRouteIface("delete", FormOf(mask), ip, gw, mask)

NoSock == [len |-> 0, family |-> NoFamily, addr |-> Zero4]

ToolInit ==
    /\ tool = [addrs |-> {}, forcehost |-> 0, forcenet |-> 0, af |-> NoFamily, aflen |-> 0,
               ishost |-> FALSE, host |-> FALSE, dst |-> NoSock, gate |-> NoSock,
               mask |-> NoSock, exited |-> FALSE]
    /\ sent = [req |-> [cmd |-> "none"], msg |-> [cmd |-> "none"]]

ToolNext ==
    \E ip \in Ips, p \in PrefixLengths, gw \in Gates : RouteAdd(ip, p, gw) \/ RouteDelete(ip, p, gw)

ToolSpec == ToolInit /\ [][ToolNext]_toolVars

---------------------------------------------------------------------------
(* Properties. *)

\* Networks that start with a zero byte are shifted by inet_makenetandmask().
ZeroNet(ip) == ip # Zero4 /\ ip[1] = 0

\* Whatever was asked before, a message is what its own request says: the
\* command, the gateway, the mask exactly as given, and the destination, unless
\* that is a network whose first byte is zero; a host route carries no mask of an
\* earlier network route.
MessageIsRequest ==
    sent.msg.cmd # "none" =>
        /\ sent.msg.cmd = sent.req.cmd
        /\ sent.msg.gate = sent.req.gw
        /\ sent.msg.mask = sent.req.mask
        /\ sent.msg.host = (sent.req.mask = Ones4)
        /\ ("NETMASK" \in sent.msg.addrs) = (sent.req.mask # Ones4)
        /\ sent.msg.host \/ ~ZeroNet(sent.req.ip) => sent.msg.dst = sent.req.ip

\* No request ends the service: the left-over mask of an earlier call passes the
\* check of newroute(), which would exit the process.
ServiceSurvives == ~tool.exited

\* Whatever calls came before, a request is served as it says and does not end
\* the service (mainRouteIface).
RequestIsServed == MessageIsRequest /\ ServiceSurvives
=============================================================================

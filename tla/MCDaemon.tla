------------------------------ MODULE MCDaemon ------------------------------
(* Instances of Daemon.  a and b are two peers on one host with the same   *)
(* client keys, so the daemon switches between them in place; d has other  *)
(* client keys, so it replaces the connection.                             *)
EXTENDS Daemon

CONSTANTS k1, k2, srv, sub, bad, p1

Cfg(id, key, excluded, ranges) ==
    [id |-> id, key |-> key, server |-> srv, excluded |-> {srv} \cup excluded, ranges |-> ranges, killSwitch |-> TRUE]

a == Cfg(1, k1, {sub, bad}, {Default})
b == Cfg(1, k2, {sub}, {p1})
d == Cfg(2, k1, {}, {Default})
Switchable == {a, b}
Replaced == {Cfg(1, k1, {}, {Default}), d}
AllConfigs == {a, b, d}
=============================================================================

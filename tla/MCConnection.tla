---------------------------- MODULE MCConnection ----------------------------
(* Row 1 runs WireGuard, row 2 Xray, row 3 has no configuration yet; each  *)
(* run chooses its rows, and which of them has a pool of two addresses.    *)
EXTENDS Connection

MCRows == {1, 2, 3}
MCUsable == {1, 2}
MCWireGuard == {1}
MCPoolSize == <<2, 1, 1>>
MCXrayPool == <<1, 2, 1>>
MCOrders == {<<1, 2>>}
=============================================================================

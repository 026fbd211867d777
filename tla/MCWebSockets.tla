---------------------------- MODULE MCWebSockets ----------------------------
(* Three sockets of one client, from two addresses, and one of another.    *)
EXTENDS WebSockets, TLC

CONSTANTS k1, k2, k3, k4, alice, bob, home, office

SocketsOfTwo == {k1, k2, k3, k4}
ClientsOfSockets == (k1 :> alice) @@ (k2 :> alice) @@ (k3 :> alice) @@ (k4 :> bob)
AddressesOfSockets == (k1 :> home) @@ (k2 :> office) @@ (k3 :> home) @@ (k4 :> home)
=============================================================================

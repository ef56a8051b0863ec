------------------------------ MODULE MCSockets ------------------------------
(* A local program, two peers on the internet, and one in the routing table     *)
(* that is also heard on the local network.                                   *)
EXTENDS Sockets
CONSTANTS l, g, b, prog, x, y, z
SendersHere == {<<l, prog>>, <<g, x>>, <<g, y>>, <<g, z>>, <<b, z>>}
=============================================================================

------------------------------ MODULE MCPCache ------------------------------
(* Instances of PCache small enough for TLC. *)
EXTENDS PCacheProps, TLC

CONSTANTS m1, m2, m3, m4, c1, c2, c3, o1, o2, o3, o4, none

TokenSymmetry == Permutations(OwnTokens) \cup Permutations(Clients \ LocalClients)

AllInOne == [m \in Id |-> 0]
UnitSize == [m \in Id |-> 1]
OneSlot  == [m \in Id |-> 0]

Everything == {Id}

AckOverflow == {<<m1, m2>>, <<m2, m3>>}
=============================================================================

------------------------------ MODULE MCNetwork -----------------------------
(***************************************************************************)
(* What systems know of each other, part by part: the table of peers, an   *)
(* exchange of keys, and requests for what another system has cached.  The *)
(* parts share no state, so that each behaviour is one of one part and the *)
(* others stay as they begin.                                              *)
(***************************************************************************)
EXTENDS Routing, Exchange, Requests

CONSTANTS a, b, x4, y4, z6

\* Two users who are each other's contacts; only one of them resends.
MCPairs == {<<a, b>>, <<b, a>>}
\* Peers with addresses of both versions, several with one address or one destination.
MCVersion == [i \in {x4, y4, z6} |-> IF i = z6 THEN 6 ELSE 4]
\* The address of two bits that is the number d.
D(d) == [k \in {0, 1} |-> IF k = 0 THEN d \div 2 ELSE d % 2]
MCMyAddress == D(0)
I(d, i) == [dest |-> D(d), ip |-> i]
MCInfos == {I(2, x4), I(2, z6), I(3, x4), I(3, y4), I(1, y4), I(1, z6), I(0, x4)}

\* Addresses of contacts: none, whole ones, as many bits as a bitmap has, and fewer.
A(bits, nbits) == [bits |-> bits, nbits |-> nbits]
MCContactAddresses == {A(0, 0), A(5, 3), A(6, 2), A(7, 1)}

VARIABLE part
network == <<part, tables, exchanges, requests>>

Init ==
  /\ part \in {"routing", "exchange", "requests"}
  /\ RoutingInit /\ ExchangeInit /\ RequestsInit

Next ==
  /\ UNCHANGED part
  /\ \/ part = "routing" /\ RoutingNext /\ UNCHANGED <<exchanges, requests>>
     \/ part = "exchange" /\ ExchangeNext /\ UNCHANGED <<tables, requests>>
     \/ part = "requests" /\ RequestsNext /\ UNCHANGED <<tables, exchanges>>

\* The fairness of each part, while it is the one.
Spec ==
  /\ Init /\ [][Next]_network
  /\ \A p \in Pairs : WF_exchanges(part = "exchange" /\ TimeToResendKey(p[1], p[2]))
  /\ \A u \in Users : /\ WF_exchanges(part = "exchange" /\ MinutePasses(u))
                      /\ SF_exchanges(part = "exchange" /\ ResendPendingKeys(u))
  /\ \A u \in Users, k \in Keys : SF_exchanges(part = "exchange" /\ Arrives(u, k) /\ keyPackets' # keyPackets)
=============================================================================

------------------------------ MODULE Routing -------------------------------
(***************************************************************************)
(* The table of DHT peers and the list of addresses to ping (lib/routing.c *)
(* with dht_process and the expiration of lib/adht.c).  There is a row of  *)
(* PEERS_PER_BIT slots for every number of leading bits that an address    *)
(* shares with the own address, the most recent peer first.  Every         *)
(* function holds the mutex from begin to end, so each is a step.  What is *)
(* saved late in adht/peers is a table that was reached before; a restart  *)
(* reads the one that is current.                                          *)
(***************************************************************************)
EXTENDS Naturals, Sequences, FiniteSets, FiniteSetsExt, Subsequences

CONSTANTS
  AddressBits, PeersPerBit, MaxPings,  \* ADDRESS_BITS, PEERS_PER_BIT, MAX_PINGS
  MyAddress,  \* my_address; an address is a function from 0 .. AddressBits - 1
  MyIps,      \* the internet addresses of the own interfaces
  Version,    \* [internet addresses -> 4 or 6]
  Infos,      \* addr_infos that packets name: [dest, ip]
  Vacant      \* a slot with nbits = 0

Addresses == [0 .. AddressBits - 1 -> {0, 1}]

ASSUME RoutingAssumption ==
  /\ AddressBits \in Nat \ {0} /\ PeersPerBit \in Nat \ {0} /\ MaxPings \in Nat \ {0}
  /\ MyAddress \in Addresses
  /\ Infos \subseteq [dest : Addresses, ip : DOMAIN Version]
  /\ Vacant \notin [info : Infos, refreshed : BOOLEAN]

VARIABLES
  peers,  \* sequence of slots, row after row: Vacant or [info, refreshed]
  pings   \* sequence of MaxPings slots
tables == <<peers, pings>>

MaxPeers == AddressBits * PeersPerBit
Fresh(a) == [info |-> a, refreshed |-> TRUE]
RoutingInit ==
  /\ peers = [i \in 1 .. MaxPeers |-> Vacant] /\ pings = [i \in 1 .. MaxPings |-> Vacant]

\* matching_bits of two whole addresses.
MatchingBits(x, y) ==
  LET differ == {k \in 0 .. AddressBits - 1 : x[k] # y[k]}
  IN  IF differ = {} THEN AddressBits ELSE Min(differ)

\* The slots in use whose entry passes the test.
SlotsWith(d, Test(_)) == {i \in DOMAIN d : d[i] # Vacant /\ Test(d[i].info)}
SamePeer(a, b) == a.dest = b.dest /\ Version[a.ip] = Version[b.ip]
FindPeer(t, a) == SlotsWith(t.peers, LAMBDA b : SamePeer(a, b))
FindIp(t, a) == SlotsWith(t.peers, LAMBDA b : a.ip = b.ip)
FindPing(t, a) == SlotsWith(t.pings, LAMBDA b : a.dest = b.dest)

\* The slots first to last move back by one, a comes in front.
InFront(d, first, last, a) ==
  [i \in DOMAIN d |-> IF i = first THEN Fresh(a)
                      ELSE IF i > first /\ i <= last THEN d[i - 1] ELSE d[i]]

\* "there should not be any others with the same IP": the first one.
OthersWithIp(t, a) == IF FindIp(t, a) = {} THEN {} ELSE {Min(FindIp(t, a))}
Row(a) == MatchingBits(a.dest, MyAddress) * PeersPerBit

\* delete_ping: the entries of the address, of either version.
Waiting(t, a) == FindPing(t, a)

RoutingAddDht(t, a) ==
  LET inRow == FindPeer(t, a) \cap (Row(a) + 1 .. Row(a) + PeersPerBit)
      cleared == [i \in DOMAIN t.peers |-> IF i \in OthersWithIp(t, a) THEN Vacant ELSE t.peers[i]]
  IN  IF inRow # {}
      THEN [t EXCEPT !.peers = InFront(@, Row(a) + 1, Min(inRow), a)]
      ELSE [peers |-> InFront(cleared, Row(a) + 1, Row(a) + PeersPerBit, a),
            pings |-> [i \in DOMAIN t.pings |-> IF i \in Waiting(t, a) THEN Vacant ELSE t.pings[i]]]

RoutingAddPing(t, a) ==
  IF FindPeer(t, a) \cup FindIp(t, a) # {} THEN t
  ELSE [t EXCEPT !.pings =
         InFront(@, 1, IF FindPing(t, a) = {} THEN MaxPings ELSE Min(FindPing(t, a)), a)]

(***************************************************************************)
(* routing_expire_dht: what was not refreshed since the last call leaves   *)
(* the list of pings, then every such peer moves to the list of pings.     *)
(***************************************************************************)
Stale(d, i) == d[i] # Vacant /\ ~d[i].refreshed
Aged(d) == [i \in DOMAIN d |-> IF d[i] = Vacant \/ Stale(d, i) THEN Vacant
                               ELSE [d[i] EXCEPT !.refreshed = FALSE]]

\* Mutant of MovedToPings: the slot is cleared after the peer is entered as a ping.
MutMovedToPings(t, i) == [RoutingAddPing(t, t.peers[i].info) EXCEPT !.peers[i] = Vacant]
MovedToPings(t, i) == RoutingAddPing([t EXCEPT !.peers[i] = Vacant], t.peers[i].info)
ExpirePeer(t, i) ==
  IF Stale(t.peers, i) THEN MovedToPings(t, i)
  ELSE IF t.peers[i] = Vacant THEN t ELSE [t EXCEPT !.peers[i].refreshed = FALSE]

RoutingExpireDht ==
  LET t[i \in 0 .. MaxPeers] == IF i = 0 THEN [peers |-> peers, pings |-> Aged(pings)]
                                ELSE ExpirePeer(t[i - 1], i)
  IN  peers' = t[MaxPeers].peers /\ pings' = t[MaxPeers].pings

(***************************************************************************)
(* dht_process: the entries of the sender go to the table, the peers it    *)
(* names to the list of pings; own addresses are left out.                 *)
(***************************************************************************)
IsOwnAddress(a) == a.dest = MyAddress \/ a.ip \in MyIps
AddSender(t, a) == IF IsOwnAddress(a) THEN t ELSE RoutingAddDht(t, a)
\* It compares the internet address only.
IsInRoutingTable(t, a) == FindIp(t, a) # {}
AddNode(t, a) == IF IsOwnAddress(a) \/ IsInRoutingTable(t, a) THEN t ELSE RoutingAddPing(t, a)

DhtProcess(senders, nodes) ==
  LET s[i \in 0 .. Len(senders)] == IF i = 0 THEN [peers |-> peers, pings |-> pings]
                                    ELSE AddSender(s[i - 1], senders[i])
      t[i \in 0 .. Len(nodes)] == IF i = 0 THEN s[Len(senders)] ELSE AddNode(t[i - 1], nodes[i])
  IN  peers' = t[Len(nodes)].peers /\ pings' = t[Len(nodes)].pings

\* What save_peers writes, at the end of the program at the latest: the slots in use, a peer
\* with its number, a ping without.
SavedPeers == [peers |-> {i \in DOMAIN peers : peers[i] # Vacant},
               pings |-> Only(pings, {pings[i] : i \in DOMAIN pings} \ {Vacant})]
\* load_peer: what is loaded counts as refreshed.
LoadPeer(slot) == Fresh(slot.info)
\* load_peers: a peer keeps its slot, the pings close up.
LoadPeers ==
  LET file == SavedPeers
  IN  /\ peers' = [i \in DOMAIN peers |-> IF i \in file.peers THEN LoadPeer(peers[i]) ELSE Vacant]
      /\ pings' = [i \in DOMAIN pings |-> IF i > Len(file.pings) THEN Vacant ELSE LoadPeer(file.pings[i])]

(***************************************************************************)
(* routing_top_dht_matches: from the last row to the first, the peers that *)
(* are closer to the destination than the own address, or in its range of  *)
(* nbits; an address with two versions once.                               *)
(***************************************************************************)
Matched(d, nbits, x) == Min({nbits, MatchingBits(d, x)})
AddrCloser(d, nbits, x) ==
  Matched(d, nbits, MyAddress) < Matched(d, nbits, x) \/ Matched(d, nbits, x) = nbits
\* Mutant of Rows: the peers that share no bit are left out.
MutRows == AddressBits - 1
Rows == AddressBits
SearchOrder == [k \in 1 .. Rows * PeersPerBit |->
                 (AddressBits - 1 - ((k - 1) \div PeersPerBit)) * PeersPerBit + ((k - 1) % PeersPerBit) + 1]
RoutingTopDhtMatches(d, nbits, max) ==
  LET take(list, i) ==
        IF /\ Len(list) < max /\ peers[i] # Vacant
           /\ AddrCloser(d, nbits, peers[i].info.dest)
           /\ \A k \in DOMAIN list : list[k].dest # peers[i].info.dest
        THEN Append(list, peers[i].info) ELSE list
      found[k \in 0 .. Rows * PeersPerBit] ==
        IF k = 0 THEN <<>> ELSE take(found[k - 1], SearchOrder[k])
  IN  found[Rows * PeersPerBit]

\* A sender has one or two internet addresses, and names a peer or none.
RoutingNext ==
  \/ \E a, b \in Infos : a.dest = b.dest /\ DhtProcess(IF a = b THEN <<a>> ELSE <<a, b>>, <<>>)
  \/ \E a, b \in Infos : DhtProcess(<<a>>, <<b>>)
  \/ RoutingExpireDht \/ LoadPeers
RoutingSpec == RoutingInit /\ [][RoutingNext]_tables

-----------------------------------------------------------------------------

\* (routing_expire_dht) A peer that was silent is asked again before it is
\* forgotten: it is in the list of pings after the call, unless another peer has
\* its internet address or more peers were silent than the list has room for.
SilentPeersArePinged ==
  [][RoutingExpireDht =>
       LET silent == {i \in 1 .. MaxPeers : Stale(peers, i)}
       IN  \A i \in silent :
             \/ \E j \in 1 .. MaxPings : pings'[j] # Vacant /\ pings'[j].info.dest = peers[i].info.dest
             \/ \E j \in 1 .. MaxPeers \ {i} : peers[j] # Vacant /\ peers[j].info.ip = peers[i].info.ip
             \/ Cardinality(silent) > MaxPings]_tables

\* (routing_top_dht_matches) A message that goes to as many addresses as a row has
\* slots goes to every peer that is closer to its destination than this system:
\* they are all in one row.
CloserPeersFound ==
  \A d \in Addresses :
    LET found == RoutingTopDhtMatches(d, AddressBits, PeersPerBit)
    IN  \A i \in 1 .. MaxPeers :
          peers[i] # Vacant /\ MatchingBits(d, peers[i].info.dest) > MatchingBits(d, MyAddress)
            => \E k \in DOMAIN found : found[k].dest = peers[i].info.dest

=============================================================================

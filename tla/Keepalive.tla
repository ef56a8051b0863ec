------------------------------ MODULE Keepalive ------------------------------
(***************************************************************************)
(* How two daemons show each other that they receive what is sent to their *)
(* address: keep-alives with a sender's authentication, made from the      *)
(* address it is sent to and the random secret of the daemon, which the    *)
(* other returns as the receiver's authentication (ad.c, keepalive_auth of *)
(* lib/util.c).  An authentication is the number of the start whose secret *)
(* made it, NoAuth for one that is all zeros.  The limits on receiving are *)
(* in Sockets: here recv_limit may be reached with any packet.             *)
(***************************************************************************)
EXTENDS Naturals, Sequences

CONSTANTS
  Near, Far,      \* two daemons; Near has Far in its routing table
  SendLimit,      \* SEND_LIMIT_DEFAULT, 99
  MaxStarts,      \* bound: starts of each daemon
  MaxLost,      \* bound: packets lost
  MaxInFlight     \* bound: packets on their way to a daemon; more are lost
ASSUME KeepaliveAssumption ==
  Near # Far /\ SendLimit \in Nat \ {0, 1} /\ MaxStarts \in Nat \ {0} /\ MaxInFlight \in Nat

Daemons == {Near, Far}
Peer(n) == IF n = Near THEN Far ELSE Near
NoAuth == 0
NoEntry == [auth |-> NoAuth, send |-> 0]
DataPacket == [keepalive |-> FALSE, sender |-> NoAuth, receiver |-> NoAuth]

VARIABLES
  start,      \* [Daemons -> 1 .. MaxStarts]: sockets.random_secret
  entry,      \* [Daemons -> the peer's entry in sockets, or NoEntry]
  recorded,   \* [Daemons -> the routing_keepalives entry of the peer]
  inFlight,   \* [Daemons -> the packets on their way to it]
  lost,
  reached,    \* daemons whose peer has received from them since they started (ghost)
  renewed     \* the daemon whose last step renewed its peer's send limit, or {} (ghost)
keepalives == <<start, entry, recorded, inFlight, lost, reached, renewed>>

KeepaliveInit ==
  /\ start = [n \in Daemons |-> 1] /\ entry = [n \in Daemons |-> NoEntry]
  /\ recorded = [n \in Daemons |-> NoAuth]
  /\ inFlight = [n \in Daemons |-> <<>>] /\ lost = 0
  /\ reached = {} /\ renewed = {}

InRoutingTable(n) == n = Near
\* compute_sender_auth: from the secret of this start and the address it is sent to.
SenderAuth(n) == start[n]
\* keepalive_auth: with all zeros as the receiver's authentication the packet is shorter.
KeepaliveAuth(n, receiver) == [keepalive |-> TRUE, sender |-> SenderAuth(n), receiver |-> receiver]
Small(p) == p.keepalive /\ p.receiver = NoAuth
MutIsAuth(n, p) == p.keepalive /\ ~Small(p)     \* mutant: an old secret will do
IsAuth(n, p) == p.keepalive /\ p.receiver = start[n]

SendOneKeepalive(n, auth) == <<KeepaliveAuth(n, auth)>>
SendRoutingKeepalive(n) == SendOneKeepalive(n, recorded[n])

Arriving(queue, packets) ==
  LET all == queue \o packets IN SubSeq(all, 1, IF Len(all) < MaxInFlight THEN Len(all) ELSE MaxInFlight)
\* socket_dec_send_limit, and socket_send_fun for a peer that is not left out.
Charge(e) == IF e.send = 1 THEN NoEntry ELSE IF e = NoEntry THEN e ELSE [e EXCEPT !.send = @ - 1]

-----------------------------------------------------------------------------
\* add_routing_keepalive, for a packet with the authentication of this start.
AddsRoutingKeepalive(n, p) == IsAuth(n, p) /\ recorded[n] # p.sender
\* socket_address_add.
SocketAdded(auth) == [auth |-> auth, send |-> SendLimit]
\* add_received_address: [entry, recorded, sent].
Admitted(n, p) ==
  LET auth == IF IsAuth(n, p) THEN p.sender ELSE NoAuth
      isNew == AddsRoutingKeepalive(n, p)
  IN IF ~InRoutingTable(n)
     THEN [entry |-> Charge(SocketAdded(auth)), recorded |-> recorded[n], sent |-> SendOneKeepalive(n, auth)]
     ELSE [entry |-> NoEntry,
           recorded |-> IF isNew THEN p.sender ELSE recorded[n],
           sent |-> IF isNew THEN SendOneKeepalive(n, auth) ELSE <<>>]
\* send_auth_response.
MutAuthResponse(n, p) ==         \* mutant: it answers the longer ones
  IF p.keepalive /\ ~IsAuth(n, p) /\ ~Small(p) THEN <<KeepaliveAuth(n, p.sender)>> ELSE <<>>
AuthResponse(n, p) == IF ~IsAuth(n, p) /\ Small(p) THEN <<KeepaliveAuth(n, p.sender)>> ELSE <<>>
\* update_read, and the keep-alive when recv_limit is reached.
Updated(n, p, limitReached) ==
  LET heard == IF IsAuth(n, p) THEN [entry[n] EXCEPT !.send = SendLimit] ELSE entry[n]
  IN [entry |-> IF limitReached THEN Charge(heard) ELSE heard, recorded |-> recorded[n],
      sent |-> IF limitReached THEN <<KeepaliveAuth(n, heard.auth)>> ELSE <<>>]

\* One turn of the loop with packet p.
Handled(n, p, limitReached) ==
  IF entry[n] = NoEntry
  THEN LET admitted == Admitted(n, p) IN [admitted EXCEPT !.sent = AuthResponse(n, p) \o @]
  ELSE Updated(n, p, limitReached)
Receive(n) ==
  /\ inFlight[n] # <<>>
  /\ \E limitReached \in BOOLEAN :
       LET p == Head(inFlight[n])
           h == Handled(n, p, limitReached)
       IN /\ limitReached => entry[n] # NoEntry
          /\ entry' = [entry EXCEPT ![n] = h.entry]
          /\ recorded' = [recorded EXCEPT ![n] = h.recorded]
          /\ inFlight' = [inFlight EXCEPT ![n] = Tail(@), ![Peer(n)] = Arriving(@, h.sent)]
          /\ reached' = IF p.keepalive /\ p.sender = start[Peer(n)] THEN reached \cup {Peer(n)} ELSE reached
          /\ renewed' = IF IsAuth(n, p) THEN {n} ELSE {}
  /\ UNCHANGED <<start, lost>>

\* socket_send_keepalives, which does not count what it sends.
SendKeepalives(n) ==
  /\ entry[n] # NoEntry /\ inFlight[Peer(n)] = <<>>
  /\ inFlight' = [inFlight EXCEPT ![Peer(n)] = Arriving(@, <<KeepaliveAuth(n, entry[n].auth)>>)]
  /\ renewed' = {}
  /\ UNCHANGED <<start, entry, recorded, lost, reached>>

\* send_out with and without send_routing_keepalive.
SendOutFrom(n) ==
  /\ inFlight[Peer(n)] = <<>> /\ (InRoutingTable(n) \/ entry[n] # NoEntry)
  /\ \E withKeepalives \in BOOLEAN :
       LET first == IF withKeepalives /\ InRoutingTable(n) THEN SendRoutingKeepalive(n) ELSE <<>>
           second == IF withKeepalives /\ entry[n] # NoEntry THEN SendOneKeepalive(n, entry[n].auth) ELSE <<>>
       IN inFlight' = [inFlight EXCEPT ![Peer(n)] = Arriving(@, first \o <<DataPacket>> \o second)]
  /\ entry' = [entry EXCEPT ![n] = Charge(@)]
  /\ renewed' = {}
  /\ UNCHANGED <<start, recorded, lost, reached>>

LoseKeepalive(n) ==
  /\ inFlight[n] # <<>> /\ lost < MaxLost
  /\ inFlight' = [inFlight EXCEPT ![n] = Tail(@)]
  /\ lost' = lost + 1 /\ renewed' = {}
  /\ UNCHANGED <<start, entry, recorded, reached>>

\* initialize_sockets of a daemon that is started again.
Restart(n) ==
  /\ start[n] < MaxStarts
  /\ start' = [start EXCEPT ![n] = @ + 1]
  /\ entry' = [entry EXCEPT ![n] = NoEntry] /\ recorded' = [recorded EXCEPT ![n] = NoAuth]
  /\ reached' = reached \ {n} /\ renewed' = {}
  /\ UNCHANGED <<inFlight, lost>>

KeepaliveNext ==
  \E n \in Daemons : Receive(n) \/ SendKeepalives(n) \/ SendOutFrom(n) \/ LoseKeepalive(n) \/ Restart(n)

\* Packets that are not lost arrive, and both loops go on: update_virtual_clock and update_dht
\* send from time to time.  (Strong fairness: that nothing else is in flight is only a bound.)
KeepaliveFairness ==
  /\ \A n \in Daemons : WF_keepalives(Receive(n))
  /\ WF_keepalives(SendOutFrom(Near)) /\ SF_keepalives(SendOutFrom(Far))
KeepaliveSpec == KeepaliveInit /\ [][KeepaliveNext]_keepalives /\ KeepaliveFairness

-----------------------------------------------------------------------------
\* (is_auth_keepalive, update_read) The send limit of a peer is renewed only after the peer has
\* received something that this daemon sent it since it started: not for what a peer returns
\* that it got from a daemon that has ended.
RenewedIsReached == renewed \subseteq reached

\* (send_auth_response, add_received_address) A peer that has this daemon in its routing table
\* and has received from it shows it again and again, whatever is lost and whichever of the two
\* starts again, although an entry never takes over a later authentication.
PeerAuthenticates == (Near \in reached) ~> (Far \in renewed)
=============================================================================

------------------------------- MODULE Sockets -------------------------------
(***************************************************************************)
(* The tables of peer addresses of lib/sockets.c and the loop of ad.c that *)
(* uses them.  Each socket has an array of addresses with limits on what   *)
(* may be received and sent and until when; sending, keep-alives and the   *)
(* virtual clock remove addresses from the arrays, while the loop holds a  *)
(* pointer r.sav into one of them from reading a packet to answering it.   *)
(*                                                                         *)
(* time_limit is kept as `left`, the ticks of the virtual clock until it   *)
(* is reached.  `sent` and `quiet` of an entry are not in the code: packets *)
(* sent since the entry was made or its send limit renewed, and ticks      *)
(* since something was received, counted up to RemoteLife + 1.             *)
(***************************************************************************)
EXTENDS Integers, Sequences, SequencesExt, Subsequences

CONSTANTS
  Local, Global, Broadcast,   \* sockets: is_local, is_global_*, is_broadcast
  Addr,                       \* addresses of programs and systems
  Senders,                    \* (socket, address) pairs packets come from
  Routed,                     \* the addresses in the routing table
  Unreachable,                \* addresses that sendto may fail for
  BroadcastAddr,              \* the broadcast address of an interface
  NoAddr,                     \* no address to leave out
  RecvLimit, SendLimit,       \* RECV_LIMIT_DEFAULT, SEND_LIMIT_DEFAULT
  LocalLife, RemoteLife       \* 6 and 180 ticks

Sock == Local \cup Global \cup Broadcast

ASSUME SocketAssumption ==
  /\ Local # {} /\ Senders \subseteq Sock \X Addr
  /\ Local \cap (Global \cup Broadcast) = {} /\ Global \cap Broadcast = {}
  /\ NoAddr \notin Addr \cup {BroadcastAddr}
  /\ RecvLimit \in Nat \ {0} /\ SendLimit \in Nat \ {0, 1}
  /\ LocalLife \in Nat /\ RemoteLife \in Nat /\ LocalLife <= RemoteLife

VARIABLES
  table,    \* send_addrs [0 .. num_addrs - 1] of each socket
  r,        \* the socket_read_result; r.sav is an index, 0 for NULL
  stale,    \* the addresses in the memory after those of socket r.sock
  pc,       \* where the loop is
  todo      \* calls of socket_send_local and socket_send_out still to make

vars == <<table, r, stale, pc, todo>>

Life(s) == IF s \in Local THEN LocalLife ELSE RemoteLife
Forever == -1                              \* time_limit 0

\* What add_received_address and add_v4 or add_v6 put in a table.
Peer(s, a) == [addr |-> a, recv |-> RecvLimit, send |-> SendLimit, limited |-> TRUE,
               left |-> Life(s), sent |-> 0, quiet |-> 0]
Interface == [addr |-> BroadcastAddr, recv |-> 0, send |-> 0, limited |-> FALSE,
              left |-> Forever, sent |-> 0, quiet |-> 0]

Where(seq, test(_)) == Only(seq, {e \in Range(seq) : test(e)})
Mapped(seq, f(_)) == [i \in DOMAIN seq |-> f(seq[i])]
AddrsOf(s) == {table[s][i].addr : i \in DOMAIN table[s]}
IndexIn(s, a) == CHOOSE i \in DOMAIN table[s] : table[s][i].addr = a
NoRead == [sock |-> CHOOSE s \in Sock : TRUE, from |-> NoAddr, sav |-> 0,
           reached |-> FALSE, auth |-> FALSE]

Init ==
  /\ table = [s \in Sock |-> IF s \in Broadcast THEN <<Interface>> ELSE <<>>]
  /\ r = NoRead /\ stale = <<>> /\ pc = "read" /\ todo = <<>>

\* Loops over the addresses compact an array in place: the memory after the
\* entries that are left still holds what was the last of them.
MutCompact(new) == table' = new /\ stale' = <<>>     \* mutant: memory shrinks
Compact(new) ==
  /\ table' = new
  /\ stale' = LET old == table[r.sock]
              IN [i \in 1 .. Len(old) - Len(new[r.sock]) |-> Last(old).addr] \o stale

\* update_read: an entry's limits when a packet comes from it.
Received(e, renew) ==
  LET heard == [e EXCEPT !.recv = IF @ >= 1 THEN @ - 1 ELSE @, !.quiet = 0]
  IN IF e.limited /\ renew THEN [heard EXCEPT !.send = SendLimit, !.sent = 0] ELSE heard

\* socket_read; `auth` is is_auth_keepalive for packets of global sockets.
Read(s, a, auth) ==
  /\ pc = "read" /\ todo = <<>>
  /\ auth => s \in Global
  /\ IF a \in AddrsOf(s)
     THEN LET i == IndexIn(s, a)
              e == Received(table[s][i], auth \/ s \notin Global)
          IN /\ table' = [table EXCEPT ![s][i] = e]
             /\ r' = [sock |-> s, from |-> a, sav |-> i,
                      reached |-> e.recv = 0, auth |-> auth]
     ELSE /\ r' = [sock |-> s, from |-> a, sav |-> 0, reached |-> FALSE, auth |-> auth]
          /\ UNCHANGED table
  /\ pc' = "admit"
  /\ UNCHANGED <<stale, todo>>

\* A packet is sent to an entry of the socket itself or, if not `own`, to the
\* same address of another socket: a limit of 0 stands for none.
MutSpent(e) == FALSE                 \* mutant: the last packet keeps the entry
Spent(e) == e.send = 1
SentTo(e, own) == IF e.send = 0 THEN e
                  ELSE [e EXCEPT !.send = @ - 1, !.sent = IF own THEN @ + 1 ELSE @]

\* send_on_socket to address a of socket s followed by socket_dec_send_limit,
\* which charges the address a of every socket.
Charged(tab, s, a) ==
  [t \in Sock |-> Mapped(Where(tab[t], LAMBDA e : e.addr # a \/ ~ Spent(e)),
                        LAMBDA e : IF e.addr = a THEN SentTo(e, t = s) ELSE e)]

\* add_received_address for an address outside the routing table.
AdmitNew ==
  /\ pc = "admit" /\ r.sav = 0 /\ r.from \notin Routed
  /\ LET added == [table EXCEPT ![r.sock] = Append(@, Peer(r.sock, r.from))]
     IN table' = Charged(added, r.sock, r.from)
  /\ r' = [r EXCEPT !.sav = Len(table[r.sock]) + 1]
  /\ pc' = "process"
  /\ UNCHANGED <<stale, todo>>

\* The same for one inside: only its keep-alive is recorded, and answered when
\* it is a new one.
AdmitRouted ==
  /\ pc = "admit" /\ r.sav = 0 /\ r.from \in Routed
  /\ \/ UNCHANGED <<table, stale>>
     \/ r.auth /\ Compact(Charged(table, r.sock, r.from))
  /\ pc' = "process"
  /\ UNCHANGED <<r, todo>>

\* A known address gets more time.
MutExtended(e, s) == e               \* mutant: only what makes an entry sets it
Extended(e, s) == [e EXCEPT !.left = IF @ = Forever THEN Forever ELSE Life(s)]
AdmitKnown ==
  /\ pc = "admit" /\ r.sav # 0
  /\ table' = [table EXCEPT ![r.sock][r.sav] = Extended(@, r.sock)]
  /\ pc' = "process"
  /\ UNCHANGED <<r, stale, todo>>

ToLocal(except) == [local |-> TRUE, except |-> except]
ToOut(except) == [local |-> FALSE, except |-> except]

\* What process_mgmt sends when it answers a trace, and what the loop sends of
\* the packet; send_out sends nothing when the hops are used up.
Answers == {<<>>, <<ToLocal(NoAddr)>>, <<ToLocal(NoAddr), ToOut(NoAddr)>>}
Forwards == {<<>>, <<ToLocal(r.from)>>, <<ToLocal(r.from), ToOut(r.from)>>}
Process ==
  /\ pc = "process"
  /\ \E answer \in Answers, forward \in Forwards : todo' = answer \o forward
  /\ pc' = "limit"
  /\ UNCHANGED <<table, r, stale>>

\* socket_send_fun for each address of the local or of the other sockets, when
\* sendto works unless the address is in `fails`.
Delivered(call, fails) ==
  LET spared(e) == e.addr = call.except
      kept(e) == spared(e) \/ (e.addr \notin fails /\ ~ Spent(e))
      after(e) == IF spared(e) THEN e ELSE SentTo(e, TRUE)
  IN [s \in Sock |-> IF (s \in Local) = call.local
                     THEN Mapped(Where(table[s], kept), after) ELSE table[s]]
Send ==
  /\ todo # <<>>
  /\ \E fails \in SUBSET Unreachable : Compact(Delivered(Head(todo), fails))
  /\ todo' = Tail(todo)
  /\ UNCHANGED <<r, pc>>

\* The address in the memory that the pointer r.sav points to.
Pointee == (Mapped(table[r.sock], LAMBDA e : e.addr) \o stale)[r.sav]

Renewed(tab, a) ==
  [s \in Sock |-> Mapped(tab[s], LAMBDA e :
     IF e.addr = a THEN [e EXCEPT !.recv = RecvLimit] ELSE e)]

\* After recv_limit packets the sender gets a new receive limit and a
\* keep-alive, which goes to whatever r.sav points to.
LimitReached ==
  /\ pc = "limit" /\ todo = <<>> /\ r.reached
  /\ Compact(Charged(Renewed(table, r.from), r.sock, Pointee))
  /\ pc' = "clock"
  /\ UNCHANGED <<r, todo>>
LimitNotReached ==
  /\ pc = "limit" /\ todo = <<>> /\ ~ r.reached
  /\ pc' = "clock"
  /\ UNCHANGED <<table, r, stale, todo>>

\* update_virtual_clock: entries past their limit go, and broadcast sockets are
\* closed and opened again.
MutPast(e) == FALSE                  \* mutant: a limit reached counts as none
Past(e) == e.left = 0
Older(e) == [e EXCEPT !.left = IF @ = Forever THEN @ ELSE @ - 1,
                      !.quiet = IF e.limited /\ @ <= RemoteLife THEN @ + 1 ELSE @]
Tick ==
  /\ pc = "clock"
  /\ table' = [s \in Sock |->
       IF s \in Broadcast THEN <<Interface>>
       ELSE Mapped(Where(table[s], LAMBDA e : ~ Past(e)), Older)]
  /\ pc' = "dht" /\ r' = NoRead /\ stale' = <<>>
  /\ UNCHANGED todo
NoTick ==
  /\ pc = "clock"
  /\ pc' = "dht" /\ r' = NoRead /\ stale' = <<>>
  /\ UNCHANGED <<table, todo>>

\* update_dht, from time to time with a packet.
UpdateDht ==
  /\ pc = "dht"
  /\ todo' \in {<<>>, <<ToLocal(NoAddr), ToOut(NoAddr)>>}
  /\ pc' = "read"
  /\ UNCHANGED <<table, r, stale>>

Daemon ==
  \/ AdmitNew \/ AdmitRouted \/ AdmitKnown \/ Process \/ Send
  \/ LimitReached \/ LimitNotReached \/ Tick \/ NoTick \/ UpdateDht
ReadAny == \E p \in Senders, auth \in BOOLEAN : Read(p[1], p[2], auth)
Next == ReadAny \/ Daemon

\* The loop runs; local sockets come first in get_message, so that the packets
\* of a local program that goes on sending are read; and time passes.
Spec ==
  /\ Init /\ [][Next]_vars
  /\ WF_vars(Daemon) /\ SF_vars(Tick)
  /\ \A p \in Senders : p[1] \in Local => SF_vars(Read(p[1], p[2], FALSE))

-----------------------------------------------------------------------------
(* Entries have the fields of a socket_address_validity, limits included.     *)
Entry == [addr : Addr \cup {BroadcastAddr}, recv : 0 .. RecvLimit,
          send : 0 .. SendLimit, limited : BOOLEAN,
          left : {Forever} \cup Nat, sent : Nat, quiet : Nat]
TypeOK ==
  /\ table \in [Sock -> Seq(Entry)]
  /\ r \in [sock : Sock, from : Addr \cup {NoAddr}, sav : Nat,
            reached : BOOLEAN, auth : BOOLEAN]
  /\ stale \in Seq(Addr \cup {BroadcastAddr})

(* "send <= 99 packets before rcv": packets and keep-alives sent to a peer    *)
(* since its entry was made or it authenticated are all counted, and an entry *)
(* never reaches a limit of 0, which would stand for no limit.                *)
SentWithinLimit ==
  \A s \in Sock : \A i \in DOMAIN table[s] :
    LET e == table[s][i]
    IN e.limited => e.send >= 1 /\ e.sent + e.send <= SendLimit

(* A peer only loses its entry when it has been silent for its whole life,    *)
(* when its send limit is used up or when it cannot be reached: other peers   *)
(* timing out, failing or using up their limits do not take it along.         *)
HeardPeersStay ==
  [][\A s \in Local \cup Global : \A i \in DOMAIN table[s] :
       LET e == table[s][i]
       IN \/ e.addr \in AddrsOf(s)' \/ e.addr \in Unreachable
          \/ e.send = 1 \/ e.quiet = Life(s)]_vars

(* The pointer into the table stays within the memory of its array while the  *)
(* loop uses it, however many entries are removed meanwhile.                  *)
PointerInMemory ==
  r.sav <= Len(table[r.sock]) + Len(stale)

(* A peer that is not heard any more is dropped, as long as some local        *)
(* program keeps the loop and so the virtual clock going.                     *)
SilentPeersForgotten ==
  \A p \in Senders : p[1] \in Global =>
    (<>[](r.sock # p[1] \/ r.from # p[2]) => <>[](p[2] \notin AddrsOf(p[1])))

(* "send keepalive every 20 packets": the peer that sent them gets it.        *)
KeepaliveToSender ==
  pc = "limit" /\ todo = <<>> /\ r.reached => Pointee = r.from
=============================================================================

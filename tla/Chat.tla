-------------------------------- MODULE Chat --------------------------------
(***************************************************************************)
(* How the chat programs make messages between two contacts reliable:      *)
(* xchat/message.c, retransmit.c and the acks and data of xcommon.c.       *)
(* A program saves what it sends and receives in files, pushes what has    *)
(* not been acked, and asks for what is missing, all over a network that   *)
(* loses, repeats and reorders packets.  Between the files and the         *)
(* handlers stand caches in memory, which a restart empties.               *)
(*                                                                         *)
(* A sequence number stands for the record, the message id and the ack of  *)
(* its message: each is computed from, or saved with, the other.  `told`   *)
(* is not in the code: the messages given to the user as new, in order.    *)
(***************************************************************************)
EXTENDS Integers, FiniteSets, Sequences

CONSTANTS
  Peer,          \* the chat programs
  Conv,          \* pairs of them that have exchanged keys: <<program, contact>>
  MaxSent,       \* bound: messages sent in each conversation
  MaxCrashes,    \* bound: programs that stop without notice
  MaxUnacked,    \* MAX_UNACKED, the length of the list of get_unacked
  MaxPush,       \* max_send of resend_unacked
  MaxAnswer,     \* messages resent for one request
  Curious,       \* bound: conversations in which requests are sent with nothing missing
  Slots,         \* ID_HASH_COUNT
  SlotOf(_),     \* idhash_index
  Overlap,       \* whether a second thread sends while packets are handled
  Nobody

Thread == {"packet", "user"}

ASSUME ChatAssumption ==
  /\ Conv \subseteq Peer \X Peer
  /\ \A k \in Conv : <<k[2], k[1]>> \in Conv /\ k[1] # k[2]
  /\ MaxSent \in [Conv -> Nat]
  /\ MaxUnacked \in Nat \ {0} /\ MaxPush \in Nat \ {0} /\ MaxAnswer \in Nat
  /\ Nobody \notin Peer /\ Overlap \in BOOLEAN

VARIABLES
  sent,      \* records of type SENT are 1 .. sent
  acked,     \* records of type ACK
  stored,    \* records of type RCVD
  told,
  loaded,    \* the contact whose numbers is_in_cache holds
  unacked,   \* unacked_cache: the list of a contact
  ids,       \* id_hashes [MESSAGE_ID_HASH_INDEX]
  reload,    \* calls of reload_unacked_cache under way
  net,       \* packets on their way
  crashes

files == <<sent, acked, stored>>
vars == <<sent, acked, stored, told, loaded, unacked, ids, reload, net, crashes>>

NoId == <<>>
NotCached == {0}
Id(q, p, i) == <<q, p, i>>
Data(p, q, i) == [type |-> "data", from |-> p, to |-> q, seq |-> i]
Ack(id) == [type |-> "ack", id |-> id]
Request(p, q, last, wanted) ==
  [type |-> "request", from |-> p, to |-> q, last |-> last, wanted |-> wanted]

Newest(S, n) == {i \in S : Cardinality({j \in S : j > i}) < n}
Last(S) == IF S = {} THEN 0 ELSE CHOOSE i \in S : \A j \in S : j <= i
Mails(p, q, S) == {Data(p, q, i) : i \in S}
Unacked(p, q) == (1 .. sent[<<p, q>>]) \ acked[<<p, q>>]

\* Records of each of the three kinds.
SaveOutgoing(p, q) == sent' = [sent EXCEPT ![<<p, q>>] = @ + 1]
SaveIncoming(p, q, i) == stored' = [stored EXCEPT ![<<p, q>>] = @ \cup {i}]
AckReceived(p, q, i) == acked' = [acked EXCEPT ![<<p, q>>] = @ \cup {i}]

(***************************************************************************)
(* was_received.  The answer of the cache is taken for "yes" whenever it   *)
(* holds the numbers of this contact, whichever numbers these are.  A      *)
(* look-up that finds another contact loads the numbers saved so far.      *)
(***************************************************************************)
MutWasReceived(cache, q, i, saved) == cache = q   \* mutant: does not go to the files
WasReceived(cache, q, i, saved) == cache = q \/ i \in saved
Reloaded(cache, q, saved) == IF saved = {} THEN cache ELSE q

\* get_missing looks the numbers up from last - 1 down; the first look-up loads the
\* cache, which answers for the others.
Missing(cache, q, saved) ==
  {i \in 1 .. Last(saved) - 1 :
     ~ WasReceived(IF i = Last(saved) - 1 THEN cache ELSE q, q, i, saved)}
AfterMissing(cache, q, saved) == IF Last(saved) > 1 THEN q ELSE cache

(***************************************************************************)
(* request_and_resend (p, q): ask for what is missing, perhaps (5 in 100)  *)
(* also when nothing is, and push messages that are not acked.  `now` is   *)
(* what the caller has already changed: the cache of was_received, the     *)
(* numbers saved from q, the lists of unacked messages, and the packets.   *)
(***************************************************************************)
Listed(p, q) == Newest(Unacked(p, q), MaxUnacked)
Pushed(p, q, lists) == IF lists[<<p, q>>] = NotCached THEN Listed(p, q) ELSE lists[<<p, q>>]
Asked(p, q, anyway, now) ==
  LET missing == Missing(now.cache, q, now.saved)
  IN IF missing # {} \/ anyway THEN {Request(p, q, Last(now.saved), missing)} ELSE {}

RequestAndResend(p, q, asks, anyway, pushes, now) ==
  LET list == Pushed(p, q, now.lists)
  IN /\ net' = now.packets \cup (IF asks THEN Asked(p, q, anyway, now) ELSE {})
                           \cup (IF pushes THEN Mails(p, q, Newest(list, MaxPush)) ELSE {})
     /\ loaded' = [loaded EXCEPT ![p] =
          IF asks THEN AfterMissing(now.cache, q, now.saved) ELSE now.cache]
     /\ unacked' = IF pushes THEN [now.lists EXCEPT ![<<p, q>>] = list] ELSE now.lists

\* A call from a handler does all of it, or nothing if the last call was in this second.
Anyway(p, q) == IF <<p, q>> \in Curious THEN BOOLEAN ELSE {FALSE}
Eagerly(p, q, now) ==
  \E runs \in BOOLEAN, anyway \in Anyway(p, q) : RequestAndResend(p, q, runs, anyway, runs, now)

Idle(p, t) == reload[<<p, t>>] = <<>>
Free(p, t) == Idle(p, t) /\ (Overlap \/ \A u \in Thread : Idle(p, u))
InHash(hash, p, id) == hash[p][SlotOf(id)] = id
Hashed(hash, p, id) == [hash EXCEPT ![p] = [@ EXCEPT ![SlotOf(id)] = id]]

-----------------------------------------------------------------------------
Init ==
  /\ sent = [k \in Conv |-> 0]
  /\ acked = [k \in Conv |-> {}]
  /\ stored = [k \in Conv |-> {}]
  /\ told = [k \in Conv |-> <<>>]
  /\ loaded = [p \in Peer |-> Nobody]
  /\ unacked = [k \in Conv |-> NotCached]
  /\ ids = [p \in Peer |-> [s \in Slots |-> NoId]]
  /\ reload = [u \in Peer \X Thread |-> <<>>]
  /\ net = {}
  /\ crashes = 0

\* send_data_message: save, send, then reload the list of unacked messages, which
\* begins with discarding it.
Uncached(p, q) == [unacked EXCEPT ![<<p, q>>] = NotCached]
Send(p, q) ==
  /\ Free(p, "user")
  /\ sent[<<p, q>>] < MaxSent[<<p, q>>]
  /\ SaveOutgoing(p, q)
  /\ net' = net \cup {Data(p, q, sent[<<p, q>>] + 1)}
  /\ unacked' = Uncached(p, q)
  /\ reload' = [reload EXCEPT ![<<p, "user">>] = <<q>>]
  /\ UNCHANGED <<acked, stored, told, loaded, ids, crashes>>

\* get_unacked in reload_unacked_cache goes over the records, unless the other thread
\* has stored a list in between ...
Scan(p, t) ==
  /\ Len(reload[<<p, t>>]) = 1
  /\ LET q == reload[<<p, t>>][1]
     IN reload' = [reload EXCEPT ![<<p, t>>] =
          <<q, IF unacked[<<p, q>>] = NotCached THEN Listed(p, q) ELSE NotCached>>]
  /\ UNCHANGED <<files, told, loaded, unacked, ids, net, crashes>>

\* ... and stores the list it made.
WithList(p, t) ==
  LET q == reload[<<p, t>>][1]
      list == reload[<<p, t>>][2]
  IN IF list = NotCached THEN unacked ELSE [unacked EXCEPT ![<<p, q>>] = list]
Store(p) ==
  /\ Len(reload[<<p, "user">>]) = 2
  /\ unacked' = WithList(p, "user")
  /\ reload' = [reload EXCEPT ![<<p, "user">>] = <<>>]
  /\ UNCHANGED <<files, told, loaded, ids, net, crashes>>

-----------------------------------------------------------------------------
\* handle_ack, for the program that sent the message: acks of others match no record.
\* The hashes of acks handled before are left out: they are in the records, too.
HandleAck(p, m) ==
  /\ m.type = "ack" /\ m.id[1] = p /\ Free(p, "packet")
  /\ LET q == m.id[2]
     IN IF m.id[3] \notin acked[<<p, q>>]
        THEN /\ AckReceived(p, q, m.id[3])
             /\ unacked' = Uncached(p, q)
             /\ reload' = [reload EXCEPT ![<<p, "packet">>] = <<q>>]
        ELSE UNCHANGED <<acked, unacked, reload>>
  /\ UNCHANGED <<sent, stored, told, loaded, ids, net, crashes>>

\* The rest of handle_ack: the list is stored, and the peer may be reachable.
Reached(p) ==
  /\ Len(reload[<<p, "packet">>]) = 2
  /\ LET q == reload[<<p, "packet">>][1]
     IN Eagerly(p, q, [cache |-> loaded[p], saved |-> stored[<<p, q>>],
                       lists |-> WithList(p, "packet"), packets |-> net])
  /\ reload' = [reload EXCEPT ![<<p, "packet">>] = <<>>]
  /\ UNCHANGED <<files, told, ids, crashes>>

(***************************************************************************)
(* handle_data.  A message whose id is in the table of hashes is acked     *)
(* again and not looked at; any other is saved if its number is new, given *)
(* to the user, and acked.                                                 *)
(***************************************************************************)
MutHandleAgain(p, m) ==                           \* mutant: known, so not acked
  /\ m.type = "data" /\ m.to = p /\ Free(p, "packet")
  /\ InHash(ids, p, Id(m.from, p, m.seq))
  /\ UNCHANGED vars
HandleAgain(p, m) ==
  /\ m.type = "data" /\ m.to = p /\ Free(p, "packet")
  /\ LET id == Id(m.from, p, m.seq)
     IN /\ InHash(ids, p, id)
        /\ net' = net \cup {Ack(id)}
  /\ UNCHANGED <<files, told, loaded, unacked, ids, reload, crashes>>

HandleData(p, m) ==
  /\ m.type = "data" /\ m.to = p /\ Free(p, "packet")
  /\ LET q == m.from
         id == Id(q, p, m.seq)
         duplicate == WasReceived(loaded[p], q, m.seq, stored[<<p, q>>])
     IN /\ ~ InHash(ids, p, id)
        /\ ids' = Hashed(ids, p, id)
        /\ IF duplicate THEN UNCHANGED <<stored, told>>
           ELSE /\ SaveIncoming(p, q, m.seq)
                /\ told' = [told EXCEPT ![<<p, q>>] = Append(@, m.seq)]
        /\ Eagerly(p, q, [cache |-> Reloaded(loaded[p], q, stored[<<p, q>>]),
                          saved |-> stored'[<<p, q>>], lists |-> unacked,
                          packets |-> net \cup {Ack(id)}])
  /\ UNCHANGED <<sent, acked, reload, crashes>>

\* do_chat_control: what was sent after the last number of the request, then what it
\* names below, newest first.
HandleRequest(p, m) ==
  /\ m.type = "request" /\ m.to = p /\ Free(p, "packet")
  /\ LET q == m.from
         answer == {i \in 1 .. sent[<<p, q>>] : i > m.last \/ (i < m.last /\ i \in m.wanted)}
     IN net' = net \cup Mails(p, q, Newest(answer, MaxAnswer))
  /\ UNCHANGED <<files, told, loaded, unacked, ids, reload, crashes>>

\* do_request_and_resend, which handle_packet calls before it looks at the packet,
\* and for whichever contact is next.  Each part has a time of its own to wait for.
Periodically(p, q, asks, anyway, pushes) ==
  /\ Free(p, "packet")
  /\ RequestAndResend(p, q, asks, anyway, pushes,
                      [cache |-> loaded[p], saved |-> stored[<<p, q>>], lists |-> unacked,
                       packets |-> net])
  /\ UNCHANGED <<files, told, ids, reload, crashes>>

-----------------------------------------------------------------------------
\* A packet is in net until it is lost, and may arrive any number of times before.
Lose(m) ==
  /\ net' = net \ {m}
  /\ UNCHANGED <<files, told, loaded, unacked, ids, reload, crashes>>

\* A program starts with its files and nothing else.
Restarted(p) ==
  /\ crashes < MaxCrashes
  /\ crashes' = crashes + 1
  /\ loaded' = [loaded EXCEPT ![p] = Nobody]
  /\ unacked' = [k \in Conv |-> IF k[1] = p THEN NotCached ELSE unacked[k]]
  /\ ids' = [ids EXCEPT ![p] = [s \in Slots |-> NoId]]
  /\ reload' = [u \in Peer \X Thread |-> IF u[1] = p THEN <<>> ELSE reload[u]]

Crash(p) == Restarted(p) /\ UNCHANGED <<files, told, net>>

\* Between save_outgoing and local_send.
CrashBeforeSending(p, q) ==
  /\ Free(p, "user") /\ sent[<<p, q>>] < MaxSent[<<p, q>>]
  /\ SaveOutgoing(p, q)
  /\ Restarted(p)
  /\ UNCHANGED <<acked, stored, told, net>>

\* Between save_incoming and send_ack.
CrashBeforeAck(p, m) ==
  /\ m.type = "data" /\ m.to = p /\ Free(p, "packet")
  /\ ~ InHash(ids, p, Id(m.from, p, m.seq))
  /\ ~ WasReceived(loaded[p], m.from, m.seq, stored[<<p, m.from>>])
  /\ SaveIncoming(p, m.from, m.seq)
  /\ Restarted(p)
  /\ UNCHANGED <<sent, acked, told, net>>

-----------------------------------------------------------------------------
Handle(p, m) == HandleAck(p, m) \/ HandleAgain(p, m) \/ HandleData(p, m)
                \/ HandleRequest(p, m)
Reloading(p) == Store(p) \/ Reached(p) \/ \E t \in Thread : Scan(p, t)
Next ==
  \/ \E k \in Conv :
       \/ Send(k[1], k[2])
       \/ CrashBeforeSending(k[1], k[2])
       \/ \E asks, pushes \in BOOLEAN, anyway \in Anyway(k[1], k[2]) :
            Periodically(k[1], k[2], asks, anyway, pushes)
  \/ \E p \in Peer : Reloading(p) \/ Crash(p)
  \/ \E m \in net : Lose(m) \/ \E p \in Peer : Handle(p, m) \/ CrashBeforeAck(p, m)

\* A packet that is on the way again and again arrives some time; a program goes on
\* with what it has begun, and pushes time and again.
Fairness ==
  /\ \A p \in Peer : WF_vars(Reloading(p))
  /\ \A k \in Conv : WF_vars(Periodically(k[1], k[2], FALSE, FALSE, TRUE))
  /\ \A k \in Conv : \A i \in 1 .. MaxSent[k] :
       /\ SF_vars(Data(k[1], k[2], i) \in net /\ Handle(k[2], Data(k[1], k[2], i)))
       /\ SF_vars(Ack(Id(k[1], k[2], i)) \in net /\ Handle(k[1], Ack(Id(k[1], k[2], i))))
Spec == Init /\ [][Next]_vars
FairSpec == Spec /\ Fairness

-----------------------------------------------------------------------------
\* Records and lists only hold numbers that were sent, and lists no more of them than
\* the code allocates.
TypeOK ==
  /\ \A k \in Conv :
       LET list(l) == l = NotCached \/ (l \subseteq 1 .. sent[k] /\ Cardinality(l) <= MaxUnacked)
       IN /\ sent[k] \in 0 .. MaxSent[k]
          /\ acked[k] \subseteq 1 .. sent[k]
          /\ stored[k] \subseteq 1 .. sent[k[2], k[1]]
          /\ list(unacked[k])
          /\ \A t \in Thread :
               /\ Len(reload[<<k[1], t>>]) \in 0 .. 2
               /\ Len(reload[<<k[1], t>>]) = 2 /\ reload[<<k[1], t>>][1] = k[2]
                    => list(reload[<<k[1], t>>][2])
  /\ told \in [Conv -> Seq(Nat)]
  /\ loaded \in [Peer -> Peer \cup {Nobody}]
  /\ ids \in [Peer -> [Slots -> {NoId} \cup Peer \X Peer \X Nat]]
  /\ crashes \in 0 .. MaxCrashes

\* A message is given to the user as new once, whatever is lost, repeated or
\* forgotten in a restart, and what the user has seen is in the log
\* (handle_data: duplicate, save_incoming).
ToldOnce ==
  \A k \in Conv : /\ \A i, j \in DOMAIN told[k] : told[k][i] = told[k][j] => i = j
                  /\ \A i \in DOMAIN told[k] : told[k][i] \in stored[k]

\* When no reload is under way, the cached list of get_unacked is what a scan of the
\* records would give: no acked message is pushed and no unacked one left out.
ListIsCurrent ==
  \A k \in Conv :
    (\A t \in Thread : Idle(k[1], t)) /\ unacked[k] # NotCached
      => unacked[k] = Listed(k[1], k[2])

\* What a sender has on record as acked is in the log of its contact
\* (handle_packet saves data messages; handle_data acks what was_received).
AckedIsStored == \A k \in Conv : acked[k] \subseteq stored[k[2], k[1]]

\* Every message is acked in the end, by pushing what is not acked, although any
\* packet, the acks too, may be lost and programs restart.
EveryMessageAcked ==
  \A k \in Conv : \A i \in 1 .. MaxSent[k] : (i <= sent[k]) ~> (i \in acked[k])
=============================================================================

----------------------------- MODULE ChatProofs -----------------------------
(***************************************************************************)
(* That the user is told of each message once, for any number of programs, *)
(* messages, restarts and slots.  The record of type RCVD is what keeps a  *)
(* message from being told again, so the invariant relates `told` to       *)
(* `stored`; the rest says which conversations packets and lists are about. *)
(***************************************************************************)
EXTENDS Chat, TLAPS

\* A packet belongs to a conversation.
PacketOK(m) ==
  /\ m.type \in {"data", "ack", "request"}
  /\ m.type = "data" => <<m.from, m.to>> \in Conv /\ m.seq \in Nat
  /\ m.type = "ack" => <<m.id[1], m.id[2]>> \in Conv
  /\ m.type = "request" => <<m.from, m.to>> \in Conv

Lists == [Conv -> SUBSET Nat]
ReloadOK(u, x) ==
  \/ x = <<>>
  \/ \E q \in Peer : <<u[1], q>> \in Conv /\ x = <<q>>
  \/ \E q \in Peer, l \in SUBSET Nat : <<u[1], q>> \in Conv /\ x = <<q, l>>

TypeInv ==
  /\ sent \in [Conv -> Nat]
  /\ stored \in [Conv -> SUBSET Nat]
  /\ told \in [Conv -> Seq(Nat)]
  /\ unacked \in Lists
  /\ reload = [u \in Peer \X Thread |-> reload[u]]
  /\ \A u \in Peer \X Thread : ReloadOK(u, reload[u])
  /\ \A m \in net : PacketOK(m)

Inv == TypeInv /\ ToldOnce

\* Both ends of a conversation are programs, and each has the other as contact.
LEMMA BothEnds ==
  ASSUME NEW p, NEW q, <<p, q>> \in Conv
  PROVE  p \in Peer /\ q \in Peer /\ <<q, p>> \in Conv
<1>1. <<p, q>> \in Peer \X Peer
  BY ChatAssumption
<1>2. <<(<<p, q>>)[2], (<<p, q>>)[1]>> \in Conv
  BY ChatAssumption
<1> QED
  BY <1>1, <1>2

\* The packets that push or answer with messages of a conversation.
LEMMA MailsOK ==
  ASSUME NEW p, NEW q, <<p, q>> \in Conv, NEW S \in SUBSET Nat, NEW m \in Mails(p, q, S)
  PROVE  PacketOK(m)
BY DEF Mails, Data, PacketOK

\* Lists come from scans, and scans from the records.
LEMMA ListedNat ==
  ASSUME TypeInv, NEW p, NEW q, <<p, q>> \in Conv
  PROVE  Listed(p, q) \in SUBSET Nat
<1>1. Unacked(p, q) \in SUBSET Nat
  <2>1. sent[<<p, q>>] \in Nat
    BY DEF TypeInv
  <2>2. \A n \in Nat : 1 .. n \subseteq Nat
    OBVIOUS
  <2>3. 1 .. sent[<<p, q>>] \subseteq Nat
    BY <2>1, <2>2
  <2> QED
    BY <2>3 DEF Unacked
<1>2. Listed(p, q) \subseteq Unacked(p, q)
  BY DEF Listed, Newest
<1> QED
  BY <1>1, <1>2

\* request_and_resend writes packets of its conversation and keeps the lists.
LEMMA ResendOK ==
  ASSUME TypeInv, NEW p, NEW q, <<p, q>> \in Conv, NEW now,
         NEW asks \in BOOLEAN, NEW anyway \in BOOLEAN, NEW pushes \in BOOLEAN,
         (\A m \in now.packets : PacketOK(m)), now.lists \in Lists,
         RequestAndResend(p, q, asks, anyway, pushes, now)
  PROVE  unacked' \in Lists /\ \A m \in net' : PacketOK(m)
<1> DEFINE list == Pushed(p, q, now.lists)
<1>1. list \in SUBSET Nat
  BY ListedNat DEF Pushed, Lists
<1>2. \A m \in Mails(p, q, Newest(list, MaxPush)) : PacketOK(m)
  <2>1. Newest(list, MaxPush) \in SUBSET Nat
    BY <1>1 DEF Newest
  <2> QED
    BY <2>1, MailsOK
<1>3. \A m \in Asked(p, q, anyway, now) : PacketOK(m)
  <2>1. SUFFICES ASSUME NEW m \in Asked(p, q, anyway, now)
                 PROVE  PacketOK(m)
    OBVIOUS
  <2>2. m = Request(p, q, Last(now.saved), Missing(now.cache, q, now.saved))
    BY <2>1 DEF Asked
  <2> QED
    BY <2>2 DEF Request, PacketOK
<1>4. \A m \in net' : \/ m \in now.packets
                      \/ m \in Asked(p, q, anyway, now)
                      \/ m \in Mails(p, q, Newest(list, MaxPush))
  BY DEF RequestAndResend
<1>5. unacked' \in Lists
  <2>1. unacked' = IF pushes THEN [now.lists EXCEPT ![<<p, q>>] = list] ELSE now.lists
    BY DEF RequestAndResend
  <2> HIDE DEF list
  <2> QED
    BY <1>1, <2>1 DEF Lists
<1> QED
  BY <1>2, <1>3, <1>4, <1>5

LEMMA EagerOK ==
  ASSUME TypeInv, NEW p, NEW q, <<p, q>> \in Conv, NEW now,
         (\A m \in now.packets : PacketOK(m)), now.lists \in Lists, Eagerly(p, q, now)
  PROVE  unacked' \in Lists /\ \A m \in net' : PacketOK(m)
<1>1. PICK runs \in BOOLEAN, anyway \in Anyway(p, q) :
            RequestAndResend(p, q, runs, anyway, runs, now)
  BY DEF Eagerly
<1>2. anyway \in BOOLEAN
  BY DEF Anyway
<1> QED
  BY <1>1, <1>2, ResendOK

\* A step of one thread's reload keeps what lists under way are about.
LEMMA ReloadStep ==
  ASSUME TypeInv, NEW p \in Peer, NEW t \in Thread, NEW x, ReloadOK(<<p, t>>, x),
         reload' = [reload EXCEPT ![<<p, t>>] = x]
  PROVE  /\ reload' = [u \in Peer \X Thread |-> reload'[u]]
         /\ \A u \in Peer \X Thread : ReloadOK(u, reload'[u])
<1>1. reload = [u \in Peer \X Thread |-> reload[u]]
  BY DEF TypeInv
<1>2. \A u \in Peer \X Thread : reload'[u] = IF u = <<p, t>> THEN x ELSE reload[u]
  BY <1>1
<1>3. \A u \in Peer \X Thread : ReloadOK(u, reload[u])
  BY DEF TypeInv
<1>4. \A u \in Peer \X Thread : ReloadOK(u, reload'[u])
  BY <1>2, <1>3
<1> QED
  BY <1>1, <1>4

\* Of a reload that has begun: whom it is about, and the list it has made.
LEMMA UnderWay ==
  ASSUME TypeInv, NEW p \in Peer, NEW t \in Thread, Len(reload[<<p, t>>]) > 0
  PROVE  /\ <<p, reload[<<p, t>>][1]>> \in Conv
         /\ Len(reload[<<p, t>>]) = 2 => reload[<<p, t>>][2] \in SUBSET Nat
<1>1. ReloadOK(<<p, t>>, reload[<<p, t>>])
  BY DEF TypeInv
<1>2. CASE \E q \in Peer : <<p, q>> \in Conv /\ reload[<<p, t>>] = <<q>>
  BY <1>2
<1>3. CASE \E q \in Peer, l \in SUBSET Nat :
             <<p, q>> \in Conv /\ reload[<<p, t>>] = <<q, l>>
  BY <1>3
<1>4. CASE reload[<<p, t>>] = <<>>
  BY <1>4
<1> QED
  BY <1>1, <1>2, <1>3, <1>4 DEF ReloadOK

LEMMA WithListOK ==
  ASSUME TypeInv, NEW p \in Peer, NEW t \in Thread, Len(reload[<<p, t>>]) = 2
  PROVE  WithList(p, t) \in Lists
<1>1. reload[<<p, t>>][2] \in SUBSET Nat
  <2>1. Len(reload[<<p, t>>]) > 0
    OBVIOUS
  <2> QED
    BY <2>1, UnderWay
<1> QED
  BY <1>1 DEF WithList, Lists, TypeInv

LEMMA UncachedOK ==
  ASSUME TypeInv, NEW p, NEW q
  PROVE  Uncached(p, q) \in Lists
<1>1. {0} \in SUBSET Nat
  OBVIOUS
<1>2. \A f \in Lists, l \in SUBSET Nat : [f EXCEPT ![<<p, q>>] = l] \in Lists
  BY DEF Lists
<1> QED
  BY <1>1, <1>2 DEF TypeInv, Uncached, NotCached

\* A restart forgets lists and reloads.
LEMMA RestartedOK ==
  ASSUME TypeInv, NEW p, Restarted(p)
  PROVE  /\ unacked' \in Lists
         /\ reload' = [u \in Peer \X Thread |-> reload'[u]]
         /\ \A u \in Peer \X Thread : ReloadOK(u, reload'[u])
<1>1. unacked' \in Lists
  BY DEF Restarted, TypeInv, Lists, NotCached
<1>2. reload' = [u \in Peer \X Thread |-> IF u[1] = p THEN <<>> ELSE reload[u]]
  BY DEF Restarted
<1>3. \A u \in Peer \X Thread : ReloadOK(u, reload[u])
  BY DEF TypeInv
<1>4. \A u \in Peer \X Thread : ReloadOK(u, reload'[u])
  BY <1>2, <1>3 DEF ReloadOK
<1> QED
  BY <1>1, <1>2, <1>4

-----------------------------------------------------------------------------
LEMMA InitInv == Init => Inv
<1> SUFFICES ASSUME Init PROVE Inv
  OBVIOUS
<1>1. unacked \in Lists
  <2>1. {0} \in SUBSET Nat
    OBVIOUS
  <2> QED
    BY <2>1 DEF Init, Lists, NotCached
<1>2. sent \in [Conv -> Nat] /\ stored \in [Conv -> SUBSET Nat] /\ told \in [Conv -> Seq(Nat)]
  BY DEF Init
<1>3. /\ reload = [u \in Peer \X Thread |-> reload[u]]
      /\ \A u \in Peer \X Thread : ReloadOK(u, reload[u])
      /\ \A m \in net : PacketOK(m)
  BY DEF Init, ReloadOK
<1>4. ToldOnce
  BY DEF Init, ToldOnce
<1> QED
  BY <1>1, <1>2, <1>3, <1>4 DEF Inv, TypeInv

\* What is not told again stays told once, as nothing is taken out of the log.
LEMMA ToldKept ==
  ASSUME Inv, told' = told, \A k \in Conv : stored[k] \subseteq stored'[k]
  PROVE  ToldOnce'
BY DEF Inv, ToldOnce

\* Appending a number that is not in the log.
LEMMA ToldNew ==
  ASSUME Inv, NEW k \in Conv, NEW i \in Nat, i \notin stored[k],
         stored' = [stored EXCEPT ![k] = @ \cup {i}],
         told' = [told EXCEPT ![k] = Append(@, i)]
  PROVE  ToldOnce' /\ told' \in [Conv -> Seq(Nat)]
<1>1. told \in [Conv -> Seq(Nat)] /\ stored \in [Conv -> SUBSET Nat]
  BY DEF Inv, TypeInv
<1>2. told' \in [Conv -> Seq(Nat)]
  BY <1>1
<1>3. ASSUME NEW c \in Conv
      PROVE  /\ \A x, y \in DOMAIN told'[c] : told'[c][x] = told'[c][y] => x = y
             /\ \A x \in DOMAIN told'[c] : told'[c][x] \in stored'[c]
  <2>1. /\ \A x, y \in DOMAIN told[c] : told[c][x] = told[c][y] => x = y
        /\ \A x \in DOMAIN told[c] : told[c][x] \in stored[c]
    BY DEF Inv, ToldOnce
  <2>2. CASE c # k
    BY <1>1, <2>1, <2>2
  <2>3. CASE c = k
    <3>1. stored'[c] = stored[c] \cup {i} /\ told'[c] = Append(told[c], i)
      BY <1>1, <2>3
    <3>2. told[c] \in Seq(Nat)
      BY <1>1
    <3>3. /\ DOMAIN told'[c] = 1 .. Len(told[c]) + 1
          /\ DOMAIN told[c] = 1 .. Len(told[c])
          /\ told'[c][Len(told[c]) + 1] = i
          /\ \A x \in 1 .. Len(told[c]) : told'[c][x] = told[c][x]
      BY <3>1, <3>2
    <3>4. \A x \in DOMAIN told'[c] : x = Len(told[c]) + 1 \/ x \in DOMAIN told[c]
      BY <3>2, <3>3
    <3>5. i \notin stored[c]
      BY <2>3
    <3>6. \A x \in DOMAIN told[c] : told'[c][x] = told[c][x] /\ told'[c][x] # i
      BY <2>1, <3>3, <3>5
    <3> QED
      BY <2>1, <3>1, <3>3, <3>4, <3>6
  <2> QED
    BY <2>2, <2>3
<1> QED
  BY <1>2, <1>3 DEF ToldOnce

-----------------------------------------------------------------------------
\* What a step owes to the invariant, part by part.
LEMMA Parts ==
  ASSUME sent' \in [Conv -> Nat], stored' \in [Conv -> SUBSET Nat],
         told' \in [Conv -> Seq(Nat)], unacked' \in Lists,
         reload' = [u \in Peer \X Thread |-> reload'[u]],
         \A u \in Peer \X Thread : ReloadOK(u, reload'[u]),
         \A m \in net' : PacketOK(m), ToldOnce'
  PROVE  Inv'
BY DEF Inv, TypeInv

LEMMA SendKeeps == ASSUME Inv, NEW p, NEW q, <<p, q>> \in Conv, Send(p, q) PROVE Inv'
<1> USE DEF Inv
<1>1. sent' \in [Conv -> Nat]
  BY DEF Send, TypeInv, SaveOutgoing
<1>2. unacked' \in Lists
  BY UncachedOK DEF Send, SaveOutgoing
<1>3. p \in Peer /\ q \in Peer /\ "user" \in Thread
  BY BothEnds DEF Thread
<1>4. ReloadOK(<<p, "user">>, <<q>>)
  BY <1>3 DEF ReloadOK
<1>5. /\ reload' = [u \in Peer \X Thread |-> reload'[u]]
      /\ \A u \in Peer \X Thread : ReloadOK(u, reload'[u])
  BY <1>3, <1>4, ReloadStep DEF Send, SaveOutgoing
<1>6. \A m \in net' : PacketOK(m)
  <2>1. PacketOK(Data(p, q, sent[<<p, q>>] + 1))
    BY DEF PacketOK, Data, TypeInv
  <2> QED
    BY <2>1 DEF Send, TypeInv, SaveOutgoing
<1>7. ToldOnce' /\ stored' \in [Conv -> SUBSET Nat] /\ told' \in [Conv -> Seq(Nat)]
  BY ToldKept DEF Send, TypeInv, SaveOutgoing
<1> QED
  BY <1>1, <1>2, <1>5, <1>6, <1>7, Parts

LEMMA ScanKeeps ==
  ASSUME Inv, NEW p \in Peer, NEW t \in Thread, Scan(p, t) PROVE Inv'
<1> DEFINE q == reload[<<p, t>>][1]
           l == IF unacked[<<p, q>>] = NotCached THEN Listed(p, q) ELSE NotCached
<1>1. <<p, q>> \in Conv
  <2>1. Len(reload[<<p, t>>]) > 0
    BY DEF Scan
  <2> QED
    BY <2>1, UnderWay DEF Inv
<1>2. l \in SUBSET Nat
  <2>1. NotCached \in SUBSET Nat
    BY DEF NotCached
  <2>2. Listed(p, q) \in SUBSET Nat
    BY <1>1, ListedNat DEF Inv
  <2> QED
    BY <2>1, <2>2
<1>3. reload' = [reload EXCEPT ![<<p, t>>] = <<q, l>>]
  BY DEF Scan
<1> HIDE DEF q, l
<1>4. ReloadOK(<<p, t>>, <<q, l>>)
  <2>1. q \in Peer
    BY <1>1, BothEnds
  <2> QED
    BY <1>1, <1>2, <2>1 DEF ReloadOK
<1>5. /\ reload' = [u \in Peer \X Thread |-> reload'[u]]
      /\ \A u \in Peer \X Thread : ReloadOK(u, reload'[u])
  BY <1>3, <1>4, ReloadStep DEF Inv
<1>6. ToldOnce'
  BY ToldKept DEF Scan, files
<1>7. /\ sent' \in [Conv -> Nat] /\ stored' \in [Conv -> SUBSET Nat]
      /\ told' \in [Conv -> Seq(Nat)] /\ unacked' \in Lists
      /\ \A m \in net' : PacketOK(m)
  BY DEF Scan, files, Inv, TypeInv
<1> QED
  BY <1>5, <1>6, <1>7, Parts

\* A thread that is done with its reload.
LEMMA ReloadDone ==
  ASSUME TypeInv, NEW p \in Peer, NEW t \in Thread,
         reload' = [reload EXCEPT ![<<p, t>>] = <<>>]
  PROVE  /\ reload' = [u \in Peer \X Thread |-> reload'[u]]
         /\ \A u \in Peer \X Thread : ReloadOK(u, reload'[u])
<1>1. ReloadOK(<<p, t>>, <<>>)
  BY DEF ReloadOK
<1> QED
  BY <1>1, ReloadStep

LEMMA StoreKeeps == ASSUME Inv, NEW p \in Peer, Store(p) PROVE Inv'
<1>1. "user" \in Thread
  BY DEF Thread
<1>2. unacked' \in Lists
  <2>1. Len(reload[<<p, "user">>]) = 2
    BY DEF Store
  <2>2. WithList(p, "user") \in Lists
    BY <1>1, <2>1, WithListOK DEF Inv
  <2> QED
    BY <2>2 DEF Store
<1>3. /\ reload' = [u \in Peer \X Thread |-> reload'[u]]
      /\ \A u \in Peer \X Thread : ReloadOK(u, reload'[u])
  BY <1>1, ReloadDone DEF Store, Inv
<1>4. ToldOnce'
  BY ToldKept DEF Store, files
<1>5. /\ sent' \in [Conv -> Nat] /\ stored' \in [Conv -> SUBSET Nat]
      /\ told' \in [Conv -> Seq(Nat)] /\ \A m \in net' : PacketOK(m)
  BY DEF Store, files, Inv, TypeInv
<1> QED
  BY <1>2, <1>3, <1>4, <1>5, Parts

LEMMA ReachedKeeps == ASSUME Inv, NEW p \in Peer, Reached(p) PROVE Inv'
<1> DEFINE q == reload[<<p, "packet">>][1]
           now == [cache |-> loaded[p], saved |-> stored[<<p, q>>],
                   lists |-> WithList(p, "packet"), packets |-> net]
<1>1. "packet" \in Thread /\ Len(reload[<<p, "packet">>]) = 2
  BY DEF Thread, Reached
<1>2. <<p, q>> \in Conv
  <2>1. Len(reload[<<p, "packet">>]) > 0
    BY <1>1
  <2> QED
    BY <1>1, <2>1, UnderWay DEF Inv
<1>3. now.lists \in Lists /\ \A m \in now.packets : PacketOK(m)
  BY <1>1, WithListOK DEF Inv, TypeInv
<1>4. Eagerly(p, q, now)
  BY DEF Reached
<1> HIDE DEF q, now
<1>5. unacked' \in Lists /\ \A m \in net' : PacketOK(m)
  BY <1>2, <1>3, <1>4, EagerOK DEF Inv
<1>6. /\ reload' = [u \in Peer \X Thread |-> reload'[u]]
      /\ \A u \in Peer \X Thread : ReloadOK(u, reload'[u])
  BY <1>1, ReloadDone DEF Reached, Inv
<1>7. ToldOnce'
  BY ToldKept DEF Reached, files
<1>8. /\ sent' \in [Conv -> Nat] /\ stored' \in [Conv -> SUBSET Nat]
      /\ told' \in [Conv -> Seq(Nat)]
  BY DEF Reached, files, Inv, TypeInv
<1> QED
  BY <1>5, <1>6, <1>7, <1>8, Parts

-----------------------------------------------------------------------------
LEMMA HandleAckKeeps ==
  ASSUME Inv, NEW p \in Peer, NEW m \in net, HandleAck(p, m) PROVE Inv'
<1> DEFINE q == m.id[2]
<1>1. <<p, q>> \in Conv
  BY DEF HandleAck, Inv, TypeInv, PacketOK, AckReceived
<1>2. \/ unacked' = unacked /\ reload' = reload
      \/ /\ unacked' = Uncached(p, q)
         /\ reload' = [reload EXCEPT ![<<p, "packet">>] = <<q>>]
  BY DEF HandleAck, AckReceived
<1> HIDE DEF q
<1>3. unacked' \in Lists
  BY <1>2, UncachedOK DEF Inv, TypeInv
<1>4. /\ reload' = [u \in Peer \X Thread |-> reload'[u]]
      /\ \A u \in Peer \X Thread : ReloadOK(u, reload'[u])
  <2>1. CASE reload' = reload
    BY <2>1 DEF Inv, TypeInv
  <2>2. CASE reload' = [reload EXCEPT ![<<p, "packet">>] = <<q>>]
    <3>1. ReloadOK(<<p, "packet">>, <<q>>)
      BY <1>1, BothEnds DEF ReloadOK
    <3> QED
      BY <2>2, <3>1, ReloadStep DEF Inv, Thread
  <2> QED
    BY <1>2, <2>1, <2>2
<1>5. ToldOnce'
  BY ToldKept DEF HandleAck, AckReceived
<1>6. /\ sent' \in [Conv -> Nat] /\ stored' \in [Conv -> SUBSET Nat]
      /\ told' \in [Conv -> Seq(Nat)] /\ \A x \in net' : PacketOK(x)
  BY DEF HandleAck, Inv, TypeInv, AckReceived
<1> QED
  BY <1>3, <1>4, <1>5, <1>6, Parts

\* A step that only sends packets, or forgets them.
LEMMA OnlyPackets ==
  ASSUME Inv, \A m \in net' : PacketOK(m),
         UNCHANGED <<files, told, unacked, reload>>
  PROVE  Inv'
<1>1. ToldOnce'
  BY ToldKept DEF files
<1>2. /\ sent' \in [Conv -> Nat] /\ stored' \in [Conv -> SUBSET Nat]
      /\ told' \in [Conv -> Seq(Nat)] /\ unacked' \in Lists
      /\ reload' = [u \in Peer \X Thread |-> reload'[u]]
      /\ \A u \in Peer \X Thread : ReloadOK(u, reload'[u])
  BY DEF files, Inv, TypeInv
<1> QED
  BY <1>1, <1>2, Parts

\* The ack of a message of a contact.
LEMMA AckOK ==
  ASSUME NEW q, NEW p, <<q, p>> \in Conv, NEW i
  PROVE  PacketOK(Ack(Id(q, p, i)))
BY DEF PacketOK, Ack, Id

\* The two ends of a data message.
LEMMA DataEnds ==
  ASSUME Inv, NEW p, NEW m \in net, m.type = "data", m.to = p
  PROVE  <<p, m.from>> \in Conv /\ <<m.from, p>> \in Conv /\ m.seq \in Nat
<1>1. <<m.from, p>> \in Conv /\ m.seq \in Nat
  BY DEF Inv, TypeInv, PacketOK
<1> QED
  BY <1>1, BothEnds

LEMMA HandleAgainKeeps ==
  ASSUME Inv, NEW p, NEW m \in net, HandleAgain(p, m) PROVE Inv'
<1>1. PacketOK(Ack(Id(m.from, p, m.seq)))
  <2>1. <<m.from, p>> \in Conv
    BY DataEnds DEF HandleAgain
  <2> QED
    BY <2>1, AckOK
<1>2. \A x \in net' : PacketOK(x)
  BY <1>1 DEF HandleAgain, Inv, TypeInv
<1> QED
  BY <1>2, OnlyPackets DEF HandleAgain

LEMMA HandleRequestKeeps ==
  ASSUME Inv, NEW p, NEW m \in net, HandleRequest(p, m) PROVE Inv'
<1> DEFINE q == m.from
           answer == {i \in 1 .. sent[<<p, q>>] :
                        i > m.last \/ (i < m.last /\ i \in m.wanted)}
<1>1. <<p, q>> \in Conv
  <2>1. <<q, p>> \in Conv
    BY DEF HandleRequest, Inv, TypeInv, PacketOK
  <2> QED
    BY <2>1, BothEnds
<1>2. Newest(answer, MaxAnswer) \in SUBSET Nat
  <2>1. \A n \in Nat : 1 .. n \subseteq Nat
    OBVIOUS
  <2>2. sent[<<p, q>>] \in Nat
    BY <1>1 DEF Inv, TypeInv
  <2>3. answer \subseteq 1 .. sent[<<p, q>>]
    OBVIOUS
  <2>4. Newest(answer, MaxAnswer) \subseteq answer
    BY DEF Newest
  <2> QED
    BY <2>1, <2>2, <2>3, <2>4
<1>3. net' = net \cup Mails(p, q, Newest(answer, MaxAnswer))
  BY DEF HandleRequest
<1> HIDE DEF q, answer
<1>4. \A x \in net' : PacketOK(x)
  BY <1>1, <1>2, <1>3, MailsOK DEF Inv, TypeInv
<1> QED
  BY <1>4, OnlyPackets DEF HandleRequest

LEMMA LoseKeeps == ASSUME Inv, NEW m \in net, Lose(m) PROVE Inv'
<1>1. \A x \in net' : PacketOK(x)
  BY DEF Lose, Inv, TypeInv
<1> QED
  BY <1>1, OnlyPackets DEF Lose

LEMMA HandleDataKeeps ==
  ASSUME Inv, NEW p, NEW m \in net, HandleData(p, m) PROVE Inv'
<1> DEFINE q == m.from
           duplicate == WasReceived(loaded[p], q, m.seq, stored[<<p, q>>])
           now == [cache |-> Reloaded(loaded[p], q, stored[<<p, q>>]),
                   saved |-> stored'[<<p, q>>], lists |-> unacked,
                   packets |-> net \cup {Ack(Id(q, p, m.seq))}]
<1>1. <<p, q>> \in Conv /\ <<q, p>> \in Conv /\ m.seq \in Nat
  BY DataEnds DEF HandleData, SaveIncoming
<1>2. now.lists \in Lists /\ \A x \in now.packets : PacketOK(x)
  BY <1>1, AckOK DEF Inv, TypeInv
<1>3. Eagerly(p, q, now)
  BY DEF HandleData, SaveIncoming
<1>4. /\ stored' \in [Conv -> SUBSET Nat] /\ told' \in [Conv -> Seq(Nat)]
      /\ ToldOnce'
  <2>1. CASE duplicate
    <3>1. stored' = stored /\ told' = told
      BY <2>1 DEF HandleData, SaveIncoming
    <3> QED
      BY <3>1, ToldKept DEF Inv, TypeInv
  <2>2. CASE ~ duplicate
    <3>1. m.seq \notin stored[<<p, q>>]
      BY <2>2 DEF WasReceived
    <3>2. /\ stored' = [stored EXCEPT ![<<p, q>>] = @ \cup {m.seq}]
          /\ told' = [told EXCEPT ![<<p, q>>] = Append(@, m.seq)]
      BY <2>2 DEF HandleData, SaveIncoming
    <3>3. stored' \in [Conv -> SUBSET Nat]
      BY <1>1, <3>2 DEF Inv, TypeInv
    <3> HIDE DEF q
    <3> QED
      BY <1>1, <3>1, <3>2, <3>3, ToldNew
  <2> QED
    BY <2>1, <2>2
<1> HIDE DEF now, q, duplicate
<1>5. unacked' \in Lists /\ \A x \in net' : PacketOK(x)
  BY <1>1, <1>2, <1>3, EagerOK DEF Inv
<1>6. /\ sent' \in [Conv -> Nat]
      /\ reload' = [u \in Peer \X Thread |-> reload'[u]]
      /\ \A u \in Peer \X Thread : ReloadOK(u, reload'[u])
  BY DEF HandleData, Inv, TypeInv, SaveIncoming
<1> QED
  BY <1>4, <1>5, <1>6, Parts

LEMMA PeriodicallyKeeps ==
  ASSUME Inv, NEW p, NEW q, <<p, q>> \in Conv, NEW asks \in BOOLEAN,
         NEW anyway \in BOOLEAN, NEW pushes \in BOOLEAN,
         Periodically(p, q, asks, anyway, pushes)
  PROVE  Inv'
<1> DEFINE now == [cache |-> loaded[p], saved |-> stored[<<p, q>>], lists |-> unacked,
                   packets |-> net]
<1>1. now.lists \in Lists /\ \A x \in now.packets : PacketOK(x)
  BY DEF Inv, TypeInv
<1>2. RequestAndResend(p, q, asks, anyway, pushes, now)
  BY DEF Periodically
<1> HIDE DEF now
<1>3. unacked' \in Lists /\ \A x \in net' : PacketOK(x)
  BY <1>1, <1>2, ResendOK DEF Inv
<1>4. ToldOnce'
  BY ToldKept DEF Periodically, files
<1>5. /\ sent' \in [Conv -> Nat] /\ stored' \in [Conv -> SUBSET Nat]
      /\ told' \in [Conv -> Seq(Nat)]
      /\ reload' = [u \in Peer \X Thread |-> reload'[u]]
      /\ \A u \in Peer \X Thread : ReloadOK(u, reload'[u])
  BY DEF Periodically, files, Inv, TypeInv
<1> QED
  BY <1>3, <1>4, <1>5, Parts

-----------------------------------------------------------------------------
LEMMA CrashKeeps == ASSUME Inv, NEW p, Crash(p) PROVE Inv'
<1>1. /\ unacked' \in Lists
      /\ reload' = [u \in Peer \X Thread |-> reload'[u]]
      /\ \A u \in Peer \X Thread : ReloadOK(u, reload'[u])
  BY RestartedOK DEF Crash, Inv
<1>2. ToldOnce'
  BY ToldKept DEF Crash, files
<1>3. /\ sent' \in [Conv -> Nat] /\ stored' \in [Conv -> SUBSET Nat]
      /\ told' \in [Conv -> Seq(Nat)] /\ \A m \in net' : PacketOK(m)
  BY DEF Crash, files, Inv, TypeInv
<1> QED
  BY <1>1, <1>2, <1>3, Parts

LEMMA CrashBeforeSendingKeeps ==
  ASSUME Inv, NEW p, NEW q, <<p, q>> \in Conv, CrashBeforeSending(p, q) PROVE Inv'
<1>1. /\ unacked' \in Lists
      /\ reload' = [u \in Peer \X Thread |-> reload'[u]]
      /\ \A u \in Peer \X Thread : ReloadOK(u, reload'[u])
  BY RestartedOK DEF CrashBeforeSending, Inv, SaveOutgoing
<1>2. ToldOnce'
  BY ToldKept DEF CrashBeforeSending, SaveOutgoing
<1>3. /\ sent' \in [Conv -> Nat] /\ stored' \in [Conv -> SUBSET Nat]
      /\ told' \in [Conv -> Seq(Nat)] /\ \A m \in net' : PacketOK(m)
  BY DEF CrashBeforeSending, Inv, TypeInv, SaveOutgoing
<1> QED
  BY <1>1, <1>2, <1>3, Parts

LEMMA CrashBeforeAckKeeps ==
  ASSUME Inv, NEW p, NEW m \in net, CrashBeforeAck(p, m) PROVE Inv'
<1>1. /\ unacked' \in Lists
      /\ reload' = [u \in Peer \X Thread |-> reload'[u]]
      /\ \A u \in Peer \X Thread : ReloadOK(u, reload'[u])
  BY RestartedOK DEF CrashBeforeAck, Inv, SaveIncoming
<1>2. /\ stored' = [stored EXCEPT ![<<p, m.from>>] = @ \cup {m.seq}]
      /\ m.seq \in Nat
  BY DataEnds DEF CrashBeforeAck, SaveIncoming
<1>3. stored' \in [Conv -> SUBSET Nat] /\ \A k \in Conv : stored[k] \subseteq stored'[k]
  <2>1. stored \in [Conv -> SUBSET Nat]
    BY DEF Inv, TypeInv
  <2> QED
    BY <1>2, <2>1
<1>4. ToldOnce'
  BY <1>3, ToldKept DEF CrashBeforeAck, SaveIncoming
<1>5. /\ sent' \in [Conv -> Nat] /\ told' \in [Conv -> Seq(Nat)]
      /\ \A x \in net' : PacketOK(x)
  BY DEF CrashBeforeAck, Inv, TypeInv, SaveIncoming
<1> QED
  BY <1>1, <1>3, <1>4, <1>5, Parts

LEMMA NextKeeps == Inv /\ [Next]_vars => Inv'
<1> SUFFICES ASSUME Inv, [Next]_vars PROVE Inv'
  OBVIOUS
<1>1. CASE UNCHANGED vars
  <2>1. net' = net /\ UNCHANGED <<files, told, unacked, reload>>
    BY <1>1 DEF vars, files
  <2> QED
    BY <2>1, OnlyPackets DEF Inv, TypeInv
<1>2. ASSUME NEW p, NEW q, <<p, q>> \in Conv,
             \/ Send(p, q)
             \/ CrashBeforeSending(p, q)
             \/ \E asks, pushes \in BOOLEAN, anyway \in Anyway(p, q) :
                  Periodically(p, q, asks, anyway, pushes)
      PROVE  Inv'
  <2>1. ASSUME NEW asks \in BOOLEAN, NEW pushes \in BOOLEAN, NEW anyway \in Anyway(p, q),
               Periodically(p, q, asks, anyway, pushes)
        PROVE  Inv'
    <3>1. anyway \in BOOLEAN
      BY DEF Anyway
    <3> QED
      BY <2>1, <3>1, <1>2, PeriodicallyKeeps
  <2> QED
    BY <1>2, <2>1, SendKeeps, CrashBeforeSendingKeeps
<1>3. ASSUME NEW p \in Peer, Reloading(p) \/ Crash(p)
      PROVE  Inv'
  BY <1>3, StoreKeeps, ReachedKeeps, ScanKeeps, CrashKeeps DEF Reloading
<1>4. ASSUME NEW m \in net, NEW p \in Peer, Handle(p, m) \/ CrashBeforeAck(p, m)
      PROVE  Inv'
  BY <1>4, HandleAckKeeps, HandleAgainKeeps, HandleDataKeeps, HandleRequestKeeps,
     CrashBeforeAckKeeps DEF Handle
<1>5. ASSUME NEW k \in Conv
      PROVE  k = <<k[1], k[2]>>
  <2>1. k \in Peer \X Peer
    BY ChatAssumption
  <2> QED
    BY <2>1
<1>6. CASE Next
  <2>1. CASE \E k \in Conv :
               \/ Send(k[1], k[2])
               \/ CrashBeforeSending(k[1], k[2])
               \/ \E asks, pushes \in BOOLEAN, anyway \in Anyway(k[1], k[2]) :
                    Periodically(k[1], k[2], asks, anyway, pushes)
    <3>1. PICK k \in Conv :
               \/ Send(k[1], k[2])
               \/ CrashBeforeSending(k[1], k[2])
               \/ \E asks, pushes \in BOOLEAN, anyway \in Anyway(k[1], k[2]) :
                    Periodically(k[1], k[2], asks, anyway, pushes)
      BY <2>1
    <3>2. <<k[1], k[2]>> \in Conv
      BY <1>5
    <3> QED
      BY <1>2, <3>1, <3>2
  <2>2. CASE \E p \in Peer : Reloading(p) \/ Crash(p)
    BY <1>3, <2>2
  <2>3. CASE \E m \in net :
               Lose(m) \/ \E p \in Peer : Handle(p, m) \/ CrashBeforeAck(p, m)
    BY <1>4, <2>3, LoseKeeps
  <2> QED
    BY <1>6, <2>1, <2>2, <2>3 DEF Next
<1> QED
  BY <1>1, <1>6

-----------------------------------------------------------------------------
\* Whatever is lost, repeated or reordered, and wherever a program stops, no message
\* is given to the user twice, and what was given is in the log (handle_data).
THEOREM ToldOnceTheorem == Spec => []ToldOnce
<1>1. Inv => ToldOnce
  BY DEF Inv
<1> QED
  BY <1>1, InitInv, NextKeeps, PTL DEF Spec
=============================================================================

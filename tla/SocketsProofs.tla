---------------------------- MODULE SocketsProofs ----------------------------
(***************************************************************************)
(* What holds of the address tables for any sockets, addresses and limits. *)
(***************************************************************************)
EXTENDS Sockets, SubsequenceProofs

(* What each entry of socket s satisfies whatever the loop does: its counts   *)
(* are within its limits, and peers, unlike interfaces, have limits.          *)
Within(s, e) ==
  /\ e \in Entry
  /\ e.limited => e.send >= 1 /\ e.sent + e.send <= SendLimit
  /\ s \notin Broadcast => e.limited /\ e.left \in Nat

(* Between reading a packet and admitting its sender, the entry of the sender *)
(* is the one whose time is not renewed yet.                                  *)
Awaited(s, i) == pc = "admit" /\ r.sock = s /\ r.sav = i
OnTime(s, i) ==
  LET e == table[s][i]
  IN s \notin Broadcast =>
       IF Awaited(s, i) THEN e.quiet = 0 ELSE e.left + e.quiet = Life(s)

Tables ==
  /\ table \in [Sock -> Seq(Entry)]
  /\ \A s \in Sock : \A i \in DOMAIN table[s] : Within(s, table[s][i]) /\ OnTime(s, i)

(* The loop: nothing is left to send while the packet is looked at, a sender  *)
(* without entry has none in the table, and a pointer stays in the memory.    *)
Loop ==
  /\ r \in [sock : Sock, from : Addr \cup {NoAddr}, sav : Nat,
            reached : BOOLEAN, auth : BOOLEAN]
  /\ stale \in Seq(Addr \cup {BroadcastAddr})
  /\ todo \in Seq([local : BOOLEAN, except : Addr \cup {NoAddr}])
  /\ pc \in {"read", "admit", "process", "limit", "clock", "dht"}
  /\ pc = "admit" => /\ todo = <<>> /\ r.from \in Addr
                     /\ IF r.sav = 0 THEN r.from \notin AddrsOf(r.sock)
                        ELSE r.sav \in DOMAIN table[r.sock]
  /\ pc \in {"process", "clock", "dht"} => todo = <<>>
  /\ PointerInMemory

IInv == Tables /\ Loop

-----------------------------------------------------------------------------
\* A table whose entries come from those of another, with less to send but the
\* same time, and that has lost entries only as it may.
Lessened(new, old) ==
  /\ new \in [Sock -> Seq(Entry)]
  /\ \A s \in Sock :
       /\ Len(new[s]) <= Len(old[s])
       /\ \A j \in DOMAIN new[s] :
            /\ Within(s, new[s][j])
            /\ \E i \in DOMAIN old[s] : /\ new[s][j].left = old[s][i].left
                                       /\ new[s][j].quiet = old[s][i].quiet
                                       /\ new[s][j].addr = old[s][i].addr
       /\ \A i \in DOMAIN old[s] :
            \/ old[s][i].send = 1 \/ old[s][i].addr \in Unreachable
            \/ \E j \in DOMAIN new[s] : new[s][j].addr = old[s][i].addr

\* An entry that may stay has an entry of its address afterwards.
LEMMA LessenedFinds ==
  ASSUME NEW new, NEW old, Lessened(new, old), NEW s \in Sock, NEW i \in DOMAIN old[s],
         old[s][i].send # 1, old[s][i].addr \notin Unreachable
  PROVE  \E j \in DOMAIN new[s] : new[s][j].addr = old[s][i].addr
BY Zenon DEF Lessened

LEMMA SentToWithin ==
  ASSUME NEW s \in Sock, NEW e, Within(s, e), ~ Spent(e), NEW own \in BOOLEAN
  PROVE  LET d == SentTo(e, own)
         IN Within(s, d) /\ d.addr = e.addr /\ d.left = e.left /\ d.quiet = e.quiet
<1> DEFINE d == SentTo(e, own)
<1>1. e \in Entry /\ SendLimit \in Nat
  BY SocketAssumption DEF Within
<1>2. CASE e.send = 0
  BY <1>2 DEF SentTo
<1>3. CASE e.send # 0
  <2>1. e.send - 1 \in 1 .. SendLimit
    BY <1>1, <1>3 DEF Entry, Spent
  <2> DEFINE sent == IF own THEN e.sent + 1 ELSE e.sent
  <2>2. sent \in Nat /\ sent <= e.sent + 1
    BY <1>1 DEF Entry
  <2> DEFINE c == [e EXCEPT !.send = e.send - 1]
  <2>3. d = [c EXCEPT !.sent = sent]
    BY <1>3 DEF SentTo
  <2>4. c \in Entry /\ c = [e EXCEPT !.send = e.send - 1]
    BY <1>1, <2>1 DEF Entry
  <2> HIDE DEF sent, c, d
  <2>5. /\ d \in Entry
        /\ d.send = e.send - 1 /\ d.sent = sent /\ d.limited = e.limited
        /\ d.addr = e.addr /\ d.left = e.left /\ d.quiet = e.quiet
    BY <1>1, <2>2, <2>3, <2>4 DEF Entry
  <2>6. d.limited => d.send >= 1 /\ d.sent + d.send <= SendLimit
    <3>1. e.send \in Int /\ e.sent \in Int
      BY <1>1 DEF Entry
    <3> QED BY <1>1, <2>1, <2>2, <2>5, <3>1 DEF Within
  <2> QED BY <1>1, <2>5, <2>6 DEF Within, d
<1> QED BY <1>2, <1>3

\* An array whose entries in k are kept, each changed as in the relation R.
Changed(new, q, k, R) ==
  /\ new \in Seq(Entry) /\ Len(new) <= Len(q)
  /\ \A j \in DOMAIN new : \E i \in DOMAIN q : q[i] \in k /\ <<q[i], new[j]>> \in R
  /\ \A i \in DOMAIN q : q[i] \in k => \E j \in DOMAIN new : <<q[i], new[j]>> \in R

LEMMA Transformed ==
  ASSUME NEW q \in Seq(Entry), NEW k, NEW R \in SUBSET (Entry \X Entry), NEW g,
         NEW new, new = [j \in DOMAIN Only(q, k) |-> g[j]],
         \A j \in DOMAIN Only(q, k) : Only(q, k)[j] \in k => <<Only(q, k)[j], g[j]>> \in R
  PROVE  Changed(new, q, k, R)
<1> DEFINE f == Only(q, k)
<1>1. LeftOf(f, q, k, Entry)
  BY OnlyKeeps, Zenon
<1>2. /\ new = [j \in DOMAIN f |-> g[j]]
      /\ \A j \in DOMAIN f : f[j] \in k => <<f[j], g[j]>> \in R
  OBVIOUS
<1> HIDE DEF f
<1>3. Len(f) \in Nat /\ DOMAIN f = 1 .. Len(f) /\ DOMAIN q = 1 .. Len(q)
  BY <1>1 DEF LeftOf
<1>4. \A j \in 1 .. Len(f) : f[j] \in Entry /\ f[j] \in k
  BY <1>1 DEF LeftOf
<1>5. \A j \in 1 .. Len(f) : <<f[j], new[j]>> \in R /\ new[j] \in Entry
  BY <1>2, <1>3, <1>4
<1>6. new \in Seq(Entry) /\ Len(new) = Len(f) /\ DOMAIN new = 1 .. Len(f)
  <2>1. new = [j \in 1 .. Len(f) |-> g[j]]
    BY <1>2, <1>3
  <2>2. \A j \in 1 .. Len(f) : g[j] \in Entry
    BY <1>5, <2>1
  <2> QED BY <1>3, <2>1, <2>2, IsASeq
<1>7. ASSUME NEW j \in DOMAIN new
      PROVE  \E i \in DOMAIN q : q[i] \in k /\ <<q[i], new[j]>> \in R
  <2>1. PICK i \in 1 .. Len(q) : f[j] = q[i]
    BY <1>1, <1>6 DEF LeftOf
  <2> QED BY <1>3, <1>4, <1>5, <1>6, <2>1
<1>8. ASSUME NEW i \in DOMAIN q, q[i] \in k
      PROVE  \E j \in DOMAIN new : <<q[i], new[j]>> \in R
  <2>1. PICK j \in 1 .. Len(f) : f[j] = q[i]
    BY <1>1, <1>3, <1>8 DEF LeftOf
  <2> QED BY <1>5, <1>6, <2>1
<1> QED BY <1>1, <1>6, <1>7, <1>8 DEF LeftOf, Changed

\* What a step does to the entries of socket s that it keeps.
Kin(s) == {p \in Entry \X Entry :
             /\ Within(s, p[2]) /\ p[2].addr = p[1].addr
             /\ p[2].left = p[1].left /\ p[2].quiet = p[1].quiet}

\* The rows of a table are looked at one at a time.
LEMMA RowsLessen ==
  ASSUME NEW tab \in [Sock -> Seq(Entry)], NEW K, NEW g, NEW new,
         new = [s \in Sock |-> [j \in DOMAIN Only(tab[s], K[s]) |-> g[s][j]]],
         \A s \in Sock : \A j \in DOMAIN Only(tab[s], K[s]) :
           Only(tab[s], K[s])[j] \in K[s] => <<Only(tab[s], K[s])[j], g[s][j]>> \in Kin(s),
         \A s \in Sock : \A i \in DOMAIN tab[s] :
           tab[s][i] \in K[s] \/ tab[s][i].send = 1 \/ tab[s][i].addr \in Unreachable
  PROVE  Lessened(new, tab)
<1>1. ASSUME NEW s \in Sock
      PROVE  Changed(new[s], tab[s], K[s], Kin(s))
  <2> DEFINE q == tab[s]
             k == K[s]
             h == g[s]
             n == new[s]
             R == Kin(s)
  <2>1. q \in Seq(Entry) /\ R \in SUBSET (Entry \X Entry)
    BY DEF Kin
  <2>2. n = [j \in DOMAIN Only(q, k) |-> h[j]]
    OBVIOUS
  <2>3. \A j \in DOMAIN Only(q, k) : Only(q, k)[j] \in k => <<Only(q, k)[j], h[j]>> \in R
    OBVIOUS
  <2> HIDE DEF q, k, h, n, R
  <2>4. Changed(n, q, k, R)
    BY <2>1, <2>2, <2>3, Transformed, Zenon
  <2> QED BY <2>4 DEF q, k, n, R
<1>2. new \in [Sock -> Seq(Entry)]
  <2>1. new = [s \in Sock |-> new[s]]
    OBVIOUS
  <2> QED BY <1>1, <2>1 DEF Changed
<1>4. ASSUME NEW s \in Sock
      PROVE  /\ Len(new[s]) <= Len(tab[s])
             /\ \A j \in DOMAIN new[s] : \E i \in DOMAIN tab[s] :
                  <<tab[s][i], new[s][j]>> \in Kin(s)
             /\ \A i \in DOMAIN tab[s] : tab[s][i] \in K[s] =>
                  \E j \in DOMAIN new[s] : <<tab[s][i], new[s][j]>> \in Kin(s)
  BY <1>1 DEF Changed
<1>5. ASSUME NEW s \in Sock, NEW j \in DOMAIN new[s]
      PROVE  /\ Within(s, new[s][j])
             /\ \E i \in DOMAIN tab[s] : /\ new[s][j].left = tab[s][i].left
                                        /\ new[s][j].quiet = tab[s][i].quiet
                                        /\ new[s][j].addr = tab[s][i].addr
  <2>1. PICK i \in DOMAIN tab[s] : <<tab[s][i], new[s][j]>> \in Kin(s)
    BY <1>4, <1>5, Zenon
  <2>2. /\ Within(s, new[s][j]) /\ new[s][j].addr = tab[s][i].addr
        /\ new[s][j].left = tab[s][i].left /\ new[s][j].quiet = tab[s][i].quiet
    BY <2>1 DEF Kin
  <2> QED BY <2>2, Zenon
<1>6. ASSUME NEW s \in Sock, NEW i \in DOMAIN tab[s]
      PROVE  \/ tab[s][i].send = 1 \/ tab[s][i].addr \in Unreachable
             \/ \E j \in DOMAIN new[s] : new[s][j].addr = tab[s][i].addr
  <2>1. CASE tab[s][i] \in K[s]
    <3>1. PICK j \in DOMAIN new[s] : <<tab[s][i], new[s][j]>> \in Kin(s)
      BY <1>4, <1>6, <2>1, Zenon
    <3>2. new[s][j].addr = tab[s][i].addr
      BY <3>1 DEF Kin
    <3> QED BY <3>2, Zenon
  <2> QED BY <2>1, Zenon
<1> QED BY <1>2, <1>4, <1>5, <1>6 DEF Lessened

LEMMA ChargedLessens ==
  ASSUME NEW tab \in [Sock -> Seq(Entry)],
         \A s \in Sock : \A i \in DOMAIN tab[s] : Within(s, tab[s][i]),
         NEW s \in Sock, NEW a
  PROVE  Lessened(Charged(tab, s, a), tab)
<1> DEFINE new == Charged(tab, s, a)
           Paid(t, e) == IF e.addr = a THEN SentTo(e, t = s) ELSE e
           K == [t \in Sock |-> {e \in Range(tab[t]) : e.addr # a \/ ~ Spent(e)}]
           g == [t \in Sock |-> [j \in DOMAIN Only(tab[t], K[t]) |->
                                    Paid(t, Only(tab[t], K[t])[j])]]
<1>1. new = [t \in Sock |-> [j \in DOMAIN Only(tab[t], K[t]) |-> Paid(t, Only(tab[t], K[t])[j])]]
  BY DEF Charged, Mapped, Where
<1>2. ASSUME NEW t \in Sock, NEW e \in K[t]
      PROVE  <<e, Paid(t, e)>> \in Kin(t)
  <2>1. PICK i \in DOMAIN tab[t] : e = tab[t][i]
    BY <1>2 DEF Range
  <2>2. Within(t, e) /\ e \in Entry
    BY <2>1 DEF Within
  <2>3. CASE e.addr # a
    BY <2>2, <2>3 DEF Kin
  <2>4. CASE e.addr = a
    <3>1. ~ Spent(e) /\ Paid(t, e) = SentTo(e, t = s) /\ (t = s) \in BOOLEAN
      BY <1>2, <2>4
    <3>2. LET d == SentTo(e, t = s)
          IN Within(t, d) /\ d.addr = e.addr /\ d.left = e.left /\ d.quiet = e.quiet
      BY <2>2, <3>1, SentToWithin
    <3> QED BY <2>2, <3>1, <3>2 DEF Kin, Within
  <2> QED BY <2>3, <2>4
<1>3. \A t \in Sock : \A i \in DOMAIN tab[t] : tab[t][i] \in K[t] \/ tab[t][i].send = 1 \/ tab[t][i].addr \in Unreachable
  BY DEF Range, Spent
<1> HIDE DEF new, K, Paid
<1>4. /\ new = [t \in Sock |-> [j \in DOMAIN Only(tab[t], K[t]) |-> g[t][j]]]
      /\ \A t \in Sock : \A j \in DOMAIN Only(tab[t], K[t]) :
           Only(tab[t], K[t])[j] \in K[t] =>
             <<Only(tab[t], K[t])[j], g[t][j]>> \in Kin(t)
  BY <1>1, <1>2
<1> HIDE DEF g
<1> QED BY <1>3, <1>4, RowsLessen, Zenon DEF new

LEMMA DeliveredLessens ==
  ASSUME table \in [Sock -> Seq(Entry)],
         \A s \in Sock : \A i \in DOMAIN table[s] : Within(s, table[s][i]),
         NEW call, NEW fails \in SUBSET Unreachable
  PROVE  Lessened(Delivered(call, fails), table)
<1> DEFINE new == Delivered(call, fails)
           Hit(t) == (t \in Local) = call.local
           Sent(e) == IF e.addr = call.except THEN e ELSE SentTo(e, TRUE)
           kept(e) == e.addr = call.except \/ (e.addr \notin fails /\ ~ Spent(e))
           K == [t \in Sock |-> {e \in Range(table[t]) : Hit(t) => kept(e)}]
           g == [t \in Sock |-> [j \in DOMAIN Only(table[t], K[t]) |->
                   IF Hit(t) THEN Sent(Only(table[t], K[t])[j]) ELSE Only(table[t], K[t])[j]]]
<1>1. ASSUME NEW t \in Sock
      PROVE  new[t] = [j \in DOMAIN Only(table[t], K[t]) |-> g[t][j]]
  <2>1. CASE Hit(t)
    <3>1. K[t] = {e \in Range(table[t]) : kept(e)}
      BY <2>1
    <3>2. new[t] = [j \in DOMAIN Only(table[t], {e \in Range(table[t]) : kept(e)}) |->
                      Sent(Only(table[t], {e \in Range(table[t]) : kept(e)})[j])]
      BY <2>1 DEF Delivered, Mapped, Where
    <3> HIDE DEF new, K, Sent, Hit
    <3> QED BY <2>1, <3>1, <3>2
  <2>2. CASE ~ Hit(t)
    <3>1. new[t] = table[t]
      BY <2>2 DEF Delivered
    <3>2. \A i \in 1 .. Len(table[t]) : table[t][i] \in K[t]
      BY <2>2 DEF Range
    <3> DEFINE q == table[t]
               k == K[t]
    <3>3. q \in Seq(Entry) /\ \A i \in 1 .. Len(q) : q[i] \in k
      BY <3>2
    <3> HIDE DEF q, k
    <3>4. Only(q, k) = q
      BY <3>3, OnlyAll, Zenon
    <3>5. q = [j \in DOMAIN q |-> q[j]]
      BY <3>3
    <3> HIDE DEF new, K, Sent, Hit
    <3> QED BY <2>2, <3>1, <3>4, <3>5 DEF q, k
  <2> QED BY <2>1, <2>2
<1>2. ASSUME NEW t \in Sock, NEW e \in K[t]
      PROVE  <<e, IF Hit(t) THEN Sent(e) ELSE e>> \in Kin(t)
  <2>1. PICK i \in DOMAIN table[t] : e = table[t][i]
    BY <1>2 DEF Range
  <2>2. Within(t, e) /\ e \in Entry
    BY <2>1 DEF Within
  <2>3. CASE e.addr = call.except \/ ~ Hit(t)
    BY <2>2, <2>3 DEF Kin
  <2>4. CASE e.addr # call.except /\ Hit(t)
    <3>1. ~ Spent(e) /\ Sent(e) = SentTo(e, TRUE)
      BY <1>2, <2>4
    <3>2. LET d == SentTo(e, TRUE)
          IN Within(t, d) /\ d.addr = e.addr /\ d.left = e.left /\ d.quiet = e.quiet
      BY <2>2, <3>1, SentToWithin
    <3> QED BY <2>2, <2>4, <3>1, <3>2 DEF Kin, Within
  <2> QED BY <2>3, <2>4
<1>3. \A t \in Sock : \A i \in DOMAIN table[t] :
        table[t][i] \in K[t] \/ table[t][i].send = 1 \/ table[t][i].addr \in Unreachable
  BY DEF Range, Spent
<1>4. new = [t \in Sock |-> new[t]]
  BY DEF Delivered
<1> HIDE DEF new, K, Sent, Hit
<1>5. /\ new = [t \in Sock |-> [j \in DOMAIN Only(table[t], K[t]) |-> g[t][j]]]
      /\ \A t \in Sock : \A j \in DOMAIN Only(table[t], K[t]) :
           Only(table[t], K[t])[j] \in K[t] =>
             <<Only(table[t], K[t])[j], g[t][j]>> \in Kin(t)
  <2>1. new = [t \in Sock |-> [j \in DOMAIN Only(table[t], K[t]) |-> g[t][j]]]
    <3> HIDE DEF g
    <3> QED BY <1>1, <1>4
  <2> QED BY <1>2, <2>1
<1> HIDE DEF g
<1> QED BY <1>3, <1>5, RowsLessen, Zenon DEF new

\* A row keeps its entries but for what they received.
RowsKept(new, old) ==
  /\ new \in [Sock -> Seq(Entry)]
  /\ \A t \in Sock :
       /\ Len(new[t]) = Len(old[t]) /\ DOMAIN new[t] = DOMAIN old[t]
       /\ \A j \in DOMAIN new[t] :
            /\ Within(t, new[t][j]) /\ new[t][j].addr = old[t][j].addr
            /\ new[t][j].left = old[t][j].left
            /\ new[t][j].quiet = old[t][j].quiet
            /\ new[t][j].send = old[t][j].send

LEMMA RenewedKeeps ==
  ASSUME table \in [Sock -> Seq(Entry)],
         \A s \in Sock : \A i \in DOMAIN table[s] : Within(s, table[s][i]),
         NEW a
  PROVE  RowsKept(Renewed(table, a), table)
<1> DEFINE new == Renewed(table, a)
           New(e) == IF e.addr = a THEN [e EXCEPT !.recv = RecvLimit] ELSE e
<1>1. ASSUME NEW t \in Sock
      PROVE  new[t] = [j \in DOMAIN table[t] |-> New(table[t][j])]
  BY DEF Renewed, Mapped
<1>2. ASSUME NEW t \in Sock, NEW e \in Entry, Within(t, e)
      PROVE  /\ New(e) \in Entry /\ Within(t, New(e)) /\ New(e).addr = e.addr
             /\ New(e).left = e.left /\ New(e).quiet = e.quiet /\ New(e).send = e.send
  <2> DEFINE d == [e EXCEPT !.recv = RecvLimit]
  <2>1. RecvLimit \in 0 .. RecvLimit
    BY SocketAssumption
  <2>2. /\ d \in Entry /\ d.addr = e.addr /\ d.left = e.left /\ d.quiet = e.quiet
        /\ d.limited = e.limited /\ d.send = e.send /\ d.sent = e.sent
    BY <2>1 DEF Entry
  <2> HIDE DEF d
  <2>3. Within(t, d)
    BY <1>2, <2>2 DEF Within
  <2>4. New(e) = IF e.addr = a THEN d ELSE e
    BY DEF d
  <2> HIDE DEF New
  <2> QED BY <1>2, <2>2, <2>3, <2>4
<1>3. new = [t \in Sock |-> new[t]]
  BY DEF Renewed
<1> HIDE DEF new, New
<1>4. ASSUME NEW t \in Sock
      PROVE  /\ new[t] \in Seq(Entry) /\ Len(new[t]) = Len(table[t])
             /\ DOMAIN new[t] = DOMAIN table[t]
             /\ \A j \in DOMAIN new[t] :
                  /\ Within(t, new[t][j]) /\ new[t][j].addr = table[t][j].addr
                  /\ new[t][j].left = table[t][j].left
                  /\ new[t][j].quiet = table[t][j].quiet
                  /\ new[t][j].send = table[t][j].send
  <2>1. table[t] \in Seq(Entry) /\ DOMAIN table[t] = 1 .. Len(table[t])
        /\ Len(table[t]) \in Nat
    OBVIOUS
  <2>2. \A j \in 1 .. Len(table[t]) : table[t][j] \in Entry /\ Within(t, table[t][j])
    BY <2>1
  <2>3. \A j \in 1 .. Len(table[t]) :
          /\ New(table[t][j]) \in Entry /\ Within(t, New(table[t][j]))
          /\ New(table[t][j]).addr = table[t][j].addr
          /\ New(table[t][j]).left = table[t][j].left
          /\ New(table[t][j]).quiet = table[t][j].quiet
          /\ New(table[t][j]).send = table[t][j].send
    BY <1>2, <2>2
  <2>4. new[t] = [j \in 1 .. Len(table[t]) |-> New(table[t][j])]
    BY <1>1, <2>1
  <2>5. new[t] \in Seq(Entry) /\ Len(new[t]) = Len(table[t])
        /\ DOMAIN new[t] = 1 .. Len(table[t])
    BY <2>1, <2>3, <2>4, IsASeq
  <2> QED BY <2>1, <2>3, <2>4, <2>5
<1>5. new \in [Sock -> Seq(Entry)]
  BY <1>3, <1>4
<1>6. RowsKept(new, table)
  BY <1>4, <1>5 DEF RowsKept
<1> QED BY <1>6 DEF new

LEMMA ReachedLessens ==
  ASSUME table \in [Sock -> Seq(Entry)],
         \A s \in Sock : \A i \in DOMAIN table[s] : Within(s, table[s][i]),
         NEW s \in Sock, NEW a, NEW b
  PROVE  Lessened(Charged(Renewed(table, b), s, a), table)
<1> DEFINE mid == Renewed(table, b)
           new == Charged(mid, s, a)
<1>0. RowsKept(mid, table)
  BY RenewedKeeps
<1> HIDE DEF mid
<1>1. /\ mid \in [Sock -> Seq(Entry)]
      /\ \A t \in Sock :
           /\ Len(mid[t]) = Len(table[t]) /\ DOMAIN mid[t] = DOMAIN table[t]
           /\ \A j \in DOMAIN mid[t] :
                /\ Within(t, mid[t][j]) /\ mid[t][j].addr = table[t][j].addr
                /\ mid[t][j].left = table[t][j].left
                /\ mid[t][j].quiet = table[t][j].quiet
                /\ mid[t][j].send = table[t][j].send
  BY <1>0, Zenon DEF RowsKept
<1>2. Lessened(new, mid)
  BY <1>1, ChargedLessens, Zenon
<1> HIDE DEF new
<1>3. ASSUME NEW t \in Sock
      PROVE  /\ Len(new[t]) <= Len(table[t])
             /\ \A j \in DOMAIN new[t] :
                  /\ Within(t, new[t][j])
                  /\ \E i \in DOMAIN table[t] : /\ new[t][j].left = table[t][i].left
                                               /\ new[t][j].quiet = table[t][i].quiet
                                               /\ new[t][j].addr = table[t][i].addr
             /\ \A i \in DOMAIN table[t] :
                  \/ table[t][i].send = 1 \/ table[t][i].addr \in Unreachable
                  \/ \E j \in DOMAIN new[t] : new[t][j].addr = table[t][i].addr
  <2>1. /\ Len(new[t]) <= Len(mid[t])
        /\ \A j \in DOMAIN new[t] :
             /\ Within(t, new[t][j])
             /\ \E i \in DOMAIN mid[t] : /\ new[t][j].left = mid[t][i].left
                                        /\ new[t][j].quiet = mid[t][i].quiet
                                        /\ new[t][j].addr = mid[t][i].addr
        /\ \A i \in DOMAIN mid[t] :
             \/ mid[t][i].send = 1 \/ mid[t][i].addr \in Unreachable
             \/ \E j \in DOMAIN new[t] : new[t][j].addr = mid[t][i].addr
    BY <1>2, Zenon DEF Lessened
  <2>2. /\ Len(mid[t]) = Len(table[t]) /\ DOMAIN mid[t] = DOMAIN table[t]
        /\ \A j \in DOMAIN table[t] :
             /\ mid[t][j].addr = table[t][j].addr /\ mid[t][j].left = table[t][j].left
             /\ mid[t][j].quiet = table[t][j].quiet /\ mid[t][j].send = table[t][j].send
    BY <1>1, Zenon
  <2> QED BY <2>1, <2>2
<1> QED BY <1>2, <1>3 DEF Lessened, new, mid

Filled(old, n, rest) == [i \in 1 .. n |-> Last(old).addr] \o rest

\* What the memory behind a table may hold.
StaleAddr == Addr \cup {BroadcastAddr}

LEMMA MemoryFilled ==
  ASSUME NEW old \in Seq(Entry), NEW n \in Nat, n <= Len(old), NEW rest \in Seq(StaleAddr)
  PROVE  Filled(old, n, rest) \in Seq(StaleAddr) /\ Len(Filled(old, n, rest)) = n + Len(rest)
<1> DEFINE a == Last(old).addr
           tail == [i \in 1 .. n |-> a]
<1>1. ASSUME n > 0 PROVE a \in StaleAddr
  <2>1. Len(old) \in Nat /\ Len(old) >= 1
    BY <1>1
  <2>2. old[Len(old)] \in Entry
    BY <2>1
  <2> QED BY <2>2 DEF Last, Entry, StaleAddr
<1>2. tail \in Seq(StaleAddr) /\ Len(tail) = n
  <2> HIDE DEF a
  <2>1. \A i \in 1 .. n : a \in StaleAddr
    BY <1>1
  <2> QED BY <2>1, IsASeq
<1> HIDE DEF tail
<1>3. tail \o rest \in Seq(StaleAddr) /\ Len(tail \o rest) = n + Len(rest)
  BY <1>2
<1> QED BY <1>3 DEF tail, Filled

LEMMA CompactKeepsMemory ==
  ASSUME table \in [Sock -> Seq(Entry)], r.sock \in Sock,
         stale \in Seq(Addr \cup {BroadcastAddr}),
         NEW new, Lessened(new, table), Compact(new)
  PROVE  /\ table' = new /\ stale' \in Seq(Addr \cup {BroadcastAddr})
         /\ Len(table'[r.sock]) + Len(stale') = Len(table[r.sock]) + Len(stale)
<1> DEFINE old == table[r.sock]
           left == new[r.sock]
           n == Len(old) - Len(left)
           filled == Filled(old, n, stale)
<1>1. old \in Seq(Entry) /\ left \in Seq(Entry) /\ Len(left) <= Len(old)
  BY DEF Lessened
<1>2. table' = new /\ stale' = filled
  BY DEF Compact, Filled
<1>3. stale \in Seq(StaleAddr)
  BY DEF StaleAddr
<1> HIDE DEF old, left
<1>4. n \in Nat /\ n <= Len(old)
  BY <1>1
<1>5. filled \in Seq(StaleAddr) /\ Len(filled) = n + Len(stale)
  <2> HIDE DEF n
  <2> QED BY <1>1, <1>3, <1>4, MemoryFilled
<1> HIDE DEF filled
<1>6. Len(left) \in Nat /\ Len(old) \in Nat /\ Len(stale) \in Nat
  BY <1>1, <1>3
<1>7. Len(left) + Len(filled) = Len(old) + Len(stale)
  BY <1>5, <1>6
<1> QED BY <1>2, <1>5, <1>7 DEF StaleAddr, left, old

-----------------------------------------------------------------------------
\* Tables outside of the time in which an entry is not renewed yet.
Settled(tab) ==
  /\ tab \in [Sock -> Seq(Entry)]
  /\ \A s \in Sock : \A i \in DOMAIN tab[s] :
       /\ Within(s, tab[s][i])
       /\ s \notin Broadcast => tab[s][i].left + tab[s][i].quiet = Life(s)

LEMMA TablesSettled ==
  Tables /\ (pc # "admit" \/ r.sav = 0) => Settled(table)
<1> SUFFICES ASSUME Tables, pc # "admit" \/ r.sav = 0
             PROVE  Settled(table)
  OBVIOUS
<1>1. ASSUME NEW s \in Sock, NEW i \in DOMAIN table[s]
      PROVE  ~ Awaited(s, i)
  <2>1. i \in 1 .. Len(table[s])
    BY <1>1 DEF Tables
  <2> QED BY <2>1 DEF Awaited
<1> QED BY <1>1 DEF Tables, OnTime, Settled

LEMMA SettledTables ==
  Settled(table') /\ (pc' # "admit" \/ r'.sav = 0) => Tables'
<1> SUFFICES ASSUME Settled(table'), pc' # "admit" \/ r'.sav = 0
             PROVE  Tables'
  OBVIOUS
<1>1. ASSUME NEW s \in Sock, NEW i \in DOMAIN table'[s]
      PROVE  ~ Awaited(s, i)'
  <2>1. i \in 1 .. Len(table'[s])
    BY <1>1 DEF Settled
  <2> QED BY <2>1 DEF Awaited
<1>2. \A s \in Sock : \A i \in DOMAIN table'[s] : OnTime(s, i)' /\ Within(s, table'[s][i])
  BY <1>1 DEF OnTime, Settled
<1> QED BY <1>2 DEF Tables, Settled, Within

LEMMA LessenedSettled ==
  ASSUME NEW new, NEW old, Lessened(new, old), Settled(old)
  PROVE  Settled(new)
BY DEF Lessened, Settled

\* What HeardPeersStay says of a step.
HeardStay ==
  \A s \in Local \cup Global : \A i \in DOMAIN table[s] :
    LET e == table[s][i]
    IN \/ e.addr \in AddrsOf(s)' \/ e.addr \in Unreachable
       \/ e.send = 1 \/ e.quiet = Life(s)

LEMMA LessenedStay ==
  ASSUME Lessened(table', table)
  PROVE  HeardStay
<1> SUFFICES ASSUME NEW s \in Local \cup Global, NEW i \in DOMAIN table[s],
                    table[s][i].send # 1, table[s][i].addr \notin Unreachable
             PROVE  table[s][i].addr \in AddrsOf(s)'
  BY DEF HeardStay
<1>1. s \in Sock
  BY DEF Sock
<1>2. \E j \in DOMAIN table'[s] : table'[s][j].addr = table[s][i].addr
  BY <1>1, LessenedFinds
<1> QED BY <1>2 DEF AddrsOf

LEMMA SockNonempty == (CHOOSE s \in Sock : TRUE) \in Sock
BY SocketAssumption DEF Sock

-----------------------------------------------------------------------------
\* The steps.
LEMMA InitIInv == Init => IInv
<1> SUFFICES ASSUME Init PROVE IInv
  OBVIOUS
<1>1. Interface \in Entry
  BY SocketAssumption DEF Interface, Entry
<1>2. \A s \in Sock : table[s] = IF s \in Broadcast THEN <<Interface>> ELSE <<>>
  BY DEF Init
<1>3. table \in [Sock -> Seq(Entry)]
  BY <1>1 DEF Init
<1>4. \A s \in Sock : \A i \in DOMAIN table[s] :
        s \in Broadcast /\ table[s][i] = Interface
  BY <1>2
<1>5. Interface.limited = FALSE
  BY DEF Interface
<1>6. Tables
  BY <1>1, <1>3, <1>4, <1>5 DEF Tables, Within, OnTime
<1>7. r.sock \in Sock /\ r.sav = 0 /\ stale = <<>> /\ todo = <<>> /\ pc = "read"
  BY SockNonempty DEF Init, NoRead
<1>8. Loop
  <2>1. r \in [sock : Sock, from : Addr \cup {NoAddr}, sav : Nat,
                reached : BOOLEAN, auth : BOOLEAN]
    BY SockNonempty DEF Init, NoRead
  <2>2. Len(table[r.sock]) \in Nat
    BY <1>3, <1>7
  <2> QED BY <1>7, <2>1, <2>2 DEF Loop, PointerInMemory
<1> QED BY <1>6, <1>8 DEF IInv

\* An entry that something was received from.
LEMMA ReceivedWithin ==
  ASSUME NEW s \in Sock, NEW e, Within(s, e), NEW renew \in BOOLEAN
  PROVE  LET d == Received(e, renew)
         IN Within(s, d) /\ d.addr = e.addr /\ d.left = e.left /\ d.quiet = 0
            /\ d.recv \in 0 .. RecvLimit
<1> DEFINE n == IF e.recv >= 1 THEN e.recv - 1 ELSE e.recv
           c == [e EXCEPT !.recv = n]
           h == [c EXCEPT !.quiet = 0]
           h1 == [h EXCEPT !.send = SendLimit]
           h2 == [h1 EXCEPT !.sent = 0]
<1>1. e \in Entry /\ n \in 0 .. RecvLimit
  BY SocketAssumption DEF Within, Entry
<1> HIDE DEF n
<1>2. /\ c \in Entry /\ c.recv = n /\ c.addr = e.addr /\ c.left = e.left /\ c.limited = e.limited
      /\ c.send = e.send /\ c.sent = e.sent
  BY <1>1 DEF Entry
<1> HIDE DEF c
<1>3. /\ h \in Entry /\ h.recv = n /\ h.addr = e.addr /\ h.left = e.left /\ h.limited = e.limited
      /\ h.send = e.send /\ h.sent = e.sent /\ h.quiet = 0
  BY <1>2 DEF Entry
<1> HIDE DEF h
<1>4. SendLimit \in 0 .. SendLimit /\ SendLimit >= 1 /\ SendLimit \in Nat
  BY SocketAssumption
<1>5. /\ h1 \in Entry /\ h1.recv = n /\ h1.addr = e.addr /\ h1.left = e.left
      /\ h1.limited = e.limited /\ h1.send = SendLimit /\ h1.quiet = 0
  BY <1>3, <1>4 DEF Entry
<1> HIDE DEF h1
<1>6. /\ h2 \in Entry /\ h2.recv = n /\ h2.addr = e.addr /\ h2.left = e.left
      /\ h2.limited = e.limited /\ h2.send = SendLimit /\ h2.sent = 0 /\ h2.quiet = 0
  BY <1>5 DEF Entry
<1>7. Received(e, renew) = IF e.limited /\ renew THEN h2 ELSE h
  BY DEF Received, h, h1, c, n
<1> HIDE DEF h2
<1>8. Within(s, h) /\ Within(s, h2)
  BY <1>3, <1>4, <1>6 DEF Within
<1> QED BY <1>1, <1>3, <1>6, <1>7, <1>8

LEMMA ReadStep ==
  ASSUME IInv, NEW s \in Sock, NEW a \in Addr, NEW auth \in BOOLEAN, Read(s, a, auth)
  PROVE  IInv' /\ HeardStay
<1>1. Settled(table)
  BY TablesSettled DEF IInv, Read
<1>2. CASE a \in AddrsOf(s)
  <2> DEFINE i == IndexIn(s, a)
             e == Received(table[s][i], auth \/ s \notin Global)
  <2>1. i \in DOMAIN table[s] /\ table[s][i].addr = a
    BY <1>2 DEF AddrsOf, IndexIn
  <2>2. /\ table' = [table EXCEPT ![s][i] = e]
        /\ r' = [sock |-> s, from |-> a, sav |-> i, reached |-> e.recv = 0, auth |-> auth]
        /\ pc' = "admit" /\ todo' = <<>> /\ stale' = stale
    BY <1>2 DEF Read
  <2> HIDE DEF i
  <2>3. Within(s, table[s][i]) /\ (auth \/ s \notin Global) \in BOOLEAN
    BY <1>1, <2>1 DEF Settled
  <2>4. Within(s, e) /\ e.addr = a /\ e.quiet = 0 /\ e \in Entry
    BY <2>1, <2>3, ReceivedWithin DEF Within
  <2> HIDE DEF e
  <2>5. table \in [Sock -> Seq(Entry)] /\ i \in 1 .. Len(table[s])
    BY <1>1, <2>1 DEF Settled
  <2>6. /\ table' \in [Sock -> Seq(Entry)] /\ table'[s][i] = e
        /\ \A t \in Sock : DOMAIN table'[t] = DOMAIN table[t] /\ Len(table'[t]) = Len(table[t])
        /\ \A t \in Sock : \A j \in DOMAIN table[t] :
             t # s \/ j # i => table'[t][j] = table[t][j]
    BY <2>2, <2>4, <2>5
  <2>7. Tables'
    <3>1. ASSUME NEW t \in Sock, NEW j \in DOMAIN table'[t]
          PROVE  Within(t, table'[t][j]) /\ OnTime(t, j)'
      <4>1. CASE t = s /\ j = i
        BY <2>2, <2>4, <2>6, <4>1 DEF OnTime, Awaited
      <4>2. CASE t # s \/ j # i
        BY <1>1, <2>2, <2>6, <4>2 DEF OnTime, Awaited, Settled
      <4> QED BY <4>1, <4>2
    <3> QED BY <2>6, <3>1 DEF Tables, Within
  <2>8. Loop'
    <3>1. r' \in [sock : Sock, from : Addr \cup {NoAddr}, sav : Nat,
                   reached : BOOLEAN, auth : BOOLEAN]
      BY <2>2, <2>5
    <3>2. r'.sav # 0 /\ r'.sav \in DOMAIN table'[r'.sock] /\ r'.from \in Addr
          /\ r'.sav <= Len(table'[r'.sock])
      BY <2>2, <2>5, <2>6
    <3>3. Len(stale) \in Nat /\ Len(table'[r'.sock]) \in Nat
      BY <2>6, <3>1 DEF IInv, Loop
    <3>4. r'.sav <= Len(table'[r'.sock]) + Len(stale')
      BY <2>2, <3>1, <3>2, <3>3
    <3> QED BY <2>2, <3>1, <3>2, <3>4 DEF IInv, Loop, PointerInMemory
  <2>9. HeardStay
    <3>1. \A t \in Sock : \A j \in DOMAIN table[t] : table'[t][j].addr = table[t][j].addr
      BY <2>1, <2>4, <2>6
    <3> QED BY <2>6, <3>1 DEF HeardStay, AddrsOf, Sock
  <2> QED BY <2>7, <2>8, <2>9 DEF IInv
<1>3. CASE a \notin AddrsOf(s)
  <2>1. /\ table' = table /\ stale' = stale /\ todo' = <<>> /\ pc' = "admit"
        /\ r' = [sock |-> s, from |-> a, sav |-> 0, reached |-> FALSE, auth |-> auth]
    BY <1>3 DEF Read
  <2>2. r'.sav = 0 /\ r'.sock = s /\ r'.from = a
    BY <2>1
  <2>3. Tables'
    BY <1>1, <2>1, <2>2, SettledTables
  <2>4. Loop'
    <3>1. r' \in [sock : Sock, from : Addr \cup {NoAddr}, sav : Nat,
                   reached : BOOLEAN, auth : BOOLEAN]
      BY <2>1
    <3>2. Len(stale) \in Nat /\ Len(table'[r'.sock]) \in Nat
      BY <2>1, <2>2, <1>1 DEF IInv, Loop, Settled
    <3>3. r'.from \notin AddrsOf(r.sock)'
      BY <1>3, <2>1, <2>2 DEF AddrsOf
    <3> QED BY <2>1, <2>2, <3>1, <3>2, <3>3 DEF IInv, Loop, PointerInMemory
  <2>5. HeardStay
    BY <2>1 DEF HeardStay, AddrsOf
  <2> QED BY <2>3, <2>4, <2>5 DEF IInv
<1> QED BY <1>2, <1>3

LEMMA PeerWithin ==
  ASSUME NEW s \in Sock, NEW a \in Addr
  PROVE  /\ Within(s, Peer(s, a)) /\ Peer(s, a).addr = a /\ ~ Spent(Peer(s, a))
         /\ Peer(s, a).left + Peer(s, a).quiet = Life(s)
<1>1. Life(s) \in Nat /\ RecvLimit \in 0 .. RecvLimit /\ SendLimit \in 0 .. SendLimit
      /\ SendLimit >= 2
  BY SocketAssumption DEF Life
<1>2. Peer(s, a) \in Entry
  BY <1>1 DEF Peer, Entry
<1> QED BY <1>1, <1>2 DEF Peer, Within, Spent

\* A step that only loses entries as it may, of memory that is compacted.
LEMMA LessenedStep ==
  ASSUME IInv, NEW new, Lessened(new, table), Compact(new), UNCHANGED r,
         pc # "admit" \/ r.sav = 0, pc' # "admit",
         todo' \in Seq([local : BOOLEAN, except : Addr \cup {NoAddr}]),
         pc' \in {"read", "process", "limit", "clock", "dht"},
         pc' \in {"process", "clock", "dht"} => todo' = <<>>
  PROVE  IInv' /\ HeardStay
<1>1. Settled(table) /\ r.sock \in Sock
  BY TablesSettled DEF IInv, Loop
<1>2. /\ table' = new /\ stale' \in Seq(Addr \cup {BroadcastAddr})
      /\ Len(table'[r.sock]) + Len(stale') = Len(table[r.sock]) + Len(stale)
  BY <1>1, CompactKeepsMemory, Zenon DEF IInv, Loop, Settled
<1>3. Lessened(table', table)
  BY <1>2
<1>4. HeardStay
  BY <1>3, LessenedStay
<1>5. Tables'
  BY <1>1, <1>3, LessenedSettled, SettledTables
<1>6. Loop'
  BY <1>2 DEF IInv, Loop, PointerInMemory
<1> QED BY <1>4, <1>5, <1>6 DEF IInv

LEMMA AdmitNewStep ==
  ASSUME IInv, AdmitNew
  PROVE  IInv' /\ HeardStay
<1> DEFINE s == r.sock
           a == r.from
           peer == Peer(s, a)
           added == [table EXCEPT ![s] = Append(table[s], peer)]
           new == Charged(added, s, a)
<1>1. /\ pc = "admit" /\ r.sav = 0 /\ s \in Sock /\ a \in Addr /\ todo = <<>>
      /\ a \notin AddrsOf(s)
  BY DEF AdmitNew, IInv, Loop
<1>2. Settled(table)
  BY <1>1, TablesSettled DEF IInv
<1>3. table' = new /\ r' = [r EXCEPT !.sav = Len(table[s]) + 1] /\ pc' = "process"
      /\ stale' = stale /\ todo' = <<>>
  BY <1>1 DEF AdmitNew
<1>4. /\ peer \in Entry /\ Within(s, peer) /\ peer.addr = a /\ ~ Spent(peer)
      /\ peer.left + peer.quiet = Life(s)
  BY <1>1, PeerWithin DEF Within
<1> HIDE DEF peer
<1>5. table \in [Sock -> Seq(Entry)] /\ table[s] \in Seq(Entry) /\ Len(table[s]) \in Nat
  BY <1>1, <1>2 DEF Settled
<1>6. /\ Append(table[s], peer) \in Seq(Entry)
      /\ Len(Append(table[s], peer)) = Len(table[s]) + 1
      /\ Append(table[s], peer)[Len(table[s]) + 1] = peer
      /\ \A i \in 1 .. Len(table[s]) : Append(table[s], peer)[i] = table[s][i]
  BY <1>4, <1>5
<1>7. /\ added \in [Sock -> Seq(Entry)] /\ added[s] = Append(table[s], peer)
      /\ \A t \in Sock : t # s => added[t] = table[t]
  BY <1>1, <1>5, <1>6
<1> HIDE DEF added
<1>8. \A i \in DOMAIN added[s] :
        added[s][i] = peer \/ (i \in DOMAIN table[s] /\ added[s][i] = table[s][i])
  BY <1>5, <1>6, <1>7
<1>9. Settled(added)
  BY <1>1, <1>2, <1>4, <1>7, <1>8 DEF Settled
<1>10. Lessened(new, added)
  BY <1>1, <1>9, ChargedLessens DEF Settled
<1>11. Settled(new)
  BY <1>9, <1>10, LessenedSettled
<1>12. Len(new[s]) = Len(table[s]) + 1
  <2> DEFINE q == added[s]
             K == {e \in Range(q) : e.addr # a \/ ~ Spent(e)}
             Paid(e) == IF e.addr = a THEN SentTo(e, TRUE) ELSE e
  <2>1. \A i \in DOMAIN q : q[i] \in K
    <3>1. \A i \in DOMAIN table[s] : table[s][i].addr # a
      BY <1>1 DEF AddrsOf
    <3> QED BY <1>4, <1>8, <3>1 DEF Range
  <2>2. new[s] = [j \in DOMAIN Only(q, K) |-> Paid(Only(q, K)[j])]
    BY <1>1 DEF Charged, Mapped, Where
  <2>3. q \in Seq(Entry) /\ DOMAIN q = 1 .. Len(q) /\ Len(q) = Len(table[s]) + 1
    BY <1>6, <1>7
  <2> HIDE DEF K, q
  <2>4. Only(q, K) = q
    BY <2>1, <2>3, OnlyAll, Zenon
  <2>5. DOMAIN new[s] = 1 .. Len(table[s]) + 1
    BY <2>2, <2>3, <2>4
  <2>6. new[s] \in Seq(Entry)
    BY <1>1, <1>11 DEF Settled
  <2> HIDE DEF new
  <2>7. DOMAIN new[s] = 1 .. Len(new[s]) /\ Len(new[s]) \in Nat
    BY <2>6
  <2> QED BY <1>5, <2>5, <2>7
<1> HIDE DEF new
<1>13. Tables'
  BY <1>3, <1>11, SettledTables
<1>14. Loop'
  <2>1. r \in [sock : Sock, from : Addr \cup {NoAddr}, sav : Nat,
                reached : BOOLEAN, auth : BOOLEAN]
    BY DEF IInv, Loop
  <2>2. /\ r' \in [sock : Sock, from : Addr \cup {NoAddr}, sav : Nat,
                    reached : BOOLEAN, auth : BOOLEAN]
        /\ r'.sock = s /\ r'.sav = Len(table[s]) + 1
    <3> DEFINE n == Len(table[s]) + 1
    <3>1. n \in Nat /\ r' = [r EXCEPT !.sav = n]
      BY <1>3, <1>5
    <3> HIDE DEF n
    <3>2. /\ r' \in [sock : Sock, from : Addr \cup {NoAddr}, sav : Nat,
                      reached : BOOLEAN, auth : BOOLEAN]
          /\ r'.sock = r.sock /\ r'.sav = n
      BY <2>1, <3>1
    <3> QED BY <3>2 DEF n
  <2>3. stale \in Seq(Addr \cup {BroadcastAddr}) /\ Len(stale) \in Nat
    BY DEF IInv, Loop
  <2>4. r'.sav <= Len(table'[r'.sock]) + Len(stale')
    BY <1>3, <1>5, <1>12, <2>2, <2>3
  <2> QED BY <1>3, <2>2, <2>3, <2>4 DEF Loop, PointerInMemory
<1>15. HeardStay
  <2> SUFFICES ASSUME NEW t \in Local \cup Global, NEW i \in DOMAIN table[t],
                      table[t][i].send # 1, table[t][i].addr \notin Unreachable
               PROVE  table[t][i].addr \in AddrsOf(t)'
    BY DEF HeardStay
  <2>1. t \in Sock
    BY DEF Sock
  <2>2. i \in DOMAIN added[t] /\ added[t][i] = table[t][i]
    <3>1. CASE t = s
      <4>1. i \in 1 .. Len(table[s])
        BY <1>5, <3>1
      <4>2. i \in DOMAIN Append(table[s], peer) /\ Append(table[s], peer)[i] = table[s][i]
        BY <1>5, <1>6, <4>1
      <4> QED BY <1>7, <3>1, <4>2
    <3>2. CASE t # s
      BY <1>7, <2>1, <3>2
    <3> QED BY <3>1, <3>2
  <2>3. \E j \in DOMAIN new[t] : new[t][j].addr = table[t][i].addr
    <3> HIDE DEF added, s, a
    <3>1. added[t][i].send # 1 /\ added[t][i].addr \notin Unreachable
      BY <2>2
    <3>2. \E j \in DOMAIN new[t] : new[t][j].addr = added[t][i].addr
      BY <1>10, <2>1, <2>2, <3>1, LessenedFinds
    <3> QED BY <2>2, <3>2
  <2> QED BY <1>3, <2>3 DEF AddrsOf
<1> QED BY <1>13, <1>14, <1>15 DEF IInv

LEMMA AdmitRoutedStep ==
  ASSUME IInv, AdmitRouted
  PROVE  IInv' /\ HeardStay
<1>1. /\ pc = "admit" /\ r.sav = 0 /\ r.sock \in Sock /\ todo = <<>>
      /\ pc' = "process" /\ r' = r /\ todo' = todo
  BY DEF AdmitRouted, IInv, Loop
<1>2. Settled(table)
  BY <1>1, TablesSettled DEF IInv
<1>3. todo' \in Seq([local : BOOLEAN, except : Addr \cup {NoAddr}])
  BY <1>1
<1>4. CASE UNCHANGED <<table, stale>>
  <2>1. Tables'
    BY <1>1, <1>2, <1>4, SettledTables
  <2>2. Loop'
    BY <1>1, <1>3, <1>4 DEF IInv, Loop, PointerInMemory
  <2>3. HeardStay
    BY <1>4 DEF HeardStay, AddrsOf
  <2> QED BY <2>1, <2>2, <2>3 DEF IInv
<1>5. CASE Compact(Charged(table, r.sock, r.from))
  <2> DEFINE new == Charged(table, r.sock, r.from)
  <2>1. Lessened(new, table)
    BY <1>1, <1>2, ChargedLessens DEF Settled
  <2>2. Compact(new)
    BY <1>5
  <2> HIDE DEF new
  <2> QED BY <1>1, <1>3, <2>1, <2>2, LessenedStep
<1> QED BY <1>4, <1>5 DEF AdmitRouted

LEMMA AdmitKnownStep ==
  ASSUME IInv, AdmitKnown
  PROVE  IInv' /\ HeardStay
<1> DEFINE s == r.sock
           i == r.sav
           e == table[s][i]
           left == IF e.left = Forever THEN Forever ELSE Life(s)
           d == [e EXCEPT !.left = left]
<1>1. /\ pc = "admit" /\ s \in Sock /\ todo = <<>> /\ i \in DOMAIN table[s]
      /\ table \in [Sock -> Seq(Entry)] /\ e \in Entry
      /\ \A t \in Sock : \A j \in DOMAIN table[t] : Within(t, table[t][j]) /\ OnTime(t, j)
  <2>1. r.sav # 0
    BY DEF AdmitKnown
  <2> QED BY <2>1 DEF AdmitKnown, IInv, Loop, Tables, Within
<1>2. /\ table' = [table EXCEPT ![s][i] = d] /\ pc' = "process" /\ r' = r
      /\ stale' = stale /\ todo' = <<>>
  BY <1>1 DEF AdmitKnown, Extended
<1>3. Within(s, e) /\ OnTime(s, i)
  BY <1>1
<1>4. Life(s) \in Nat /\ left \in {Forever} \cup Nat
      /\ (s \notin Broadcast => left = Life(s) /\ e.quiet = 0)
  BY <1>1, <1>3, SocketAssumption DEF Life, Within, OnTime, Awaited, Forever
<1> HIDE DEF left
<1>5. /\ d \in Entry /\ d.left = left /\ d.addr = e.addr /\ d.quiet = e.quiet
      /\ d.limited = e.limited /\ d.sent = e.sent /\ d.send = e.send
  BY <1>1, <1>4 DEF Entry
<1> HIDE DEF d
<1>6. Within(s, d) /\ (s \notin Broadcast => d.left + d.quiet = Life(s))
  BY <1>3, <1>4, <1>5 DEF Within
<1>7. i \in 1 .. Len(table[s])
  BY <1>1
<1>8. /\ table' \in [Sock -> Seq(Entry)] /\ table'[s][i] = d
      /\ \A t \in Sock : DOMAIN table'[t] = DOMAIN table[t] /\ Len(table'[t]) = Len(table[t])
      /\ \A t \in Sock : \A j \in DOMAIN table[t] :
           t # s \/ j # i => table'[t][j] = table[t][j]
  BY <1>1, <1>2, <1>5, <1>7
<1>9. Tables'
  <2>1. ASSUME NEW t \in Sock, NEW j \in DOMAIN table'[t]
        PROVE  Within(t, table'[t][j]) /\ OnTime(t, j)'
    <3>1. CASE t = s /\ j = i
      BY <1>2, <1>6, <1>8, <3>1 DEF OnTime, Awaited
    <3>2. CASE t # s \/ j # i
      BY <1>1, <1>2, <1>8, <3>2 DEF OnTime, Awaited
    <3> QED BY <3>1, <3>2
  <2> QED BY <1>8, <2>1 DEF Tables, Within
<1>10. Loop'
  BY <1>1, <1>2, <1>8 DEF IInv, Loop, PointerInMemory
<1>11. HeardStay
  <2>1. \A t \in Sock : \A j \in DOMAIN table[t] : table'[t][j].addr = table[t][j].addr
    BY <1>5, <1>8
  <2> QED BY <1>8, <2>1 DEF HeardStay, AddrsOf, Sock
<1> QED BY <1>9, <1>10, <1>11 DEF IInv

\* A step that leaves the tables and the pointer, or the pointer is given up.
LEMMA StillStep ==
  ASSUME IInv, pc # "admit", pc' # "admit", table' = table,
         \/ r' = r /\ stale' = stale
         \/ r' = NoRead /\ stale' = <<>>,
         todo' \in Seq([local : BOOLEAN, except : Addr \cup {NoAddr}]),
         pc' \in {"read", "process", "limit", "clock", "dht"},
         pc' \in {"process", "clock", "dht"} => todo' = <<>>
  PROVE  IInv' /\ HeardStay
<1>1. Settled(table)
  BY TablesSettled DEF IInv
<1>2. Tables'
  BY <1>1, SettledTables
<1>3. Loop'
  <2>1. CASE r' = r /\ stale' = stale
    BY <2>1 DEF IInv, Loop, PointerInMemory
  <2>2. CASE r' = NoRead /\ stale' = <<>>
    <3>1. /\ r' \in [sock : Sock, from : Addr \cup {NoAddr}, sav : Nat,
                      reached : BOOLEAN, auth : BOOLEAN]
          /\ r'.sav = 0 /\ r'.sock \in Sock
      BY <2>2, SockNonempty DEF NoRead
    <3>2. Len(table'[r'.sock]) \in Nat
      BY <1>1, <3>1 DEF Settled
    <3> QED BY <2>2, <3>1, <3>2 DEF Loop, PointerInMemory
  <2> QED BY <2>1, <2>2
<1>4. HeardStay
  BY DEF HeardStay, AddrsOf
<1> QED BY <1>2, <1>3, <1>4 DEF IInv

Calls == [local : BOOLEAN, except : Addr \cup {NoAddr}]

LEMMA CallsOf ==
  ASSUME NEW a \in Addr \cup {NoAddr}
  PROVE  /\ <<>> \in Seq(Calls) /\ <<ToLocal(a)>> \in Seq(Calls)
         /\ <<ToLocal(a), ToOut(a)>> \in Seq(Calls)
<1>1. ToLocal(a) \in Calls /\ ToOut(a) \in Calls
  BY DEF ToLocal, ToOut, Calls
<1> QED BY <1>1

LEMMA ProcessStep ==
  ASSUME IInv, Process
  PROVE  IInv' /\ HeardStay
<1>1. r.from \in Addr \cup {NoAddr}
  BY DEF IInv, Loop
<1>2. Answers \subseteq Seq(Calls) /\ Forwards \subseteq Seq(Calls)
  BY <1>1, CallsOf DEF Answers, Forwards
<1>3. PICK x \in Answers, y \in Forwards : todo' = x \o y
  BY DEF Process
<1>4. x \in Seq(Calls) /\ y \in Seq(Calls)
  BY <1>2
<1>5. todo' \in Seq(Calls)
  <2> HIDE DEF Calls
  <2> QED BY <1>3, <1>4
<1> QED BY <1>5, StillStep DEF Process, Calls

LEMMA SendStep ==
  ASSUME IInv, Send
  PROVE  IInv' /\ HeardStay
<1>1. PICK fails \in SUBSET Unreachable : Compact(Delivered(Head(todo), fails))
  BY DEF Send
<1>2. /\ pc # "admit" /\ pc' = pc /\ r' = r /\ todo # <<>> /\ todo' = Tail(todo)
      /\ pc \in {"read", "limit"}
  BY DEF Send, IInv, Loop
<1>3. todo' \in Seq(Calls)
  <2>1. todo \in Seq(Calls)
    BY DEF IInv, Loop, Calls
  <2> QED BY <1>2, <2>1
<1> DEFINE new == Delivered(Head(todo), fails)
<1>4. Lessened(new, table)
  BY DeliveredLessens DEF IInv, Tables
<1>5. Compact(new)
  BY <1>1
<1> HIDE DEF new
<1> QED BY <1>2, <1>3, <1>4, <1>5, LessenedStep DEF Calls

LEMMA LimitReachedStep ==
  ASSUME IInv, LimitReached
  PROVE  IInv' /\ HeardStay
<1> DEFINE new == Charged(Renewed(table, r.from), r.sock, Pointee)
<1>1. Lessened(new, table)
  BY ReachedLessens DEF IInv, Tables, Loop
<1>2. Compact(new) /\ pc = "limit" /\ pc' = "clock" /\ r' = r /\ todo' = <<>>
  BY DEF LimitReached
<1>3. todo' \in Seq([local : BOOLEAN, except : Addr \cup {NoAddr}])
  BY <1>2
<1> HIDE DEF new
<1> QED BY <1>1, <1>2, <1>3, LessenedStep

LEMMA LimitNotReachedStep ==
  ASSUME IInv, LimitNotReached
  PROVE  IInv' /\ HeardStay
<1>1. todo' = <<>> /\ todo' \in Seq([local : BOOLEAN, except : Addr \cup {NoAddr}])
  BY DEF LimitNotReached
<1> QED BY <1>1, StillStep DEF LimitNotReached

LEMMA NoTickStep ==
  ASSUME IInv, NoTick
  PROVE  IInv' /\ HeardStay
<1>1. todo' = <<>> /\ todo' \in Seq([local : BOOLEAN, except : Addr \cup {NoAddr}])
  BY DEF NoTick, IInv, Loop
<1> QED BY <1>1, StillStep DEF NoTick

LEMMA UpdateDhtStep ==
  ASSUME IInv, UpdateDht
  PROVE  IInv' /\ HeardStay
<1>1. todo' \in Seq(Calls)
  BY CallsOf DEF UpdateDht
<1> QED BY <1>1, StillStep DEF UpdateDht, Calls

LEMMA OlderWithin ==
  ASSUME NEW s \in Sock, s \notin Broadcast, NEW e, Within(s, e), ~ Past(e),
         e.left + e.quiet = Life(s)
  PROVE  /\ Within(s, Older(e)) /\ Older(e).addr = e.addr
         /\ Older(e).left + Older(e).quiet = Life(s)
<1>1. /\ e \in Entry /\ e.limited /\ e.left \in Nat /\ e.left # 0 /\ e.quiet \in Nat
      /\ Life(s) <= RemoteLife /\ Life(s) \in Nat /\ RemoteLife \in Nat
  BY SocketAssumption DEF Within, Past, Entry, Life
<1> DEFINE left == e.left - 1
           quiet == e.quiet + 1
           c == [e EXCEPT !.left = left]
           d == [c EXCEPT !.quiet = quiet]
<1>2. left \in Nat /\ quiet \in Nat /\ left + quiet = Life(s) /\ e.quiet <= RemoteLife
  BY <1>1
<1>3. Older(e) = d
  <2> DEFINE l == IF e.left = Forever THEN e.left ELSE e.left - 1
             m == IF e.limited /\ e.quiet <= RemoteLife THEN e.quiet + 1 ELSE e.quiet
  <2>1. l = left /\ m = quiet
    BY <1>1, <1>2 DEF Forever
  <2>2. Older(e) = [e EXCEPT !.left = l, !.quiet = m]
    BY DEF Older
  <2> HIDE DEF l, m, left, quiet
  <2> QED BY <2>1, <2>2
<1> HIDE DEF left, quiet
<1>4. /\ c \in Entry /\ c.left = left /\ c.addr = e.addr /\ c.limited = e.limited
      /\ c.sent = e.sent /\ c.send = e.send
  BY <1>1, <1>2 DEF Entry
<1> HIDE DEF c
<1>5. /\ d \in Entry /\ d.left = left /\ d.quiet = quiet /\ d.addr = e.addr
      /\ d.limited = e.limited /\ d.sent = e.sent /\ d.send = e.send
  BY <1>2, <1>4 DEF Entry
<1> HIDE DEF d
<1>6. Within(s, d)
  BY <1>1, <1>2, <1>5 DEF Within
<1> QED BY <1>2, <1>3, <1>5, <1>6

LEMMA TickStep ==
  ASSUME IInv, Tick
  PROVE  IInv' /\ HeardStay
<1>1. /\ pc = "clock" /\ todo = <<>> /\ Settled(table) /\ pc' = "dht" /\ todo' = <<>>
      /\ r' = NoRead /\ stale' = <<>>
  BY TablesSettled DEF Tick, IInv, Loop
<1> DEFINE Aged(s) == {p \in Entry \X Entry :
                         /\ Within(s, p[2]) /\ p[2].addr = p[1].addr
                         /\ p[2].left + p[2].quiet = Life(s)}
           K(s) == {e \in Range(table[s]) : ~ Past(e)}
<1>2. ASSUME NEW s \in Sock, s \notin Broadcast
      PROVE  Changed(table'[s], table[s], K(s), Aged(s))
  <2> DEFINE q == table[s]
             k == K(s)
             R == Aged(s)
             g == [j \in DOMAIN Only(q, k) |-> Older(Only(q, k)[j])]
             new == table'[s]
  <2>1. new = [j \in DOMAIN Only(q, k) |-> Older(Only(q, k)[j])]
    BY <1>2 DEF Tick, Mapped, Where
  <2>2. q \in Seq(Entry)
    BY <1>1 DEF Settled
  <2>3. ASSUME NEW e \in k
        PROVE  <<e, Older(e)>> \in R
    <3>1. PICK i \in DOMAIN table[s] : e = table[s][i]
      BY <2>3 DEF Range
    <3>2. Within(s, e) /\ e.left + e.quiet = Life(s) /\ ~ Past(e) /\ e \in Entry
      BY <1>1, <1>2, <2>3, <3>1 DEF Settled, Within
    <3>3. /\ Within(s, Older(e)) /\ Older(e).addr = e.addr
          /\ Older(e).left + Older(e).quiet = Life(s)
      BY <1>2, <3>2, OlderWithin
    <3> QED BY <3>2, <3>3 DEF Within
  <2>4. R \in SUBSET (Entry \X Entry)
    OBVIOUS
  <2> HIDE DEF q, k, R, new
  <2>5. /\ new = [j \in DOMAIN Only(q, k) |-> g[j]]
        /\ \A j \in DOMAIN Only(q, k) : Only(q, k)[j] \in k => <<Only(q, k)[j], g[j]>> \in R
    BY <2>1, <2>3
  <2> HIDE DEF g
  <2>6. Changed(new, q, k, R)
    BY <2>2, <2>4, <2>5, Transformed, Zenon
  <2> QED BY <2>6 DEF q, k, R, new
<1>3. ASSUME NEW s \in Sock, s \notin Broadcast
      PROVE  /\ table'[s] \in Seq(Entry)
             /\ \A j \in DOMAIN table'[s] :
                  /\ Within(s, table'[s][j])
                  /\ table'[s][j].left + table'[s][j].quiet = Life(s)
  <2>1. /\ table'[s] \in Seq(Entry)
        /\ \A j \in DOMAIN table'[s] : \E i \in DOMAIN table[s] :
             <<table[s][i], table'[s][j]>> \in Aged(s)
    BY <1>2, <1>3 DEF Changed
  <2>2. ASSUME NEW j \in DOMAIN table'[s]
        PROVE  /\ Within(s, table'[s][j])
               /\ table'[s][j].left + table'[s][j].quiet = Life(s)
    <3>1. PICK i \in DOMAIN table[s] : <<table[s][i], table'[s][j]>> \in Aged(s)
      BY <2>1, Zenon
    <3> QED BY <3>1
  <2> QED BY <2>1, <2>2
<1>4. ASSUME NEW s \in Broadcast
      PROVE  /\ table'[s] = <<Interface>> /\ table'[s] \in Seq(Entry)
             /\ Within(s, Interface)
  <2>1. Interface \in Entry /\ ~ Interface.limited
    BY SocketAssumption DEF Interface, Entry
  <2>2. table'[s] = <<Interface>>
    BY DEF Tick, Sock
  <2> QED BY <2>1, <2>2 DEF Within
<1>5. table' \in [Sock -> Seq(Entry)]
  <2>1. table' = [s \in Sock |-> table'[s]]
    BY DEF Tick
  <2> QED BY <1>3, <1>4, <2>1
<1>6. Settled(table')
  <2>1. ASSUME NEW s \in Sock, NEW j \in DOMAIN table'[s]
        PROVE  /\ Within(s, table'[s][j])
               /\ s \notin Broadcast => table'[s][j].left + table'[s][j].quiet = Life(s)
    <3>1. CASE s \in Broadcast
      <4>1. table'[s][j] = Interface
        BY <1>4, <2>1, <3>1
      <4> QED BY <1>4, <3>1, <4>1
    <3>2. CASE s \notin Broadcast
      BY <1>3, <3>2
    <3> QED BY <3>1, <3>2
  <2> QED BY <1>5, <2>1 DEF Settled
<1>7. Tables'
  BY <1>1, <1>6, SettledTables
<1>8. Loop'
  <2>1. /\ r' \in [sock : Sock, from : Addr \cup {NoAddr}, sav : Nat,
                    reached : BOOLEAN, auth : BOOLEAN]
        /\ r'.sav = 0 /\ r'.sock \in Sock
    BY <1>1, SockNonempty DEF NoRead
  <2>2. Len(table'[r'.sock]) \in Nat
    BY <1>5, <2>1
  <2> QED BY <1>1, <2>1, <2>2 DEF Loop, PointerInMemory
<1>9. HeardStay
  <2> SUFFICES ASSUME NEW s \in Local \cup Global, NEW i \in DOMAIN table[s],
                      table[s][i].quiet # Life(s)
               PROVE  table[s][i].addr \in AddrsOf(s)'
    BY DEF HeardStay
  <2>1. s \in Sock /\ s \notin Broadcast
    BY SocketAssumption DEF Sock
  <2>2. /\ table[s][i] \in Entry /\ table[s][i].left + table[s][i].quiet = Life(s)
        /\ Within(s, table[s][i])
    BY <1>1, <2>1 DEF Settled, Within
  <2>3. ~ Past(table[s][i])
    BY <2>1, <2>2 DEF Past, Within, Entry
  <2>4. table[s][i] \in K(s)
    BY <2>3 DEF Range
  <2>5. PICK j \in DOMAIN table'[s] : <<table[s][i], table'[s][j]>> \in Aged(s)
    BY <1>2, <2>1, <2>4, Zenon DEF Changed
  <2>6. table'[s][j].addr = table[s][i].addr
    BY <2>5
  <2> QED BY <2>6 DEF AddrsOf
<1> QED BY <1>7, <1>8, <1>9 DEF IInv

-----------------------------------------------------------------------------
LEMMA NextStep ==
  ASSUME IInv, Next
  PROVE  IInv' /\ HeardStay
<1>1. CASE ReadAny
  <2>1. PICK p \in Senders, auth \in BOOLEAN : Read(p[1], p[2], auth)
    BY <1>1 DEF ReadAny
  <2>2. p[1] \in Sock /\ p[2] \in Addr
    BY SocketAssumption
  <2> QED BY <2>1, <2>2, ReadStep
<1>2. CASE Daemon
  BY <1>2, AdmitNewStep, AdmitRoutedStep, AdmitKnownStep, ProcessStep, SendStep,
     LimitReachedStep, LimitNotReachedStep, TickStep, NoTickStep, UpdateDhtStep DEF Daemon
<1> QED BY <1>1, <1>2 DEF Next

LEMMA Invariance == Spec => []IInv
<1>1. ASSUME IInv, UNCHANGED vars PROVE IInv'
  BY <1>1 DEF vars, IInv, Tables, Within, OnTime, Awaited, Loop, PointerInMemory, AddrsOf
<1>2. IInv /\ [Next]_vars => IInv'
  BY <1>1, NextStep
<1> QED BY InitIInv, <1>2, PTL DEF Spec

(* The entries of the tables and what the loop holds have the types of the    *)
(* structures of sockets.h: no count or limit leaves its range.               *)
THEOREM TypeCorrect == Spec => []TypeOK
<1>1. IInv => TypeOK
  BY DEF IInv, Tables, Loop, TypeOK
<1> QED BY Invariance, <1>1, PTL

(* socket_dec_send_limit and socket_send_fun count every packet sent to a     *)
(* peer, for any limits, sockets and orders of packets: at most SendLimit are *)
(* sent before the peer authenticates again, and no limit turns into 0.       *)
THEOREM SentWithin == Spec => []SentWithinLimit
<1>1. IInv => SentWithinLimit
  BY DEF IInv, Tables, Within, SentWithinLimit
<1> QED BY Invariance, <1>1, PTL

(* r.sav never points beyond the memory of its array from reading a packet to *)
(* answering it, whatever sending, keep-alives and limits remove meanwhile.   *)
THEOREM PointerStays == Spec => []PointerInMemory
<1>1. IInv => PointerInMemory
  BY DEF IInv, Loop
<1> QED BY Invariance, <1>1, PTL

(* Peers that are heard keep their entries: a step of the loop only removes   *)
(* those that are silent for their life, used up or cannot be reached.        *)
THEOREM PeersStay == Spec => HeardPeersStay
<1>1. IInv /\ [Next]_vars => [HeardStay]_vars
  BY NextStep
<1>2. Spec => [][HeardStay]_vars
  BY Invariance, <1>1, PTL DEF Spec
<1>3. HeardPeersStay <=> [][HeardStay]_vars
  BY DEF HeardPeersStay, HeardStay
<1> QED BY <1>2, <1>3
=============================================================================

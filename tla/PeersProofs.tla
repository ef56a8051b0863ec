---------------------------- MODULE PeersProofs -----------------------------
(***************************************************************************)
(* What two systems share: two users who exchange keys under one secret    *)
(* never hold another key (KeysMatch of Exchange), the listener of a call  *)
(* decrypts with the position that the speaker encrypted with              *)
(* (StaysInStep of Voice), and the cache of the texts that were received   *)
(* keeps those used last (CacheInOrder of Caches).                         *)
(***************************************************************************)
EXTENDS Exchange, Voice, Caches, SubsequenceProofs

(***************************************************************************)
(* The exchange of keys.                                                   *)
(***************************************************************************)
\* The key that u should get from v under the secret its entry began with.
Theirs(u, v) == [by |-> v, for |-> u, n |-> contact[<<u, v>>]]

\* A packet has a key, with the secret that the key was made for.
Genuine(p) ==
  \E u, v \in Users, n \in 1 .. MaxSecrets :
    /\ <<u, v>> \in Pairs
    /\ p = [key |-> [by |-> u, for |-> v, n |-> n], secret |-> SecretOf(u, v, n)]

\* An entry waits with its own secret, and what came is the key of the other user.
EntryOK(u, v) ==
  /\ contact[<<u, v>>] \in 0 .. MaxSecrets
  /\ file[<<u, v>>] \in {NoKey, SecretOf(u, v, contact[<<u, v>>])}
  /\ contact[<<u, v>>] = 0 => file[<<u, v>>] = NoKey /\ pub[<<u, v>>] = NoKey
  /\ pub[<<u, v>>] \in {NoKey, Theirs(u, v)}

ExchangeInv ==
  /\ contact = [p \in Pairs |-> contact[p]]
  /\ file = [p \in Pairs |-> file[p]] /\ pub = [p \in Pairs |-> pub[p]]
  /\ \A p \in keyPackets : Genuine(p)
  /\ \A u, v \in Users : <<u, v>> \in Pairs => EntryOK(u, v)

LEMMA InitExchangeInv == ExchangeInit => ExchangeInv
  BY ExchangeAssumption DEF ExchangeInit, ExchangeInv, EntryOK

LEMMA InvMatches == ExchangeInv => KeysMatch
<1> SUFFICES ASSUME ExchangeInv, NEW u \in Users, NEW v \in Users, <<u, v>> \in Pairs,
                    contact[<<u, v>>] = contact[<<v, u>>]
             PROVE  pub[<<u, v>>] \in {NoKey, MyKey(v, u)}
  BY ExchangeAssumption DEF KeysMatch
<1> QED
  BY DEF ExchangeInv, EntryOK, Theirs, MyKey

\* What a user sends, waiting for the other's key, is genuine.
LEMMA OwnKeyGenuine ==
  ASSUME ExchangeInv, NEW u \in Users, NEW v \in Users, <<u, v>> \in Pairs, file[<<u, v>>] # NoKey
  PROVE  Genuine([key |-> MyKey(u, v), secret |-> file[<<u, v>>]])
<1>1. /\ contact[<<u, v>>] \in 1 .. MaxSecrets
      /\ file[<<u, v>>] = SecretOf(u, v, contact[<<u, v>>])
  BY ExchangeAssumption DEF ExchangeInv, EntryOK
<1> QED
  BY <1>1 DEF Genuine, MyKey

\* send_key adds at most the packet it is called for.
LEMMA SendKeyAdds ==
  ASSUME NEW u, NEW v, NEW k, NEW s, NEW under, SendKey(u, v, k, s, under)
  PROVE  keyPackets' \subseteq under \cup {[key |-> k, secret |-> s]}
  BY DEF SendKey

\* A key that matches the secret of an exchange file, and is not the own one, is the
\* one of the other user under the secret of this entry.
LEMMA MatchIsTheirs ==
  ASSUME ExchangeInv, NEW u \in Users, NEW p \in keyPackets, NEW v \in Matching(u, p)
  PROVE  /\ v \in Users /\ <<u, v>> \in Pairs /\ file[<<u, v>>] = p.secret
         /\ file[<<u, v>>] # NoKey /\ p.key = Theirs(u, v)
<1>1. /\ v \in Users /\ <<u, v>> \in Pairs /\ file[<<u, v>>] = p.secret /\ p.key # MyKey(u, v)
  BY DEF Matching, ReceivedMatchingKey, Contacts
<1>2. PICK a \in Users, b \in Users, n \in 1 .. MaxSecrets :
        /\ <<a, b>> \in Pairs
        /\ p = [key |-> [by |-> a, for |-> b, n |-> n], secret |-> SecretOf(a, b, n)]
  BY DEF ExchangeInv, Genuine
<1>3. p.secret # NoKey
  <2>1. p.secret = [of |-> {<<a, b>>[1], <<a, b>>[2]}, n |-> n]
    BY <1>2 DEF SecretOf
  <2>2. p.secret \in Secrets
    BY <1>2, <2>1 DEF Secrets
  <2> QED
    BY <2>2, ExchangeAssumption
<1>4. file[<<u, v>>] = SecretOf(u, v, contact[<<u, v>>])
  BY <1>1, <1>3 DEF ExchangeInv, EntryOK
<1>5. {a, b} = {u, v} /\ n = contact[<<u, v>>]
  BY <1>1, <1>2, <1>4 DEF SecretOf
<1>6. a # b /\ u # v
  BY <1>1, <1>2, ExchangeAssumption
<1>7. a = v /\ b = u
  <2>1. CASE a = u
    BY <2>1, <1>1, <1>2, <1>5, <1>6 DEF MyKey
  <2>2. CASE a = v
    BY <2>2, <1>5, <1>6
  <2> QED
    BY <2>1, <2>2, <1>5
<1> QED
  BY <1>1, <1>2, <1>3, <1>5, <1>7 DEF Theirs

-----------------------------------------------------------------------------
\* Steps that change no entry and send nothing new.
LEMMA OnlyPackets ==
  ASSUME ExchangeInv, UNCHANGED <<contact, pub, file>>, \A p \in keyPackets' : Genuine(p)
  PROVE  ExchangeInv'
  BY DEF ExchangeInv, EntryOK, Theirs, Genuine

\* Steps that change the entry of one user for one other.
LEMMA OneEntry ==
  ASSUME ExchangeInv, NEW u \in Users, NEW v \in Users, <<u, v>> \in Pairs,
         NEW c, NEW f, NEW k,
         contact' = [contact EXCEPT ![<<u, v>>] = c], file' = [file EXCEPT ![<<u, v>>] = f],
         pub' = [pub EXCEPT ![<<u, v>>] = k],
         \A p \in keyPackets' : Genuine(p),
         c \in 0 .. MaxSecrets, f \in {NoKey, SecretOf(u, v, c)},
         c = 0 => f = NoKey /\ k = NoKey,
         k \in {NoKey, [by |-> v, for |-> u, n |-> c]}
  PROVE  ExchangeInv'
<1>1. ASSUME NEW x \in Users, NEW y \in Users, <<x, y>> \in Pairs
      PROVE  EntryOK(x, y)'
  <2>1. CASE x = u /\ y = v
    BY <1>1, <2>1 DEF ExchangeInv, EntryOK, Theirs
  <2>2. CASE ~ (x = u /\ y = v)
    <3>1. <<x, y>> # <<u, v>>
      BY <2>2
    <3> QED
      BY <1>1, <3>1 DEF ExchangeInv, EntryOK, Theirs
  <2> QED
    BY <2>1, <2>2
<1> QED
  BY <1>1 DEF ExchangeInv, Genuine

LEMMA StartKeeps ==
  ASSUME ExchangeInv, NEW u \in Users, NEW v \in Users, <<u, v>> \in Pairs, NEW n \in 1 .. MaxSecrets,
         StartExchange(u, v, n) \/ StartHalf(u, v, n)
  PROVE  ExchangeInv'
<1>1. /\ contact[<<u, v>>] = 0 /\ contact' = [contact EXCEPT ![<<u, v>>] = n]
      /\ pub' = pub /\ pub[<<u, v>>] = NoKey
  BY DEF StartExchange, StartHalf, NewEntry, ExchangeInv, EntryOK
<1>2. pub' = [pub EXCEPT ![<<u, v>>] = NoKey]
  BY <1>1 DEF ExchangeInv
<1>3. PICK f \in {NoKey, SecretOf(u, v, n)} : file' = [file EXCEPT ![<<u, v>>] = f]
  <2>1. file[<<u, v>>] = NoKey
    BY <1>1 DEF ExchangeInv, EntryOK
  <2>2. UNCHANGED file => file' = [file EXCEPT ![<<u, v>>] = NoKey]
    BY <2>1 DEF ExchangeInv
  <2> QED
    BY <2>2 DEF StartExchange, StartHalf
<1>4. \A p \in keyPackets' : Genuine(p)
  <2>1. Genuine([key |-> [by |-> u, for |-> v, n |-> n], secret |-> SecretOf(u, v, n)])
    BY DEF Genuine
  <2> QED
    BY <2>1, SendKeyAdds DEF StartExchange, StartHalf, ExchangeInv
<1>5. n \in 0 .. MaxSecrets /\ n # 0
  BY ExchangeAssumption
<1> QED
  BY <1>1, <1>2, <1>3, <1>4, <1>5, OneEntry

LEMMA ConfirmKeeps ==
  ASSUME ExchangeInv, NEW u \in Users, NEW v \in Users, <<u, v>> \in Pairs,
         Confirm(u, v) \/ DeleteExchange(u, v)
  PROVE  ExchangeInv'
<1>1. \A p \in keyPackets' : Genuine(p)
  BY DEF Confirm, DeleteExchange, ExchangeInv
<1>2. CASE Confirm(u, v)
  <2>1. /\ contact' = [contact EXCEPT ![<<u, v>>] = contact[<<u, v>>]]
        /\ pub' = [pub EXCEPT ![<<u, v>>] = pub[<<u, v>>]]
        /\ file' = [file EXCEPT ![<<u, v>>] = NoKey]
    BY <1>2 DEF Confirm, ExchangeInv
  <2>2. EntryOK(u, v)
    BY DEF ExchangeInv
  <2> QED
    BY <1>1, <2>1, <2>2, OneEntry DEF EntryOK, Theirs
<1>3. CASE DeleteExchange(u, v)
  <2>1. 0 \in 0 .. MaxSecrets
    BY ExchangeAssumption
  <2> QED
    BY <1>1, <1>3, <2>1, OneEntry DEF DeleteExchange
<1> QED
  BY <1>2, <1>3

LEMMA ResendKeeps ==
  ASSUME ExchangeInv, NEW u \in Users,
         ResendPendingKeys(u) \/ \E v \in Users : <<u, v>> \in Pairs /\ ResendContactKey(u, v)
  PROVE  ExchangeInv'
<1>1. UNCHANGED <<contact, pub, file>>
  BY DEF ResendPendingKeys, ResendContactKey, users
<1>2. \A p \in keyPackets' \ keyPackets :
        \E v \in Users : /\ <<u, v>> \in Pairs /\ file[<<u, v>>] # NoKey
                         /\ p = [key |-> MyKey(u, v), secret |-> file[<<u, v>>]]
  <2>1. CASE ResendPendingKeys(u)
    BY <2>1 DEF ResendPendingKeys, Pending, Contacts
  <2>2. CASE \E v \in Users : <<u, v>> \in Pairs /\ ResendContactKey(u, v)
    BY <2>2, SendKeyAdds DEF ResendContactKey
  <2> QED
    BY <2>1, <2>2
<1>3. ASSUME NEW p \in keyPackets' PROVE Genuine(p)
  <2>1. CASE p \in keyPackets
    BY <2>1 DEF ExchangeInv
  <2>2. CASE p \notin keyPackets
    <3>1. PICK v \in Users : /\ <<u, v>> \in Pairs /\ file[<<u, v>>] # NoKey
                             /\ p = [key |-> MyKey(u, v), secret |-> file[<<u, v>>]]
      BY <1>2, <2>2
    <3> QED
      BY <3>1, OwnKeyGenuine
  <2> QED
    BY <2>1, <2>2
<1> QED
  BY <1>1, <1>3, OnlyPackets

LEMMA HandleKeyKeeps ==
  ASSUME ExchangeInv, NEW u \in Users, NEW p \in keyPackets, HandleKey(u, p)
  PROVE  ExchangeInv'
<1>1. PICK under \in {keyPackets, keyPackets \ {p}} :
        \/ keyPackets' = under /\ UNCHANGED pub
        \/ \E v \in Matching(u, p) :
             /\ pub' = [pub EXCEPT ![<<u, v>>] = IF @ = NoKey THEN p.key ELSE @]
             /\ SendKey(u, v, MyKey(u, v), p.secret, under)
  BY DEF HandleKey
<1>2. UNCHANGED <<contact, file>>
  BY DEF HandleKey
<1>3. CASE keyPackets' = under /\ UNCHANGED pub
  <2>1. \A x \in keyPackets' : Genuine(x)
    BY <1>3 DEF ExchangeInv
  <2> QED
    BY <1>2, <1>3, <2>1, OnlyPackets
<1>4. ASSUME NEW v \in Matching(u, p),
             pub' = [pub EXCEPT ![<<u, v>>] = IF @ = NoKey THEN p.key ELSE @],
             SendKey(u, v, MyKey(u, v), p.secret, under)
      PROVE  ExchangeInv'
  <2>1. /\ v \in Users /\ <<u, v>> \in Pairs /\ file[<<u, v>>] = p.secret
        /\ file[<<u, v>>] # NoKey /\ p.key = Theirs(u, v)
    BY MatchIsTheirs
  <2>2. \A x \in keyPackets' : Genuine(x)
    <3>1. keyPackets' \subseteq under \cup {[key |-> MyKey(u, v), secret |-> file[<<u, v>>]]}
      BY <1>4, <2>1, SendKeyAdds
    <3> QED
      BY <2>1, <3>1, OwnKeyGenuine DEF ExchangeInv
  <2>3. EntryOK(u, v)
    BY <2>1 DEF ExchangeInv
  <2> DEFINE k == IF pub[<<u, v>>] = NoKey THEN p.key ELSE pub[<<u, v>>]
  <2>4. /\ contact' = [contact EXCEPT ![<<u, v>>] = contact[<<u, v>>]]
        /\ file' = [file EXCEPT ![<<u, v>>] = file[<<u, v>>]]
        /\ pub' = [pub EXCEPT ![<<u, v>>] = k]
    BY <1>2, <1>4, <2>1 DEF ExchangeInv
  <2>5. /\ k \in {NoKey, [by |-> v, for |-> u, n |-> contact[<<u, v>>]]}
        /\ contact[<<u, v>>] # 0
    BY <2>1, <2>3 DEF EntryOK, Theirs
  <2> HIDE DEF k
  <2> QED
    BY <2>1, <2>2, <2>3, <2>4, <2>5, OneEntry DEF EntryOK
<1> QED
  BY <1>1, <1>3, <1>4

LEMMA ExchangeNextKeeps == ExchangeInv /\ [ExchangeNext]_exchanges => ExchangeInv'
<1> SUFFICES ASSUME ExchangeInv, [ExchangeNext]_exchanges PROVE ExchangeInv'
  OBVIOUS
<1>1. ASSUME UNCHANGED <<contact, pub, file>>, keyPackets' \subseteq keyPackets
      PROVE  ExchangeInv'
  BY <1>1, OnlyPackets DEF ExchangeInv
<1>2. CASE UNCHANGED exchanges
  BY <1>1, <1>2 DEF exchanges
<1>3. ASSUME NEW q \in Pairs, PairStep(q[1], q[2])
      PROVE  ExchangeInv'
  <2>1. q = <<q[1], q[2]>> /\ q[1] \in Users /\ q[2] \in Users
    BY ExchangeAssumption
  <2>2. CASE TimeToResendKey(q[1], q[2])
    BY <1>1, <2>2 DEF TimeToResendKey, users
  <2> QED
    BY <1>3, <2>1, <2>2, ResendKeeps, ConfirmKeeps, StartKeeps DEF PairStep
<1>4. ASSUME NEW u \in Users, MinutePasses(u) \/ ResendPendingKeys(u)
      PROVE  ExchangeInv'
  BY <1>1, <1>4, ResendKeeps DEF MinutePasses, users
<1>5. ASSUME NEW p \in keyPackets, LoseKey(p) \/ \E u \in Users : HandleKey(u, p)
      PROVE  ExchangeInv'
  BY <1>1, <1>5, HandleKeyKeeps DEF LoseKey, users
<1> QED
  BY <1>2, <1>3, <1>4, <1>5 DEF ExchangeNext

-----------------------------------------------------------------------------
\* Whatever is lost, repeated, late or sent back to its sender, and wherever a program
\* stops, two entries that began with the same secret hold no key but each other's
\* (handle_key, received_matching_key).
THEOREM KeysAlwaysMatch == ExchangeSpec => []KeysMatch
  BY InitExchangeInv, ExchangeNextKeeps, InvMatches, PTL DEF ExchangeSpec

-----------------------------------------------------------------------------
(***************************************************************************)
(* The stream of a call.                                                   *)
(***************************************************************************)
\* The positions that the first n bytes of a packet that begins at p lead to.
Positions(f, p, n) == f = [i \in 0 .. n |-> IF i = 0 THEN p ELSE Used(f[i - 1]) + 1]

LEMMA UsedType == ASSUME NEW p \in Nat PROVE Used(p) + 1 \in Nat
BY DEF Used

LEMMA PositionsExist ==
  ASSUME NEW p \in Nat, NEW n \in Nat
  PROVE  \E f \in [0 .. n -> Nat] : Positions(f, p, n)
<1> DEFINE D == {k \in Nat : \E f \in [0 .. k -> Nat] : Positions(f, p, k)}
<1>1. 0 \in D
  <2> DEFINE f == [i \in 0 .. 0 |-> p]
  <2>1. Positions(f, p, 0) /\ f \in [0 .. 0 -> Nat]
    BY DEF Positions
  <2> QED BY <2>1
<1>2. ASSUME NEW k \in D PROVE k + 1 \in D
  <2>1. k \in Nat /\ \E f \in [0 .. k -> Nat] : Positions(f, p, k)
    OBVIOUS
  <2>2. PICK f \in [0 .. k -> Nat] : Positions(f, p, k)
    BY <2>1
  <2> HIDE DEF D
  <2> DEFINE Step(h, i) == IF i = 0 THEN p ELSE Used(h[i - 1]) + 1
             g == [i \in 0 .. k + 1 |-> Step(f, i)]
             h == [i \in 0 .. k + 1 |-> Step(g, i)]
  <2>3. f = [i \in 0 .. k |-> Step(f, i)]
    BY <2>2, Zenon DEF Positions
  <2>4. \A i \in 0 .. k + 1 : Step(f, i) \in Nat
    <3> TAKE i \in 0 .. k + 1
    <3>1. CASE i # 0
      <4>1. f[i - 1] \in Nat
        BY <2>1, <3>1
      <4> QED BY <3>1, <4>1, UsedType
    <3> QED BY <3>1
  <2> HIDE DEF Step
  <2>5. g \in [0 .. k + 1 -> Nat]
    BY <2>4
  <2>6. \A i \in 0 .. k : g[i] = f[i]
    <3>1. \A i \in 0 .. k : f[i] = Step(f, i)
      BY <2>3
    <3>2. \A i \in 0 .. k : i \in 0 .. k + 1
      BY <2>1
    <3> QED BY <3>1, <3>2
  <2>7. \A i \in 0 .. k + 1 : Step(g, i) = Step(f, i)
    <3> TAKE i \in 0 .. k + 1
    <3>1. CASE i = 0
      BY <3>1 DEF Step
    <3>2. CASE i # 0
      <4>1. i - 1 \in 0 .. k
        BY <2>1, <3>2
      <4>2. g[i - 1] = f[i - 1]
        BY <2>6, <4>1
      <4> HIDE DEF g
      <4> QED BY <3>2, <4>2 DEF Step
    <3> QED BY <3>1, <3>2
  <2>8. g = h
    BY <2>7
  <2>9. Positions(g, p, k + 1)
    <3> HIDE DEF g
    <3> QED BY <2>8, Zenon DEF Positions, Step, h
  <2> HIDE DEF g
  <2>10. \E u \in [0 .. k + 1 -> Nat] : Positions(u, p, k + 1)
    BY <2>5, <2>9
  <2>11. k + 1 \in Nat
    BY <2>1
  <2> QED BY <2>10, <2>11, Zenon DEF D
<1> HIDE DEF D
<1>3. D = Nat
  BY <1>1, <1>2, Induction DEF D
<1> QED BY <1>3 DEF D

LEMMA AdvanceType ==
  ASSUME NEW p \in Nat, NEW size \in Nat PROVE Advance(p, size) \in Nat
<1> DEFINE f == CHOOSE f : Positions(f, p, size)
<1>1. PICK g \in [0 .. size -> Nat] : Positions(g, p, size)
  BY PositionsExist
<1>2. Positions(f, p, size)
  BY <1>1
<1>3. Advance(p, size) = f[size]
  BY Zenon DEF Advance, Positions
<1> HIDE DEF f
<1> DEFINE D == {i \in Nat : i <= size => f[i] \in Nat}
           Step(i) == IF i = 0 THEN p ELSE Used(f[i - 1]) + 1
<1>4. f = [i \in 0 .. size |-> Step(i)]
  BY <1>2, Zenon DEF Positions
<1> HIDE DEF Step
<1>5. \A i \in 0 .. size : f[i] = Step(i)
  BY <1>4
<1>6. 0 \in D
  BY <1>5 DEF Step
<1>7. ASSUME NEW i \in D PROVE i + 1 \in D
  <2>1. i \in Nat /\ (i <= size => f[i] \in Nat)
    OBVIOUS
  <2> HIDE DEF D
  <2>2. ASSUME i + 1 <= size PROVE f[i + 1] \in Nat
    <3>1. f[i] \in Nat /\ i + 1 \in 0 .. size /\ i + 1 # 0 /\ (i + 1) - 1 = i
      BY <2>1, <2>2
    <3> QED BY <1>5, <3>1, UsedType DEF Step
  <2> QED BY <2>1, <2>2 DEF D
<1> HIDE DEF D
<1>8. D = Nat
  BY <1>6, <1>7, Induction DEF D
<1> QED BY <1>3, <1>8 DEF D

\* Packets of a stream tell where they begin, up to whole rounds; what was
\* decrypted well leaves the listener where the caller was.
Heard(m) ==
  /\ m.call \in Nat
  /\ m.kind \in {"audio", "end"} =>
       /\ m.at \in Nat /\ m.size \in Nat
       /\ m.low = m.at % Wrap /\ m.end = Advance(m.at, m.size)
Phase == {"over", "asking", "unasked", "accepted"}
Callers == [call : Nat, phase : Phase, tries : Nat, pos : Nat, sent : Nat]
Callees == [run : Nat, on : BOOLEAN, stream : Nat, pos : Nat, at : Nat,
            end : Nat, used : Nat]
VoiceInv ==
  /\ caller \in Callers
  /\ callee \in Callees
  /\ \A m \in air : Heard(m)
  /\ Right(callee) => callee.pos = callee.end

LEMMA Rounds ==
  ASSUME NEW x \in Nat
  PROVE  x = (x \div Wrap) * Wrap + (x % Wrap) /\ x % Wrap \in Nat /\ x \div Wrap \in Nat
<1>1. Wrap \in Nat /\ Wrap > 0
  BY VoiceAssumption
<1>2. x % Wrap \in Nat
  BY <1>1
<1>3. x \div Wrap \in Nat
  BY <1>1
<1> DEFINE q == x \div Wrap
           low == x % Wrap
<1>4. q = x \div Wrap /\ low = x % Wrap /\ q \in Int /\ low \in Int
  BY <1>2, <1>3
<1> HIDE DEF q, low
<1>5. x = Wrap * q + low
  BY <1>1, <1>4, SMTT(20)
<1>6. x = q * Wrap + low
  BY <1>1, <1>4, <1>5
<1>7. x = (x \div Wrap) * Wrap + (x % Wrap)
  BY <1>6, Zenon DEF q, low
<1> QED BY <1>2, <1>3, <1>7

LEMMA FrameHeard ==
  ASSUME VoiceInv, NEW kind, NEW size \in Nat PROVE Heard(Frame(kind, size))
BY DEF VoiceInv, Heard, Frame, Callers

LEMMA DecryptedInStep ==
  ASSUME VoiceInv, NEW m \in air, m.kind \in {"audio", "end"}
  PROVE  LET c == Decrypted(m) IN
         /\ c \in Callees
         /\ Right(c) => c.pos = c.end
         /\ Right(callee) /\ m.at \div Wrap = callee.end \div Wrap => Right(c)
<1> DEFINE from == Rebuilt(callee.pos, m.low)
           next == Advance(from, m.size)
<1>1. /\ m.at \in Nat /\ m.size \in Nat /\ m.low = m.at % Wrap
      /\ m.end = Advance(m.at, m.size) /\ m.low \in Nat
      /\ callee.pos \in Nat /\ callee.end \in Nat
  BY Rounds DEF VoiceInv, Heard, Callees
<1>2. from \in Nat
  <2>1. callee.pos \div Wrap \in Nat /\ Wrap \in Nat
    BY <1>1, Rounds, VoiceAssumption
  <2> QED BY <1>1, <2>1 DEF Rebuilt
<1>3. next \in Nat /\ m.end \in Nat
  BY <1>1, <1>2, AdvanceType
<1>4. ASSUME Right(callee), m.at \div Wrap = callee.end \div Wrap PROVE from = m.at
  <2>1. callee.pos = callee.end
    BY <1>4 DEF VoiceInv
  <2>2. from = (m.at \div Wrap) * Wrap + (m.at % Wrap)
    <3>1. from = (callee.pos \div Wrap) * Wrap + m.low
      BY DEF Rebuilt
    <3>2. callee.pos \div Wrap = m.at \div Wrap /\ m.low = m.at % Wrap
      BY <1>1, <1>4, <2>1, Zenon
    <3> HIDE DEF from
    <3> QED BY <3>1, <3>2, Zenon
  <2> QED BY <1>1, <2>2, Rounds
<1>5. Decrypted(m) = [callee EXCEPT !.pos = next, !.used = from, !.at = m.at, !.end = m.end]
  BY DEF Decrypted
<1> HIDE DEF from, next
<1>6. from = m.at => next = m.end
  BY <1>1 DEF next
<1> QED BY <1>1, <1>2, <1>3, <1>4, <1>5, <1>6 DEF VoiceInv, Right, Callees

LEMMA VoiceStep == VoiceInv /\ [VoiceNext]_voice => VoiceInv'
<1> SUFFICES ASSUME VoiceInv, [VoiceNext]_voice PROVE VoiceInv'
  OBVIOUS
<1>0. Start \in Nat /\ FrameSizes \subseteq Nat /\ EndSize \in Nat
  BY VoiceAssumption DEF Start
<1>1. ASSUME NEW m, Send(m), Heard(m) PROVE \A k \in air' : Heard(k)
  BY <1>1 DEF Send, VoiceInv
<1>2. \A m : air' = air \ {m} \/ air' = air => \A k \in air' : Heard(k)
  BY DEF VoiceInv
<1>3. ASSUME NEW nowait \in BOOLEAN, Call(nowait) PROVE VoiceInv'
  <2>1. Heard(Syn(caller.call + 1, 1)) /\ Send(Syn(caller.call + 1, 1))
    BY <1>3 DEF VoiceInv, Heard, Syn, Call, Callers
  <2>2. \A k \in air' : Heard(k)
    BY <1>1, <2>1
  <2>3. caller' \in Callers
    BY <1>0, <1>3 DEF VoiceInv, Call, Callers, Phase
  <2> QED BY <1>3, <2>2, <2>3 DEF VoiceInv, Call, Right
<1>4. CASE NoAnswer
  <2>1. Heard(Syn(caller.call, caller.tries + 1))
    BY DEF VoiceInv, Heard, Syn, Callers
  <2>2. \A k \in air' : Heard(k)
    BY <1>1, <1>2, <1>4, <2>1 DEF NoAnswer
  <2>3. caller' \in Callers
    BY <1>4 DEF VoiceInv, NoAnswer, Callers, Phase
  <2> QED BY <1>4, <2>2, <2>3 DEF VoiceInv, NoAnswer, Right
<1>5. ASSUME NEW size \in FrameSizes \cup {EndSize}, NEW kind,
             Send(Frame(kind, size)), UNCHANGED callee,
             \E phase \in Phase :
               caller' = [caller EXCEPT !.pos = Advance(@, size), !.sent = @ + 1,
                                        !.phase = phase]
      PROVE  VoiceInv'
  <2>1. \A k \in air' : Heard(k)
    BY <1>0, <1>1, <1>5, FrameHeard
  <2>2. Advance(caller.pos, size) \in Nat
    BY <1>0, <1>5, AdvanceType DEF VoiceInv, Callers
  <2>3. PICK phase \in Phase :
          caller' = [caller EXCEPT !.pos = Advance(@, size), !.sent = @ + 1, !.phase = phase]
    BY <1>5
  <2> DEFINE next == Advance(caller.pos, size)
  <2>4. caller' = [caller EXCEPT !.pos = next, !.sent = @ + 1, !.phase = phase]
    BY <2>3
  <2>5. next \in Nat /\ caller \in Callers
    BY <2>2 DEF VoiceInv
  <2> HIDE DEF next
  <2> DEFINE moved == [caller EXCEPT !.pos = next]
             counted == [moved EXCEPT !.sent = @ + 1]
  <2>6. moved \in Callers
    BY <2>5 DEF Callers
  <2>7. counted \in Callers
    <3> HIDE DEF moved
    <3> QED BY <2>6 DEF Callers
  <2>8. caller' = [counted EXCEPT !.phase = phase]
    BY <2>4, <2>5, Zenon DEF Callers
  <2> HIDE DEF counted
  <2>9. caller' \in Callers
    BY <2>7, <2>8 DEF Callers
  <2> QED BY <1>5, <2>1, <2>9 DEF VoiceInv, Right
<1>6. ASSUME NEW size \in FrameSizes, SendFrame(size) PROVE VoiceInv'
  <2>1. caller' = [caller EXCEPT !.pos = Advance(@, size), !.sent = @ + 1,
                                 !.phase = caller.phase]
    BY <1>6 DEF SendFrame, VoiceInv, Callers
  <2> QED BY <1>5, <1>6, <2>1 DEF SendFrame, VoiceInv, Callers
<1>7. CASE SendEnd
  BY <1>5, <1>7 DEF SendEnd, Phase
<1>8. ASSUME NEW run \in Nat, NEW on \in BOOLEAN, NEW stream \in Nat,
             callee' = [NewRun(run, on) EXCEPT !.stream = stream],
             UNCHANGED caller, \A k \in air' : Heard(k)
      PROVE  VoiceInv'
  BY <1>0, <1>8 DEF VoiceInv, NewRun, Right, Callees
<1>9. CASE Listen \/ Quit
  <2>1. \A k \in air' : Heard(k)
    BY <1>9 DEF Listen, Quit, VoiceInv
  <2>2. \A run, on : NewRun(run, on) = [NewRun(run, on) EXCEPT !.stream = 0]
    BY DEF NewRun
  <2>3. callee.run \in Nat /\ callee.run + 1 \in Nat
    BY DEF VoiceInv, Callees
  <2> QED BY <1>8, <1>9, <2>1, <2>2, <2>3 DEF Listen, Quit
<1>10. ASSUME NEW m \in air, ReceiveSyn(m) PROVE VoiceInv'
  <2>1. Heard(m) /\ Heard(Ack(m.call, callee.run)) /\ m.call \in Nat
    BY DEF VoiceInv, Heard, Ack, Callees
  <2>2. \A k \in air' : Heard(k)
    BY <1>10, <2>1 DEF ReceiveSyn, VoiceInv
  <2> QED BY <1>8, <1>10, <2>1, <2>2 DEF ReceiveSyn, VoiceInv, Callees
<1>11. ASSUME NEW m \in air, ReceiveAck(m) PROVE VoiceInv'
  <2>1. caller' \in Callers
    BY <1>11 DEF ReceiveAck, VoiceInv, Callers, Phase
  <2> QED BY <1>2, <1>11, <2>1 DEF ReceiveAck, VoiceInv, Right
<1>12. ASSUME NEW m \in air, ReceiveFrame(m) PROVE VoiceInv'
  <2> DEFINE c == Decrypted(m)
  <2>1. /\ c \in Callees
        /\ Right(c) => c.pos = c.end
    BY <1>12, DecryptedInStep DEF ReceiveFrame
  <2>2. \E on \in BOOLEAN : callee' = [c EXCEPT !.on = on]
    BY <1>12 DEF ReceiveFrame
  <2> HIDE DEF c
  <2>3. /\ callee' \in Callees
        /\ Right(callee') => callee'.pos = callee'.end
    BY <2>1, <2>2 DEF Right, Callees
  <2>4. UNCHANGED caller /\ \A k \in air' : Heard(k)
    BY <1>2, <1>12 DEF ReceiveFrame
  <2> QED BY <2>3, <2>4 DEF VoiceInv, Right
<1>13. ASSUME NEW m \in air, Drop(m) PROVE VoiceInv'
  BY <1>2, <1>13 DEF Drop, VoiceInv, Right
<1>14. CASE UNCHANGED voice
  BY <1>14 DEF voice, VoiceInv, Right
<1> QED
  BY <1>3, <1>4, <1>6, <1>7, <1>9, <1>10, <1>11, <1>12, <1>13, <1>14 DEF VoiceNext

(* (allnet_stream_decrypt_buffer) For any sizes of blocks, counters and       *)
(* frames, and whatever is lost, repeated or reordered: a listener that is in  *)
(* step decrypts what begins in the round of the counter in which the last     *)
(* frame ended.                                                                *)
THEOREM ListenerStaysInStep == VoiceSpec => StaysInStep
<1>1. VoiceInit => VoiceInv
  <2>1. Start \in Nat
    BY VoiceAssumption DEF Start
  <2> QED BY <2>1 DEF VoiceInit, VoiceInv, NewRun, Right, Callers, Callees, Phase
<1>2. VoiceInv /\ [VoiceNext]_voice
        => [\A m \in air :
              (ReceiveFrame(m) /\ Right(callee) /\ m.at \div Wrap = callee.end \div Wrap)
                => Right(callee')]_voice
  <2> SUFFICES ASSUME VoiceInv, NEW m \in air, ReceiveFrame(m), Right(callee),
                      m.at \div Wrap = callee.end \div Wrap
               PROVE  Right(callee')
    OBVIOUS
  <2> DEFINE c == Decrypted(m)
  <2>1. Right(c) /\ c \in Callees
    BY DecryptedInStep DEF ReceiveFrame
  <2>2. \E on \in BOOLEAN : callee' = [c EXCEPT !.on = on]
    BY DEF ReceiveFrame
  <2> HIDE DEF c
  <2> QED BY <2>1, <2>2 DEF Right, Callees
<1> QED BY <1>1, <1>2, VoiceStep, PTL DEF VoiceSpec, StaysInStep

-----------------------------------------------------------------------------
(***************************************************************************)
(* The cache of texts.                                                     *)
(***************************************************************************)
Handlings == {Idle} \cup [at : {"adding", "releasing"}, data : Data]

\* What a thread handles is allocated, in no entry, and no other thread's; one
\* thread at most is releasing, and then the cache is full.
ThreadsApart ==
  /\ \A t \in Threads : handling[t] # Idle =>
       /\ memory[handling[t].data] # NoText /\ handling[t].data \notin Elements(entries)
       /\ \A u \in Threads : u # t => handling[u].data # handling[t].data
  /\ \A t \in Threads : handling[t].at = "releasing" <=> busy = {t}
  /\ busy # {} => Len(entries) = Capacity /\ \E t \in Threads : busy = {t}

CachesInv ==
  /\ entries \in Seq(Data) /\ Distinct(entries) /\ Len(entries) <= Capacity
  /\ uses = entries
  /\ memory \in [Data -> Texts \cup {NoText}]
  /\ handling \in [Threads -> Handlings]
  /\ \A d \in Elements(entries) : memory[d] # NoText
  /\ ThreadsApart

LEMMA RangeIsElements ==
  ASSUME NEW S, NEW s \in Seq(S) PROVE Range(s) = Elements(s)
BY DEF Range, Elements

\* To put data in front keeps an order without repetitions.
LEMMA InFrontKeeps ==
  ASSUME NEW s \in Seq(Data), Distinct(s), NEW d \in Data
  PROVE  /\ InFront(s, d) \in Seq(Data) /\ Distinct(InFront(s, d))
         /\ Elements(InFront(s, d)) = Elements(s) \cup {d}
         /\ d \in Elements(s) => Len(InFront(s, d)) <= Len(s)
         /\ Len(InFront(s, d)) <= Len(s) + 1
<1> DEFINE w == Without(s, d)
<1>1. w \in Seq(Data) /\ Left(w, s, Data \ {d})
  BY OnlyLeft, Zenon DEF Without
<1>2. Elements(s) \subseteq Data
  BY DEF Elements
<1> HIDE DEF w
<1>3. /\ <<d>> \o w \in Seq(Data) /\ Len(<<d>> \o w) = Len(w) + 1
      /\ Elements(<<d>> \o w) = Elements(w) \cup {d}
      /\ Distinct(w) /\ d \notin Elements(w) => Distinct(<<d>> \o w)
  BY <1>1, InFrontFacts
<1>4. Elements(w) = Elements(s) \ {d} /\ Distinct(w)
  BY <1>1, <1>2 DEF Left
<1>5. Len(w) \in Nat /\ Len(s) \in Nat /\ Len(w) <= Len(s)
  BY <1>1 DEF Left
<1>6. d \in Elements(s) => Len(w) < Len(s)
  BY <1>1 DEF Left
<1>7. InFront(s, d) = <<d>> \o w
  BY DEF InFront, w
<1>8. InFront(s, d) \in Seq(Data) /\ Distinct(InFront(s, d))
  BY <1>3, <1>4, <1>7
<1>9. Elements(InFront(s, d)) = Elements(s) \cup {d}
  BY <1>3, <1>4, <1>7
<1>10. Len(InFront(s, d)) = Len(w) + 1
  BY <1>3, <1>7
<1> QED BY <1>5, <1>6, <1>8, <1>9, <1>10

\* What was used last but one, but one, ... is what remains when the last entry
\* is released and new data takes its place.
LEMMA ReleaseKeeps ==
  ASSUME NEW s \in Seq(Data), Distinct(s), Len(s) > 0, NEW d \in Data, d \notin Elements(s)
  PROVE  LET new == InFront(Front(s), d) IN
         /\ new = Without(<<d>> \o Without(s, d), Last(s))
         /\ new \in Seq(Data) /\ Distinct(new) /\ Len(new) = Len(s)
         /\ Elements(new) = (Elements(s) \ {Last(s)}) \cup {d}
         /\ Last(s) \in Elements(s)
<1> DEFINE n == Len(s)
           f == [i \in 1 .. n - 1 |-> s[i]]
           x == s[n]
<1>1. n \in Nat /\ n > 0 /\ x \in Data
  OBVIOUS
<1>2. f \in Seq(Data) /\ Len(f) = n - 1
  <2>1. \A i \in 1 .. n - 1 : s[i] \in Data
    BY <1>1
  <2> QED BY <1>1, <2>1, IsASeq
<1>3. s = Append(f, x)
  <2>1. /\ Append(f, x) \in Seq(Data) /\ Len(Append(f, x)) = n
        /\ \A i \in 1 .. n : Append(f, x)[i] = s[i]
    BY <1>1, <1>2
  <2> HIDE DEF f, x
  <2> QED BY <2>1, SeqEqual
<1>4. Front(s) = f /\ Last(s) = x
  <2>1. Len(SubSeq(s, 1, n - 1)) = n - 1 /\ SubSeq(s, 1, n - 1) \in Seq(Data)
        /\ \A i \in 1 .. n - 1 : SubSeq(s, 1, n - 1)[i] = s[i]
    <3> DEFINE k == n - 1
    <3>1. 1 \in 1 .. k + 1 /\ k \in 0 .. Len(s) /\ k \in Nat
      BY <1>1
    <3> HIDE DEF k
    <3>2. /\ SubSeq(s, 1, k) \in Seq(Data)
          /\ Len(SubSeq(s, 1, k)) = IF 1 <= k THEN k - 1 + 1 ELSE 0
          /\ \A i \in 1 .. k - 1 + 1 : SubSeq(s, 1, k)[i] = s[1 + i - 1]
      BY <3>1, SubSeqProperties
    <3>3. \A i \in 1 .. k : SubSeq(s, 1, k)[i] = s[i]
      BY <3>1, <3>2
    <3>4. Len(SubSeq(s, 1, k)) = k
      BY <3>1, <3>2
    <3> QED BY <3>2, <3>3, <3>4 DEF k
  <2>2. SubSeq(s, 1, n - 1) = f
    BY <1>2, <2>1, SeqEqual
  <2> QED BY <2>2 DEF Front, Last
<1> HIDE DEF f, x
<1>5. Elements(s) = Elements(f) \cup {x} /\ Distinct(f) /\ x \notin Elements(f)
  <2>1. /\ Elements(Append(f, x)) = Elements(f) \cup {x}
        /\ Distinct(Append(f, x)) <=> Distinct(f) /\ x \notin Elements(f)
    BY <1>1, <1>2, ElementsAppend
  <2> QED BY <1>3, <2>1
<1>6. d \notin Elements(f) /\ d # x
  BY <1>5
<1>7. Only(f, Data \ {d}) = f /\ Only(s, Data \ {d}) = s
  <2>1. \A i \in 1 .. Len(f) : f[i] \in Data \ {d}
    BY <1>2, <1>6 DEF Elements
  <2>2. \A i \in 1 .. Len(s) : s[i] \in Data \ {d}
    BY DEF Elements
  <2> QED BY <1>2, <2>1, <2>2, OnlyAll
<1> DEFINE g == <<d>> \o f
<1>8. /\ g \in Seq(Data) /\ Len(g) = n /\ Elements(g) = Elements(f) \cup {d} /\ Distinct(g)
  BY <1>1, <1>2, <1>5, <1>6, InFrontFacts
<1>9. <<d>> \o s = Append(g, x)
  BY <1>1, <1>2, <1>3
<1> HIDE DEF g
<1>10. Only(<<d>> \o s, Data \ {x}) = g
  <2>1. Only(Append(g, x), Data \ {x}) = Only(g, Data \ {x})
    BY <1>1, <1>8, OnlyAppend
  <2>2. \A i \in 1 .. Len(g) : g[i] \in Data \ {x}
    <3>1. \A i \in 1 .. Len(g) : g[i] \in Elements(g) /\ g[i] \in Data
      BY <1>8 DEF Elements
    <3> QED BY <1>5, <1>6, <1>8, <3>1
  <2> QED BY <1>8, <1>9, <2>1, <2>2, OnlyAll
<1>11. InFront(Front(s), d) = g
  BY <1>4, <1>7 DEF InFront, Without, g
<1>12. Without(<<d>> \o Without(s, d), Last(s)) = g
  BY <1>4, <1>7, <1>10 DEF Without
<1> QED BY <1>4, <1>5, <1>8, <1>11, <1>12

LEMMA CachesStep == CachesInv /\ [CachesNext]_caches => CachesInv'
<1> SUFFICES ASSUME CachesInv, [CachesNext]_caches PROVE CachesInv'
  OBVIOUS
<1>0. /\ NoData \notin Data /\ Idle.data = NoData /\ Idle.at = "idle" /\ Idle \in Handlings
      /\ NoText \notin Texts
      /\ Capacity \in Nat \ {0}
  BY CachesAssumption DEF NoData, Idle, Handlings
<1>a. \A h \in Handlings : h # Idle <=> h.data \in Data
  BY <1>0 DEF Handlings
<1>d. /\ entries \in Seq(Data) /\ Distinct(entries) /\ Len(entries) <= Capacity
      /\ uses = entries /\ handling \in [Threads -> Handlings]
  BY Zenon DEF CachesInv
<1>e. Len(entries) \in Nat
  BY <1>d
<1>b. Elements(entries) \subseteq Data /\ \A t \in Threads : handling[t] \in Handlings
  BY <1>d DEF Elements
<1>c. ASSUME NEW t \in Threads, handling' = [handling EXCEPT ![t] = Idle],
             UNCHANGED <<entries, memory, busy, uses>>, handling[t].at # "releasing"
      PROVE  CachesInv'
  <2>1. /\ \A u \in Threads : handling'[u] = IF u = t THEN Idle ELSE handling[u]
        /\ handling' \in [Threads -> Handlings]
    BY <1>0, <1>c, <1>d
  <2>2. \A u \in Threads : handling'[u].at = "releasing" <=> busy' = {u}
    BY <1>0, <1>c, <2>1 DEF CachesInv, ThreadsApart
  <2>3. ASSUME NEW u \in Threads, handling'[u] # Idle
        PROVE  /\ memory'[handling'[u].data] # NoText /\ handling'[u].data \notin Elements(entries')
               /\ \A v \in Threads : v # u => handling'[v].data # handling'[u].data
    <3>1. u # t /\ handling'[u] = handling[u] /\ handling[u] # Idle /\ handling[u].data \in Data
      BY <1>a, <1>b, <2>1, <2>3
    <3>2. /\ memory[handling[u].data] # NoText /\ handling[u].data \notin Elements(entries)
          /\ \A v \in Threads : v # u => handling[v].data # handling[u].data
      BY <3>1 DEF CachesInv, ThreadsApart
    <3>3. \A v \in Threads : v # u => handling'[v].data # handling'[u].data
      BY <1>0, <2>1, <3>1, <3>2
    <3> QED BY <1>c, <3>1, <3>2, <3>3
  <2>4. busy' # {} => Len(entries') = Capacity /\ \E u \in Threads : busy' = {u}
    BY <1>c DEF CachesInv, ThreadsApart
  <2>5. ThreadsApart'
    BY <2>2, <2>3, <2>4 DEF ThreadsApart
  <2> QED BY <1>c, <2>1, <2>5 DEF CachesInv
<1>1. ASSUME NEW t \in Threads, NEW text \in Texts, LooksUp(t, text) PROVE CachesInv'
  <2>1. CASE UNCHANGED <<memory, handling>>
    BY <1>1, <2>1 DEF LooksUp, CachesInv, ThreadsApart
  <2>2. CASE ~ UNCHANGED <<memory, handling>>
    <3> DEFINE new(d) == [at |-> "adding", data |-> d]
    <3>1. PICK d \in Data : /\ memory[d] = NoText
                            /\ memory' = [memory EXCEPT ![d] = text]
                            /\ handling' = [handling EXCEPT ![t] = new(d)]
      BY <1>1, <2>2, Zenon DEF LooksUp
    <3>2. new(d) \in Handlings /\ new(d) # Idle /\ new(d).data = d /\ new(d).at = "adding"
      BY <1>0 DEF Handlings, Idle
    <3> HIDE DEF new
    <3>3. handling[t] = Idle /\ UNCHANGED <<entries, busy, uses>>
      BY <1>1 DEF LooksUp
    <3>4. /\ \A u \in Threads : handling'[u] = IF u = t THEN new(d) ELSE handling[u]
          /\ handling' \in [Threads -> Handlings]
      BY <3>1, <3>2 DEF CachesInv
    <3>5. /\ \A x \in Data : memory'[x] = IF x = d THEN text ELSE memory[x]
          /\ memory' \in [Data -> Texts \cup {NoText}] /\ text # NoText
      BY <1>0, <3>1 DEF CachesInv
    <3>6. d \notin Elements(entries) /\ \A u \in Threads : handling[u].data # d
      BY <1>0, <1>a, <1>b, <3>1 DEF CachesInv, ThreadsApart
    <3>7. \A x \in Elements(entries) : memory'[x] # NoText
      BY <1>b, <3>5, <3>6 DEF CachesInv
    <3>8. ThreadsApart'
      <4>1. ASSUME NEW u \in Threads, handling'[u] # Idle
            PROVE  /\ memory'[handling'[u].data] # NoText /\ handling'[u].data \notin Elements(entries')
                   /\ \A v \in Threads : v # u => handling'[v].data # handling'[u].data
        BY <1>a, <1>b, <3>2, <3>3, <3>4, <3>5, <3>6, <4>1 DEF ThreadsApart, CachesInv
      <4>2. \A u \in Threads : handling'[u].at = "releasing" <=> busy' = {u}
        BY <1>0, <3>2, <3>3, <3>4 DEF ThreadsApart, CachesInv
      <4> QED BY <3>3, <4>1, <4>2 DEF ThreadsApart, CachesInv
    <3> QED BY <3>3, <3>4, <3>5, <3>7, <3>8 DEF CachesInv
  <2> QED BY <2>1, <2>2
<1>2. ASSUME NEW t \in Threads, AddsNothing(t) PROVE CachesInv'
  <2>1. handling[t].at # "releasing"
    BY <1>2 DEF AddsNothing
  <2> QED BY <1>2, <1>c, <2>1 DEF AddsNothing
<1>3. ASSUME NEW t \in Threads, Adds(t) PROVE CachesInv'
  <2> DEFINE d == handling[t].data
  <2>1. d \in Data /\ handling[t] # Idle /\ busy = {} /\ handling[t].at = "adding"
    BY <1>0, <1>3, <1>a, <1>b DEF Adds, Unlocked
  <2>2. /\ d \notin Elements(entries) /\ memory[d] # NoText
        /\ \A u \in Threads : u # t => handling[u].data # d
    BY <2>1 DEF CachesInv, ThreadsApart
  <2>3. CASE Len(entries) < Capacity
    <3>1. /\ entries' = InFront(entries, d) /\ uses' = InFront(entries, d)
          /\ handling' = [handling EXCEPT ![t] = Idle]
          /\ UNCHANGED <<busy, memory>>
      BY <1>3, <2>3 DEF Adds, ToFront, InFront, CachesInv
    <3> HIDE DEF d
    <3>2. /\ entries' \in Seq(Data) /\ Distinct(entries')
          /\ Elements(entries') = Elements(entries) \cup {d}
          /\ Len(entries') <= Len(entries) + 1
      BY <2>1, <3>1, InFrontKeeps DEF CachesInv
    <3>3. Len(entries') <= Capacity
      BY <1>0, <2>3, <3>2 DEF CachesInv
    <3>4. /\ \A u \in Threads : handling'[u] = IF u = t THEN Idle ELSE handling[u]
          /\ handling' \in [Threads -> Handlings]
      BY <1>0, <3>1 DEF CachesInv
    <3>5. ThreadsApart'
      <4>1. \A u \in Threads : handling'[u].at = "releasing" <=> busy' = {u}
        BY <1>0, <2>1, <3>1, <3>4 DEF ThreadsApart, CachesInv
      <4>2. ASSUME NEW u \in Threads, handling'[u] # Idle
            PROVE  /\ memory'[handling'[u].data] # NoText /\ handling'[u].data \notin Elements(entries')
                   /\ \A v \in Threads : v # u => handling'[v].data # handling'[u].data
        <5>1. u # t /\ handling'[u] = handling[u] /\ handling[u] # Idle /\ handling[u].data \in Data
          BY <1>a, <1>b, <3>4, <4>2
        <5>2. /\ memory[handling[u].data] # NoText /\ handling[u].data \notin Elements(entries)
              /\ \A v \in Threads : v # u => handling[v].data # handling[u].data
          BY <5>1 DEF CachesInv, ThreadsApart
        <5>3. \A v \in Threads : v # u => handling'[v].data # handling'[u].data
          BY <1>0, <3>4, <5>1, <5>2
        <5> QED BY <2>2, <3>1, <3>2, <5>1, <5>2, <5>3
      <4> QED BY <2>1, <3>1, <4>1, <4>2 DEF ThreadsApart
    <3> QED BY <2>2, <3>1, <3>2, <3>3, <3>4, <3>5 DEF CachesInv
  <2>4. CASE ~ Len(entries) < Capacity
    <3> DEFINE new == [handling[t] EXCEPT !.at = "releasing"]
    <3>1. /\ busy' = {t} /\ handling' = [handling EXCEPT ![t] = new]
          /\ UNCHANGED <<entries, uses, memory>>
      BY <1>3, <2>4 DEF Adds
    <3>2. new \in Handlings /\ new.data = d /\ new.at = "releasing" /\ new # Idle
      BY <1>0, <1>b, <2>1 DEF Handlings
    <3> HIDE DEF new, d
    <3>3. /\ \A u \in Threads : handling'[u] = IF u = t THEN new ELSE handling[u]
          /\ handling' \in [Threads -> Handlings]
      BY <3>1, <3>2 DEF CachesInv
    <3>4. Len(entries) = Capacity
      BY <1>0, <2>4 DEF CachesInv
    <3>5. \A u \in Threads : handling'[u].at = "releasing" <=> busy' = {u}
      BY <2>1, <3>1, <3>2, <3>3 DEF CachesInv, ThreadsApart
    <3>6. ASSUME NEW u \in Threads, handling'[u] # Idle
          PROVE  /\ memory[handling'[u].data] # NoText /\ handling'[u].data \notin Elements(entries)
                 /\ \A v \in Threads : v # u => handling'[v].data # handling'[u].data
      BY <2>2, <3>2, <3>3, <3>6 DEF CachesInv, ThreadsApart
    <3>7. ThreadsApart'
      BY <3>1, <3>4, <3>5, <3>6 DEF ThreadsApart
    <3> QED BY <3>1, <3>3, <3>7 DEF CachesInv
  <2> QED BY <2>3, <2>4
<1>4. ASSUME NEW t \in Threads, Releases(t) PROVE CachesInv'
  <2> DEFINE d == handling[t].data
             old == Last(entries)
  <2>1. /\ d \in Data /\ handling[t] # Idle /\ busy = {t} /\ Len(entries) = Capacity
        /\ handling[t].at = "releasing"
    BY <1>0, <1>4, <1>a, <1>b DEF Releases, CachesInv, ThreadsApart
  <2>2. /\ d \notin Elements(entries) /\ memory[d] # NoText
        /\ \A u \in Threads : u # t => handling[u].data # d
    BY <2>1 DEF CachesInv, ThreadsApart
  <2>3. /\ memory' = [memory EXCEPT ![old] = NoText] /\ busy' = {}
        /\ entries' = InFront(Front(entries), d)
        /\ uses' = Without(<<d>> \o Without(entries, d), old)
        /\ handling' = [handling EXCEPT ![t] = Idle]
    BY <1>4 DEF Releases, ToFront, CachesInv
  <2> HIDE DEF d, old
  <2>4. Len(entries) > 0
    BY <1>0, <2>1
  <2>5. /\ uses' = entries' /\ entries' \in Seq(Data) /\ Distinct(entries')
        /\ Len(entries') = Len(entries)
        /\ Elements(entries') = (Elements(entries) \ {old}) \cup {d}
        /\ old \in Elements(entries)
    BY <2>1, <2>2, <2>3, <2>4, ReleaseKeeps DEF CachesInv, old
  <2>6. /\ \A u \in Threads : handling'[u] = IF u = t THEN Idle ELSE handling[u]
        /\ handling' \in [Threads -> Handlings]
    BY <1>0, <2>3 DEF CachesInv
  <2>7. /\ \A x \in Data : memory'[x] = IF x = old THEN NoText ELSE memory[x]
        /\ memory' \in [Data -> Texts \cup {NoText}]
    BY <2>3 DEF CachesInv
  <2>8. \A x \in Elements(entries') : memory'[x] # NoText
    BY <1>b, <2>1, <2>2, <2>5, <2>7 DEF CachesInv
  <2>9. \A u \in Threads : handling'[u].at = "releasing" <=> busy' = {u}
    BY <1>0, <2>1, <2>3, <2>6 DEF CachesInv, ThreadsApart
  <2>10. ASSUME NEW u \in Threads, handling'[u] # Idle
         PROVE  /\ memory'[handling'[u].data] # NoText /\ handling'[u].data \notin Elements(entries')
                /\ \A v \in Threads : v # u => handling'[v].data # handling'[u].data
    <3>1. u # t /\ handling'[u] = handling[u] /\ handling[u] # Idle /\ handling[u].data \in Data
      BY <1>a, <1>b, <2>6, <2>10
    <3>2. /\ memory[handling[u].data] # NoText /\ handling[u].data \notin Elements(entries)
          /\ handling[u].data # d
          /\ \A v \in Threads : v # u => handling[v].data # handling[u].data
      BY <2>2, <3>1 DEF CachesInv, ThreadsApart
    <3>3. memory'[handling[u].data] # NoText /\ handling[u].data \notin Elements(entries')
      BY <2>5, <2>7, <3>1, <3>2
    <3>4. \A v \in Threads : v # u => handling'[v].data # handling'[u].data
      BY <1>0, <2>6, <3>1, <3>2
    <3> QED BY <3>1, <3>3, <3>4
  <2>11. ThreadsApart'
    BY <2>3, <2>9, <2>10 DEF ThreadsApart
  <2> QED BY <2>1, <2>5, <2>6, <2>7, <2>8, <2>11 DEF CachesInv
<1>5. ASSUME NEW d \in Data, RecordsUsage(d) PROVE CachesInv'
  <2>1. /\ busy = {} /\ d \in Elements(entries)
        /\ entries' = InFront(entries, d) /\ uses' = InFront(entries, d)
        /\ UNCHANGED <<busy, memory, handling>>
    <3>1. d \in Range(entries)
      BY <1>5 DEF RecordsUsage
    <3>2. d \in Elements(entries)
      BY <1>d, <3>1, RangeIsElements
    <3> QED BY <1>5, <1>d, <3>2 DEF RecordsUsage, Unlocked, ToFront, InFront
  <2>2. /\ entries' \in Seq(Data) /\ Distinct(entries')
        /\ Elements(entries') = Elements(entries)
        /\ Len(entries') <= Len(entries)
    <3>1. /\ InFront(entries, d) \in Seq(Data) /\ Distinct(InFront(entries, d))
          /\ Elements(InFront(entries, d)) = Elements(entries) \cup {d}
          /\ d \in Elements(entries) => Len(InFront(entries, d)) <= Len(entries)
          /\ Len(InFront(entries, d)) <= Len(entries) + 1
      BY <1>5, <1>d, InFrontKeeps, Zenon
    <3>2. Elements(entries) \cup {d} = Elements(entries)
      BY <2>1
    <3> QED BY <2>1, <3>1, <3>2
  <2>3. Len(entries') <= Capacity
    BY <1>0, <1>d, <2>2
  <2> QED BY <2>1, <2>2, <2>3 DEF CachesInv, ThreadsApart
<1>6. ASSUME NEW d \in Data, Removes(d) PROVE CachesInv'
  <2>1. /\ busy = {} /\ d \in Elements(entries)
        /\ entries' = Without(entries, d) /\ uses' = Without(entries, d)
        /\ memory' = [memory EXCEPT ![d] = NoText]
        /\ UNCHANGED <<busy, handling>>
    <3>1. d \in Range(entries)
      BY <1>6 DEF Removes
    <3>2. d \in Elements(entries)
      BY <1>d, <3>1, RangeIsElements
    <3> QED BY <1>6, <1>d, <3>2 DEF Removes, Unlocked
  <2>2. entries' \in Seq(Data) /\ Left(entries', entries, Data \ {d})
    BY <2>1, OnlyLeft DEF CachesInv, Without
  <2>3. /\ Elements(entries') = Elements(entries) \ {d} /\ Distinct(entries')
        /\ Len(entries') <= Capacity
    BY <1>0, <1>b, <2>2 DEF Left, CachesInv
  <2>4. /\ \A x \in Data : memory'[x] = IF x = d THEN NoText ELSE memory[x]
        /\ memory' \in [Data -> Texts \cup {NoText}]
    BY <2>1 DEF CachesInv
  <2>5. ThreadsApart'
    BY <1>a, <1>b, <2>1, <2>3, <2>4 DEF CachesInv, ThreadsApart
  <2>6. \A x \in Elements(entries') : memory'[x] # NoText
    BY <1>b, <2>3, <2>4 DEF CachesInv
  <2> QED BY <2>1, <2>2, <2>3, <2>4, <2>5, <2>6 DEF CachesInv
<1>7. CASE UNCHANGED caches
  BY <1>7 DEF caches, CachesInv, ThreadsApart
<1> QED BY <1>1, <1>2, <1>3, <1>4, <1>5, <1>6, <1>7 DEF CachesNext

(* (record_usage, release_entry) The cache of texts keeps what was used last, *)
(* for any number of threads, texts and entries: nothing is released that an   *)
(* entry or another thread still has.                                          *)
THEOREM CacheAlwaysInOrder == CachesSpec => []CacheInOrder
<1>1. CachesInit => CachesInv
  <2> SUFFICES ASSUME CachesInit PROVE CachesInv
    OBVIOUS
  <2>1. Elements(entries) = {} /\ Distinct(entries) /\ entries \in Seq(Data) /\ Len(entries) = 0
    BY DEF CachesInit, Elements, Distinct
  <2>2. handling \in [Threads -> Handlings] /\ \A t \in Threads : handling[t] = Idle
    BY DEF CachesInit, Handlings
  <2>3. Idle.at # "releasing"
    BY DEF Idle
  <2> QED BY <2>1, <2>2, <2>3, CachesAssumption DEF CachesInit, CachesInv, ThreadsApart
<1>2. CachesInv => CacheInOrder
  <2> SUFFICES ASSUME CachesInv PROVE CacheInOrder
    OBVIOUS
  <2>1. Range(entries) = Elements(entries)
    BY RangeIsElements DEF CachesInv
  <2>2. ASSUME NEW d \in Elements(entries), NEW t \in Threads PROVE handling[t].data # d
    <3>1. d \in Data /\ NoData \notin Data
      BY CachesAssumption DEF Elements, CachesInv, NoData
    <3>2. CASE handling[t] = Idle
      BY <3>1, <3>2 DEF Idle
    <3>3. CASE handling[t] # Idle
      BY <3>3 DEF CachesInv, ThreadsApart
    <3> QED BY <3>2, <3>3
  <2>3. \A d \in Elements(entries) : memory[d] # NoText
    BY DEF CachesInv
  <2>4. entries = uses /\ Len(entries) <= Capacity
    BY DEF CachesInv
  <2> QED BY <2>1, <2>2, <2>3, <2>4, Zenon DEF CacheInOrder
<1> QED BY <1>1, <1>2, CachesStep, PTL DEF CachesSpec
=============================================================================

---------------------------- MODULE PCacheProofs ----------------------------
(***************************************************************************)
(* Proofs about the packet cache, for every size of its tables.            *)
(***************************************************************************)
EXTENDS PCacheProps, FiniteSetTheorems, SubsequenceProofs

(***************************************************************************)
(* What the helpers return.                                                *)
(***************************************************************************)

(* Compacting an entry gives exactly the messages that stay a position.      *)
LEMMA CompactedKeeps ==
  ASSUME TypeOK, NEW K \in SUBSET Id
  PROVE  /\ Compacted(K) \in [Id -> Nat]
         /\ \A m \in Id : Compacted(K)[m] > 0 <=> m \in K
<1> DEFINE Before(m) == {k \in K : EntryOf[k] = EntryOf[m] /\ pos[k] <= pos[m]}
<1>1. \A m \in Id : IsFiniteSet(Before(m)) /\ Cardinality(Before(m)) \in Nat
  BY FS_Subset, FS_CardinalityType, TableAssumption
<1>2. ASSUME NEW m \in K PROVE Cardinality(Before(m)) > 0
  <2>1. m \in Before(m)
    BY DEF TypeOK
  <2>2. Cardinality(Before(m)) # 0
    BY <2>1, <1>1, FS_EmptySet
  <2> QED BY <2>2, <1>1
<1>3. Compacted(K) = [m \in Id |-> IF m \in K THEN Cardinality(Before(m)) ELSE 0]
  BY DEF Compacted
<1> HIDE DEF Before
<1> QED BY <1>1, <1>2, <1>3

(* The collection only ever keeps messages that were there.                  *)
LEMMA GcKeptSubset ==
  ASSUME NEW new PROVE GcKept(new) \subseteq Cached
BY DEF GcKept, Kept, InEntry, Cached

(* The list of tokens after a collection: a suffix with room for one more.   *)
LEMMA GcTokensFacts ==
  ASSUME tokens \in Seq(Token), Len(tokens) <= MaxTokens, TokensDistinct
  PROVE  /\ TokenShift \in 0 .. Len(tokens)
         /\ GcTokens \in Seq(Token)
         /\ Len(GcTokens) = Len(tokens) - TokenShift
         /\ Len(GcTokens) < MaxTokens
         /\ \A i \in 1 .. Len(GcTokens) : GcTokens[i] = tokens[i + TokenShift]
         /\ \A i, j \in 1 .. Len(GcTokens) : GcTokens[i] = GcTokens[j] => i = j
<1>1. /\ MaxTokens \in Nat \ {0} /\ Len(tokens) \in Nat
      /\ (3 * MaxTokens) \div 4 \in Nat /\ (3 * MaxTokens) \div 4 < MaxTokens
  BY TokenAssumption
<1>2. TokenShift \in 0 .. Len(tokens) /\ Len(tokens) - TokenShift < MaxTokens
  BY <1>1 DEF TokenShift
<1>3. /\ GcTokens \in Seq(Token)
      /\ Len(GcTokens) = Len(tokens) - TokenShift
      /\ \A i \in 1 .. Len(GcTokens) : GcTokens[i] = tokens[i + TokenShift]
  <2> DEFINE m == TokenShift + 1  n == Len(tokens)
  <2>1. m \in 1 .. n + 1 /\ n \in 0 .. Len(tokens)
    BY <1>1, <1>2
  <2> HIDE DEF m, n
  <2>2. /\ SubSeq(tokens, m, n) \in Seq(Token)
        /\ Len(SubSeq(tokens, m, n)) = IF m <= n THEN n - m + 1 ELSE 0
        /\ \A i \in 1 .. n - m + 1 : SubSeq(tokens, m, n)[i] = tokens[m + i - 1]
    BY <2>1, SubSeqProperties, <1>1
  <2> QED BY <2>1, <2>2, <1>1, <1>2 DEF GcTokens, m, n
<1>4. \A i, j \in 1 .. Len(GcTokens) : GcTokens[i] = GcTokens[j] => i = j
  BY <1>1, <1>2, <1>3 DEF TokensDistinct
<1> QED BY <1>2, <1>3, <1>4

(* A shifted bitmap names tokens of the shifted list.                        *)
LEMMA ShiftedFits ==
  ASSUME tokens \in Seq(Token), Len(tokens) <= MaxTokens, TokensDistinct,
         NEW bits \in SUBSET (1 .. Len(tokens))
  PROVE  Shifted(bits) \subseteq 1 .. Len(GcTokens)
<1>1. TokenShift \in Nat /\ Len(tokens) \in Nat
      /\ Len(GcTokens) = Len(tokens) - TokenShift
  BY GcTokensFacts
<1> QED BY <1>1 DEF Shifted

(* Aging keeps a filter generation within range.                             *)
LEMMA AgedType ==
  ASSUME NEW n \in Life, NEW by \in Nat PROVE Aged(n, by) \in Life
BY FilterAssumption DEF Aged, Life

(* The effect of a lookup on the filters is well typed.                      *)
LEMMA LookType ==
  ASSUME NEW msg \in [Id -> Life], NEW ack \in [Id -> Life], Look(msg, ack)
  PROVE  msgLife' \in [Id -> Life] /\ ackLife' \in [Id -> Life]
<1>1. \A i \in Id : Aged(msg[i], 1) \in Life /\ Aged(ack[i], 1) \in Life
  BY AgedType
<1> QED BY <1>1 DEF Look

LEMMA RefreshedType ==
  ASSUME NEW life \in [Id -> Life], NEW i \in Id
  PROVE  Refreshed(life, i) \in [Id -> Life] /\ Remembered(life, i) \in [Id -> Life]
BY FilterAssumption DEF Refreshed, Remembered, Life

(* do_gc leaves everything it touches besides the tables well typed.         *)
LEMMA DoGcType ==
  ASSUME TypeOK, NEW new, NEW A, DoGc(new, A)
  PROVE  /\ zeroReturned' = {}
         /\ localToken' \in OwnTokens
         /\ msgLife' \in [Id -> Life]
         /\ ackLife' \in [Id -> Life]
<1> DEFINE gone == acked \ A
           dropped == GcRecorded(new) \cup gone
<1>1. PICK extra \in 0 .. MaxOverflow : \E early \in [dropped -> 0 .. extra] :
          /\ msgLife' = GcLife(msgLife, dropped, extra, early)
          /\ ackLife' = GcLife(ackLife, gone, extra, early)
  BY DEF DoGc
<1>2. PICK early \in [dropped -> 0 .. extra] :
          /\ msgLife' = GcLife(msgLife, dropped, extra, early)
          /\ ackLife' = GcLife(ackLife, gone, extra, early)
  BY <1>1
<1>3. extra \in Nat /\ \A i \in dropped : early[i] \in Nat
  BY FilterAssumption
<1>4. NumFilters \in Life /\ msgLife \in [Id -> Life] /\ ackLife \in [Id -> Life]
  BY FilterAssumption DEF TypeOK, Life
<1> HIDE DEF dropped
<1>5. ASSUME NEW S \in SUBSET dropped, NEW life \in [Id -> Life]
      PROVE  GcLife(life, S, extra, early) \in [Id -> Life]
  <2>1. \A i \in Id : Aged(life[i], 1 + extra) \in Life
    BY <1>3, AgedType
  <2>2. \A i \in S : Aged(NumFilters, 1 + early[i]) \in Life
    BY <1>3, <1>4, AgedType
  <2> QED BY <2>1, <2>2 DEF GcLife
<1>6. gone \in SUBSET dropped
  BY DEF dropped
<1> QED BY <1>2, <1>4, <1>5, <1>6 DEF DoGc, ForceSearch, ReinitLocalToken

(***************************************************************************)
(* CacheInv is inductive.                                                  *)
(***************************************************************************)
LEMMA InitCacheInv == Init => CacheInv
<1> SUFFICES ASSUME Init PROVE CacheInv
  OBVIOUS
<1>1. MaxTokens \in Nat /\ 0 \in Life
  BY TokenAssumption, FilterAssumption DEF Life
<1>2. TypeOK
  <2>1. \A S : <<>> \in Seq(S)
    BY EmptySeq
  <2> QED BY <1>1, <2>1 DEF Init, TypeOK
<1>3. Cached = {}
  BY DEF Init, Cached
<1> QED BY <1>1, <1>2, <1>3 DEF CacheInv, Init, BitsNameTokens, TokensDistinct,
           OneCall, AbsentUnsent, AckSupersedes

(* Actions that only look at the filters.                                    *)
LEMMA LookOnlyInv ==
  ASSUME CacheInv, NEW m \in Id, SeenBefore(m) \/ RecordPacket(m)
  PROVE  CacheInv'
<1>1. TypeOK BY DEF CacheInv
<1>2. msgLife' \in [Id -> Life] /\ ackLife' \in [Id -> Life]
  BY <1>1, LookType, RefreshedType DEF SeenBefore, RecordPacket, TypeOK
<1>3. UNCHANGED <<cacheVars, expired, ackVars, tokens, zeroReturned, localToken,
                  recentGc, callVars>>
  BY DEF SeenBefore, RecordPacket
<1>4. TypeOK'
  BY <1>1, <1>2, <1>3 DEF TypeOK, cacheVars, ackVars, callVars
<1> QED BY <1>3, <1>4 DEF CacheInv, BitsNameTokens, TokensDistinct, OneCall,
           AbsentUnsent, AckSupersedes, Cached, cacheVars, ackVars, callVars

\* CacheInv in two parts: the tables, and the calls under way with the clock.
TableInv ==
  /\ pos \in [Id -> Nat] /\ prio \in [Id -> Nat]
  /\ msgSent \in [Id -> SUBSET (1 .. Len(tokens))]
  /\ ackSent \in [Id -> SUBSET (1 .. Len(tokens))]
  /\ acked \subseteq Id
  /\ tokens \in Seq(Token) /\ Len(tokens) <= MaxTokens
  /\ zeroReturned \subseteq 1 .. Len(tokens)
  /\ localToken \in OwnTokens
  /\ msgLife \in [Id -> Life] /\ ackLife \in [Id -> Life]
  /\ recentGc \in BOOLEAN
  /\ TokensDistinct /\ AbsentUnsent /\ AckSupersedes
CallInv ==
  /\ expired \subseteq Id
  /\ toSave \in Seq(Id) /\ toOffer \in Seq(Id) /\ toSend \in Seq(Id)
  /\ callToken \in Token \cup {NoToken}
  /\ OneCall

LEMMA CacheInvParts == CacheInv <=> TableInv /\ CallInv
<1>1. CacheInv => TableInv /\ CallInv
  <2> SUFFICES ASSUME CacheInv PROVE TableInv /\ CallInv
    OBVIOUS
  <2>1. \A a \in Id : ackSent[a] \subseteq 1 .. Len(tokens)
    BY DEF CacheInv, BitsNameTokens, AbsentUnsent
  <2> QED BY <2>1 DEF CacheInv, TypeOK, BitsNameTokens, TableInv, CallInv
<1>2. TableInv /\ CallInv => CacheInv
  <2> SUFFICES ASSUME TableInv, CallInv PROVE CacheInv
    OBVIOUS
  <2>1. 1 .. Len(tokens) \subseteq Bit
    BY TokenAssumption DEF TableInv, Bit
  <2>2. TypeOK
    BY <2>1 DEF TableInv, CallInv, TypeOK
  <2> QED BY <2>2 DEF CacheInv, BitsNameTokens, TableInv, CallInv
<1> QED BY <1>1, <1>2

LEMMA CacheInvParts_prime == CacheInv' <=> TableInv' /\ CallInv'
BY CacheInvParts, PTL

\* What a step leaves alone keeps its part of the invariant.
tableVars == <<cacheVars, ackVars, tokens, zeroReturned, localToken, filterVars,
               recentGc>>

LEMMA TablesUnchanged ==
  ASSUME TableInv, UNCHANGED tableVars PROVE TableInv'
BY DEF TableInv, tableVars, cacheVars, ackVars, filterVars, TokensDistinct,
       AbsentUnsent, AckSupersedes, Cached

\* The tables as a collection leaves them, before anything is stored: messages
\* K and acks A stay, all bitmaps are shifted.
LEMMA ShiftedTables ==
  ASSUME TableInv, NEW K \in SUBSET Id, NEW A \in SUBSET Id,
         NEW ms, NEW as,
         ms = [k \in Id |-> IF k \in K THEN Shifted(msgSent[k]) ELSE {}],
         as = [a \in Id |-> IF a \in A THEN Shifted(ackSent[a]) ELSE {}]
  PROVE  /\ ms \in [Id -> SUBSET (1 .. Len(GcTokens))]
         /\ as \in [Id -> SUBSET (1 .. Len(GcTokens))]
BY ShiftedFits DEF TableInv

\* A token appended to a list it is not in.
LEMMA AppendDistinct ==
  ASSUME NEW list \in Seq(Token), NEW t \in Token,
         \A i, j \in 1 .. Len(list) : list[i] = list[j] => i = j,
         \A i \in 1 .. Len(list) : list[i] # t
  PROVE  /\ Append(list, t) \in Seq(Token)
         /\ Len(Append(list, t)) = Len(list) + 1
         /\ \A i, j \in 1 .. Len(list) + 1 :
              Append(list, t)[i] = Append(list, t)[j] => i = j
<1>1. /\ Append(list, t) \in Seq(Token)
      /\ Len(Append(list, t)) = Len(list) + 1
      /\ \A i \in 1 .. Len(list) : Append(list, t)[i] = list[i]
      /\ Append(list, t)[Len(list) + 1] = t
      /\ Len(list) \in Nat
  BY AppendProperties, LenProperties
<1> QED BY <1>1

LEMMA WithBitType ==
  ASSUME NEW n \in Nat, NEW f \in [Id -> SUBSET (1 .. n)], NEW kept, NEW S,
         NEW i \in 1 .. n + 1
  PROVE  /\ WithBit(f, kept, S, i) \in [Id -> SUBSET (1 .. n + 1)]
         /\ i \in 1 .. n => WithBit(f, kept, S, i) \in [Id -> SUBSET (1 .. n)]
         /\ \A k \in Id \ kept : WithBit(f, kept, S, i)[k] = {}
<1>1. 1 .. n \subseteq 1 .. n + 1
  OBVIOUS
<1> QED BY <1>1 DEF WithBit

(* Finding the token of a call, adding it or collecting garbage for it, and  *)
(* marking what was sent, keeps the tables right.                            *)
LEMMA MarkSentInv ==
  ASSUME CacheInv, callToken \in Token, NEW M, NEW A, MarkSent(M, A)
  PROVE  TableInv'
<1> USE CacheInvParts DEF TableInv
<1>0. TypeOK /\ Len(tokens) \in Nat /\ DOMAIN tokens = 1 .. Len(tokens)
  BY LenProperties DEF CacheInv
<1>1. CASE MarkKnown(M, A)
  <2>1. IndexOf(callToken) \in 1 .. Len(tokens)
    <3>1. \E i \in 1 .. Len(tokens) : tokens[i] = callToken
      BY <1>0, <1>1 DEF MarkKnown, Known, TokensUsed, Range
    <3> QED BY <3>1 DEF IndexOf
  <2>2. /\ msgSent' \in [Id -> SUBSET (1 .. Len(tokens))]
        /\ ackSent' \in [Id -> SUBSET (1 .. Len(tokens))]
        /\ \A k \in Id \ Cached : msgSent'[k] = {}
        /\ \A k \in Id \ acked : ackSent'[k] = {}
    <3>1. IndexOf(callToken) \in 1 .. Len(tokens) + 1
      BY <1>0, <2>1
    <3>2. /\ WithBit(msgSent, Cached, M, IndexOf(callToken))
                \in [Id -> SUBSET (1 .. Len(tokens))]
          /\ \A k \in Id \ Cached :
               WithBit(msgSent, Cached, M, IndexOf(callToken))[k] = {}
      BY <1>0, <2>1, <3>1, WithBitType
    <3>3. /\ WithBit(ackSent, acked, A, IndexOf(callToken))
                \in [Id -> SUBSET (1 .. Len(tokens))]
          /\ \A k \in Id \ acked :
               WithBit(ackSent, acked, A, IndexOf(callToken))[k] = {}
      BY <1>0, <2>1, <3>1, WithBitType
    <3> QED BY <1>1, <3>2, <3>3 DEF MarkKnown
  <2> QED BY <1>1, <2>2 DEF MarkKnown, TokensDistinct, AbsentUnsent,
             AckSupersedes, Cached
<1>2. CASE MarkNew(M, A)
  <2>1. Len(tokens) + 1 <= MaxTokens
    BY <1>0, <1>2, TokenAssumption DEF MarkNew, Full
  <2>2. \A i \in 1 .. Len(tokens) : tokens[i] # callToken
    BY <1>2 DEF MarkNew, Known, TokensUsed, Range
  <2>3. tokens' \in Seq(Token) /\ Len(tokens') = Len(tokens) + 1 /\ TokensDistinct'
    BY <1>2, <2>2, AppendDistinct DEF MarkNew, TokensDistinct
  <2>4. /\ msgSent' \in [Id -> SUBSET (1 .. Len(tokens'))]
        /\ ackSent' \in [Id -> SUBSET (1 .. Len(tokens'))]
        /\ \A k \in Id \ Cached : msgSent'[k] = {}
        /\ \A k \in Id \ acked : ackSent'[k] = {}
    <3>1. Len(tokens) + 1 \in 1 .. Len(tokens) + 1
      BY <1>0
    <3>2. /\ WithBit(msgSent, Cached, M, Len(tokens) + 1)
                \in [Id -> SUBSET (1 .. Len(tokens) + 1)]
          /\ \A k \in Id \ Cached :
               WithBit(msgSent, Cached, M, Len(tokens) + 1)[k] = {}
      BY <1>0, <3>1, WithBitType
    <3>3. /\ WithBit(ackSent, acked, A, Len(tokens) + 1)
                \in [Id -> SUBSET (1 .. Len(tokens) + 1)]
          /\ \A k \in Id \ acked :
               WithBit(ackSent, acked, A, Len(tokens) + 1)[k] = {}
      BY <1>0, <3>1, WithBitType
    <3> QED BY <1>2, <2>3, <3>2, <3>3 DEF MarkNew
  <2>5. zeroReturned' \subseteq 1 .. Len(tokens')
    BY <1>0, <1>2, <2>3 DEF MarkNew
  <2> QED BY <1>2, <2>1, <2>3, <2>4, <2>5 DEF MarkNew, AbsentUnsent,
             AckSupersedes, Cached
<1>3. CASE MarkRefused
  BY <1>3, TablesUnchanged DEF MarkRefused, tableVars
<1>4. CASE MarkGc(M, A)
  <2>1. PICK kept \in GcAckChoices :
          /\ DoGc({}, kept)
          /\ acked' = kept
          /\ ackSent' = WithBit(ShiftAll(ackSent), kept, A, Len(GcTokens) + 1)
    BY <1>4 DEF MarkGc
  <2>2. kept \subseteq acked
    BY DEF GcAckChoices
  <2>3. GcKept({}) \subseteq Cached /\ Cached \subseteq Id
    BY GcKeptSubset DEF Cached
  <2>4. pos' \in [Id -> Nat] /\ Cached' = GcKept({})
    BY <1>0, <1>4, <2>3, CompactedKeeps DEF MarkGc, Cached
  <2>5. prio' \in [Id -> Nat]
    BY <1>4 DEF MarkGc, OnlyFor
  <2>6. /\ GcTokens \in Seq(Token) /\ Len(GcTokens) \in Nat
        /\ Len(GcTokens) < MaxTokens
        /\ \A i, j \in 1 .. Len(GcTokens) : GcTokens[i] = GcTokens[j] => i = j
        /\ \A i \in 1 .. Len(GcTokens) :
             /\ GcTokens[i] = tokens[i + TokenShift]
             /\ i + TokenShift \in 1 .. Len(tokens)
    BY <1>0, GcTokensFacts
  <2>7. \A i \in 1 .. Len(GcTokens) : GcTokens[i] # callToken
    BY <1>4, <2>6 DEF MarkGc, Known, TokensUsed, Range
  <2>8. tokens' \in Seq(Token) /\ Len(tokens') = Len(GcTokens) + 1 /\ TokensDistinct'
    BY <1>4, <2>6, <2>7, AppendDistinct DEF MarkGc, TokensDistinct
  <2>9. ASSUME NEW f \in [Id -> SUBSET (1 .. Len(tokens))]
        PROVE  ShiftAll(f) \in [Id -> SUBSET (1 .. Len(GcTokens))]
    BY ShiftedFits DEF ShiftAll
  <2>10. /\ msgSent' \in [Id -> SUBSET (1 .. Len(tokens'))]
         /\ ackSent' \in [Id -> SUBSET (1 .. Len(tokens'))]
         /\ \A k \in Id \ Cached' : msgSent'[k] = {}
         /\ \A k \in Id \ acked' : ackSent'[k] = {}
    <3>1. msgSent' = WithBit(ShiftAll(msgSent), GcKept({}), M, Len(GcTokens) + 1)
      BY <1>4 DEF MarkGc
    <3>2. Len(GcTokens) + 1 \in 1 .. Len(GcTokens) + 1
      BY <2>6
    <3> QED BY <2>1, <2>4, <2>6, <2>8, <2>9, <3>1, <3>2, WithBitType
  <2>11. /\ zeroReturned' = {} /\ localToken' \in OwnTokens
         /\ msgLife' \in [Id -> Life] /\ ackLife' \in [Id -> Life]
    BY <1>0, <2>1, DoGcType
  <2>12. AckSupersedes'
    BY <2>1, <2>2, <2>3, <2>4 DEF AckSupersedes
  <2>13. AbsentUnsent'
    BY <2>10 DEF AbsentUnsent
  <2>14. Len(tokens') <= MaxTokens /\ recentGc' \in BOOLEAN
    BY <1>4, <2>6, <2>8, TokenAssumption DEF MarkGc
  <2> QED BY <2>1, <2>2, <2>4, <2>5, <2>8, <2>10, <2>11, <2>12, <2>13, <2>14
<1> QED BY <1>1, <1>2, <1>3, <1>4 DEF MarkSent

\* Storing m behind the messages K leaves exactly K and m in the table.
LEMMA AppendKeeps ==
  ASSUME TypeOK, NEW K \in SUBSET Id, NEW m \in Id, NEW p \in Nat, Append_(m, p, K)
  PROVE  pos' \in [Id -> Nat] /\ Cached' = K \cup {m} /\ prio' \in [Id -> Nat]
<1> DEFINE n == Cardinality({k \in K : EntryOf[k] = EntryOf[m]})
<1>1. n \in Nat
  BY TableAssumption, FS_Subset, FS_CardinalityType
<1>2. pos' = [Compacted(K) EXCEPT ![m] = 1 + n]
  BY DEF Append_
<1> HIDE DEF n
<1>3. pos' \in [Id -> Nat] /\ \A k \in Id : pos'[k] > 0 <=> k \in K \cup {m}
  BY <1>1, <1>2, CompactedKeeps
<1>4. Cached' = K \cup {m}
  BY <1>3 DEF Cached
<1>5. prio' \in [Id -> Nat]
  BY DEF Append_, OnlyFor, TypeOK
<1> QED BY <1>3, <1>4, <1>5

(* A message that finds room keeps the tables right.                         *)
LEMMA SavePacketInv ==
  ASSUME CacheInv, NEW m \in Id, NEW p \in Priority, SavePacket(m, p)
  PROVE  TableInv'
<1>0. TypeOK /\ TableInv /\ Cached \in SUBSET Id /\ p \in Nat
  BY CacheInvParts, InputAssumption DEF CacheInv, Cached
<1>3. pos' \in [Id -> Nat] /\ Cached' = Cached \cup {m} /\ prio' \in [Id -> Nat]
  BY <1>0, AppendKeeps DEF SavePacket
<1>5. msgSent' \in [Id -> SUBSET (1 .. Len(tokens))]
      /\ \A k \in Id \ Cached' : msgSent'[k] = {}
  BY <1>0, <1>3 DEF SavePacket, TableInv, AbsentUnsent
<1>6. /\ UNCHANGED <<ackVars, tokens, localToken, filterVars, recentGc>>
      /\ zeroReturned' = {} /\ m \notin acked
  BY DEF SavePacket, ForceSearch, New
<1> QED BY <1>0, <1>3, <1>5, <1>6 DEF TableInv, TokensDistinct,
           AbsentUnsent, AckSupersedes, ackVars, filterVars

(* So does one that costs a collection.                                      *)
LEMMA SavePacketGcInv ==
  ASSUME CacheInv, NEW m \in Id, NEW p \in Priority, SavePacketGc(m, p)
  PROVE  TableInv'
<1> DEFINE K == GcKept({m})
<1>0. /\ TypeOK /\ TableInv /\ p \in Nat
      /\ K \in SUBSET Id /\ K \subseteq Cached
  BY CacheInvParts, InputAssumption, GcKeptSubset DEF CacheInv, Cached
<1>1. PICK A \in GcAckChoices :
        /\ DoGc({m}, A)
        /\ acked' = A
        /\ ackSent' = [a \in Id |-> IF a \in A THEN Shifted(ackSent[a]) ELSE {}]
  BY DEF SavePacketGc
<1>2. A \subseteq acked /\ A \in SUBSET Id
  BY <1>0 DEF GcAckChoices, TableInv
<1>4. pos' \in [Id -> Nat] /\ Cached' = K \cup {m} /\ prio' \in [Id -> Nat]
  BY <1>0, AppendKeeps DEF SavePacketGc
<1>6. /\ tokens' = GcTokens /\ tokens' \in Seq(Token)
      /\ Len(tokens') <= MaxTokens /\ TokensDistinct'
  <2>1. Len(GcTokens) \in Nat /\ MaxTokens \in Nat
    BY <1>0, GcTokensFacts, TokenAssumption DEF TableInv
  <2>2. tokens' = GcTokens
    BY DEF SavePacketGc
  <2> QED BY <1>0, <2>1, <2>2, GcTokensFacts DEF TokensDistinct, TableInv
<1>7. /\ msgSent' \in [Id -> SUBSET (1 .. Len(tokens'))]
      /\ ackSent' \in [Id -> SUBSET (1 .. Len(tokens'))]
      /\ \A k \in Id \ Cached' : msgSent'[k] = {}
      /\ \A k \in Id \ acked' : ackSent'[k] = {}
  <2>1. msgSent' = [k \in Id |-> IF k \in K THEN Shifted(msgSent[k]) ELSE {}]
    BY DEF SavePacketGc
  <2> QED BY <1>0, <1>1, <1>2, <1>4, <1>6, <2>1, ShiftedTables
<1>8. /\ zeroReturned' = {} /\ localToken' \in OwnTokens
      /\ msgLife' \in [Id -> Life] /\ ackLife' \in [Id -> Life]
  BY <1>0, <1>1, DoGcType
<1>9. AckSupersedes'
  BY <1>0, <1>1, <1>2, <1>4 DEF AckSupersedes, TableInv, SavePacketGc, New
<1>10. recentGc' \in BOOLEAN
  BY <1>0 DEF SavePacketGc, TableInv
<1> QED BY <1>1, <1>2, <1>4, <1>6, <1>7, <1>8, <1>9, <1>10
        DEF TableInv, AbsentUnsent

(* An ack that finds a free place takes it, and its message goes.            *)
LEMMA SaveAckInv ==
  ASSUME CacheInv, NEW a \in Id, SaveAck(a)
  PROVE  TableInv'
<1>0. TypeOK /\ TableInv /\ Cached \ {a} \in SUBSET Id
  BY CacheInvParts DEF CacheInv, Cached
<1>1. pos' \in [Id -> Nat] /\ Cached' = Cached \ {a}
  BY <1>0, CompactedKeeps DEF SaveAck, Cached
<1>2. /\ prio' \in [Id -> Nat]
      /\ msgSent' \in [Id -> SUBSET (1 .. Len(tokens))]
      /\ ackSent' \in [Id -> SUBSET (1 .. Len(tokens))]
      /\ acked' = acked \cup {a}
      /\ UNCHANGED <<tokens, zeroReturned, localToken, filterVars, recentGc>>
  BY <1>0 DEF SaveAck, SavingAck, TableInv
<1>3. AbsentUnsent' /\ AckSupersedes'
  BY <1>0, <1>1 DEF SaveAck, TableInv, AbsentUnsent, AckSupersedes
<1> QED BY <1>0, <1>1, <1>2, <1>3 DEF TableInv, TokensDistinct, filterVars

(* So does one whose slot had to be collected.                               *)
LEMMA SaveAckGcInv ==
  ASSUME CacheInv, NEW a \in Id, SaveAckGc(a)
  PROVE  TableInv'
<1> DEFINE K == GcKept({}) \ {a}
<1>0. TypeOK /\ TableInv /\ K \in SUBSET Id /\ K \subseteq Cached
  BY CacheInvParts, GcKeptSubset DEF CacheInv, Cached
<1>1. PICK A \in GcAckChoices :
        /\ DoGc({}, A)
        /\ acked' = A \cup {a}
        /\ ackSent' = [b \in Id |-> IF b \in A THEN Shifted(ackSent[b]) ELSE {}]
  BY DEF SaveAckGc
<1>2. A \subseteq acked /\ A \in SUBSET Id
  BY <1>0 DEF GcAckChoices, TableInv
<1>3. pos' \in [Id -> Nat] /\ Cached' = K
  BY <1>0, CompactedKeeps DEF SaveAckGc, Cached
<1>4. prio' \in [Id -> Nat]
  BY <1>0 DEF SaveAckGc, OnlyFor, TableInv
<1>5. /\ tokens' = GcTokens /\ tokens' \in Seq(Token)
      /\ Len(tokens') <= MaxTokens /\ TokensDistinct'
  <2>1. Len(GcTokens) \in Nat /\ MaxTokens \in Nat
    BY <1>0, GcTokensFacts, TokenAssumption DEF TableInv
  <2>2. tokens' = GcTokens
    BY DEF SaveAckGc
  <2> QED BY <1>0, <2>1, <2>2, GcTokensFacts DEF TokensDistinct, TableInv
<1>6. /\ msgSent' \in [Id -> SUBSET (1 .. Len(tokens'))]
      /\ ackSent' \in [Id -> SUBSET (1 .. Len(tokens'))]
      /\ \A k \in Id \ Cached' : msgSent'[k] = {}
      /\ \A k \in Id \ acked' : ackSent'[k] = {}
  <2>1. msgSent' = [k \in Id |-> IF k \in K THEN Shifted(msgSent[k]) ELSE {}]
    BY DEF SaveAckGc
  <2> QED BY <1>0, <1>1, <1>2, <1>3, <1>5, <2>1, ShiftedTables
<1>7. /\ zeroReturned' = {} /\ localToken' \in OwnTokens
      /\ msgLife' \in [Id -> Life] /\ ackLife' \in [Id -> Life]
  BY <1>0, <1>1, DoGcType
<1>8. AckSupersedes'
  BY <1>0, <1>1, <1>2, <1>3 DEF AckSupersedes, TableInv
<1>9. recentGc' \in BOOLEAN
  BY <1>0 DEF SaveAckGc, SavingAck, TableInv
<1> QED BY <1>1, <1>2, <1>3, <1>4, <1>5, <1>6, <1>7, <1>8, <1>9
        DEF TableInv, AbsentUnsent

(* A lookup on behalf of an ack changes no table.                            *)
LEMMA AckLookInv ==
  ASSUME CacheInv, NEW a \in Id, SkipAck(a) \/ OfferForgotten(a)
  PROVE  TableInv'
<1>1. TableInv /\ msgLife \in [Id -> Life] /\ ackLife \in [Id -> Life]
  BY CacheInvParts DEF TableInv
<1>2. Look(msgLife, Refreshed(ackLife, a))
  BY DEF SkipAck, OfferForgotten
<1>3. msgLife' \in [Id -> Life] /\ ackLife' \in [Id -> Life]
  BY <1>1, <1>2, RefreshedType, LookType
<1>4. UNCHANGED <<cacheVars, ackVars, tokens, zeroReturned, localToken, recentGc>>
  BY DEF SkipAck, SavingAck, OfferForgotten
<1> QED BY <1>1, <1>3, <1>4 DEF TableInv, cacheVars, ackVars, TokensDistinct,
           AbsentUnsent, AckSupersedes, Cached

\* The queues after their first element is taken.
LEMMA TailSeq ==
  ASSUME NEW q \in Seq(Id), q # <<>>
  PROVE  /\ Tail(q) \in Seq(Id)
         /\ Len(q) = 1 => Tail(q) = <<>>
<1>1. Tail(q) \in Seq(Id) /\ Len(Tail(q)) = Len(q) - 1
  BY HeadTailProperties
<1>2. Len(q) = 1 => Len(Tail(q)) = 0
  BY <1>1
<1> QED BY <1>1, <1>2, EmptySeq

(* Saving an ack, and offering one, keep the calls in order.                 *)
LEMMA SavingAckCalls ==
  ASSUME CallInv, NEW a \in Id, SavingAck(a) PROVE CallInv'
BY TailSeq DEF SavingAck, CallInv, OneCall

LEMMA OfferingAckCalls ==
  ASSUME CallInv, NEW a \in Id, OfferingAck(a) PROVE CallInv'
BY TailSeq DEF OfferingAck, CallInv, OneCall

LEMMA SendAndMarkCalls ==
  ASSUME CallInv, NEW m \in Id, SendAndMark(m) PROVE CallInv'
BY TailSeq DEF SendAndMark, CallInv, OneCall

(* An answer is a sequence of ids.                                           *)
LEMMA AnswersType ==
  ASSUME NEW t, NEW want \in Requests, NEW s \in Answers(t, want)
  PROVE  s \in Seq(Id)
<1>1. Matching(t, want) \in SUBSET Id /\ IsFiniteSet(Matching(t, want))
  BY TableAssumption, FS_Subset DEF Matching, Cached
<1>2. PICK n \in Nat : s \in [1 .. n -> Matching(t, want)]
  BY <1>1, FS_CardinalityType, InputAssumption DEF Answers, MaxFor
<1> QED BY <1>1, <1>2, SeqDef

(* Every step of the daemon keeps the invariant.                             *)
LEMMA NextCacheInv == CacheInv /\ [Next]_vars => CacheInv'
<1> SUFFICES ASSUME CacheInv, [Next]_vars PROVE TableInv' /\ CallInv'
  BY CacheInvParts_prime
<1>0. TableInv /\ CallInv
  BY CacheInvParts
<1>1. CASE UNCHANGED vars
  <2>1. TableInv'
    BY <1>0, <1>1, TablesUnchanged DEF vars, tableVars
  <2> QED BY <1>0, <1>1, <2>1 DEF vars, callVars, CallInv, OneCall
<1>2. ASSUME NEW m \in Id, Arrival(m) PROVE TableInv' /\ CallInv'
  <2>1. UNCHANGED <<expired, callVars>>
    BY <1>2 DEF Arrival, SeenBefore, RecordPacket, SavePacket, SavePacketGc
  <2>2. CallInv'
    BY <1>0, <2>1 DEF CallInv, OneCall, callVars
  <2>3. CASE SeenBefore(m) \/ RecordPacket(m)
    BY <2>3, <2>2, LookOnlyInv, CacheInvParts_prime
  <2>4. CASE \E p \in Priority : SavePacket(m, p) \/ SavePacketGc(m, p)
    BY <2>4, <2>2, SavePacketInv, SavePacketGcInv
  <2> QED BY <1>2, <2>3, <2>4 DEF Arrival
<1>3. ASSUME NEW a \in Id, AckStep(a) PROVE TableInv' /\ CallInv'
  <2>1. CASE SkipAck(a)
    BY <1>0, <2>1, AckLookInv, SavingAckCalls DEF SkipAck
  <2>2. CASE SaveAck(a)
    BY <1>0, <2>2, SaveAckInv, SavingAckCalls DEF SaveAck
  <2>3. CASE SaveAckGc(a)
    BY <1>0, <2>3, SaveAckGcInv, SavingAckCalls DEF SaveAckGc
  <2>4. CASE OfferForgotten(a)
    BY <1>0, <2>4, AckLookInv, OfferingAckCalls DEF OfferForgotten
  <2>5. ASSUME OfferingAck(a), NEW A, MarkSent({}, A) PROVE TableInv' /\ CallInv'
    <3>1. callToken \in Token
      BY <1>0, <2>5 DEF OfferingAck, CallInv, OneCall
    <3> QED BY <1>0, <2>5, <3>1, MarkSentInv, OfferingAckCalls
  <2>6. CASE OfferAck(a)
    BY <2>5, <2>6 DEF OfferAck
  <2> QED BY <1>3, <2>1, <2>2, <2>3, <2>4, <2>6 DEF AckStep
<1>4. ASSUME NEW m \in Id, SendAndMark(m) PROVE TableInv' /\ CallInv'
  <2>1. callToken \in Token
    BY <1>0, <1>4 DEF SendAndMark, CallInv, OneCall
  <2> QED BY <1>0, <1>4, <2>1, MarkSentInv, SendAndMarkCalls DEF SendAndMark
<1>5. ASSUME NEW m \in Id, Expire(m) PROVE TableInv' /\ CallInv'
  <2>1. TableInv'
    BY <1>0, <1>5, TablesUnchanged DEF Expire, tableVars
  <2> QED BY <1>0, <1>5, <2>1 DEF Expire, callVars, CallInv, OneCall
<1>6. ASSUME NEW packet \in AckPackets, ReceiveAcks(packet)
      PROVE  TableInv' /\ CallInv'
  <2>1. TableInv'
    BY <1>0, <1>6, TablesUnchanged DEF ReceiveAcks, tableVars
  <2>2. packet \in Seq(Id) /\ localToken \in Token /\ localToken # NoToken
    BY <1>0, AckAssumption, TokenAssumption DEF TableInv, Token
  <2> QED BY <1>0, <1>6, <2>1, <2>2 DEF ReceiveAcks, Idle, CallInv, OneCall
<1>7. ASSUME NEW t \in Clients, NEW want \in Requests, Request(t, want)
      PROVE  TableInv' /\ CallInv'
  <2>1. CASE RequestNothing(t, want)
    <3>1. IndexOf(t) \in 1 .. Len(tokens)
      <4>1. DOMAIN tokens = 1 .. Len(tokens)
        BY <1>0, LenProperties DEF TableInv
      <4>2. \E i \in 1 .. Len(tokens) : tokens[i] = t
        BY <2>1, <4>1 DEF RequestNothing, Known, TokensUsed, Range
      <4> QED BY <4>2 DEF IndexOf
    <3> QED BY <1>0, <2>1, <3>1 DEF RequestNothing, TableInv, CallInv, cacheVars,
               ackVars, filterVars, callVars, TokensDistinct, AbsentUnsent,
               AckSupersedes, Cached, OneCall
  <2>2. CASE RequestData(t, want)
    <3>1. TableInv'
      BY <1>0, <2>2, TablesUnchanged DEF RequestData, tableVars
    <3>2. toSend' \in Seq(Id)
      BY <2>2, AnswersType DEF RequestData
    <3>3. t \in Token /\ t # NoToken
      BY TokenAssumption DEF Token
    <3> QED BY <1>0, <2>2, <3>1, <3>2, <3>3 DEF RequestData, Idle, CallInv, OneCall
  <2> QED BY <1>7, <2>1, <2>2 DEF Request
<1>8. ASSUME MinutePasses PROVE TableInv' /\ CallInv'
  BY <1>0, <1>8 DEF MinutePasses, TableInv, CallInv, cacheVars, ackVars,
     filterVars, callVars, TokensDistinct, AbsentUnsent, AckSupersedes, Cached,
     OneCall
<1> QED BY <1>1, <1>2, <1>3, <1>4, <1>5, <1>6, <1>7, <1>8 DEF Next

(***************************************************************************)
(* The theorems.                                                           *)
(***************************************************************************)

(* The tables, bitmaps, token list and calls under way are always as         *)
(* CacheInv says, for every size of the tables and every run of the daemon.  *)
THEOREM CacheInvariant == Spec => []CacheInv
BY InitCacheInv, NextCacheInv, PTL DEF Spec

(* Every variable of the cache keeps its type.                               *)
THEOREM TypeCorrect == Spec => []TypeOK
BY CacheInvariant, PTL DEF CacheInv

(* No bitmap and no memory of an empty answer ever names a token that is not *)
(* in the list, however tokens are added, dropped and shifted.               *)
THEOREM BitsAlwaysNameTokens == Spec => []BitsNameTokens
BY CacheInvariant, PTL DEF CacheInv

(* A token never has two positions in the list.                              *)
THEOREM TokensAlwaysDistinct == Spec => []TokensDistinct
BY CacheInvariant, PTL DEF CacheInv

(* A message is never cached while its ack is stored.                        *)
THEOREM AckAlwaysSupersedes == Spec => []AckSupersedes
BY CacheInvariant, PTL DEF CacheInv

-----------------------------------------------------------------------------
(***************************************************************************)
(* The tables fit.                                                         *)
(***************************************************************************)
\* The bytes that messages take.
Bytes(S) == {b \in S \X (1 .. Storage) : b[2] <= Footprint(b[1])}

LEMMA BytesFinite ==
  ASSUME NEW S \in SUBSET Id
  PROVE  IsFiniteSet(Bytes(S)) /\ Space(S) \in Nat /\ Space(S) = Cardinality(Bytes(S))
<1>1. IsFiniteSet(S) /\ IsFiniteSet(1 .. Storage)
  BY FS_Subset, FS_Interval, TableAssumption
<1>2. IsFiniteSet(S \X (1 .. Storage))
  BY <1>1, FS_Product
<1>3. IsFiniteSet(Bytes(S))
  BY <1>2, FS_Subset DEF Bytes
<1> QED BY <1>3, FS_CardinalityType DEF Space, Bytes

(* Fewer messages take less space.                                            *)
LEMMA SpaceGrows ==
  ASSUME NEW T \in SUBSET Id, NEW S \in SUBSET T
  PROVE  Space(S) <= Space(T) /\ Space(S) \in Nat /\ Space(T) \in Nat
<1>1. Bytes(S) \in SUBSET Bytes(T)
  BY DEF Bytes
<1> QED BY <1>1, BytesFinite, FS_Subset

(* One more message takes its footprint.                                      *)
LEMMA SpaceOfOne ==
  ASSUME NEW m \in Id PROVE Space({m}) = Footprint(m) /\ Footprint(m) \in Nat
<1>1. Footprint(m) \in Nat /\ Footprint(m) <= Storage /\ Storage \in Nat
  BY TableAssumption DEF Footprint
<1> DEFINE n == Footprint(m)
           f == [i \in 1 .. n |-> <<m, i>>]
<1>2. f \in Bijection(1 .. n, Bytes({m}))
  <2>1. \A i \in 1 .. n : f[i] \in Bytes({m})
    BY <1>1 DEF Bytes
  <2>2. \A b \in Bytes({m}) : \E i \in 1 .. n : f[i] = b
    BY <1>1 DEF Bytes
  <2>3. \A i, j \in 1 .. n : f[i] = f[j] => i = j
    OBVIOUS
  <2> DEFINE B == Bytes({m})
  <2>4. \A i \in 1 .. n : <<m, i>> \in B
    BY <2>1
  <2> HIDE DEF n, B
  <2>5. f \in [1 .. n -> B]
    BY <2>4
  <2> HIDE DEF f
  <2>6. f \in Injection(1 .. n, B)
    BY <2>3, <2>5 DEF Injection, IsInjective
  <2>7. f \in Surjection(1 .. n, B)
    BY <2>2, <2>5 DEF Surjection, B
  <2> QED BY <2>6, <2>7 DEF Bijection, B
<1>3. IsFiniteSet(1 .. n) /\ Cardinality(1 .. n) = n
  BY <1>1, FS_Interval
<1>4. Cardinality(Bytes({m})) = n
  BY <1>2, <1>3, FS_Bijection DEF ExistsBijection
<1> QED BY <1>1, <1>4, BytesFinite

LEMMA SpacePlus ==
  ASSUME NEW S \in SUBSET Id, NEW m \in Id
  PROVE  Space(S \cup {m}) <= Space(S) + Footprint(m)
<1>1. Bytes(S \cup {m}) = Bytes(S) \cup Bytes({m})
  BY DEF Bytes
<1>2. /\ IsFiniteSet(Bytes(S)) /\ IsFiniteSet(Bytes({m}))
      /\ Space(S) = Cardinality(Bytes(S)) /\ Space(S) \in Nat
      /\ Footprint(m) = Cardinality(Bytes({m})) /\ Footprint(m) \in Nat
      /\ Space(S \cup {m}) = Cardinality(Bytes(S) \cup Bytes({m}))
  BY <1>1, BytesFinite, SpaceOfOne
<1>3. /\ Cardinality(Bytes(S) \cup Bytes({m})) =
           Cardinality(Bytes(S)) + Cardinality(Bytes({m})) - Cardinality(Bytes(S) \cap Bytes({m}))
      /\ Cardinality(Bytes(S) \cap Bytes({m})) \in Nat
  BY <1>2, FS_Union, FS_Intersection, FS_CardinalityType
<1> QED BY <1>2, <1>3

(* Of the messages a collection keeps, one precedes all others, and what it   *)
(* kept that one for is room for all of them.                                 *)
PosDistinct ==
  \A m, k \in Cached : EntryOf[m] = EntryOf[k] /\ pos[m] = pos[k] => m = k

LEMMA KeptFits ==
  ASSUME TypeOK, PosDistinct, NEW e \in Entries, NEW extra \in Nat, Budget(extra) > 0
  PROVE  Space(Kept(e, extra)) <= Budget(extra)
<1> DEFINE K == Kept(e, extra)
           live == InEntry(e) \ expired
<1>1. K \subseteq live /\ live \in SUBSET Cached /\ Cached \in SUBSET Id
  BY DEF Kept, InEntry, Cached
<1>2. \A m \in K : Space({k \in live : k = m \/ DeletedBefore(m, k)}) <= Budget(extra)
  BY DEF Kept
<1>3. \A m, k \in K : pos[m] = pos[k] => m = k
  BY <1>1 DEF PosDistinct, InEntry
<1>4. \A m \in K : pos[m] \in Nat /\ prio[m] \in Nat
  BY <1>1 DEF TypeOK
<1>5. Budget(extra) \in Int
  BY TableAssumption DEF Budget
<1>6. CASE K = {}
  <2>1. Bytes({}) = {}
    BY DEF Bytes
  <2>2. Space({}) = 0
    BY <2>1, BytesFinite, FS_EmptySet
  <2> QED BY <1>5, <1>6, <2>2
<1>7. CASE K # {}
  <2> HIDE DEF K, live
  <2> DEFINE P == {prio[m] : m \in K}
  <2>1. PICK p \in P : \A q \in P : p <= q
    <3>1. P \in SUBSET Nat /\ P # {}
      BY <1>4, <1>7
    <3> HIDE DEF P
    <3> QED BY <3>1, Least
  <2> DEFINE first == {m \in K : prio[m] = p}
             Q == {pos[m] : m \in first}
  <2>2. PICK n \in Q : \A q \in Q : n <= q
    <3>1. Q \in SUBSET Nat /\ Q # {}
      BY <1>4, <2>1
    <3> HIDE DEF Q
    <3> QED BY <3>1, Least
  <2>3. PICK m \in K : prio[m] = p /\ pos[m] = n
    BY <2>2
  <2>4. ASSUME NEW k \in K, k # m PROVE DeletedBefore(m, k)
    <3>1. p <= prio[k] /\ p \in Nat /\ prio[k] \in Nat
      BY <1>4, <2>1, <2>3
    <3>2. CASE prio[k] = p
      <4>1. n <= pos[k] /\ n # pos[k]
        BY <1>3, <2>2, <2>3, <2>4, <3>2
      <4>2. n \in Nat /\ pos[k] \in Nat
        BY <1>4, <2>3
      <4> QED BY <2>3, <3>2, <4>1, <4>2 DEF DeletedBefore
    <3>3. CASE prio[k] # p
      BY <2>3, <3>1, <3>3 DEF DeletedBefore
    <3> QED BY <3>2, <3>3
  <2> DEFINE T == {k \in live : k = m \/ DeletedBefore(m, k)}
  <2>5. K \in SUBSET T /\ T \in SUBSET Id
    BY <1>1, <2>4
  <2>6. Space(T) <= Budget(extra)
    BY <1>2
  <2> HIDE DEF T
  <2>7. Space(K) <= Space(T) /\ Space(K) \in Nat /\ Space(T) \in Nat
    BY <2>5, SpaceGrows
  <2>8. Space(K) <= Budget(extra)
    BY <1>5, <2>6, <2>7
  <2> QED BY <2>8 DEF K
<1> QED BY <1>6, <1>7

(* Positions after an entry is compacted.                                     *)
LEMMA CompactedDistinct ==
  ASSUME TypeOK, PosDistinct, NEW K \in SUBSET Cached
  PROVE  /\ \A m, k \in K : EntryOf[m] = EntryOf[k] /\ Compacted(K)[m] = Compacted(K)[k] => m = k
         /\ \A m \in K : Compacted(K)[m] < 1 + Cardinality({k \in K : EntryOf[k] = EntryOf[m]})
<1> DEFINE Before(m) == {k \in K : EntryOf[k] = EntryOf[m] /\ pos[k] <= pos[m]}
           Same(m) == {k \in K : EntryOf[k] = EntryOf[m]}
<1>1. Cached \in SUBSET Id /\ K \in SUBSET Id /\ \A m \in K : pos[m] \in Nat
  BY DEF Cached, TypeOK
<1>2. \A m \in Id : /\ IsFiniteSet(Before(m)) /\ IsFiniteSet(Same(m))
                    /\ Cardinality(Before(m)) \in Nat /\ Cardinality(Same(m)) \in Nat
  BY <1>1, FS_Subset, FS_CardinalityType, TableAssumption
<1>3. \A m \in K : Compacted(K)[m] = Cardinality(Before(m))
  BY <1>1 DEF Compacted
<1>4. ASSUME NEW m \in K, NEW k \in K, EntryOf[m] = EntryOf[k], pos[m] < pos[k]
      PROVE  Cardinality(Before(m)) < Cardinality(Before(k))
  <2>1. Before(m) \in SUBSET Before(k) /\ k \in Before(k) /\ k \notin Before(m)
    BY <1>1, <1>4
  <2> HIDE DEF Before
  <2>2. /\ m \in Id /\ k \in Id /\ IsFiniteSet(Before(k))
        /\ Cardinality(Before(m)) \in Nat /\ Cardinality(Before(k)) \in Nat
    BY <1>1, <1>2
  <2>3. /\ Cardinality(Before(m)) <= Cardinality(Before(k))
        /\ Cardinality(Before(k)) = Cardinality(Before(m)) => Before(k) = Before(m)
    BY <2>1, <2>2, FS_Subset
  <2>4. Before(k) # Before(m)
    BY <2>1
  <2> QED BY <2>2, <2>3, <2>4
<1>5. ASSUME NEW m \in K, NEW k \in K, EntryOf[m] = EntryOf[k],
             Compacted(K)[m] = Compacted(K)[k]
      PROVE  m = k
  <2>0. Cardinality(Before(m)) = Cardinality(Before(k)) /\ Cardinality(Before(m)) \in Nat
    BY <1>1, <1>2, <1>3, <1>5
  <2> HIDE DEF Before
  <2>1. ~ pos[m] < pos[k] /\ ~ pos[k] < pos[m]
    BY <1>4, <1>5, <2>0
  <2>2. pos[m] = pos[k]
    BY <1>1, <2>1
  <2> QED BY <1>5, <2>2 DEF PosDistinct
<1>6. ASSUME NEW m \in K PROVE Compacted(K)[m] < 1 + Cardinality(Same(m))
  <2>1. Before(m) \in SUBSET Same(m)
    OBVIOUS
  <2>2. Cardinality(Before(m)) <= Cardinality(Same(m))
    BY <1>1, <1>2, <2>1, FS_Subset
  <2> HIDE DEF Before, Same
  <2> QED BY <1>1, <1>2, <1>3, <2>2
<1> QED BY <1>5, <1>6

-----------------------------------------------------------------------------
(* The entries and the slots have room.                                       *)
Room ==
  /\ \A e \in Entries : Space(InEntry(e)) <= Storage
  /\ \A s \in Slots : Cardinality(InSlot(s)) <= AcksPerSlot
  /\ PosDistinct

(* Fewer messages, compacted, fit, ...                                        *)
LEMMA FewerMessagesFit ==
  ASSUME CacheInv, Room, NEW K \in SUBSET Cached, pos' = Compacted(K)
  PROVE  PosDistinct' /\ \A e \in Entries : Space(InEntry(e)') <= Storage
<1>1. TypeOK /\ K \in SUBSET Id /\ Cached \in SUBSET Id
  BY DEF CacheInv, Cached
<1>2. Cached' = K
  BY <1>1, CompactedKeeps DEF Cached
<1>3. PosDistinct'
  BY <1>1, <1>2, CompactedDistinct DEF PosDistinct, Room
<1>4. ASSUME NEW e \in Entries PROVE Space(InEntry(e)') <= Storage
  <2>1. InEntry(e)' \in SUBSET InEntry(e) /\ InEntry(e) \in SUBSET Id
    BY <1>1, <1>2 DEF InEntry
  <2>2. Space(InEntry(e)) <= Storage
    BY DEF Room
  <2>3. Space(InEntry(e)') <= Space(InEntry(e)) /\ Space(InEntry(e)') \in Nat
        /\ Space(InEntry(e)) \in Nat
    BY <2>1, SpaceGrows
  <2> QED BY <2>2, <2>3, TableAssumption
<1> QED BY <1>3, <1>4

(* ... and so do those with a message that the entry has room for.            *)
LEMMA OneMoreFits ==
  ASSUME CacheInv, Room, NEW K \in SUBSET Cached, NEW m \in Id \ Cached, NEW p \in Nat,
         Append_(m, p, K), Space({k \in K : EntryOf[k] = EntryOf[m]}) + Footprint(m) <= Storage
  PROVE  PosDistinct' /\ \A e \in Entries : Space(InEntry(e)') <= Storage
<1> DEFINE Same(j) == {k \in K : EntryOf[k] = EntryOf[j]}
           C == Compacted(K)
<1>1. TypeOK /\ K \in SUBSET Id /\ Cached \in SUBSET Id /\ m \notin K
  BY DEF CacheInv, Cached
<1>2. Cached' = K \cup {m}
  BY <1>1, AppendKeeps
<1>3. /\ C \in [Id -> Nat] /\ pos' = [C EXCEPT ![m] = 1 + Cardinality(Same(m))]
      /\ \A k, j \in K : EntryOf[k] = EntryOf[j] /\ C[k] = C[j] => k = j
      /\ \A k \in K : C[k] < 1 + Cardinality(Same(k))
  BY <1>1, CompactedKeeps, CompactedDistinct DEF Append_, Room
<1> HIDE DEF C
<1>4. pos'[m] = 1 + Cardinality(Same(m)) /\ \A k \in K : pos'[k] = C[k]
  BY <1>1, <1>3
<1>5. ASSUME NEW k \in K, EntryOf[k] = EntryOf[m] PROVE pos'[k] # pos'[m]
  <2>1. Same(k) = Same(m)
    BY <1>5
  <2>2. Cardinality(Same(k)) \in Nat /\ C[k] \in Nat
    BY <1>1, <1>3, FS_Subset, FS_CardinalityType, TableAssumption
  <2>3. C[k] < 1 + Cardinality(Same(k)) /\ pos'[m] = 1 + Cardinality(Same(k)) /\ pos'[k] = C[k]
    BY <1>3, <1>4, <2>1
  <2> HIDE DEF Same
  <2> QED BY <2>2, <2>3
<1>6. PosDistinct'
  BY <1>2, <1>3, <1>4, <1>5 DEF PosDistinct
<1>7. ASSUME NEW e \in Entries PROVE Space(InEntry(e)') <= Storage
  <2>1. CASE e = EntryOf[m]
    <3>1. InEntry(e)' = Same(m) \cup {m} /\ Same(m) \in SUBSET Id
      BY <1>1, <1>2, <2>1 DEF InEntry
    <3> HIDE DEF Same
    <3>2. Space(InEntry(e)') <= Space(Same(m)) + Footprint(m)
      BY <3>1, SpacePlus
    <3>3. InEntry(e)' \in SUBSET Id
      BY <3>1
    <3>4. Space(InEntry(e)') \in Nat /\ Space(Same(m)) \in Nat /\ Footprint(m) \in Nat
      BY <3>1, <3>3, BytesFinite, SpaceOfOne
    <3> QED BY <3>2, <3>4, TableAssumption DEF Same
  <2>2. CASE e # EntryOf[m]
    <3>1. InEntry(e)' \in SUBSET InEntry(e) /\ InEntry(e) \in SUBSET Id
      BY <1>1, <1>2, <2>2 DEF InEntry
    <3>2. Space(InEntry(e)) <= Storage
      BY DEF Room
    <3>3. Space(InEntry(e)') <= Space(InEntry(e)) /\ Space(InEntry(e)') \in Nat
          /\ Space(InEntry(e)) \in Nat
      BY <3>1, SpaceGrows
    <3> QED BY <3>2, <3>3, TableAssumption
  <2> QED BY <2>1, <2>2
<1> QED BY <1>6, <1>7

(* A collection makes room for the message it is for.                         *)
LEMMA GcMakesRoom ==
  ASSUME CacheInv, Room, NEW m \in Id
  PROVE  Space({k \in GcKept({m}) : EntryOf[k] = EntryOf[m]}) + Footprint(m) <= Storage
<1> DEFINE e == EntryOf[m]
           extra == Footprint(m)
           S == {k \in GcKept({m}) : EntryOf[k] = e}
<1>1. e \in Entries /\ extra \in Nat /\ Storage \in Nat /\ extra <= Storage
  BY TableAssumption, SpaceOfOne DEF Footprint
<1>2. Extra(e, {m}) = extra
  BY DEF Extra
<1>3. S = Kept(e, extra)
  <2>1. \A d \in Entries : \A k \in Kept(d, Extra(d, {m})) : EntryOf[k] = d
    BY DEF Kept, InEntry
  <2> QED BY <1>1, <1>2, <2>1 DEF GcKept
<1>4. S \in SUBSET Id
  BY GcKeptSubset DEF Cached
<1>5. Space(S) \in Nat
  <2> HIDE DEF S
  <2> QED BY <1>4, BytesFinite
<1>6. CASE Budget(extra) <= 0
  <2>1. S = {}
    BY <1>3, <1>6 DEF Kept
  <2>2. Bytes({}) = {}
    BY DEF Bytes
  <2>3. Space({}) = 0
    BY <2>2, BytesFinite, FS_EmptySet
  <2> HIDE DEF S, extra
  <2>4. Space(S) + extra <= Storage
    BY <1>1, <2>1, <2>3
  <2> QED BY <2>4 DEF S, extra
<1>7. CASE Budget(extra) > 0
  <2>1. TypeOK /\ PosDistinct
    BY DEF CacheInv, Room
  <2>2. Space(Kept(e, extra)) <= Budget(extra)
    BY <1>1, <1>7, <2>1, KeptFits
  <2>3. Space(S) <= Budget(extra)
    BY <1>3, <2>2
  <2>5. Budget(extra) = Storage - (Storage \div 2 + extra)
    BY DEF Budget
  <2>6. Storage \div 2 \in Nat
    BY <1>1
  <2> HIDE DEF S, extra
  <2>4. Space(S) + extra <= Storage
    BY <1>1, <1>5, <2>3, <2>5, <2>6
  <2> QED BY <2>4 DEF S, extra
<1>8. Budget(extra) \in Int
  <2> HIDE DEF extra
  <2> QED BY <1>1 DEF Budget
<1> HIDE DEF extra
<1>9. Budget(extra) <= 0 \/ Budget(extra) > 0
  BY <1>8
<1> QED BY <1>6, <1>7, <1>9

(* A slot that is collected is half empty, so that one more ack fits.         *)
LEMMA FewerAcksFit ==
  ASSUME CacheInv, Room, NEW A \in SUBSET acked
  PROVE  \A s \in Slots : Cardinality({a \in A : SlotOf[a] = s}) <= AcksPerSlot
<1> SUFFICES ASSUME NEW s \in Slots
             PROVE  Cardinality({a \in A : SlotOf[a] = s}) <= AcksPerSlot
  OBVIOUS
<1> DEFINE T == {a \in A : SlotOf[a] = s}
<1>1. acked \in SUBSET Id
  BY DEF CacheInv, TypeOK
<1>2. T \in SUBSET InSlot(s) /\ InSlot(s) \in SUBSET Id
  BY <1>1 DEF InSlot
<1> HIDE DEF T
<1>3. IsFiniteSet(InSlot(s)) /\ IsFiniteSet(T)
  BY <1>2, FS_Subset, TableAssumption
<1>4. Cardinality(T) <= Cardinality(InSlot(s)) /\ Cardinality(T) \in Nat
      /\ Cardinality(InSlot(s)) \in Nat
  BY <1>2, <1>3, FS_Subset, FS_CardinalityType
<1>5. Cardinality(InSlot(s)) <= AcksPerSlot
  BY DEF Room
<1>6. Cardinality(T) <= AcksPerSlot
  BY <1>4, <1>5, AckAssumption
<1> QED BY <1>6 DEF T

LEMMA OneAckMore ==
  ASSUME NEW A \in SUBSET Id, NEW a \in Id, NEW n \in Nat,
         Cardinality({b \in A : SlotOf[b] = SlotOf[a]}) <= n
  PROVE  Cardinality({b \in A \cup {a} : SlotOf[b] = SlotOf[a]}) <= n + 1
<1> DEFINE T == {b \in A : SlotOf[b] = SlotOf[a]}
<1>1. {b \in A \cup {a} : SlotOf[b] = SlotOf[a]} = T \cup {a}
  OBVIOUS
<1>2. IsFiniteSet(T)
  BY FS_Subset, TableAssumption
<1>3. Cardinality(T) <= n
  OBVIOUS
<1> HIDE DEF T
<1>4. Cardinality(T \cup {a}) = IF a \in T THEN Cardinality(T) ELSE Cardinality(T) + 1
  BY <1>2, FS_AddElement
<1>5. Cardinality(T) \in Nat
  BY <1>2, FS_CardinalityType
<1>6. Cardinality(T \cup {a}) <= n + 1
  BY <1>3, <1>4, <1>5
<1> QED BY <1>1, <1>6

\* At most half of a slot is in use after a collection.
LEMMA HalfStays ==
  ASSUME CacheInv, NEW A \in GcAckChoices, NEW s \in Slots
  PROVE  Cardinality({b \in A : SlotOf[b] = s}) <= AcksPerSlot \div 2
<1> DEFINE T == {b \in A : SlotOf[b] = s}
           half == AcksPerSlot \div 2
<1>1. A \in SUBSET acked /\ acked \in SUBSET Id /\ half \in Nat
  BY AckAssumption DEF GcAckChoices, CacheInv, TypeOK
<1>2. T = A \cap InSlot(s) /\ InSlot(s) \in SUBSET Id
  BY <1>1 DEF InSlot
<1>3. /\ Cardinality(InSlot(s)) <= half => InSlot(s) \subseteq A
      /\ ~ Cardinality(InSlot(s)) <= half => Cardinality(A \cap InSlot(s)) = half
  BY DEF GcAckChoices
<1> HIDE DEF half, T
<1>4. InSlot(s) \subseteq A => T = InSlot(s)
  BY <1>2
<1>5. CASE Cardinality(InSlot(s)) <= half
  BY <1>3, <1>4, <1>5 DEF T, half
<1>6. CASE ~ Cardinality(InSlot(s)) <= half
  <2>1. Cardinality(T) = half
    BY <1>2, <1>3, <1>6
  <2>2. Cardinality(T) <= half
    BY <1>1, <2>1
  <2> QED BY <2>2 DEF T, half
<1> QED BY <1>5, <1>6

LEMMA GcAcksFit ==
  ASSUME CacheInv, Room, NEW A \in GcAckChoices, NEW a \in Id
  PROVE  /\ \A s \in Slots : Cardinality({b \in A : SlotOf[b] = s}) <= AcksPerSlot
         /\ \A s \in Slots : Cardinality({b \in A \cup {a} : SlotOf[b] = s}) <= AcksPerSlot
<1>1. A \in SUBSET acked /\ A \in SUBSET Id /\ SlotOf[a] \in Slots
  BY AckAssumption DEF GcAckChoices, CacheInv, TypeOK
<1>2. \A s \in Slots : Cardinality({b \in A : SlotOf[b] = s}) <= AcksPerSlot
  BY <1>1, FewerAcksFit
<1> DEFINE s == SlotOf[a]
           T == {b \in A : SlotOf[b] = s}
           half == AcksPerSlot \div 2
<1>3. half \in Nat /\ half + 1 <= AcksPerSlot
  BY AckAssumption
<1>4. Cardinality(T) <= half
  BY <1>1, HalfStays
<1>5. Cardinality({b \in A \cup {a} : SlotOf[b] = SlotOf[a]}) <= AcksPerSlot
  <2>1. Cardinality({b \in A \cup {a} : SlotOf[b] = SlotOf[a]}) <= half + 1
    <3> HIDE DEF half
    <3> QED BY <1>1, <1>3, <1>4, OneAckMore
  <2> DEFINE c == Cardinality({b \in A \cup {a} : SlotOf[b] = SlotOf[a]})
  <2>2. c \in Nat
    <3>1. {b \in A \cup {a} : SlotOf[b] = SlotOf[a]} \in SUBSET Id
      BY <1>1
    <3> QED BY <3>1, FS_Subset, FS_CardinalityType, TableAssumption
  <2> HIDE DEF c, half
  <2>3. c <= AcksPerSlot
    BY <1>3, <2>1, <2>2, AckAssumption DEF c
  <2> QED BY <2>3 DEF c
<1>6. ASSUME NEW r \in Slots, r # SlotOf[a]
      PROVE  Cardinality({b \in A \cup {a} : SlotOf[b] = r}) <= AcksPerSlot
  <2>1. {b \in A \cup {a} : SlotOf[b] = r} = {b \in A : SlotOf[b] = r}
    BY <1>6
  <2> QED BY <1>2, <2>1
<1> QED BY <1>2, <1>5, <1>6

-----------------------------------------------------------------------------
LEMMA RoomStep ==
  ASSUME CacheInv, Room, [Next]_vars PROVE Room'
<1>0. /\ TypeOK /\ Cached \in SUBSET Id /\ acked \in SUBSET Id
      /\ \A new : GcKept(new) \in SUBSET Cached
      /\ \A A \in GcAckChoices : A \in SUBSET acked
  BY GcKeptSubset DEF CacheInv, TypeOK, Cached, GcAckChoices
<1>1. ASSUME pos' = pos PROVE PosDistinct' /\ \A e \in Entries : Space(InEntry(e)') <= Storage
  <2>1. Cached' = Cached /\ \A e \in Entries : InEntry(e)' = InEntry(e)
    BY <1>1 DEF Cached, InEntry
  <2> QED BY <1>1, <2>1 DEF Room, PosDistinct
<1>2. ASSUME acked' = acked PROVE \A s \in Slots : Cardinality(InSlot(s)') <= AcksPerSlot
  BY <1>2 DEF Room, InSlot
<1>3. ASSUME UNCHANGED <<pos, acked>> PROVE Room'
  BY <1>1, <1>2, <1>3 DEF Room
<1>4. CASE UNCHANGED vars
  BY <1>3, <1>4 DEF vars, cacheVars, ackVars
<1>5. ASSUME NEW m \in Id, Arrival(m) PROVE Room'
  <2>1. CASE SeenBefore(m) \/ RecordPacket(m)
    BY <1>3, <2>1 DEF SeenBefore, RecordPacket, cacheVars, ackVars
  <2>2. ASSUME NEW p \in Priority, SavePacket(m, p) PROVE Room'
    <3>1. /\ m \notin Cached /\ p \in Nat /\ acked' = acked
          /\ Append_(m, p, Cached) /\ Fits(m)
      BY <1>0, <2>2, InputAssumption DEF SavePacket, New, Cached, ackVars
    <3>2. Space({k \in Cached : EntryOf[k] = EntryOf[m]}) + Footprint(m) <= Storage
      BY <3>1 DEF Fits, InEntry
    <3>3. PosDistinct' /\ \A e \in Entries : Space(InEntry(e)') <= Storage
      BY <3>1, <3>2, OneMoreFits
    <3> QED BY <1>2, <3>1, <3>3 DEF Room
  <2>3. ASSUME NEW p \in Priority, SavePacketGc(m, p) PROVE Room'
    <3>1. /\ m \notin Cached /\ p \in Nat
          /\ Append_(m, p, GcKept({m})) /\ acked' \in GcAckChoices
      BY <1>0, <2>3, InputAssumption DEF SavePacketGc, New, Cached
    <3>2. PosDistinct' /\ \A e \in Entries : Space(InEntry(e)') <= Storage
      BY <1>0, <3>1, GcMakesRoom, OneMoreFits
    <3>3. \A s \in Slots : Cardinality(InSlot(s)') <= AcksPerSlot
      BY <3>1, GcAcksFit DEF InSlot
    <3> QED BY <3>2, <3>3 DEF Room
  <2> QED BY <1>5, <2>1, <2>2, <2>3 DEF Arrival
<1>6. ASSUME NEW M, NEW A, MarkSent(M, A) PROVE Room'
  <2>1. CASE MarkKnown(M, A) \/ MarkNew(M, A) \/ MarkRefused
    BY <1>3, <2>1 DEF MarkKnown, MarkNew, MarkRefused, cacheVars, ackVars
  <2>2. CASE MarkGc(M, A)
    <3>1. pos' = Compacted(GcKept({})) /\ acked' \in GcAckChoices
      BY <2>2 DEF MarkGc
    <3>2. PosDistinct' /\ \A e \in Entries : Space(InEntry(e)') <= Storage
      BY <1>0, <3>1, FewerMessagesFit
    <3>3. \A s \in Slots : Cardinality(InSlot(s)') <= AcksPerSlot
      BY <1>0, <3>1, FewerAcksFit DEF InSlot
    <3> QED BY <3>2, <3>3 DEF Room
  <2> QED BY <1>6, <2>1, <2>2 DEF MarkSent
<1>7. ASSUME NEW a \in Id, AckStep(a) PROVE Room'
  <2>1. CASE SkipAck(a) \/ OfferForgotten(a)
    BY <1>3, <2>1 DEF SkipAck, OfferForgotten, cacheVars, ackVars
  <2>2. CASE SaveAck(a)
    <3>1. pos' = Compacted(Cached \ {a}) /\ acked' = acked \cup {a} /\ ~ SlotFull(a)
      BY <2>2 DEF SaveAck
    <3>2. PosDistinct' /\ \A e \in Entries : Space(InEntry(e)') <= Storage
      BY <3>1, FewerMessagesFit
    <3>3. \A s \in Slots : Cardinality(InSlot(s)') <= AcksPerSlot
      <4> DEFINE t == SlotOf[a]
                 n == AcksPerSlot - 1
                 S == {b \in acked : SlotOf[b] = t}
      <4>1. n \in Nat /\ n + 1 = AcksPerSlot /\ Cardinality(S) <= n
        <5>1. Cardinality(S) \in Nat
          BY <1>0, FS_Subset, FS_CardinalityType, TableAssumption
        <5>2. ~ Cardinality(S) >= AcksPerSlot
          BY <3>1 DEF SlotFull, InSlot
        <5> HIDE DEF S
        <5> QED BY <5>1, <5>2, AckAssumption
      <4> HIDE DEF n
      <4>2. Cardinality({b \in acked \cup {a} : SlotOf[b] = SlotOf[a]}) <= n + 1
        BY <1>0, <4>1, OneAckMore
      <4>3. ASSUME NEW s \in Slots PROVE Cardinality(InSlot(s)') <= AcksPerSlot
        <5>1. CASE s = SlotOf[a]
          BY <3>1, <4>1, <4>2, <5>1 DEF InSlot
        <5>2. CASE s # SlotOf[a]
          <6>1. InSlot(s)' = InSlot(s)
            BY <3>1, <5>2 DEF InSlot
          <6> QED BY <6>1 DEF Room
        <5> QED BY <5>1, <5>2
      <4> QED BY <4>3
    <3> QED BY <3>2, <3>3 DEF Room
  <2>3. CASE SaveAckGc(a)
    <3>1. PICK A \in GcAckChoices : acked' = A \cup {a}
      BY <2>3 DEF SaveAckGc
    <3>2. pos' = Compacted(GcKept({}) \ {a}) /\ GcKept({}) \ {a} \in SUBSET Cached
      BY <1>0, <2>3 DEF SaveAckGc
    <3>3. PosDistinct' /\ \A e \in Entries : Space(InEntry(e)') <= Storage
      BY <3>2, FewerMessagesFit
    <3>4. \A s \in Slots : Cardinality(InSlot(s)') <= AcksPerSlot
      BY <3>1, GcAcksFit DEF InSlot
    <3> QED BY <3>3, <3>4 DEF Room
  <2>4. CASE OfferAck(a)
    BY <1>6, <2>4 DEF OfferAck
  <2> QED BY <1>7, <2>1, <2>2, <2>3, <2>4 DEF AckStep
<1>8. ASSUME NEW m \in Id, SendAndMark(m) PROVE Room'
  BY <1>6, <1>8 DEF SendAndMark
<1>9. ASSUME NEW m \in Id, Expire(m) PROVE Room'
  BY <1>3, <1>9 DEF Expire, cacheVars, ackVars
<1>10. ASSUME NEW packet, ReceiveAcks(packet) PROVE Room'
  BY <1>3, <1>10 DEF ReceiveAcks, cacheVars, ackVars
<1>11. ASSUME NEW t, NEW want, Request(t, want) PROVE Room'
  BY <1>3, <1>11 DEF Request, RequestNothing, RequestData, cacheVars, ackVars
<1>12. CASE MinutePasses
  BY <1>3, <1>12 DEF MinutePasses, cacheVars, ackVars
<1> QED
  BY <1>4, <1>5, <1>7, <1>8, <1>9, <1>10, <1>11, <1>12 DEF Next

LEMMA InitRoom == Init => Room
<1> SUFFICES ASSUME Init PROVE Room
  OBVIOUS
<1>1. Cached = {} /\ acked = {}
  BY DEF Init, Cached
<1>2. Bytes({}) = {}
  BY DEF Bytes
<1>3. Space({}) = 0
  BY <1>2, BytesFinite, FS_EmptySet
<1>4. \A e \in Entries : InEntry(e) = {}
  BY <1>1 DEF InEntry
<1>5. \A s \in Slots : InSlot(s) = {}
  BY <1>1 DEF InSlot
<1>6. Cardinality({}) = 0 /\ 0 <= AcksPerSlot /\ 0 <= Storage
  BY FS_EmptySet, AckAssumption, TableAssumption
<1> QED BY <1>1, <1>3, <1>4, <1>5, <1>6 DEF Room, PosDistinct

(* (pcache_save_packet, save_one_ack) No entry, no slot and no list of tokens *)
(* ever holds more than it has room for: the exit (1) is not reached.         *)
THEOREM TablesAlwaysFit == Spec => []TablesFit
<1>1. Init => Room
  BY InitRoom
<1>2. CacheInv /\ Room /\ [Next]_vars => Room'
  BY RoomStep
<1>3. CacheInv /\ Room => TablesFit
  BY DEF CacheInv, Room, TablesFit
<1> QED BY <1>1, <1>2, <1>3, CacheInvariant, PTL DEF Spec

-----------------------------------------------------------------------------
(***************************************************************************)
(* What is removed is remembered.                                          *)
(***************************************************************************)
\* No message is so long that it empties its entry, and one collection does not
\* run through all filters.
Moderate ==
  /\ \A m \in Id : Budget(Footprint(m)) > 0
  /\ MaxOverflow + 1 < NumFilters

(* A collection keeps each message or hands it to the filters.                *)
LEMMA GcKeepsOrRecords ==
  ASSUME Moderate, NEW new \in SUBSET Id, NEW m \in Cached, m \notin GcKept(new)
  PROVE  m \in GcRecorded(new)
<1> DEFINE e == EntryOf[m]
<1>1. m \in Id /\ e \in Entries /\ m \in InEntry(e)
  BY TableAssumption DEF Cached, InEntry
<1>2. m \notin Kept(e, Extra(e, new))
  BY <1>1 DEF GcKept
<1>3. Budget(Extra(e, new)) > 0 /\ Extra(e, new) \in Nat
  <2>1. CASE \E k \in new : EntryOf[k] = e
    <3> DEFINE k == CHOOSE k \in new : TRUE
    <3>1. k \in new
      BY <2>1
    <3>2. Extra(e, new) = Footprint(k)
      BY <2>1 DEF Extra
    <3> QED BY <3>1, <3>2, SpaceOfOne DEF Moderate
  <2>2. CASE ~ \E k \in new : EntryOf[k] = e
    <3>1. Extra(e, new) = Header
      BY <2>2 DEF Extra
    <3>2. Storage \in Nat /\ Storage \div 2 \in Nat /\ Header \in Nat /\ Size[m] \in Nat
      BY <1>1, TableAssumption
    <3>3. Storage - (Storage \div 2 + (Header + Size[m])) > 0
      BY <1>1 DEF Moderate, Budget, Footprint
    <3>4. Storage - (Storage \div 2 + Header) > 0
      BY <3>2, <3>3
    <3> QED BY <3>1, <3>2, <3>4 DEF Budget
  <2> QED BY <2>1, <2>2
<1>4. m \in Recorded(e, Extra(e, new))
  <2>1. ~ Budget(Extra(e, new)) <= 0
    BY <1>3, TableAssumption DEF Budget
  <2> QED BY <1>1, <1>2, <2>1 DEF Recorded
<1> QED BY <1>1, <1>4 DEF GcRecorded

LEMMA GcRemembers ==
  ASSUME TypeOK, Moderate, NEW new \in SUBSET Id, NEW A \in SUBSET acked, DoGc(new, A),
         NEW m \in Cached, m \notin GcKept(new)
  PROVE  msgLife'[m] > 0
<1> DEFINE dropped == GcRecorded(new) \cup (acked \ A)
<1>1. m \in dropped /\ m \in Id
  BY GcKeepsOrRecords DEF Cached
<1>2. PICK extra \in 0 .. MaxOverflow : \E early \in [dropped -> 0 .. extra] :
        msgLife' = GcLife(msgLife, dropped, extra, early)
  BY DEF DoGc
<1> HIDE DEF dropped
<1>3. PICK early \in [dropped -> 0 .. extra] :
        msgLife' = GcLife(msgLife, dropped, extra, early)
  BY <1>2
<1>4. msgLife'[m] = Aged(NumFilters, 1 + early[m])
  BY <1>1, <1>3 DEF GcLife
<1>5. early[m] \in 0 .. extra
  BY <1>1, <1>3
<1>6. NumFilters \in Nat /\ MaxOverflow \in Nat /\ NumFilters > 1 + early[m]
  BY <1>2, <1>5, FilterAssumption DEF Moderate
<1> QED BY <1>4, <1>5, <1>6 DEF Aged

LEMMA RemembersStep ==
  ASSUME CacheInv, Moderate, [Next]_vars, NEW m \in Cached
  PROVE  m \in Cached' \/ m \in acked' \/ msgLife'[m] > 0
<1>0. /\ TypeOK /\ m \in Id /\ Cached \in SUBSET Id
      /\ \A new : GcKept(new) \in SUBSET Id
      /\ \A A \in GcAckChoices : A \in SUBSET acked
  BY GcKeptSubset DEF CacheInv, Cached, GcAckChoices
<1> SUFFICES ASSUME m \notin Cached', m \notin acked' PROVE msgLife'[m] > 0
  OBVIOUS
<1>1. ~ pos' = pos
  BY DEF Cached
<1>2. \A K \in SUBSET Id : pos' = Compacted(K) => m \notin K
  <2> SUFFICES ASSUME NEW K \in SUBSET Id, pos' = Compacted(K), m \in K PROVE FALSE
    OBVIOUS
  <2>1. pos'[m] > 0
    BY <1>0, CompactedKeeps
  <2> QED BY <1>0, <2>1 DEF Cached
<1>3. ASSUME NEW k \in Id, NEW p \in Priority, SavePacket(k, p) \/ SavePacketGc(k, p)
      PROVE  msgLife'[m] > 0
  <2>1. \A K \in SUBSET Id : Append_(k, p, K) => m \notin K
    <3> SUFFICES ASSUME NEW K \in SUBSET Id, Append_(k, p, K), m \in K PROVE FALSE
      OBVIOUS
    <3>1. Compacted(K) \in [Id -> Nat] /\ Compacted(K)[m] > 0
      BY <1>0, CompactedKeeps
    <3>2. k # m
      BY <1>3, <1>0 DEF SavePacket, SavePacketGc, New, Cached
    <3>3. pos'[m] = Compacted(K)[m]
      BY <1>0, <3>1, <3>2 DEF Append_
    <3> QED BY <1>0, <3>1, <3>3 DEF Cached
  <2>2. ~ SavePacket(k, p)
    BY <1>0, <2>1 DEF SavePacket
  <2>3. PICK A \in GcAckChoices : DoGc({k}, A)
    BY <1>3, <2>2 DEF SavePacketGc
  <2>4. m \notin GcKept({k})
    BY <1>0, <1>3, <2>1, <2>2 DEF SavePacketGc
  <2> QED BY <1>0, <2>3, <2>4, GcRemembers
<1>4. ASSUME NEW a \in Id, SaveAckGc(a) PROVE msgLife'[m] > 0
  <2>1. a \in acked' /\ pos' = Compacted(GcKept({}) \ {a}) /\ m # a
    BY <1>4 DEF SaveAckGc
  <2>2. m \notin GcKept({})
    BY <1>0, <1>2, <2>1
  <2>3. PICK A \in GcAckChoices : DoGc({}, A)
    BY <1>4 DEF SaveAckGc
  <2> QED BY <1>0, <2>2, <2>3, GcRemembers
<1>5. ASSUME NEW M, NEW S, MarkSent(M, S) PROVE msgLife'[m] > 0
  <2>1. MarkGc(M, S)
    BY <1>1, <1>5 DEF MarkSent, MarkKnown, MarkNew, MarkRefused, cacheVars
  <2>2. m \notin GcKept({})
    BY <1>0, <1>2, <2>1 DEF MarkGc
  <2>3. PICK A \in GcAckChoices : DoGc({}, A)
    BY <2>1 DEF MarkGc
  <2> QED BY <1>0, <2>2, <2>3, GcRemembers
<1>6. ASSUME NEW a \in Id, SaveAck(a) PROVE FALSE
  <2>1. a \in acked' /\ pos' = Compacted(Cached \ {a}) /\ m # a
    BY <1>6 DEF SaveAck
  <2> QED BY <1>0, <1>2, <2>1
<1>7. ASSUME NEW k \in Id, Arrival(k) PROVE msgLife'[m] > 0
  BY <1>1, <1>3, <1>7 DEF Arrival, SeenBefore, RecordPacket, cacheVars
<1>8. ASSUME NEW k \in Id, AckStep(k) PROVE msgLife'[m] > 0
  BY <1>1, <1>4, <1>5, <1>6, <1>8 DEF AckStep, SkipAck, OfferForgotten, OfferAck, cacheVars
<1>9. ASSUME NEW k \in Id, SendAndMark(k) PROVE msgLife'[m] > 0
  BY <1>5, <1>9 DEF SendAndMark
<1>10. CASE UNCHANGED vars
  BY <1>1, <1>10 DEF vars, cacheVars
<1>11. ASSUME Next PROVE msgLife'[m] > 0
  BY <1>1, <1>7, <1>8, <1>9, <1>11
  DEF Next, Expire, ReceiveAcks, Request, RequestNothing, RequestData, MinutePasses, cacheVars
<1> QED BY <1>10, <1>11

(* (gc_messages_entry, save_one_ack) As long as no message is longer than what *)
(* is kept of an entry, and no collection fills all filters, whatever leaves   *)
(* the table is acked or recognised when it comes again.                       *)
THEOREM RemovedAlwaysRemembered ==
  ASSUME Moderate PROVE Spec => RemovedIsRemembered
<1>1. CacheInv /\ [Next]_vars
        => [\A m \in Cached : m \in Cached' \/ m \in acked' \/ msgLife'[m] > 0]_vars
  BY RemembersStep
<1> QED BY <1>1, CacheInvariant, PTL DEF Spec, RemovedIsRemembered

-----------------------------------------------------------------------------
(***************************************************************************)
(* No ack of a packet is lost while the packet is handled.                 *)
(***************************************************************************)
\* What a slot that was collected takes until it is collected again.
Freed == AcksPerSlot - AcksPerSlot \div 2

\* A packet is not so long that saving its acks runs through the filters: 64
\* acks, of which 32 fit in a slot that was just collected, with 16 filters.
ShortPackets ==
  /\ NumFilters > 1 /\ MaxOverflow = 0
  /\ \A packet \in AckPackets : Len(packet) <= 2 + (NumFilters - 2) * Freed

\* How many acks may be saved by the time of k more collections.
Credit(k) == AcksPerSlot + k * Freed

\* Each ack that pcache_save_acks has looked at is in the table or found in the
\* filters, with as many generations left as there may be collections until all
\* are saved, and one more if another ack is offered first.
Lasts(x, spare) ==
  /\ ackLife[x] > spare
  /\ \A s \in Slots : Len(toSave) + Cardinality(InSlot(s)) <= Credit(ackLife[x] - 1 - spare)
Spare(j) == IF j = 1 THEN 0 ELSE 1
SavingInv ==
  toSave # <<>> =>
    /\ Len(toSave) <= Len(toOffer)
    /\ Len(toOffer) <= 2 + (NumFilters - 2) * Freed
    /\ \A i \in 1 .. Len(toSave) : toSave[i] = toOffer[Len(toOffer) - Len(toSave) + i]
    /\ \A j \in 1 .. Len(toOffer) - Len(toSave) :
         toOffer[j] \in acked \/ Lasts(toOffer[j], Spare(j))
OfferingInv ==
  toSave = <<>> =>
    \A j \in 1 .. Len(toOffer) :
      \/ toOffer[j] \in acked
      \/ ackLife[toOffer[j]] > (IF j = 1 \/ Known(callToken) THEN 0 ELSE 1)
WildInv == SavingInv /\ OfferingInv

LEMMA FreedFacts ==
  /\ AcksPerSlot \in Nat /\ AcksPerSlot \div 2 \in Nat /\ Freed \in Nat
  /\ Freed > 0 /\ AcksPerSlot = AcksPerSlot \div 2 + Freed
BY AckAssumption DEF Freed

LEMMA CreditFacts ==
  /\ \A k \in Int : Credit(k) \in Int /\ Credit(k) = Credit(k - 1) + Freed
  /\ \A k, l \in Int : k <= l => Credit(k) <= Credit(l)
  /\ Credit(0) = AcksPerSlot
<1>1. Freed \in Nat /\ AcksPerSlot \in Nat
  BY FreedFacts
<1>2. \A k \in Int : k * Freed \in Int /\ k * Freed = (k - 1) * Freed + Freed
  BY <1>1
<1>3. \A k, l \in Int : k <= l => k * Freed <= l * Freed
  BY <1>1
<1>4. 0 * Freed = 0
  BY <1>1
<1> QED BY <1>1, <1>2, <1>3, <1>4 DEF Credit

\* The acks after the j-th of a packet can all be saved before the filters forget it.
LEMMA CreditLasts ==
  ASSUME ShortPackets, NEW n \in Nat, n <= 2 + (NumFilters - 2) * Freed,
         NEW j \in 1 .. n, NEW k \in Nat, k + j <= n
  PROVE  /\ NumFilters > Spare(j)
         /\ k + AcksPerSlot <= Credit(NumFilters - 1 - Spare(j))
         /\ k > 0 => NumFilters - 1 > Spare(j)
<1>1. NumFilters \in Nat /\ NumFilters > 1 /\ Freed \in Nat /\ Freed > 0 /\ AcksPerSlot \in Nat
  BY FilterAssumption, FreedFacts DEF ShortPackets
<1>2. (NumFilters - 2) * Freed \in Int
      /\ (NumFilters - 1) * Freed = (NumFilters - 2) * Freed + Freed
  BY <1>1
<1>3. k + AcksPerSlot <= Credit(NumFilters - 1 - Spare(j))
  <2>1. CASE j = 1
    <3>1. k <= (NumFilters - 1) * Freed
      BY <1>1, <1>2, <2>1
    <3> QED BY <1>1, <2>1, <3>1 DEF Spare, Credit
  <2>2. CASE j # 1
    <3>1. k <= (NumFilters - 2) * Freed
      BY <1>1, <1>2, <2>2
    <3> QED BY <1>1, <2>2, <3>1 DEF Spare, Credit
  <2> QED BY <2>1, <2>2
<1>4. NumFilters > Spare(j)
  BY <1>1 DEF Spare
<1>5. ASSUME k > 0, NumFilters - 1 <= Spare(j) PROVE FALSE
  <2>1. NumFilters - 1 - Spare(j) \in Int /\ NumFilters - 1 - Spare(j) <= 0
    BY <1>1, <1>5 DEF Spare
  <2>2. Credit(NumFilters - 1 - Spare(j)) <= AcksPerSlot
        /\ Credit(NumFilters - 1 - Spare(j)) \in Int
    BY <2>1, CreditFacts
  <2> QED BY <1>1, <1>3, <1>5, <2>2
<1>6. NumFilters - 1 \in Int /\ Spare(j) \in Int
  BY <1>1 DEF Spare
<1> QED BY <1>3, <1>4, <1>5, <1>6

\* The tail of what is to be saved.
LEMMA SavedOne ==
  ASSUME CacheInv, CacheInv', SavingInv, toSave # <<>>, toSave' = Tail(toSave),
         toOffer' = toOffer,
         \A j \in 1 .. Len(toOffer) - Len(toSave) + 1 :
           toOffer[j] \in acked' \/ Lasts(toOffer[j], Spare(j))'
  PROVE  WildInv'
<1> DEFINE n == Len(toOffer)  L == Len(toSave)
<1>1. toSave \in Seq(Id) /\ toOffer \in Seq(Id)
  BY DEF CacheInv, TypeOK
<1>2. /\ n \in Nat /\ L \in Nat /\ L > 0 /\ L <= n
      /\ Len(Tail(toSave)) = L - 1 /\ \A i \in 1 .. L - 1 : Tail(toSave)[i] = toSave[i + 1]
  BY <1>1, HeadTailProperties, EmptySeq, LenProperties DEF SavingInv
<1>3. /\ Len(toOffer') = n /\ Len(toSave') = L - 1
      /\ n <= 2 + (NumFilters - 2) * Freed
  BY <1>2 DEF SavingInv
<1>4. \A i \in 1 .. L : toSave[i] = toOffer[n - L + i]
  BY DEF SavingInv
<1> HIDE DEF n, L
<1>5. \A i \in 1 .. L - 1 : toSave'[i] = toOffer[n - (L - 1) + i]
  <2> SUFFICES ASSUME NEW i \in 1 .. L - 1 PROVE Tail(toSave)[i] = toOffer[n - (L - 1) + i]
    OBVIOUS
  <2>1. i + 1 \in 1 .. L /\ n - L + (i + 1) = n - (L - 1) + i
    BY <1>2
  <2> QED BY <1>2, <1>4, <2>1
<1>6. \A j \in 1 .. n - (L - 1) : toOffer[j] \in acked' \/ Lasts(toOffer[j], Spare(j))'
  <2>1. n - (L - 1) = n - L + 1
    BY <1>2
  <2> QED BY <2>1 DEF n, L
<1>7. SavingInv'
  <2>1. L - 1 <= n
    BY <1>2
  <2> QED BY <1>3, <1>5, <1>6, <2>1 DEF SavingInv, Spare
<1>8. OfferingInv'
  <2> SUFFICES ASSUME toSave' = <<>>, NEW j \in 1 .. n, toOffer[j] \notin acked'
               PROVE  ackLife'[toOffer[j]] > (IF j = 1 \/ Known(callToken)' THEN 0 ELSE 1)
    BY <1>3 DEF OfferingInv
  <2>1. L - 1 = 0
    BY <1>1, <1>3, EmptySeq
  <2>2. j \in 1 .. n - (L - 1)
    BY <1>2, <2>1
  <2>3. ackLife'[toOffer[j]] > Spare(j)
    BY <1>6, <2>2 DEF Lasts
  <2>4. toOffer[j] \in Id
    BY <1>1, ElementOfSeq DEF n
  <2>5. ackLife' \in [Id -> 0 .. NumFilters]
    BY DEF CacheInv, TypeOK, Life
  <2>6. ackLife'[toOffer[j]] \in Nat
    BY <2>4, <2>5, FilterAssumption
  <2> QED BY <2>3, <2>6 DEF Spare
<1> QED BY <1>7, <1>8 DEF WildInv

\* What the filters forget in a collection or a lookup, when none of them overfills.
LEMMA GcLives ==
  ASSUME TypeOK, ShortPackets, NEW new, NEW A, DoGc(new, A)
  PROVE  \A x \in Id : ackLife'[x] = IF x \in acked \ A THEN NumFilters - 1
                                     ELSE Aged(ackLife[x], 1)
<1> DEFINE gone == acked \ A
           dropped == GcRecorded(new) \cup gone
<1>1. PICK extra \in 0 .. MaxOverflow : \E early \in [dropped -> 0 .. extra] :
          ackLife' = GcLife(ackLife, gone, extra, early)
  BY DEF DoGc
<1>2. gone \subseteq dropped
  OBVIOUS
<1> HIDE DEF dropped
<1>3. PICK early \in [dropped -> 0 .. extra] : ackLife' = GcLife(ackLife, gone, extra, early)
  BY <1>1
<1>4. extra = 0 /\ \A x \in gone : early[x] = 0
  BY <1>2, <1>3 DEF ShortPackets
<1>5. Aged(NumFilters, 1) = NumFilters - 1
  BY FilterAssumption DEF Aged, ShortPackets
<1>6. 1 + 0 = 1
  OBVIOUS
<1> QED BY <1>3, <1>4, <1>5, <1>6 DEF GcLife

LEMMA LookLives ==
  ASSUME ShortPackets, NEW ack, Look(msgLife, ack) PROVE ackLife' = ack
BY DEF Look, ShortPackets

\* The ack that is saved next, and those before it in the packet.
LEMMA NextToSave ==
  ASSUME SavingInv, toSave # <<>>, toSave \in Seq(Id), toOffer \in Seq(Id)
  PROVE  LET n == Len(toOffer)
             L == Len(toSave)
         IN  /\ n \in Nat /\ L \in Nat /\ L > 0 /\ L <= n /\ Len(Tail(toSave)) = L - 1
             /\ Head(toSave) = toOffer[n - L + 1] /\ n <= 2 + (NumFilters - 2) * Freed
             /\ \A j \in 1 .. n - L : toOffer[j] \in acked \/ Lasts(toOffer[j], Spare(j))
<1> DEFINE n == Len(toOffer)  L == Len(toSave)
<1>1. n \in Nat /\ L \in Nat /\ L > 0 /\ Len(Tail(toSave)) = L - 1 /\ Head(toSave) = toSave[1]
  BY HeadTailProperties, EmptySeq, LenProperties
<1>2. /\ L <= n /\ n <= 2 + (NumFilters - 2) * Freed
      /\ \A i \in 1 .. L : toSave[i] = toOffer[n - L + i]
      /\ \A j \in 1 .. n - L : toOffer[j] \in acked \/ Lasts(toOffer[j], Spare(j))
  BY DEF SavingInv
<1> HIDE DEF n, L
<1>3. 1 \in 1 .. L
  BY <1>1
<1>4. Head(toSave) = toOffer[n - L + 1]
  BY <1>1, <1>2, <1>3
<1> QED BY <1>1, <1>2, <1>4 DEF n, L

\* save_one_ack finds the ack: it is found for as long as it can be.
LEMMA SkipAckWild ==
  ASSUME CacheInv, CacheInv', Room, ShortPackets, SavingInv, NEW a \in Id, SkipAck(a)
  PROVE  WildInv'
<1> DEFINE n == Len(toOffer)  L == Len(toSave)
<1>1. /\ toSave # <<>> /\ a = Head(toSave) /\ toSave' = Tail(toSave)
      /\ toOffer' = toOffer /\ acked' = acked
      /\ a \in acked \/ ackLife[a] > 0
      /\ ackLife' = Refreshed(ackLife, a)
  BY LookLives DEF SkipAck, SavingAck, ackVars
<1>2. /\ toSave \in Seq(Id) /\ toOffer \in Seq(Id) /\ acked \in SUBSET Id
      /\ ackLife \in [Id -> 0 .. NumFilters] /\ NumFilters \in Nat
  BY FilterAssumption DEF CacheInv, TypeOK, Life
<1>3. /\ n \in Nat /\ L \in Nat /\ L > 0 /\ L <= n /\ Len(toSave') = L - 1
      /\ a = toOffer[n - L + 1] /\ n <= 2 + (NumFilters - 2) * Freed
      /\ \A j \in 1 .. n - L : toOffer[j] \in acked \/ Lasts(toOffer[j], Spare(j))
  BY <1>1, <1>2, NextToSave
<1>4. \A x \in Id : ackLife'[x] \in Nat /\ ackLife[x] \in Nat /\ ackLife'[x] >= ackLife[x]
  BY <1>1, <1>2 DEF Refreshed
<1>5. \A s \in Slots : /\ InSlot(s)' = InSlot(s) /\ Cardinality(InSlot(s)) \in Nat
                        /\ Cardinality(InSlot(s)) <= AcksPerSlot
  BY <1>1, <1>2, FS_Subset, FS_CardinalityType, TableAssumption DEF InSlot, Room
<1> HIDE DEF n, L
<1>6. ASSUME NEW j \in 1 .. n - L + 1, toOffer[j] \notin acked
      PROVE  Lasts(toOffer[j], Spare(j))'
  <2>x. PICK x \in Id : x = toOffer[j]
    BY <1>2, <1>3, ElementOfSeq DEF n
  <2>0. x \in Id /\ Spare(j) \in Nat
    BY DEF Spare
  <2>1. CASE j \in 1 .. n - L
    <3>1. Lasts(x, Spare(j))
      BY <1>3, <1>6, <2>1, <2>x
    <3>2. ackLife'[x] > Spare(j)
      BY <1>4, <2>0, <3>1 DEF Lasts
    <3>3. Credit(ackLife[x] - 1 - Spare(j)) <= Credit(ackLife'[x] - 1 - Spare(j))
          /\ Credit(ackLife[x] - 1 - Spare(j)) \in Int /\ Credit(ackLife'[x] - 1 - Spare(j)) \in Int
      <4>1. /\ ackLife[x] - 1 - Spare(j) \in Int /\ ackLife'[x] - 1 - Spare(j) \in Int
            /\ ackLife[x] - 1 - Spare(j) <= ackLife'[x] - 1 - Spare(j)
        BY <1>4, <2>0
      <4> QED BY <4>1, CreditFacts
    <3>4. ASSUME NEW s \in Slots
          PROVE  L - 1 + Cardinality(InSlot(s)) <= Credit(ackLife'[x] - 1 - Spare(j))
      <4>1. L + Cardinality(InSlot(s)) <= Credit(ackLife[x] - 1 - Spare(j))
        BY <3>1 DEF Lasts, L
      <4> QED BY <1>3, <1>5, <3>3, <4>1
    <3>5. Lasts(x, Spare(j))'
      BY <1>3, <1>5, <3>2, <3>4 DEF Lasts
    <3> QED BY <1>1, <2>x, <3>5
  <2>2. CASE j = n - L + 1
    <3>1. x = a /\ ackLife'[x] = NumFilters
      BY <1>1, <1>2, <1>3, <1>6, <2>0, <2>2, <2>x DEF Refreshed
    <3>2. j \in 1 .. n /\ L - 1 \in Nat /\ (L - 1) + j <= n
      BY <1>3, <2>2
    <3>3. NumFilters > Spare(j) /\ (L - 1) + AcksPerSlot <= Credit(NumFilters - 1 - Spare(j))
      BY <1>3, <3>2, CreditLasts
    <3>4. ASSUME NEW s \in Slots
          PROVE  L - 1 + Cardinality(InSlot(s)) <= Credit(NumFilters - 1 - Spare(j))
      <4>1. Credit(NumFilters - 1 - Spare(j)) \in Int
        BY <1>2, <2>0, CreditFacts
      <4> QED BY <1>3, <1>5, <3>3, <4>1, AckAssumption
    <3>5. Lasts(x, Spare(j))'
      BY <1>3, <1>5, <3>1, <3>3, <3>4 DEF Lasts
    <3> QED BY <1>1, <2>x, <3>5
  <2> QED BY <1>3, <2>1, <2>2
<1> QED BY <1>1, <1>6, SavedOne DEF n, L

\* save_one_ack has room: the slot has one ack more, and there is one less to come.
LEMMA SaveAckWild ==
  ASSUME CacheInv, CacheInv', Room, ShortPackets, SavingInv, NEW a \in Id, SaveAck(a)
  PROVE  WildInv'
<1> DEFINE n == Len(toOffer)  L == Len(toSave)
<1>1. /\ toSave # <<>> /\ a = Head(toSave) /\ toSave' = Tail(toSave)
      /\ toOffer' = toOffer
  BY DEF SaveAck, SavingAck
<1>2. /\ toSave \in Seq(Id) /\ toOffer \in Seq(Id) /\ acked \in SUBSET Id
      /\ ackLife \in [Id -> 0 .. NumFilters] /\ NumFilters \in Nat
  BY FilterAssumption DEF CacheInv, TypeOK, Life
<1>3. /\ n \in Nat /\ L \in Nat /\ L > 0 /\ L <= n /\ Len(toSave') = L - 1
      /\ a = toOffer[n - L + 1] /\ n <= 2 + (NumFilters - 2) * Freed
      /\ \A j \in 1 .. n - L : toOffer[j] \in acked \/ Lasts(toOffer[j], Spare(j))
  BY <1>1, <1>2, NextToSave
<1>4. acked' = acked \cup {a} /\ ackLife' = ackLife
  BY DEF SaveAck, filterVars
<1>5. ASSUME NEW s \in Slots
      PROVE  /\ Cardinality(InSlot(s)') \in Nat /\ Cardinality(InSlot(s)) \in Nat
             /\ Cardinality(InSlot(s)') <= Cardinality(InSlot(s)) + 1
  <2>1. InSlot(s)' \subseteq InSlot(s) \cup {a} /\ IsFiniteSet(InSlot(s))
    BY <1>2, <1>4, FS_Subset, TableAssumption DEF InSlot
  <2>2. /\ IsFiniteSet(InSlot(s) \cup {a})
        /\ Cardinality(InSlot(s) \cup {a}) =
             IF a \in InSlot(s) THEN Cardinality(InSlot(s)) ELSE Cardinality(InSlot(s)) + 1
    BY <2>1, FS_AddElement
  <2>3. IsFiniteSet(InSlot(s)') /\ Cardinality(InSlot(s)') <= Cardinality(InSlot(s) \cup {a})
    BY <2>1, <2>2, FS_Subset
  <2>4. Cardinality(InSlot(s)') \in Nat /\ Cardinality(InSlot(s)) \in Nat
    BY <2>1, <2>3, FS_CardinalityType
  <2> QED BY <2>2, <2>3, <2>4
<1> HIDE DEF n, L
<1>6. ASSUME NEW j \in 1 .. n - L + 1, toOffer[j] \notin acked'
      PROVE  Lasts(toOffer[j], Spare(j))'
  <2>x. PICK x \in Id : x = toOffer[j]
    BY <1>2, <1>3, ElementOfSeq DEF n
  <2>1. Lasts(x, Spare(j))
    BY <1>3, <1>4, <1>6, <2>x
  <2>2. ackLife[x] - 1 - Spare(j) \in Int
    BY <1>2 DEF Spare
  <2>3. ASSUME NEW s \in Slots
        PROVE  L - 1 + Cardinality(InSlot(s)') <= Credit(ackLife[x] - 1 - Spare(j))
    <3>1. L + Cardinality(InSlot(s)) <= Credit(ackLife[x] - 1 - Spare(j))
          /\ Credit(ackLife[x] - 1 - Spare(j)) \in Int
      BY <2>1, <2>2, CreditFacts DEF Lasts, L
    <3> QED BY <1>3, <1>5, <3>1
  <2>4. Lasts(x, Spare(j))'
    BY <1>3, <1>4, <2>1, <2>3 DEF Lasts
  <2> QED BY <1>1, <2>x, <2>4
<1> QED BY <1>1, <1>6, SavedOne DEF n, L

\* save_one_ack collects first: one generation is gone, and every slot half empty.
LEMMA SaveAckGcWild ==
  ASSUME CacheInv, CacheInv', Room, ShortPackets, SavingInv, NEW a \in Id, SaveAckGc(a)
  PROVE  WildInv'
<1> DEFINE n == Len(toOffer)  L == Len(toSave)
<1>1. /\ toSave # <<>> /\ a = Head(toSave) /\ toSave' = Tail(toSave)
      /\ toOffer' = toOffer
  BY DEF SaveAckGc, SavingAck
<1>2. /\ toSave \in Seq(Id) /\ toOffer \in Seq(Id) /\ acked \in SUBSET Id
      /\ ackLife \in [Id -> 0 .. NumFilters] /\ NumFilters \in Nat
  BY FilterAssumption DEF CacheInv, TypeOK, Life
<1>3. /\ n \in Nat /\ L \in Nat /\ L > 0 /\ L <= n /\ Len(toSave') = L - 1
      /\ a = toOffer[n - L + 1] /\ n <= 2 + (NumFilters - 2) * Freed
      /\ \A j \in 1 .. n - L : toOffer[j] \in acked \/ Lasts(toOffer[j], Spare(j))
  BY <1>1, <1>2, NextToSave
<1> DEFINE half == AcksPerSlot \div 2
<1>4. PICK A \in GcAckChoices : DoGc({}, A) /\ acked' = A \cup {a}
  BY DEF SaveAckGc
<1>5. A \in SUBSET acked /\ A \in SUBSET Id
  BY <1>2 DEF GcAckChoices
<1>6. \A x \in Id : ackLife'[x] = IF x \in acked \ A THEN NumFilters - 1 ELSE Aged(ackLife[x], 1)
  BY <1>4, GcLives DEF CacheInv
<1>7. ASSUME NEW s \in Slots
      PROVE  Cardinality(InSlot(s)') \in Nat /\ Cardinality(InSlot(s)') <= half + 1
  <2> DEFINE T == {b \in A : SlotOf[b] = s}
  <2>1. Cardinality(T) <= half
    BY HalfStays
  <2>2. InSlot(s)' \subseteq T \cup {a} /\ IsFiniteSet(T)
    BY <1>4, <1>5, FS_Subset, TableAssumption DEF InSlot
  <2> HIDE DEF T
  <2>3. /\ IsFiniteSet(T \cup {a})
        /\ Cardinality(T \cup {a}) = IF a \in T THEN Cardinality(T) ELSE Cardinality(T) + 1
    BY <2>2, FS_AddElement
  <2>4. IsFiniteSet(InSlot(s)') /\ Cardinality(InSlot(s)') <= Cardinality(T \cup {a})
    BY <2>2, <2>3, FS_Subset
  <2>5. Cardinality(InSlot(s)') \in Nat /\ Cardinality(T) \in Nat
    BY <2>2, <2>4, FS_CardinalityType
  <2> HIDE DEF half
  <2>6. half \in Nat
    BY FreedFacts DEF half
  <2> QED BY <2>1, <2>3, <2>4, <2>5, <2>6
<1>8. half \in Nat /\ AcksPerSlot \in Nat /\ Freed \in Nat /\ AcksPerSlot = half + Freed
  BY FreedFacts
<1> HIDE DEF n, L, half
\* What is left for one collection less.
<1>9. ASSUME NEW k \in Int, L + AcksPerSlot <= Credit(k)
      PROVE  /\ k > 0
             /\ \A s \in Slots : L - 1 + Cardinality(InSlot(s)') <= Credit(k - 1)
  <2>1. Credit(k) \in Int /\ Credit(k - 1) \in Int /\ Credit(k) = Credit(k - 1) + Freed
    BY CreditFacts
  <2>2. \A s \in Slots : L - 1 + Cardinality(InSlot(s)') <= Credit(k - 1)
    BY <1>3, <1>7, <1>8, <1>9, <2>1
  <2>3. k <= 0 => Credit(k) <= AcksPerSlot
    BY CreditFacts
  <2>4. k > 0
    BY <1>3, <1>8, <1>9, <2>1, <2>3
  <2> QED BY <2>2, <2>4
<1>10. L + AcksPerSlot \in Nat /\ SlotOf[a] \in Slots /\ Cardinality(InSlot(SlotOf[a])) \in Nat
       /\ Cardinality(InSlot(SlotOf[a])) >= AcksPerSlot
  <2>1. InSlot(SlotOf[a]) \in SUBSET Id
    BY <1>2 DEF InSlot
  <2>2. Cardinality(InSlot(SlotOf[a])) \in Nat
    BY <2>1, FS_Subset, FS_CardinalityType, TableAssumption
  <2> QED BY <1>3, <1>8, <2>2, AckAssumption DEF SaveAckGc, SlotFull
<1>11. ASSUME NEW j \in 1 .. n - L + 1, toOffer[j] \notin acked'
       PROVE  Lasts(toOffer[j], Spare(j))'
  <2>x. PICK x \in Id : x = toOffer[j]
    BY <1>2, <1>3, ElementOfSeq DEF n
  <2>0. Spare(j) \in Nat /\ x \notin acked' /\ x # a
    BY <1>4, <1>11, <2>x DEF Spare
  <2>1. j \in 1 .. n - L
    BY <1>3, <2>0, <2>x
  <2>2. CASE x \in acked
    <3>1. ackLife'[x] = NumFilters - 1
      BY <1>4, <1>6, <2>0, <2>2
    <3>2. j \in 1 .. n /\ L + j <= n
      BY <1>3, <2>1
    <3>3. L + AcksPerSlot <= Credit(NumFilters - 1 - Spare(j)) /\ NumFilters - 1 > Spare(j)
      BY <1>3, <3>2, CreditLasts
    <3>4. NumFilters - 1 - Spare(j) \in Int
      BY <1>2, <2>0
    <3>5. \A s \in Slots : L - 1 + Cardinality(InSlot(s)') <= Credit(NumFilters - 1 - Spare(j) - 1)
      BY <1>9, <3>3, <3>4
    <3>6. NumFilters - 1 - Spare(j) - 1 = (NumFilters - 1) - 1 - Spare(j)
      BY <1>2, <2>0
    <3>7. Lasts(x, Spare(j))'
      BY <1>3, <3>1, <3>3, <3>5, <3>6 DEF Lasts
    <3> QED BY <1>1, <2>x, <3>7
  <2>3. CASE x \notin acked
    <3>1. Lasts(x, Spare(j))
      BY <1>3, <2>1, <2>3, <2>x
    <3>2. ackLife[x] \in Nat /\ ackLife[x] - 1 - Spare(j) \in Int
      BY <1>2, <2>0
    <3>3. L + Cardinality(InSlot(SlotOf[a])) <= Credit(ackLife[x] - 1 - Spare(j))
          /\ Credit(ackLife[x] - 1 - Spare(j)) \in Int
      BY <1>10, <3>1, <3>2, CreditFacts DEF Lasts, L
    <3>4. L + AcksPerSlot <= Credit(ackLife[x] - 1 - Spare(j))
      BY <1>3, <1>8, <1>10, <3>3
    <3>5. /\ ackLife[x] - 1 - Spare(j) > 0
          /\ \A s \in Slots : L - 1 + Cardinality(InSlot(s)') <= Credit(ackLife[x] - 1 - Spare(j) - 1)
      BY <1>9, <3>2, <3>4
    <3>6. ackLife'[x] = ackLife[x] - 1 /\ ackLife[x] - 1 > Spare(j)
      BY <1>6, <2>0, <2>3, <3>2, <3>5 DEF Aged
    <3>7. ackLife[x] - 1 - Spare(j) - 1 = (ackLife[x] - 1) - 1 - Spare(j)
      BY <2>0, <3>2
    <3>8. Lasts(x, Spare(j))'
      BY <1>3, <3>5, <3>6, <3>7 DEF Lasts
    <3> QED BY <1>1, <2>x, <3>8
  <2> QED BY <2>2, <2>3
<1> QED BY <1>1, <1>11, SavedOne DEF n, L

\* The tail of what is to be offered, for the token of the call.
LEMMA OfferedOne ==
  ASSUME CacheInv, CacheInv', OfferingInv, NEW a \in Id, OfferingAck(a),
         \A j \in 2 .. Len(toOffer) :
           toOffer[j] \notin acked' =>
             ackLife'[toOffer[j]] > (IF j = 2 \/ callToken \in Range(tokens') THEN 0 ELSE 1)
  PROVE  WildInv'
<1> DEFINE n == Len(toOffer)
<1>1. /\ toOffer \in Seq(Id) /\ toOffer # <<>>
      /\ toSave' = <<>> /\ toOffer' = Tail(toOffer)
      /\ callToken' = IF n = 1 THEN NoToken ELSE callToken
  BY DEF CacheInv, TypeOK, OfferingAck
<1>2. /\ n \in Nat /\ n > 0 /\ Len(toOffer') = n - 1
      /\ \A i \in 1 .. n - 1 : toOffer'[i] = toOffer[i + 1]
  BY <1>1, HeadTailProperties, EmptySeq, LenProperties
<1> HIDE DEF n
<1>3. OfferingInv'
  <2> SUFFICES ASSUME NEW j \in 1 .. n - 1, toOffer'[j] \notin acked'
               PROVE  ackLife'[toOffer'[j]] > (IF j = 1 \/ Known(callToken)' THEN 0 ELSE 1)
    BY <1>2 DEF OfferingInv
  <2>1. j + 1 \in 2 .. n /\ toOffer'[j] = toOffer[j + 1] /\ (j + 1 = 2 <=> j = 1) /\ n # 1
    BY <1>2
  <2>2. ackLife'[toOffer[j + 1]]
          > (IF j + 1 = 2 \/ callToken \in Range(tokens') THEN 0 ELSE 1)
    BY <2>1 DEF n
  <2>3. Known(callToken)' <=> callToken \in Range(tokens')
    BY <1>1, <2>1 DEF Known, TokensUsed
  <2> QED BY <2>1, <2>2, <2>3
<1> QED BY <1>1, <1>3 DEF WildInv, SavingInv

\* What is offered without a collection.
LEMMA OfferQuietly ==
  ASSUME CacheInv, CacheInv', OfferingInv, NEW a \in Id, OfferingAck(a), acked' = acked,
         \A x \in Id : ackLife'[x] = ackLife[x] \/ ackLife'[x] = NumFilters,
         NumFilters > 1, Range(tokens) \subseteq Range(tokens')
  PROVE  WildInv'
<1>1. toOffer \in Seq(Id) /\ ackLife \in [Id -> 0 .. NumFilters] /\ NumFilters \in Nat
  BY FilterAssumption DEF CacheInv, TypeOK, Life
<1>2. ASSUME NEW j \in 2 .. Len(toOffer), toOffer[j] \notin acked'
      PROVE  ackLife'[toOffer[j]] > (IF j = 2 \/ callToken \in Range(tokens') THEN 0 ELSE 1)
  <2>0. j \in 1 .. Len(toOffer) /\ j # 1 /\ toOffer[j] \in Id
    BY <1>1, ElementOfSeq, LenProperties
  <2>1. ackLife[toOffer[j]] > (IF callToken \in Range(tokens) THEN 0 ELSE 1)
    BY <1>2, <2>0 DEF OfferingInv, OfferingAck, Known, TokensUsed
  <2>2. ackLife[toOffer[j]] \in Nat
    BY <1>1, <2>0
  <2>3. ackLife'[toOffer[j]] = ackLife[toOffer[j]] \/ ackLife'[toOffer[j]] = NumFilters
    BY <2>0
  <2>4. callToken \in Range(tokens) => callToken \in Range(tokens')
    OBVIOUS
  <2> QED BY <1>1, <2>1, <2>2, <2>3, <2>4
<1> QED BY <1>2, OfferedOne

\* pcache_ack_for_token, which collects when it has to make room for the token.
LEMMA OfferAckWild ==
  ASSUME CacheInv, CacheInv', ShortPackets, OfferingInv, NEW a \in Id, OfferAck(a)
  PROVE  WildInv'
<1>0. /\ OfferingAck(a) /\ MarkSent({}, {a}) /\ NumFilters > 1 /\ TypeOK
      /\ tokens \in Seq(Token) /\ callToken \in Token
      /\ toOffer \in Seq(Id) /\ ackLife \in [Id -> 0 .. NumFilters] /\ NumFilters \in Nat
  BY FilterAssumption
  DEF OfferAck, OfferingAck, ShortPackets, CacheInv, TypeOK, Life, OneCall
<1>1. CASE MarkKnown({}, {a}) \/ MarkRefused
  BY <1>0, <1>1, OfferQuietly DEF MarkKnown, MarkRefused, ackVars, filterVars
<1>2. ASSUME NEW list \in Seq(Token), tokens' = Append(list, callToken)
      PROVE  callToken \in Range(tokens') /\ Range(list) \subseteq Range(tokens')
  <2>1. /\ Len(tokens') = Len(list) + 1 /\ Len(list) \in Nat /\ DOMAIN list = 1 .. Len(list)
        /\ tokens'[Len(list) + 1] = callToken /\ DOMAIN tokens' = 1 .. Len(list) + 1
        /\ \A i \in 1 .. Len(list) : tokens'[i] = list[i]
    BY <1>0, <1>2, AppendProperties, LenProperties
  <2> QED BY <2>1 DEF Range
<1>3. CASE MarkNew({}, {a})
  BY <1>0, <1>2, <1>3, OfferQuietly DEF MarkNew
<1>4. CASE MarkGc({}, {a})
  <2>1. PICK A \in GcAckChoices : DoGc({}, A) /\ acked' = A
    BY <1>4 DEF MarkGc
  <2>2. \A x \in Id : ackLife'[x] = IF x \in acked \ A THEN NumFilters - 1 ELSE Aged(ackLife[x], 1)
    BY <1>0, <2>1, GcLives
  <2>3. GcTokens \in Seq(Token) /\ tokens' = Append(GcTokens, callToken) /\ ~ Known(callToken)
    BY <1>0, <1>4, GcTokensFacts DEF MarkGc, CacheInv
  <2>4. callToken \in Range(tokens')
    BY <1>2, <2>3
  <2>5. ASSUME NEW j \in 2 .. Len(toOffer), toOffer[j] \notin acked'
        PROVE  ackLife'[toOffer[j]] > 0
    <3>0. j \in 1 .. Len(toOffer) /\ j # 1 /\ toOffer[j] \in Id
      BY <1>0, ElementOfSeq, LenProperties
    <3>1. CASE toOffer[j] \in acked
      BY <1>0, <2>1, <2>2, <2>5, <3>0, <3>1
    <3>2. CASE toOffer[j] \notin acked
      <4>1. ackLife[toOffer[j]] > 1 /\ ackLife[toOffer[j]] \in Nat
        BY <1>0, <2>3, <3>0, <3>2 DEF OfferingInv, OfferingAck
      <4> QED BY <2>2, <3>0, <3>2, <4>1 DEF Aged
    <3> QED BY <3>1, <3>2
  <2> QED BY <1>0, <2>4, <2>5, OfferedOne
<1> QED BY <1>0, <1>1, <1>3, <1>4 DEF MarkSent

NoCall == toSave = <<>> /\ toOffer = <<>>
LEMMA NoCallIsTame == NoCall => WildInv
<1>1. NoCall => Len(toOffer) = 0
  BY EmptySeq DEF NoCall
<1> QED BY <1>1 DEF NoCall, WildInv, SavingInv, OfferingInv

LEMMA NoCallIsTame_prime == NoCall' => WildInv'
BY NoCallIsTame, PTL

LEMMA WildStep ==
  ASSUME CacheInv, CacheInv', Room, ShortPackets, WildInv, [Next]_vars PROVE WildInv'
<1>0. SavingInv /\ OfferingInv /\ OneCall /\ NumFilters > 1
  BY DEF WildInv, CacheInv, ShortPackets
<1>1. ASSUME Idle, UNCHANGED <<toSave, toOffer>> PROVE WildInv'
  BY <1>0, <1>1, NoCallIsTame_prime DEF Idle, OneCall, NoCall
<1>2. ASSUME UNCHANGED <<acked, ackLife, tokens, toSave, toOffer, callToken>> PROVE WildInv'
  BY <1>2 DEF WildInv, SavingInv, OfferingInv, Lasts, InSlot, Known, TokensUsed
<1>3. CASE UNCHANGED vars
  BY <1>2, <1>3 DEF vars, ackVars, filterVars, callVars
<1>4. ASSUME NEW m \in Id, Arrival(m) PROVE WildInv'
  BY <1>1, <1>4 DEF Arrival, SeenBefore, RecordPacket, SavePacket, SavePacketGc, callVars
<1>5. ASSUME NEW a \in Id, AckStep(a) PROVE WildInv'
  <2>1. CASE SkipAck(a)
    BY <1>0, <2>1, SkipAckWild
  <2>2. CASE SaveAck(a)
    BY <1>0, <2>2, SaveAckWild
  <2>3. CASE SaveAckGc(a)
    BY <1>0, <2>3, SaveAckGcWild
  <2>4. CASE OfferForgotten(a)
    <3>1. OfferingAck(a) /\ acked' = acked /\ tokens' = tokens /\ ackLife' = Refreshed(ackLife, a)
      BY <2>4, LookLives DEF OfferForgotten, ackVars
    <3>2. \A x \in Id : ackLife'[x] = ackLife[x] \/ ackLife'[x] = NumFilters
      BY <2>4, <3>1 DEF OfferForgotten, Refreshed, CacheInv, TypeOK
    <3> QED BY <1>0, <3>1, <3>2, OfferQuietly
  <2>5. CASE OfferAck(a)
    BY <1>0, <2>5, OfferAckWild
  <2> QED BY <1>5, <2>1, <2>2, <2>3, <2>4, <2>5 DEF AckStep
<1>6. ASSUME NEW m \in Id, SendAndMark(m) PROVE WildInv'
  BY <1>0, <1>6, NoCallIsTame_prime DEF SendAndMark, OneCall, NoCall
<1>7. ASSUME NEW packet \in AckPackets, ReceiveAcks(packet) PROVE WildInv'
  <2>1. packet \in Seq(Id) /\ packet # <<>> /\ toSave' = packet /\ toOffer' = packet
        /\ Len(packet) <= 2 + (NumFilters - 2) * Freed
    BY <1>7, AckAssumption DEF ReceiveAcks, ShortPackets
  <2>2. Len(packet) \in Nat /\ Len(packet) - Len(packet) = 0
        /\ \A i \in 1 .. Len(packet) : 0 + i = i
    BY <2>1, LenProperties
  <2> QED BY <2>1, <2>2 DEF WildInv, SavingInv, OfferingInv
<1>8. ASSUME Next PROVE WildInv'
  <2>1. ASSUME NEW m \in Id, Expire(m) PROVE WildInv'
    BY <1>2, <2>1 DEF Expire, ackVars, filterVars, callVars
  <2>2. ASSUME NEW t, NEW want, Request(t, want) PROVE WildInv'
    BY <1>0, <2>2, NoCallIsTame_prime
    DEF Request, RequestNothing, RequestData, callVars, Idle, OneCall, NoCall
  <2>3. CASE MinutePasses
    BY <1>2, <2>3 DEF MinutePasses, ackVars, filterVars, callVars
  <2> QED BY <1>4, <1>5, <1>6, <1>7, <1>8, <2>1, <2>2, <2>3 DEF Next
<1> QED BY <1>3, <1>8

(* (pcache_ack_for_token) As long as the acks of a packet are few against the *)
(* room of the filters, and no filter overfills, every ack that process_acks  *)
(* offers is in the ack table or in the filters, however many collections     *)
(* came between: find_one_ack does not return the index -1.                   *)
THEOREM NeverWildRead ==
  ASSUME ShortPackets PROVE Spec => []NoWildRead
<1>1. Init => WildInv
  BY NoCallIsTame DEF Init, NoCall
<1>2. CacheInv /\ CacheInv' /\ Room /\ WildInv /\ [Next]_vars => WildInv'
  BY WildStep
<1>3. CacheInv /\ WildInv => NoWildRead
  <2> SUFFICES ASSUME CacheInv, WildInv, toSave = <<>>, NEW i \in DOMAIN toOffer
               PROVE  toOffer[i] \in acked \/ ackLife[toOffer[i]] > 0
    BY DEF NoWildRead
  <2>1. toOffer \in Seq(Id) /\ ackLife \in [Id -> 0 .. NumFilters]
    BY DEF CacheInv, TypeOK, Life
  <2>2. i \in 1 .. Len(toOffer) /\ toOffer[i] \in Id
    BY <2>1, LenProperties, ElementOfSeq
  <2>3. ackLife[toOffer[i]] \in Int
    BY <2>1, <2>2, FilterAssumption
  <2> QED BY <2>2, <2>3 DEF WildInv, OfferingInv
<1>4. Init => Room
  BY InitRoom
<1>5. CacheInv /\ Room /\ [Next]_vars => Room'
  BY RoomStep
<1> QED BY <1>1, <1>2, <1>3, <1>4, <1>5, CacheInvariant, PTL DEF Spec

-----------------------------------------------------------------------------
(***************************************************************************)
(* An empty answer is still empty.                                         *)
(***************************************************************************)
\* What was asked for when the bit was set has only become less: for some
\* request, each message that is there has expired or is marked.
Served(i, want) == \A m \in Cached \cap want : m \in expired \/ i \in msgSent[m]
ZeroInv == \A i \in zeroReturned : \E want \in Requests : Served(i, want)

\* No message is added, and no mark taken away.
OnlyLess ==
  /\ zeroReturned' \subseteq zeroReturned
  /\ Cached' \subseteq Cached /\ expired \subseteq expired'
  /\ \A m \in Cached' : msgSent[m] \subseteq msgSent'[m]

LEMMA LessIsServed == ASSUME ZeroInv, OnlyLess PROVE ZeroInv'
<1> SUFFICES ASSUME NEW i \in zeroReturned' PROVE \E want \in Requests : Served(i, want)'
  BY DEF ZeroInv
<1>1. PICK want \in Requests : Served(i, want)
  BY DEF ZeroInv, OnlyLess
<1>2. Served(i, want)'
  BY <1>1 DEF Served, OnlyLess
<1> QED BY <1>2

LEMMA MarkZero ==
  ASSUME CacheInv, ZeroInv, NEW M, NEW A, MarkSent(M, A), expired' = expired
  PROVE  ZeroInv'
<1>0. TypeOK
  BY DEF CacheInv
<1>1. CASE MarkKnown(M, A) \/ MarkNew(M, A) \/ MarkRefused
  <2>1. pos' = pos /\ zeroReturned' = zeroReturned
    BY <1>1 DEF MarkKnown, MarkNew, MarkRefused, cacheVars
  <2>2. Cached' = Cached
    BY <2>1 DEF Cached
  <2>3. \A m \in Cached : msgSent[m] \subseteq msgSent'[m]
    BY <1>0, <1>1 DEF MarkKnown, MarkNew, MarkRefused, WithBit, cacheVars, Cached
  <2> QED BY <2>1, <2>2, <2>3, LessIsServed DEF OnlyLess
<1>2. CASE MarkGc(M, A)
  BY <1>2 DEF MarkGc, DoGc, ForceSearch, ZeroInv
<1> QED BY <1>1, <1>2 DEF MarkSent

LEMMA ZeroStep == ASSUME CacheInv, ZeroInv, [Next]_vars PROVE ZeroInv'
<1>0. TypeOK
  BY DEF CacheInv
<1>1. ASSUME UNCHANGED <<pos, msgSent, zeroReturned>>, expired \subseteq expired' PROVE ZeroInv'
  BY <1>1, LessIsServed DEF OnlyLess, Cached
<1>2. ASSUME zeroReturned' = {} PROVE ZeroInv'
  BY <1>2 DEF ZeroInv
<1>3. CASE UNCHANGED vars
  BY <1>1, <1>3 DEF vars, cacheVars
<1>4. ASSUME NEW m \in Id, Arrival(m) PROVE ZeroInv'
  <2>1. CASE SeenBefore(m) \/ RecordPacket(m)
    BY <1>1, <2>1 DEF SeenBefore, RecordPacket, cacheVars
  <2>2. ASSUME NEW p \in Priority, SavePacket(m, p) \/ SavePacketGc(m, p) PROVE ZeroInv'
    BY <1>2, <2>2 DEF SavePacket, SavePacketGc, DoGc, ForceSearch
  <2> QED BY <1>4, <2>1, <2>2 DEF Arrival
<1>5. ASSUME NEW a \in Id, AckStep(a) PROVE ZeroInv'
  <2>1. CASE SkipAck(a) \/ OfferForgotten(a)
    BY <1>1, <2>1 DEF SkipAck, OfferForgotten, SavingAck, OfferingAck, cacheVars
  <2>2. CASE SaveAck(a)
    <3>1. Cached \ {a} \in SUBSET Id
      BY DEF Cached
    <3>2. Cached' = Cached \ {a}
      BY <1>0, <2>2, <3>1, CompactedKeeps DEF SaveAck, Cached
    <3>3. \A m \in Cached' : msgSent'[m] = msgSent[m]
      BY <1>0, <2>2, <3>2 DEF SaveAck, TypeOK, Cached
    <3>4. zeroReturned' = zeroReturned /\ expired' = expired
      BY <2>2 DEF SaveAck, SavingAck
    <3> QED BY <3>2, <3>3, <3>4, LessIsServed DEF OnlyLess
  <2>3. CASE SaveAckGc(a)
    BY <1>2, <2>3 DEF SaveAckGc, DoGc, ForceSearch
  <2>4. CASE OfferAck(a)
    BY <2>4, MarkZero DEF OfferAck, OfferingAck
  <2> QED BY <1>5, <2>1, <2>2, <2>3, <2>4 DEF AckStep
<1>6. ASSUME NEW m \in Id, SendAndMark(m) PROVE ZeroInv'
  BY <1>6, MarkZero DEF SendAndMark
<1>7. ASSUME NEW t \in Clients, NEW want \in Requests, RequestNothing(t, want) PROVE ZeroInv'
  <2>1. /\ Matching(t, want) = {} /\ zeroReturned' = zeroReturned \cup {IndexOf(t)} /\ Known(t)
        /\ UNCHANGED <<pos, msgSent, expired>>
    BY <1>7 DEF RequestNothing, cacheVars
  <2>2. \A i, w : Served(i, w)' = Served(i, w)
    BY <2>1 DEF Served, Cached
  <2>3. Served(IndexOf(t), want)
    BY <2>1 DEF Served, Matching
  <2> QED BY <2>1, <2>2, <2>3 DEF ZeroInv
<1>8. ASSUME Next PROVE ZeroInv'
  <2>1. ASSUME NEW m \in Id, Expire(m) PROVE ZeroInv'
    BY <1>1, <2>1 DEF Expire, cacheVars
  <2>2. ASSUME NEW packet, ReceiveAcks(packet) PROVE ZeroInv'
    BY <1>1, <2>2 DEF ReceiveAcks, cacheVars
  <2>3. ASSUME NEW t, NEW want, RequestData(t, want) PROVE ZeroInv'
    BY <1>1, <2>3 DEF RequestData, cacheVars
  <2>4. CASE MinutePasses
    BY <1>1, <2>4 DEF MinutePasses, cacheVars
  <2> QED BY <1>4, <1>5, <1>6, <1>7, <1>8, <2>1, <2>2, <2>3, <2>4 DEF Next, Request
<1> QED BY <1>3, <1>8

(* (pcache_request) If what the owner of a token asks for stays the same, a   *)
(* search that is skipped because an earlier one found nothing would find     *)
(* nothing, whatever arrived, was marked, shifted or collected since.         *)
THEOREM ZeroAlwaysStillZero ==
  ASSUME \A v, w \in Requests : v = w PROVE Spec => []ZeroIsStillZero
<1>1. Init => ZeroInv
  BY DEF Init, ZeroInv
<1>2. CacheInv /\ ZeroInv /\ [Next]_vars => ZeroInv'
  BY ZeroStep
<1>3. CacheInv /\ ZeroInv => ZeroIsStillZero
  <2> SUFFICES ASSUME CacheInv, ZeroInv, NEW t \in Clients, NEW want \in Requests, Shortcut(t)
               PROVE  Matching(t, want) = {}
    BY DEF ZeroIsStillZero
  <2>1. Served(IndexOf(t), want)
    BY DEF Shortcut, ZeroInv
  <2> QED BY <2>1 DEF Served, Matching, Shortcut
<1> QED BY <1>1, <1>2, <1>3, CacheInvariant, PTL DEF Spec

-----------------------------------------------------------------------------
(***************************************************************************)
(* PCache implements ForwardOnce, for every size of the tables: whatever   *)
(* the hash slots, bitmaps and collections do, the only way a token leaves *)
(* an item that stays is for the token to be forgotten by all items.       *)
(***************************************************************************)
\* The tokens that bits name in a list, and those a collection forgets.
Named(list, bits) == {list[i] : i \in bits}
Forgotten == Named(tokens, 1 .. TokenShift)

\* The abstract values of the two bitmaps.
MsgTo == [m \in Id |-> SentTo(msgSent[m])]
AckTo == [a \in Id |-> IF a \in acked THEN SentTo(ackSent[a]) ELSE {}]

LEMMA AbstractValues ==
  ASSUME CacheInv
  PROVE  /\ MsgTo = [m \in Id |-> Named(tokens, msgSent[m])]
         /\ AckTo = [a \in Id |-> Named(tokens, ackSent[a])]
BY DEF CacheInv, AbsentUnsent, MsgTo, AckTo, SentTo, Named

LEMMA AbstractValues_prime ==
  ASSUME CacheInv'
  PROVE  /\ MsgTo' = [m \in Id |-> Named(tokens', msgSent'[m])]
         /\ AckTo' = [a \in Id |-> Named(tokens', ackSent'[a])]
BY DEF CacheInv, AbsentUnsent, MsgTo, AckTo, SentTo, Named

(* Shifting list and bitmap together forgets the dropped tokens, no others.  *)
LEMMA NamedAfterShift ==
  ASSUME tokens \in Seq(Token), Len(tokens) <= MaxTokens, TokensDistinct,
         NEW bits \in SUBSET (1 .. Len(tokens))
  PROVE  Named(GcTokens, Shifted(bits)) = Named(tokens, bits) \ Forgotten
<1>1. /\ TokenShift \in 0 .. Len(tokens) /\ Len(tokens) \in Nat
      /\ Len(GcTokens) = Len(tokens) - TokenShift
      /\ \A i \in 1 .. Len(GcTokens) : GcTokens[i] = tokens[i + TokenShift]
  BY GcTokensFacts
<1>2. Shifted(bits) \subseteq 1 .. Len(GcTokens)
  BY ShiftedFits
<1>3. ASSUME NEW i \in Shifted(bits)
      PROVE  GcTokens[i] \in Named(tokens, bits) \ Forgotten
  <2>1. PICK j \in bits : j > TokenShift /\ i = j - TokenShift
    BY <1>3 DEF Shifted
  <2>2. GcTokens[i] = tokens[j] /\ j \in 1 .. Len(tokens)
    BY <1>1, <1>2, <2>1
  <2>3. \A k \in 1 .. TokenShift : tokens[k] # tokens[j]
    BY <1>1, <2>1, <2>2 DEF TokensDistinct
  <2> QED BY <2>1, <2>2, <2>3 DEF Named, Forgotten
<1>4. ASSUME NEW t \in Named(tokens, bits) \ Forgotten
      PROVE  t \in Named(GcTokens, Shifted(bits))
  <2>1. PICK j \in bits : t = tokens[j]
    BY <1>4 DEF Named
  <2>2. j > TokenShift
    BY <1>1, <1>4, <2>1 DEF Named, Forgotten
  <2>3. j - TokenShift \in Shifted(bits)
    BY <2>2 DEF Shifted
  <2>4. GcTokens[j - TokenShift] = t
    BY <1>1, <1>2, <2>1, <2>3
  <2> QED BY <2>3, <2>4 DEF Named
<1>5. Named(GcTokens, Shifted(bits)) \subseteq Named(tokens, bits) \ Forgotten
  BY <1>3 DEF Named
<1> QED BY <1>4, <1>5

(* A longer list names the same, and its new bit the new token.              *)
LEMMA NamedAfterAppend ==
  ASSUME NEW list \in Seq(Token), NEW t \in Token, NEW bits \in SUBSET (1 .. Len(list))
  PROVE  /\ Named(Append(list, t), bits) = Named(list, bits)
         /\ Named(Append(list, t), bits \cup {Len(list) + 1})
              = Named(list, bits) \cup {t}
<1>1. /\ \A i \in 1 .. Len(list) : Append(list, t)[i] = list[i]
      /\ Append(list, t)[Len(list) + 1] = t
  BY AppendProperties
<1>2. \A i \in bits : Append(list, t)[i] = list[i]
  BY <1>1
<1> QED BY <1>1, <1>2 DEF Named
\* What a collection leaves of an abstract value.
LEMMA NamedOfKept ==
  ASSUME CacheInv, NEW K, NEW f \in [Id -> SUBSET (1 .. Len(tokens))], NEW k \in Id
  PROVE  Named(GcTokens, IF k \in K THEN Shifted(f[k]) ELSE {})
           = IF k \in K THEN Named(tokens, f[k]) \ Forgotten ELSE {}
<1>1. tokens \in Seq(Token) /\ Len(tokens) <= MaxTokens /\ TokensDistinct
  BY DEF CacheInv, TypeOK
<1>2. Named(GcTokens, Shifted(f[k])) = Named(tokens, f[k]) \ Forgotten
  BY <1>1, NamedAfterShift
<1>3. Named(GcTokens, {}) = {}
  BY DEF Named
<1> QED BY <1>2, <1>3

LEMMA ForgottenAreTokens ==
  ASSUME CacheInv PROVE Forgotten \in SUBSET Token
<1>1. tokens \in Seq(Token) /\ TokenShift \in 0 .. Len(tokens)
  BY GcTokensFacts DEF CacheInv, TypeOK
<1> QED BY <1>1, ElementOfSeq DEF Forgotten, Named

(* Storing a message, whether or not it costs a collection, is Store.        *)
LEMMA SavePacketStores ==
  ASSUME CacheInv, CacheInv', NEW m \in Id, NEW p \in Priority,
         SavePacket(m, p) \/ SavePacketGc(m, p)
  PROVE  Abstract!Store(m)
<1>0. /\ TypeOK /\ TableInv /\ p \in Nat /\ Cached \in SUBSET Id
      /\ m \notin acked /\ m \notin Cached /\ callToken' = callToken
  BY CacheInvParts, InputAssumption DEF CacheInv, SavePacket, SavePacketGc, New,
     Cached, TypeOK, callVars
<1>1. CASE SavePacket(m, p)
  <2>1. Cached' = Cached \cup {m}
    BY <1>0, <1>1, AppendKeeps DEF SavePacket
  <2>2. /\ acked' = acked /\ ackSent' = ackSent /\ tokens' = tokens
        /\ msgSent' = [msgSent EXCEPT ![m] = {}]
    BY <1>1 DEF SavePacket, ackVars
  <2>3. MsgTo' = [i \in Id |-> IF i \in Cached' \ {m} THEN MsgTo[i] \ {} ELSE {}]
    <3>1. \A i \in Id : Named(tokens', msgSent'[i])
                         = IF i \in Cached' \ {m} THEN Named(tokens, msgSent[i])
                           ELSE {}
      BY <1>0, <2>1, <2>2 DEF TableInv, AbsentUnsent, Named
    <3> QED BY <3>1, AbstractValues, AbstractValues_prime
  <2>4. AckTo' = [i \in Id |-> IF i \in acked' THEN AckTo[i] \ {} ELSE {}]
    <3>1. \A i \in Id : Named(tokens', ackSent'[i])
                         = IF i \in acked' THEN Named(tokens, ackSent[i]) ELSE {}
      BY <1>0, <2>2 DEF TableInv, AbsentUnsent, Named
    <3> QED BY <3>1, AbstractValues, AbstractValues_prime
  <2>5. {} \in SUBSET Token
    OBVIOUS
  <2> QED BY <1>0, <2>1, <2>2, <2>3, <2>4, <2>5
          DEF Abstract!Store, Abstract!Remaining, MsgTo, AckTo
<1>2. CASE SavePacketGc(m, p)
  <2> DEFINE K == GcKept({m})
  <2>1. K \subseteq Cached /\ K \in SUBSET Id
    BY <1>0, GcKeptSubset
  <2>2. Cached' = K \cup {m}
    BY <1>0, <1>2, <2>1, AppendKeeps DEF SavePacketGc
  <2>3. PICK A \in GcAckChoices :
          /\ acked' = A
          /\ ackSent' = [a \in Id |-> IF a \in A THEN Shifted(ackSent[a]) ELSE {}]
    BY <1>2 DEF SavePacketGc
  <2>4. A \subseteq acked /\ A \in SUBSET Id
    BY <1>0 DEF GcAckChoices, TypeOK
  <2>5. /\ msgSent' = [k \in Id |-> IF k \in K THEN Shifted(msgSent[k]) ELSE {}]
        /\ tokens' = GcTokens
    BY <1>2 DEF SavePacketGc
  <2> HIDE DEF K
  <2>6. MsgTo' = [i \in Id |-> IF i \in K THEN MsgTo[i] \ Forgotten ELSE {}]
    <3>1. \A k \in Id : Named(GcTokens, msgSent'[k])
            = IF k \in K THEN Named(tokens, msgSent[k]) \ Forgotten ELSE {}
      BY <2>5, NamedOfKept, CacheInvParts DEF TableInv
    <3> QED BY <2>5, <3>1, AbstractValues, AbstractValues_prime
  <2>7. AckTo' = [i \in Id |-> IF i \in A THEN AckTo[i] \ Forgotten ELSE {}]
    <3>1. \A k \in Id : Named(GcTokens, ackSent'[k])
            = IF k \in A THEN Named(tokens, ackSent[k]) \ Forgotten ELSE {}
      BY <2>3, NamedOfKept, CacheInvParts DEF TableInv
    <3> QED BY <2>5, <3>1, AbstractValues, AbstractValues_prime
  <2>8. Cached' \ {m} = K
    BY <1>0, <2>1, <2>2
  <2>9. /\ Cached' \subseteq Cached \cup {m} /\ m \in Cached' /\ acked' \subseteq acked
    BY <2>1, <2>2, <2>3, <2>4
  <2>10. /\ MsgTo' = Abstract!Remaining(MsgTo, Cached' \ {m}, Forgotten)
         /\ AckTo' = Abstract!Remaining(AckTo, acked', Forgotten)
    BY <2>3, <2>6, <2>7, <2>8 DEF Abstract!Remaining
  <2>11. Forgotten \in SUBSET Token
    BY <1>0, ForgottenAreTokens
  <2> QED BY <1>0, <2>9, <2>10, <2>11 DEF Abstract!Store, MsgTo, AckTo
<1> QED BY <1>1, <1>2

(* Storing an ack, whether or not it costs a collection, is StoreAck.        *)
LEMMA SaveAckStores ==
  ASSUME CacheInv, CacheInv', NEW a \in Id, SaveAck(a) \/ SaveAckGc(a)
  PROVE  Abstract!StoreAck(a)
<1>0. /\ TypeOK /\ TableInv /\ Cached \in SUBSET Id
      /\ a \notin acked /\ callToken' = callToken
  BY CacheInvParts DEF CacheInv, SaveAck, SaveAckGc, SavingAck, Cached
<1>1. CASE SaveAck(a)
  <2>1. Cached' = Cached \ {a}
    BY <1>0, <1>1, CompactedKeeps DEF SaveAck, Cached
  <2>2. /\ acked' = acked \cup {a} /\ tokens' = tokens
        /\ ackSent' = [ackSent EXCEPT ![a] = {}]
        /\ msgSent' = [msgSent EXCEPT ![a] = {}]
    BY <1>1 DEF SaveAck
  <2>3. MsgTo' = [i \in Id |-> IF i \in Cached' THEN MsgTo[i] \ {} ELSE {}]
    <3>1. \A i \in Id : Named(tokens', msgSent'[i])
                         = IF i \in Cached' THEN Named(tokens, msgSent[i]) ELSE {}
      BY <1>0, <2>1, <2>2 DEF TableInv, AbsentUnsent, Named
    <3> QED BY <3>1, AbstractValues, AbstractValues_prime
  <2>4. AckTo' = [i \in Id |-> IF i \in acked' \ {a} THEN AckTo[i] \ {} ELSE {}]
    <3>1. \A i \in Id : Named(tokens', ackSent'[i])
                         = IF i \in acked' \ {a} THEN Named(tokens, ackSent[i])
                           ELSE {}
      BY <1>0, <2>2 DEF TableInv, AbsentUnsent, Named
    <3> QED BY <3>1, AbstractValues, AbstractValues_prime
  <2>5. {} \in SUBSET Token
    OBVIOUS
  <2> QED BY <1>0, <2>1, <2>2, <2>3, <2>4, <2>5
          DEF Abstract!StoreAck, Abstract!Remaining, MsgTo, AckTo
<1>2. CASE SaveAckGc(a)
  <2> DEFINE K == GcKept({}) \ {a}
  <2>1. K \subseteq Cached /\ K \in SUBSET Id
    BY <1>0, GcKeptSubset
  <2>2. Cached' = K
    BY <1>0, <1>2, <2>1, CompactedKeeps DEF SaveAckGc, Cached
  <2>3. PICK A \in GcAckChoices :
          /\ acked' = A \cup {a}
          /\ ackSent' = [b \in Id |-> IF b \in A THEN Shifted(ackSent[b]) ELSE {}]
    BY <1>2 DEF SaveAckGc
  <2>4. A \subseteq acked /\ acked' \ {a} = A
    BY <1>0, <2>3 DEF GcAckChoices, TypeOK
  <2>5. /\ msgSent' = [k \in Id |-> IF k \in K THEN Shifted(msgSent[k]) ELSE {}]
        /\ tokens' = GcTokens
    BY <1>2 DEF SaveAckGc
  <2> HIDE DEF K
  <2>6. MsgTo' = [i \in Id |-> IF i \in K THEN MsgTo[i] \ Forgotten ELSE {}]
    <3>1. \A k \in Id : Named(GcTokens, msgSent'[k])
            = IF k \in K THEN Named(tokens, msgSent[k]) \ Forgotten ELSE {}
      BY <2>5, NamedOfKept, CacheInvParts DEF TableInv
    <3> QED BY <2>5, <3>1, AbstractValues, AbstractValues_prime
  <2>7. AckTo' = [i \in Id |-> IF i \in A THEN AckTo[i] \ Forgotten ELSE {}]
    <3>1. \A k \in Id : Named(GcTokens, ackSent'[k])
            = IF k \in A THEN Named(tokens, ackSent[k]) \ Forgotten ELSE {}
      BY <2>3, NamedOfKept, CacheInvParts DEF TableInv
    <3> QED BY <2>5, <3>1, AbstractValues, AbstractValues_prime
  <2>8. K \subseteq Cached \ {a}
    BY <2>1 DEF K
  <2>9. Cached' \subseteq Cached \ {a} /\ acked' \subseteq acked \cup {a} /\ a \in acked'
    BY <2>2, <2>3, <2>4, <2>8
  <2>10. /\ MsgTo' = Abstract!Remaining(MsgTo, Cached', Forgotten)
         /\ AckTo' = Abstract!Remaining(AckTo, acked' \ {a}, Forgotten)
    BY <2>2, <2>4, <2>6, <2>7 DEF Abstract!Remaining
  <2>11. Forgotten \in SUBSET Token
    BY <1>0, ForgottenAreTokens
  <2> QED BY <1>0, <2>9, <2>10, <2>11 DEF Abstract!StoreAck, MsgTo, AckTo
<1> QED BY <1>1, <1>2

\* A step that sends: items keep what they had but for F, the sent ones get t.
SentFrom(before, after, stay, S, F, t) ==
  \A k \in Id : after[k] = IF k \notin stay THEN {}
                           ELSE IF k \in S THEN (before[k] \ F) \cup {t}
                           ELSE before[k] \ F

LEMMA SentFromIsPlus ==
  ASSUME NEW before, NEW after, NEW stay, NEW S, NEW F, NEW t,
         after = [k \in Id |-> after[k]], SentFrom(before, after, stay, S, F, t)
  PROVE  after = Abstract!Plus(Abstract!Remaining(before, stay, F), S \cap stay, t)
<1> DEFINE left == Abstract!Remaining(before, stay, F)
<1>1. \A k \in Id : left[k] = IF k \in stay THEN before[k] \ F ELSE {}
  BY DEF Abstract!Remaining
<1>2. \A k \in Id : after[k] = IF k \in S \cap stay THEN left[k] \cup {t} ELSE left[k]
  BY <1>1 DEF SentFrom
<1> HIDE DEF left
<1>3. after = [k \in Id |-> IF k \in S \cap stay THEN left[k] \cup {t} ELSE left[k]]
  BY <1>2
<1>4. after = Abstract!Plus(left, S \cap stay, t)
  BY <1>3 DEF Abstract!Plus
<1> QED BY <1>4 DEF left

LEMMA SendFrom ==
  ASSUME callToken # NoToken, NEW M, NEW A, NEW F \in SUBSET Token,
         Cached' \subseteq Cached, acked' \subseteq acked,
         SentFrom(MsgTo, MsgTo', Cached', M, F, callToken),
         SentFrom(AckTo, AckTo', acked', A, F, callToken)
  PROVE  Abstract!Send(M, A)
<1>1. MsgTo' = Abstract!Plus(Abstract!Remaining(MsgTo, Cached', F), M \cap Cached', callToken)
  <2>1. MsgTo' = [k \in Id |-> MsgTo'[k]]
    BY DEF MsgTo
  <2> QED BY <2>1, SentFromIsPlus
<1>2. AckTo' = Abstract!Plus(Abstract!Remaining(AckTo, acked', F), A \cap acked', callToken)
  <2>1. AckTo' = [k \in Id |-> AckTo'[k]]
    BY DEF AckTo
  <2> QED BY <2>1, SentFromIsPlus
<1> QED BY <1>1, <1>2 DEF Abstract!Send, MsgTo, AckTo

\* Each item names what it named before but for F, the items S also callToken.
\* `after` is the bitmap after the step, of the items that stay.
NamedFrom(before, list, after, stay, S, F) ==
  \A k \in Id : Named(list, after[k])
    = IF k \notin stay THEN {}
      ELSE IF k \in S THEN (Named(tokens, before[k]) \ F) \cup {callToken}
      ELSE Named(tokens, before[k]) \ F

(* Setting bit n with WithBit, when it stands for callToken in the new list. *)
LEMMA WithBitNames ==
  ASSUME NEW list, NEW n, NEW F, NEW f, NEW before, NEW stay, NEW S,
         \A k \in Id : Named(list, f[k]) = Named(tokens, before[k]) \ F,
         \A k \in Id : Named(list, f[k] \cup {n})
                         = (Named(tokens, before[k]) \ F) \cup {callToken}
  PROVE  NamedFrom(before, list, WithBit(f, stay, S, n), stay, S, F)
<1> DEFINE g == WithBit(f, stay, S, n)
<1>1. Named(list, {}) = {}
  BY DEF Named
<1>2. \A k \in Id : g[k] = IF k \in stay \cap S THEN f[k] \cup {n}
                           ELSE IF k \in stay THEN f[k] ELSE {}
  BY DEF WithBit
<1> HIDE DEF g
<1>3. ASSUME NEW k \in Id, k \notin stay PROVE Named(list, g[k]) = {}
  BY <1>1, <1>2, <1>3
<1>4. ASSUME NEW k \in Id, k \in stay, k \in S
      PROVE  Named(list, g[k]) = (Named(tokens, before[k]) \ F) \cup {callToken}
  <2>1. g[k] = f[k] \cup {n}
    BY <1>2, <1>4
  <2> QED BY <2>1
<1>5. ASSUME NEW k \in Id, k \in stay, k \notin S
      PROVE  Named(list, g[k]) = Named(tokens, before[k]) \ F
  <2>1. g[k] = f[k]
    BY <1>2, <1>5
  <2> QED BY <2>1
<1>6. NamedFrom(before, list, g, stay, S, F)
  BY <1>3, <1>4, <1>5 DEF NamedFrom
<1> QED BY <1>6 DEF g

(* From what each item names after the step to a step of the contract.       *)
LEMMA NamedSends ==
  ASSUME CacheInv, CacheInv', callToken # NoToken, NEW M, NEW A, NEW F \in SUBSET Token,
         Cached' \subseteq Cached, acked' \subseteq acked,
         NamedFrom(msgSent, tokens', msgSent', Cached', M, F),
         NamedFrom(ackSent, tokens', ackSent', acked', A, F)
  PROVE  Abstract!Send(M, A)
<1>1. SentFrom(MsgTo, MsgTo', Cached', M, F, callToken)
  BY AbstractValues, AbstractValues_prime DEF SentFrom, NamedFrom
<1>2. SentFrom(AckTo, AckTo', acked', A, F, callToken)
  BY AbstractValues, AbstractValues_prime DEF SentFrom, NamedFrom
<1> QED BY <1>1, <1>2, SendFrom

(* Marking items M and acks A as sent is Send, or changes no table.          *)
LEMMA MarkSentSends ==
  ASSUME CacheInv, CacheInv', callToken \in Token, NEW M, NEW A, MarkSent(M, A)
  PROVE  \/ Abstract!Send(M, A)
         \/ UNCHANGED <<Cached, acked, MsgTo, AckTo>>
<1>0. /\ TypeOK /\ Cached \in SUBSET Id /\ callToken # NoToken
      /\ tokens \in Seq(Token) /\ Len(tokens) \in Nat /\ Len(tokens) <= MaxTokens
      /\ TokensDistinct /\ DOMAIN tokens = 1 .. Len(tokens)
      /\ msgSent \in [Id -> SUBSET (1 .. Len(tokens))]
      /\ ackSent \in [Id -> SUBSET (1 .. Len(tokens))]
  BY CacheInvParts, LenProperties, TokenAssumption DEF CacheInv, Cached, TypeOK, TableInv
<1>2. CASE MarkKnown(M, A)
  <2> DEFINE n == IndexOf(callToken)
  <2>1. tokens[n] = callToken
    <3>1. \E i \in 1 .. Len(tokens) : tokens[i] = callToken
      BY <1>0, <1>2 DEF MarkKnown, Known, TokensUsed, Range
    <3> QED BY <3>1 DEF IndexOf
  <2>2. /\ Cached' = Cached /\ acked' = acked /\ tokens' = tokens
        /\ msgSent' = WithBit(msgSent, Cached', M, n)
        /\ ackSent' = WithBit(ackSent, acked', A, n)
    BY <1>2 DEF MarkKnown, Cached
  <2> HIDE DEF n
  <2>3. ASSUME NEW bits
        PROVE  /\ Named(tokens', bits) = Named(tokens, bits) \ {}
               /\ Named(tokens', bits \cup {n})
                    = (Named(tokens, bits) \ {}) \cup {callToken}
    BY <2>1, <2>2 DEF Named
  <2>4. NamedFrom(msgSent, tokens', WithBit(msgSent, Cached', M, n), Cached', M, {})
    BY <2>3, WithBitNames
  <2>5. NamedFrom(ackSent, tokens', WithBit(ackSent, acked', A, n), acked', A, {})
    BY <2>3, WithBitNames
  <2> QED BY <1>0, <2>2, <2>4, <2>5, NamedSends
<1>3. CASE MarkNew(M, A)
  <2> DEFINE n == Len(tokens) + 1
  <2>1. /\ Cached' = Cached /\ acked' = acked /\ tokens' = Append(tokens, callToken)
        /\ msgSent' = WithBit(msgSent, Cached', M, n)
        /\ ackSent' = WithBit(ackSent, acked', A, n)
    BY <1>3 DEF MarkNew, Cached
  <2>2. ASSUME NEW f \in [Id -> SUBSET (1 .. Len(tokens))]
        PROVE  /\ \A k \in Id : Named(tokens', f[k]) = Named(tokens, f[k]) \ {}
               /\ \A k \in Id : Named(tokens', f[k] \cup {n})
                                  = (Named(tokens, f[k]) \ {}) \cup {callToken}
    <3>1. ASSUME NEW k \in Id
          PROVE /\ Named(tokens', f[k]) = Named(tokens, f[k]) \ {}
                /\ Named(tokens', f[k] \cup {n})
                     = (Named(tokens, f[k]) \ {}) \cup {callToken}
      <4>1. f[k] \in SUBSET (1 .. Len(tokens))
        OBVIOUS
      <4>2. /\ Named(Append(tokens, callToken), f[k]) = Named(tokens, f[k])
            /\ Named(Append(tokens, callToken), f[k] \cup {n})
                 = Named(tokens, f[k]) \cup {callToken}
        BY <1>0, <4>1, NamedAfterAppend
      <4> QED BY <2>1, <4>2
    <3> QED BY <3>1
  <2> HIDE DEF n
  <2>3. NamedFrom(msgSent, tokens', WithBit(msgSent, Cached', M, n), Cached', M, {})
    BY <1>0, <2>2, WithBitNames
  <2>4. NamedFrom(ackSent, tokens', WithBit(ackSent, acked', A, n), acked', A, {})
    BY <1>0, <2>2, WithBitNames
  <2> QED BY <1>0, <2>1, <2>3, <2>4, NamedSends
<1>4. CASE MarkRefused
  BY <1>4 DEF MarkRefused, cacheVars, ackVars, Cached, MsgTo, AckTo, SentTo
<1>5. CASE MarkGc(M, A)
  <2> DEFINE n == Len(GcTokens) + 1
  <2>1. PICK kept \in GcAckChoices :
          /\ acked' = kept
          /\ ackSent' = WithBit(ShiftAll(ackSent), kept, A, n)
    BY <1>5 DEF MarkGc
  <2>2. /\ Cached' = GcKept({}) /\ GcKept({}) \subseteq Cached
    BY <1>0, <1>5, GcKeptSubset, CompactedKeeps DEF MarkGc, Cached
  <2>3. /\ Cached' \subseteq Cached /\ acked' \subseteq acked
        /\ tokens' = Append(GcTokens, callToken)
        /\ msgSent' = WithBit(ShiftAll(msgSent), Cached', M, n)
        /\ ackSent' = WithBit(ShiftAll(ackSent), acked', A, n)
    BY <1>5, <2>1, <2>2 DEF MarkGc, GcAckChoices
  <2>4. ASSUME NEW f \in [Id -> SUBSET (1 .. Len(tokens))]
        PROVE  /\ \A k \in Id : Named(tokens', ShiftAll(f)[k])
                                  = Named(tokens, f[k]) \ Forgotten
               /\ \A k \in Id : Named(tokens', ShiftAll(f)[k] \cup {n})
                                  = (Named(tokens, f[k]) \ Forgotten) \cup {callToken}
    <3>1. ASSUME NEW k \in Id
          PROVE  /\ Named(tokens', ShiftAll(f)[k]) = Named(tokens, f[k]) \ Forgotten
                 /\ Named(tokens', ShiftAll(f)[k] \cup {n})
                      = (Named(tokens, f[k]) \ Forgotten) \cup {callToken}
      <4> DEFINE T == GcTokens
                 B == Shifted(f[k])
      <4>1. f[k] \in SUBSET (1 .. Len(tokens)) /\ ShiftAll(f)[k] = B
        BY DEF ShiftAll
      <4>2. T \in Seq(Token) /\ B \in SUBSET (1 .. Len(T))
        BY <1>0, <4>1, GcTokensFacts, ShiftedFits
      <4>3. Named(T, B) = Named(tokens, f[k]) \ Forgotten
        BY <1>0, <4>1, NamedAfterShift
      <4> HIDE DEF T, B
      <4>4. /\ Named(Append(T, callToken), B) = Named(T, B)
            /\ Named(Append(T, callToken), B \cup {Len(T) + 1})
                 = Named(T, B) \cup {callToken}
        BY <4>2, NamedAfterAppend
      <4>5. tokens' = Append(T, callToken) /\ n = Len(T) + 1
        BY <2>3 DEF T
      <4> QED BY <4>1, <4>3, <4>4, <4>5
    <3> QED BY <3>1
  <2> HIDE DEF n
  <2>5. NamedFrom(msgSent, tokens', WithBit(ShiftAll(msgSent), Cached', M, n),
                  Cached', M, Forgotten)
    BY <1>0, <2>4, WithBitNames
  <2>6. NamedFrom(ackSent, tokens', WithBit(ShiftAll(ackSent), acked', A, n),
                  acked', A, Forgotten)
    BY <1>0, <2>4, WithBitNames
  <2>7. Forgotten \in SUBSET Token
    BY ForgottenAreTokens
  <2> QED BY <1>0, <2>3, <2>5, <2>6, <2>7, NamedSends
<1> QED BY <1>2, <1>3, <1>4, <1>5 DEF MarkSent

-----------------------------------------------------------------------------
\* What neither stores nor sends leaves the abstract tables alone.
LEMMA OnlyServes ==
  ASSUME UNCHANGED <<Cached, acked, MsgTo, AckTo>> PROVE [Abstract!Next]_Abstract!vars
BY DEF Abstract!Next, Abstract!Serve, Abstract!vars, MsgTo, AckTo

(* Every step of the cache is a step of ForwardOnce or changes nothing there. *)
LEMMA StepRefines ==
  ASSUME CacheInv, CacheInv', [Next]_vars PROVE [Abstract!Next]_Abstract!vars
<1>0. CallInv
  BY CacheInvParts
<1>1. ASSUME UNCHANGED <<cacheVars, ackVars, tokens>> PROVE [Abstract!Next]_Abstract!vars
  BY <1>1, OnlyServes DEF cacheVars, ackVars, Cached, MsgTo, AckTo, SentTo
<1>2. ASSUME NEW m \in Id, Arrival(m) PROVE [Abstract!Next]_Abstract!vars
  <2>1. CASE SeenBefore(m) \/ RecordPacket(m)
    BY <1>1, <2>1 DEF SeenBefore, RecordPacket
  <2>2. CASE \E p \in Priority : SavePacket(m, p) \/ SavePacketGc(m, p)
    BY <2>2, SavePacketStores DEF Abstract!Next
  <2> QED BY <1>2, <2>1, <2>2 DEF Arrival
<1>3. ASSUME NEW a \in Id, AckStep(a) PROVE [Abstract!Next]_Abstract!vars
  <2>1. CASE SkipAck(a) \/ OfferForgotten(a)
    BY <1>1, <2>1 DEF SkipAck, OfferForgotten
  <2>2. CASE SaveAck(a) \/ SaveAckGc(a)
    BY <2>2, SaveAckStores DEF Abstract!Next
  <2>3. CASE OfferAck(a)
    <3>1. callToken \in Token
      BY <1>0, <2>3 DEF OfferAck, OfferingAck, CallInv, OneCall
    <3>2. MarkSent({}, {a})
      BY <2>3 DEF OfferAck
    <3> QED BY <3>1, <3>2, MarkSentSends, OnlyServes DEF Abstract!Next
  <2> QED BY <1>3, <2>1, <2>2, <2>3 DEF AckStep
<1>4. ASSUME NEW m \in Id, SendAndMark(m) PROVE [Abstract!Next]_Abstract!vars
  <2>1. callToken \in Token
    BY <1>0, <1>4 DEF SendAndMark, CallInv, OneCall
  <2>2. MarkSent({m}, {}) \/ MarkSent({}, {})
    <3>1. Found(m) = {m} \/ Found(m) = {}
      BY DEF Found
    <3> QED BY <1>4, <3>1 DEF SendAndMark
  <2> QED BY <2>1, <2>2, MarkSentSends, OnlyServes DEF Abstract!Next
<1>5. ASSUME NEW m \in Id, Expire(m) PROVE [Abstract!Next]_Abstract!vars
  BY <1>1, <1>5 DEF Expire
<1>6. ASSUME NEW packet \in AckPackets, ReceiveAcks(packet)
      PROVE  [Abstract!Next]_Abstract!vars
  BY <1>1, <1>6 DEF ReceiveAcks
<1>7. ASSUME NEW t \in Clients, NEW want \in Requests, Request(t, want)
      PROVE  [Abstract!Next]_Abstract!vars
  BY <1>1, <1>7 DEF Request, RequestNothing, RequestData
<1>8. ASSUME MinutePasses PROVE [Abstract!Next]_Abstract!vars
  BY <1>1, <1>8 DEF MinutePasses
<1>9. CASE UNCHANGED vars
  BY <1>1, <1>9 DEF vars
<1> QED BY <1>2, <1>3, <1>4, <1>5, <1>6, <1>7, <1>8, <1>9 DEF Next

LEMMA InitRefines == Init => Abstract!Init
BY DEF Init, Abstract!Init, Cached, SentTo

(* The cache keeps the promise of ForwardOnce, whatever the sizes of its     *)
(* tables and the order of messages, acks, requests and collections.         *)
THEOREM CacheForwardsOnce == Spec => ImplementsForwardOnce
<1>1. CacheInv /\ CacheInv' /\ [Next]_vars => [Abstract!Next]_Abstract!vars
  BY StepRefines
<1> QED BY <1>1, InitRefines, CacheInvariant, PTL
        DEF Spec, ImplementsForwardOnce, Abstract!Spec
=============================================================================

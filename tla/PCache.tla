------------------------------- MODULE PCache -------------------------------
(***************************************************************************)
(* The packet cache of the AllNet daemon (lib/pcache.c) as the daemon      *)
(* (ad.c, one thread) drives it: the message table, the ack table, the     *)
(* list of tokens its sent_to_tokens bitmaps refer to, the two bloom       *)
(* filters that remember what was thrown away, and the garbage collection  *)
(* that ties them together.                                                *)
(*                                                                         *)
(* A message and its ack are both named by the message id: the code finds  *)
(* one from the other by hashing.  A bitmap over token_list is the set of  *)
(* its bits, bit i standing for token_list[i - 1].                         *)
(***************************************************************************)
EXTENDS Integers, Sequences, FiniteSets, SequencesExt

CONSTANTS
  Id,            \* message ids
  Entries,       \* entries of message_table
  EntryOf,       \* [Id -> Entries]: readb64 (id) % num_message_table_entries
  Size,          \* [Id -> Nat \ {0}]: msize
  Storage,       \* MESSAGE_STORAGE_SIZE
  Header,        \* MESSAGE_HEADER_SIZE
  Slots,         \* groups of ACKS_PER_SLOT acks
  SlotOf,        \* [Id -> Slots]
  AcksPerSlot,   \* ACKS_PER_SLOT
  Clients,       \* tokens of other systems and of local programs
  OwnTokens,     \* values that random_bytes gives local_token
  NoToken,       \* the value of callToken between calls
  MaxTokens,     \* MAX_TOKENS
  NumFilters,    \* NUM_FILTERS, the generations of a bloom filter
  MaxOverflow,   \* most times one gc may overfill filter 0 and advance early
  Priority,      \* message priorities
  Expirable,     \* ids of the messages that carry an expiration
  Uncached,      \* ids of the messages sent with DO_NOT_CACHE
  Hashed,        \* ids computed by hashing the packet (no ACK_REQ)
  LocalClients,  \* the clients connected over the local socket
  AckPackets,    \* the acks of the ack packets that may arrive
  Requests,      \* the data requests: the set of ids the bitmaps match
  ExternalMax,   \* SEND_EXTERNAL_MAX
  LocalMax       \* messages that fit in request_buffer

ASSUME TableAssumption ==
  /\ IsFiniteSet(Id)
  /\ EntryOf \in [Id -> Entries]
  /\ Size \in [Id -> Nat \ {0}]
  /\ Header \in Nat
  /\ Storage \in Nat
  /\ Entries \subseteq Nat
  /\ \A m \in Id : Header + Size[m] <= Storage
ASSUME AckAssumption ==
  /\ SlotOf \in [Id -> Slots]
  /\ AcksPerSlot \in Nat /\ AcksPerSlot > 1
  /\ AckPackets \subseteq Seq(Id) \ {<<>>}
Token == Clients \cup OwnTokens
ASSUME TokenAssumption ==
  /\ MaxTokens \in Nat \ {0}
  /\ NoToken \notin Token
  /\ Clients \cap OwnTokens = {}
  /\ LocalClients \subseteq Clients
ASSUME FilterAssumption ==
  /\ NumFilters \in Nat \ {0}
  /\ MaxOverflow \in Nat
ASSUME InputAssumption ==
  /\ Priority \subseteq Nat
  /\ Expirable \subseteq Id
  /\ Uncached \subseteq Id
  /\ Hashed \subseteq Id
  /\ Requests \subseteq SUBSET Id
  /\ ExternalMax \in Nat \ {0}
  /\ LocalMax \in Nat \ {0}

VARIABLES
  pos,           \* index of a message in the storage of its entry, 0 if absent
  prio,          \* mh.priority
  msgSent,       \* mh.sent_to_tokens
  expired,       \* messages past their expiration (the clock, not the cache)
  acked,         \* ids with a used ack_table entry
  ackSent,       \* ack_table [].sent_to_tokens
  tokens,        \* token_list, num_external_tokens long
  zeroReturned,  \* zero_returned_for_token
  localToken,    \* local_token
  msgLife,       \* PID_MESSAGE_FILTER: generations an id is still found for
  ackLife,       \* PID_ACK_FILTER, likewise
  recentGc,      \* last_gc of token_to_send_to is less than 60s old
  toSave,        \* acks that pcache_save_acks has yet to save
  toOffer,       \* acks that pcache_acks_for_token has yet to look at
  toSend,        \* results of pcache_request yet to be sent and marked
  callToken      \* the token those two calls are for

cacheVars  == <<pos, prio, msgSent>>
ackVars    == <<acked, ackSent>>
filterVars == <<msgLife, ackLife>>
callVars   == <<toSave, toOffer, toSend, callToken>>
vars == <<cacheVars, expired, ackVars, tokens, zeroReturned, localToken,
          filterVars, recentGc, callVars>>

Bit == 1 .. MaxTokens
Life == 0 .. NumFilters

(***************************************************************************)
(* The message table.                                                      *)
(***************************************************************************)
Cached == {m \in Id : pos[m] > 0}
InEntry(e) == {m \in Cached : EntryOf[m] = e}
Footprint(m) == Header + Size[m]
\* The bytes that messages S take, counted.
Space(S) == Cardinality({b \in S \X (1 .. Storage) : b[2] <= Footprint(b[1])})

\* gc_messages_entry deletes a before b: lower priority, or equal and earlier.
DeletedBefore(a, b) ==
  \/ prio[a] < prio[b]
  \/ prio[a] = prio[b] /\ pos[a] < pos[b]

\* Mutant of Recorded: expired messages are deleted without a trace.
MutRecorded(e, extra) ==
  IF Storage \div 2 + extra >= Storage THEN {}
  ELSE {m \in InEntry(e) \ expired : \E k \in InEntry(e) : DeletedBefore(m, k)}

\* What gc_messages_entry may keep when it is to leave `extra` free besides
\* half of the storage, zero or less meaning it frees the whole entry.
Budget(extra) == Storage - (Storage \div 2 + extra)

\* The messages of entry e that survive: the expired ones go first, then the
\* lowest priority until the rest fits the budget.
Kept(e, extra) ==
  LET live == InEntry(e) \ expired IN
  IF Budget(extra) <= 0 THEN {}
  ELSE {m \in live :
          Space({k \in live : k = m \/ DeletedBefore(m, k)}) <= Budget(extra)}

\* The deleted messages whose ids go to the bloom filter: all of them, except
\* that the entry emptied as a whole is emptied silently.
Recorded(e, extra) ==
  IF Budget(extra) <= 0 THEN {} ELSE InEntry(e) \ Kept(e, extra)

\* do_gc asks entry e of new message m for room for m, the others for none.
Extra(e, new) == IF \E m \in new : EntryOf[m] = e
                 THEN Footprint(CHOOSE m \in new : TRUE) ELSE Header

GcKept(new)     == UNION {Kept(e, Extra(e, new)) : e \in Entries}
GcRecorded(new) == UNION {Recorded(e, Extra(e, new)) : e \in Entries}

\* Positions after an entry is compacted to the messages of K.
Compacted(K) ==
  [m \in Id |-> IF m \in K
                THEN Cardinality({k \in K : /\ EntryOf[k] = EntryOf[m]
                                            /\ pos[k] <= pos[m]})
                ELSE 0]
OnlyFor(K, f, none) == [m \in Id |-> IF m \in K THEN f[m] ELSE none]

(***************************************************************************)
(* Tokens.  gc_tokens drops the oldest quarter of a full list, and every   *)
(* bitmap is shifted by as many positions.                                 *)
(***************************************************************************)
TokenShift == IF Len(tokens) < MaxTokens THEN 0
              ELSE Len(tokens) - (3 * MaxTokens) \div 4
GcTokens == SubSeq(tokens, TokenShift + 1, Len(tokens))
Shifted(bits) == {i - TokenShift : i \in {j \in bits : j > TokenShift}}

TokensUsed == Range(tokens)
Known(t) == t \in TokensUsed
\* Mutants of IndexOf: the next bit; always the first token's bit.
MutIndexNext(t) == (CHOOSE i \in 1 .. Len(tokens) : tokens[i] = t) + 1
MutIndexFirst(t) == IF t \in TokensUsed THEN 1 ELSE 0
IndexOf(t) == CHOOSE i \in 1 .. Len(tokens) : tokens[i] = t

(***************************************************************************)
(* The ack table.  gc_ack_slot frees entries at random until at most half  *)
(* of the slot is used.                                                    *)
(***************************************************************************)
InSlot(s) == {a \in acked : SlotOf[a] = s}
GcAckChoices ==
  {A \in SUBSET acked :
     \A s \in Slots :
       LET used == InSlot(s) IN
       IF Cardinality(used) <= AcksPerSlot \div 2
       THEN used \subseteq A
       ELSE Cardinality(A \cap used) = AcksPerSlot \div 2}
SlotFull(a) == Cardinality(InSlot(SlotOf[a])) >= AcksPerSlot

(***************************************************************************)
(* Bloom filters.  An id added to filter 0 is found for NumFilters         *)
(* generations; finding it in an older filter adds it to filter 0 again.   *)
(***************************************************************************)
Refreshed(life, i) == [life EXCEPT ![i] = IF @ > 0 THEN NumFilters ELSE 0]
Remembered(life, i) == [life EXCEPT ![i] = NumFilters]
Aged(n, by) == IF n > by THEN n - by ELSE 0

\* A gc adds the ids S, in an order of its own, overfilling filter 0 (and so
\* advancing all filters) `extra` times on the way, early[i] of them after i
\* was added; pid_advance_bloom then advances once more.
MutGcLife(life, S, extra, early) ==   \* mutant: nothing is added
  [i \in Id |-> Aged(life[i], 1 + extra)]
GcLife(life, S, extra, early) ==
  [i \in Id |-> IF i \in S THEN Aged(NumFilters, 1 + early[i])
                           ELSE Aged(life[i], 1 + extra)]

\* One lookup leaves the filters as msg and ack.  When it added an id to filter
\* 0 and that overfilled the filter, all filters advance at once.
Look(msg, ack) ==
  \/ msgLife' = msg /\ ackLife' = ack
  \/ /\ MaxOverflow > 0
     /\ <<msg, ack>> # <<msgLife, ackLife>>
     /\ msgLife' = [i \in Id |-> Aged(msg[i], 1)]
     /\ ackLife' = [i \in Id |-> Aged(ack[i], 1)]

\* The next request searches the table even after an empty answer.
MutForceSearch == UNCHANGED zeroReturned       \* mutant: the bits stay
ForceSearch == zeroReturned' = {}

\* random_bytes: a token in use nowhere, which a forgotten one may stand for.
ReinitLocalToken ==
  localToken' \in OwnTokens \ (Range(GcTokens) \cup {localToken, callToken})

(***************************************************************************)
(* do_gc, as far as no caller changes the result: `new` holds the message  *)
(* that needs room, if any; acks A stay.  The tables themselves are left   *)
(* to the caller, which stores something in them in the same step.         *)
(***************************************************************************)
DoGc(new, A) ==
  LET gone == acked \ A
      dropped == GcRecorded(new) \cup gone
  IN /\ ForceSearch
     /\ ReinitLocalToken
     /\ \E extra \in 0 .. MaxOverflow : \E early \in [dropped -> 0 .. extra] :
          /\ msgLife' = GcLife(msgLife, dropped, extra, early)
          /\ ackLife' = GcLife(ackLife, gone, extra, early)

(***************************************************************************)
(* Init: init_pcache with no files to read.                                *)
(***************************************************************************)
Init ==
  /\ pos = [m \in Id |-> 0]
  /\ prio = [m \in Id |-> 0]
  /\ msgSent = [m \in Id |-> {}]
  /\ expired = {}
  /\ acked = {}
  /\ ackSent = [a \in Id |-> {}]
  /\ tokens = <<>>
  /\ zeroReturned = {}
  /\ localToken \in OwnTokens
  /\ msgLife = [m \in Id |-> 0]
  /\ ackLife = [a \in Id |-> 0]
  /\ recentGc = FALSE
  /\ toSave = <<>> /\ toOffer = <<>> /\ toSend = <<>>
  /\ callToken = NoToken

Idle == callToken = NoToken

(***************************************************************************)
(* A message arrives and is neither an ack nor a data request: the part of *)
(* process_message that touches the cache.  An acked or known message is   *)
(* not stored; the lookup refreshes the filter.                            *)
(***************************************************************************)
SeenBefore(m) ==
  /\ Idle /\ m \notin acked /\ m \notin expired
  /\ msgLife[m] > 0
  /\ Look(Refreshed(msgLife, m), ackLife)
  /\ UNCHANGED <<cacheVars, expired, ackVars, tokens, zeroReturned, localToken,
                 recentGc, callVars>>

\* Mutant of New: pcache_id_acked is not asked.
MutNew(m) == m \notin expired /\ msgLife[m] = 0 /\ pos[m] = 0
New(m) == m \notin acked /\ m \notin expired /\ msgLife[m] = 0 /\ pos[m] = 0

RecordPacket(m) ==
  /\ Idle /\ New(m) /\ m \in Uncached
  /\ Look(Remembered(msgLife, m), ackLife)
  /\ UNCHANGED <<cacheVars, expired, ackVars, tokens, zeroReturned, localToken,
                 recentGc, callVars>>

MutFits(m) == Space(InEntry(EntryOf[m])) <= Storage  \* mutant: m not counted
Fits(m) == Space(InEntry(EntryOf[m])) + Footprint(m) <= Storage

\* Append m to the messages K left in the table.
Append_(m, p, K) ==
  /\ pos' = [Compacted(K) EXCEPT
               ![m] = 1 + Cardinality({k \in K : EntryOf[k] = EntryOf[m]})]
  /\ prio' = [OnlyFor(K, prio, 0) EXCEPT ![m] = p]

SavePacket(m, p) ==
  /\ Idle /\ New(m) /\ m \notin Uncached
  /\ Fits(m)
  /\ Append_(m, p, Cached)
  /\ msgSent' = [msgSent EXCEPT ![m] = {}]
  /\ ForceSearch
  /\ UNCHANGED <<expired, ackVars, tokens, localToken, filterVars, recentGc,
                 callVars>>

SavePacketGc(m, p) ==
  /\ Idle /\ New(m) /\ m \notin Uncached
  /\ ~ Fits(m)
  /\ \E A \in GcAckChoices :
       /\ DoGc({m}, A)
       /\ acked' = A
       /\ ackSent' = [a \in Id |-> IF a \in A THEN Shifted(ackSent[a]) ELSE {}]
  /\ Append_(m, p, GcKept({m}))
  /\ msgSent' = [k \in Id |-> IF k \in GcKept({m}) THEN Shifted(msgSent[k])
                               ELSE {}]
  /\ tokens' = GcTokens
  /\ UNCHANGED <<expired, recentGc, callVars>>

\* Time passes the expiration of a message.
Expire(m) ==
  /\ m \in Expirable \ expired
  /\ expired' = expired \cup {m}
  /\ UNCHANGED <<cacheVars, ackVars, tokens, zeroReturned, localToken,
                 filterVars, recentGc, callVars>>

(***************************************************************************)
(* An ack packet: process_acks notes the local token, saves every ack,     *)
(* and then keeps those not yet sent to the token it noted.                *)
(***************************************************************************)
ReceiveAcks(packet) ==
  /\ Idle
  /\ toSave' = packet /\ toOffer' = packet /\ callToken' = localToken
  /\ UNCHANGED <<cacheVars, expired, ackVars, tokens, zeroReturned, localToken,
                 filterVars, recentGc, toSend>>

SavingAck(a) ==
  /\ toSave # <<>> /\ a = Head(toSave)
  /\ toSave' = Tail(toSave)
  /\ UNCHANGED <<expired, recentGc, toOffer, toSend, callToken>>

\* save_one_ack: found in the filter, or already stored.
SkipAck(a) ==
  /\ SavingAck(a)
  /\ a \in acked \/ ackLife[a] > 0
  /\ Look(msgLife, Refreshed(ackLife, a))
  /\ UNCHANGED <<cacheVars, ackVars, tokens, zeroReturned, localToken>>

\* save_one_ack: a free index in the slot; the message is deleted.
SaveAck(a) ==
  /\ SavingAck(a)
  /\ a \notin acked /\ ackLife[a] = 0
  /\ ~ SlotFull(a)
  /\ acked' = acked \cup {a}
  /\ ackSent' = [ackSent EXCEPT ![a] = {}]
  /\ pos' = Compacted(Cached \ {a})
  /\ prio' = [prio EXCEPT ![a] = 0]
  /\ msgSent' = [msgSent EXCEPT ![a] = {}]
  /\ UNCHANGED <<tokens, zeroReturned, localToken, filterVars>>

\* save_one_ack: the slot is full.
SaveAckGc(a) ==
  /\ SavingAck(a)
  /\ a \notin acked /\ ackLife[a] = 0
  /\ SlotFull(a)
  /\ \E A \in GcAckChoices :
       /\ DoGc({}, A)
       /\ acked' = A \cup {a}
       /\ ackSent' = [b \in Id |-> IF b \in A THEN Shifted(ackSent[b]) ELSE {}]
  /\ LET K == GcKept({}) \ {a} IN
       /\ pos' = Compacted(K)
       /\ prio' = OnlyFor(K, prio, 0)
       /\ msgSent' = [k \in Id |-> IF k \in K THEN Shifted(msgSent[k]) ELSE {}]
  /\ tokens' = GcTokens

(***************************************************************************)
(* token_to_send_to, followed by setting the bit of callToken for messages *)
(* M and acks A that are in the tables.  `sent` says that the caller's     *)
(* bitmap already has the bit; the message path passes an empty bitmap.    *)
(***************************************************************************)
Full == Len(tokens) >= MaxTokens

\* The bitmaps f of the items kept, with bit i set for the items of S.
WithBit(f, kept, S, i) ==
  [k \in Id |-> IF k \in kept \cap S THEN f[k] \cup {i}
                ELSE IF k \in kept THEN f[k] ELSE {}]
ShiftAll(f) == [k \in Id |-> Shifted(f[k])]

MarkKnown(M, A) ==
  /\ Known(callToken)
  /\ msgSent' = WithBit(msgSent, Cached, M, IndexOf(callToken))
  /\ ackSent' = WithBit(ackSent, acked, A, IndexOf(callToken))
  /\ UNCHANGED <<pos, prio, acked, tokens, zeroReturned, localToken, recentGc,
                 msgLife, ackLife>>

MarkNew(M, A) ==
  /\ ~ Known(callToken) /\ ~ Full
  /\ tokens' = Append(tokens, callToken)
  /\ msgSent' = WithBit(msgSent, Cached, M, Len(tokens) + 1)
  /\ ackSent' = WithBit(ackSent, acked, A, Len(tokens) + 1)
  /\ UNCHANGED <<pos, prio, acked, zeroReturned, localToken, recentGc, msgLife,
                 ackLife>>

\* A new token, but the list was full and collected within the last minute:
\* the caller is told that the item was sent before.
MarkRefused ==
  /\ ~ Known(callToken) /\ Full /\ recentGc
  /\ UNCHANGED <<cacheVars, ackVars, tokens, zeroReturned, localToken, recentGc,
                 filterVars>>

MarkGc(M, A) ==
  /\ ~ Known(callToken) /\ Full /\ ~ recentGc
  /\ \E kept \in GcAckChoices :
       /\ DoGc({}, kept)
       /\ acked' = kept
       /\ ackSent' = WithBit(ShiftAll(ackSent), kept, A, Len(GcTokens) + 1)
  /\ pos' = Compacted(GcKept({}))
  /\ prio' = OnlyFor(GcKept({}), prio, 0)
  /\ msgSent' = WithBit(ShiftAll(msgSent), GcKept({}), M, Len(GcTokens) + 1)
  /\ tokens' = Append(GcTokens, callToken)
  /\ recentGc' = TRUE

MarkSent(M, A) == MarkKnown(M, A) \/ MarkNew(M, A) \/ MarkRefused \/ MarkGc(M, A)

\* One call of pcache_ack_for_token out of pcache_acks_for_token.
OfferingAck(a) ==
  /\ toSave = <<>> /\ toOffer # <<>> /\ a = Head(toOffer)
  /\ toOffer' = Tail(toOffer)
  /\ callToken' = IF Len(toOffer) = 1 THEN NoToken ELSE callToken
  /\ UNCHANGED <<expired, toSave, toSend>>

OfferForgotten(a) ==
  /\ OfferingAck(a)
  /\ ackLife[a] > 0
  /\ Look(msgLife, Refreshed(ackLife, a))
  /\ UNCHANGED <<cacheVars, ackVars, tokens, zeroReturned, localToken, recentGc>>

\* For an ack that is not in the table either, find_one_ack returns -1 and the bitmap
\* is read from whatever lies before ack_table (NoWildRead).
OfferAck(a) ==
  /\ OfferingAck(a)
  /\ ackLife[a] = 0
  /\ MarkSent({}, {a})

(***************************************************************************)
(* A data request from the system or program that owns token t.            *)
(***************************************************************************)
TableOrder(a, b) ==
  \/ EntryOf[a] < EntryOf[b]
  \/ EntryOf[a] = EntryOf[b] /\ pos[a] < pos[b]

Matching(t, want) ==
  {m \in Cached \cap want : /\ m \notin expired
                            /\ ~ (Known(t) /\ IndexOf(t) \in msgSent[m])}

\* max, or for a local program what fits in request_buffer.
MaxFor(t) == IF t \in LocalClients THEN LocalMax ELSE ExternalMax

\* The first MaxFor(t) matches in table order: what precedes an element of the
\* answer in the table precedes it in the answer.  (One sequence.)
Answers(t, want) ==
  LET found == Matching(t, want)
      n == IF Cardinality(found) > MaxFor(t) THEN MaxFor(t)
           ELSE Cardinality(found)
  IN {s \in [1 .. n -> found] :
        \A i \in 1 .. n :
          {k \in found : TableOrder(k, s[i])} = {s[j] : j \in 1 .. i - 1}}

\* The search is skipped after an empty answer to the same token.
Shortcut(t) == Known(t) /\ IndexOf(t) \in zeroReturned

RequestNothing(t, want) ==
  /\ Idle
  /\ Known(t) /\ ~ Shortcut(t)
  /\ Matching(t, want) = {}
  /\ zeroReturned' = zeroReturned \cup {IndexOf(t)}
  /\ UNCHANGED <<cacheVars, expired, ackVars, tokens, localToken, filterVars,
                 recentGc, callVars>>

RequestData(t, want) ==
  /\ Idle
  /\ ~ Shortcut(t)
  /\ Matching(t, want) # {}
  /\ toSend' \in Answers(t, want)
  /\ callToken' = t
  /\ UNCHANGED <<cacheVars, expired, ackVars, tokens, zeroReturned, localToken,
                 filterVars, recentGc, toSave, toOffer>>

\* send_message_to_one adds two bytes to what it sends on a local socket
\* before it marks it, so that a hashed id is not found again.
MutFound(m) == {}                   \* mutant: the two bytes always count
Found(m) ==
  {k \in Cached : k = m /\ ~ (callToken \in LocalClients /\ m \in Hashed)}

SendAndMark(m) ==
  /\ toSend # <<>> /\ m = Head(toSend)
  /\ toSend' = Tail(toSend)
  /\ callToken' = IF Len(toSend) = 1 THEN NoToken ELSE callToken
  /\ UNCHANGED <<expired, toSave, toOffer>>
  /\ MarkSent(Found(m), {})

\* The minute since the last gc of the tokens is over.
MinutePasses ==
  /\ recentGc
  /\ recentGc' = FALSE
  /\ UNCHANGED <<cacheVars, expired, ackVars, tokens, zeroReturned, localToken,
                 filterVars, callVars>>

Arrival(m) ==
  \/ SeenBefore(m)
  \/ RecordPacket(m)
  \/ \E p \in Priority : SavePacket(m, p) \/ SavePacketGc(m, p)

AckStep(a) ==
  \/ SkipAck(a) \/ SaveAck(a) \/ SaveAckGc(a)
  \/ OfferForgotten(a) \/ OfferAck(a)

Request(t, want) == RequestNothing(t, want) \/ RequestData(t, want)

Next ==
  \/ \E m \in Id : Arrival(m) \/ AckStep(m) \/ SendAndMark(m) \/ Expire(m)
  \/ \E packet \in AckPackets : ReceiveAcks(packet)
  \/ \E t \in Clients, want \in Requests : Request(t, want)
  \/ MinutePasses

Spec == Init /\ [][Next]_vars
=============================================================================

---------------------------- MODULE PCacheProps -----------------------------
(* The properties of PCache, and its refinement of ForwardOnce. *)
EXTENDS PCache

(* Every variable holds a value of its C type: positions count from 1 within *)
(* the entry, bitmaps have MAX_TOKENS bits, a generation is one of the       *)
(* NUM_FILTERS filters, queues hold ids.                                     *)
TypeOK ==
  /\ pos \in [Id -> Nat]
  /\ prio \in [Id -> Nat]
  /\ msgSent \in [Id -> SUBSET Bit]
  /\ expired \subseteq Id
  /\ acked \subseteq Id
  /\ ackSent \in [Id -> SUBSET Bit]
  /\ tokens \in Seq(Token)
  /\ zeroReturned \subseteq Bit
  /\ localToken \in OwnTokens
  /\ msgLife \in [Id -> Life]
  /\ ackLife \in [Id -> Life]
  /\ recentGc \in BOOLEAN
  /\ toSave \in Seq(Id) /\ toOffer \in Seq(Id) /\ toSend \in Seq(Id)
  /\ callToken \in Token \cup {NoToken}

(* No table overflows: after every call an entry's messages fit its storage, *)
(* a slot holds no more acks than it has room for and the token list at most *)
(* MAX_TOKENS tokens.  A gc that frees too little would end in the exit (1)  *)
(* of pcache_save_packet or the debug_crash of save_one_ack.                 *)
TablesFit ==
  /\ \A e \in Entries : Space(InEntry(e)) <= Storage
  /\ \A s \in Slots : Cardinality(InSlot(s)) <= AcksPerSlot
  /\ Len(tokens) <= MaxTokens

(* A bitmap only has bits of tokens that are in the list.  A bit beyond its  *)
(* end would make the next new token count as already served, and its owner  *)
(* would never be sent the message or ack.                                   *)
BitsNameTokens ==
  /\ \A m \in Id : msgSent[m] \subseteq 1 .. Len(tokens)
  /\ \A a \in acked : ackSent[a] \subseteq 1 .. Len(tokens)
  /\ zeroReturned \subseteq 1 .. Len(tokens)

(* No token is listed twice: with two bits for one token, an item marked     *)
(* under one of them would be sent again under the other.                    *)
TokensDistinct ==
  \A i, j \in 1 .. Len(tokens) : tokens[i] = tokens[j] => i = j

(* One call is under way at a time: a message is only sent between an answer *)
(* and the end of its call, never while acks are saved or offered.           *)
OneCall ==
  /\ callToken = NoToken => toSave = <<>> /\ toOffer = <<>> /\ toSend = <<>>
  /\ toSend # <<>> => toSave = <<>> /\ toOffer = <<>>

(* Nothing is marked for what is not stored: a message or ack that comes     *)
(* (back) into its table has been sent to nobody.                            *)
AbsentUnsent ==
  \A i \in Id : /\ i \notin Cached => msgSent[i] = {}
                /\ i \notin acked => ackSent[i] = {}

(* Once its ack is stored, a message is not cached any more, and it is not   *)
(* cached again when it arrives late (process_message asks pcache_id_acked   *)
(* first).                                                                   *)
AckSupersedes == acked \cap Cached = {}

(* The inductive invariant of the proofs: what the last five say, with the   *)
(* types and the length of the token list.                                   *)
CacheInv ==
  /\ TypeOK /\ Len(tokens) <= MaxTokens
  /\ BitsNameTokens /\ TokensDistinct /\ OneCall /\ AbsentUnsent /\ AckSupersedes

(* When process_acks offers the acks it has just saved, each is in the ack   *)
(* table or in the ack filter, however many collections saving the others    *)
(* took: the bitmap at index -1 of ack_table is not read.                    *)
NoWildRead ==
  toSave = <<>> =>
    \A i \in DOMAIN toOffer : toOffer[i] \in acked \/ ackLife[toOffer[i]] > 0

(* A search that is skipped because of zero_returned_for_token would have    *)
(* found nothing, whichever of the modelled requests it is for: Requests are *)
(* the bitmaps that one owner of a token asks with.                          *)
ZeroIsStillZero ==
  \A t \in Clients, want \in Requests :
    Shortcut(t) => Matching(t, want) = {}

(* A message leaves the table acked or into the bloom filter, which "save[s] *)
(* acks and IDs that are removed from the main tables" (pid_bloom.c): a copy *)
(* of it that arrives next is recognised.                                    *)
RemovedIsRemembered ==
  [][\A m \in Cached : m \in Cached' \/ m \in acked' \/ msgLife'[m] > 0]_vars

(* The cache implements ForwardOnce: bit i of an item means token_list[i].   *)
SentTo(bits) == {tokens[i] : i \in bits}
Abstract == INSTANCE ForwardOnce WITH
  cached <- Cached, serving <- callToken,
  msgTo  <- [m \in Id |-> SentTo(msgSent[m])],
  ackTo  <- [a \in Id |-> IF a \in acked THEN SentTo(ackSent[a]) ELSE {}]
ImplementsForwardOnce == Abstract!Spec

-----------------------------------------------------------------------------
(* What the comments say and the code does not do. *)

(* pcache.h: "mark that this message need never again be sent to this        *)
(* token": a message just sent to the token of a data request is marked, if  *)
(* it is still cached.                                                       *)
SentIsMarked ==
  [][\A m \in Cached' :
       (toSend # <<>> /\ m = Head(toSend) /\ toSend' = Tail(toSend))
         => callToken \in {tokens'[i] : i \in msgSent'[m]}]_vars
=============================================================================
